----------------------------- MODULE CliProofs -----------------------------
(***************************************************************************)
(* Theorems about Converter and Cli, for every width, every number of      *)
(* ports and users and all sizes, without the bounds of the runs.          *)
(*                                                                         *)
(* First what commands do to numbers; then what Cli writes to a table file *)
(* and reads back.  The lines of a file are sorted by port; that there is  *)
(* such an order is proved by descent on the number of users, with the     *)
(* library's theorem that a well-founded order has minimal elements.  From *)
(* the types of Cli and the numbers of a table, which are cut once and for *)
(* all when it is read, follow the properties of exports, caps and usages. *)
(***************************************************************************)
EXTENDS Cli, TLAPS, FiniteSetTheorems

-----------------------------------------------------------------------------
(***************************************************************************)
(* Each unit is a positive number of bytes.                                *)
(***************************************************************************)
LEMMA BytesPositive ==
  ASSUME NEW u \in Unit
  PROVE  Bytes(u) \in Nat \ {0}
<1> DEFINE K2 == Kilo * Kilo
           K3 == K2 * Kilo
           K4 == K3 * Kilo
<1>1. \A a, b \in Nat \ {0} : a * b \in Nat \ {0}
  OBVIOUS
<1>2. Kilo \in Nat \ {0}
  BY KiloAssumption
<1>3. K2 \in Nat \ {0}
  BY <1>1, <1>2
<1>4. K3 \in Nat \ {0}
  <2> HIDE DEF K2
  <2> QED BY <1>1, <1>2, <1>3
<1>5. K4 \in Nat \ {0}
  <2> HIDE DEF K3
  <2> QED BY <1>1, <1>2, <1>4
<1> QED BY <1>2, <1>3, <1>4, <1>5 DEF Bytes, Unit

(***************************************************************************)
(* The unit that parse_size finds is one, and does not depend on what bare *)
(* numbers count if any letter is there.                                   *)
(***************************************************************************)
LEMMA UnitFound ==
  ASSUME NEW t \in Text, NEW b \in Unit, NEW c \in Unit
  PROVE  /\ UnitOf(t.letters, b) \in Unit
         /\ t.letters # {} => UnitOf(t.letters, b) = UnitOf(t.letters, c)
BY DEF Text, Unit, UnitOf

(***************************************************************************)
(* Half of a word.                                                         *)
(***************************************************************************)
LEMMA MaxSignedBounds ==
  /\ MaxSigned \in Nat \ {0} /\ MaxSigned < Word
  /\ 2 * (MaxSigned + 1) = Word /\ PortWord <= MaxSigned + 1
BY WordAssumption, PortWordAssumption DEF MaxSigned

(***************************************************************************)
(* parse_size returns a number of its width, and the size that was meant   *)
(* if a signed number holds it (converter.cpp:17).                         *)
(***************************************************************************)
THEOREM ParseSizeExact ==
  ASSUME NEW t \in Text, NEW usegig \in BOOLEAN
  PROVE  LET meant == t.num * Bytes(UnitOf(t.letters, IF usegig THEN "G" ELSE "B"))
         IN  /\ ParseSize(t, usegig) \in 0 .. Word - 1
             /\ meant <= MaxSigned => ParseSize(t, usegig) = meant
<1> DEFINE b == Bytes(UnitOf(t.letters, IF usegig THEN "G" ELSE "B"))
<1>1. b \in Nat \ {0}
  <2>1. (IF usegig THEN "G" ELSE "B") \in Unit
    BY DEF Unit
  <2> QED BY <2>1, UnitFound, BytesPositive
<1>2. t.num \in Nat
  BY DEF Text
<1>3. Atoll(t.num) \in Nat
  BY <1>2, MaxSignedBounds DEF Atoll
<1>4. Word \in Nat \ {0}
  BY WordAssumption
<1> HIDE DEF b
<1>5. Atoll(t.num) * b \in Nat
  BY <1>1, <1>3
<1>6. ParseSize(t, usegig) = (Atoll(t.num) * b) % Word
  BY DEF ParseSize, b
<1>7. ParseSize(t, usegig) \in 0 .. Word - 1
  <2>1. \A n \in Nat, w \in Nat \ {0} : n % w \in 0 .. w - 1
    OBVIOUS
  <2> QED BY <1>4, <1>5, <1>6, <2>1
<1>8. ASSUME t.num * b <= MaxSigned
      PROVE  ParseSize(t, usegig) = t.num * b
  <2>1. t.num <= t.num * b
    BY <1>1, <1>2
  <2>2. Atoll(t.num) = t.num
    BY <1>2, <1>8, <2>1, <1>1, MaxSignedBounds DEF Atoll
  <2>3. t.num * b \in 0 .. Word - 1
    BY <1>8, <1>4, <1>5, <2>2, MaxSignedBounds
  <2>4. \A n \in 0 .. Word - 1 : n % Word = n
    BY <1>4
  <2> QED BY <1>6, <2>2, <2>3, <2>4
<1> QED BY <1>7, <1>8 DEF b

(***************************************************************************)
(* A number that write_conf prints and load_conf parses comes back if a    *)
(* signed number holds it, and is cut to the largest one otherwise         *)
(* (operation.cpp:232, operation.cpp:122); reading once more changes       *)
(* nothing.                                                                *)
(***************************************************************************)
THEOREM NumbersReadBack ==
  ASSUME NEW n \in Nat
  PROVE  /\ ParseSize(Decimal(n), FALSE) = IF n <= MaxSigned THEN n ELSE MaxSigned
         /\ ParseSize(Decimal(ParseSize(Decimal(n), FALSE)), FALSE)
              = ParseSize(Decimal(n), FALSE)
<1>1. \A k \in Nat : ParseSize(Decimal(k), FALSE) = Atoll(k) % Word
  <2>1. UnitOf({}, "B") = "B" /\ Bytes("B") = 1
    BY DEF UnitOf, Bytes
  <2> TAKE k \in Nat
  <2>2. Atoll(k) \in Nat
    BY MaxSignedBounds DEF Atoll
  <2>3. ParseSize(Decimal(k), FALSE) = (Atoll(k) * 1) % Word
    BY <2>1 DEF ParseSize, Decimal
  <2>4. Atoll(k) * 1 = Atoll(k)
    BY <2>2
  <2> QED BY <2>3, <2>4, Zenon
<1>2. \A k \in Nat : Atoll(k) % Word = IF k <= MaxSigned THEN k ELSE MaxSigned
  <2> TAKE k \in Nat
  <2>1. \A j \in 0 .. MaxSigned : j % Word = j
    <3>1. Word \in Nat \ {0} /\ MaxSigned \in Nat /\ MaxSigned < Word
      BY WordAssumption, MaxSignedBounds
    <3>2. \A j \in Nat : j < Word => j % Word = j
      BY <3>1
    <3> QED BY <3>1, <3>2
  <2>2. Atoll(k) \in 0 .. MaxSigned /\ Atoll(k) = IF k <= MaxSigned THEN k ELSE MaxSigned
    BY MaxSignedBounds DEF Atoll
  <2> QED BY <2>1, <2>2
<1> QED BY <1>1, <1>2, MaxSignedBounds

(***************************************************************************)
(* A quotient and what is left of it.                                      *)
(***************************************************************************)
LEMMA Quotient ==
  ASSUME NEW a \in Nat, NEW b \in Nat \ {0}
  PROVE  a \div b \in Nat /\ (a \div b) * b <= a /\ a < (a \div b) * b + b
OBVIOUS

(***************************************************************************)
(* The unit that convert_to_string picks, and reads again in its letters.  *)
(***************************************************************************)
LEMMA UnitShown ==
  ASSUME NEW n \in Nat
  PROVE  /\ ShownUnit(n) \in Unit
         /\ UnitOf(ConvertToString(n).letters, "B") = ShownUnit(n)
         /\ n > 0 => n >= Bytes(ShownUnit(n))
         /\ n < Kilo * Bytes(ShownUnit(n)) \/ ShownUnit(n) = "T"
<1>1. ShownUnit(n) \in Unit
  BY DEF ShownUnit, Unit
<1>2. UnitOf(ConvertToString(n).letters, "B") = ShownUnit(n)
  <2>1. ConvertToString(n).letters = IF ShownUnit(n) = "B" THEN {"B"} ELSE {ShownUnit(n), "B"}
    BY DEF ConvertToString
  <2>2. \A u \in Unit : UnitOf(IF u = "B" THEN {"B"} ELSE {u, "B"}, "B") = u
    BY DEF UnitOf, Unit
  <2> QED BY <1>1, <2>1, <2>2
<1>3. /\ Bytes("B") = 1 /\ Bytes("K") = Kilo * Bytes("B")
      /\ Bytes("M") = Kilo * Bytes("K") /\ Bytes("G") = Kilo * Bytes("M")
      /\ Bytes("T") = Kilo * Bytes("G")
  <2> DEFINE K2 == Kilo * Kilo
             K3 == K2 * Kilo
  <2>1. Kilo \in Nat /\ K2 \in Nat /\ K3 \in Nat
    BY KiloAssumption
  <2>2. /\ Bytes("B") = 1 /\ Bytes("K") = Kilo /\ Bytes("M") = K2
        /\ Bytes("G") = K3 /\ Bytes("T") = K3 * Kilo
    BY DEF Bytes
  <2> HIDE DEF K3
  <2>3. Bytes("T") = Kilo * K3
    BY <2>1, <2>2
  <2>4. K3 = Kilo * K2
    <3> HIDE DEF K2
    <3> QED BY <2>1 DEF K3
  <2> QED BY <2>1, <2>2, <2>3, <2>4
<1>4. \A u \in Unit : Bytes(u) \in Nat \ {0}
  BY BytesPositive
<1>5. \A u \in Unit : Bytes(u) \in Int
  BY <1>4
<1>6. n > 0 => n >= Bytes(ShownUnit(n))
  BY <1>3, <1>5 DEF ShownUnit, Unit
<1>7. n < Kilo * Bytes(ShownUnit(n)) \/ ShownUnit(n) = "T"
  <2>1. \/ ShownUnit(n) = "T"
        \/ ShownUnit(n) = "G" /\ ~(n >= Bytes("T"))
        \/ ShownUnit(n) = "M" /\ ~(n >= Bytes("G"))
        \/ ShownUnit(n) = "K" /\ ~(n >= Bytes("M"))
        \/ ShownUnit(n) = "B" /\ ~(n >= Bytes("K"))
    BY DEF ShownUnit
  <2>2. \A u \in Unit : ~(n >= Bytes(u)) => n < Bytes(u)
    BY <1>5
  <2> QED BY <1>3, <2>1, <2>2 DEF Unit
<1> QED BY <1>1, <1>2, <1>6, <1>7

(***************************************************************************)
(* stat shows every cap and usage of a file as exactly as two digits allow *)
(* (convert_to_string, converter.cpp:65), for every width and every Kilo.  *)
(***************************************************************************)
LEMMA StatExact == TypeOK => StatIsExact
<1>1. ASSUME NEW n \in Nat PROVE ShownExactly(n)
  <2> DEFINE b == Bytes(ShownUnit(n))
             r == b \div 2
             h == (100 * n + r) \div b
             t == ConvertToString(n)
  <2>1. b \in Nat \ {0} /\ b = Bytes(UnitOf(t.letters, "B"))
    BY UnitShown, BytesPositive
  <2>2. (n > 0 => n >= b) /\ (n < Kilo * b \/ b = Bytes("T"))
    BY UnitShown
  <2>3. t.num = h \div 100 /\ t.frac = h % 100
    BY DEF ConvertToString, Hundredths
  <2> HIDE DEF b, t
  <2>4. r \in Nat /\ 2 * r <= b /\ b <= 2 * r + 1
    BY <2>1
  <2> HIDE DEF r
  <2>5. h \in Nat /\ h * b <= 100 * n + r /\ 100 * n + r < h * b + b
    BY <2>1, <2>4, Quotient
  <2>6. n > 0 => h >= 100
    <3> SUFFICES ASSUME n > 0, h <= 99 PROVE FALSE
      BY <2>5
    <3>1. (h + 1) * b <= 100 * b
      BY <2>1, <2>5
    <3>2. (h + 1) * b = h * b + b /\ h * b \in Nat
      BY <2>1, <2>5
    <3> QED BY <2>1, <2>2, <2>4, <2>5, <3>1, <3>2
  <2> HIDE DEF h
  <2>7. 100 * t.num + t.frac = h /\ (n > 0 => t.num >= 1)
    BY <2>3, <2>5, <2>6
  <2>8. h * b \in Nat
    BY <2>1, <2>5
  <2>9. -b <= 2 * (h * b - 100 * n) /\ 2 * (h * b - 100 * n) <= b
    BY <2>1, <2>4, <2>5, <2>8
  <2> QED BY <2>1, <2>2, <2>7, <2>9 DEF ShownExactly, t
<1>2. ASSUME TypeOK, NEW p \in Port, conf[p] # NoUser
      PROVE  conf[p].cap \in Nat /\ conf[p].usage \in Nat
  <2>1. conf[p] \in User
    BY <1>2 DEF TypeOK
  <2>2. 0 .. Word - 1 \subseteq Nat
    BY WordAssumption
  <2> QED BY <2>1, <2>2 DEF User
<1> QED BY <1>1, <1>2 DEF StatIsExact

(***************************************************************************)
(* A port below its width is the port that is meant.                       *)
(***************************************************************************)
LEMMA PortExact ==
  ASSUME NEW n \in Nat, n < PortWord
  PROVE  PortOf(n) = n
<1>1. Atoll(n) = n
  BY MaxSignedBounds, PortWordAssumption DEF Atoll
<1>2. n \in 0 .. PortWord - 1
  BY PortWordAssumption
<1>3. \A k \in 0 .. PortWord - 1 : k % PortWord = k
  BY PortWordAssumption
<1> QED BY <1>1, <1>2, <1>3 DEF PortOf

-----------------------------------------------------------------------------
(***************************************************************************)
(* Every command but reset_all that changes the table or the default cap   *)
(* signals the daemon, in every state and for all arguments.               *)
(***************************************************************************)
THEOREM EditsSignal == Spec => EditsAreSignalled
<1>1. ASSUME [Next]_vars
      PROVE  commands' # commands /\ (conf' # conf \/ capfile' # capfile)
             => last'.signal \/ last'.task = "reset_all"
  <2>1. CASE UNCHANGED vars
    BY <2>1 DEF vars
  <2>2. ASSUME NEW task \in Signalling, NEW argc, NEW args, Ends(task, argc, args, "done")
        PROVE  last'.signal
    BY <2>2 DEF Ends
  <2>3. {"add", "update", "remove", "reset", "limit", "load"} \cup DefaultLimit
          \subseteq Signalling
    BY DEF Signalling, DefaultLimit
  <2>4. ASSUME NEW task \in {"add", "update"}, NEW argc, NEW n, NEW size, AddPort(task, argc, n, size)
        PROVE  last'.signal \/ UNCHANGED <<conf, capfile>>
    BY <2>2, <2>3, <2>4 DEF AddPort
  <2>5. ASSUME NEW task \in {"remove", "reset", "limit"}, NEW argc, NEW args, NEW u,
               EditPort(task, argc, args, u)
        PROVE  last'.signal \/ UNCHANGED <<conf, capfile>>
    BY <2>2, <2>3, <2>5 DEF EditPort
  <2>6. ASSUME NEW argc, NEW n,
               RemovePort(argc, n) \/ ResetPort(argc, n) \/ \E size \in Size : LimitPort(argc, n, size)
        PROVE  last'.signal \/ UNCHANGED <<conf, capfile>>
    BY <2>5, <2>6 DEF RemovePort, ResetPort, LimitPort
  <2>7. ASSUME NEW argc, ResetAll(argc)
        PROVE  last'.task = "reset_all"
    BY <2>7 DEF ResetAll, Ends
  <2>8. ASSUME NEW argc, NEW f, ImportFrom(argc, f)
        PROVE  last'.signal
    BY <2>2, <2>3, <2>8 DEF ImportFrom
  <2>9. ASSUME NEW task \in DefaultLimit, NEW argc, NEW size, SetDefaultDatacap(task, argc, size)
        PROVE  last'.signal
    BY <2>2, <2>3, <2>9 DEF SetDefaultDatacap
  <2>10. ASSUME NEW task, NEW argc,
                \/ Export(task, argc) \/ Show(task, argc) \/ NotRoot(task, argc)
                \/ Stop(argc) \/ Restart(argc) \/ \E path : Start(argc, path)
         PROVE  UNCHANGED <<conf, capfile>>
    BY <2>10 DEF Export, Show, NotRoot, Stop, Restart, Start
  <2>11. ASSUME NEW p, NEW d, AddDataToConf(p, d)
         PROVE  commands' = commands
    BY <2>11 DEF AddDataToConf
  <2>12. CASE Next
    <3>1. CASE Show("none", 1)
      BY <2>10, <3>1
    <3>2. CASE \E p \in Port, d \in Delta : AddDataToConf(p, d)
      BY <2>11, <3>2
    <3>3. ASSUME NEW argc \in 2 .. 6, Command(argc)
          PROVE  \/ last'.signal \/ last'.task = "reset_all"
                 \/ UNCHANGED <<conf, capfile>>
      BY <2>4, <2>6, <2>7, <2>8, <2>9, <2>10, <3>3, Zenon DEF Command
    <3> QED BY <2>12, <3>1, <3>2, <3>3, Zenon DEF Next
  <2> QED BY <1>1, <2>1, <2>12
<1> QED BY <1>1, PTL DEF Spec, EditsAreSignalled

-----------------------------------------------------------------------------
(***************************************************************************)
(* A command on a port below its width changes no user but that port's,    *)
(* however many ports there are.                                           *)
(***************************************************************************)
THEOREM NamedUserOnly == Spec => OnlyTheNamedUserChanges
<1> DEFINE Keeps == \A p \in Port :
             conf'[p] # Users[p] /\ conf' # conf /\ last'.args[1] < PortWord
             => last'.args[1] = p
           Edits == {"add", "update", "limit", "remove", "reset"}
<1>1. ASSUME NEW n \in PortArg, NEW u, last'.args[1] = n,
             conf' = conf \/ conf' = [Users EXCEPT ![PortOf(n)] = u]
      PROVE  Keeps
  <2> SUFFICES ASSUME NEW p \in Port, conf'[p] # Users[p], conf' # conf, n < PortWord
      PROVE  n = p
    BY <1>1
  <2>1. n \in Nat
    BY CliAssumption
  <2>2. PortOf(n) = n
    BY <2>1, PortExact
  <2>3. conf' = [Users EXCEPT ![n] = u]
    BY <1>1, <2>2
  <2>4. \E f : Users = [q \in Port |-> f[q]]
    <3>1. Users = [q \in Port |-> Users[q]]
      BY DEF Users, LoadConf
    <3> QED BY <3>1
  <2> QED BY <2>3, <2>4
<1>2. ASSUME NEW task \in {"add", "update"}, NEW argc, NEW n \in PortArg, NEW size,
             AddPort(task, argc, n, size)
      PROVE  Keeps
  <2>1. last'.args[1] = n
    <3>1. last'.args = <<n>> \/ last'.args = <<n, size>>
      <4>1. \/ Ends(task, argc, <<n>>, "crashed")
            \/ Ends(task, argc, <<n, size>>, "done")
        BY <1>2, Zenon DEF AddPort
      <4>2. Ends(task, argc, <<n>>, "crashed") => last'.args = <<n>>
        BY DEF Ends
      <4>3. Ends(task, argc, <<n, size>>, "done") => last'.args = <<n, size>>
        BY DEF Ends
      <4> QED BY <4>1, <4>2, <4>3
    <3>2. <<n>>[1] = n
      OBVIOUS
    <3>3. <<n, size>>[1] = n
      OBVIOUS
    <3> QED BY <3>1, <3>2, <3>3
  <2>2. conf' = conf \/ \E u : conf' = [Users EXCEPT ![PortOf(n)] = u]
    BY <1>2 DEF AddPort
  <2> QED BY <1>1, <2>1, <2>2
<1>3. ASSUME NEW task, NEW argc, NEW n \in PortArg, NEW args, NEW u, args[1] = n,
             EditPort(task, argc, args, u)
      PROVE  Keeps
  <2>1. last'.args[1] = n
    BY <1>3 DEF EditPort, Ends
  <2>2. conf' = conf \/ conf' = [Users EXCEPT ![PortOf(n)] = u]
    BY <1>3 DEF EditPort
  <2> QED BY <1>1, <2>1, <2>2
<1>4. ASSUME [Next]_vars, commands' # commands, last'.task \in Edits
      PROVE  Keeps
  <2> HIDE DEF Keeps
  <2>1. ~UNCHANGED vars
    BY <1>4 DEF vars
  <2>2. ASSUME NEW argc, NEW n \in PortArg, RemovePort(argc, n) \/ ResetPort(argc, n)
        PROVE  Keeps
    <3>1. <<n>>[1] = n
      OBVIOUS
    <3> QED BY <1>3, <2>2, <3>1 DEF RemovePort, ResetPort
  <2>3. ASSUME NEW argc, NEW n \in PortArg, NEW size, LimitPort(argc, n, size)
        PROVE  Keeps
    <3>1. <<n, size>>[1] = n
      OBVIOUS
    <3> QED BY <1>3, <2>3, <3>1 DEF LimitPort
  <2>4. ASSUME NEW task, NEW argc, NEW args, NEW outcome, Ends(task, argc, args, outcome)
        PROVE  task \in Edits
    BY <1>4, <2>4 DEF Ends
  <2>5. ASSUME NEW argc, ResetAll(argc) \/ Stop(argc) \/ Restart(argc)
        PROVE  FALSE
    BY <2>4, <2>5 DEF ResetAll, Stop, Restart
  <2>6. ASSUME NEW argc, NEW f, ImportFrom(argc, f)
        PROVE  FALSE
    BY <2>4, <2>6 DEF ImportFrom
  <2>7. ASSUME NEW argc, NEW path, Start(argc, path)
        PROVE  FALSE
    BY <2>4, <2>7 DEF Start
  <2>8. ASSUME NEW task \in {"start", "stop", "restart"}, NEW argc, NotRoot(task, argc)
        PROVE  FALSE
    BY <2>4, <2>8 DEF NotRoot
  <2>9. ASSUME NEW task \in {"export", "export_users"}, NEW argc, Export(task, argc)
        PROVE  FALSE
    BY <2>4, <2>9 DEF Export
  <2>10. ASSUME NEW task \in DefaultLimit, NEW argc, NEW size, SetDefaultDatacap(task, argc, size)
         PROVE  FALSE
    BY <2>4, <2>10 DEF SetDefaultDatacap, DefaultLimit
  <2>11. ASSUME NEW task, NEW argc, Show(task, argc)
         PROVE  Keeps
    BY <2>11 DEF Show, Keeps
  <2>12. ASSUME NEW p, NEW d, AddDataToConf(p, d)
         PROVE  FALSE
    BY <1>4, <2>12 DEF AddDataToConf
  <2>13. ASSUME NEW argc \in 2 .. 6, Command(argc)
         PROVE  Keeps
    BY <1>2, <2>2, <2>3, <2>5, <2>6, <2>7, <2>8, <2>9, <2>10, <2>11, <2>13, Zenon DEF Command
  <2> QED BY <1>4, <2>1, <2>11, <2>12, <2>13, Zenon DEF Next
<1> QED BY <1>4, PTL DEF Spec, OnlyTheNamedUserChanges

-----------------------------------------------------------------------------
(***************************************************************************)
(* default_limit remembers what its text means if a bare number counts     *)
(* gigabytes, and keeps the text (operation.cpp:57).                       *)
(***************************************************************************)
AnnouncedIsKept == capfile \in Text /\ announced = ParseSize(capfile, TRUE)

LEMMA AnnouncedKept == Spec => []AnnouncedIsKept
<1>1. Init => AnnouncedIsKept
  <2> SUFFICES ASSUME Init PROVE AnnouncedIsKept
    OBVIOUS
  <2>1. Decimal(0) \in Text /\ Decimal(0).num = 0 /\ Decimal(0).letters = {}
    BY DEF Decimal, Text, Unit
  <2>2. ParseSize(Decimal(0), TRUE) = 0
    <3>1. UnitOf({}, "G") = "G" /\ Bytes("G") \in Nat \ {0}
      BY BytesPositive DEF UnitOf, Unit
    <3>2. \A b \in Nat \ {0} : 0 * b <= MaxSigned /\ 0 * b = 0
      BY MaxSignedBounds
    <3> HIDE DEF Decimal
    <3>3. ParseSize(Decimal(0), TRUE) = 0 * Bytes("G")
      BY <2>1, <3>1, <3>2, ParseSizeExact
    <3> QED BY <3>1, <3>2, <3>3
  <2> QED BY <2>1, <2>2 DEF Init, AnnouncedIsKept
<1>2. AnnouncedIsKept /\ [Next]_vars => AnnouncedIsKept'
  <2> SUFFICES ASSUME AnnouncedIsKept, [Next]_vars PROVE AnnouncedIsKept'
    OBVIOUS
  <2>1. UNCHANGED <<capfile, announced>> => AnnouncedIsKept'
    BY DEF AnnouncedIsKept
  <2>2. ASSUME NEW task, NEW argc, NEW size \in Size, SetDefaultDatacap(task, argc, size)
        PROVE  AnnouncedIsKept'
    BY <2>2, CliAssumption DEF SetDefaultDatacap, AnnouncedIsKept
  <2>3. ASSUME NEW argc, NEW task, NEW args, NEW u, EditPort(task, argc, args, u)
        PROVE  UNCHANGED <<capfile, announced>>
    BY <2>3 DEF EditPort
  <2>4. ASSUME NEW argc, NEW n,
               RemovePort(argc, n) \/ ResetPort(argc, n) \/ \E size \in Size : LimitPort(argc, n, size)
        PROVE  UNCHANGED <<capfile, announced>>
    BY <2>3, <2>4 DEF RemovePort, ResetPort, LimitPort
  <2>5. ASSUME NEW task, NEW argc, NEW n, NEW size, AddPort(task, argc, n, size)
        PROVE  UNCHANGED <<capfile, announced>>
    BY <2>5 DEF AddPort
  <2>6. ASSUME NEW argc, NEW task, NEW path, NEW f,
               \/ ResetAll(argc) \/ ImportFrom(argc, f) \/ Export(task, argc)
               \/ Show(task, argc) \/ NotRoot(task, argc)
               \/ Stop(argc) \/ Restart(argc) \/ Start(argc, path)
        PROVE  UNCHANGED <<capfile, announced>>
    BY <2>6 DEF ResetAll, ImportFrom, Export, Show, NotRoot, Stop, Restart, Start
  <2>7. ASSUME NEW p, NEW d, AddDataToConf(p, d)
        PROVE  UNCHANGED <<capfile, announced>>
    BY <2>7 DEF AddDataToConf
  <2>8. UNCHANGED vars => UNCHANGED <<capfile, announced>>
    BY DEF vars
  <2>9. ASSUME NEW argc \in 2 .. 6, Command(argc)
        PROVE  AnnouncedIsKept'
    BY <2>1, <2>2, <2>4, <2>5, <2>6, <2>9, Zenon DEF Command
  <2> QED BY <2>1, <2>6, <2>7, <2>8, <2>9, Zenon DEF Next
<1> QED BY <1>1, <1>2, PTL DEF Spec

(***************************************************************************)
(* A line that is loaded without a cap gets the cap that default_limit     *)
(* took, for every text of one word with a unit.                           *)
(***************************************************************************)
THEOREM DefaultApplied == Spec => LoadAppliesDefault
<1>1. ASSUME AnnouncedIsKept, [Next]_vars, commands' # commands,
             last'.task = "load", last'.outcome = "done",
             NEW i \in DOMAIN last'.args[1],
             PortOf(last'.args[1][i].port) \in Port,
             LastLines(last'.args[1], PortOf(last'.args[1][i].port)) = {i},
             last'.args[1][i].cap = Blank, capfile.letters # {}, ~capfile.spaced
      PROVE  conf'[PortOf(last'.args[1][i].port)].cap = announced
  <2> DEFINE f == last'.args[1]
             p == PortOf(f[i].port)
  <2>1. conf' = LoadConf(f, Users)
    <3>1. ~UNCHANGED vars
      BY <1>1 DEF vars
    <3>2. ASSUME NEW task, NEW argc, NEW args, NEW outcome, Ends(task, argc, args, outcome)
          PROVE  task = "load"
      BY <1>1, <3>2 DEF Ends
    <3>3. ASSUME NEW argc, NEW g, ImportFrom(argc, g)
          PROVE  conf' = LoadConf(last'.args[1], Users)
      <4>1. last'.args = <<g>> /\ conf' = LoadConf(g, Users)
        BY <3>3 DEF ImportFrom, Ends
      <4> QED BY <4>1
    <3>4. ASSUME NEW task \in {"add", "update"}, NEW argc, NEW n, NEW size, AddPort(task, argc, n, size)
          PROVE  FALSE
      BY <3>2, <3>4 DEF AddPort
    <3>5. ASSUME NEW argc, NEW n,
                 RemovePort(argc, n) \/ ResetPort(argc, n) \/ \E size \in Size : LimitPort(argc, n, size)
          PROVE  FALSE
      BY <3>2, <3>5 DEF RemovePort, ResetPort, LimitPort, EditPort
    <3>6. ASSUME NEW argc, ResetAll(argc) \/ Stop(argc) \/ Restart(argc)
          PROVE  FALSE
      BY <3>2, <3>6 DEF ResetAll, Stop, Restart
    <3>7. ASSUME NEW argc, NEW path, Start(argc, path)
          PROVE  FALSE
      BY <3>2, <3>7 DEF Start
    <3>8. ASSUME NEW task \in {"start", "stop", "restart"}, NEW argc, NotRoot(task, argc)
          PROVE  FALSE
      BY <3>2, <3>8 DEF NotRoot
    <3>9. ASSUME NEW task \in {"export", "export_users"}, NEW argc, Export(task, argc)
          PROVE  FALSE
      BY <3>2, <3>9 DEF Export
    <3>10. ASSUME NEW task \in DefaultLimit, NEW argc, NEW size, SetDefaultDatacap(task, argc, size)
           PROVE  FALSE
      BY <3>2, <3>10 DEF SetDefaultDatacap, DefaultLimit
    <3>11. ASSUME NEW p_1, NEW d, AddDataToConf(p_1, d)
           PROVE  FALSE
      BY <1>1, <3>11 DEF AddDataToConf
    <3>12. ASSUME NEW task, NEW argc \in 2 .. 6, Show(task, argc)
           PROVE  FALSE
      <4>1. task = "load"
        BY <3>2, <3>12 DEF Show
      <4>2. Handler("load", argc) = "show"
        BY <1>1, <3>12, <4>1 DEF Show, Begins, Ends
      <4>3. argc = 2 \/ argc = 3 \/ argc \in 4 .. 6
        OBVIOUS
      <4>4. Handler("load", argc) # "show"
        <5>1. CASE argc = 2
          BY <5>1 DEF Handler, Printing, DefaultLimit
        <5>2. CASE argc = 3
          BY <5>2 DEF Handler, Printing, DefaultLimit
        <5>3. CASE argc \in 4 .. 6
          BY <5>3 DEF Handler, Printing, DefaultLimit
        <5> QED BY <4>3, <5>1, <5>2, <5>3
      <4> QED BY <4>2, <4>4
    <3>13. ASSUME Show("none", 1)
           PROVE  FALSE
      BY <3>2, <3>13 DEF Show
    <3>14. ASSUME NEW argc \in 2 .. 6, Command(argc)
           PROVE  conf' = LoadConf(f, Users)
      BY <3>3, <3>4, <3>5, <3>6, <3>7, <3>8, <3>9, <3>10, <3>12, <3>14, Zenon DEF Command
    <3>15. Next
      BY <1>1, <3>1
    <3> QED BY <3>11, <3>13, <3>14, <3>15, Zenon DEF Next
  <2>2. conf'[p].cap = DefaultCap
    <3>1. conf'[p] = UserOf(f[CHOOSE j \in LastLines(f, p) : TRUE], Users[p])
      BY <1>1, <2>1 DEF LoadConf
    <3>2. (CHOOSE j \in {i} : TRUE) = i
      OBVIOUS
    <3>3. conf'[p] = UserOf(f[i], Users[p])
      BY <1>1, <3>1, <3>2
    <3> HIDE DEF p
    <3> QED BY <1>1, <3>3 DEF UserOf
  <2>3. FirstWord(capfile) = capfile
    BY <1>1 DEF FirstWord
  <2>4. UnitOf(capfile.letters, "B") = UnitOf(capfile.letters, "G")
    <3>1. capfile.letters \subseteq Unit /\ capfile.letters # {}
      BY <1>1 DEF AnnouncedIsKept, Text
    <3> QED BY <3>1 DEF Unit, UnitOf
  <2> QED BY <1>1, <2>2, <2>3, <2>4 DEF AnnouncedIsKept, DefaultCap, ParseSize
<1>2. AnnouncedIsKept /\ [Next]_vars
      => [/\ commands' # commands
          /\ last'.task = "load" /\ last'.outcome = "done"
          => \A i \in DOMAIN last'.args[1] :
               LET l == last'.args[1][i]
                   p == PortOf(l.port)
               IN  /\ p \in Port /\ LastLines(last'.args[1], p) = {i}
                   /\ l.cap = Blank /\ capfile.letters # {} /\ ~capfile.spaced
                   => conf'[p].cap = announced]_vars
  BY <1>1
<1> QED BY <1>2, AnnouncedKept, PTL DEF Spec, LoadAppliesDefault

-----------------------------------------------------------------------------
(***************************************************************************)
(* Every set of natural numbers that is not empty has a least element.     *)
(***************************************************************************)
LEMMA Least ==
  ASSUME NEW T \in SUBSET Nat, T # {}
  PROVE  \E x \in T : \A y \in T : x <= y
<1> DEFINE R == {ss \in Nat \X Nat : ss[1] < ss[2]}
<1>1. IsWellFoundedOn(R, Nat)
  BY NatLessThanWellFounded, Zenon DEF OpToRel
<1> HIDE DEF R
<1>2. PICK x \in T : \A y \in T : ~(<<y, x>> \in R)
  BY <1>1, WFMin
<1>3. \A y \in T : ~(y < x)
  BY <1>2 DEF R
<1> QED BY <1>3

Increasing(s) == \A i, j \in DOMAIN s : i < j => s[i] < s[j]

(***************************************************************************)
(* Putting a smaller number in front keeps a sequence increasing.          *)
(***************************************************************************)
LEMMA InFront ==
  ASSUME NEW S \in SUBSET Nat, NEW m \in S, \A x \in S : m <= x, NEW n \in Nat \ {0},
         NEW s \in [1 .. n - 1 -> S \ {m}], Increasing(s)
  PROVE  \E t \in [1 .. n -> S] : Increasing(t)
<1> DEFINE t == [i \in 1 .. n |-> IF i = 1 THEN m ELSE s[i - 1]]
<1>1. \A i \in 1 .. n : i # 1 => i - 1 \in 1 .. n - 1
  OBVIOUS
<1>2. \A i \in 1 .. n - 1 : s[i] \in S \ {m}
  OBVIOUS
<1>3. t \in [1 .. n -> S]
  BY <1>1, <1>2
<1>4. ASSUME NEW i \in 1 .. n, NEW j \in 1 .. n, i < j
      PROVE  t[i] < t[j]
  <2>1. j # 1 /\ t[j] = s[j - 1] /\ j - 1 \in 1 .. n - 1 /\ s[j - 1] \in S \ {m}
    BY <1>1, <1>2, <1>4
  <2>2. CASE i = 1
    <3>1. t[i] = m
      BY <2>2
    <3>2. m \in Nat /\ t[j] \in Nat /\ m <= t[j] /\ t[j] # m
      BY <2>1
    <3> HIDE DEF t
    <3> QED BY <3>1, <3>2
  <2>3. CASE i # 1
    <3>1. t[i] = s[i - 1] /\ i - 1 \in 1 .. n - 1 /\ i - 1 < j - 1
      BY <1>1, <1>4, <2>3
    <3> QED BY <2>1, <3>1 DEF Increasing
  <2> QED BY <2>2, <2>3
<1>5. Increasing(t)
  BY <1>4 DEF Increasing
<1> QED BY <1>3, <1>5

(***************************************************************************)
(* Every finite set of natural numbers has an order.                       *)
(***************************************************************************)
LEMMA SortExists ==
  ASSUME NEW S \in SUBSET Nat, IsFiniteSet(S)
  PROVE  \E s \in [1 .. Cardinality(S) -> S] : Increasing(s)
<1> DEFINE Unsorted(X) == /\ IsFiniteSet(X)
                          /\ ~\E s \in [1 .. Cardinality(X) -> X] : Increasing(s)
           Bad == {n \in Nat : \E X \in SUBSET Nat : Unsorted(X) /\ Cardinality(X) = n}
<1>1. SUFFICES ASSUME Bad # {} PROVE FALSE
  <2>1. Cardinality(S) \in Nat
    BY FS_CardinalityType
  <2> QED BY <2>1
<1>2. PICK n \in Bad : \A k \in Bad : n <= k
  <2> HIDE DEF Bad
  <2>1. Bad \in SUBSET Nat
    BY DEF Bad
  <2> QED BY <1>1, <2>1, Least
<1>3. PICK X \in SUBSET Nat : Unsorted(X) /\ Cardinality(X) = n
  BY <1>2
<1>4. n \in Nat
  BY <1>2
<1>5. X # {}
  <2> SUFFICES ASSUME X = {} PROVE FALSE
    OBVIOUS
  <2>1. Cardinality(X) = 0
    BY FS_EmptySet
  <2>2. [i \in 1 .. 0 |-> i] \in [1 .. 0 -> {}] /\ Increasing([i \in 1 .. 0 |-> i])
    BY DEF Increasing
  <2> QED BY <1>3, <2>1, <2>2
<1>6. PICK m \in X : \A x \in X : m <= x
  BY <1>3, <1>5, Least
<1>7. IsFiniteSet(X \ {m}) /\ Cardinality(X \ {m}) = n - 1
  BY <1>3, FS_RemoveElement
<1>8. n - 1 \in Nat /\ n \in Nat \ {0}
  BY <1>4, <1>7, FS_CardinalityType
<1>9. n - 1 \notin Bad
  <2> HIDE DEF Bad
  <2> QED BY <1>2, <1>4, <1>8
<1>10. PICK s \in [1 .. n - 1 -> X \ {m}] : Increasing(s)
  BY <1>7, <1>8, <1>9
<1>11. \E t \in [1 .. n -> X] : Increasing(t)
  BY <1>3, <1>6, <1>8, <1>10, InFront
<1> QED BY <1>3, <1>11

(***************************************************************************)
(* Sorted lists every element, each one once.                              *)
(***************************************************************************)
LEMMA SortedLists ==
  ASSUME NEW S \in SUBSET Nat, IsFiniteSet(S)
  PROVE  /\ Cardinality(S) \in Nat
         /\ Sorted(S) \in [1 .. Cardinality(S) -> S]
         /\ Increasing(Sorted(S))
         /\ \A x \in S : \E i \in 1 .. Cardinality(S) :
              /\ Sorted(S)[i] = x
              /\ \A j \in 1 .. Cardinality(S) : Sorted(S)[j] = x => j = i
<1> DEFINE n == Cardinality(S)
           s == Sorted(S)
<1>1. n \in Nat
  BY FS_CardinalityType
<1>2. s \in [1 .. n -> S] /\ Increasing(s)
  <2>1. \E t \in [1 .. n -> S] : Increasing(t)
    BY SortExists
  <2> QED BY <2>1 DEF Sorted, Increasing
<1> HIDE DEF s
<1>3. \A i, j \in 1 .. n : s[i] = s[j] => i = j
  <2> SUFFICES ASSUME NEW i \in 1 .. n, NEW j \in 1 .. n, s[i] = s[j] PROVE i = j
    OBVIOUS
  <2>1. s[i] \in Nat /\ s[j] \in Nat
    BY <1>2
  <2>2. ~(s[i] < s[j]) /\ ~(s[j] < s[i])
    BY <2>1
  <2>3. ~(i < j) /\ ~(j < i)
    BY <1>2, <2>2 DEF Increasing
  <2> QED BY <1>1, <2>3
<1>4. s \in Injection(1 .. n, S)
  BY <1>2, <1>3 DEF Injection, IsInjective
<1>5. Cardinality(1 .. n) = n
  BY <1>1, FS_Interval
<1>6. s \in Surjection(1 .. n, S)
  BY <1>4, <1>5, FS_Injection
<1>7. \A x \in S : \E i \in 1 .. n : s[i] = x
  BY <1>6 DEF Surjection
<1> QED BY <1>1, <1>2, <1>3, <1>7 DEF s
-----------------------------------------------------------------------------
Table == [Port -> User \cup {NoUser}]

(***************************************************************************)
(* The line that is written for user u of port p.                          *)
(***************************************************************************)
LineFor(p, u, full) ==
  [port  |-> p,
   cap   |-> IF full THEN Decimal(u.cap) ELSE Blank,
   usage |-> IF full THEN Decimal(u.usage) ELSE Blank]

LEMMA LineTyped ==
  ASSUME NEW p \in Port, NEW u \in User, NEW full \in BOOLEAN
  PROVE  LineFor(p, u, full) \in Line
<1>1. u.cap \in Nat /\ u.usage \in Nat
  BY WordAssumption DEF User
<1>2. \A k \in Nat : Decimal(k) \in Text
  BY DEF Decimal, Text, Unit
<1>3. p \in Nat
  BY CliAssumption, PortWordAssumption
<1> QED BY <1>1, <1>2, <1>3 DEF LineFor, Line

(***************************************************************************)
(* A table that is written has one line for each user, and none for a port *)
(* without one.                                                            *)
(***************************************************************************)
LEMMA Written ==
  ASSUME NEW t \in Table, NEW full \in BOOLEAN
  PROVE  /\ LinesOf(t, full) \in Seq(Line)
         /\ \A p \in Port :
              /\ t[p] = NoUser => LastLines(LinesOf(t, full), p) = {}
              /\ t[p] # NoUser =>
                   \E i \in DOMAIN LinesOf(t, full) :
                     /\ LastLines(LinesOf(t, full), p) = {i}
                     /\ LinesOf(t, full)[i] = LineFor(p, t[p], full)
<1> DEFINE S == {p \in Port : t[p] # NoUser}
           n == Cardinality(S)
           s == Sorted(S)
           f == LinesOf(t, full)
<1>1. S \in SUBSET Nat /\ IsFiniteSet(S) /\ S \subseteq Port
  <2>1. S \in SUBSET Port
    OBVIOUS
  <2>2. IsFiniteSet(S)
    BY <2>1, CliAssumption, FS_Subset
  <2>3. Port \subseteq Nat
    BY CliAssumption, PortWordAssumption
  <2> QED BY <2>1, <2>2, <2>3
<1>2. \A p \in Port : p \in S <=> t[p] # NoUser
  OBVIOUS
<1>3. \A p \in S : t[p] \in User
  BY DEF Table
<1>4. f = [i \in DOMAIN s |-> LineFor(s[i], t[s[i]], full)]
  BY DEF LinesOf, LineFor
<1> HIDE DEF S, f
<1>5. /\ n \in Nat /\ s \in [1 .. n -> S]
      /\ \A x \in S : \E i \in 1 .. n :
           s[i] = x /\ \A j \in 1 .. n : s[j] = x => j = i
  BY <1>1, SortedLists
<1> HIDE DEF n, s
<1>6. f \in [1 .. n -> Line]
  BY <1>1, <1>3, <1>4, <1>5, LineTyped
<1>7. f \in Seq(Line) /\ Len(f) = n /\ DOMAIN f = 1 .. n
  BY <1>5, <1>6
<1>8. \A i \in 1 .. n : f[i] = LineFor(s[i], t[s[i]], full) /\ s[i] \in S
  BY <1>4, <1>5
<1>9. \A i \in 1 .. n : PortOf(f[i].port) = s[i]
  <2> TAKE i \in 1 .. n
  <2>1. f[i].port = s[i]
    <3>1. \A a, b : LineFor(a, b, full).port = a
      BY DEF LineFor
    <3> QED BY <1>8, <3>1
  <2>2. s[i] \in Nat /\ s[i] < PortWord
    <3>1. \A p \in Port : p \in Nat /\ p < PortWord
      BY CliAssumption, PortWordAssumption
    <3> QED BY <1>1, <1>8, <3>1
  <2> QED BY <2>1, <2>2, PortExact
<1>10. \A p : LastLines(f, p) = {i \in 1 .. n : s[i] = p /\ \A j \in i + 1 .. n : s[j] # p}
  <2> TAKE p
  <2>1. \A i \in 1 .. n : \A j \in i + 1 .. n : j \in 1 .. n
    BY <1>5
  <2> QED BY <1>7, <1>9, <2>1 DEF LastLines
<1>11. ASSUME NEW p \in Port, t[p] = NoUser
       PROVE  LastLines(f, p) = {}
  BY <1>2, <1>8, <1>10, <1>11
<1>12. ASSUME NEW p \in Port, t[p] # NoUser
       PROVE  \E i \in DOMAIN f : LastLines(f, p) = {i} /\ f[i] = LineFor(p, t[p], full)
  <2>1. PICK i \in 1 .. n : s[i] = p /\ \A j \in 1 .. n : s[j] = p => j = i
    BY <1>2, <1>5, <1>12
  <2>2. \A j \in i + 1 .. n : j \in 1 .. n /\ j # i
    BY <1>5
  <2>3. LastLines(f, p) = {i}
    BY <1>10, <2>1, <2>2
  <2> QED BY <1>7, <1>8, <2>1, <2>3
<1> QED BY <1>7, <1>11, <1>12 DEF f

-----------------------------------------------------------------------------
(***************************************************************************)
(* A user and a table whose numbers atoll has read.                        *)
(***************************************************************************)
Cut(u) == [cap |-> Atoll(u.cap), usage |-> Atoll(u.usage)]

CutTable(t) == [p \in Port |-> IF t[p] = NoUser THEN NoUser ELSE Cut(t[p])]

(***************************************************************************)
(* What is cut is a user again, below 2^63, and is not cut once more.      *)
(***************************************************************************)
LEMMA CutUser ==
  ASSUME NEW u \in User
  PROVE  /\ Cut(u) \in User /\ Cut(u) # NoUser /\ Cut(Cut(u)) = Cut(u)
         /\ Cut(u).cap = Atoll(u.cap) /\ Cut(u).usage = Atoll(u.usage)
         /\ \A v \in {u.cap, u.usage} :
              v \in Nat /\ Atoll(v) = IF v <= MaxSigned THEN v ELSE MaxSigned
<1>1. u.cap \in Nat /\ u.usage \in Nat
  BY WordAssumption DEF User
<1>2. \A v \in Nat : /\ Atoll(v) \in 0 .. Word - 1
                     /\ Atoll(v) = IF v <= MaxSigned THEN v ELSE MaxSigned
                     /\ Atoll(Atoll(v)) = Atoll(v)
  BY MaxSignedBounds, WordAssumption DEF Atoll
<1>3. Cut(u).cap = Atoll(u.cap) /\ Cut(u).usage = Atoll(u.usage)
  BY DEF Cut
<1>4. Cut(u) \in User
  BY <1>1, <1>2 DEF Cut, User
<1>5. Cut(Cut(u)) = Cut(u)
  BY <1>1, <1>2, <1>3 DEF Cut
<1> QED BY <1>1, <1>2, <1>3, <1>4, <1>5, TableAssumption

LEMMA CutTyped ==
  ASSUME NEW t \in Table
  PROVE  CutTable(t) \in Table /\ CutTable(CutTable(t)) = CutTable(t)
<1>1. \A p \in Port : t[p] # NoUser => t[p] \in User
  BY DEF Table
<1>2. CutTable(t) \in Table
  BY <1>1, CutUser DEF Table, CutTable
<1>3. \A p \in Port : CutTable(CutTable(t))[p] = CutTable(t)[p]
  <2> TAKE p \in Port
  <2>1. CASE t[p] = NoUser
    BY <2>1 DEF CutTable
  <2>2. CASE t[p] # NoUser
    <3>1. CutTable(t)[p] = Cut(t[p]) /\ Cut(t[p]) # NoUser
      BY <1>1, <2>2, CutUser DEF CutTable
    <3>2. CutTable(CutTable(t))[p] = Cut(Cut(t[p]))
      BY <3>1 DEF CutTable
    <3> QED BY <1>1, <2>2, <3>1, <3>2, CutUser
  <2> QED BY <2>1, <2>2
<1>4. \A r, q : (\A p \in Port : CutTable(r)[p] = CutTable(q)[p]) => CutTable(r) = CutTable(q)
  BY DEF CutTable
<1> QED BY <1>2, <1>3, <1>4

(***************************************************************************)
(* A table that export_to writes and load_conf reads comes back with its   *)
(* numbers cut, whatever memory held before.                               *)
(***************************************************************************)
LEMMA LoadExport ==
  ASSUME NEW t \in Table, NEW prev
  PROVE  LoadConf(ExportTo(t), prev) = CutTable(t)
<1> DEFINE f == ExportTo(t)
<1>1. ASSUME NEW p \in Port, t[p] = NoUser
      PROVE  LastLines(f, p) = {}
  BY <1>1, Written DEF ExportTo
<1>2. ASSUME NEW p \in Port, t[p] # NoUser
      PROVE  LastLines(f, p) # {} /\ UserOf(f[CHOOSE i \in LastLines(f, p) : TRUE], prev[p]) = Cut(t[p])
  <2>1. PICK i \in DOMAIN f : LastLines(f, p) = {i} /\ f[i] = LineFor(p, t[p], TRUE)
    BY <1>2, Written DEF ExportTo
  <2>2. (CHOOSE j \in {i} : TRUE) = i
    OBVIOUS
  <2>3. t[p] \in User
    BY <1>2 DEF Table
  <2>4. \A k \in Nat : Decimal(k) # Blank /\ ParseSize(Decimal(k), FALSE) = Atoll(k)
    <3> TAKE k \in Nat
    <3>1. Decimal(k) \in Text
      BY DEF Decimal, Text, Unit
    <3>2. Atoll(k) = IF k <= MaxSigned THEN k ELSE MaxSigned
      BY MaxSignedBounds DEF Atoll
    <3> QED BY <3>1, <3>2, NumbersReadBack, CliAssumption
  <2>5. t[p].cap \in Nat /\ t[p].usage \in Nat
    BY <2>3, CutUser
  <2>6. f[i].cap = Decimal(t[p].cap) /\ f[i].usage = Decimal(t[p].usage)
    BY <2>1 DEF LineFor
  <2>7. UserOf(f[i], prev[p]) = Cut(t[p])
    BY <2>4, <2>5, <2>6 DEF UserOf, Cut
  <2> QED BY <2>1, <2>2, <2>7
<1> HIDE DEF f
<1>3. LoadConf(f, prev) = CutTable(t)
  BY <1>1, <1>2 DEF LoadConf, CutTable
<1> QED BY <1>3 DEF f
(***************************************************************************)
(* At most one line of a file is the last one of a port.                   *)
(***************************************************************************)
LEMMA OneLastLine ==
  ASSUME NEW f \in Seq(Line), NEW p, NEW i \in LastLines(f, p), NEW j \in LastLines(f, p)
  PROVE  i = j /\ i \in DOMAIN f /\ f[i] \in Line
<1>1. i \in 1 .. Len(f) /\ j \in 1 .. Len(f) /\ Len(f) \in Nat
  BY DEF LastLines
<1>2. /\ PortOf(f[i].port) = p /\ \A k \in i + 1 .. Len(f) : PortOf(f[k].port) # p
      /\ PortOf(f[j].port) = p /\ \A k \in j + 1 .. Len(f) : PortOf(f[k].port) # p
  BY DEF LastLines
<1>3. ~(i < j) /\ ~(j < i)
  BY <1>1, <1>2
<1> QED BY <1>1, <1>3

(***************************************************************************)
(* load_conf makes a table of every file.                                  *)
(***************************************************************************)
LEMMA LoadTyped ==
  ASSUME capfile \in Text, NEW f \in Seq(Line), NEW prev \in Table
  PROVE  LoadConf(f, prev) \in Table
<1>1. DefaultCap \in 0 .. Word - 1
  <2>1. FirstWord(capfile) \in Text
    BY DEF FirstWord, Text
  <2> QED BY <2>1, ParseSizeExact DEF DefaultCap
<1>2. \A c \in Text : ParseSize(c, FALSE) \in 0 .. Word - 1
  BY ParseSizeExact
<1>3. \A p \in Port : prev[p] # NoUser => prev[p].usage \in 0 .. Word - 1
  BY DEF Table, User
<1>4. 0 \in 0 .. Word - 1
  BY WordAssumption
<1>5. ASSUME NEW p \in Port, LastLines(f, p) # {}
      PROVE  UserOf(f[CHOOSE i \in LastLines(f, p) : TRUE], prev[p]) \in User
  <2> DEFINE l == f[CHOOSE i \in LastLines(f, p) : TRUE]
  <2>1. l \in Line
    BY <1>5, OneLastLine
  <2>2. l.cap \in Text \cup {Blank} /\ l.usage \in Text \cup {Blank}
    BY <2>1 DEF Line
  <2> HIDE DEF l
  <2> QED BY <1>1, <1>2, <1>3, <1>4, <2>2 DEF UserOf, User, l
<1> QED BY <1>5 DEF LoadConf, Table

(***************************************************************************)
(* What every process reads: the numbers of sswatcher.conf, cut.           *)
(***************************************************************************)
LEMMA UsersRead ==
  ASSUME TypeOK
  PROVE  conf \in Table /\ Users = CutTable(conf) /\ Users \in Table
BY LoadExport, CutTyped DEF TypeOK, Table, Users

(***************************************************************************)
(* What every command records of itself.                                   *)
(***************************************************************************)
LEMMA EndsTyped ==
  ASSUME NEW task, NEW argc, NEW args, NEW outcome, Ends(task, argc, args, outcome)
  PROVE  /\ last'.task = task /\ last'.args = args /\ last'.outcome = outcome
BY DEF Ends

LEMMA BeginsTyped ==
  ASSUME TypeOK, NEW task, NEW argc, NEW handler, Begins(task, argc, handler)
  PROVE  /\ commands' \in 0 .. MaxCommands /\ reports' \in 0 .. MaxReports
         /\ Handler(task, argc) = handler /\ commands' # commands
BY CliAssumption DEF TypeOK, Begins

(***************************************************************************)
(* A report leaves a user with the same cap and, below 2^63, no less usage.*)
(***************************************************************************)
LEMMA Recorded ==
  ASSUME NEW u \in User, NEW d \in Delta
  PROVE  LET v == [u EXCEPT !.usage = (@ + d) % Word]
         IN  /\ v \in User /\ v # NoUser /\ v.cap = u.cap
             /\ u.usage <= MaxSigned => v.usage >= u.usage
<1>1. d \in 0 .. MaxSigned /\ Word \in Nat \ {0} /\ u.usage \in 0 .. Word - 1
  BY CliAssumption, WordAssumption DEF User
<1>2. \A m \in Nat, w \in Nat \ {0} : m % w \in 0 .. w - 1 /\ (m < w => m % w = m)
  OBVIOUS
<1>3. u.usage + d \in Nat /\ (u.usage <= MaxSigned => u.usage + d < Word)
  BY <1>1, MaxSignedBounds
<1>4. (u.usage + d) % Word \in 0 .. Word - 1
  BY <1>1, <1>2, <1>3
<1>5. u.usage <= MaxSigned => (u.usage + d) % Word >= u.usage
  <2>1. u.usage + d >= u.usage
    BY <1>1, MaxSignedBounds
  <2> QED BY <1>1, <1>2, <1>3, <2>1
<1> DEFINE v == [u EXCEPT !.usage = (@ + d) % Word]
<1>6. v \in User /\ v.cap = u.cap /\ v.usage = (u.usage + d) % Word
  BY <1>4 DEF User
<1> HIDE DEF v
<1>7. v # NoUser
  BY <1>6, TableAssumption
<1>8. u.usage <= MaxSigned => v.usage >= u.usage
  BY <1>5, <1>6
<1> QED BY <1>6, <1>7, <1>8 DEF v

(***************************************************************************)
(* One step keeps the types: the table and the files by LoadTyped and      *)
(* Written, the rest action by action.                                     *)
(***************************************************************************)
LEMMA StepTyped == TypeOK /\ [Next]_vars => TypeOK'
<1> SUFFICES ASSUME TypeOK, [Next]_vars PROVE TypeOK'
  OBVIOUS
<1> DEFINE Rest == /\ capfile' \in Text /\ announced' \in 0 .. Word - 1
                   /\ file' \in Seq(Line)
                   /\ server' \in [up : BOOLEAN, config : Config \cup {SS_CONFIG}]
           Same == UNCHANGED <<capfile, announced, file, server>>
           Done == /\ last'.outcome \in {"done", "failed", "unsupported", "crashed"}
                   /\ commands' \in 0 .. MaxCommands /\ reports' \in 0 .. MaxReports
<1>1. conf \in Table /\ Users \in Table
  BY UsersRead
<1>2. Same => Rest
  BY DEF TypeOK
<1>3. conf' \in Table /\ Rest /\ Done => TypeOK'
  BY DEF TypeOK, Table
<1>4. \A t \in Table, u \in User \cup {NoUser} : \A p : [t EXCEPT ![p] = u] \in Table
  BY DEF Table
<1>5. \A p \in Port : Users[p] # NoUser => Users[p] \in User
  BY <1>1 DEF Table
<1>6. 0 \in 0 .. Word - 1
  BY WordAssumption
<1>7. \A n \in PortArg : PortOf(n) \in Port
  BY CliAssumption
<1>8. \A size \in Size, b \in BOOLEAN : ParseSize(size, b) \in 0 .. Word - 1
  BY CliAssumption, ParseSizeExact
<1> HIDE DEF Rest, Same
<1>9. ASSUME NEW task, NEW argc, NEW n \in PortArg, NEW size \in Size \cup {Blank},
             AddPort(task, argc, n, size)
      PROVE  TypeOK'
  <2>1. Same
    BY <1>9 DEF AddPort, Same
  <2>2. Done
    BY <1>9, BeginsTyped, EndsTyped DEF AddPort
  <2>3. conf' \in Table
    <3>1. CASE size = Blank
      BY <1>1, <1>9, <3>1 DEF AddPort
    <3>2. CASE size # Blank
      <4> DEFINE u == [cap   |-> ParseSize(size, TRUE),
                       usage |-> IF Users[PortOf(n)] = NoUser THEN 0 ELSE Users[PortOf(n)].usage]
      <4>1. conf' = [Users EXCEPT ![PortOf(n)] = u]
        BY <1>9, <3>2 DEF AddPort
      <4>2. u \in User
        BY <1>5, <1>6, <1>7, <1>8, <3>2 DEF User
      <4> HIDE DEF u
      <4> QED BY <1>1, <1>4, <4>1, <4>2
    <3> QED BY <3>1, <3>2
  <2> QED BY <1>2, <1>3, <2>1, <2>2, <2>3
<1>10. ASSUME NEW task, NEW argc, NEW handler, NEW args, NEW u,
              Begins(task, argc, handler), EditPort(task, argc, args, u),
              Users[PortOf(args[1])] # NoUser => u \in User \cup {NoUser}
       PROVE  TypeOK'
  <2>1. Same
    BY <1>10 DEF EditPort, Same
  <2>2. Done
    BY <1>10, BeginsTyped, EndsTyped DEF EditPort
  <2>3. \/ conf' = conf
        \/ Users[PortOf(args[1])] # NoUser /\ conf' = [Users EXCEPT ![PortOf(args[1])] = u]
    BY <1>10, Zenon DEF EditPort
  <2>4. conf' \in Table
    BY <1>1, <1>4, <1>10, <2>3
  <2> QED BY <1>2, <1>3, <2>1, <2>2, <2>4
<1>11. ASSUME NEW argc, NEW n \in PortArg, RemovePort(argc, n)
       PROVE  TypeOK'
  BY <1>10, <1>11 DEF RemovePort
<1>12. ASSUME NEW argc, NEW n \in PortArg, ResetPort(argc, n)
       PROVE  TypeOK'
  <2>1. <<n>>[1] = n
    OBVIOUS
  <2>2. \A u \in User : [u EXCEPT !.usage = 0] \in User
    BY <1>6 DEF User
  <2> QED BY <1>5, <1>7, <1>10, <1>12, <2>1, <2>2 DEF ResetPort
<1>13. ASSUME NEW argc, NEW n \in PortArg, NEW size \in Size, LimitPort(argc, n, size)
       PROVE  TypeOK'
  <2>1. <<n, size>>[1] = n
    OBVIOUS
  <2>2. \A u \in User, c \in 0 .. Word - 1 : [u EXCEPT !.cap = c] \in User
    BY DEF User
  <2> QED BY <1>5, <1>7, <1>8, <1>10, <1>13, <2>1, <2>2 DEF LimitPort
<1>14. ASSUME NEW argc, ResetAll(argc)
       PROVE  TypeOK'
  <2>1. \A u \in User : [u EXCEPT !.usage = 0] \in User
    BY <1>6 DEF User
  <2>2. conf' \in Table
    BY <1>5, <1>14, <2>1 DEF ResetAll, Table
  <2>3. Same /\ Done
    BY <1>14, BeginsTyped, EndsTyped DEF ResetAll, Same
  <2> QED BY <1>2, <1>3, <2>2, <2>3
<1>15. ASSUME NEW argc, NEW f \in Given \cup {file}, ImportFrom(argc, f)
       PROVE  TypeOK'
  <2>1. f \in Seq(Line) /\ capfile \in Text
    BY TableAssumption DEF TypeOK
  <2>2. conf' \in Table
    BY <1>1, <1>15, <2>1, LoadTyped DEF ImportFrom
  <2>3. Same /\ Done
    BY <1>15, BeginsTyped, EndsTyped DEF ImportFrom, Same
  <2> QED BY <1>2, <1>3, <2>2, <2>3
<1>16. ASSUME NEW task, NEW argc, Export(task, argc)
       PROVE  TypeOK'
  <2>1. file' \in Seq(Line)
    BY <1>1, <1>16, Written DEF Export, ExportTo, ExportUser
  <2>2. Rest
    BY <1>16, <2>1 DEF Export, TypeOK, Rest
  <2>3. conf' \in Table /\ Done
    BY <1>1, <1>16, BeginsTyped, EndsTyped DEF Export
  <2> QED BY <1>3, <2>2, <2>3
<1>17. ASSUME NEW task, NEW argc, NEW size \in Size, SetDefaultDatacap(task, argc, size)
       PROVE  TypeOK'
  <2>1. capfile' \in Text /\ announced' \in 0 .. Word - 1
    BY <1>8, <1>17, CliAssumption DEF SetDefaultDatacap
  <2>2. Rest
    BY <1>17, <2>1 DEF SetDefaultDatacap, TypeOK, Rest
  <2>3. conf' \in Table /\ Done
    BY <1>1, <1>17, BeginsTyped, EndsTyped DEF SetDefaultDatacap
  <2> QED BY <1>3, <2>2, <2>3
<1>18. ASSUME NEW task, NEW argc, Show(task, argc) \/ NotRoot(task, argc)
       PROVE  TypeOK'
  <2>1. Same /\ conf' \in Table
    BY <1>1, <1>18 DEF Show, NotRoot, Same
  <2>2. Done
    BY <1>18, BeginsTyped, EndsTyped DEF Show, NotRoot
  <2> QED BY <1>2, <1>3, <2>1, <2>2
<1>19. ASSUME NEW path \in Config \cup {SS_CONFIG},
              NEW s \in [up : BOOLEAN, config : Config \cup {SS_CONFIG}]
       PROVE  StartSs(path, s).server \in [up : BOOLEAN, config : Config \cup {SS_CONFIG}]
  BY DEF StartSs
<1>20. ASSUME NEW argc, \/ Stop(argc) \/ Restart(argc)
                        \/ \E path \in Config \cup {SS_CONFIG} : Start(argc, path)
       PROVE  TypeOK'
  <2>1. server \in [up : BOOLEAN, config : Config \cup {SS_CONFIG}]
    BY DEF TypeOK
  <2>2. [server EXCEPT !.up = FALSE] \in [up : BOOLEAN, config : Config \cup {SS_CONFIG}]
    BY <2>1
  <2>3. server' \in [up : BOOLEAN, config : Config \cup {SS_CONFIG}]
    <3>1. ASSUME Stop(argc)
          PROVE  server' = [server EXCEPT !.up = FALSE]
      BY <3>1 DEF Stop
    <3>2. ASSUME Restart(argc)
          PROVE  server' = StartSs(SS_CONFIG, [server EXCEPT !.up = FALSE]).server
      BY <3>2, Zenon DEF Restart
    <3>3. ASSUME NEW path \in Config \cup {SS_CONFIG}, Start(argc, path)
          PROVE  server' = StartSs(path, server).server
      BY <3>3, Zenon DEF Start
    <3>4. CASE Stop(argc)
      BY <2>2, <3>1, <3>4, Zenon
    <3>5. CASE Restart(argc)
      <4>1. SS_CONFIG \in Config \cup {SS_CONFIG}
        OBVIOUS
      <4> DEFINE down == [server EXCEPT !.up = FALSE]
      <4>2. server' = StartSs(SS_CONFIG, down).server
        BY <3>2, <3>5, Zenon
      <4>3. down \in [up : BOOLEAN, config : Config \cup {SS_CONFIG}]
        BY <2>2
      <4> HIDE DEF down
      <4> QED BY <1>19, <4>1, <4>2, <4>3
    <3>6. CASE \E path \in Config \cup {SS_CONFIG} : Start(argc, path)
      BY <1>19, <2>1, <3>3, <3>6
    <3> QED BY <1>20, <3>4, <3>5, <3>6
  <2>4. Rest
    BY <1>20, <2>3 DEF Stop, Restart, Start, TypeOK, Rest
  <2>5. conf' \in Table
    BY <1>1, <1>20 DEF Stop, Restart, Start
  <2>6. Done
    BY <1>20, BeginsTyped, EndsTyped DEF Stop, Restart, Start
  <2> QED BY <1>3, <2>4, <2>5, <2>6
<1>21. ASSUME NEW p \in Port, NEW d \in Delta, AddDataToConf(p, d)
       PROVE  TypeOK'
  <2>1. \A u \in User : [u EXCEPT !.usage = (@ + d) % Word] \in User
    BY Recorded
  <2>2. conf' \in Table
    <3>1. \A q \in Port : (IF q = p /\ Users[q] # NoUser
                           THEN [Users[q] EXCEPT !.usage = (@ + d) % Word] ELSE Users[q])
                          \in User \cup {NoUser}
      BY <1>5, <2>1
    <3> QED BY <1>21, <3>1 DEF AddDataToConf, Table
  <2>3. Same /\ last' = last /\ commands' = commands /\ reports' \in 0 .. MaxReports
    BY <1>21, CliAssumption DEF AddDataToConf, Same, TypeOK
  <2>4. Done
    BY <2>3 DEF TypeOK
  <2> QED BY <1>2, <1>3, <2>2, <2>3, <2>4
<1>22. CASE UNCHANGED vars
  BY <1>22 DEF vars, TypeOK
<1>23. ASSUME NEW argc \in 2 .. 6, Command(argc)
       PROVE  TypeOK'
  BY <1>9, <1>11, <1>12, <1>13, <1>14, <1>15, <1>16, <1>17, <1>18, <1>20, <1>23, Zenon
  DEF Command
<1> QED BY <1>18, <1>21, <1>22, <1>23, Zenon DEF Next
(***************************************************************************)
(* The types of Cli: a port's user, the texts and the files stay what      *)
(* their readers expect, for every file that a user loads.                 *)
(***************************************************************************)
THEOREM CliTypes == Spec => []TypeOK
<1>1. Init => TypeOK
  <2> SUFFICES ASSUME Init PROVE TypeOK
    OBVIOUS
  <2>1. conf \in [Port -> User \cup {NoUser}]
    BY DEF Init, Empty
  <2>2. capfile \in Text /\ announced \in 0 .. Word - 1 /\ file \in Seq(Line)
    BY WordAssumption DEF Init, Decimal, Text, Unit
  <2>3. server \in [up : BOOLEAN, config : Config \cup {SS_CONFIG}]
    BY DEF Init
  <2>4. last.outcome = "done" /\ commands \in 0 .. MaxCommands /\ reports \in 0 .. MaxReports
    BY CliAssumption DEF Init
  <2> QED BY <2>1, <2>2, <2>3, <2>4 DEF TypeOK
<1> QED BY <1>1, StepTyped, PTL DEF Spec

(***************************************************************************)
(* stat shows every user of sswatcher.conf exactly, at all times.          *)
(***************************************************************************)
THEOREM StatStaysExact == Spec => []StatIsExact
BY CliTypes, StatExact, PTL

(***************************************************************************)
(* A table that is exported reads back as every process reads it, for any  *)
(* number of users and any numbers (export_to and load_conf,               *)
(* operation.cpp:223 and 95).                                              *)
(***************************************************************************)
THEOREM ExportReads == Spec => []ExportReadsBack
<1>1. TypeOK => ExportReadsBack
  <2> SUFFICES ASSUME TypeOK, NEW prev PROVE LoadConf(ExportTo(Users), prev) = Users
    BY DEF ExportReadsBack
  <2>1. conf \in Table /\ Users = CutTable(conf) /\ Users \in Table
    BY UsersRead
  <2>2. LoadConf(ExportTo(Users), prev) = CutTable(Users)
    BY <2>1, LoadExport
  <2>3. CutTable(CutTable(conf)) = CutTable(conf)
    BY <2>1, CutTyped
  <2> QED BY <2>1, <2>2, <2>3
<1> QED BY <1>1, CliTypes, PTL

-----------------------------------------------------------------------------
(***************************************************************************)
(* The largest unit that is named is the one that parse_size looks for     *)
(* first.                                                                  *)
(***************************************************************************)
LEMMA MeantIsFound ==
  ASSUME NEW t \in Text
  PROVE  /\ Meant(t, 0) = t.num * Bytes(UnitOf(t.letters, "B"))
         /\ Meant(t, 3) = t.num * Bytes(UnitOf(t.letters, "G"))
<1> DEFINE named == {Rank[u] : u \in t.letters}
           Largest(r) == r \in named /\ \A s \in named : s <= r
           Weight == <<1, Kilo, Kilo * Kilo, Kilo * Kilo * Kilo, Kilo * Kilo * Kilo * Kilo>>
<1>1. /\ Rank["B"] = 0 /\ Rank["K"] = 1 /\ Rank["M"] = 2 /\ Rank["G"] = 3 /\ Rank["T"] = 4
  BY DEF Rank, Unit
<1>2. t.letters \subseteq Unit
  BY DEF Text
<1>3. \A u \in Unit : Rank[u] \in 0 .. 4 /\ Bytes(u) = Weight[Rank[u] + 1]
  BY <1>1 DEF Unit, Bytes
<1>4. ASSUME t.letters # {}, NEW b
      PROVE  UnitOf(t.letters, b) \in t.letters /\ Largest(Rank[UnitOf(t.letters, b)])
  BY <1>1, <1>2, <1>4 DEF UnitOf, Unit
<1>5. ASSUME t.letters # {}, NEW b
      PROVE  (CHOOSE r \in named : \A s \in named : s <= r) = Rank[UnitOf(t.letters, b)]
  <2> DEFINE m == Rank[UnitOf(t.letters, b)]
             c == CHOOSE r \in named : \A s \in named : s <= r
  <2>1. Largest(m)
    BY <1>4, <1>5
  <2>2. named \subseteq 0 .. 4
    BY <1>2, <1>3
  <2> HIDE DEF named, m
  <2>3. Largest(c)
    BY <2>1
  <2> HIDE DEF c
  <2>4. c <= m /\ m <= c /\ c \in 0 .. 4 /\ m \in 0 .. 4
    BY <2>1, <2>2, <2>3
  <2>5. c = m
    BY <2>4
  <2> QED BY <2>5 DEF c, m, named
<1>6. ASSUME NEW bare, NEW b \in Unit, Rank[b] = bare
      PROVE  Meant(t, bare) = t.num * Bytes(UnitOf(t.letters, b))
  <2>1. CASE t.letters = {}
    <3>1. UnitOf(t.letters, b) = b /\ named = {}
      BY <2>1 DEF UnitOf
    <3>2. Meant(t, bare) = t.num * Weight[bare + 1]
      BY <3>1 DEF Meant
    <3> QED BY <1>3, <1>6, <3>1, <3>2
  <2>2. CASE t.letters # {}
    <3>1. UnitOf(t.letters, b) \in Unit /\ named # {}
      BY <1>2, <1>4, <2>2
    <3>2. Meant(t, bare) = t.num * Weight[Rank[UnitOf(t.letters, b)] + 1]
      BY <1>5, <2>2, <3>1 DEF Meant
    <3> QED BY <1>3, <3>1, <3>2
  <2> QED BY <2>1, <2>2
<1> QED BY <1>1, <1>6 DEF Unit
(***************************************************************************)
(* After an add or a limit, sswatcher.conf holds the cap of the text that  *)
(* was given, or what is left of it after it was read and written again.   *)
(***************************************************************************)
CapIsParsed ==
  last.outcome = "done" /\ last.task \in {"add", "update", "limit"} =>
    /\ last.args[2] \in Size /\ PortOf(last.args[1]) \in Port
    /\ conf[PortOf(last.args[1])] # NoUser
    /\ Atoll(conf[PortOf(last.args[1])].cap)
         = Atoll(ParseSize(last.args[2], last.task # "limit"))

LEMMA CapStep == TypeOK /\ CapIsParsed /\ [Next]_vars => CapIsParsed'
<1> SUFFICES ASSUME TypeOK, CapIsParsed, [Next]_vars PROVE CapIsParsed'
  OBVIOUS
<1>1. Users \in Table /\ Users = CutTable(conf) /\ conf \in Table
  BY UsersRead
<1>2. ASSUME last'.outcome # "done" \/ last'.task \notin {"add", "update", "limit"}
      PROVE  CapIsParsed'
  BY <1>2 DEF CapIsParsed
<1>3. ASSUME NEW task, NEW argc, NEW args, NEW outcome, Ends(task, argc, args, outcome),
             outcome # "done" \/ task \notin {"add", "update", "limit"}
      PROVE  CapIsParsed'
  BY <1>2, <1>3, EndsTyped
<1>4. \A n \in PortArg : PortOf(n) \in Port
  BY CliAssumption
<1>5. ASSUME NEW task \in {"add", "update", "limit"}, NEW argc, NEW n \in PortArg,
             NEW size \in Size, NEW u, conf' = [Users EXCEPT ![PortOf(n)] = u],
             u # NoUser, u.cap = ParseSize(size, task # "limit"),
             Ends(task, argc, <<n, size>>, "done")
      PROVE  CapIsParsed'
  <2>1. last'.task = task /\ last'.args = <<n, size>>
    BY <1>5, EndsTyped
  <2>2. last'.args[1] = n /\ last'.args[2] = size
    BY <2>1
  <2>3. conf'[PortOf(n)] = u
    BY <1>1, <1>4, <1>5 DEF Table
  <2> QED BY <1>4, <1>5, <2>1, <2>2, <2>3 DEF CapIsParsed
<1>6. ASSUME NEW task \in {"add", "update"}, NEW argc, NEW n \in PortArg,
             NEW size \in Size \cup {Blank}, AddPort(task, argc, n, size)
      PROVE  CapIsParsed'
  <2>1. CASE size = Blank
    <3>1. Ends(task, argc, <<n>>, "crashed")
      BY <1>6, <2>1 DEF AddPort
    <3> QED BY <1>3, <3>1
  <2>2. CASE size # Blank
    <3> DEFINE u == [cap   |-> ParseSize(size, TRUE),
                     usage |-> IF Users[PortOf(n)] = NoUser THEN 0 ELSE Users[PortOf(n)].usage]
    <3>1. conf' = [Users EXCEPT ![PortOf(n)] = u] /\ Ends(task, argc, <<n, size>>, "done")
      BY <1>6, <2>2 DEF AddPort
    <3>2. u \in User
      <4>1. ParseSize(size, TRUE) \in 0 .. Word - 1
        BY <2>2, CliAssumption, ParseSizeExact
      <4>2. \A p \in Port : Users[p] # NoUser => Users[p].usage \in 0 .. Word - 1
        BY <1>1 DEF Table, User
      <4>3. 0 \in 0 .. Word - 1
        BY WordAssumption
      <4> QED BY <1>4, <4>1, <4>2, <4>3 DEF User
    <3>3. u # NoUser /\ u.cap = ParseSize(size, task # "limit")
      BY <1>6, <3>2, TableAssumption
    <3> HIDE DEF u
    <3> QED BY <1>5, <1>6, <2>2, <3>1, <3>3
  <2> QED BY <2>1, <2>2
<1>7. ASSUME NEW argc, NEW n \in PortArg, RemovePort(argc, n) \/ ResetPort(argc, n)
      PROVE  CapIsParsed'
  BY <1>3, <1>7 DEF RemovePort, ResetPort, EditPort
<1>8. ASSUME NEW argc, NEW n \in PortArg, NEW size \in Size, LimitPort(argc, n, size)
      PROVE  CapIsParsed'
  <2> DEFINE u == [Users[PortOf(n)] EXCEPT !.cap = ParseSize(size, FALSE)]
             q == PortOf(n)
  <2>1. <<n, size>>[1] = n
    OBVIOUS
  <2>2. EditPort("limit", argc, <<n, size>>, u)
    BY <1>8 DEF LimitPort
  <2>3. CASE Users[q] = NoUser
    <3>1. Ends("limit", argc, <<n, size>>, "failed")
      BY <2>1, <2>2, <2>3 DEF EditPort
    <3> QED BY <1>3, <3>1
  <2>4. CASE Users[q] # NoUser
    <3>1. Users[q] \in User /\ ParseSize(size, FALSE) \in 0 .. Word - 1
      BY <1>1, <1>4, <2>4, CliAssumption, ParseSizeExact DEF Table
    <3>2. u \in User /\ u.cap = ParseSize(size, FALSE)
      BY <3>1 DEF User
    <3> HIDE DEF u
    <3>3. conf' = [Users EXCEPT ![q] = u] /\ Ends("limit", argc, <<n, size>>, "done")
      BY <2>1, <2>2, <2>4 DEF EditPort
    <3>4. u # NoUser /\ u.cap = ParseSize(size, "limit" # "limit")
      BY <3>2, TableAssumption
    <3> QED BY <1>5, <3>3, <3>4
  <2> QED BY <2>3, <2>4
<1>9. ASSUME NEW argc, ResetAll(argc) \/ Stop(argc) \/ Restart(argc)
      PROVE  CapIsParsed'
  BY <1>3, <1>9 DEF ResetAll, Stop, Restart
<1>10. ASSUME NEW argc, NEW f, ImportFrom(argc, f)
       PROVE  CapIsParsed'
  BY <1>3, <1>10 DEF ImportFrom
<1>11. ASSUME NEW task \in {"export", "export_users"}, NEW argc, Export(task, argc)
       PROVE  CapIsParsed'
  BY <1>3, <1>11 DEF Export
<1>12. ASSUME NEW task \in DefaultLimit, NEW argc, NEW size, SetDefaultDatacap(task, argc, size)
       PROVE  CapIsParsed'
  BY <1>3, <1>12 DEF SetDefaultDatacap, DefaultLimit
<1>13. ASSUME NEW task, NEW argc, NotRoot(task, argc)
       PROVE  CapIsParsed'
  BY <1>3, <1>13 DEF NotRoot
<1>14. ASSUME NEW argc, NEW path, Start(argc, path)
       PROVE  CapIsParsed'
  BY <1>3, <1>14 DEF Start
<1>15. ASSUME NEW task, NEW argc \in 2 .. 6, Show(task, argc)
       PROVE  CapIsParsed'
  <2>1. \/ Handler(task, argc) = "show" /\ Ends(task, argc, <<>>, "done")
        \/ Ends(task, argc, <<>>, "unsupported")
    BY <1>15 DEF Show, Begins
  <2>2. ASSUME task \in {"add", "update", "limit"}
        PROVE  Handler(task, argc) # "show"
    <3>1. task \notin Printing \cup DefaultLimit
      BY <2>2 DEF Printing, DefaultLimit
    <3>2. CASE argc = 2
      BY <2>2, <3>1, <3>2 DEF Handler
    <3>3. CASE argc = 3
      BY <2>2, <3>1, <3>3 DEF Handler
    <3>4. CASE argc \in 4 .. 6
      BY <2>2, <3>1, <3>4 DEF Handler
    <3> QED BY <3>2, <3>3, <3>4
  <2> QED BY <1>3, <2>1, <2>2
<1>16. ASSUME Show("none", 1)
       PROVE  CapIsParsed'
  BY <1>3, <1>16 DEF Show
<1>17. ASSUME NEW p \in Port, NEW d \in Delta, AddDataToConf(p, d)
       PROVE  CapIsParsed'
  <2> SUFFICES ASSUME last'.outcome = "done", last'.task \in {"add", "update", "limit"}
      PROVE  CapIsParsed'
    BY <1>2
  <2> DEFINE q == PortOf(last.args[1])
             c == Atoll(ParseSize(last.args[2], last.task # "limit"))
  <2>1. last' = last
    BY <1>17 DEF AddDataToConf
  <2>2. /\ last.args[2] \in Size /\ q \in Port /\ conf[q] # NoUser
        /\ Atoll(conf[q].cap) = c
    BY <2>1 DEF CapIsParsed
  <2> HIDE DEF q, c
  <2>3. conf[q] \in User
    BY <1>1, <2>2 DEF Table
  <2>4. Users[q] = Cut(conf[q]) /\ Users[q] \in User /\ Users[q] # NoUser
    BY <1>1, <2>2, <2>3, CutUser DEF CutTable
  <2>5. conf'[q] = Users[q] \/ conf'[q] = [Users[q] EXCEPT !.usage = (@ + d) % Word]
    BY <1>17, <2>2 DEF AddDataToConf
  <2>6. conf'[q].cap = Users[q].cap /\ conf'[q] # NoUser
    BY <2>4, <2>5, Recorded
  <2>7. Atoll(conf'[q].cap) = c
    <3>1. Atoll(Users[q].cap) = Atoll(conf[q].cap)
      BY <2>3, <2>4, CutUser, MaxSignedBounds DEF Atoll
    <3> QED BY <2>2, <2>6, <3>1
  <2> QED BY <2>1, <2>2, <2>6, <2>7 DEF CapIsParsed, q, c
<1>18. CASE UNCHANGED vars
  BY <1>18 DEF vars, CapIsParsed
<1>19. ASSUME NEW argc \in 2 .. 6, Command(argc)
       PROVE  CapIsParsed'
  BY <1>6, <1>7, <1>8, <1>9, <1>10, <1>11, <1>12, <1>13, <1>14, <1>15, <1>19, Zenon DEF Command
<1> QED BY <1>16, <1>17, <1>18, <1>19, Zenon DEF Next

(***************************************************************************)
(* What is enforced after an add or a limit is the cap that was typed, for *)
(* every whole number whose size is below 2^63, whatever reports have been *)
(* recorded since (converter.cpp:17, operation.cpp:233 and 122).           *)
(***************************************************************************)
THEOREM CapsAsTyped == Spec => []CapAsTyped
<1>1. Init => CapIsParsed
  BY DEF Init, CapIsParsed
<1>2. TypeOK /\ CapIsParsed => CapAsTyped
  <2> SUFFICES ASSUME TypeOK, CapIsParsed, last.outcome = "done",
                      last.task \in {"add", "update", "limit"},
                      Meant(last.args[2], IF last.task = "limit" THEN 0 ELSE 3) <= MaxSigned
      PROVE  Users[PortOf(last.args[1])].cap
               = Meant(last.args[2], IF last.task = "limit" THEN 0 ELSE 3)
    BY DEF CapAsTyped
  <2> DEFINE q == PortOf(last.args[1])
             t == last.args[2]
             usegig == last.task # "limit"
             m == Meant(t, IF last.task = "limit" THEN 0 ELSE 3)
  <2>1. t \in Text /\ q \in Port /\ conf[q] # NoUser /\ Atoll(conf[q].cap) = Atoll(ParseSize(t, usegig))
    BY CliAssumption DEF CapIsParsed
  <2>2. m = t.num * Bytes(UnitOf(t.letters, IF usegig THEN "G" ELSE "B"))
    BY <2>1, MeantIsFound
  <2>3. usegig \in BOOLEAN
    OBVIOUS
  <2> HIDE DEF q, t, usegig
  <2>4. ParseSize(t, usegig) = m
    BY <2>1, <2>2, <2>3, ParseSizeExact DEF q, t
  <2>5. m <= MaxSigned
    BY DEF t
  <2>6. Users[q].cap = Atoll(conf[q].cap)
    <3>1. conf[q] \in User /\ Users[q] = Cut(conf[q])
      BY <2>1, UsersRead DEF CutTable, Table
    <3> QED BY <3>1, CutUser
  <2>7. m \in Nat
    BY <2>1, <2>4, <2>3, ParseSizeExact, WordAssumption
  <2>8. Atoll(m) = m
    BY <2>5, <2>7, MaxSignedBounds DEF Atoll
  <2> QED BY <2>1, <2>4, <2>6, <2>8 DEF q, t
<1>3. Spec => []CapIsParsed
  BY <1>1, CapStep, CliTypes, PTL DEF Spec
<1> QED BY <1>2, <1>3, CliTypes, PTL
-----------------------------------------------------------------------------
(***************************************************************************)
(* A recorded usage below 2^63 falls only when a command says so: every    *)
(* other step reads it, keeps it or adds to it (operation.cpp:122, 290).   *)
(***************************************************************************)
THEOREM UsageFalls == Spec => UsageFallsOnlyWhenTold
<1> DEFINE Falls(p) == /\ conf[p] # NoUser /\ conf[p].usage <= MaxSigned
                       /\ conf'[p] = NoUser \/ conf'[p].usage < conf[p].usage
           Told(p) == /\ commands' # commands
                      /\ \/ last'.task \in {"reset", "remove"} /\ PortOf(last'.args[1]) = p
                         \/ last'.task = "reset_all"
                         \/ /\ last'.task = "load"
                            /\ LET f == last'.args[1]
                               IN  \A i \in LastLines(f, p) : f[i].usage # Blank
<1>1. ASSUME TypeOK, [Next]_vars, NEW p \in Port, Falls(p)
      PROVE  Told(p)
  <2>1. conf \in Table /\ Users = CutTable(conf) /\ Users \in Table
    BY <1>1, UsersRead
  <2>2. conf[p] \in User /\ conf[p].usage \in Nat /\ conf[p].usage <= MaxSigned
    BY <1>1, <2>1, CutUser DEF Table
  <2>3. /\ Users[p] \in User /\ Users[p] # NoUser
        /\ Users[p].usage = conf[p].usage
    <3>1. Users[p] = Cut(conf[p])
      BY <1>1, <2>1 DEF CutTable
    <3>2. conf[p].usage <= MaxSigned => Atoll(conf[p].usage) = conf[p].usage
      BY <2>2, MaxSignedBounds DEF Atoll
    <3> QED BY <2>2, <3>1, <3>2, CutUser
  <2>4. ASSUME conf'[p] \in User, conf'[p].usage >= Users[p].usage
        PROVE  FALSE
    <3>1. conf'[p] # NoUser
      BY <2>4, TableAssumption
    <3>2. conf'[p].usage < conf[p].usage
      BY <1>1, <3>1
    <3>3. \A u \in User : u.usage \in Int
      BY WordAssumption DEF User
    <3> QED BY <2>2, <2>3, <2>4, <3>2, <3>3
  <2>5. conf'[p] # Users[p] /\ conf'[p] # conf[p]
    <3>1. \A u \in User : u.usage \in Int
      BY WordAssumption DEF User
    <3>2. ~(conf'[p] = Users[p])
      BY <2>3, <2>4, <3>1
    <3>3. ~(conf'[p] = conf[p])
      BY <2>2, <2>3, <2>4, <3>1
    <3> QED BY <3>2, <3>3
  <2> HIDE DEF Told, Falls
  <2>6. ASSUME NEW q \in Port, NEW u, conf' = [Users EXCEPT ![q] = u]
        PROVE  q = p /\ conf'[p] = u
    BY <2>1, <2>5, <2>6 DEF Table
  <2>7. ASSUME NEW task, NEW argc, NEW n \in PortArg, NEW size \in Size \cup {Blank},
               AddPort(task, argc, n, size)
        PROVE  FALSE
    <3> DEFINE u == [cap   |-> ParseSize(size, TRUE),
                     usage |-> IF Users[PortOf(n)] = NoUser THEN 0 ELSE Users[PortOf(n)].usage]
    <3>1. size # Blank /\ conf' = [Users EXCEPT ![PortOf(n)] = u]
      BY <2>5, <2>7 DEF AddPort
    <3>2. PortOf(n) \in Port /\ ParseSize(size, TRUE) \in 0 .. Word - 1
      BY <3>1, CliAssumption, ParseSizeExact
    <3>3. PortOf(n) = p /\ conf'[p] = u
      <4> HIDE DEF u
      <4> QED BY <2>6, <3>1, <3>2
    <3>4. u = [cap |-> ParseSize(size, TRUE), usage |-> Users[p].usage]
      BY <2>3, <3>3
    <3> HIDE DEF u
    <3>5. Users[p].usage \in 0 .. Word - 1 /\ Users[p].usage \in Int
      BY <2>2, <2>3 DEF User
    <3>6. u \in User /\ u.usage = Users[p].usage
      BY <3>2, <3>4, <3>5 DEF User
    <3> QED BY <2>4, <3>3, <3>5, <3>6
  <2>8. ASSUME NEW task, NEW argc, NEW handler, NEW n \in PortArg, NEW args, NEW u,
               args[1] = n, Begins(task, argc, handler), EditPort(task, argc, args, u)
        PROVE  /\ PortOf(n) = p /\ conf'[p] = u /\ PortOf(last'.args[1]) = p
               /\ last'.task = task /\ commands' # commands
    <3>1. conf' # conf
      BY <2>5
    <3>2. conf' = [Users EXCEPT ![PortOf(n)] = u] /\ Ends(task, argc, args, "done")
      BY <2>8, <3>1 DEF EditPort
    <3>3. PortOf(n) = p /\ conf'[p] = u
      BY <2>6, <3>2, CliAssumption
    <3>4. last'.args = args /\ last'.task = task
      BY <3>2, EndsTyped
    <3>5. commands' # commands
      BY <1>1, <2>8, BeginsTyped
    <3> QED BY <2>8, <3>3, <3>4, <3>5
  <2>9. ASSUME NEW argc, NEW n \in PortArg, RemovePort(argc, n) \/ ResetPort(argc, n)
        PROVE  Told(p)
    <3>1. <<n>>[1] = n
      OBVIOUS
    <3>2. /\ last'.task \in {"remove", "reset"} /\ commands' # commands
          /\ PortOf(last'.args[1]) = p
      BY <2>8, <2>9, <3>1 DEF RemovePort, ResetPort
    <3> QED BY <3>2 DEF Told
  <2>10. ASSUME NEW argc, NEW n \in PortArg, NEW size \in Size, LimitPort(argc, n, size)
         PROVE  FALSE
    <3> DEFINE u == [Users[PortOf(n)] EXCEPT !.cap = ParseSize(size, FALSE)]
    <3>1. <<n, size>>[1] = n
      OBVIOUS
    <3>2. PortOf(n) = p /\ conf'[p] = u
      <4>1. EditPort("limit", argc, <<n, size>>, u) /\ Begins("limit", argc, "update_datacap_for_port")
        BY <2>10 DEF LimitPort
      <4> HIDE DEF u
      <4> QED BY <2>8, <3>1, <4>1
    <3>3. ParseSize(size, FALSE) \in 0 .. Word - 1
      BY CliAssumption, ParseSizeExact
    <3>4. [Users[p] EXCEPT !.cap = ParseSize(size, FALSE)] \in User
      BY <2>3, <3>3 DEF User
    <3>5. [Users[p] EXCEPT !.cap = ParseSize(size, FALSE)].usage = Users[p].usage
      BY <2>3 DEF User
    <3>6. conf'[p] \in User /\ conf'[p].usage = Users[p].usage /\ Users[p].usage \in Int
      BY <2>2, <2>3, <3>2, <3>4, <3>5
    <3> QED BY <2>4, <3>6
  <2>11. ASSUME NEW argc, ResetAll(argc)
         PROVE  Told(p)
    <3>1. last'.task = "reset_all"
      BY <2>11, EndsTyped DEF ResetAll
    <3>2. commands' # commands
      BY <1>1, <2>11, BeginsTyped DEF ResetAll
    <3> QED BY <3>1, <3>2 DEF Told
  <2>12. ASSUME NEW argc, NEW f \in Given \cup {file}, ImportFrom(argc, f)
         PROVE  Told(p)
    <3>1. conf' = LoadConf(f, Users) /\ last'.task = "load" /\ last'.args = <<f>>
      BY <2>12, EndsTyped DEF ImportFrom
    <3>2. commands' # commands
      BY <1>1, <2>12, BeginsTyped DEF ImportFrom
    <3>3. f \in Seq(Line) /\ capfile \in Text
      BY <1>1, TableAssumption DEF TypeOK
    <3>4. ASSUME NEW i \in LastLines(f, p), f[i].usage = Blank
          PROVE  FALSE
      <4>1. (CHOOSE j \in LastLines(f, p) : TRUE) = i
        BY <3>3, OneLastLine
      <4>2. conf'[p] = UserOf(f[i], Users[p])
        BY <3>1, <4>1 DEF LoadConf
      <4>3. conf'[p].usage = Users[p].usage
        BY <2>3, <3>4, <4>2 DEF UserOf
      <4>4. conf'[p] \in User
        <5>1. conf'[p] = [cap |-> conf'[p].cap, usage |-> Users[p].usage]
          BY <2>3, <3>4, <4>2 DEF UserOf
        <5>2. conf'[p].cap \in 0 .. Word - 1
          <6>1. FirstWord(capfile) \in Text
            BY <3>3 DEF FirstWord, Text
          <6>2. f[i] \in Line
            BY <3>3, OneLastLine
          <6>3. f[i].cap # Blank => f[i].cap \in Text
            BY <6>2 DEF Line
          <6>4. DefaultCap \in 0 .. Word - 1
            BY <6>1, ParseSizeExact DEF DefaultCap
          <6>5. conf'[p].cap = IF f[i].cap = Blank THEN DefaultCap ELSE ParseSize(f[i].cap, FALSE)
            BY <4>2 DEF UserOf
          <6> QED BY <6>3, <6>4, <6>5, ParseSizeExact
        <5>3. Users[p].usage \in 0 .. Word - 1
          BY <2>3 DEF User
        <5> QED BY <5>1, <5>2, <5>3 DEF User
      <4>5. Users[p].usage \in Int
        BY <2>2, <2>3
      <4> QED BY <2>4, <4>3, <4>4, <4>5
    <3>5. last'.args[1] = f
      BY <3>1
    <3> QED BY <3>1, <3>2, <3>4, <3>5 DEF Told
  <2>13. ASSUME NEW task, NEW argc,
                \/ Export(task, argc) \/ Show(task, argc) \/ NotRoot(task, argc)
                \/ Stop(argc) \/ Restart(argc) \/ (\E path : Start(argc, path))
                \/ (\E size : SetDefaultDatacap(task, argc, size))
         PROVE  FALSE
    BY <2>5, <2>13 DEF Export, Show, NotRoot, Stop, Restart, Start, SetDefaultDatacap
  <2>14. ASSUME NEW argc \in 2 .. 6, Command(argc)
         PROVE  Told(p)
    BY <2>7, <2>9, <2>10, <2>11, <2>12, <2>13, <2>14, Zenon DEF Command
  <2>15. ASSUME NEW q \in Port, NEW d \in Delta, AddDataToConf(q, d)
         PROVE  FALSE
    <3>1. conf'[p] = Users[p] \/ conf'[p] = [Users[p] EXCEPT !.usage = (@ + d) % Word]
      BY <2>15 DEF AddDataToConf
    <3>2. Users[p].usage <= MaxSigned
      BY <2>2, <2>3
    <3> QED BY <2>3, <2>4, <2>5, <3>1, <3>2, Recorded
  <2>16. ASSUME Show("none", 1) \/ UNCHANGED vars
         PROVE  FALSE
    BY <2>5, <2>16 DEF Show, vars
  <2> QED BY <1>1, <2>14, <2>15, <2>16, Zenon DEF Next
<1>2. TypeOK /\ [Next]_vars => [\A p \in Port : Falls(p) => Told(p)]_vars
  BY <1>1
<1> QED BY <1>2, CliTypes, PTL DEF Spec, UsageFallsOnlyWhenTold
=============================================================================
