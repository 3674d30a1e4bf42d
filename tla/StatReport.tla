----------------------------- MODULE StatReport -----------------------------
(***************************************************************************)
(* handle_response of the daemon (daemon/main.cpp): a datagram "stat: {    *)
(* "port": bytes, ... }" is parsed, its members are gone through, and what *)
(* they count is added to the users (ConfigMgr::add_data_to_conf).         *)
(*                                                                         *)
(* One report is handled, with whatever depth an earlier parse left in the *)
(* global stackDepth_g.  An exception of jsoncpp is not caught, and ends   *)
(* the daemon.  A string is a name here, so that atol of a member's name   *)
(* is a function of it.                                                    *)
(***************************************************************************)
EXTENDS JsonReader

CONSTANTS
  Port,          \* the ports that have a user
  PortWord,      \* a port is a uint16_t, of PortWord values
  AtolOf         \* what atol makes of a name

ASSUME PortsAssumption ==
  /\ PortWord \in Nat \ {0} /\ Port \subseteq 0 .. PortWord - 1 /\ IsFiniteSet(Port)
  /\ AtolOf \in [Name -> Nat]

VARIABLES
  daemon,        \* where handle_response is
  next,          \* the iterator, as a number of members passed
  ports, delta,  \* the vectors
  usage          \* of the users, since the datagram came

handler == <<daemon, next, ports, delta, usage>>

vars == <<document, reader, handler>>

TypeOK ==
  /\ text \in Seq(Tokens) /\ pos \in 0 .. Len(text) /\ closed \in BOOLEAN
  /\ at \in Place /\ depth \in 0 .. StackLimit /\ successful \in BOOLEAN
  /\ \A i \in DOMAIN stack : IsComplex(stack[i].value) /\ stack[i].key \in Nat
  /\ \A i \in DOMAIN errors : errors[i] \in 0 .. Len(text)
  /\ root.type \in ValueType
  /\ daemon \in {"receiving", "parsing", "iterating", "handled", "ended"}
  /\ next \in Nat
  /\ ports \in Seq(0 .. PortWord - 1) /\ delta \in Seq(0 .. maxUInt64)
  /\ Len(ports) = next /\ Len(delta) = next
  /\ usage \in [Port -> 0 .. maxUInt64]

Init ==
  /\ text = << >> /\ closed = FALSE /\ pos = 0
  /\ at = "idle" /\ stack = << >> /\ errors = << >>
  /\ depth \in 0 .. StackLimit
  /\ root = NullValue /\ successful = FALSE
  /\ daemon = "receiving" /\ next = 0 /\ ports = << >> /\ delta = << >>
  /\ usage = [p \in Port |-> 0]

\* A datagram "stat: ..." came, and reader.parse is called.
Receive ==
  /\ daemon = "receiving"
  /\ Parse
  /\ daemon' = "parsing"
  /\ UNCHANGED <<next, ports, delta, usage>>

\* The datagram is "stat:" alone: substr(6) throws out_of_range.
ReceiveBare ==
  /\ daemon = "receiving"
  /\ daemon' = "ended"
  /\ UNCHANGED <<document, reader, next, ports, delta, usage>>

Parsing ==
  /\ daemon = "parsing"
  /\ Step
  /\ UNCHANGED handler

Given ==
  /\ daemon = "parsing"
  /\ Feed
  /\ UNCHANGED handler

\* The exception of readValue.
ParseThrows ==
  /\ daemon = "parsing" /\ at = "thrown"
  /\ daemon' = "ended"
  /\ UNCHANGED <<document, reader, next, ports, delta, usage>>

ParseFails ==
  /\ daemon = "parsing" /\ at = "done" /\ ~successful
  /\ daemon' = "handled"
  /\ UNCHANGED <<document, reader, next, ports, delta, usage>>

ParseSucceeds ==
  /\ daemon = "parsing" /\ at = "done" /\ successful
  /\ daemon' = "iterating"
  /\ UNCHANGED <<document, reader, next, ports, delta, usage>>

\* i.key().asString() of the member or element that is next.
Key == KeysInOrder(root)[next + 1]

\* Mutant of PortOf: the port is not cut to its width.
PortOfWide(k) == AtolOf[k]

\* uint16_t port = atol(port_str.c_str())
PortOf(k) == AtolOf[k] % PortWord

\* root.get(port_str, "0").asUInt64(); get throws if root is an array.
Counted == IF MayName(root) THEN AsUInt64(At(root, Key)) ELSE Thrown

\* Mutant of NextMember: each member is billed when it is read.
NextMemberAtOnce ==
  /\ daemon = "iterating" /\ next < Len(KeysInOrder(root))
  /\ Counted # Thrown
  /\ \E d \in IF Counted = Undefined THEN 0 .. maxUInt64 ELSE {Counted.num} :
       /\ ports' = Append(ports, PortOf(Key))
       /\ delta' = Append(delta, d)
       /\ usage' = [p \in Port |-> (usage[p] + IF PortOf(Key) = p THEN d ELSE 0) % LargeWord]
  /\ next' = next + 1
  /\ UNCHANGED <<document, reader, daemon>>

\* A double that uint64_t does not hold converts to any number.
NextMember ==
  /\ daemon = "iterating" /\ next < Len(KeysInOrder(root))
  /\ Counted # Thrown
  /\ \E d \in IF Counted = Undefined THEN 0 .. maxUInt64 ELSE {Counted.num} :
       /\ ports' = Append(ports, PortOf(Key))
       /\ delta' = Append(delta, d)
  /\ next' = next + 1
  /\ UNCHANGED <<document, reader, daemon, usage>>

MemberThrows ==
  /\ daemon = "iterating" /\ next < Len(KeysInOrder(root))
  /\ Counted = Thrown
  /\ daemon' = "ended"
  /\ UNCHANGED <<document, reader, next, ports, delta, usage>>

\* Mutant of Added: of two members for a port the last counts.
AddedLast(p) ==
  LET I == {i \in DOMAIN ports : ports[i] = p}
  IN  IF I = {} THEN 0 ELSE delta[Greatest(I)]

\* What the vectors hold for port p.
Added(p) ==
  LET upTo[i \in 0 .. Len(ports)] ==
        IF i = 0 THEN 0
        ELSE upTo[i - 1] + (IF ports[i] = p THEN delta[i] ELSE 0)
  IN  upTo[Len(ports)]

\* add_data_to_conf: ports without a user are passed over.
AddDataToConf ==
  /\ daemon = "iterating" /\ next = Len(KeysInOrder(root))
  /\ usage' = [p \in Port |-> (usage[p] + Added(p)) % LargeWord]
  /\ daemon' = "handled"
  /\ UNCHANGED <<document, reader, next, ports, delta>>

Next ==
  \/ Receive \/ ReceiveBare \/ Given \/ Parsing
  \/ ParseThrows \/ ParseFails \/ ParseSucceeds
  \/ NextMember \/ MemberThrows \/ AddDataToConf

\* A datagram ends, and the daemon goes on for as long as it can.
Spec == Init /\ [][Next]_vars /\ WF_vars(Next)

-----------------------------------------------------------------------------
\* Nothing is written while a report is still gone through: an exception at one
\* member leaves no user billed for another.
EndedBillsNothing == daemon \in {"parsing", "iterating", "ended"} => \A p \in Port : usage[p] = 0

\* Every datagram is done with, or ends the daemon: neither the parser nor its error
\* recovery can go on for ever at the end of a text.
DoneInTheEnd == <>(daemon \in {"handled", "ended"})
=============================================================================
