---------------------------- MODULE ReportProofs ----------------------------
(***************************************************************************)
(* Theorems about StatReport and ReportMeaning, for every limit of the     *)
(* depth, every width of the integers, every set of tokens and texts of    *)
(* any length.                                                             *)
(***************************************************************************)
EXTENDS ReportMeaning, JsonValueProofs

(***************************************************************************)
(* Nothing is billed before all members are read, in any step.             *)
(***************************************************************************)
NothingBilledYet ==
  daemon \in {"receiving", "parsing", "iterating", "ended"} => \A p \in Port : usage[p] = 0

LEMMA NothingIsBilledYet == Spec => []NothingBilledYet
<1>1. Init => NothingBilledYet
  BY DEF Init, NothingBilledYet
<1>2. NothingBilledYet /\ [Next]_vars => NothingBilledYet'
  <2> SUFFICES ASSUME NothingBilledYet, [Next]_vars PROVE NothingBilledYet'
    OBVIOUS
  <2>1. UNCHANGED handler => NothingBilledYet'
    BY DEF handler, NothingBilledYet
  <2>2. CASE Receive
    BY <2>2 DEF Receive, NothingBilledYet
  <2>3. CASE ReceiveBare
    BY <2>3 DEF ReceiveBare, NothingBilledYet
  <2>4. CASE Given \/ Parsing
    BY <2>1, <2>4 DEF Given, Parsing
  <2>5. CASE ParseThrows \/ ParseFails \/ ParseSucceeds
    BY <2>5 DEF ParseThrows, ParseFails, ParseSucceeds, NothingBilledYet
  <2>6. CASE NextMember
    BY <2>6 DEF NextMember, NothingBilledYet
  <2>7. CASE MemberThrows
    BY <2>7 DEF MemberThrows, NothingBilledYet
  <2>8. CASE AddDataToConf
    BY <2>8 DEF AddDataToConf, NothingBilledYet
  <2>9. CASE UNCHANGED vars
    BY <2>1, <2>9 DEF vars
  <2> QED BY <2>2, <2>3, <2>4, <2>5, <2>6, <2>7, <2>8, <2>9 DEF Next
<1> QED BY <1>1, <1>2, PTL DEF Spec

(***************************************************************************)
(* A report that ends the daemon bills nobody, whatever it holds           *)
(* (handle_response, daemon/main.cpp:110).                                 *)
(***************************************************************************)
THEOREM EndedUnbilled == Spec => []EndedBillsNothing
<1>1. NothingBilledYet => EndedBillsNothing
  BY DEF NothingBilledYet, EndedBillsNothing
<1> QED BY <1>1, NothingIsBilledYet, PTL

-----------------------------------------------------------------------------
(***************************************************************************)
(* stackDepth_g, at each place of the reader, from the containers that are *)
(* open: every call of readValue counts itself once and is counted down    *)
(* once, also where error recovery leaves containers in containers.        *)
(***************************************************************************)
Inside == {"first", "name", "colon", "comma", "commented", "separator"}

\* A readValue that finds no value returns without counting down; then every
\* caller fails too, so that one count at most is left over, until the next parse.
DepthCounted ==
  /\ at \in Place
  /\ stack \in Seq(Range(stack))
  /\ depth \in 0 .. StackLimit
  /\ at = "call" => depth = Len(stack)
  /\ at = "token" => depth = Len(stack) + 1
  /\ at \in Inside => depth = Len(stack) /\ Len(stack) > 0
  /\ at = "recover" => depth \in {Len(stack), Len(stack) + 1} /\ Len(stack) > 0
  /\ at \in {"rest", "done"} => stack = << >> /\ depth \in 0 .. 1
  /\ at = "thrown" => depth = Len(stack) /\ depth = StackLimit
  /\ successful => at \in {"rest", "done"} /\ depth = 0

(***************************************************************************)
(* Lemmas on sequences as stacks.                                          *)
(***************************************************************************)
LEMMA Pushed ==
  ASSUME NEW s, s \in Seq(Range(s)), NEW f, NEW t, t = Append(s, f)
  PROVE  t \in Seq(Range(t)) /\ Len(t) = Len(s) + 1
<1> DEFINE S == Range(s) \cup {f}
<1>1. s \in Seq(S) /\ f \in S
  BY SeqMonotonic
<1> HIDE DEF S
<1>2. t \in Seq(S) /\ Len(t) = Len(s) + 1
  BY <1>1
<1> QED BY <1>2, SeqOfRange

LEMMA Popped ==
  ASSUME NEW s, s \in Seq(Range(s)), Len(s) > 0, NEW t, t = SubSeq(s, 1, Len(s) - 1)
  PROVE  t \in Seq(Range(t)) /\ Len(t) = Len(s) - 1
<1>1. PICK n \in Nat : n = Len(s) - 1
  BY LenProperties
<1>2. \A i \in 1 .. n : s[i] \in Range(s)
  BY <1>1, LenProperties, ElementOfSeq
<1>3. 1 \in Int /\ n \in Int
  OBVIOUS
<1>4. /\ SubSeq(s, 1, n) \in Seq(Range(s))
      /\ Len(SubSeq(s, 1, n)) = IF 1 <= n THEN n - 1 + 1 ELSE 0
  BY <1>2, <1>3, SubSeqProperties
<1>5. t \in Seq(Range(s)) /\ Len(t) = n
  BY <1>1, <1>4
<1> QED BY <1>1, <1>5, SeqOfRange

LEMMA Replaced ==
  ASSUME NEW s, s \in Seq(Range(s)), NEW i \in 1 .. Len(s), NEW f,
         NEW t, t = [s EXCEPT ![i] = f]
  PROVE  t \in Seq(Range(t)) /\ Len(t) = Len(s)
<1> DEFINE S == Range(s) \cup {f}
<1>1. s \in Seq(S) /\ f \in S
  BY SeqMonotonic
<1> HIDE DEF S
<1>2. t \in Seq(S) /\ Len(t) = Len(s)
  BY <1>1, ExceptSeq
<1> QED BY <1>2, SeqOfRange

(***************************************************************************)
(* A readValue that returns leaves its caller's count.                     *)
(***************************************************************************)
LEMMA ReturnCounted ==
  ASSUME NEW st, st \in Seq(Range(st)), NEW v,
         depth' = Len(st), depth' <= StackLimit, ~successful, Return(st, v)
  PROVE  DepthCounted'
<1>1. Len(st) \in Nat /\ StackLimit \in Nat
  BY LimitAssumption, LenProperties
<1>2. CASE st = << >>
  <2>1. Len(st) = 0
    BY <1>2
  <2>2. at' = "rest" /\ stack' = st
    BY <1>2 DEF Return
  <2> QED BY <1>1, <1>2, <2>1, <2>2 DEF DepthCounted, Inside, Place
<1>3. CASE st # << >>
  <2>1. Len(st) > 0
    BY <1>1, <1>3, EmptySeq
  <2>2. at' \in {"comma", "separator"} /\ successful' = successful
    BY <1>3 DEF Return
  <2>3. PICK f : stack' = [st EXCEPT ![Len(st)] = f]
    BY <1>3 DEF Return
  <2>4. Len(st) \in 1 .. Len(st)
    BY <1>1, <2>1
  <2>5. stack' \in Seq(Range(stack')) /\ Len(stack') = Len(st)
    BY <2>3, <2>4, Replaced
  <2> QED BY <1>1, <2>1, <2>2, <2>5 DEF DepthCounted, Inside, Place
<1> QED BY <1>2, <1>3

LEMMA FailCounted ==
  ASSUME NEW st, st \in Seq(Range(st)), ~successful,
         depth' \in {Len(st), Len(st) + 1}, depth' <= StackLimit, Fail(st)
  PROVE  DepthCounted'
<1>1. Len(st) \in Nat /\ StackLimit \in Nat
  BY LimitAssumption, LenProperties
<1>2. stack' = st /\ successful' = successful
  BY DEF Fail
<1>3. CASE st = << >>
  <2>1. Len(st) = 0 /\ at' = "rest"
    BY <1>3 DEF Fail
  <2> QED BY <1>1, <1>2, <1>3, <2>1 DEF DepthCounted, Inside, Place
<1>4. CASE st # << >>
  <2>1. Len(st) > 0 /\ at' = "recover"
    BY <1>1, <1>4, EmptySeq DEF Fail
  <2> QED BY <1>1, <1>2, <2>1 DEF DepthCounted, Inside, Place
<1> QED BY <1>3, <1>4

(***************************************************************************)
(* Steps that stay in the container, and those that leave it.              *)
(***************************************************************************)
LEMMA GotoCounted ==
  ASSUME DepthCounted, at \in Inside, NEW p \in Inside \cup {"call", "recover"},
         at' = p, UNCHANGED <<stack, depth, successful>>
  PROVE  DepthCounted'
<1>1. Len(stack) \in Nat
  BY LenProperties DEF DepthCounted
<1>2. p \in Place /\ p \notin {"token", "idle", "rest", "done", "thrown"}
  BY DEF Inside, Place
<1>3. at \notin {"idle", "rest", "done"}
  BY DEF Inside
<1> QED BY <1>1, <1>2, <1>3 DEF DepthCounted

LEMMA EndCounted ==
  ASSUME DepthCounted, at \in Inside, EndContainer
  PROVE  DepthCounted'
<1>1. at \notin {"idle", "rest", "done"}
  BY DEF Inside
<1>2. Len(stack) \in Nat /\ Len(stack) > 0 /\ StackLimit \in Nat
  BY LimitAssumption, LenProperties DEF DepthCounted
<1>3. /\ depth = Len(stack) /\ depth <= StackLimit /\ ~successful
      /\ stack \in Seq(Range(stack))
  BY <1>1, <1>2 DEF DepthCounted
<1>4. Pop \in Seq(Range(Pop)) /\ Len(Pop) = Len(stack) - 1
  BY <1>2, <1>3, Popped DEF Pop
<1>5. depth' = Len(Pop) /\ depth' <= StackLimit
  BY <1>2, <1>3, <1>4 DEF EndContainer
<1>6. Return(Pop, Top.value)
  BY DEF EndContainer
<1> QED BY <1>3, <1>4, <1>5, <1>6, ReturnCounted

(***************************************************************************)
(* Each step of the reader.                                                *)
(***************************************************************************)
LEMMA DepthSetUp == ASSUME Parse PROVE DepthCounted'
<1>1. stack' = << >> /\ depth' = 0 /\ at' = "call" /\ successful' = FALSE
  BY DEF Parse
<1>2. << >> \in Seq(Range(<< >>)) /\ Len(<< >>) = 0
  BY EmptySeq
<1>3. stack' \in Seq(Range(stack')) /\ Len(stack') = 0
  BY <1>1, <1>2
<1> QED BY <1>1, <1>3, LimitAssumption DEF DepthCounted, Inside, Place

LEMMA DepthFrame ==
  ASSUME DepthCounted, UNCHANGED <<at, stack, depth, successful>>
  PROVE  DepthCounted'
BY DEF DepthCounted

LEMMA DepthOfValue ==
  ASSUME DepthCounted,
         \/ CallValue \/ ExceedStackLimit
         \/ BeginObject \/ BeginArray \/ ReadScalar \/ NotAValue
  PROVE  DepthCounted'
<1>1. Len(stack) \in Nat /\ StackLimit \in Nat /\ stack \in Seq(Range(stack))
  BY LimitAssumption, LenProperties DEF DepthCounted
<1>2. CASE CallValue
  <2>1. /\ at' = "token" /\ depth' = Len(stack) + 1 /\ depth < StackLimit
        /\ depth = Len(stack) /\ ~successful
        /\ stack' = stack /\ successful' = successful
    BY <1>2 DEF CallValue, DepthCounted
  <2> QED BY <1>1, <2>1 DEF DepthCounted, Inside, Place
<1>3. CASE ExceedStackLimit
  <2>1. /\ at' = "thrown" /\ depth' = depth /\ depth = Len(stack) /\ ~successful
        /\ depth \in 0 .. StackLimit /\ depth >= StackLimit
        /\ stack' = stack /\ successful' = successful
    BY <1>3 DEF ExceedStackLimit, Goto, DepthCounted
  <2>2. depth = StackLimit
    BY <1>1, <2>1
  <2> QED BY <1>1, <2>1, <2>2 DEF DepthCounted, Inside, Place
<1>4. ASSUME at = "token"
      PROVE  /\ depth = Len(stack) + 1 /\ depth <= StackLimit /\ ~successful
             /\ depth - 1 = Len(stack) /\ depth - 1 <= StackLimit
  BY <1>1, <1>4 DEF DepthCounted
<1>5. ASSUME NEW f, at = "token", stack' = Append(stack, f), at' \in {"name", "first"},
             UNCHANGED <<depth, successful>>
      PROVE  DepthCounted'
  <2>1. stack' \in Seq(Range(stack')) /\ Len(stack') = Len(stack) + 1
    BY <1>1, <1>5, Pushed
  <2> QED BY <1>1, <1>4, <1>5, <2>1 DEF DepthCounted, Inside, Place
<1>6. CASE BeginObject
  BY <1>5, <1>6 DEF BeginObject, Read
<1>7. CASE BeginArray
  BY <1>5, <1>7 DEF BeginArray, Read
<1>8. CASE ReadScalar
  <2>1. /\ at = "token" /\ depth' = depth - 1
        /\ Return(stack, Decode(Current)) \/ Fail(stack)
    BY <1>8, Zenon DEF ReadScalar, Read
  <2>2. depth' = Len(stack) /\ depth' <= StackLimit /\ ~successful
    BY <1>4, <2>1
  <2> QED BY <1>1, <2>1, <2>2, ReturnCounted, FailCounted
<1>9. CASE NotAValue
  <2>1. at = "token" /\ depth' = depth /\ Fail(stack)
    BY <1>9 DEF NotAValue, Read
  <2>2. depth' = Len(stack) + 1 /\ depth' <= StackLimit /\ ~successful
    BY <1>4, <2>1
  <2> QED BY <1>1, <2>1, <2>2, FailCounted
<1> QED BY <1>2, <1>3, <1>6, <1>7, <1>8, <1>9

LEMMA KeyCounted ==
  ASSUME DepthCounted, at \in Inside, NEW f, stack' = [stack EXCEPT ![Len(stack)] = f],
         at' \in {"colon", "call"}, UNCHANGED <<depth, successful>>
  PROVE  DepthCounted'
<1>1. /\ Len(stack) \in Nat /\ StackLimit \in Nat /\ stack \in Seq(Range(stack))
      /\ depth = Len(stack) /\ Len(stack) > 0
      /\ at \notin {"idle", "rest", "done"}
  BY LimitAssumption, LenProperties DEF DepthCounted, Inside
<1>2. depth <= StackLimit /\ ~successful
  BY <1>1 DEF DepthCounted
<1>3. stack' \in Seq(Range(stack')) /\ Len(stack') = Len(stack)
  <2>1. Len(stack) \in 1 .. Len(stack)
    BY <1>1
  <2> QED BY <1>1, <2>1, Replaced
<1> QED BY <1>1, <1>2, <1>3 DEF DepthCounted, Inside, Place

LEMMA DepthOfObject ==
  ASSUME DepthCounted, ReadName \/ ReadColon \/ ReadComma \/ ReadCommented
  PROVE  DepthCounted'
<1>1. at \in Inside
  BY Zenon DEF ReadName, ReadColon, ReadComma, ReadCommented, Read, Inside
<1>2. AddErrorAndRecover => DepthCounted'
  BY <1>1, GotoCounted DEF AddErrorAndRecover, Inside
<1>3. ASSUME NEW p \in {"name", "call", "commented"}, Goto(p)
      PROVE  DepthCounted'
  BY <1>1, <1>3, GotoCounted DEF Goto, Inside
<1>4. EndContainer => DepthCounted'
  BY <1>1, EndCounted
<1>5. CASE ReadName
  <2>1. ASSUME stack' = [stack EXCEPT ![Len(stack)].key = Current.str], at' = "colon",
               UNCHANGED <<depth, errors, root, successful>>
        PROVE  DepthCounted'
    BY <1>1, <2>1, KeyCounted
  <2> QED BY <1>2, <1>4, <1>5, <2>1, Zenon DEF ReadName
<1>6. CASE ReadColon
  BY <1>2, <1>3, <1>6 DEF ReadColon
<1>7. CASE ReadComma
  BY <1>2, <1>3, <1>4, <1>7 DEF ReadComma
<1>8. CASE ReadCommented
  BY <1>3, <1>4, <1>8 DEF ReadCommented
<1> QED BY <1>5, <1>6, <1>7, <1>8

LEMMA DepthOfArray ==
  ASSUME DepthCounted, EmptyArray \/ FirstElement \/ ReadSeparator
  PROVE  DepthCounted'
<1>1. at \in Inside
  BY Zenon DEF EmptyArray, FirstElement, ReadSeparator, Read, Inside
<1>2. CASE EmptyArray
  BY <1>1, <1>2, EndCounted DEF EmptyArray
<1>3. CASE FirstElement
  BY <1>1, <1>3, GotoCounted DEF FirstElement, Goto
<1>4. CASE ReadSeparator
  <2>1. AddErrorAndRecover => DepthCounted'
    BY <1>1, GotoCounted DEF AddErrorAndRecover, Inside
  <2>2. ASSUME stack' = [stack EXCEPT ![Len(stack)].key = @ + 1], at' = "call",
               UNCHANGED <<depth, errors, root, successful>>
        PROVE  DepthCounted'
    BY <1>1, <2>2, KeyCounted
  <2>3. EndContainer => DepthCounted'
    BY <1>1, EndCounted
  <2> QED BY <1>4, <2>1, <2>2, <2>3 DEF ReadSeparator
<1> QED BY <1>2, <1>3, <1>4

LEMMA DepthOfRecovery ==
  ASSUME DepthCounted, Recover
  PROVE  DepthCounted'
<1>1. at = "recover"
  BY DEF Recover, Read
<1>2. /\ Len(stack) \in Nat /\ Len(stack) > 0 /\ StackLimit \in Nat
      /\ stack \in Seq(Range(stack)) /\ ~successful
      /\ depth \in {Len(stack), Len(stack) + 1} /\ depth <= StackLimit
  BY <1>1, LimitAssumption, LenProperties DEF DepthCounted
<1>3. CASE Fail(Pop) /\ depth' = depth - 1
  <2>1. Pop \in Seq(Range(Pop)) /\ Len(Pop) = Len(stack) - 1
    BY <1>2, Popped DEF Pop
  <2>2. depth' \in {Len(Pop), Len(Pop) + 1} /\ depth' <= StackLimit
    BY <1>2, <1>3, <2>1
  <2> QED BY <1>2, <1>3, <2>1, <2>2, FailCounted
<1>4. CASE UNCHANGED <<at, stack, depth, root, successful>>
  BY <1>4, DepthFrame
<1> QED BY <1>3, <1>4 DEF Recover

LEMMA DepthStep ==
  ASSUME DepthCounted, Step
  PROVE  DepthCounted'
<1>1. CASE ReadRest
  BY <1>1 DEF ReadRest, Read, Goto, DepthCounted, Inside, Place
<1>2. ASSUME NEW p, Comment(p)
      PROVE  DepthCounted'
  BY <1>2, DepthFrame DEF Comment, reader
<1> QED BY <1>1, <1>2, DepthOfValue, DepthOfObject, DepthOfArray, DepthOfRecovery DEF Step

-----------------------------------------------------------------------------
(***************************************************************************)
(* The parser ends the daemon by its stack limit only with as many         *)
(* containers open, and a parse that succeeds has counted its depth down   *)
(* to 0, for every text (readValue, jsoncpp.cpp:350).                      *)
(***************************************************************************)
THEOREM DepthIsCounted == Spec => []DepthCounted
<1>1. Init => DepthCounted
  <2>1. << >> \in Seq(Range(<< >>))
    BY EmptySeq
  <2> QED BY <2>1 DEF Init, DepthCounted, Inside, Place
<1>2. DepthCounted /\ [Next]_vars => DepthCounted'
  <2> SUFFICES ASSUME DepthCounted, [Next]_vars PROVE DepthCounted'
    OBVIOUS
  <2>1. UNCHANGED reader => DepthCounted'
    BY DepthFrame DEF reader
  <2>2. CASE Receive
    BY <2>2, DepthSetUp DEF Receive
  <2>3. CASE Given
    BY <2>1, <2>3 DEF Given, Feed, Close, More
  <2>4. CASE Parsing
    BY <2>4, DepthStep DEF Parsing
  <2>5. CASE ReceiveBare \/ ParseThrows \/ ParseFails \/ ParseSucceeds \/ MemberThrows
    BY <2>1, <2>5 DEF ReceiveBare, ParseThrows, ParseFails, ParseSucceeds, MemberThrows
  <2>6. CASE NextMember \/ AddDataToConf
    BY <2>1, <2>6 DEF NextMember, AddDataToConf
  <2>7. CASE UNCHANGED vars
    BY <2>1, <2>7 DEF vars
  <2> QED BY <2>2, <2>3, <2>4, <2>5, <2>6, <2>7 DEF Next
<1> QED BY <1>1, <1>2, PTL DEF Spec

-----------------------------------------------------------------------------
(***************************************************************************)
(* The containers that the tokens before a place leave open.               *)
(***************************************************************************)
\* What one token adds to them.
Opens(type) ==
  CASE type \in {"objectBegin", "arrayBegin"} -> 1
    [] type \in {"objectEnd", "arrayEnd"} -> -1
    [] OTHER -> 0

\* How many of the first n tokens of s have a type of T.
OfType(s, n, T) == Cardinality({i \in 1 .. n : s[i].type \in T})

LEMMA OpenAtPrefix ==
  ASSUME NEW S, NEW s \in Seq(S), NEW n \in 0 .. Len(s)
  PROVE  OpenAt(SubSeq(s, 1, n))
           = OfType(s, n, {"objectBegin", "arrayBegin"}) - OfType(s, n, {"objectEnd", "arrayEnd"})
<1> DEFINE p == SubSeq(s, 1, n)
<1>1. DOMAIN p = 1 .. n /\ \A i \in 1 .. n : p[i] = s[i]
  BY Prefix
<1> HIDE DEF p
<1>2. \A T : {i \in DOMAIN p : p[i].type \in T} = {i \in 1 .. n : s[i].type \in T}
  BY <1>1
<1>3. OpenAt(p)
        = OfType(s, n, {"objectBegin", "arrayBegin"}) - OfType(s, n, {"objectEnd", "arrayEnd"})
  BY <1>2 DEF OpenAt, OfType
<1> QED BY <1>3 DEF p

LEMMA OfTypeNext ==
  ASSUME NEW s, NEW n \in Nat, NEW T
  PROVE  /\ OfType(s, 0, T) = 0 /\ OfType(s, n, T) \in Nat
         /\ s[n + 1].type \in T => OfType(s, n + 1, T) = OfType(s, n, T) + 1
         /\ s[n + 1].type \notin T => OfType(s, n + 1, T) = OfType(s, n, T)
<1> DEFINE A(m) == {i \in 1 .. m : s[i].type \in T}
<1>1. IsFiniteSet(A(n))
  <2>1. A(n) \subseteq 1 .. n /\ IsFiniteSet(1 .. n)
    BY FS_Interval
  <2> QED BY <2>1, FS_Subset
<1>2. n + 1 \notin A(n)
  OBVIOUS
<1>3. s[n + 1].type \in T => A(n + 1) = A(n) \cup {n + 1}
  OBVIOUS
<1>4. s[n + 1].type \notin T => A(n + 1) = A(n)
  OBVIOUS
<1>5. A(0) = {}
  OBVIOUS
<1>6. \A m : OfType(s, m, T) = Cardinality(A(m))
  BY DEF OfType
<1> HIDE DEF A
<1>7. OfType(s, n, T) \in Nat /\ OfType(s, 0, T) = 0
  BY <1>1, <1>5, <1>6, FS_CardinalityType, FS_EmptySet
<1>8. s[n + 1].type \in T => OfType(s, n + 1, T) = OfType(s, n, T) + 1
  BY <1>1, <1>2, <1>3, <1>6, FS_AddElement
<1> QED BY <1>4, <1>6, <1>7, <1>8

LEMMA OpenAtNext ==
  ASSUME NEW S, NEW s \in Seq(S), NEW n \in 0 .. Len(s)
  PROVE  /\ OpenAt(SubSeq(s, 1, n)) \in Int
         /\ n < Len(s) => OpenAt(SubSeq(s, 1, n + 1))
                            = OpenAt(SubSeq(s, 1, n)) + Opens(s[n + 1].type)
<1> DEFINE B == {"objectBegin", "arrayBegin"}
           E == {"objectEnd", "arrayEnd"}
<1>1. Len(s) \in Nat /\ n \in Nat
  BY LenProperties
<1>2. OpenAt(SubSeq(s, 1, n)) = OfType(s, n, B) - OfType(s, n, E)
  BY OpenAtPrefix
<1>3. n < Len(s) => OpenAt(SubSeq(s, 1, n + 1)) = OfType(s, n + 1, B) - OfType(s, n + 1, E)
  <2>1. n < Len(s) => n + 1 \in 0 .. Len(s)
    BY <1>1
  <2> QED BY <2>1, OpenAtPrefix
<1>4. \A T : /\ OfType(s, n, T) \in Nat
             /\ s[n + 1].type \in T => OfType(s, n + 1, T) = OfType(s, n, T) + 1
             /\ s[n + 1].type \notin T => OfType(s, n + 1, T) = OfType(s, n, T)
  BY <1>1, OfTypeNext
<1>5. /\ s[n + 1].type \in B => Opens(s[n + 1].type) = 1 /\ s[n + 1].type \notin E
      /\ s[n + 1].type \in E => Opens(s[n + 1].type) = -1 /\ s[n + 1].type \notin B
      /\ s[n + 1].type \notin B \cup E => Opens(s[n + 1].type) = 0
  BY DEF Opens
<1> HIDE DEF B, E
<1> QED BY <1>2, <1>3, <1>4, <1>5

LEMMA OpenAtNothing == OpenAt(SubSeq(<< >>, 1, 0)) = 0
<1>1. << >> \in Seq({}) /\ 0 \in 0 .. Len(<< >>) /\ 0 \in Nat
  BY EmptySeq
<1>2. OpenAt(SubSeq(<< >>, 1, 0))
        = OfType(<< >>, 0, {"objectBegin", "arrayBegin"})
            - OfType(<< >>, 0, {"objectEnd", "arrayEnd"})
  BY <1>1, OpenAtPrefix
<1>3. \A T : OfType(<< >>, 0, T) = 0
  BY <1>1, OfTypeNext
<1> QED BY <1>2, <1>3

-----------------------------------------------------------------------------
(***************************************************************************)
(* Of a text without comments, the containers that its tokens leave open   *)
(* are those on the stack, as long as no error was found.                  *)
(***************************************************************************)
NoComment == \A i \in DOMAIN text : text[i].type # "comment"

OpensCounted ==
  /\ text \in Seq(Tokens) /\ pos \in 0 .. Len(text)
  /\ at = "commented" => ~NoComment
  /\ NoComment /\ at \in Inside \cup {"call", "token", "thrown"} =>
       OpenAt(SubSeq(text, 1, pos)) = Len(stack)

LEMMA ReadOpens ==
  ASSUME OpensCounted, NEW p, Read(p)
  PROVE  /\ text' = text /\ pos' \in 0 .. Len(text)
         /\ OpenAt(SubSeq(text, 1, pos')) = OpenAt(SubSeq(text, 1, pos)) + Opens(Current.type)
         /\ OpenAt(SubSeq(text, 1, pos)) \in Int
         /\ Current.type = "comment" => ~NoComment
<1>1. text \in Seq(Tokens) /\ pos \in 0 .. Len(text) /\ Len(text) \in Nat /\ text' = text
  BY LenProperties DEF OpensCounted, Read
<1>2. /\ OpenAt(SubSeq(text, 1, pos)) \in Int
      /\ pos < Len(text) => OpenAt(SubSeq(text, 1, pos + 1))
                              = OpenAt(SubSeq(text, 1, pos)) + Opens(text[pos + 1].type)
  BY <1>1, OpenAtNext
<1>3. CASE pos < Len(text)
  <2>1. pos' = pos + 1 /\ Current = text[pos + 1] /\ pos + 1 \in DOMAIN text
    BY <1>1, <1>3, LenProperties DEF Read, Current
  <2> QED BY <1>1, <1>2, <1>3, <2>1 DEF NoComment
<1>4. CASE ~(pos < Len(text))
  <2>1. pos' = pos /\ Current = EndOfStream
    BY <1>4 DEF Read, Current
  <2>2. Current.type = "endOfStream" /\ Opens("endOfStream") = 0
    BY <2>1 DEF EndOfStream, MarkToken, Opens
  <2> QED BY <1>1, <1>2, <2>1, <2>2
<1> QED BY <1>3, <1>4

\* A step that reads a token and leaves as many containers as the token says.
LEMMA ReadCounted ==
  ASSUME OpensCounted, NEW p, Read(p),
         at' = "commented" => ~NoComment,
         NoComment /\ at' \in Inside \cup {"call", "token", "thrown"} =>
           /\ at \in Inside \cup {"call", "token", "thrown"}
           /\ Len(stack') = Len(stack) + Opens(Current.type)
  PROVE  OpensCounted'
<1>1. /\ text' = text /\ pos' \in 0 .. Len(text)
      /\ OpenAt(SubSeq(text, 1, pos')) = OpenAt(SubSeq(text, 1, pos)) + Opens(Current.type)
  BY ReadOpens
<1>2. NoComment' = NoComment
  BY <1>1 DEF NoComment
<1>3. NoComment /\ at \in Inside \cup {"call", "token", "thrown"} =>
        OpenAt(SubSeq(text, 1, pos)) = Len(stack)
  BY DEF OpensCounted
<1>4. NoComment /\ at' \in Inside \cup {"call", "token", "thrown"} =>
        OpenAt(SubSeq(text, 1, pos')) = Len(stack')
  BY <1>1, <1>3
<1>5. text \in Seq(Tokens)
  BY DEF OpensCounted
<1> QED BY <1>1, <1>2, <1>4, <1>5 DEF OpensCounted, Inside

LEMMA StayCounted ==
  ASSUME OpensCounted, UNCHANGED <<text, pos, stack>>, at' # "commented",
         at' \in Inside \cup {"call", "token", "thrown"} =>
           at \in Inside \cup {"call", "token", "thrown"}
  PROVE  OpensCounted'
BY DEF OpensCounted, NoComment

\* What a value that is read leaves on the stack.
LEMMA ReturnLeaves ==
  ASSUME NEW st, st \in Seq(Range(st)), NEW v, Return(st, v)
  PROVE  at' \in {"rest", "comma", "separator"} /\ Len(stack') = Len(st)
<1>1. Len(st) \in Nat
  BY LenProperties
<1>2. CASE st = << >>
  BY <1>2 DEF Return
<1>3. CASE st # << >>
  <2>1. Len(st) \in 1 .. Len(st)
    BY <1>1, <1>3, EmptySeq
  <2>2. at' \in {"comma", "separator"}
    BY <1>3 DEF Return
  <2>3. PICK f : stack' = [st EXCEPT ![Len(st)] = f]
    BY <1>3 DEF Return
  <2> QED BY <2>1, <2>2, <2>3, Replaced
<1> QED BY <1>2, <1>3

LEMMA EndLeaves ==
  ASSUME DepthCounted, at \in Inside, EndContainer
  PROVE  at' \in {"rest", "comma", "separator"} /\ Len(stack') = Len(stack) - 1
<1>1. stack \in Seq(Range(stack)) /\ Len(stack) > 0
  BY DEF DepthCounted
<1>2. Pop \in Seq(Range(Pop)) /\ Len(Pop) = Len(stack) - 1
  BY <1>1, Popped DEF Pop
<1>3. Return(Pop, Top.value)
  BY DEF EndContainer
<1> QED BY <1>2, <1>3, ReturnLeaves

(***************************************************************************)
(* Each step of the reader.                                                *)
(***************************************************************************)
LEMMA OpensOfValue ==
  ASSUME DepthCounted, OpensCounted,
         \/ CallValue \/ ExceedStackLimit
         \/ BeginObject \/ BeginArray \/ ReadScalar \/ NotAValue
  PROVE  OpensCounted'
<1>0. Len(stack) \in Nat /\ stack \in Seq(Range(stack))
  BY LenProperties DEF DepthCounted
<1>1. CASE CallValue \/ ExceedStackLimit
  <2>1. /\ at = "call" /\ at' \in {"token", "thrown"} /\ UNCHANGED <<text, pos, stack>>
    BY <1>1 DEF CallValue, ExceedStackLimit, Goto, document
  <2> QED BY <2>1, StayCounted
<1>2. CASE BeginObject \/ BeginArray
  <2>1. PICK f : /\ Read("token") /\ at = "token" /\ at' \in {"name", "first"}
                 /\ stack' = Append(stack, f)
                 /\ Current.type \in {"objectBegin", "arrayBegin"}
    BY <1>2 DEF BeginObject, BeginArray, Read
  <2>2. Opens(Current.type) = 1
    BY <2>1 DEF Opens
  <2>3. Len(stack') = Len(stack) + 1
    BY <1>0, <2>1, Pushed
  <2> QED BY <2>1, <2>2, <2>3, ReadCounted
<1>3. CASE ReadScalar \/ NotAValue
  <2>1. Read("token") /\ at = "token"
    BY <1>3, Zenon DEF ReadScalar, NotAValue, Read
  <2>2. CASE Fail(stack)
    <3>1. at' \in {"rest", "recover"}
      BY <2>2 DEF Fail
    <3> QED BY <2>1, <3>1, ReadCounted DEF Inside
  <2>3. CASE Return(stack, Decode(Current)) /\ IsScalar(Current)
    <3>1. at' \in {"rest", "comma", "separator"} /\ Len(stack') = Len(stack)
      BY <1>0, <2>3, ReturnLeaves
    <3>2. Opens(Current.type) = 0
      BY <2>3 DEF IsScalar, Opens
    <3> QED BY <1>0, <2>1, <3>1, <3>2, ReadCounted
  <2> QED BY <1>3, <2>2, <2>3, Zenon DEF ReadScalar, NotAValue
<1> QED BY <1>1, <1>2, <1>3

LEMMA OpensOfObject ==
  ASSUME DepthCounted, OpensCounted, ReadName \/ ReadColon \/ ReadComma \/ ReadCommented
  PROVE  OpensCounted'
<1>0. Len(stack) \in Nat /\ stack \in Seq(Range(stack))
  BY LenProperties DEF DepthCounted
<1>1. PICK p \in {"name", "colon", "comma", "commented"} : Read(p) /\ at = p
  BY Zenon DEF ReadName, ReadColon, ReadComma, ReadCommented, Read
<1>2. at \in Inside /\ Read(p)
  BY <1>1 DEF Inside
<1>3. CASE AddErrorAndRecover
  BY <1>2, <1>3, ReadCounted DEF AddErrorAndRecover, Inside
<1>4. CASE Current.type = "objectEnd" /\ EndContainer
  <2>1. at' \in {"rest", "comma", "separator"} /\ Len(stack') = Len(stack) - 1
    BY <1>2, <1>4, EndLeaves
  <2>2. Opens(Current.type) = -1
    BY <1>4 DEF Opens
  <2> QED BY <1>0, <1>2, <2>1, <2>2, ReadCounted
<1>5. ASSUME Current.type \in {"string", "memberSeparator", "arraySeparator"},
             at' \in {"colon", "call", "name"}, Len(stack') = Len(stack)
      PROVE  OpensCounted'
  <2>1. Opens(Current.type) = 0
    BY <1>5 DEF Opens
  <2> QED BY <1>0, <1>2, <1>5, <2>1, ReadCounted
<1>6. CASE ReadName
  <2>1. ASSUME NEW f, stack' = [stack EXCEPT ![Len(stack)] = f], Len(stack) > 0
        PROVE  Len(stack') = Len(stack)
    <3>1. Len(stack) \in 1 .. Len(stack)
      BY <1>0, <2>1
    <3> QED BY <1>0, <2>1, <3>1, Replaced
  <2>2. Len(stack) > 0
    BY <1>2 DEF DepthCounted
  <2>3. ASSUME Current.type = "string", at' = "colon",
               stack' = [stack EXCEPT ![Len(stack)].key = Current.str]
        PROVE  OpensCounted'
    <3>1. Len(stack') = Len(stack)
      BY <2>1, <2>2, <2>3
    <3> QED BY <1>5, <2>3, <3>1
  <2> QED BY <1>3, <1>4, <1>6, <2>3, Zenon DEF ReadName
<1>7. CASE ReadColon
  <2>1. CASE Current.type = "memberSeparator" /\ Goto("call")
    BY <1>5, <2>1 DEF Goto
  <2> QED BY <1>3, <1>7, <2>1 DEF ReadColon
<1>8. CASE ReadComma
  <2>1. CASE Current.type = "arraySeparator" /\ Goto("name")
    BY <1>5, <2>1 DEF Goto
  <2>2. CASE Current.type = "comment" /\ Goto("commented")
    <3>1. ~NoComment
      BY <1>2, <2>2, ReadOpens
    <3> QED BY <1>2, <3>1, ReadCounted
  <2> QED BY <1>3, <1>4, <1>8, <2>1, <2>2 DEF ReadComma
<1>9. CASE ReadCommented
  <2>1. ~NoComment
    BY <1>9 DEF ReadCommented, Read, OpensCounted
  <2> QED BY <1>2, <2>1, ReadCounted
<1> QED BY <1>6, <1>7, <1>8, <1>9

LEMMA OpensOfArray ==
  ASSUME DepthCounted, OpensCounted, EmptyArray \/ FirstElement \/ ReadSeparator
  PROVE  OpensCounted'
<1>0. Len(stack) \in Nat /\ stack \in Seq(Range(stack))
  BY LenProperties DEF DepthCounted
<1>1. at \in Inside /\ at \in {"first", "separator"}
  BY Zenon DEF EmptyArray, FirstElement, ReadSeparator, Read, Inside
<1>2. ASSUME NEW p, Read(p), Current.type = "arrayEnd", EndContainer
      PROVE  OpensCounted'
  <2>1. at' \in {"rest", "comma", "separator"} /\ Len(stack') = Len(stack) - 1
    BY <1>1, <1>2, EndLeaves
  <2>2. Opens(Current.type) = -1
    BY <1>2 DEF Opens
  <2> QED BY <1>0, <1>1, <1>2, <2>1, <2>2, ReadCounted
<1>3. CASE EmptyArray
  BY <1>2, <1>3 DEF EmptyArray
<1>4. CASE FirstElement
  <2>1. UNCHANGED <<text, pos, stack>> /\ at' = "call"
    BY <1>4 DEF FirstElement, Goto, document
  <2> QED BY <1>1, <2>1, StayCounted
<1>5. CASE ReadSeparator
  <2>0. Read("separator")
    BY <1>5 DEF ReadSeparator
  <2>1. CASE Current.type = "arrayEnd" /\ EndContainer
    BY <1>2, <2>0, <2>1
  <2>2. ASSUME Current.type = "arraySeparator", at' = "call",
               stack' = [stack EXCEPT ![Len(stack)].key = @ + 1]
        PROVE  OpensCounted'
    <3>1. Len(stack) \in 1 .. Len(stack)
      BY <1>0, <1>1 DEF DepthCounted
    <3>2. Len(stack') = Len(stack)
      BY <1>0, <2>2, <3>1, Replaced
    <3>3. Opens(Current.type) = 0
      BY <2>2 DEF Opens
    <3> QED BY <1>0, <1>1, <2>0, <2>2, <3>2, <3>3, ReadCounted
  <2>3. CASE AddErrorAndRecover
    BY <2>0, <2>3, ReadCounted DEF AddErrorAndRecover, Inside
  <2> QED BY <1>5, <2>1, <2>2, <2>3 DEF ReadSeparator
<1> QED BY <1>3, <1>4, <1>5

LEMMA OpensStep ==
  ASSUME DepthCounted, OpensCounted, Step
  PROVE  OpensCounted'
<1>1. CASE Recover
  <2>1. Read("recover") /\ at = "recover"
    BY <1>1 DEF Recover, Read
  <2>2. at' \in {"rest", "recover"}
    BY <1>1, <2>1 DEF Recover, Fail
  <2> QED BY <2>1, <2>2, ReadCounted DEF Inside
<1>2. CASE ReadRest
  <2>1. Read("rest") /\ at' = "done"
    BY <1>2 DEF ReadRest, Goto
  <2> QED BY <2>1, ReadCounted DEF Inside
<1>3. ASSUME NEW p, Comment(p)
      PROVE  OpensCounted'
  <2>1. Read(p) /\ Current.type = "comment" /\ at' = at /\ stack' = stack
    BY <1>3 DEF Comment, reader
  <2>2. ~NoComment
    BY <2>1, ReadOpens
  <2> QED BY <2>1, <2>2, ReadCounted
<1> QED BY <1>1, <1>2, <1>3, OpensOfValue, OpensOfObject, OpensOfArray DEF Step

LEMMA OpensFed ==
  ASSUME OpensCounted, Feed
  PROVE  OpensCounted'
<1>1. /\ text \in Seq(Tokens) /\ pos \in 0 .. Len(text) /\ Len(text) \in Nat
      /\ pos' = pos /\ at' = at /\ stack' = stack
  BY LenProperties DEF Feed, Close, More, reader, OpensCounted
<1>2. CASE Close
  BY <1>2 DEF Close, reader, OpensCounted, NoComment
<1>3. CASE \E t \in Tokens : More(t)
  <2>1. PICK t \in Tokens : text' = Append(text, t)
    BY <1>3 DEF More
  <2>2. /\ text' \in Seq(Tokens) /\ Len(text') = Len(text) + 1
        /\ \A i \in 1 .. Len(text) : text'[i] = text[i]
    BY <1>1, <2>1, AppendProperties
  <2>3. NoComment' => NoComment
    <3>1. DOMAIN text = 1 .. Len(text) /\ DOMAIN text' = 1 .. Len(text) + 1
      BY <1>1, <2>2, LenProperties
    <3> QED BY <1>1, <2>2, <3>1 DEF NoComment
  <2>4. pos \in 0 .. Len(text')
    BY <1>1, <2>2
  <2>5. OpenAt(SubSeq(text', 1, pos)) = OpenAt(SubSeq(text, 1, pos))
    <3>1. \A T : OfType(text', pos, T) = OfType(text, pos, T)
      <4>1. \A i \in 1 .. pos : text'[i] = text[i]
        BY <1>1, <2>2
      <4> QED BY <4>1 DEF OfType
    <3> QED BY <1>1, <2>2, <2>4, <3>1, OpenAtPrefix
  <2> QED BY <1>1, <2>2, <2>3, <2>4, <2>5 DEF OpensCounted
<1> QED BY <1>2, <1>3 DEF Feed

LEMMA OpensAreCounted == Spec => []OpensCounted
<1>1. Init => OpensCounted
  <2> SUFFICES ASSUME Init PROVE OpensCounted
    OBVIOUS
  <2>1. text \in Seq(Tokens) /\ Len(text) = 0 /\ pos = 0 /\ at = "idle"
    BY EmptySeq DEF Init
  <2> QED BY <2>1 DEF OpensCounted, Inside
<1>2. DepthCounted /\ OpensCounted /\ [Next]_vars => OpensCounted'
  <2> SUFFICES ASSUME DepthCounted, OpensCounted, [Next]_vars PROVE OpensCounted'
    OBVIOUS
  <2>1. UNCHANGED <<document, reader>> => OpensCounted'
    BY DEF document, reader, OpensCounted, NoComment
  <2>2. CASE Receive
    <3>1. text' = << >> /\ pos' = 0 /\ at' = "call" /\ stack' = << >>
      BY <2>2 DEF Receive, Parse
    <3>2. << >> \in Seq(Tokens) /\ Len(<< >>) = 0
      BY EmptySeq
    <3> QED BY <3>1, <3>2, OpenAtNothing DEF OpensCounted
  <2>3. CASE Given
    BY <2>3, OpensFed DEF Given
  <2>4. CASE Parsing
    BY <2>4, OpensStep DEF Parsing
  <2>5. CASE ReceiveBare \/ ParseThrows \/ ParseFails \/ ParseSucceeds \/ MemberThrows
    BY <2>1, <2>5 DEF ReceiveBare, ParseThrows, ParseFails, ParseSucceeds, MemberThrows
  <2>6. CASE NextMember \/ AddDataToConf
    BY <2>1, <2>6 DEF NextMember, AddDataToConf
  <2>7. CASE UNCHANGED vars
    BY <2>1, <2>7 DEF vars
  <2> QED BY <2>2, <2>3, <2>4, <2>5, <2>6, <2>7 DEF Next
<1> QED BY <1>1, <1>2, DepthIsCounted, PTL DEF Spec

(***************************************************************************)
(* The reader runs into its limit only in a text that opens as many        *)
(* containers at once (readValue, jsoncpp.cpp:355): values one after       *)
(* another do not add up, and nothing is left over from an earlier text.   *)
(***************************************************************************)
THEOREM DeepTextsThrow == Spec => []OnlyDeepTextsThrow
<1>1. DepthCounted /\ OpensCounted => OnlyDeepTextsThrow
  BY DEF DepthCounted, OpensCounted, OnlyDeepTextsThrow, IsPlain, NoComment, Inside
<1> QED BY <1>1, DepthIsCounted, OpensAreCounted, PTL


-----------------------------------------------------------------------------
(***************************************************************************)
(* Types.  A value that is read holds values, and what they hold in turn   *)
(* is not looked at by the daemon.                                         *)
(***************************************************************************)
Typed(v) ==
  /\ IsValue(v)
  /\ IsComplex(v) => \A k \in Keys(v) : IsValue(v.map[k])
  /\ v.type = "object" => Keys(v) \subseteq Name

IsFrame(f) ==
  /\ f = [value |-> f.value, key |-> f.key]
  /\ Typed(f.value) /\ IsComplex(f.value)
  /\ f.key \in Nat /\ (f.value.type = "object" => f.key \in Name)

TypedStack(s) == s \in Seq(Range(s)) /\ \A i \in 1 .. Len(s) : IsFrame(s[i])

LEMMA TokensTyped == Tokens \subseteq Token
<1>1. ASSUME NEW m \in Mark PROVE MarkToken(m) \in Token
  BY DEF Token
<1>2. AnyType \subseteq Token
  BY <1>1, TokenAssumption DEF AnyType
<1> QED BY <1>2, TokenAssumption DEF Tokens

LEMMA PutTyped ==
  ASSUME NEW v, Typed(v), IsComplex(v), NEW k \in Nat, v.type = "object" => k \in Name,
         NEW x, IsValue(x)
  PROVE  Typed(Put(v, v.type, k, x)) /\ IsComplex(Put(v, v.type, k, x))
         /\ Put(v, v.type, k, x).type = v.type
<1> DEFINE t == v.type
           m == [j \in Keys(v) \cup {k} |-> At(v, j)]
           n == [m EXCEPT ![k] = x]
<1>1. t \in {"array", "object"} /\ IsValue(v) /\ Become(v, t) = v
  BY DEF Typed, IsComplex, Become
<1>2. Touch(v, t, k) = Holding(t, m) /\ IsMap(m)
  BY <1>1, Touched
<1>3. Put(v, t, k, x) = Holding(t, n)
  <2>1. Put(v, t, k, x) = [Holding(t, m) EXCEPT !.map[k] = x]
    BY <1>2, Zenon DEF Put
  <2>2. [Holding(t, m) EXCEPT !.map[k] = x] = Holding(t, n)
    <3> HIDE DEF t, m
    <3> QED BY DEF Holding
  <2> QED BY <2>1, <2>2, Zenon
<1>4. IsValue(Put(v, t, k, x))
  BY <1>1, PutIsValue
<1>5. DOMAIN m = Keys(v) \cup {k} /\ DOMAIN n = Keys(v) \cup {k}
  OBVIOUS
<1>6. \A j \in Keys(v) \cup {k} : n[j] = IF j = k THEN x ELSE At(v, j)
  OBVIOUS
<1>7. Put(v, t, k, x).type = t /\ Put(v, t, k, x).map = n
  BY <1>3 DEF Holding
<1> HIDE DEF t, n, m
<1>8. \A j \in Keys(v) : IsValue(At(v, j))
  <2>1. \A j \in Keys(v) : At(v, j) = v.map[j]
    BY <1>1 DEF At, Present
  <2> QED BY <2>1 DEF Typed
<1>9. \A j \in Keys(v) \cup {k} : IsValue(n[j])
  BY <1>6, <1>8
<1>10. t = "object" => Keys(v) \cup {k} \subseteq Name
  BY DEF Typed, t
<1>11. IsComplex(Put(v, t, k, x)) /\ Keys(Put(v, t, k, x)) = Keys(v) \cup {k}
  BY <1>1, <1>5, <1>7 DEF IsComplex, Keys
<1>12. Typed(Put(v, t, k, x))
  BY <1>4, <1>7, <1>9, <1>10, <1>11 DEF Typed
<1> QED BY <1>7, <1>11, <1>12 DEF t

(***************************************************************************)
(* The stack under the calls that push, set and pop a frame.               *)
(***************************************************************************)
LEMMA PushTyped ==
  ASSUME NEW s, TypedStack(s), NEW f, IsFrame(f)
  PROVE  TypedStack(Append(s, f))
<1> DEFINE t == Append(s, f)
<1>1. t \in Seq(Range(t)) /\ Len(t) = Len(s) + 1 /\ Len(s) \in Nat
  BY Pushed, LenProperties DEF TypedStack
<1>2. \A i \in 1 .. Len(s) + 1 : t[i] = IF i \in 1 .. Len(s) THEN s[i] ELSE f
  <2>1. s \in Seq(Range(s) \cup {f}) /\ f \in Range(s) \cup {f}
    BY SeqMonotonic DEF TypedStack
  <2> QED BY <1>1, <2>1, AppendProperties
<1> HIDE DEF t
<1>3. \A i \in 1 .. Len(t) : IsFrame(t[i])
  BY <1>1, <1>2 DEF TypedStack
<1> QED BY <1>1, <1>3 DEF TypedStack, t

LEMMA PopTyped ==
  ASSUME NEW s, TypedStack(s), Len(s) > 0
  PROVE  TypedStack(SubSeq(s, 1, Len(s) - 1))
<1> DEFINE t == SubSeq(s, 1, Len(s) - 1)
<1>1. t \in Seq(Range(t)) /\ Len(t) = Len(s) - 1 /\ Len(s) \in Nat
  BY Popped, LenProperties DEF TypedStack
<1>2. \A i \in 1 .. Len(s) - 1 : t[i] = s[i]
  <2>1. s \in Seq(Range(s)) /\ Len(s) - 1 \in 0 .. Len(s)
    BY <1>1 DEF TypedStack
  <2> QED BY <2>1, Prefix
<1> HIDE DEF t
<1>3. \A i \in 1 .. Len(t) : IsFrame(t[i])
  <2>1. \A i \in 1 .. Len(s) - 1 : i \in 1 .. Len(s)
    BY <1>1
  <2> QED BY <1>1, <1>2, <2>1 DEF TypedStack
<1> QED BY <1>1, <1>3 DEF TypedStack, t

LEMMA SetTyped ==
  ASSUME NEW s, TypedStack(s), Len(s) > 0, NEW f, IsFrame(f)
  PROVE  TypedStack([s EXCEPT ![Len(s)] = f])
<1> DEFINE t == [s EXCEPT ![Len(s)] = f]
<1>1. Len(s) \in Nat /\ s \in Seq(Range(s)) /\ Len(s) \in 1 .. Len(s)
  BY LenProperties DEF TypedStack
<1>2. t \in Seq(Range(t)) /\ Len(t) = Len(s)
  BY <1>1, Replaced
<1>3. \A i \in 1 .. Len(s) : t[i] = IF i = Len(s) THEN f ELSE s[i]
  <2>1. DOMAIN s = 1 .. Len(s)
    BY <1>1, LenProperties
  <2> QED BY <2>1
<1> HIDE DEF t
<1>4. \A i \in 1 .. Len(t) : IsFrame(t[i])
  BY <1>2, <1>3 DEF TypedStack
<1> QED BY <1>2, <1>4 DEF TypedStack, t

LEMMA TopTyped ==
  ASSUME NEW s, TypedStack(s), s # << >>
  PROVE  Len(s) \in Nat /\ Len(s) > 0 /\ IsFrame(s[Len(s)])
<1>1. Len(s) \in Nat /\ Len(s) # 0
  BY LenProperties, EmptySeq DEF TypedStack
<1>2. Len(s) \in 1 .. Len(s)
  BY <1>1
<1> QED BY <1>1, <1>2 DEF TypedStack

LEMMA FrameSet ==
  ASSUME NEW f, IsFrame(f), NEW v
  PROVE  /\ [f EXCEPT !.value = v] = [value |-> v, key |-> f.key]
         /\ [f EXCEPT !.key = v] = [value |-> f.value, key |-> v]
<1>1. PICK a, b : a = f.value /\ b = f.key
  OBVIOUS
<1>2. f = [value |-> a, key |-> b]
  BY <1>1 DEF IsFrame
<1>3. /\ [[value |-> a, key |-> b] EXCEPT !.value = v] = [value |-> v, key |-> b]
      /\ [[value |-> a, key |-> b] EXCEPT !.key = v] = [value |-> a, key |-> v]
  OBVIOUS
<1> QED BY <1>1, <1>2, <1>3, Zenon

LEMMA FrameOf ==
  ASSUME NEW v, Typed(v), IsComplex(v), NEW k \in Nat, v.type = "object" => k \in Name
  PROVE  IsFrame([value |-> v, key |-> k])
BY DEF IsFrame

(***************************************************************************)
(* The reader's steps.                                                     *)
(***************************************************************************)
\* Where the places of readArray are, an array is innermost.
ArrayInnermost == at \in {"first", "separator"} => Top.value.type = "array"

ReaderTyped ==
  TypedStack(stack) /\ Typed(root) /\ successful \in BOOLEAN /\ ArrayInnermost

LEMMA ScalarTyped ==
  ASSUME NEW v, IsValue(v), ~IsComplex(v)
  PROVE  Typed(v)
BY DEF Typed, IsComplex

LEMMA CurrentTyped ==
  ASSUME OpensCounted
  PROVE  Current \in Token
<1>1. text \in Seq(Tokens) /\ pos \in 0 .. Len(text) /\ Len(text) \in Nat
  BY LenProperties DEF OpensCounted
<1>2. CASE pos < Len(text)
  <2>1. pos + 1 \in 1 .. Len(text)
    BY <1>1, <1>2
  <2>2. text[pos + 1] \in Tokens
    BY <1>1, <2>1, ElementOfSeq
  <2> QED BY <1>2, <2>2, TokensTyped DEF Current
<1>3. CASE ~(pos < Len(text))
  <2>1. "endOfStream" \in Mark
    BY DEF Mark
  <2> QED BY <1>3, <2>1 DEF Current, EndOfStream, Token
<1> QED BY <1>2, <1>3

LEMMA NameTyped ==
  ASSUME OpensCounted, Current.type = "string", Current.str # Bad
  PROVE  Current.str \in Name
<1>1. Current \in Token
  BY CurrentTyped
<1>2. Current \notin {MarkToken(m) : m \in Mark}
  BY DEF MarkToken, Mark
<1>3. PICK s \in Name \cup {Bad} : Current = StringToken(s)
  BY <1>1, <1>2 DEF Token
<1> QED BY <1>3 DEF StringToken

LEMMA ReturnTyped ==
  ASSUME Typed(root), successful \in BOOLEAN,
         NEW st, TypedStack(st), NEW v, Typed(v), Return(st, v)
  PROVE  ReaderTyped'
<1>1. CASE st = << >>
  <2>1. stack' = st /\ root' = v /\ successful' = TRUE /\ at' = "rest"
    BY <1>1 DEF Return
  <2> QED BY <2>1 DEF ReaderTyped, ArrayInnermost
<1>2. CASE st # << >>
  <2> DEFINE f == st[Len(st)]
             w == Put(f.value, f.value.type, f.key, v)
  <2>1. /\ stack' = [st EXCEPT ![Len(st)] = [st[Len(st)] EXCEPT !.value = w]]
        /\ root' = root /\ successful' = successful
        /\ at' = IF f.value.type = "object" THEN "comma" ELSE "separator"
    BY <1>2 DEF Return
  <2>2. Len(st) > 0 /\ IsFrame(f)
    BY <1>2, TopTyped
  <2>3. [f EXCEPT !.value = w] = [value |-> w, key |-> f.key]
    <3> HIDE DEF w, f
    <3> QED BY <2>2, FrameSet
  <2>4. Typed(w) /\ IsComplex(w) /\ w.type = f.value.type
    <3>1. IsValue(v)
      BY DEF Typed
    <3>2. /\ Typed(f.value) /\ IsComplex(f.value) /\ f.key \in Nat
          /\ f.value.type = "object" => f.key \in Name
      BY <2>2 DEF IsFrame
    <3> HIDE DEF f
    <3> QED BY <3>1, <3>2, PutTyped
  <2>5. f.key \in Nat /\ (w.type = "object" => f.key \in Name)
    BY <2>2, <2>4 DEF IsFrame
  <2> HIDE DEF w, f
  <2>6. IsFrame([value |-> w, key |-> f.key])
    BY <2>4, <2>5, FrameOf
  <2>7. stack' = [st EXCEPT ![Len(st)] = [value |-> w, key |-> f.key]]
    BY <2>1, <2>3, Zenon DEF f
  <2>8. TypedStack(stack')
    BY <2>2, <2>6, <2>7, SetTyped
  <2>9. ArrayInnermost'
    <3>1. at' \in {"first", "separator"} => w.type = "array"
      BY <2>1, <2>4 DEF IsComplex
    <3>2. Len(stack') = Len(st) /\ stack'[Len(st)] = [value |-> w, key |-> f.key]
      <4>1. st \in Seq(Range(st)) /\ Len(st) \in 1 .. Len(st) /\ DOMAIN st = 1 .. Len(st)
        BY <2>2, LenProperties DEF TypedStack
      <4>2. Len(stack') = Len(st)
        BY <2>7, <4>1, Replaced
      <4> QED BY <2>7, <4>1, <4>2
    <3>3. Top'.value = w
      BY <3>2 DEF Top
    <3> QED BY <3>1, <3>3 DEF ArrayInnermost
  <2> QED BY <2>1, <2>8, <2>9 DEF ReaderTyped
<1> QED BY <1>1, <1>2

LEMMA FailTyped ==
  ASSUME Typed(root), successful \in BOOLEAN, NEW st, TypedStack(st), Fail(st)
  PROVE  ReaderTyped'
BY DEF Fail, ReaderTyped, ArrayInnermost

LEMMA SameTyped ==
  ASSUME ReaderTyped, UNCHANGED <<stack, root, successful>>,
         at' = at \/ at' \notin {"first", "separator"}
  PROVE  ReaderTyped'
BY DEF ReaderTyped, ArrayInnermost, Top

LEMMA PushedTyped ==
  ASSUME ReaderTyped, NEW t \in {"array", "object"},
         stack' = Append(stack, [value |-> DefaultOf(t), key |-> 0]),
         at' = IF t = "array" THEN "first" ELSE "name",
         UNCHANGED <<root, successful>>
  PROVE  ReaderTyped'
<1>1. DefaultOf(t) = Holding(t, NoElements)
  BY DEF DefaultOf, ArrayValue, ObjectValue, Holding
<1>2. /\ IsValue(DefaultOf(t)) /\ IsComplex(DefaultOf(t)) /\ DefaultOf(t).type = t
      /\ Keys(DefaultOf(t)) = {}
  BY <1>1, Nothing, Held
<1>3. Typed(DefaultOf(t))
  BY <1>2 DEF Typed
<1>4. IsFrame([value |-> DefaultOf(t), key |-> 0])
  BY <1>2, <1>3, NameAssumption, FrameOf
<1>5. TypedStack(stack')
  BY <1>4, PushTyped DEF ReaderTyped
<1>6. Top'.value.type = t
  <2> DEFINE f == [value |-> DefaultOf(t), key |-> 0]
  <2>1. stack \in Seq(Range(stack) \cup {f}) /\ f \in Range(stack) \cup {f}
    BY SeqMonotonic DEF ReaderTyped, TypedStack
  <2>2. f.value.type = t
    BY <1>2
  <2>3. stack' = Append(stack, f)
    OBVIOUS
  <2> HIDE DEF f
  <2>4. Len(stack') = Len(stack) + 1 /\ stack'[Len(stack) + 1] = f
    BY <2>1, <2>3, AppendProperties
  <2> QED BY <2>2, <2>4 DEF Top
<1> QED BY <1>5, <1>6 DEF ReaderTyped, ArrayInnermost

\* The innermost container is read on, with another name or index.
LEMMA KeyTyped ==
  ASSUME ReaderTyped, stack # << >>, NEW k \in Nat, Top.value.type = "object" => k \in Name,
         stack' = [stack EXCEPT ![Len(stack)] = [stack[Len(stack)] EXCEPT !.key = k]],
         at' \in {"colon", "call"}, UNCHANGED <<root, successful>>
  PROVE  ReaderTyped'
<1>1. TypedStack(stack) /\ Len(stack) > 0 /\ IsFrame(Top)
  BY TopTyped DEF ReaderTyped, Top
<1>2. [Top EXCEPT !.key = k] = [value |-> Top.value, key |-> k]
  BY <1>1, FrameSet
<1>3. IsFrame([value |-> Top.value, key |-> k])
  <2>1. Typed(Top.value) /\ IsComplex(Top.value)
    BY <1>1 DEF IsFrame
  <2> QED BY <2>1, FrameOf
<1> DEFINE g == [value |-> Top.value, key |-> k]
<1>4. stack' = [stack EXCEPT ![Len(stack)] = g]
  BY <1>2, Zenon DEF Top
<1>5. IsFrame(g)
  BY <1>3
<1> HIDE DEF g
<1>6. TypedStack([stack EXCEPT ![Len(stack)] = g])
  BY <1>1, <1>5, SetTyped
<1>7. TypedStack(stack')
  BY <1>4, <1>6, Zenon
<1> QED BY <1>7 DEF ReaderTyped, ArrayInnermost

LEMMA EndTyped ==
  ASSUME ReaderTyped, stack # << >>, EndContainer
  PROVE  ReaderTyped'
<1>1. TypedStack(stack) /\ Len(stack) > 0 /\ IsFrame(Top)
  BY TopTyped DEF ReaderTyped, Top
<1>2. TypedStack(Pop) /\ Typed(Top.value)
  BY <1>1, PopTyped DEF Pop, IsFrame
<1>3. Return(Pop, Top.value) /\ Typed(root) /\ successful \in BOOLEAN
  BY DEF EndContainer, ReaderTyped
<1> QED BY <1>2, <1>3, ReturnTyped

LEMMA StackInside ==
  ASSUME DepthCounted, at \in Inside \cup {"recover"}
  PROVE  stack # << >> /\ Len(stack) > 0
<1>1. Len(stack) > 0
  BY DEF DepthCounted
<1>2. Len(<< >>) = 0
  BY EmptySeq
<1> QED BY <1>1, <1>2

LEMMA TypedOfValue ==
  ASSUME OpensCounted, ReaderTyped,
         \/ CallValue \/ ExceedStackLimit
         \/ BeginObject \/ BeginArray \/ ReadScalar \/ NotAValue
  PROVE  ReaderTyped'
<1>1. TypedStack(stack) /\ Typed(root) /\ successful \in BOOLEAN
  BY DEF ReaderTyped
<1>2. CASE CallValue \/ ExceedStackLimit
  BY <1>2, SameTyped DEF CallValue, ExceedStackLimit, Goto
<1>3. CASE BeginObject
  BY <1>3, PushedTyped DEF BeginObject
<1>4. CASE BeginArray
  BY <1>4, PushedTyped DEF BeginArray
<1>5. CASE ReadScalar
  <2>1. /\ IsScalar(Current)
        /\ \/ Decode(Current) # Refused /\ Return(stack, Decode(Current))
           \/ Fail(stack)
    BY <1>5, Zenon DEF ReadScalar
  <2>2. Decode(Current) # Refused => Typed(Decode(Current))
    BY <2>1, CurrentTyped, DecodedIsValue, ScalarTyped
  <2> QED BY <1>1, <2>1, <2>2, ReturnTyped, FailTyped
<1>6. CASE NotAValue
  BY <1>1, <1>6, FailTyped DEF NotAValue
<1> QED BY <1>2, <1>3, <1>4, <1>5, <1>6

LEMMA TypedOfObject ==
  ASSUME DepthCounted, OpensCounted, ReaderTyped,
         ReadName \/ ReadColon \/ ReadComma \/ ReadCommented
  PROVE  ReaderTyped'
<1>1. at \in Inside
  BY Zenon DEF ReadName, ReadColon, ReadComma, ReadCommented, Read, Inside
<1>2. stack # << >>
  BY <1>1, StackInside
<1>3. AddErrorAndRecover => ReaderTyped'
  BY SameTyped DEF AddErrorAndRecover
<1>4. ASSUME NEW p \in {"name", "call", "commented"}, Goto(p) PROVE ReaderTyped'
  BY <1>4, SameTyped DEF Goto
<1>5. EndContainer => ReaderTyped'
  BY <1>2, EndTyped
<1>6. CASE ReadName
  <2>1. ASSUME Current.type = "string", Current.str # Bad,
               stack' = [stack EXCEPT ![Len(stack)].key = Current.str], at' = "colon",
               UNCHANGED <<depth, errors, root, successful>>
        PROVE  ReaderTyped'
    <3>1. Current.str \in Name /\ Current.str \in Nat
      BY <2>1, NameTyped, NameAssumption
    <3>2. stack' = [stack EXCEPT ![Len(stack)] =
                      [stack[Len(stack)] EXCEPT !.key = Current.str]]
      BY <2>1
    <3> QED BY <1>2, <2>1, <3>1, <3>2, KeyTyped
  <2> QED BY <1>3, <1>5, <1>6, <2>1, Zenon DEF ReadName
<1>7. CASE ReadColon
  BY <1>3, <1>4, <1>7 DEF ReadColon
<1>8. CASE ReadComma
  BY <1>3, <1>4, <1>5, <1>8 DEF ReadComma
<1>9. CASE ReadCommented
  BY <1>4, <1>5, <1>9 DEF ReadCommented
<1> QED BY <1>6, <1>7, <1>8, <1>9

LEMMA TypedOfArray ==
  ASSUME DepthCounted, ReaderTyped, EmptyArray \/ FirstElement \/ ReadSeparator
  PROVE  ReaderTyped'
<1>1. at \in Inside /\ at \in {"first", "separator"}
  BY Zenon DEF EmptyArray, FirstElement, ReadSeparator, Read, Inside
<1>2. stack # << >> /\ Top.value.type = "array"
  BY <1>1, StackInside DEF ReaderTyped, ArrayInnermost
<1>3. EndContainer => ReaderTyped'
  BY <1>2, EndTyped
<1>4. CASE EmptyArray
  BY <1>3, <1>4 DEF EmptyArray
<1>5. CASE FirstElement
  BY <1>5, SameTyped DEF FirstElement, Goto
<1>6. CASE ReadSeparator
  <2>1. ASSUME stack' = [stack EXCEPT ![Len(stack)].key = @ + 1], at' = "call",
               UNCHANGED <<depth, errors, root, successful>>
        PROVE  ReaderTyped'
    <3>1. IsFrame(Top)
      BY <1>2, TopTyped DEF ReaderTyped, Top
    <3>2. Top.key + 1 \in Nat
      BY <3>1 DEF IsFrame
    <3>3. stack' = [stack EXCEPT ![Len(stack)] =
                      [stack[Len(stack)] EXCEPT !.key = Top.key + 1]]
      BY <2>1 DEF Top
    <3> QED BY <1>2, <2>1, <3>2, <3>3, KeyTyped
  <2>2. AddErrorAndRecover => ReaderTyped'
    BY SameTyped DEF AddErrorAndRecover
  <2> QED BY <1>3, <1>6, <2>1, <2>2 DEF ReadSeparator
<1> QED BY <1>4, <1>5, <1>6

LEMMA TypedOfRecovery ==
  ASSUME DepthCounted, ReaderTyped, Recover
  PROVE  ReaderTyped'
<1>1. at = "recover"
  BY DEF Recover, Read
<1>2. TypedStack(stack) /\ Len(stack) > 0 /\ Typed(root) /\ successful \in BOOLEAN
  BY <1>1, StackInside DEF ReaderTyped
<1>3. CASE Fail(Pop)
  <2>1. TypedStack(Pop)
    BY <1>2, PopTyped DEF Pop
  <2> QED BY <1>2, <1>3, <2>1, FailTyped
<1>4. CASE UNCHANGED <<at, stack, depth, root, successful>>
  BY <1>4, SameTyped
<1> QED BY <1>3, <1>4 DEF Recover

LEMMA TypedStep ==
  ASSUME DepthCounted, OpensCounted, ReaderTyped, Step
  PROVE  ReaderTyped'
<1>1. CASE ReadRest
  BY <1>1, SameTyped DEF ReadRest, Goto
<1>2. ASSUME NEW p, Comment(p)
      PROVE  ReaderTyped'
  BY <1>2, SameTyped DEF Comment, reader
<1> QED BY <1>1, <1>2, TypedOfValue, TypedOfObject, TypedOfArray, TypedOfRecovery DEF Step

(***************************************************************************)
(* The places of errors are places in the text.                            *)
(***************************************************************************)
ErrorsTyped == errors \in Seq(0 .. Len(text))

LEMMA ErrorsStay ==
  ASSUME OpensCounted, ErrorsTyped, text' = text, errors' = errors \/ AddError
  PROVE  ErrorsTyped'
<1>1. Len(text) \in Nat /\ pos \in 0 .. Len(text) /\ Len(text') = Len(text)
  BY LenProperties DEF OpensCounted
<1>2. errors' \in Seq(0 .. Len(text))
  BY <1>1, AppendProperties DEF ErrorsTyped, AddError
<1> QED BY <1>1, <1>2 DEF ErrorsTyped

LEMMA StepKeepsText ==
  ASSUME Step
  PROVE  text' = text /\ closed' = closed /\ pos' \in {pos, pos + 1}
<1>1. ASSUME NEW p, Read(p)
      PROVE  text' = text /\ closed' = closed /\ pos' \in {pos, pos + 1}
  BY <1>1 DEF Read
<1>2. CASE CallValue \/ ExceedStackLimit \/ FirstElement
  BY <1>2 DEF CallValue, ExceedStackLimit, FirstElement, document
<1>3. CASE BeginObject \/ BeginArray \/ ReadScalar \/ NotAValue
  BY <1>1, <1>3, Zenon DEF BeginObject, BeginArray, ReadScalar, NotAValue
<1>4. CASE ReadName \/ ReadColon \/ ReadComma \/ ReadCommented
  BY <1>1, <1>4, Zenon DEF ReadName, ReadColon, ReadComma, ReadCommented
<1>5. CASE EmptyArray \/ ReadSeparator \/ Recover \/ ReadRest
  BY <1>1, <1>5, Zenon DEF EmptyArray, ReadSeparator, Recover, ReadRest
<1>6. ASSUME NEW p, Comment(p)
      PROVE  text' = text /\ closed' = closed /\ pos' \in {pos, pos + 1}
  BY <1>1, <1>6 DEF Comment
<1> QED BY <1>2, <1>3, <1>4, <1>5, <1>6 DEF Step

LEMMA ErrorsStep ==
  ASSUME OpensCounted, ErrorsTyped, Step
  PROVE  ErrorsTyped'
<1>1. errors' = errors \/ AddError
  <2>1. CASE CallValue \/ ExceedStackLimit \/ BeginObject \/ BeginArray
    BY <2>1 DEF CallValue, ExceedStackLimit, BeginObject, BeginArray, Goto
  <2>2. CASE ReadScalar \/ NotAValue
    BY <2>2, Zenon DEF ReadScalar, NotAValue
  <2>3. CASE ReadName \/ ReadColon \/ ReadComma \/ ReadCommented
    BY <2>3 DEF ReadName, ReadColon, ReadComma, ReadCommented, Goto, EndContainer,
      AddErrorAndRecover
  <2>4. CASE EmptyArray \/ FirstElement \/ ReadSeparator
    BY <2>4 DEF EmptyArray, FirstElement, ReadSeparator, Goto, EndContainer,
      AddErrorAndRecover
  <2>5. CASE Recover \/ ReadRest
    BY <2>5 DEF Recover, ReadRest, Goto
  <2>6. ASSUME NEW p, Comment(p)
        PROVE  errors' = errors
    BY <2>6 DEF Comment, reader
  <2> QED BY <2>1, <2>2, <2>3, <2>4, <2>5, <2>6 DEF Step
<1>2. text' = text
  BY StepKeepsText
<1> QED BY <1>1, <1>2, ErrorsStay

-----------------------------------------------------------------------------
(***************************************************************************)
(* The members, and what each of them adds.                                *)
(***************************************************************************)
LEMMA KeyIsKey ==
  ASSUME IsValue(root), next \in Nat, next < Len(KeysInOrder(root))
  PROVE  IsComplex(root) /\ Key \in Keys(root)
<1>1. IsComplex(root)
  <2>1. Len(<< >>) = 0
    BY EmptySeq
  <2> QED BY <2>1 DEF KeysInOrder
<1>2. Keys(root) \subseteq Nat /\ IsFiniteSet(Keys(root))
  BY <1>1 DEF IsComplex, IsValue, IsMap, Keys, Scalar, NullValue
<1> DEFINE K == Keys(root)
           pick == [i \in 1 .. Cardinality(K) |->
                      CHOOSE k \in K : Cardinality({j \in K : j < k}) = i - 1]
<1>3. KeysInOrder(root) = pick
  BY <1>1 DEF KeysInOrder
<1> HIDE DEF K
<1>4. Cardinality(K) \in Nat
  BY <1>2, FS_CardinalityType DEF K
<1>5. Len(pick) = Cardinality(K)
  BY <1>4
<1>6. next + 1 \in 1 .. Cardinality(K) /\ (next + 1) - 1 = next /\ next < Cardinality(K)
  BY <1>3, <1>4, <1>5
<1>7. Key = CHOOSE k \in K : Cardinality({j \in K : j < k}) = next
  BY <1>3, <1>6 DEF Key
<1>8. \E k \in K : Cardinality({j \in K : j < k}) = next
  BY <1>2, <1>6, KeyOfRank DEF K
<1>9. Key \in K
  BY <1>7, <1>8
<1> QED BY <1>1, <1>9 DEF K

\* What asUInt64 makes of a value: a number of 64 bits, if it makes one.
LEMMA CountInWord ==
  ASSUME NEW v, IsValue(v), AsUInt64(v) \notin {Thrown, Undefined}
  PROVE  AsUInt64(v).num \in 0 .. maxUInt64
<1>1. maxUInt64 \in Nat /\ 1 <= maxUInt64 /\ maxInt64 < maxUInt64 /\ maxInt64 \in Nat
      /\ minInt64 \in Int
  BY Bounds
<1>2. \A n : Number(n).num = n
  BY Apart
<1>3. CASE v.type \in {"int", "uint"}
  <2>1. IsUInt64(v) /\ AsUInt64(v) = Number(v.num)
    BY <1>3 DEF AsUInt64, AsInteger
  <2>2. v.num \in 0 .. maxUInt64
    BY <1>1, <1>3, <2>1 DEF IsUInt64, IsValue, Scalar, NullValue
  <2> QED BY <1>2, <2>1, <2>2
<1>4. CASE v.type = "real"
  <2>1. AsUInt64(v) = IF Whole(v.half) \in 0 .. maxUInt64 THEN Number(Whole(v.half)) ELSE Undefined
    BY <1>4 DEF AsUInt64, AsInteger, Cast
  <2> QED BY <1>2, <2>1
<1>5. CASE v.type = "null"
  <2>1. AsUInt64(v) = Number(0)
    BY <1>5 DEF AsUInt64, AsInteger
  <2> QED BY <1>1, <1>2, <2>1
<1>6. CASE v.type = "boolean"
  <2>1. AsUInt64(v) = Number(IF v.bool THEN 1 ELSE 0)
    BY <1>6 DEF AsUInt64, AsInteger
  <2>2. (IF v.bool THEN 1 ELSE 0) \in 0 .. maxUInt64
    BY <1>1
  <2> QED BY <1>2, <2>1, <2>2
<1>7. CASE v.type \notin {"int", "uint", "real", "null", "boolean"}
  BY <1>7 DEF AsUInt64, AsInteger
<1> QED BY <1>3, <1>4, <1>5, <1>6, <1>7

\* A member adds a number of 64 bits to a port.
LEMMA MemberTyped ==
  ASSUME Typed(root), next \in Nat, next < Len(KeysInOrder(root)), Counted # Thrown
  PROVE  /\ PortOf(Key) \in 0 .. PortWord - 1
         /\ Counted # Undefined => Counted.num \in 0 .. maxUInt64
<1>1. IsValue(root)
  BY DEF Typed
<1>2. IsComplex(root) /\ Key \in Keys(root)
  BY <1>1, KeyIsKey
<1>3. MayName(root) /\ Counted = AsUInt64(At(root, Key))
  BY DEF Counted
<1>4. root.type = "object"
  BY <1>2, <1>3 DEF MayName, IsComplex
<1>5. At(root, Key) = root.map[Key] /\ IsValue(root.map[Key]) /\ Key \in Name
  BY <1>2, <1>4 DEF At, Present, Typed
<1>6. PortOf(Key) \in 0 .. PortWord - 1
  <2>1. AtolOf[Key] \in Nat /\ PortWord \in Nat /\ PortWord > 0
    BY <1>5, PortsAssumption
  <2> HIDE DEF Key
  <2> QED BY <2>1 DEF PortOf
<1> QED BY <1>3, <1>5, <1>6, CountInWord

(***************************************************************************)
(* What the vectors hold for a port, by the running sum.                   *)
(***************************************************************************)
LEMMA AddedIs ==
  ASSUME NEW n \in Nat, Len(ports) = n, NEW p, NEW u, u[0] = 0,
         \A i \in 1 .. n : u[i] = u[i - 1] + (IF ports[i] = p THEN delta[i] ELSE 0)
  PROVE  Added(p) = u[n]
<1> DEFINE is(g) == g = [i \in 0 .. n |-> IF i = 0 THEN 0
                           ELSE g[i - 1] + (IF ports[i] = p THEN delta[i] ELSE 0)]
           upTo == CHOOSE g : is(g)
           w == [i \in 0 .. n |-> u[i]]
<1>1. Added(p) = upTo[n]
  BY DEF Added
<1>2. \A i \in 0 .. n : w[i] = IF i = 0 THEN 0
                               ELSE w[i - 1] + (IF ports[i] = p THEN delta[i] ELSE 0)
  <2>1. \A i \in 0 .. n : w[i] = u[i]
    OBVIOUS
  <2>2. \A i \in 0 .. n : i # 0 => i \in 1 .. n /\ i - 1 \in 0 .. n
    OBVIOUS
  <2> HIDE DEF w
  <2> QED BY <2>1, <2>2
<1>3. w = [i \in 0 .. n |-> w[i]] /\ w[n] = u[n]
  OBVIOUS
<1> HIDE DEF w
<1>4. is(w)
  BY <1>2, <1>3
<1>5. is(upTo)
  <2> HIDE DEF is
  <2> QED BY <1>4
<1> HIDE DEF upTo
<1>6. \A i \in 0 .. n : upTo[i] = IF i = 0 THEN 0
                                  ELSE upTo[i - 1] + (IF ports[i] = p THEN delta[i] ELSE 0)
  BY <1>5
<1> HIDE DEF is
<1> DEFINE B == {i \in 0 .. n : upTo[i] = w[i]}
<1>7. n \in B
  <2>1. 0 \in B
    BY <1>2, <1>6
  <2>2. ASSUME NEW k \in B, k < n PROVE k + 1 \in B
    <3>1. k + 1 \in 0 .. n /\ k + 1 # 0 /\ (k + 1) - 1 = k
      BY <2>2
    <3>2. upTo[k] = w[k]
      OBVIOUS
    <3> QED BY <1>2, <1>6, <3>1, <3>2
  <2>3. B \subseteq 0 .. n
    OBVIOUS
  <2> HIDE DEF B
  <2> QED BY <2>1, <2>2, <2>3, LastPlace
<1> QED BY <1>1, <1>3, <1>7

(***************************************************************************)
(* The types of the handler.                                               *)
(***************************************************************************)
HandlerTyped ==
  /\ daemon \in {"receiving", "parsing", "iterating", "handled", "ended"}
  /\ next \in Nat
  /\ ports \in Seq(0 .. PortWord - 1) /\ delta \in Seq(0 .. maxUInt64)
  /\ Len(ports) = next /\ Len(delta) = next
  /\ usage \in [Port -> 0 .. maxUInt64]

LEMMA AddedInNat ==
  ASSUME HandlerTyped, NEW p
  PROVE  Added(p) \in Nat
<1> DEFINE n == Len(ports)
           d == [i \in 1 .. n |-> IF ports[i] = p THEN delta[i] ELSE 0]
<1>1. n \in Nat /\ \A i \in 1 .. n : d[i] \in Nat
  <2>1. n \in Nat /\ n = Len(delta)
    BY LenProperties DEF HandlerTyped
  <2>2. delta \in Seq(0 .. maxUInt64) /\ maxUInt64 \in Nat
    BY Bounds DEF HandlerTyped
  <2>3. \A i \in 1 .. n : delta[i] \in 0 .. maxUInt64
    BY <2>1, <2>2, ElementOfSeq
  <2>4. \A i \in 1 .. n : delta[i] \in Nat
    BY <2>2, <2>3
  <2> QED BY <2>1, <2>4
<1>2. \A i \in 1 .. n : d[i] = IF ports[i] = p THEN delta[i] ELSE 0
  OBVIOUS
<1>3. Len(ports) = n
  OBVIOUS
<1> HIDE DEF n, d
<1>4. PICK u \in [0 .. n -> Nat] : Sums(u, n, 1, d)
  BY <1>1, SumsExist
<1>5. Added(p) = u[n]
  <2>1. n \in Nat
    BY <1>1
  <2>2. u[0] = 0 /\ \A i \in 1 .. n : u[i] = u[i - 1] + d[i]
    BY <1>4, <2>1, SumsAre
  <2>3. \A i \in 1 .. n : u[i] = u[i - 1] + (IF ports[i] = p THEN delta[i] ELSE 0)
    BY <1>2, <2>2
  <2> QED BY <1>3, <2>1, <2>2, <2>3, AddedIs
<1>6. n \in 0 .. n
  BY <1>1
<1> QED BY <1>4, <1>5, <1>6

LEMMA HandlerStep ==
  ASSUME ReaderTyped, HandlerTyped, Next
  PROVE  HandlerTyped'
<1>1. UNCHANGED <<next, ports, delta, usage>>
        /\ daemon' \in {"receiving", "parsing", "iterating", "handled", "ended"}
        => HandlerTyped'
  BY DEF HandlerTyped
<1>2. daemon \in {"receiving", "parsing", "iterating", "handled", "ended"}
  BY DEF HandlerTyped
<1>3. CASE Receive \/ ReceiveBare
  BY <1>1, <1>3 DEF Receive, ReceiveBare
<1>4. CASE Given \/ Parsing
  BY <1>1, <1>2, <1>4 DEF Given, Parsing, handler
<1>5. CASE ParseThrows \/ ParseFails \/ ParseSucceeds \/ MemberThrows
  BY <1>1, <1>5 DEF ParseThrows, ParseFails, ParseSucceeds, MemberThrows
<1>6. CASE NextMember
  <2>1. /\ Typed(root) /\ next \in Nat /\ next < Len(KeysInOrder(root)) /\ Counted # Thrown
        /\ next' = next + 1 /\ daemon' = daemon /\ usage' = usage
    BY <1>6 DEF NextMember, ReaderTyped, HandlerTyped
  <2>2. PICK d \in IF Counted = Undefined THEN 0 .. maxUInt64 ELSE {Counted.num} :
          ports' = Append(ports, PortOf(Key)) /\ delta' = Append(delta, d)
    BY <1>6, Zenon DEF NextMember
  <2>3. PortOf(Key) \in 0 .. PortWord - 1 /\ d \in 0 .. maxUInt64
    BY <2>1, <2>2, MemberTyped
  <2>4. ports' \in Seq(0 .. PortWord - 1) /\ Len(ports') = Len(ports) + 1
    BY <2>2, <2>3, AppendProperties DEF HandlerTyped
  <2>5. delta' \in Seq(0 .. maxUInt64) /\ Len(delta') = Len(delta) + 1
    BY <2>2, <2>3, AppendProperties DEF HandlerTyped
  <2> QED BY <1>2, <2>1, <2>4, <2>5 DEF HandlerTyped
<1>7. CASE AddDataToConf
  <2>1. \A p \in Port : (usage[p] + Added(p)) % LargeWord \in 0 .. maxUInt64
    <3> SUFFICES ASSUME NEW p \in Port
                 PROVE  (usage[p] + Added(p)) % LargeWord \in 0 .. maxUInt64
      OBVIOUS
    <3>1. usage[p] \in 0 .. maxUInt64
      BY DEF HandlerTyped
    <3>2. Added(p) \in Nat
      BY AddedInNat
    <3>3. LargeWord \in Nat /\ LargeWord > 0 /\ maxUInt64 = LargeWord - 1
      BY WidthAssumption DEF maxUInt64
    <3> HIDE DEF Added
    <3>4. usage[p] + Added(p) \in Nat
      BY <3>1, <3>2, <3>3
    <3> QED BY <3>3, <3>4
  <2>2. usage' \in [Port -> 0 .. maxUInt64]
    BY <1>7, <2>1 DEF AddDataToConf
  <2> QED BY <1>7, <2>2 DEF AddDataToConf, HandlerTyped
<1> QED BY <1>3, <1>4, <1>5, <1>6, <1>7 DEF Next

-----------------------------------------------------------------------------
(***************************************************************************)
(* The types of the parser and of the handler, together.                   *)
(***************************************************************************)
IsTyped == ReaderTyped /\ ErrorsTyped /\ HandlerTyped /\ closed \in BOOLEAN

LEMMA ReportIsTyped == Spec => []IsTyped
<1>1. Init => IsTyped
  <2> SUFFICES ASSUME Init PROVE IsTyped
    OBVIOUS
  <2>1. << >> \in Seq(Range(<< >>)) /\ Len(<< >>) = 0 /\ \A S : << >> \in Seq(S)
    BY EmptySeq
  <2>2. TypedStack(<< >>)
    BY <2>1 DEF TypedStack
  <2>3. Typed(NullValue)
    BY DEF Typed, IsValue, Scalar, IsComplex, NullValue
  <2>4. ReaderTyped
    BY <2>2, <2>3 DEF Init, ReaderTyped, ArrayInnermost
  <2>5. ErrorsTyped
    BY <2>1 DEF Init, ErrorsTyped
  <2>6. HandlerTyped
    <3>1. 0 \in 0 .. maxUInt64
      BY Bounds
    <3> QED BY <2>1, <3>1 DEF Init, HandlerTyped
  <2> QED BY <2>4, <2>5, <2>6 DEF Init, IsTyped
<1>2. DepthCounted /\ OpensCounted /\ IsTyped /\ [Next]_vars => IsTyped'
  <2> SUFFICES ASSUME DepthCounted, OpensCounted, IsTyped, [Next]_vars PROVE IsTyped'
    OBVIOUS
  <2>0. ReaderTyped /\ ErrorsTyped /\ HandlerTyped /\ closed \in BOOLEAN
    BY DEF IsTyped
  <2>1. HandlerTyped'
    BY <2>0, HandlerStep DEF vars, handler, HandlerTyped
  <2>2. UNCHANGED <<document, reader>> => IsTyped'
    BY <2>0, <2>1, SameTyped DEF document, reader, IsTyped, ErrorsTyped
  <2>3. CASE Receive
    <3>1. /\ text' = << >> /\ closed' = FALSE /\ at' = "call" /\ stack' = << >>
          /\ errors' = << >> /\ root' = NullValue /\ successful' = FALSE
      BY <2>3 DEF Receive, Parse
    <3>2. \A S : << >> \in Seq(S)
      BY EmptySeq
    <3>3. Len(<< >>) = 0
      BY EmptySeq
    <3>4. TypedStack(<< >>)
      BY <3>2, <3>3 DEF TypedStack
    <3>5. Typed(NullValue)
      BY DEF Typed, IsValue, Scalar, IsComplex, NullValue
    <3>6. ReaderTyped'
      BY <3>1, <3>4, <3>5 DEF ReaderTyped, ArrayInnermost
    <3>7. ErrorsTyped'
      BY <3>1, <3>2 DEF ErrorsTyped
    <3> QED BY <2>1, <3>1, <3>6, <3>7 DEF IsTyped
  <2>4. CASE Given
    <3>1. /\ errors' = errors /\ UNCHANGED reader /\ Len(text') \in Nat
          /\ Len(text) \in Nat /\ Len(text') >= Len(text) /\ closed' \in BOOLEAN
      <4>1. text \in Seq(Tokens) /\ Len(text) \in Nat
        BY LenProperties DEF OpensCounted
      <4>2. CASE Close
        BY <2>0, <4>1, <4>2 DEF Close, reader
      <4>3. CASE \E t \in Tokens : More(t)
        <5>1. PICK t \in Tokens : More(t)
          BY <4>3
        <5>2. Len(text') = Len(text) + 1
          BY <4>1, <5>1, AppendProperties DEF More
        <5> QED BY <2>0, <4>1, <5>1, <5>2 DEF More, reader
      <4> QED BY <2>4, <4>2, <4>3 DEF Given, Feed
    <3>2. ReaderTyped'
      BY <2>0, <3>1, SameTyped DEF reader
    <3>3. ErrorsTyped'
      <4>1. 0 .. Len(text) \subseteq 0 .. Len(text')
        BY <3>1
      <4> QED BY <2>0, <3>1, <4>1, SeqMonotonic DEF ErrorsTyped
    <3> QED BY <2>1, <3>1, <3>2, <3>3 DEF IsTyped
  <2>5. CASE Parsing
    <3>1. Step
      BY <2>5 DEF Parsing
    <3>2. ReaderTyped' /\ ErrorsTyped'
      BY <2>0, <3>1, TypedStep, ErrorsStep
    <3>3. closed' = closed
      BY <3>1, StepKeepsText
    <3> QED BY <2>0, <2>1, <3>2, <3>3 DEF IsTyped
  <2>6. CASE ReceiveBare \/ ParseThrows \/ ParseFails \/ ParseSucceeds \/ MemberThrows
    BY <2>2, <2>6 DEF ReceiveBare, ParseThrows, ParseFails, ParseSucceeds, MemberThrows
  <2>7. CASE NextMember \/ AddDataToConf
    BY <2>2, <2>7 DEF NextMember, AddDataToConf
  <2>8. CASE UNCHANGED vars
    BY <2>2, <2>8 DEF vars
  <2> QED BY <2>3, <2>4, <2>5, <2>6, <2>7, <2>8 DEF Next
<1> QED BY <1>1, <1>2, OpensAreCounted, DepthIsCounted, PTL DEF Spec

(***************************************************************************)
(* Whatever a report holds, the parser, the members that are gone through  *)
(* and what is added to the users stay what the code declares them to be:  *)
(* the vectors of ports and counts of equal length, each count a uint64_t, *)
(* each port a uint16_t (handle_response, daemon/main.cpp:110).            *)
(***************************************************************************)
THEOREM ReportTypes == Spec => []TypeOK
<1>1. DepthCounted /\ OpensCounted /\ IsTyped => TypeOK
  <2> SUFFICES ASSUME DepthCounted, OpensCounted, IsTyped PROVE TypeOK
    OBVIOUS
  <2>1. \A i \in DOMAIN stack : IsComplex(stack[i].value) /\ stack[i].key \in Nat
    <3>1. DOMAIN stack = 1 .. Len(stack)
      BY LenProperties DEF IsTyped, ReaderTyped, TypedStack
    <3> QED BY <3>1 DEF IsTyped, ReaderTyped, TypedStack, IsFrame
  <2>2. \A i \in DOMAIN errors : errors[i] \in 0 .. Len(text)
    <3>1. errors \in Seq(0 .. Len(text))
      BY DEF IsTyped, ErrorsTyped
    <3> QED BY <3>1, LenProperties, ElementOfSeq
  <2>3. root.type \in ValueType
    <3>1. IsValue(root)
      BY DEF IsTyped, ReaderTyped, Typed
    <3> QED BY <3>1 DEF IsValue, Scalar, NullValue, ValueType, TypeRank
  <2>4. HandlerTyped /\ closed \in BOOLEAN /\ successful \in BOOLEAN
    BY DEF IsTyped, ReaderTyped
  <2> QED BY <2>1, <2>2, <2>3, <2>4 DEF TypeOK, HandlerTyped, DepthCounted, OpensCounted
<1> QED BY <1>1, OpensAreCounted, DepthIsCounted, ReportIsTyped, PTL

-----------------------------------------------------------------------------
(***************************************************************************)
(* What the text behind a place makes of a container that is being read.   *)
(***************************************************************************)
\* The elements of a list behind the n that are there.
Longer(m, n, list) == [j \in 0 .. n + Len(list) - 1 |-> IF j < n THEN m[j] ELSE list[j - n + 1]]

\* An element of array f, or a member of object f, begins at i.
Listed(t, f, i) ==
  LET e == ElementsIn(t, i)
  IN  IF e.ok THEN Parsed(ArrayValue(Longer(f.value.map, f.key, e.value)), e.next) ELSE None

Named(t, f, i) ==
  LET m == MembersIn(t, i)
  IN  IF m.ok THEN Parsed(ObjectValue(Over(f.value.map, m.value)), m.next) ELSE None

Closing(f) == IF f.value.type = "object" THEN "objectEnd" ELSE "arrayEnd"

\* The element that is read is x.
Filled(f, x) == [value |-> Put(f.value, f.value.type, f.key, x), key |-> f.key]

NextIndex(f) == [value |-> f.value, key |-> f.key + 1]

\* An element of f ended before i.
After(t, f, i) ==
  CASE TypeAt(t, i) = Closing(f) -> Parsed(f.value, i + 1)
    [] TypeAt(t, i) = "arraySeparator" ->
         IF f.value.type = "object" THEN Named(t, f, i + 1) ELSE Listed(t, NextIndex(f), i + 1)
    [] OTHER -> None

\* The value of an element of f begins at i.
Pending(t, f, i) ==
  LET v == ValueIn(t, i) IN IF v.ok THEN After(t, Filled(f, v.value), v.next) ELSE None

LEMMA FilledIs ==
  ASSUME NEW f, IsFrame(f), NEW x
  PROVE  /\ Filled(f, x).key = f.key
         /\ Filled(f, x).value =
              Holding(f.value.type, [j \in Keys(f.value) \cup {f.key} |->
                                       IF j = f.key THEN x ELSE f.value.map[j]])
<1> DEFINE v == f.value
           k == f.key
           m == [j \in Keys(v) \cup {k} |-> At(v, j)]
           n == [m EXCEPT ![k] = x]
           r == [j \in Keys(v) \cup {k} |-> IF j = k THEN x ELSE v.map[j]]
<1>1. Typed(v) /\ IsComplex(v) /\ k \in Nat
  BY DEF IsFrame
<1>2. v.type \in {"array", "object"} /\ IsValue(v) /\ Become(v, v.type) = v
  BY <1>1 DEF Typed, IsComplex, Become
<1>3. Touch(v, v.type, k) = Holding(v.type, m)
  BY <1>1, <1>2, Touched
<1>4. Put(v, v.type, k, x) = Holding(v.type, n)
  <2>1. Put(v, v.type, k, x) = [Holding(v.type, m) EXCEPT !.map[k] = x]
    BY <1>3, Zenon DEF Put
  <2>2. [Holding(v.type, m) EXCEPT !.map[k] = x] = Holding(v.type, n)
    <3> HIDE DEF v, k, m
    <3> QED BY DEF Holding
  <2> QED BY <2>1, <2>2, Zenon
<1>5. n = r
  <2>1. \A j \in Keys(v) : At(v, j) = v.map[j]
    BY <1>1 DEF At, Present
  <2>2. \A j \in Keys(v) \cup {k} : n[j] = IF j = k THEN x ELSE v.map[j]
    <3>1. \A j \in Keys(v) \cup {k} : n[j] = IF j = k THEN x ELSE At(v, j)
      OBVIOUS
    <3> HIDE DEF n
    <3> QED BY <2>1, <3>1
  <2>3. n = [j \in Keys(v) \cup {k} |-> n[j]]
    OBVIOUS
  <2> HIDE DEF n
  <2> QED BY <2>2, <2>3
<1> HIDE DEF n, r
<1>6. Filled(f, x).key = k /\ Filled(f, x).value = Put(v, v.type, k, x)
  BY DEF Filled
<1> QED BY <1>4, <1>5, <1>6 DEF r

LEMMA AfterIs ==
  ASSUME NEW t, NEW f, NEW i
  PROVE  /\ TypeAt(t, i) = Closing(f) => After(t, f, i) = Parsed(f.value, i + 1)
         /\ TypeAt(t, i) = "arraySeparator" =>
              After(t, f, i) = IF f.value.type = "object" THEN Named(t, f, i + 1)
                               ELSE Listed(t, NextIndex(f), i + 1)
         /\ TypeAt(t, i) \notin {Closing(f), "arraySeparator"} => After(t, f, i) = None
<1>1. Closing(f) # "arraySeparator"
  BY DEF Closing
<1> QED BY <1>1 DEF After

\* An array goes on with its next element.
LEMMA ListedIsPending ==
  ASSUME NEW t, IsText(t), NEW i \in 1 .. Len(t) + 1,
         NEW f, IsFrame(f), f.value.type = "array", Keys(f.value) = 0 .. f.key - 1
  PROVE  Listed(t, f, i) = Pending(t, f, i)
<1> DEFINE e == ElementsIn(t, i)
           v == ValueIn(t, i)
           n == f.key
           m == f.value.map
           g == Filled(f, v.value)
           p == [j \in 0 .. n |-> IF j = n THEN v.value ELSE m[j]]
           r == ElementsIn(t, v.next + 1)
<1>0. Len(t) \in Nat /\ i \in Nat /\ n \in Nat
  BY LenProperties DEF IsText, IsFrame
<1>1. v = ValueAt(t, Grammar(t), i) /\ e = ElementsAt(t, Grammar(t), i) /\ Ends(v, i, Len(t))
  BY Unfolded
<1>2. e = CASE v.ok /\ TypeAt(t, v.next) = "arrayEnd" -> Parsed(<<v.value>>, v.next + 1)
            [] v.ok /\ TypeAt(t, v.next) = "arraySeparator" ->
                 IF r.ok THEN Parsed(<<v.value>> \o r.value, r.next) ELSE None
            [] OTHER -> None
  BY <1>1 DEF ElementsAt, ElementsIn
<1>3. g.key = n /\ g.value = ArrayValue(p)
  <2>1. g.value = Holding("array", [j \in Keys(f.value) \cup {n} |-> IF j = n THEN v.value ELSE m[j]])
    BY FilledIs
  <2>2. Keys(f.value) \cup {n} = 0 .. n
    BY <1>0
  <2>3. g.key = n
    BY FilledIs
  <2> QED BY <2>1, <2>2, <2>3 DEF Holding, ArrayValue
<1>4. g.value.type = "array" /\ g.value.map = p /\ Closing(g) = "arrayEnd"
  BY <1>3 DEF ArrayValue, Closing
<1>5. Listed(t, f, i) = IF e.ok THEN Parsed(ArrayValue(Longer(m, n, e.value)), e.next) ELSE None
  BY DEF Listed
<1>6. Pending(t, f, i) = IF v.ok THEN After(t, g, v.next) ELSE None
  BY DEF Pending
<1>7. Listed(t, NextIndex(g), v.next + 1) =
        IF r.ok THEN Parsed(ArrayValue(Longer(p, n + 1, r.value)), r.next) ELSE None
  BY <1>3, <1>4 DEF Listed, NextIndex
<1> HIDE DEF e, v, g, r
<1>8. CASE v.ok /\ TypeAt(t, v.next) = "arrayEnd"
  <2>1. e = Parsed(<<v.value>>, v.next + 1)
    BY <1>2, <1>8
  <2>2. e.ok /\ e.value = <<v.value>> /\ e.next = v.next + 1
    BY <2>1, PhraseIs
  <2>3. Longer(m, n, <<v.value>>) = p
    <3>1. Len(<<v.value>>) = 1 /\ <<v.value>>[1] = v.value
      OBVIOUS
    <3>2. n + 1 - 1 = n /\ \A j \in 0 .. n : (j < n <=> j # n) /\ (j = n => j - n + 1 = 1)
      BY <1>0
    <3>3. \A j \in 0 .. n : (IF j < n THEN m[j] ELSE <<v.value>>[j - n + 1])
                            = (IF j = n THEN v.value ELSE m[j])
      BY <3>1, <3>2
    <3>4. Longer(m, n, <<v.value>>) = [j \in 0 .. n |-> IF j < n THEN m[j] ELSE <<v.value>>[j - n + 1]]
      BY <3>1, <3>2 DEF Longer
    <3> QED BY <3>3, <3>4
  <2>4. After(t, g, v.next) = Parsed(g.value, v.next + 1)
    BY <1>4, <1>8, AfterIs
  <2> QED BY <1>3, <1>5, <1>6, <1>8, <2>2, <2>3, <2>4
<1>9. CASE v.ok /\ TypeAt(t, v.next) = "arraySeparator"
  <2>1. e = IF r.ok THEN Parsed(<<v.value>> \o r.value, r.next) ELSE None
    BY <1>2, <1>9
  <2>2. After(t, g, v.next) = Listed(t, NextIndex(g), v.next + 1)
    BY <1>4, <1>9, AfterIs
  <2>3. CASE r.ok
    <3>1. e.ok /\ e.value = <<v.value>> \o r.value /\ e.next = r.next
      BY <2>1, <2>3, PhraseIs
    <3>2. r.value \in Seq(Range(r.value))
      <4>1. v.next + 1 \in i + 1 .. Len(t) + 1
        BY <1>1, <1>9, SeparatorInside
      <4>2. v.next + 1 \in 1 .. Len(t) + 1
        BY <1>0, <4>1
      <4> QED BY <2>3, <4>2, Unfolded DEF r
    <3> DEFINE l == r.value
               w == <<v.value>> \o l
    <3>3. /\ Len(w) = Len(l) + 1 /\ w[1] = v.value /\ Len(l) \in Nat
          /\ \A k \in 1 .. Len(l) : w[k + 1] = l[k]
      BY <3>2, Joined, LenProperties
    <3> HIDE DEF w, l
    <3>4. Longer(m, n, w) = Longer(p, n + 1, l)
      <4> DEFINE q == n + Len(l)
      <4>1. n + Len(w) - 1 = q /\ n + 1 + Len(l) - 1 = q
        BY <1>0, <3>3
      <4>2. ASSUME NEW j \in 0 .. q
            PROVE  (IF j < n THEN m[j] ELSE w[j - n + 1])
                   = (IF j < n + 1 THEN p[j] ELSE l[j - (n + 1) + 1])
        <5>1. CASE j < n
          <6>1. j < n + 1 /\ j \in 0 .. n /\ j # n
            BY <1>0, <3>3, <5>1
          <6> QED BY <5>1, <6>1
        <5>2. CASE j = n
          <6>1. ~(j < n) /\ j < n + 1 /\ j \in 0 .. n /\ j - n + 1 = 1
            BY <1>0, <5>2
          <6> QED BY <3>3, <5>2, <6>1
        <5>3. CASE j > n
          <6>0. j \in Int /\ j <= n + Len(l) /\ n \in Int /\ Len(l) \in Int
            BY <1>0, <3>3
          <6> HIDE DEF p, q
          <6>1. ~(j < n) /\ ~(j < n + 1) /\ j - n \in 1 .. Len(l) /\ j - (n + 1) + 1 = j - n
            BY <5>3, <6>0
          <6> QED BY <3>3, <6>1
        <5> QED BY <1>0, <3>3, <5>1, <5>2, <5>3
      <4> HIDE DEF q, p
      <4>3. Longer(m, n, w) = [j \in 0 .. q |-> IF j < n THEN m[j] ELSE w[j - n + 1]]
        BY <4>1 DEF Longer
      <4>4. Longer(p, n + 1, l) = [j \in 0 .. q |-> IF j < n + 1 THEN p[j] ELSE l[j - (n + 1) + 1]]
        BY <4>1 DEF Longer
      <4> QED BY <4>2, <4>3, <4>4
    <3> HIDE DEF p
    <3>5. Listed(t, f, i) = Parsed(ArrayValue(Longer(m, n, w)), r.next)
      BY <1>5, <3>1 DEF w, l
    <3>6. Pending(t, f, i) = Parsed(ArrayValue(Longer(p, n + 1, l)), r.next)
      BY <1>6, <1>7, <1>9, <2>2, <2>3 DEF l
    <3> QED BY <3>4, <3>5, <3>6
  <2>4. CASE ~r.ok
    <3>1. ~e.ok
      BY <2>1, <2>4, NoPhrase
    <3> QED BY <1>5, <1>6, <1>7, <1>9, <2>2, <2>4, <3>1
  <2> QED BY <2>3, <2>4
<1>10. CASE ~(v.ok /\ TypeAt(t, v.next) \in {"arrayEnd", "arraySeparator"})
  <2>1. e = None
    BY <1>2, <1>10
  <2>2. ~e.ok
    BY <2>1, NoPhrase
  <2>3. v.ok => After(t, g, v.next) = None
    BY <1>4, <1>10, AfterIs
  <2> QED BY <1>5, <1>6, <2>2, <2>3
<1> QED BY <1>8, <1>9, <1>10

WithKey(m, k, x) == [j \in DOMAIN m \cup {k} |-> IF j = k THEN x ELSE m[j]]

LEMMA OverMember ==
  ASSUME NEW m, NEW k, NEW x
  PROVE  Over(m, Member(k, x)) = WithKey(m, k, x)
<1>1. DOMAIN Member(k, x) = {k} /\ Member(k, x)[k] = x
  BY DEF Member
<1> QED
  <2>1. Over(m, Member(k, x)) = [j \in DOMAIN m \cup {k} |-> IF j \in {k} THEN Member(k, x)[j] ELSE m[j]]
    BY <1>1 DEF Over
  <2>2. \A j : (IF j \in {k} THEN Member(k, x)[j] ELSE m[j]) = (IF j = k THEN x ELSE m[j])
    BY <1>1
  <2> QED BY <2>1, <2>2 DEF WithKey

LEMMA OverOver ==
  ASSUME NEW m, NEW a, NEW r
  PROVE  Over(m, Over(a, r)) = Over(Over(m, a), r)
<1> QED
  <2> DEFINE D == DOMAIN m \cup DOMAIN a \cup DOMAIN r
  <2>1. /\ DOMAIN Over(a, r) = DOMAIN a \cup DOMAIN r
        /\ \A j \in DOMAIN a \cup DOMAIN r : Over(a, r)[j] = IF j \in DOMAIN r THEN r[j] ELSE a[j]
    BY DEF Over
  <2>2. /\ DOMAIN Over(m, a) = DOMAIN m \cup DOMAIN a
        /\ \A j \in DOMAIN m \cup DOMAIN a : Over(m, a)[j] = IF j \in DOMAIN a THEN a[j] ELSE m[j]
    BY DEF Over
  <2> DEFINE y == Over(a, r)
             z == Over(m, a)
  <2>3. /\ Over(m, y) = [j \in DOMAIN m \cup DOMAIN y |-> IF j \in DOMAIN y THEN y[j] ELSE m[j]]
        /\ Over(z, r) = [j \in DOMAIN z \cup DOMAIN r |-> IF j \in DOMAIN r THEN r[j] ELSE z[j]]
    BY DEF Over
  <2> HIDE DEF y, z
  <2>4. DOMAIN m \cup DOMAIN y = D /\ DOMAIN z \cup DOMAIN r = D
    BY <2>1, <2>2 DEF y, z
  <2>5. \A j \in D : (IF j \in DOMAIN y THEN y[j] ELSE m[j]) = (IF j \in DOMAIN r THEN r[j] ELSE z[j])
    BY <2>1, <2>2 DEF y, z
  <2> HIDE DEF D
  <2>6. Over(m, y) = [j \in D |-> IF j \in DOMAIN y THEN y[j] ELSE m[j]]
    BY <2>3, <2>4
  <2>7. Over(z, r) = [j \in D |-> IF j \in DOMAIN r THEN r[j] ELSE z[j]]
    BY <2>3, <2>4
  <2>8. Over(m, y) = Over(z, r)
    BY <2>5, <2>6, <2>7
  <2> QED BY <2>8 DEF y, z

LEMMA OverNothing ==
  ASSUME NEW m, IsMapping(m)
  PROVE  Over(NoElements, m) = m
<1> QED
  <2>1. DOMAIN NoElements = {}
    BY DEF NoElements
  <2>2. Over(NoElements, m) = [j \in DOMAIN m |-> m[j]]
    BY <2>1 DEF Over
  <2> QED BY <2>2 DEF IsMapping

\* An object goes on with the value of a member whose name is read.
LEMMA NamedIsPending ==
  ASSUME NEW t, IsText(t), NEW i \in 1 .. Len(t) + 1, TypeAt(t, i) = "string",
         t[i].str # Bad => t[i].str \in Name,
         NEW f, IsFrame(f), f.value.type = "object"
  PROVE  Named(t, f, i) =
           IF TypeAt(t, i + 1) = "memberSeparator" /\ t[i].str # Bad
           THEN Pending(t, [value |-> f.value, key |-> t[i].str], i + 2)
           ELSE None
<1> DEFINE d == MembersIn(t, i)
           v == ValueIn(t, i + 2)
           k == t[i].str
           m == f.value.map
           h == [value |-> f.value, key |-> k]
           g == Filled(h, v.value)
           first == Member(k, v.value)
           r == MembersIn(t, v.next + 1)
<1>0. Len(t) \in Nat /\ i \in Nat
  BY LenProperties DEF IsText
<1>1. d = MembersAt(t, Grammar(t), i)
  BY Unfolded
<1>2. Named(t, f, i) = IF d.ok THEN Parsed(ObjectValue(Over(m, d.value)), d.next) ELSE None
  BY DEF Named
<1>3. CASE ~(TypeAt(t, i + 1) = "memberSeparator" /\ k # Bad)
  <2>1. d = None
    <3>1. CASE TypeAt(t, i + 1) # "memberSeparator"
      BY <1>1, <3>1 DEF MembersAt
    <3>2. CASE TypeAt(t, i + 1) = "memberSeparator" /\ k = Bad
      BY <1>1, <3>2 DEF MembersAt
    <3> QED BY <1>3, <3>1, <3>2
  <2>2. ~d.ok
    BY <2>1, NoPhrase
  <2> HIDE DEF d
  <2> QED BY <1>2, <1>3, <2>2
<1>4. CASE TypeAt(t, i + 1) = "memberSeparator" /\ k # Bad
  <2>1. d = CASE v.ok /\ TypeAt(t, v.next) = "objectEnd" -> Parsed(first, v.next + 1)
              [] v.ok /\ TypeAt(t, v.next) = "arraySeparator" ->
                   IF r.ok THEN Parsed(Over(first, r.value), r.next) ELSE None
              [] OTHER -> None
    BY <1>1, <1>4 DEF MembersAt, ValueIn, MembersIn
  <2>2. IsFrame(h)
    <3>1. k \in Name /\ k \in Nat
      BY <1>4, NameAssumption
    <3>2. Typed(f.value) /\ IsComplex(f.value)
      BY DEF IsFrame
    <3> QED BY <3>1, <3>2, FrameOf
  <2>3. g.value = ObjectValue(Over(m, first))
    <3>1. h.key = k /\ h.value = f.value
      OBVIOUS
    <3> HIDE DEF h, v, k
    <3>2. g.value = Holding(h.value.type, [j \in Keys(h.value) \cup {h.key} |->
                                             IF j = h.key THEN v.value ELSE h.value.map[j]])
      BY <2>2, FilledIs
    <3>3. Over(m, first) = WithKey(m, k, v.value)
      BY OverMember
    <3> HIDE DEF first, g
    <3> QED BY <3>1, <3>2, <3>3 DEF Keys, Holding, ObjectValue, WithKey
  <2>4. Pending(t, h, i + 2) = IF v.ok THEN After(t, g, v.next) ELSE None
    BY DEF Pending
  <2>5. g.value.type = "object" /\ g.value.map = Over(m, first) /\ Closing(g) = "objectEnd"
    BY <2>3 DEF ObjectValue, Closing
  <2>6. Named(t, g, v.next + 1) =
          IF r.ok THEN Parsed(ObjectValue(Over(Over(m, first), r.value)), r.next) ELSE None
    BY <2>5 DEF Named
  <2>7. \A x : Over(m, Over(first, x)) = Over(Over(m, first), x)
    BY OverOver
  <2> HIDE DEF d, v, g, first, r, h
  <2>8. CASE v.ok /\ TypeAt(t, v.next) = "objectEnd"
    <3>1. d = Parsed(first, v.next + 1)
      BY <2>1, <2>8
    <3>2. d.ok /\ d.value = first /\ d.next = v.next + 1
      BY <3>1, PhraseIs
    <3>3. After(t, g, v.next) = Parsed(g.value, v.next + 1)
      BY <2>5, <2>8, AfterIs
    <3> QED BY <1>2, <1>4, <2>3, <2>4, <2>8, <3>2, <3>3 DEF h
  <2>9. CASE v.ok /\ TypeAt(t, v.next) = "arraySeparator"
    <3>1. d = IF r.ok THEN Parsed(Over(first, r.value), r.next) ELSE None
      BY <2>1, <2>9
    <3>2. After(t, g, v.next) = Named(t, g, v.next + 1)
      BY <2>5, <2>9, AfterIs
    <3>3. CASE r.ok
      <4>1. d.ok /\ d.value = Over(first, r.value) /\ d.next = r.next
        BY <3>1, <3>3, PhraseIs
      <4> QED BY <1>2, <1>4, <2>4, <2>6, <2>7, <2>9, <3>2, <3>3, <4>1 DEF h
    <3>4. CASE ~r.ok
      <4>1. ~d.ok
        BY <3>1, <3>4, NoPhrase
      <4> QED BY <1>2, <1>4, <2>4, <2>6, <2>9, <3>2, <3>4, <4>1 DEF h
    <3> QED BY <3>3, <3>4
  <2>10. CASE ~(v.ok /\ TypeAt(t, v.next) \in {"objectEnd", "arraySeparator"})
    <3>1. d = None
      BY <2>1, <2>10
    <3>2. ~d.ok
      BY <3>1, NoPhrase
    <3>3. v.ok => After(t, g, v.next) = None
      BY <2>5, <2>10, AfterIs
    <3> QED BY <1>2, <1>4, <2>4, <3>2, <3>3 DEF h
  <2> QED BY <2>8, <2>9, <2>10
<1> QED BY <1>3, <1>4

\* Without a name there is no member.
LEMMA NotNamed ==
  ASSUME NEW t, IsText(t), NEW i \in 1 .. Len(t) + 1, TypeAt(t, i) # "string", NEW f
  PROVE  ~Named(t, f, i).ok
<1>1. MembersIn(t, i) = MembersAt(t, Grammar(t), i)
  BY Unfolded
<1>2. MembersAt(t, Grammar(t), i) = None
  BY DEF MembersAt
<1>3. ~MembersIn(t, i).ok
  BY <1>1, <1>2, NoPhrase
<1>4. Named(t, f, i) = None
  BY <1>3 DEF Named
<1> QED BY <1>4, NoPhrase

(***************************************************************************)
(* The containers that are open in a text, each waiting for the next.      *)
(***************************************************************************)
\* p is the phrase that the innermost of the first n containers of s waits for.
Reaches(t, s, n, p) ==
  \E P : /\ P[1] = 1
         /\ \A k \in 1 .. n : ValueIn(t, P[k]) = Pending(t, s[k], P[k + 1])
         /\ ValueIn(t, P[n + 1]) = p

LEMMA ReachesFirst ==
  ASSUME NEW t, NEW s, NEW p
  PROVE  Reaches(t, s, 0, p) <=> ValueIn(t, 1) = p
<1>1. ASSUME Reaches(t, s, 0, p) PROVE ValueIn(t, 1) = p
  BY <1>1 DEF Reaches
<1>2. ASSUME ValueIn(t, 1) = p PROVE Reaches(t, s, 0, p)
  <2> DEFINE P == [k \in 1 .. 1 |-> 1]
  <2>1. P[1] = 1
    OBVIOUS
  <2> HIDE DEF P
  <2> QED BY <1>2, <2>1 DEF Reaches
<1> QED BY <1>1, <1>2

LEMMA ReachesOf ==
  ASSUME NEW t, NEW s, NEW n, NEW p, Reaches(t, s, n, p), NEW u, \A k \in 1 .. n : u[k] = s[k]
  PROVE  Reaches(t, u, n, p)
BY DEF Reaches

\* A value begins at i in the innermost container.
LEMMA ReachesInner ==
  ASSUME NEW t, NEW s, NEW n \in Nat, n > 0, NEW i, Reaches(t, s, n - 1, Pending(t, s[n], i))
  PROVE  Reaches(t, s, n, ValueIn(t, i))
<1>1. PICK P : /\ P[1] = 1
               /\ \A k \in 1 .. n - 1 : ValueIn(t, P[k]) = Pending(t, s[k], P[k + 1])
               /\ ValueIn(t, P[n - 1 + 1]) = Pending(t, s[n], i)
  BY DEF Reaches
<1> DEFINE Q == [k \in 1 .. n + 1 |-> IF k = n + 1 THEN i ELSE P[k]]
<1>2. \A k \in 1 .. n + 1 : Q[k] = IF k = n + 1 THEN i ELSE P[k]
  OBVIOUS
<1> HIDE DEF Q
<1>3. Q[n + 1] = i /\ Q[1] = P[1] /\ Q[n] = P[n]
  <2>1. 1 \in 1 .. n + 1 /\ 1 # n + 1 /\ n \in 1 .. n + 1 /\ n # n + 1 /\ n + 1 \in 1 .. n + 1
    OBVIOUS
  <2> QED BY <1>2, <2>1
<1>4. ASSUME NEW k \in 1 .. n PROVE ValueIn(t, Q[k]) = Pending(t, s[k], Q[k + 1])
  <2>1. CASE k = n
    <3>1. n - 1 + 1 = n
      OBVIOUS
    <3> QED BY <1>1, <1>3, <2>1, <3>1
  <2>2. CASE k # n
    <3>1. /\ k \in 1 .. n - 1 /\ k \in 1 .. n + 1 /\ k + 1 \in 1 .. n + 1
          /\ k # n + 1 /\ k + 1 # n + 1
      BY <2>2
    <3> QED BY <1>1, <1>2, <3>1
  <2> QED BY <2>1, <2>2
<1> QED BY <1>1, <1>3, <1>4 DEF Reaches

\* A value of the innermost container was read up to i.
LEMMA ReachesOuter ==
  ASSUME NEW t, NEW s, NEW n \in Nat, n > 0, NEW v, NEW i, Reaches(t, s, n, Parsed(v, i))
  PROVE  Reaches(t, s, n - 1, After(t, Filled(s[n], v), i))
<1>1. PICK P : /\ P[1] = 1
               /\ \A k \in 1 .. n : ValueIn(t, P[k]) = Pending(t, s[k], P[k + 1])
               /\ ValueIn(t, P[n + 1]) = Parsed(v, i)
  BY DEF Reaches
<1>2. ValueIn(t, P[n]) = After(t, Filled(s[n], v), i)
  <2>1. ValueIn(t, P[n]) = Pending(t, s[n], P[n + 1])
    BY <1>1
  <2>2. Pending(t, s[n], P[n + 1]) = After(t, Filled(s[n], v), i)
    <3>1. Parsed(v, i).ok /\ Parsed(v, i).value = v /\ Parsed(v, i).next = i
      BY PhraseIs
    <3> DEFINE q == Parsed(v, i)
    <3>2. ValueIn(t, P[n + 1]) = q /\ q.ok /\ q.value = v /\ q.next = i
      BY <1>1, <3>1
    <3> HIDE DEF q
    <3> QED BY <3>2 DEF Pending
  <2> QED BY <2>1, <2>2
<1>3. n - 1 + 1 = n /\ \A k \in 1 .. n - 1 : k \in 1 .. n
  OBVIOUS
<1> QED BY <1>1, <1>2, <1>3 DEF Reaches

\* Without the phrase that is waited for the text says nothing.
LEMMA ReachesNone ==
  ASSUME NEW t, NEW s, NEW n \in Nat, NEW p, ~p.ok, Reaches(t, s, n, p)
  PROVE  ~ValueIn(t, 1).ok
<1>1. PICK P : /\ P[1] = 1
               /\ \A k \in 1 .. n : ValueIn(t, P[k]) = Pending(t, s[k], P[k + 1])
               /\ ValueIn(t, P[n + 1]) = p
  BY DEF Reaches
<1> DEFINE B == {b \in 0 .. n : ~ValueIn(t, P[n + 1 - b]).ok}
<1>2. 0 \in B
  BY <1>1
<1>3. ASSUME NEW b \in B, b < n PROVE b + 1 \in B
  <2>0. b \in 0 .. n /\ ~ValueIn(t, P[n + 1 - b]).ok
    OBVIOUS
  <2> DEFINE k == n - b
  <2>1. k \in 1 .. n /\ n + 1 - b = k + 1 /\ n + 1 - (b + 1) = k /\ b + 1 \in 0 .. n
    <3> HIDE DEF B
    <3> QED BY <1>3, <2>0
  <2> HIDE DEF k
  <2>2. ValueIn(t, P[k]) = Pending(t, s[k], P[k + 1]) /\ ~ValueIn(t, P[k + 1]).ok
    BY <1>1, <2>0, <2>1
  <2>3. Pending(t, s[k], P[k + 1]) = None
    BY <2>2 DEF Pending
  <2>4. ~ValueIn(t, P[k]).ok
    BY <2>2, <2>3, NoPhrase
  <2> QED BY <2>1, <2>4
<1>4. n \in B
  <2>1. B \subseteq 0 .. n
    OBVIOUS
  <2> HIDE DEF B
  <2> QED BY <1>2, <1>3, <2>1, LastPlace
<1>5. ~ValueIn(t, P[n + 1 - n]).ok /\ n + 1 - n = 1
  BY <1>4
<1> QED BY <1>1, <1>5

-----------------------------------------------------------------------------
(***************************************************************************)
(* What a text says is what the reader has, and what the rest of the text  *)
(* makes of it, whatever the rest is.                                      *)
(***************************************************************************)
\* t may become the text.
Completes(t) ==
  /\ IsText(t) /\ (closed => t = text)
  /\ Len(text) <= Len(t) /\ \A i \in 1 .. Len(text) : t[i] = text[i]

\* What the innermost container becomes.
Left(t) ==
  CASE at = "first" ->
         IF TypeAt(t, pos + 1) = "arrayEnd" THEN Parsed(Top.value, pos + 2)
         ELSE Listed(t, Top, pos + 1)
    [] at = "name" ->
         IF TypeAt(t, pos + 1) = "objectEnd" /\ Top.key = 0 THEN Parsed(Top.value, pos + 2)
         ELSE Named(t, Top, pos + 1)
    [] at = "colon" ->
         IF TypeAt(t, pos + 1) = "memberSeparator" THEN Pending(t, Top, pos + 2) ELSE None
    [] OTHER -> After(t, Top, pos + 1)

Denotes(t) ==
  /\ at \in {"call", "token", "thrown"} =>
       Reaches(t, stack, Len(stack), ValueIn(t, pos + 1))
  /\ at \in {"first", "name", "colon", "comma", "separator"} =>
       Reaches(t, stack, Len(stack) - 1, Left(t))
  /\ at = "recover" => ~ValueIn(t, 1).ok
  /\ at \in {"rest", "done"} =>
       /\ successful <=> ValueIn(t, 1).ok
       /\ successful => root = ValueIn(t, 1).value

\* A container is ready for the element at its key.
Awaits(f) == IF f.value.type = "object" THEN f.key # 0 ELSE Keys(f.value) = 0 .. f.key - 1

FramesPlain ==
  /\ \A k \in 1 .. Len(stack) - 1 : Awaits(stack[k])
  /\ at \in {"call", "token", "thrown", "first", "colon", "comma"} /\ stack # << >> => Awaits(Top)
  /\ at = "separator" => Keys(Top.value) = 0 .. Top.key
  /\ at \in {"name", "colon", "comma"} => Top.value.type = "object"

LEMMA CurrentIn ==
  ASSUME OpensCounted, NEW t, Completes(t), Ahead
  PROVE  /\ TypeAt(t, pos + 1) = Current.type /\ pos + 1 \in 1 .. Len(t) + 1
         /\ Current.type # "endOfStream" =>
              /\ pos < Len(text) /\ pos + 1 \in 1 .. Len(t) /\ pos + 1 \in DOMAIN text
              /\ t[pos + 1] = Current /\ text[pos + 1] = Current
<1>1. /\ text \in Seq(Tokens) /\ pos \in 0 .. Len(text) /\ Len(text) \in Nat /\ Len(t) \in Nat
      /\ DOMAIN text = 1 .. Len(text) /\ DOMAIN t = 1 .. Len(t) /\ Len(text) <= Len(t)
  BY LenProperties DEF OpensCounted, Completes, IsText
<1>2. CASE pos < Len(text)
  <2>1. /\ Current = text[pos + 1] /\ pos + 1 \in 1 .. Len(text) /\ pos + 1 \in 1 .. Len(t)
        /\ pos + 1 \in 1 .. Len(t) + 1
    BY <1>1, <1>2 DEF Current
  <2>2. t[pos + 1] = text[pos + 1]
    BY <2>1 DEF Completes
  <2> QED BY <1>1, <1>2, <2>1, <2>2 DEF TypeAt
<1>3. CASE ~(pos < Len(text))
  <2>0. pos = Len(text)
    <3>1. pos \in 0 .. Len(text) /\ Len(text) \in Nat
      BY <1>1
    <3> QED BY <1>3, <3>1
  <2>1. closed /\ Current = EndOfStream /\ pos = Len(text)
    BY <1>3, <2>0, Zenon DEF Ahead, Current
  <2>2. t = text
    BY <2>1 DEF Completes
  <2>3. pos + 1 \notin DOMAIN t /\ pos + 1 \in 1 .. Len(t) + 1
    BY <1>1, <2>1, <2>2
  <2>4. Current.type = "endOfStream"
    BY <2>1 DEF EndOfStream, MarkToken
  <2> QED BY <2>3, <2>4 DEF TypeAt
<1> QED BY <1>2, <1>3

(***************************************************************************)
(* Return from readValue with a value, and without.                        *)
(***************************************************************************)
LEMMA ReturnDenotes ==
  ASSUME NEW t, NEW st, TypedStack(st), \A k \in 1 .. Len(st) : Awaits(st[k]),
         NEW v, Return(st, v), Reaches(t, st, Len(st), Parsed(v, pos' + 1))
  PROVE  Denotes(t)' /\ FramesPlain'
<1>0. Len(st) \in Nat
  BY LenProperties DEF TypedStack
<1>1. CASE st = << >>
  <2>1. at' = "rest" /\ stack' = << >> /\ root' = v /\ successful' = TRUE /\ Len(st) = 0
    BY <1>1, EmptySeq DEF Return
  <2>2. ValueIn(t, 1) = Parsed(v, pos' + 1)
    BY <2>1, ReachesFirst
  <2>3. ValueIn(t, 1).ok /\ ValueIn(t, 1).value = v
    BY <2>2, PhraseIs
  <2>4. Denotes(t)'
    BY <2>1, <2>3 DEF Denotes
  <2>5. FramesPlain'
    <3>1. 1 .. Len(stack') - 1 = {}
      BY <1>1, <2>1
    <3> QED BY <2>1, <3>1 DEF FramesPlain
  <2> QED BY <2>4, <2>5
<1>2. CASE st # << >>
  <2> DEFINE n == Len(st)
             f == st[n]
             g == Filled(f, v)
  <2>1. n > 0 /\ n \in Nat /\ IsFrame(f)
    BY <1>2, TopTyped
  <2>2. /\ stack' = [st EXCEPT ![n] = [st[n] EXCEPT !.value = Put(f.value, f.value.type, f.key, v)]]
        /\ at' = IF f.value.type = "object" THEN "comma" ELSE "separator"
    BY <1>2 DEF Return
  <2>3. [f EXCEPT !.value = Put(f.value, f.value.type, f.key, v)] = g
    <3>1. PICK w : w = Put(f.value, f.value.type, f.key, v)
      OBVIOUS
    <3>2. [f EXCEPT !.value = w] = [value |-> w, key |-> f.key]
      <4> HIDE DEF f
      <4> QED BY <2>1, FrameSet
    <3>3. g = [value |-> w, key |-> f.key]
      BY <3>1, Zenon DEF Filled
    <3> QED BY <3>1, <3>2, <3>3, Zenon
  <2>4. stack' = [st EXCEPT ![n] = g]
    BY <2>2, <2>3, Zenon
  <2>5. /\ g.key = f.key
        /\ g.value = Holding(f.value.type, [j \in Keys(f.value) \cup {f.key} |->
                                              IF j = f.key THEN v ELSE f.value.map[j]])
    BY <2>1, FilledIs
  <2>6. g.value.type = f.value.type /\ Keys(g.value) = Keys(f.value) \cup {f.key}
    <3> HIDE DEF f, g
    <3> QED BY <2>5 DEF Holding, Keys
  <2>7. Awaits(f)
    <3>1. n \in 1 .. Len(st)
      BY <2>1
    <3> QED BY <3>1
  <2> HIDE DEF g
  <2>8. /\ Len(stack') = n /\ stack'[n] = g /\ \A k \in 1 .. n - 1 : stack'[k] = st[k]
        /\ DOMAIN st = 1 .. n
    <3>1. st \in Seq(Range(st)) /\ n \in 1 .. Len(st)
      BY <2>1 DEF TypedStack
    <3>2. DOMAIN st = 1 .. n
      BY <3>1, LenProperties
    <3>3. Len(stack') = n
      BY <2>4, <3>1, Replaced
    <3>4. \A k \in 1 .. n - 1 : k \in 1 .. n /\ k # n
      BY <2>1
    <3> QED BY <2>4, <3>1, <3>2, <3>3, <3>4
  <2>9. Top' = g
    BY <2>8 DEF Top
  <2>10. Reaches(t, stack', n - 1, After(t, g, pos' + 1))
    <3>1. Reaches(t, st, n - 1, After(t, g, pos' + 1))
      BY <2>1, ReachesOuter DEF g
    <3> QED BY <2>8, <3>1, ReachesOf
  <2>11. Denotes(t)'
    <3>1. at' \in {"comma", "separator"}
      BY <2>2
    <3>2. Left(t)' = After(t, g, pos' + 1)
      BY <2>9, <3>1 DEF Left
    <3>3. Reaches(t, stack', Len(stack') - 1, Left(t)')
      BY <2>8, <2>10, <3>2
    <3> QED BY <3>1, <3>3 DEF Denotes
  <2>12. FramesPlain'
    <3>1. \A k \in 1 .. Len(stack') - 1 : Awaits(stack'[k])
      <4>1. \A k \in 1 .. n - 1 : k \in 1 .. n
        BY <2>1
      <4> QED BY <2>8, <4>1
    <3>2. CASE f.value.type = "object"
      <4>1. at' = "comma" /\ g.value.type = "object" /\ g.key # 0
        BY <2>2, <2>5, <2>6, <2>7, <3>2 DEF Awaits
      <4> QED BY <2>9, <3>1, <4>1 DEF FramesPlain, Awaits
    <3>3. CASE f.value.type # "object"
      <4>1. at' = "separator" /\ Keys(g.value) = (0 .. f.key - 1) \cup {f.key}
        BY <2>2, <2>6, <2>7, <3>3 DEF Awaits
      <4>2. f.key \in Nat
        BY <2>1 DEF IsFrame
      <4>3. (0 .. f.key - 1) \cup {f.key} = 0 .. f.key
        BY <4>2
      <4>4. Keys(g.value) = 0 .. g.key
        BY <2>5, <4>1, <4>3
      <4> QED BY <2>9, <3>1, <4>1, <4>4 DEF FramesPlain
    <3> QED BY <3>2, <3>3
  <2> QED BY <2>11, <2>12
<1> QED BY <1>1, <1>2

LEMMA FailDenotes ==
  ASSUME NEW t, NEW st, TypedStack(st), \A k \in 1 .. Len(st) - 1 : Awaits(st[k]),
         Fail(st), ~successful, ~ValueIn(t, 1).ok
  PROVE  Denotes(t)' /\ FramesPlain'
<1>1. stack' = st /\ at' \in {"rest", "recover"} /\ successful' = successful
  BY DEF Fail
<1>2. Denotes(t)'
  BY <1>1 DEF Denotes
<1>3. FramesPlain'
  BY <1>1 DEF FramesPlain
<1> QED BY <1>2, <1>3

(***************************************************************************)
(* Steps inside of a container.                                            *)
(***************************************************************************)
Known(t) ==
  /\ DepthCounted /\ OpensCounted /\ ReaderTyped /\ IsPlain
  /\ Completes(t) /\ Denotes(t) /\ FramesPlain

LEMMA Inner ==
  ASSUME DepthCounted, ReaderTyped, at \in Inside
  PROVE  /\ Len(stack) \in Nat /\ Len(stack) > 0 /\ stack # << >> /\ ~successful
         /\ TypedStack(stack) /\ IsFrame(Top)
<1>1. stack # << >> /\ Len(stack) > 0
  BY StackInside
<1>2. TypedStack(stack)
  BY DEF ReaderTyped
<1>3. ~successful
  BY DEF DepthCounted, Inside
<1> QED BY <1>1, <1>2, <1>3, TopTyped DEF Top

\* The phrase that the container waits for is not there.
LEMMA RecoverDenotes ==
  ASSUME NEW t, Known(t), at \in {"first", "name", "colon", "comma", "separator"},
         ~Left(t).ok, AddErrorAndRecover
  PROVE  Denotes(t)' /\ FramesPlain'
<1>1. Len(stack) \in Nat /\ Len(stack) > 0
  BY Inner DEF Known, Inside
<1>2. Reaches(t, stack, Len(stack) - 1, Left(t))
  BY DEF Known, Denotes
<1>3. ~ValueIn(t, 1).ok
  <2>1. Len(stack) - 1 \in Nat
    BY <1>1
  <2> QED BY <1>2, <2>1, ReachesNone
<1>4. at' = "recover" /\ stack' = stack
  BY DEF AddErrorAndRecover
<1> QED BY <1>3, <1>4 DEF Denotes, Known, FramesPlain

\* The end of the container is read.
LEMMA EndDenotes ==
  ASSUME NEW t, Known(t), at \in {"first", "name", "colon", "comma", "separator"},
         Left(t) = Parsed(Top.value, pos' + 1), EndContainer
  PROVE  Denotes(t)' /\ FramesPlain'
<1>1. Len(stack) \in Nat /\ Len(stack) > 0 /\ TypedStack(stack)
  BY Inner DEF Known, Inside
<1>2. Reaches(t, stack, Len(stack) - 1, Parsed(Top.value, pos' + 1))
  BY DEF Known, Denotes
<1>3. TypedStack(Pop) /\ Len(Pop) = Len(stack) - 1
  BY <1>1, PopTyped, Popped DEF Pop, TypedStack
<1>4. \A k \in 1 .. Len(stack) - 1 : Pop[k] = stack[k]
  <2>1. stack \in Seq(Range(stack)) /\ Len(stack) - 1 \in 0 .. Len(stack)
    BY <1>1 DEF TypedStack
  <2> QED BY <2>1, Prefix DEF Pop
<1>5. \A k \in 1 .. Len(Pop) : Awaits(Pop[k])
  BY <1>3, <1>4 DEF Known, FramesPlain
<1>6. Reaches(t, Pop, Len(Pop), Parsed(Top.value, pos' + 1))
  BY <1>2, <1>3, <1>4, ReachesOf
<1>7. Return(Pop, Top.value)
  BY DEF EndContainer
<1> QED BY <1>3, <1>5, <1>6, <1>7, ReturnDenotes

\* The value of an element is read next.
LEMMA CallDenotes ==
  ASSUME NEW t, at' = "call", Len(stack') \in Nat, Len(stack') > 0, Awaits(Top'),
         \A k \in 1 .. Len(stack') - 1 : Awaits(stack'[k]),
         Reaches(t, stack', Len(stack') - 1, Pending(t, Top', pos' + 1))
  PROVE  Denotes(t)' /\ FramesPlain'
<1>1. Reaches(t, stack', Len(stack'), ValueIn(t, pos' + 1))
  BY ReachesInner DEF Top
<1>2. Denotes(t)'
  BY <1>1 DEF Denotes
<1>3. FramesPlain'
  BY DEF FramesPlain
<1> QED BY <1>2, <1>3

\* The stack with another frame at its top.
LEMMA TopSet ==
  ASSUME TypedStack(stack), Len(stack) > 0, NEW g, stack' = [stack EXCEPT ![Len(stack)] = g]
  PROVE  Len(stack') = Len(stack) /\ Top' = g /\ \A k \in 1 .. Len(stack) - 1 : stack'[k] = stack[k]
<1> DEFINE n == Len(stack)
<1>1. stack \in Seq(Range(stack)) /\ n \in Nat /\ n \in 1 .. n /\ DOMAIN stack = 1 .. n
  BY LenProperties DEF TypedStack
<1>2. Len(stack') = n
  BY <1>1, Replaced
<1>3. \A k \in 1 .. n - 1 : k \in 1 .. n /\ k # n
  <2>1. n \in Nat
    BY <1>1
  <2> HIDE DEF n
  <2> QED BY <2>1
<1>4. stack'[n] = g /\ \A k \in 1 .. n - 1 : stack'[k] = stack[k]
  BY <1>1, <1>3
<1> QED BY <1>2, <1>4 DEF Top

(***************************************************************************)
(* Each step of the reader.                                                *)
(***************************************************************************)
LEMMA KnownCurrent ==
  ASSUME NEW t, Known(t), Ahead
  PROVE  /\ IsText(t) /\ TypeAt(t, pos + 1) = Current.type /\ pos + 1 \in 1 .. Len(t) + 1
         /\ pos \in Nat /\ Current \in Token /\ Current.type # "comment"
         /\ Current.type = "string" => Current.str # 0
         /\ Current.type # "endOfStream" => pos + 1 \in 1 .. Len(t) /\ t[pos + 1] = Current
<1>1. OpensCounted /\ Completes(t) /\ IsPlain
  BY DEF Known
<1>2. /\ TypeAt(t, pos + 1) = Current.type /\ pos + 1 \in 1 .. Len(t) + 1
      /\ Current.type # "endOfStream" =>
           /\ pos < Len(text) /\ pos + 1 \in 1 .. Len(t) /\ pos + 1 \in DOMAIN text
           /\ t[pos + 1] = Current /\ text[pos + 1] = Current
  BY <1>1, CurrentIn
<1>3. Current.type # "comment" /\ (Current.type = "string" => Current.str # 0)
  BY <1>1, <1>2 DEF IsPlain
<1>4. pos \in Nat
  BY <1>1, LenProperties DEF OpensCounted
<1> QED BY <1>1, <1>2, <1>3, <1>4, CurrentTyped DEF Completes

LEMMA KnownRead ==
  ASSUME NEW t, Known(t), NEW p, Read(p)
  PROVE  Ahead /\ at = p /\ (Current.type # "endOfStream" => pos' = pos + 1)
<1>1. Ahead /\ at = p
  BY DEF Read
<1>2. Current.type # "endOfStream" => pos < Len(text)
  BY <1>1, CurrentIn DEF Known
<1> QED BY <1>1, <1>2 DEF Read

LEMMA AppendTop ==
  ASSUME TypedStack(stack), NEW f, stack' = Append(stack, f)
  PROVE  Top' = f
<1>1. stack \in Seq(Range(stack) \cup {f}) /\ f \in Range(stack) \cup {f}
  BY SeqMonotonic DEF TypedStack
<1>2. Len(stack') = Len(stack) + 1 /\ stack'[Len(stack) + 1] = f
  BY <1>1, AppendProperties
<1> QED BY <1>2 DEF Top

LEMMA LongerNothing ==
  ASSUME NEW list, Len(list) \in Nat
  PROVE  ArrayValue(Longer(NoElements, 0, list)) = ArrayOf(list)
<1> DEFINE n == Len(list)
<1>1. 0 + n - 1 = n - 1 /\ \A j \in 0 .. n - 1 : ~(j < 0) /\ j - 0 + 1 = j + 1
  <2>1. n \in Nat
    OBVIOUS
  <2> HIDE DEF n
  <2> QED BY <2>1
<1>2. \A j \in 0 .. n - 1 :
        (IF j < 0 THEN NoElements[j] ELSE list[j - 0 + 1]) = list[j + 1]
  BY <1>1
<1>3. Longer(NoElements, 0, list) =
        [j \in 0 .. n - 1 |-> IF j < 0 THEN NoElements[j] ELSE list[j - 0 + 1]]
  BY <1>1 DEF Longer
<1>4. Longer(NoElements, 0, list) = [j \in 0 .. n - 1 |-> list[j + 1]]
  BY <1>2, <1>3
<1> QED BY <1>4 DEF ArrayOf

LEMMA PushDenotes ==
  ASSUME NEW t, Known(t), at = "token", NEW y \in {"array", "object"},
         stack' = Append(stack, [value |-> DefaultOf(y), key |-> 0]),
         at' = IF y = "array" THEN "first" ELSE "name",
         ValueIn(t, pos + 1) = Left(t)'
  PROVE  Denotes(t)' /\ FramesPlain'
<1> DEFINE n == Len(stack)
           f == [value |-> DefaultOf(y), key |-> 0]
<1>1. n \in Nat /\ stack \in Seq(Range(stack) \cup {f}) /\ f \in Range(stack) \cup {f}
  BY SeqMonotonic, LenProperties DEF Known, ReaderTyped, TypedStack
<1>2. Len(stack') = n + 1 /\ stack'[n + 1] = f /\ \A k \in 1 .. n : stack'[k] = stack[k]
  <2> HIDE DEF f
  <2>1. stack' = Append(stack, f)
    BY DEF f
  <2> QED BY <1>1, <2>1, AppendProperties
<1>3. Top' = f
  BY <1>2 DEF Top
<1>4. Reaches(t, stack, n, Left(t)')
  BY DEF Known, Denotes
<1>5. Reaches(t, stack', n, Left(t)')
  BY <1>2, <1>4, ReachesOf
<1>6. Len(stack') - 1 = n
  BY <1>1, <1>2
<1>7. Denotes(t)'
  <2>1. at' \in {"first", "name"}
    OBVIOUS
  <2> QED BY <1>5, <1>6, <2>1 DEF Denotes
<1>8. \A k \in 1 .. n : Awaits(stack[k])
  <2>1. \A k \in 1 .. n - 1 : Awaits(stack[k])
    BY DEF Known, FramesPlain
  <2>2. n > 0 => Awaits(stack[n])
    <3>1. n > 0 => stack # << >>
      BY EmptySeq
    <3> QED BY <3>1 DEF Known, FramesPlain, Top
  <2>3. \A k \in 1 .. n : k = n \/ k \in 1 .. n - 1
    <3>1. n \in Nat
      BY <1>1
    <3> HIDE DEF n
    <3> QED BY <3>1
  <2>4. \A k \in 1 .. n : n > 0
    <3>1. n \in Nat
      BY <1>1
    <3> HIDE DEF n
    <3> QED BY <3>1
  <2> QED BY <2>1, <2>2, <2>3, <2>4
<1>9. DefaultOf(y).type = y /\ Keys(DefaultOf(y)) = {}
  BY DEF DefaultOf, ArrayValue, ObjectValue, Keys, NoElements
<1>10. \A k \in 1 .. Len(stack') - 1 : Awaits(stack'[k])
  BY <1>2, <1>6, <1>8
<1>11. FramesPlain'
  <2>1. CASE y = "array"
    <3>1. at' = "first" /\ Awaits(f)
      <4>1. f.value.type = "array" /\ Keys(f.value) = {} /\ f.key = 0 /\ 0 .. 0 - 1 = {}
        BY <1>9, <2>1
      <4> HIDE DEF f
      <4> QED BY <2>1, <4>1 DEF Awaits
    <3> QED BY <1>3, <1>10, <3>1 DEF FramesPlain
  <2>2. CASE y = "object"
    <3>1. at' = "name" /\ f.value.type = "object"
      BY <1>9, <2>2
    <3> HIDE DEF f
    <3> QED BY <1>3, <1>10, <3>1 DEF FramesPlain
  <2> QED BY <2>1, <2>2
<1> QED BY <1>7, <1>11

LEMMA BeginDenotes ==
  ASSUME NEW t, Known(t), BeginObject \/ BeginArray
  PROVE  Denotes(t)' /\ FramesPlain'
<1>1. Read("token")
  BY DEF BeginObject, BeginArray
<1>2. Ahead /\ at = "token" /\ (Current.type # "endOfStream" => pos' = pos + 1)
  BY <1>1, KnownRead
<1>3. /\ IsText(t) /\ TypeAt(t, pos + 1) = Current.type /\ pos \in Nat
      /\ Current.type # "endOfStream" => pos + 1 \in 1 .. Len(t)
  BY <1>2, KnownCurrent
<1>4. pos + 1 + 1 = pos + 2 /\ pos + 1 + 2 = pos + 3
  BY <1>3
<1>5. ASSUME Current.type \in {"objectBegin", "arrayBegin"}
      PROVE  pos' = pos + 1 /\ pos + 1 \in 1 .. Len(t) /\ pos + 2 \in 1 .. Len(t) + 1
  <2>1. pos' = pos + 1 /\ pos + 1 \in 1 .. Len(t)
    BY <1>2, <1>3, <1>5
  <2>2. Len(t) \in Nat
    BY <1>3, LenProperties DEF IsText
  <2> QED BY <1>3, <2>1, <2>2
<1>6. CASE BeginObject
  <2>1. /\ Current.type = "objectBegin" /\ at' = "name"
        /\ stack' = Append(stack, [value |-> DefaultOf("object"), key |-> 0])
    BY <1>6 DEF BeginObject
  <2> DEFINE m == MembersIn(t, pos + 2)
  <2>2. ValueIn(t, pos + 1) =
          IF TypeAt(t, pos + 2) = "objectEnd" THEN Parsed(ObjectValue(NoElements), pos + 3)
          ELSE IF m.ok THEN Parsed(ObjectValue(m.value), m.next) ELSE None
    BY <1>3, <1>4, <1>5, <2>1, ContainerIn
  <2>3. m.ok => Over(NoElements, m.value) = m.value
    <3>1. m.ok => IsMapping(m.value)
      BY <1>3, <1>5, <2>1, Unfolded
    <3> HIDE DEF m
    <3> QED BY <3>1, OverNothing
  <2>4. Top' = [value |-> DefaultOf("object"), key |-> 0]
    BY <2>1, AppendTop DEF Known, ReaderTyped
  <2>5. DefaultOf("object") = ObjectValue(NoElements)
    BY DEF DefaultOf
  <2>6. Top'.value = ObjectValue(NoElements) /\ Top'.key = 0 /\ Top'.value.map = NoElements
    BY <2>4, <2>5 DEF ObjectValue
  <2> DEFINE g == Top'
  <2>7. Left(t)' = IF TypeAt(t, pos' + 1) = "objectEnd" /\ g.key = 0
                   THEN Parsed(g.value, pos' + 2) ELSE Named(t, g, pos' + 1)
    BY <2>1 DEF Left
  <2>8. pos' + 1 = pos + 2 /\ pos' + 2 = pos + 3
    BY <1>3, <1>5, <2>1
  <2>9. Named(t, g, pos + 2) = IF m.ok THEN Parsed(ObjectValue(m.value), m.next) ELSE None
    <3>1. Named(t, g, pos + 2) =
            IF m.ok THEN Parsed(ObjectValue(Over(NoElements, m.value)), m.next) ELSE None
      BY <2>6 DEF Named
    <3> HIDE DEF m
    <3> QED BY <2>3, <3>1
  <2> HIDE DEF m
  <2>10. ValueIn(t, pos + 1) = Left(t)'
    BY <2>2, <2>6, <2>7, <2>8, <2>9
  <2> QED BY <1>2, <2>1, <2>10, PushDenotes
<1>7. CASE BeginArray
  <2>1. /\ Current.type = "arrayBegin" /\ at' = "first"
        /\ stack' = Append(stack, [value |-> DefaultOf("array"), key |-> 0])
    BY <1>7 DEF BeginArray
  <2> DEFINE e == ElementsIn(t, pos + 2)
  <2>2. ValueIn(t, pos + 1) =
          IF TypeAt(t, pos + 2) = "arrayEnd" THEN Parsed(ArrayOf(<< >>), pos + 3)
          ELSE IF e.ok THEN Parsed(ArrayOf(e.value), e.next) ELSE None
    BY <1>3, <1>4, <1>5, <2>1, ContainerIn
  <2>3. e.ok => ArrayValue(Longer(NoElements, 0, e.value)) = ArrayOf(e.value)
    <3>1. e.ok => Len(e.value) \in Nat
      <4>1. e.ok => e.value \in Seq(Range(e.value))
        BY <1>3, <1>5, <2>1, Unfolded
      <4> HIDE DEF e
      <4> QED BY <4>1, LenProperties
    <3> HIDE DEF e
    <3> QED BY <3>1, LongerNothing
  <2>4. Top' = [value |-> DefaultOf("array"), key |-> 0]
    BY <2>1, AppendTop DEF Known, ReaderTyped
  <2>5. DefaultOf("array") = ArrayValue(NoElements) /\ ArrayOf(<< >>) = ArrayValue(NoElements)
    <3>1. ArrayOf(<< >>) = ArrayValue(NoElements)
      <4>1. Len(<< >>) = 0 /\ 0 .. 0 - 1 = {}
        BY EmptySeq
      <4> QED BY <4>1 DEF ArrayOf, NoElements
    <3> QED BY <3>1 DEF DefaultOf
  <2>6. Top'.value = ArrayValue(NoElements) /\ Top'.key = 0 /\ Top'.value.map = NoElements
    BY <2>4, <2>5 DEF ArrayValue
  <2> DEFINE g == Top'
  <2>7. Left(t)' = IF TypeAt(t, pos' + 1) = "arrayEnd" THEN Parsed(g.value, pos' + 2)
                   ELSE Listed(t, g, pos' + 1)
    BY <2>1 DEF Left
  <2>8. pos' + 1 = pos + 2 /\ pos' + 2 = pos + 3
    BY <1>3, <1>5, <2>1
  <2>9. Listed(t, g, pos + 2) = IF e.ok THEN Parsed(ArrayOf(e.value), e.next) ELSE None
    <3>1. Listed(t, g, pos + 2) =
            IF e.ok THEN Parsed(ArrayValue(Longer(NoElements, 0, e.value)), e.next) ELSE None
      BY <2>6 DEF Listed
    <3> HIDE DEF e
    <3> QED BY <2>3, <3>1
  <2> HIDE DEF e
  <2>10. ValueIn(t, pos + 1) = Left(t)'
    BY <2>2, <2>5, <2>6, <2>7, <2>8, <2>9
  <2> QED BY <1>2, <2>1, <2>10, PushDenotes
<1> QED BY <1>6, <1>7

LEMMA ScalarDenotes ==
  ASSUME NEW t, Known(t), ReadScalar \/ NotAValue
  PROVE  Denotes(t)' /\ FramesPlain'
<1>1. Read("token")
  BY Zenon DEF ReadScalar, NotAValue
<1>2. Ahead /\ at = "token" /\ (Current.type # "endOfStream" => pos' = pos + 1)
  BY <1>1, KnownRead
<1>3. /\ IsText(t) /\ TypeAt(t, pos + 1) = Current.type /\ pos \in Nat /\ Current \in Token
      /\ pos + 1 \in 1 .. Len(t) + 1 /\ Current.type # "comment"
      /\ Current.type # "endOfStream" => pos + 1 \in 1 .. Len(t) /\ t[pos + 1] = Current
  BY <1>2, KnownCurrent
<1>4. Reaches(t, stack, Len(stack), ValueIn(t, pos + 1))
  BY <1>2 DEF Known, Denotes
<1>5. TypedStack(stack) /\ Len(stack) \in Nat /\ ~successful
  BY <1>2, LenProperties DEF Known, ReaderTyped, TypedStack, DepthCounted
<1>6. \A k \in 1 .. Len(stack) - 1 : Awaits(stack[k])
  BY DEF Known, FramesPlain
<1>7. \A k \in 1 .. Len(stack) : Awaits(stack[k])
  <2> DEFINE n == Len(stack)
  <2>1. n > 0 => Awaits(stack[n])
    <3>1. n > 0 => stack # << >>
      BY EmptySeq
    <3> QED BY <1>2, <3>1 DEF Known, FramesPlain, Top
  <2>2. \A k \in 1 .. n : n > 0 /\ (k = n \/ k \in 1 .. n - 1)
    <3>1. n \in Nat
      BY <1>5
    <3> HIDE DEF n
    <3> QED BY <3>1
  <2> QED BY <1>6, <2>1, <2>2
<1>8. ASSUME ~ValueIn(t, pos + 1).ok, Fail(stack) PROVE Denotes(t)' /\ FramesPlain'
  <2>1. ~ValueIn(t, 1).ok
    BY <1>4, <1>5, <1>8, ReachesNone
  <2> QED BY <1>5, <1>6, <1>8, <2>1, FailDenotes
<1>9. CASE ReadScalar
  <2>1. /\ IsScalar(Current)
        /\ \/ Decode(Current) # Refused /\ Return(stack, Decode(Current))
           \/ Decode(Current) = Refused /\ Fail(stack)
    BY <1>9, Zenon DEF ReadScalar
  <2>2. Decode(Current) = Meaning(Current)
    BY <1>3, <2>1, NumbersDecodeExactly
  <2>3. Current.type # "endOfStream"
    BY <2>1 DEF IsScalar
  <2>4. ValueIn(t, pos + 1) = IF Meaning(Current) = Refused THEN None
                              ELSE Parsed(Meaning(Current), pos + 1 + 1)
    BY <1>3, <2>1, <2>3, ScalarIn
  <2>5. CASE Decode(Current) # Refused /\ Return(stack, Decode(Current))
    <3>1. ValueIn(t, pos + 1) = Parsed(Decode(Current), pos' + 1)
      BY <1>2, <2>2, <2>3, <2>4, <2>5
    <3>2. Reaches(t, stack, Len(stack), Parsed(Decode(Current), pos' + 1))
      BY <1>4, <3>1
    <3> QED BY <1>5, <1>7, <2>5, <3>2, ReturnDenotes
  <2>6. CASE Decode(Current) = Refused /\ Fail(stack)
    <3>1. ~ValueIn(t, pos + 1).ok
      BY <2>2, <2>4, <2>6, NoPhrase
    <3> QED BY <1>8, <2>6, <3>1
  <2> QED BY <2>1, <2>5, <2>6
<1>10. CASE NotAValue
  <2>1. ~IsScalar(Current) /\ Current.type \notin {"objectBegin", "arrayBegin"} /\ Fail(stack)
    BY <1>10 DEF NotAValue
  <2>2. ~ValueIn(t, pos + 1).ok
    BY <1>3, <2>1, NoValueIn DEF IsScalar
  <2> QED BY <1>8, <2>1, <2>2
<1> QED BY <1>9, <1>10

LEMMA NameDenotes ==
  ASSUME NEW t, Known(t), ReadName
  PROVE  Denotes(t)' /\ FramesPlain'
<1>1. Read("name")
  BY DEF ReadName
<1>2. Ahead /\ at = "name" /\ (Current.type # "endOfStream" => pos' = pos + 1)
  BY <1>1, KnownRead
<1>3. /\ IsText(t) /\ TypeAt(t, pos + 1) = Current.type /\ pos \in Nat
      /\ pos + 1 \in 1 .. Len(t) + 1 /\ Current.type # "comment"
      /\ Current.type = "string" => Current.str # 0
      /\ Current.type # "endOfStream" => pos + 1 \in 1 .. Len(t) /\ t[pos + 1] = Current
  BY <1>2, KnownCurrent
<1>4. /\ TypedStack(stack) /\ Len(stack) > 0 /\ Len(stack) \in Nat /\ stack # << >>
      /\ IsFrame(Top) /\ Top.value.type = "object"
  BY <1>2, Inner DEF Known, Inside, FramesPlain
<1>5. Left(t) = IF Current.type = "objectEnd" /\ Top.key = 0 THEN Parsed(Top.value, pos + 2)
                ELSE Named(t, Top, pos + 1)
  BY <1>2, <1>3 DEF Left
<1>6. Current.type = "string" /\ Current.str # Bad => Current.str \in Name
  BY NameTyped DEF Known
<1>7. Current.type = "string" =>
        Named(t, Top, pos + 1) =
          IF TypeAt(t, pos + 2) = "memberSeparator" /\ Current.str # Bad
          THEN Pending(t, [value |-> Top.value, key |-> Current.str], pos + 3)
          ELSE None
  <2> SUFFICES ASSUME Current.type = "string"
               PROVE  Named(t, Top, pos + 1) =
                        IF TypeAt(t, pos + 2) = "memberSeparator" /\ Current.str # Bad
                        THEN Pending(t, [value |-> Top.value, key |-> Current.str], pos + 3)
                        ELSE None
    OBVIOUS
  <2>1. t[pos + 1] = Current /\ pos + 1 + 1 = pos + 2 /\ pos + 1 + 2 = pos + 3
    BY <1>3
  <2> DEFINE i == pos + 1
             f == Top
  <2>2. i \in 1 .. Len(t) + 1 /\ TypeAt(t, i) = "string" /\ t[i].str = Current.str
        /\ (t[i].str # Bad => t[i].str \in Name) /\ IsFrame(f) /\ f.value.type = "object"
    BY <1>3, <1>4, <1>6, <2>1
  <2> HIDE DEF i, f
  <2>3. Named(t, f, i) = IF TypeAt(t, i + 1) = "memberSeparator" /\ t[i].str # Bad
                         THEN Pending(t, [value |-> f.value, key |-> t[i].str], i + 2) ELSE None
    BY <1>3, <2>2, NamedIsPending
  <2> QED BY <2>1, <2>2, <2>3 DEF i, f
<1>8. CASE Current.type = "objectEnd" /\ Top.key = 0 /\ EndContainer
  <2>1. Left(t) = Parsed(Top.value, pos + 2) /\ pos' = pos + 1
    BY <1>2, <1>5, <1>8
  <2>2. pos' + 1 = pos + 2
    BY <1>3, <2>1
  <2> QED BY <1>2, <1>8, <2>1, <2>2, EndDenotes
<1>9. ASSUME Current.type = "string", Current.str # Bad, at' = "colon",
             stack' = [stack EXCEPT ![Len(stack)].key = Current.str]
      PROVE  Denotes(t)' /\ FramesPlain'
  <2> DEFINE g == [value |-> Top.value, key |-> Current.str]
  <2>1. stack' = [stack EXCEPT ![Len(stack)] = [stack[Len(stack)] EXCEPT !.key = Current.str]]
    BY <1>9
  <2>2. [Top EXCEPT !.key = Current.str] = g
    <3>1. PICK k : k = Current.str
      OBVIOUS
    <3>2. [Top EXCEPT !.key = k] = [value |-> Top.value, key |-> k]
      BY <1>4, FrameSet
    <3> QED BY <3>1, <3>2
  <2>3. stack' = [stack EXCEPT ![Len(stack)] = g]
    BY <2>1, <2>2, Zenon DEF Top
  <2>4. g.value.type = "object" /\ g.key # 0
    BY <1>3, <1>4, <1>9
  <2> HIDE DEF g
  <2>5. Len(stack') = Len(stack) /\ Top' = g /\ \A k \in 1 .. Len(stack) - 1 : stack'[k] = stack[k]
    BY <1>4, <2>3, TopSet
  <2>6. Left(t) = IF TypeAt(t, pos + 2) = "memberSeparator" THEN Pending(t, g, pos + 3) ELSE None
    BY <1>5, <1>7, <1>9 DEF g
  <2>7. pos' + 1 = pos + 2 /\ pos' + 2 = pos + 3
    BY <1>2, <1>3, <1>9
  <2>8. Left(t)' = Left(t)
    BY <1>9, <2>5, <2>6, <2>7 DEF Left
  <2>9. Reaches(t, stack, Len(stack) - 1, Left(t))
    BY <1>2 DEF Known, Denotes
  <2>10. Reaches(t, stack', Len(stack') - 1, Left(t)')
    BY <2>5, <2>8, <2>9, ReachesOf
  <2>11. \A k \in 1 .. Len(stack') - 1 : Awaits(stack'[k])
    BY <2>5 DEF Known, FramesPlain
  <2>12. Denotes(t)'
    BY <1>9, <2>10 DEF Denotes
  <2>13. FramesPlain'
    BY <1>9, <2>4, <2>5, <2>11 DEF FramesPlain, Awaits
  <2> QED BY <2>12, <2>13
<1>10. ASSUME AddErrorAndRecover, ~Named(t, Top, pos + 1).ok,
              Current.type = "objectEnd" => Top.key # 0
       PROVE  Denotes(t)' /\ FramesPlain'
  <2>1. ~Left(t).ok
    BY <1>5, <1>10
  <2> QED BY <1>2, <1>10, <2>1, RecoverDenotes
<1>11. CASE /\ Current.type # "string" /\ AddErrorAndRecover
            /\ Current.type = "objectEnd" => Top.key # 0
  <2>1. ~Named(t, Top, pos + 1).ok
    BY <1>3, <1>11, NotNamed
  <2> QED BY <1>10, <1>11, <2>1
<1>12. CASE Current.type = "string" /\ Current.str = Bad /\ AddErrorAndRecover
  <2>1. ~Named(t, Top, pos + 1).ok
    BY <1>7, <1>12, NoPhrase
  <2> QED BY <1>10, <1>12, <2>1
<1> QED
  <2>1. \/ Current.type = "objectEnd" /\ Top.key = 0 /\ EndContainer
        \/ /\ Current.type = "string" /\ Current.str # Bad /\ at' = "colon"
           /\ stack' = [stack EXCEPT ![Len(stack)].key = Current.str]
        \/ /\ Current.type # "string" /\ AddErrorAndRecover
           /\ Current.type = "objectEnd" => Top.key # 0
        \/ Current.type = "string" /\ Current.str = Bad /\ AddErrorAndRecover
    BY Zenon DEF ReadName
  <2> QED BY <2>1, <1>8, <1>9, <1>11, <1>12

LEMMA ColonDenotes ==
  ASSUME NEW t, Known(t), ReadColon
  PROVE  Denotes(t)' /\ FramesPlain'
<1>1. Read("colon")
  BY DEF ReadColon
<1>2. Ahead /\ at = "colon" /\ (Current.type # "endOfStream" => pos' = pos + 1)
  BY <1>1, KnownRead
<1>3. TypeAt(t, pos + 1) = Current.type /\ pos \in Nat
  BY <1>2, KnownCurrent
<1>4. Len(stack) > 0 /\ Len(stack) \in Nat /\ stack # << >>
  BY <1>2, Inner DEF Known, Inside
<1>5. Left(t) = IF Current.type = "memberSeparator" THEN Pending(t, Top, pos + 2) ELSE None
  BY <1>2, <1>3 DEF Left
<1>6. CASE Current.type = "memberSeparator"
  <2>1. at' = "call" /\ stack' = stack
    BY <1>6 DEF ReadColon, Goto
  <2>2. pos' + 1 = pos + 2
    BY <1>2, <1>3, <1>6
  <2>3. Top' = Top
    BY <2>1 DEF Top
  <2>4. Reaches(t, stack', Len(stack') - 1, Pending(t, Top', pos' + 1))
    BY <1>2, <1>5, <1>6, <2>1, <2>2, <2>3 DEF Known, Denotes
  <2>5. Awaits(Top') /\ \A k \in 1 .. Len(stack') - 1 : Awaits(stack'[k])
    BY <1>2, <1>4, <2>1, <2>3 DEF Known, FramesPlain
  <2> QED BY <1>4, <2>1, <2>4, <2>5, CallDenotes
<1>7. CASE Current.type # "memberSeparator"
  <2>1. AddErrorAndRecover
    BY <1>7 DEF ReadColon
  <2>2. ~Left(t).ok
    BY <1>5, <1>7, NoPhrase
  <2> QED BY <1>2, <2>1, <2>2, RecoverDenotes
<1> QED BY <1>6, <1>7

LEMMA CommaDenotes ==
  ASSUME NEW t, Known(t), ReadComma
  PROVE  Denotes(t)' /\ FramesPlain'
<1>1. Read("comma")
  BY DEF ReadComma
<1>2. Ahead /\ at = "comma" /\ (Current.type # "endOfStream" => pos' = pos + 1)
  BY <1>1, KnownRead
<1>3. TypeAt(t, pos + 1) = Current.type /\ pos \in Nat /\ Current.type # "comment"
  BY <1>2, KnownCurrent
<1>4. /\ Len(stack) > 0 /\ Len(stack) \in Nat /\ stack # << >>
      /\ Top.value.type = "object" /\ Awaits(Top)
  BY <1>2, Inner DEF Known, Inside, FramesPlain
<1>5. Left(t) = After(t, Top, pos + 1)
  BY <1>2 DEF Left
<1>6. Closing(Top) = "objectEnd"
  BY <1>4 DEF Closing
<1>7. CASE Current.type = "objectEnd"
  <2>1. EndContainer
    BY <1>7 DEF ReadComma
  <2>2. Left(t) = Parsed(Top.value, pos + 1 + 1) /\ pos' = pos + 1
    BY <1>2, <1>3, <1>5, <1>6, <1>7, AfterIs
  <2> QED BY <1>2, <2>1, <2>2, EndDenotes
<1>8. CASE Current.type = "arraySeparator"
  <2>1. at' = "name" /\ stack' = stack
    BY <1>8 DEF ReadComma, Goto
  <2>2. Left(t) = Named(t, Top, pos + 1 + 1) /\ pos' = pos + 1
    BY <1>2, <1>3, <1>4, <1>5, <1>8, AfterIs
  <2>3. Top' = Top
    BY <2>1 DEF Top
  <2>4. Left(t)' = Left(t)
    <3>1. Top.key # 0
      BY <1>4 DEF Awaits
    <3> QED BY <2>1, <2>2, <2>3, <3>1 DEF Left
  <2>5. Reaches(t, stack', Len(stack') - 1, Left(t)')
    BY <1>2, <2>1, <2>4 DEF Known, Denotes
  <2>6. Denotes(t)'
    BY <2>1, <2>5 DEF Denotes
  <2>7. FramesPlain'
    BY <1>4, <2>1, <2>3 DEF Known, FramesPlain
  <2> QED BY <2>6, <2>7
<1>9. CASE Current.type \notin {"objectEnd", "arraySeparator"}
  <2>1. AddErrorAndRecover
    BY <1>3, <1>9 DEF ReadComma
  <2>2. ~Left(t).ok
    BY <1>3, <1>5, <1>6, <1>9, AfterIs, NoPhrase
  <2> QED BY <1>2, <2>1, <2>2, RecoverDenotes
<1> QED BY <1>7, <1>8, <1>9

LEMMA ArrayDenotes ==
  ASSUME NEW t, Known(t), EmptyArray \/ FirstElement
  PROVE  Denotes(t)' /\ FramesPlain'
<1>1. Ahead /\ at = "first"
  BY DEF EmptyArray, FirstElement, Read
<1>2. IsText(t) /\ TypeAt(t, pos + 1) = Current.type /\ pos \in Nat /\ pos + 1 \in 1 .. Len(t) + 1
  BY <1>1, KnownCurrent
<1>3. /\ Len(stack) > 0 /\ Len(stack) \in Nat /\ stack # << >> /\ IsFrame(Top)
      /\ Top.value.type = "array" /\ Awaits(Top)
  BY <1>1, Inner DEF Known, Inside, FramesPlain, ReaderTyped, ArrayInnermost
<1>4. Left(t) = IF Current.type = "arrayEnd" THEN Parsed(Top.value, pos + 2)
                ELSE Listed(t, Top, pos + 1)
  BY <1>1, <1>2 DEF Left
<1>5. CASE EmptyArray
  <2>1. Read("first") /\ Current.type = "arrayEnd" /\ EndContainer
    BY <1>5 DEF EmptyArray
  <2>2. pos' = pos + 1
    BY <2>1, KnownRead
  <2>3. Left(t) = Parsed(Top.value, pos' + 1)
    BY <1>2, <1>4, <2>1, <2>2
  <2> QED BY <1>1, <2>1, <2>3, EndDenotes
<1>6. CASE FirstElement
  <2>1. Current.type # "arrayEnd" /\ at' = "call" /\ stack' = stack /\ pos' = pos
    BY <1>6 DEF FirstElement, Goto, document
  <2>2. Top' = Top
    BY <2>1 DEF Top
  <2>3. Left(t) = Pending(t, Top, pos + 1)
    <3>1. Keys(Top.value) = 0 .. Top.key - 1
      BY <1>3 DEF Awaits
    <3> DEFINE f == Top
               i == pos + 1
    <3>2. IsFrame(f) /\ f.value.type = "array" /\ Keys(f.value) = 0 .. f.key - 1 /\ i \in 1 .. Len(t) + 1
      BY <1>2, <1>3, <3>1
    <3> HIDE DEF f, i
    <3>3. Listed(t, f, i) = Pending(t, f, i)
      BY <1>2, <3>2, ListedIsPending
    <3> QED BY <1>4, <2>1, <3>3 DEF f, i
  <2>4. Reaches(t, stack', Len(stack') - 1, Pending(t, Top', pos' + 1))
    BY <1>1, <2>1, <2>2, <2>3 DEF Known, Denotes
  <2>5. Awaits(Top') /\ \A k \in 1 .. Len(stack') - 1 : Awaits(stack'[k])
    BY <1>3, <2>1, <2>2 DEF Known, FramesPlain
  <2> QED BY <1>3, <2>1, <2>4, <2>5, CallDenotes
<1> QED BY <1>5, <1>6

LEMMA SeparatorDenotes ==
  ASSUME NEW t, Known(t), ReadSeparator
  PROVE  Denotes(t)' /\ FramesPlain'
<1>1. Read("separator")
  BY DEF ReadSeparator
<1>2. Ahead /\ at = "separator" /\ (Current.type # "endOfStream" => pos' = pos + 1)
  BY <1>1, KnownRead
<1>3. /\ IsText(t) /\ TypeAt(t, pos + 1) = Current.type /\ pos \in Nat
      /\ Current.type # "comment"
      /\ Current.type # "endOfStream" => pos + 1 \in 1 .. Len(t)
  BY <1>2, KnownCurrent
<1>4. /\ Len(stack) > 0 /\ Len(stack) \in Nat /\ stack # << >> /\ IsFrame(Top) /\ TypedStack(stack)
      /\ Top.value.type = "array" /\ Keys(Top.value) = 0 .. Top.key
  BY <1>2, Inner DEF Known, Inside, FramesPlain, ReaderTyped, ArrayInnermost
<1>5. Left(t) = After(t, Top, pos + 1)
  BY <1>2 DEF Left
<1>6. Closing(Top) = "arrayEnd"
  BY <1>4 DEF Closing
<1>7. CASE Current.type = "arrayEnd"
  <2>1. EndContainer
    BY <1>7 DEF ReadSeparator
  <2>2. Left(t) = Parsed(Top.value, pos + 1 + 1) /\ pos' = pos + 1
    BY <1>2, <1>3, <1>5, <1>6, <1>7, AfterIs
  <2> QED BY <1>2, <2>1, <2>2, EndDenotes
<1>8. CASE Current.type = "arraySeparator"
  <2> DEFINE g == NextIndex(Top)
  <2>1. at' = "call" /\ stack' = [stack EXCEPT ![Len(stack)].key = @ + 1]
    BY <1>8 DEF ReadSeparator
  <2>2. stack' = [stack EXCEPT ![Len(stack)] = [stack[Len(stack)] EXCEPT !.key = Top.key + 1]]
    BY <2>1 DEF Top
  <2>3. [Top EXCEPT !.key = Top.key + 1] = g
    <3>1. PICK k : k = Top.key + 1
      OBVIOUS
    <3>2. [Top EXCEPT !.key = k] = [value |-> Top.value, key |-> k]
      BY <1>4, FrameSet
    <3> QED BY <3>1, <3>2 DEF NextIndex
  <2>4. stack' = [stack EXCEPT ![Len(stack)] = g]
    BY <2>2, <2>3, Zenon DEF Top
  <2>5. Top.key \in Nat /\ Typed(Top.value) /\ IsComplex(Top.value)
    BY <1>4 DEF IsFrame
  <2>6. /\ g.value = Top.value /\ g.key = Top.key + 1 /\ g.value.type = "array"
        /\ Keys(g.value) = 0 .. g.key - 1
    <3>1. Top.key + 1 - 1 = Top.key
      BY <2>5
    <3>2. g.value = Top.value /\ g.key = Top.key + 1
      BY DEF NextIndex
    <3> HIDE DEF g
    <3>3. g.key - 1 = Top.key
      BY <2>5, <3>2
    <3>4. Keys(g.value) = 0 .. g.key - 1
      BY <1>4, <3>2, <3>3, Zenon
    <3> QED BY <1>4, <3>2, <3>4
  <2>7. IsFrame(g)
    <3>1. g = [value |-> Top.value, key |-> Top.key + 1] /\ Top.key + 1 \in Nat
      BY <2>5 DEF NextIndex
    <3> HIDE DEF g
    <3> QED BY <1>4, <2>5, <3>1, FrameOf
  <2>8. Left(t) = Listed(t, g, pos + 1 + 1) /\ pos' = pos + 1
    BY <1>2, <1>3, <1>4, <1>5, <1>8, AfterIs
  <2> HIDE DEF g
  <2>9. Len(stack') = Len(stack) /\ Top' = g /\ \A k \in 1 .. Len(stack) - 1 : stack'[k] = stack[k]
    BY <1>4, <2>4, TopSet
  <2>10. Listed(t, g, pos' + 1) = Pending(t, g, pos' + 1)
    <3>1. pos' + 1 \in 1 .. Len(t) + 1
      <4>1. Len(t) \in Nat
        BY <1>3, LenProperties DEF IsText
      <4> QED BY <1>3, <1>8, <2>8, <4>1
    <3> QED BY <1>3, <2>6, <2>7, <3>1, ListedIsPending
  <2>11. Reaches(t, stack, Len(stack) - 1, Pending(t, g, pos' + 1))
    BY <1>2, <2>8, <2>10 DEF Known, Denotes
  <2>12. Reaches(t, stack', Len(stack') - 1, Pending(t, Top', pos' + 1))
    BY <2>9, <2>11, ReachesOf
  <2>13. Awaits(Top') /\ \A k \in 1 .. Len(stack') - 1 : Awaits(stack'[k])
    <3>1. Awaits(g)
      BY <2>6 DEF Awaits
    <3> QED BY <2>9, <3>1 DEF Known, FramesPlain
  <2> QED BY <1>4, <2>1, <2>9, <2>12, <2>13, CallDenotes
<1>9. CASE Current.type \notin {"arrayEnd", "arraySeparator"}
  <2>1. AddErrorAndRecover
    BY <1>9 DEF ReadSeparator
  <2>2. ~Left(t).ok
    BY <1>3, <1>5, <1>6, <1>9, AfterIs, NoPhrase
  <2> QED BY <1>2, <2>1, <2>2, RecoverDenotes
<1> QED BY <1>7, <1>8, <1>9

LEMMA EnterDenotes ==
  ASSUME NEW t, Known(t), CallValue \/ ExceedStackLimit
  PROVE  Denotes(t)' /\ FramesPlain'
<1>1. at = "call" /\ at' \in {"token", "thrown"} /\ UNCHANGED <<pos, stack>>
  BY DEF CallValue, ExceedStackLimit, Goto, document
<1>2. Reaches(t, stack, Len(stack), ValueIn(t, pos + 1))
  BY <1>1 DEF Known, Denotes
<1>3. Denotes(t)'
  BY <1>1, <1>2 DEF Denotes
<1>4. FramesPlain'
  BY <1>1 DEF Known, FramesPlain, Top
<1> QED BY <1>3, <1>4

LEMMA RecoveryDenotes ==
  ASSUME NEW t, Known(t), Recover
  PROVE  Denotes(t)' /\ FramesPlain'
<1>1. at = "recover" /\ Read("recover")
  BY DEF Recover, Read
<1>2. ~ValueIn(t, 1).ok /\ ~successful /\ TypedStack(stack) /\ Len(stack) > 0
  BY <1>1 DEF Known, Denotes, DepthCounted, ReaderTyped
<1>3. CASE Fail(Pop)
  <2>1. TypedStack(Pop) /\ Len(Pop) = Len(stack) - 1 /\ Len(stack) \in Nat
    BY <1>2, PopTyped, Popped, LenProperties DEF Pop, TypedStack
  <2>2. \A k \in 1 .. Len(stack) - 1 : Pop[k] = stack[k]
    <3>1. stack \in Seq(Range(stack)) /\ Len(stack) - 1 \in 0 .. Len(stack)
      BY <1>2, <2>1 DEF TypedStack
    <3> QED BY <3>1, Prefix DEF Pop
  <2>3. \A k \in 1 .. Len(Pop) - 1 : k \in 1 .. Len(stack) - 1
    BY <2>1
  <2>4. \A k \in 1 .. Len(Pop) - 1 : Awaits(Pop[k])
    BY <2>2, <2>3 DEF Known, FramesPlain
  <2> QED BY <1>2, <1>3, <2>1, <2>4, FailDenotes
<1>4. CASE UNCHANGED <<at, stack, successful>>
  <2>1. Denotes(t)'
    BY <1>1, <1>2, <1>4 DEF Denotes
  <2>2. FramesPlain'
    BY <1>1, <1>4 DEF Known, FramesPlain
  <2> QED BY <2>1, <2>2
<1> QED BY <1>3, <1>4 DEF Recover

LEMMA RestDenotes ==
  ASSUME NEW t, Known(t), ReadRest
  PROVE  Denotes(t)' /\ FramesPlain'
<1>1. at = "rest" /\ at' = "done" /\ UNCHANGED <<stack, root, successful>>
  BY DEF ReadRest, Read, Goto
<1>2. Denotes(t)'
  BY <1>1 DEF Known, Denotes
<1>3. FramesPlain'
  BY <1>1 DEF Known, FramesPlain
<1> QED BY <1>2, <1>3

LEMMA DenotesStep ==
  ASSUME NEW t, Known(t), Step
  PROVE  Denotes(t)' /\ FramesPlain'
<1>1. CASE ReadCommented
  <2>1. at = "commented"
    BY <1>1 DEF ReadCommented, Read
  <2>2. ~NoComment
    BY <2>1 DEF Known, OpensCounted
  <2> QED BY <2>2 DEF Known, IsPlain, NoComment
<1>2. ASSUME NEW p, Comment(p) PROVE FALSE
  <2>1. Ahead /\ Current.type = "comment"
    BY <1>2 DEF Comment, Read
  <2> QED BY <2>1, KnownCurrent
<1> QED BY <1>1, <1>2, EnterDenotes, BeginDenotes, ScalarDenotes, NameDenotes, ColonDenotes,
           CommaDenotes, ArrayDenotes, SeparatorDenotes, RecoveryDenotes, RestDenotes DEF Step


-----------------------------------------------------------------------------
(***************************************************************************)
(* The invariant of the parser.                                            *)
(***************************************************************************)
TextDenoted == IsPlain => FramesPlain /\ \A t : Completes(t) => Denotes(t)

\* Where the reader is, with what it has.
LEMMA SameDenotes ==
  ASSUME UNCHANGED <<pos, at, stack, root, successful>>, NEW t
  PROVE  Denotes(t)' = Denotes(t) /\ FramesPlain' = FramesPlain
<1>1. Top' = Top
  BY DEF Top
<1>2. Left(t)' = Left(t)
  BY <1>1 DEF Left
<1>3. Denotes(t)' = Denotes(t)
  BY <1>2 DEF Denotes
<1>4. FramesPlain' = FramesPlain
  BY <1>1 DEF FramesPlain
<1> QED BY <1>3, <1>4

LEMMA SameDenoted ==
  ASSUME TextDenoted, UNCHANGED <<document, reader>>
  PROVE  TextDenoted'
<1>1. UNCHANGED <<text, closed, pos, at, stack, root, successful>>
  BY DEF document, reader
<1>2. IsPlain' = IsPlain /\ \A t : Completes(t)' = Completes(t)
  BY <1>1 DEF IsPlain, Completes
<1>3. \A t : Denotes(t)' = Denotes(t) /\ FramesPlain' = FramesPlain
  BY <1>1, SameDenotes
<1> QED BY <1>2, <1>3 DEF TextDenoted

LEMMA FedDenoted ==
  ASSUME OpensCounted, TextDenoted, Feed
  PROVE  TextDenoted'
<1>1. /\ text \in Seq(Tokens) /\ Len(text) \in Nat /\ ~closed
      /\ UNCHANGED <<pos, at, stack, root, successful>>
  BY LenProperties DEF Feed, Close, More, reader, OpensCounted
<1>2. /\ Len(text') \in Nat /\ Len(text) <= Len(text')
      /\ DOMAIN text = 1 .. Len(text) /\ DOMAIN text' = 1 .. Len(text')
      /\ \A i \in 1 .. Len(text) : text'[i] = text[i]
  <2>1. CASE Close
    BY <1>1, <2>1, LenProperties DEF Close
  <2>2. CASE \E t \in Tokens : More(t)
    <3>1. PICK t \in Tokens : text' = Append(text, t)
      BY <2>2 DEF More
    <3>2. /\ text' \in Seq(Tokens) /\ Len(text') = Len(text) + 1
          /\ \A i \in 1 .. Len(text) : text'[i] = text[i]
      BY <1>1, <3>1, AppendProperties
    <3> QED BY <1>1, <3>2, LenProperties
  <2> QED BY <2>1, <2>2 DEF Feed
<1>3. \A i \in 1 .. Len(text) : i \in 1 .. Len(text')
  BY <1>1, <1>2
<1>4. IsPlain' => IsPlain
  BY <1>2, <1>3 DEF IsPlain
<1>5. ASSUME NEW t, Completes(t)' PROVE Completes(t)
  <2>1. IsText(t) /\ Len(text') <= Len(t) /\ \A i \in 1 .. Len(text') : t[i] = text'[i]
    BY <1>5 DEF Completes
  <2>2. Len(t) \in Nat
    BY <2>1, LenProperties DEF IsText
  <2>3. Len(text) <= Len(t)
    BY <1>1, <1>2, <2>1, <2>2
  <2> QED BY <1>1, <1>2, <1>3, <2>1, <2>3 DEF Completes
<1>6. \A t : Denotes(t)' = Denotes(t) /\ FramesPlain' = FramesPlain
  BY <1>1, SameDenotes
<1> QED BY <1>4, <1>5, <1>6 DEF TextDenoted

LEMMA ReadDenoted ==
  ASSUME DepthCounted, OpensCounted, ReaderTyped, TextDenoted, Step
  PROVE  TextDenoted'
<1>1. text' = text /\ closed' = closed
  BY StepKeepsText
<1>2. IsPlain' = IsPlain /\ \A t : Completes(t)' = Completes(t)
  BY <1>1 DEF IsPlain, Completes
<1> SUFFICES ASSUME IsPlain PROVE FramesPlain' /\ \A t : Completes(t) => Denotes(t)'
  BY <1>2 DEF TextDenoted
<1>3. ASSUME NEW t, Completes(t) PROVE Denotes(t)' /\ FramesPlain'
  <2>1. Known(t)
    BY <1>3 DEF TextDenoted, Known
  <2> QED BY <2>1, DenotesStep
<1>4. Completes(text)
  <2>1. text \in Seq(Tokens) /\ Len(text) \in Nat
    BY LenProperties DEF OpensCounted
  <2> QED BY <2>1, SeqOfRange DEF Completes, IsText
<1> QED BY <1>3, <1>4

LEMMA SetUpDenoted ==
  ASSUME Parse
  PROVE  TextDenoted'
<1>1. stack' = << >> /\ pos' = 0 /\ at' = "call"
  BY DEF Parse
<1>2. Len(<< >>) = 0
  BY EmptySeq
<1>3. \A t : Reaches(t, << >>, 0, ValueIn(t, 1))
  BY ReachesFirst
<1>4. \A t : Denotes(t)'
  BY <1>1, <1>2, <1>3 DEF Denotes
<1>5. FramesPlain'
  BY <1>1, <1>2 DEF FramesPlain
<1> QED BY <1>4, <1>5 DEF TextDenoted

LEMMA DenotedAtFirst ==
  ASSUME Init
  PROVE  TextDenoted
<1>1. stack = << >> /\ at = "idle" /\ Len(<< >>) = 0
  BY EmptySeq DEF Init
<1>2. \A t : Denotes(t)
  BY <1>1 DEF Denotes
<1>3. FramesPlain
  BY <1>1 DEF FramesPlain
<1> QED BY <1>2, <1>3 DEF TextDenoted

LEMMA DenotedNext ==
  ASSUME DepthCounted, OpensCounted, ReaderTyped, TextDenoted, [Next]_vars
  PROVE  TextDenoted'
<1>1. CASE UNCHANGED <<document, reader>>
  BY <1>1, SameDenoted
<1>2. CASE Receive
  BY <1>2, SetUpDenoted DEF Receive
<1>3. CASE Given
  BY <1>3, FedDenoted DEF Given
<1>4. CASE Parsing
  BY <1>4, ReadDenoted DEF Parsing
<1>5. CASE ReceiveBare \/ ParseThrows \/ ParseFails \/ ParseSucceeds \/ MemberThrows
  BY <1>1, <1>5 DEF ReceiveBare, ParseThrows, ParseFails, ParseSucceeds, MemberThrows
<1>6. CASE NextMember \/ AddDataToConf
  BY <1>1, <1>6 DEF NextMember, AddDataToConf
<1>7. CASE UNCHANGED vars
  BY <1>1, <1>7 DEF vars
<1> QED BY <1>2, <1>3, <1>4, <1>5, <1>6, <1>7 DEF Next


LEMMA TextIsDenoted == Spec => []TextDenoted
<1>1. IsTyped => ReaderTyped
  BY DEF IsTyped
<1> QED BY <1>1, DenotedAtFirst, DenotedNext, DepthIsCounted, OpensAreCounted, ReportIsTyped, PTL
        DEF Spec

\* What parse returns, when it returns.
LEMMA DoneDenotes ==
  ASSUME OpensCounted, TextDenoted, at \in {"rest", "done"}, IsPlain
  PROVE  /\ successful <=> Denoted.ok
         /\ successful => root = Denoted.value
<1>1. Completes(text)
  <2>1. text \in Seq(Tokens) /\ Len(text) \in Nat
    BY LenProperties DEF OpensCounted
  <2> QED BY <2>1, SeqOfRange DEF Completes, IsText
<1>2. Denotes(text)
  BY <1>1 DEF TextDenoted
<1> QED BY <1>2 DEF Denotes, ValueIn, Denoted, Denotation

(***************************************************************************)
(* Reader::parse accepts a text exactly if it starts with a value of the   *)
(* grammar of JSON, and the root is then that value, for every text, every *)
(* nesting of containers and every number of bytes behind the NUL          *)
(* (Reader::parse and readValue, jsoncpp.cpp): a report that is cut off    *)
(* is never taken for a whole one.                                         *)
(***************************************************************************)
THEOREM TextsParseAsJson == Spec => []ParsedAsJson
<1>1. OpensCounted /\ TextDenoted => ParsedAsJson
  BY DoneDenotes DEF ParsedAsJson
<1> QED BY <1>1, OpensAreCounted, TextIsDenoted, PTL

-----------------------------------------------------------------------------
(***************************************************************************)
(* The handler and the reader.  The text is given only as it is read, so   *)
(* that no more than one token of it waits.                                *)
(***************************************************************************)
HandlerPlaced ==
  /\ Len(text) <= pos + 1
  /\ daemon = "receiving" => text = << >>
  /\ daemon \in {"iterating", "handled"} => at = "done"
  /\ daemon = "iterating" => successful
  /\ daemon = "ended" =>
       \/ text = << >> \/ at = "thrown"
       \/ at = "done" /\ successful /\ next < Len(KeysInOrder(root)) /\ Counted = Thrown

LEMMA PlacedNext ==
  ASSUME OpensCounted, HandlerPlaced, [Next]_vars
  PROVE  HandlerPlaced'
<1>0. text \in Seq(Tokens) /\ Len(text) \in Nat /\ pos \in Nat /\ pos \in 0 .. Len(text)
  BY LenProperties DEF OpensCounted
<1>1. CASE UNCHANGED vars
  <2>1. UNCHANGED <<text, pos, daemon, at, successful, next, root>>
    BY <1>1 DEF vars, document, reader, handler
  <2>2. Counted' = Counted
    BY <2>1 DEF Counted, Key
  <2> QED BY <2>1, <2>2 DEF HandlerPlaced
<1>2. CASE Receive
  <2>1. text' = << >> /\ pos' = 0 /\ daemon' = "parsing" /\ Len(<< >>) = 0
    BY <1>2, EmptySeq DEF Receive, Parse
  <2> QED BY <2>1 DEF HandlerPlaced
<1>3. CASE ReceiveBare
  <2>1. text = << >> /\ text' = text /\ pos' = pos /\ daemon' = "ended"
    BY <1>3 DEF ReceiveBare, document, HandlerPlaced
  <2> QED BY <2>1 DEF HandlerPlaced
<1>4. CASE Given
  <2>1. daemon' = "parsing" /\ pos' = pos
    BY <1>4 DEF Given, handler, Feed, Close, More
  <2>2. Len(text') <= pos + 1
    <3>1. CASE Close
      BY <3>1 DEF Close, HandlerPlaced
    <3>2. CASE \E t \in Tokens : More(t)
      <4>1. PICK t \in Tokens : text' = Append(text, t) /\ pos = Len(text)
        BY <3>2 DEF More
      <4>2. Len(text') = Len(text) + 1
        BY <1>0, <4>1, AppendProperties
      <4> QED BY <1>0, <4>1, <4>2
    <3> QED BY <1>4, <3>1, <3>2 DEF Given, Feed
  <2> QED BY <2>1, <2>2 DEF HandlerPlaced
<1>5. CASE Parsing
  <2>1. daemon' = "parsing" /\ text' = text /\ pos' \in {pos, pos + 1}
    BY <1>5, StepKeepsText DEF Parsing, handler
  <2>2. Len(text) <= pos' + 1
    <3>1. Len(text) <= pos + 1
      BY DEF HandlerPlaced
    <3> QED BY <1>0, <2>1, <3>1
  <2> QED BY <2>1, <2>2 DEF HandlerPlaced
<1>6. CASE ParseThrows \/ ParseFails \/ ParseSucceeds
  <2>1. UNCHANGED <<text, pos, at, successful>>
    BY <1>6 DEF ParseThrows, ParseFails, ParseSucceeds, document, reader
  <2>2. \/ daemon' = "ended" /\ at = "thrown"
        \/ daemon' = "handled" /\ at = "done"
        \/ daemon' = "iterating" /\ at = "done" /\ successful
    BY <1>6 DEF ParseThrows, ParseFails, ParseSucceeds
  <2> QED BY <2>1, <2>2 DEF HandlerPlaced
<1>7. CASE NextMember \/ AddDataToConf
  <2>1. UNCHANGED <<text, pos, at, successful>> /\ daemon = "iterating"
    BY <1>7 DEF NextMember, AddDataToConf, document, reader
  <2>2. daemon' \in {"iterating", "handled"}
    BY <1>7 DEF NextMember, AddDataToConf
  <2> QED BY <2>1, <2>2 DEF HandlerPlaced
<1>8. CASE MemberThrows
  <2>1. UNCHANGED <<text, pos, at, successful, root, next>> /\ daemon = "iterating"
        /\ daemon' = "ended" /\ next < Len(KeysInOrder(root)) /\ Counted = Thrown
    BY <1>8 DEF MemberThrows, document, reader
  <2>2. Counted' = Counted
    BY <2>1 DEF Counted, Key
  <2> QED BY <2>1, <2>2 DEF HandlerPlaced
<1> QED BY <1>1, <1>2, <1>3, <1>4, <1>5, <1>6, <1>7, <1>8 DEF Next

LEMMA HandlerIsPlaced == Spec => []HandlerPlaced
<1>1. Init => HandlerPlaced
  <2> SUFFICES ASSUME Init PROVE HandlerPlaced
    OBVIOUS
  <2>1. text = << >> /\ Len(<< >>) = 0 /\ pos = 0 /\ daemon = "receiving"
    BY EmptySeq DEF Init
  <2> QED BY <2>1 DEF HandlerPlaced
<1> QED BY <1>1, PlacedNext, OpensAreCounted, PTL DEF Spec

(***************************************************************************)
(* A text whose reading ran into the stack limit says nothing: at most one *)
(* token of it is not read, and stackLimit_g containers are open.          *)
(***************************************************************************)
LEMMA ThrownDenotes ==
  ASSUME DepthCounted, OpensCounted, TextDenoted, HandlerPlaced, at = "thrown", IsPlain
  PROVE  ~Denoted.ok
<1> DEFINE n == Len(stack)
           v == ValueIn(text, pos + 1)
<1>0. /\ text \in Seq(Tokens) /\ Len(text) \in Nat /\ pos \in Nat /\ pos \in 0 .. Len(text)
      /\ DOMAIN text = 1 .. Len(text) /\ IsText(text) /\ Len(text) <= pos + 1
  BY LenProperties, SeqOfRange DEF OpensCounted, HandlerPlaced, IsText
<1>1. n \in Nat /\ n > 0
  BY LimitAssumption DEF DepthCounted
<1>2. Reaches(text, stack, n, v)
  <2>1. Completes(text)
    BY <1>0 DEF Completes
  <2> QED BY <2>1 DEF TextDenoted, Denotes
<1>3. v.ok => TypeAt(text, v.next) = "endOfStream"
  <2>1. pos + 1 \in 1 .. Len(text) + 1
    BY <1>0
  <2>2. Ends(v, pos + 1, Len(text))
    BY <1>0, <2>1, Unfolded
  <2> HIDE DEF v
  <2>3. v.ok => v.next \in pos + 1 + 1 .. Len(text) + 1
    BY <2>2 DEF Ends
  <2>4. v.ok => v.next \notin 1 .. Len(text)
    BY <1>0, <2>3
  <2> QED BY <1>0, <2>4 DEF TypeAt
<1>4. ~ValueIn(text, 1).ok
  <2>1. CASE ~v.ok
    BY <1>1, <1>2, <2>1, ReachesNone
  <2>2. CASE v.ok
    <3>1. PICK P : /\ P[1] = 1
                   /\ \A k \in 1 .. n : ValueIn(text, P[k]) = Pending(text, stack[k], P[k + 1])
                   /\ ValueIn(text, P[n + 1]) = v
      BY <1>2 DEF Reaches
    <3>2. Pending(text, stack[n], P[n + 1]) = After(text, Filled(stack[n], v.value), v.next)
      <4> HIDE DEF v
      <4> QED BY <2>2, <3>1 DEF Pending
    <3>3. After(text, Filled(stack[n], v.value), v.next) = None
      <4>1. \A f : Closing(f) # "endOfStream"
        BY DEF Closing
      <4> HIDE DEF v
      <4> QED BY <1>3, <2>2, <4>1, AfterIs
    <3>4. ValueIn(text, P[n]) = None
      <4>1. n \in 1 .. n
        BY <1>1
      <4> QED BY <3>1, <3>2, <3>3, <4>1
    <3>5. Reaches(text, stack, n - 1, None)
      <4>1. n - 1 + 1 = n /\ \A k \in 1 .. n - 1 : k \in 1 .. n
        BY <1>1
      <4> QED BY <3>1, <3>4, <4>1 DEF Reaches
    <3>6. n - 1 \in Nat
      BY <1>1
    <3> QED BY <3>5, <3>6, NoPhrase, ReachesNone
  <2> QED BY <2>1, <2>2
<1> QED BY <1>4 DEF ValueIn, Denoted, Denotation

(***************************************************************************)
(* A member of a report is a count that asUInt64 returns.                  *)
(***************************************************************************)
LEMMA ReportCounted ==
  ASSUME OpensCounted, TextDenoted, ReaderTyped, at = "done", successful, IsReport,
         next \in Nat, next < Len(KeysInOrder(root))
  PROVE  /\ Key \in Keys(root) /\ Counted = Number(root.map[Key].num) /\ Counted # Thrown
         /\ root.map[Key].num \in Int
<1>1. root = Denoted.value /\ IsPlain
  BY DoneDenotes DEF IsReport
<1>2. IsValue(root) /\ Typed(root)
  BY DEF ReaderTyped, Typed
<1>3. IsComplex(root) /\ Key \in Keys(root)
  BY <1>2, KeyIsKey
<1> DEFINE v == root.map[Key]
<1>4. root.type = "object" /\ v.type \in {"int", "uint"} /\ v.num >= 0
  BY <1>1, <1>3 DEF IsReport
<1>5. At(root, Key) = v /\ MayName(root)
  BY <1>3, <1>4 DEF At, Present, MayName
<1>6. IsUInt64(v)
  BY <1>4 DEF IsUInt64
<1>7. AsUInt64(v) = Number(v.num)
  BY <1>4, <1>6 DEF AsUInt64, AsInteger
<1>8. Counted = Number(v.num)
  BY <1>5, <1>7 DEF Counted
<1>9. Number(v.num) # Thrown
  BY Apart
<1>10. v.num \in Int
  <2>1. IsValue(v)
    BY <1>2, <1>3 DEF Typed
  <2> QED BY <1>4, <2>1, Bounds DEF IsValue, Scalar, NullValue
<1> QED BY <1>3, <1>8, <1>9, <1>10

(***************************************************************************)
(* No report of byte counts ends the daemon, by an exception of the parser *)
(* or of a member (handle_response, daemon/main.cpp:110).                  *)
(***************************************************************************)
THEOREM ReportsKillNot == Spec => []KilledOnlyByBadReports
<1>1. DepthCounted /\ OpensCounted /\ IsTyped /\ TextDenoted /\ HandlerPlaced
        => KilledOnlyByBadReports
  <2> SUFFICES ASSUME DepthCounted, OpensCounted, IsTyped, TextDenoted, HandlerPlaced,
                      daemon = "ended", text # << >>, IsReport
               PROVE  FALSE
    BY DEF KilledOnlyByBadReports
  <2>1. IsPlain /\ Denoted.ok
    BY DEF IsReport
  <2>2. CASE at = "thrown"
    BY <2>1, <2>2, ThrownDenotes
  <2>3. CASE at = "done" /\ successful /\ next < Len(KeysInOrder(root)) /\ Counted = Thrown
    BY <2>3, ReportCounted DEF IsTyped, HandlerTyped
  <2> QED BY <2>2, <2>3 DEF HandlerPlaced
<1> QED BY <1>1, DepthIsCounted, OpensAreCounted, ReportIsTyped, TextIsDenoted, HandlerIsPlaced, PTL

-----------------------------------------------------------------------------
(***************************************************************************)
(* The sum of c over a set of keys, taken in an order of them.             *)
(***************************************************************************)
\* The sums over the keys of s among the first of n keys o.
Running(n, o, c, s) ==
  CHOOSE g \in [0 .. n -> Nat] : Sums(g, n, 1, [i \in 1 .. n |-> IF o[i] \in s THEN c[o[i]] ELSE 0])

LEMMA RunningIs ==
  ASSUME NEW n \in Nat, NEW o, NEW c, NEW s, \A k \in s : c[k] \in Nat
  PROVE  /\ Running(n, o, c, s) \in [0 .. n -> Nat]
         /\ Running(n, o, c, s)[0] = 0
         /\ \A i \in 1 .. n : Running(n, o, c, s)[i] = Running(n, o, c, s)[i - 1]
                                + (IF o[i] \in s THEN c[o[i]] ELSE 0)
<1> DEFINE d == [i \in 1 .. n |-> IF o[i] \in s THEN c[o[i]] ELSE 0]
           u == Running(n, o, c, s)
<1>1. \A i \in 1 .. n : d[i] \in Nat /\ d[i] = IF o[i] \in s THEN c[o[i]] ELSE 0
  OBVIOUS
<1>2. u = CHOOSE g \in [0 .. n -> Nat] : Sums(g, n, 1, d)
  BY DEF Running
<1> HIDE DEF d, u
<1>3. \E g \in [0 .. n -> Nat] : Sums(g, n, 1, d)
  BY <1>1, SumsExist
<1>4. u \in [0 .. n -> Nat] /\ Sums(u, n, 1, d)
  BY <1>2, <1>3
<1>5. u[0] = 0 /\ \A i \in 1 .. n : u[i] = u[i - 1] + d[i]
  BY <1>4, SumsAre
<1> QED BY <1>1, <1>4, <1>5 DEF u

LEMMA RunningNone ==
  ASSUME NEW n \in Nat, NEW o, NEW c
  PROVE  Running(n, o, c, {})[n] = 0
<1> DEFINE u == Running(n, o, c, {})
           B == {i \in 0 .. n : u[i] = 0}
<1>1. u[0] = 0 /\ \A i \in 1 .. n : u[i] = u[i - 1] + 0
  <2>1. PICK a : a = {}
    OBVIOUS
  <2>2. \A k \in a : c[k] \in Nat
    BY <2>1
  <2>3. /\ Running(n, o, c, a)[0] = 0
        /\ \A i \in 1 .. n : Running(n, o, c, a)[i] = Running(n, o, c, a)[i - 1]
                               + (IF o[i] \in a THEN c[o[i]] ELSE 0)
    BY <2>2, RunningIs
  <2>4. u = Running(n, o, c, a)
    BY <2>1
  <2> HIDE DEF u
  <2> QED BY <2>1, <2>3, <2>4
<1> HIDE DEF u
<1>2. 0 \in B
  BY <1>1
<1>3. ASSUME NEW k \in B, k < n PROVE k + 1 \in B
  <2>1. k + 1 \in 1 .. n /\ k + 1 - 1 = k /\ k + 1 \in 0 .. n
    BY <1>3
  <2> QED BY <1>1, <2>1
<1>4. n \in B
  <2>1. B \subseteq 0 .. n
    OBVIOUS
  <2> HIDE DEF B
  <2> QED BY <1>2, <1>3, <2>1, LastPlace
<1> QED BY <1>4 DEF u

\* A key adds its number, wherever it comes in the order.
LEMMA RunningOne ==
  ASSUME NEW n \in Nat, NEW o, \A i, j \in 1 .. n : o[i] = o[j] => i = j,
         NEW c, NEW s, \A k \in s : c[k] \in Nat, NEW r \in 1 .. n, o[r] \in s
  PROVE  Running(n, o, c, s)[n] = c[o[r]] + Running(n, o, c, s \ {o[r]})[n]
<1> DEFINE x == o[r]
           e == c[x]
           u == Running(n, o, c, s)
           w == Running(n, o, c, s \ {x})
           B == {i \in 0 .. n : u[i] = w[i] + (IF r <= i THEN e ELSE 0)}
<1>1. /\ u \in [0 .. n -> Nat] /\ u[0] = 0
      /\ \A i \in 1 .. n : u[i] = u[i - 1] + (IF o[i] \in s THEN c[o[i]] ELSE 0)
  BY RunningIs
<1>2. /\ w \in [0 .. n -> Nat] /\ w[0] = 0
      /\ \A i \in 1 .. n : w[i] = w[i - 1] + (IF o[i] \in s \ {x} THEN c[o[i]] ELSE 0)
  <2>1. \A k \in s \ {x} : c[k] \in Nat
    OBVIOUS
  <2>2. PICK a : a = s \ {x}
    OBVIOUS
  <2>3. w = Running(n, o, c, a)
    BY <2>2
  <2>4. \A k \in a : c[k] \in Nat
    BY <2>1, <2>2
  <2> HIDE DEF x, w
  <2>5. /\ Running(n, o, c, a) \in [0 .. n -> Nat] /\ Running(n, o, c, a)[0] = 0
        /\ \A i \in 1 .. n : Running(n, o, c, a)[i] = Running(n, o, c, a)[i - 1]
                               + (IF o[i] \in a THEN c[o[i]] ELSE 0)
    BY <2>4, RunningIs
  <2> QED BY <2>2, <2>3, <2>5
<1>3. e \in Nat /\ x \in s
  OBVIOUS
<1>4. \A i \in 1 .. n : i # r => (o[i] \in s <=> o[i] \in s \ {x})
  OBVIOUS
<1> HIDE DEF x, e, u, w
<1>5. 0 \in B
  <2>1. ~(r <= 0)
    OBVIOUS
  <2> QED BY <1>1, <1>2, <2>1
<1>6. ASSUME NEW k \in B, k < n PROVE k + 1 \in B
  <2>0. k \in 0 .. n /\ u[k] = w[k] + (IF r <= k THEN e ELSE 0)
    OBVIOUS
  <2> HIDE DEF B
  <2>1. k + 1 \in 1 .. n /\ k + 1 - 1 = k /\ k + 1 \in 0 .. n /\ k \in Nat /\ r \in Nat
    BY <1>6, <2>0
  <2>2. u[k] \in Nat /\ w[k] \in Nat
    BY <1>1, <1>2, <2>0
  <2>3. CASE k + 1 = r
    <3>1. u[k + 1] = u[k] + e
      <4>1. u[k + 1] = u[k] + (IF o[k + 1] \in s THEN c[o[k + 1]] ELSE 0)
        BY <1>1, <2>1
      <4>2. o[k + 1] = x
        BY <2>3 DEF x
      <4> QED BY <1>3, <4>1, <4>2 DEF e
    <3>2. w[k + 1] = w[k] + 0
      <4>1. o[k + 1] \notin s \ {x}
        BY <2>3 DEF x
      <4> QED BY <1>2, <2>1, <4>1
    <3>3. ~(r <= k) /\ r <= k + 1
      BY <2>1, <2>3
    <3>4. u[k + 1] = w[k + 1] + e
      BY <1>3, <2>0, <2>2, <3>1, <3>2, <3>3
    <3> QED BY <2>1, <3>3, <3>4 DEF B
  <2>4. CASE k + 1 # r
    <3> DEFINE a == IF o[k + 1] \in s THEN c[o[k + 1]] ELSE 0
    <3>1. u[k + 1] = u[k] + a
      BY <1>1, <2>1
    <3>2. w[k + 1] = w[k] + a
      <4>1. o[k + 1] \in s \ {x} <=> o[k + 1] \in s
        BY <1>4, <2>1, <2>4
      <4> QED BY <1>2, <2>1, <4>1
    <3>3. a \in Nat
      OBVIOUS
    <3>4. r <= k <=> r <= k + 1
      BY <2>1, <2>4
    <3> HIDE DEF a
    <3>5. u[k + 1] = w[k + 1] + (IF r <= k + 1 THEN e ELSE 0)
      BY <1>3, <2>0, <2>2, <3>1, <3>2, <3>3, <3>4
    <3> QED BY <2>1, <3>5 DEF B
  <2> QED BY <2>3, <2>4
<1>7. n \in B
  <2>1. B \subseteq 0 .. n
    OBVIOUS
  <2> HIDE DEF B
  <2> QED BY <1>5, <1>6, <2>1, LastPlace
<1>8. u[n] = w[n] + e
  <2>1. u[n] = w[n] + (IF r <= n THEN e ELSE 0) /\ r <= n
    BY <1>7
  <2> QED BY <2>1
<1>9. w[n] \in Nat
  <2>1. n \in 0 .. n
    OBVIOUS
  <2> QED BY <1>2, <2>1
<1>10. u[n] = e + w[n]
  BY <1>3, <1>8, <1>9
<1> QED BY <1>10 DEF u, w, e, x

(***************************************************************************)
(* SumFunctionOnSet takes the keys in an order of its own; the sum is the  *)
(* same.                                                                   *)
(***************************************************************************)
IsSum(g, c, K) ==
  g = [s \in SUBSET K |-> IF s = {} THEN 0
                          ELSE c[CHOOSE x \in s : TRUE] + g[s \ {CHOOSE x \in s : TRUE}]]

LEMMA SumIs ==
  ASSUME NEW c, NEW K
  PROVE  SumFunctionOnSet(c, K) = (CHOOSE g : IsSum(g, c, K))[K]
BY DEF SumFunctionOnSet, FoldFunctionOnSet, MapThenFoldSet, IsSum

LEMMA SumStep ==
  ASSUME NEW c, NEW K, NEW g, IsSum(g, c, K), NEW s, s \subseteq K
  PROVE  /\ s = {} => g[s] = 0
         /\ s # {} => LET x == CHOOSE y \in s : TRUE
                      IN  x \in s /\ g[s] = c[x] + g[s \ {x}]
<1>1. g[s] = IF s = {} THEN 0
             ELSE c[CHOOSE x \in s : TRUE] + g[s \ {CHOOSE x \in s : TRUE}]
  BY DEF IsSum
<1>2. s # {} => (CHOOSE x \in s : TRUE) \in s
  OBVIOUS
<1> QED BY <1>1, <1>2

LEMMA SumsOnSubsets ==
  ASSUME NEW c, NEW K, IsFiniteSet(K), NEW g, IsSum(g, c, K), NEW h, IsSum(h, c, K)
  PROVE  g[K] = h[K]
<1> DEFINE n == Cardinality(K)
           B == {m \in 0 .. n : \A s \in SUBSET K : Cardinality(s) = m => g[s] = h[s]}
<1>0. n \in Nat
  BY FS_CardinalityType
<1>1. 0 \in B
  <2>1. ASSUME NEW s \in SUBSET K, Cardinality(s) = 0 PROVE g[s] = h[s]
    <3>1. s = {}
      BY <2>1, FS_Subset, FS_EmptySet
    <3> QED BY <3>1, SumStep
  <2> QED BY <1>0, <2>1
<1>2. ASSUME NEW m \in B, m < n PROVE m + 1 \in B
  <2>0. m \in 0 .. n /\ \A s \in SUBSET K : Cardinality(s) = m => g[s] = h[s]
    OBVIOUS
  <2> HIDE DEF B
  <2>1. ASSUME NEW s \in SUBSET K, Cardinality(s) = m + 1 PROVE g[s] = h[s]
    <3>1. IsFiniteSet(s) /\ m \in Nat
      BY <1>0, <2>0, FS_Subset
    <3>2. s # {} /\ s \subseteq K
      BY <2>1, <3>1, FS_EmptySet
    <3> DEFINE x == CHOOSE y \in s : TRUE
    <3>3. x \in s /\ g[s] = c[x] + g[s \ {x}]
      BY <3>2, SumStep
    <3>4. h[s] = c[x] + h[s \ {x}]
      BY <3>2, SumStep
    <3> HIDE DEF x
    <3>5. Cardinality(s \ {x}) = m
      <4>1. Cardinality(s \ {x}) = Cardinality(s) - 1
        BY <3>1, <3>3, FS_RemoveElement
      <4> QED BY <2>1, <3>1, <4>1
    <3>6. g[s \ {x}] = h[s \ {x}]
      BY <2>0, <3>5
    <3> QED BY <3>3, <3>4, <3>6
  <2>2. m + 1 \in 0 .. n
    BY <1>0, <1>2, <2>0
  <2> QED BY <2>1, <2>2 DEF B
<1>3. n \in B
  <2>1. B \subseteq 0 .. n
    OBVIOUS
  <2> HIDE DEF B
  <2> QED BY <1>0, <1>1, <1>2, <2>1, LastPlace
<1> QED BY <1>3

LEMMA SumInOrder ==
  ASSUME NEW n \in Nat, NEW o, \A i, j \in 1 .. n : o[i] = o[j] => i = j,
         NEW c, NEW K, IsFiniteSet(K), \A k \in K : c[k] \in Nat /\ \E i \in 1 .. n : o[i] = k
  PROVE  SumFunctionOnSet(c, K) = Running(n, o, c, K)[n]
<1> DEFINE h == [s \in SUBSET K |-> Running(n, o, c, s)[n]]
<1>1. ASSUME NEW s \in SUBSET K
      PROVE  h[s] = IF s = {} THEN 0
                    ELSE c[CHOOSE x \in s : TRUE] + h[s \ {CHOOSE x \in s : TRUE}]
  <2>1. CASE s = {}
    BY <2>1, RunningNone
  <2>2. CASE s # {}
    <3>1. PICK x \in s : x = CHOOSE y \in s : TRUE
      BY <2>2
    <3>2. PICK r \in 1 .. n : o[r] = x
      OBVIOUS
    <3>3. \A k \in s : c[k] \in Nat
      OBVIOUS
    <3>4. Running(n, o, c, s)[n] = c[x] + Running(n, o, c, s \ {x})[n]
      BY <3>2, <3>3, RunningOne
    <3>5. h[s] = Running(n, o, c, s)[n] /\ h[s \ {x}] = Running(n, o, c, s \ {x})[n]
      OBVIOUS
    <3> HIDE DEF h
    <3> QED BY <2>2, <3>1, <3>4, <3>5
  <2> QED BY <2>1, <2>2
<1>2. IsSum(h, c, K)
  <2>1. h = [s \in SUBSET K |-> h[s]]
    OBVIOUS
  <2> HIDE DEF h
  <2>2. [s \in SUBSET K |-> h[s]] =
          [s \in SUBSET K |-> IF s = {} THEN 0
             ELSE c[CHOOSE x \in s : TRUE] + h[s \ {CHOOSE x \in s : TRUE}]]
    BY <1>1
  <2> QED BY <2>1, <2>2 DEF IsSum
<1>3. h[K] = Running(n, o, c, K)[n]
  OBVIOUS
<1> HIDE DEF h
<1> DEFINE G == CHOOSE g : IsSum(g, c, K)
<1>4. IsSum(G, c, K)
  BY <1>2
<1>5. SumFunctionOnSet(c, K) = G[K]
  BY SumIs
<1> HIDE DEF G
<1>6. G[K] = h[K]
  BY <1>2, <1>4, SumsOnSubsets
<1> QED BY <1>3, <1>5, <1>6

-----------------------------------------------------------------------------
(***************************************************************************)
(* What the vectors hold of a report while it is gone through.             *)
(***************************************************************************)
Gathered(k, q, d) == q = PortOf(k) /\ d = root.map[k].num

ReportBilled ==
  /\ daemon \in {"receiving", "parsing"} => next = 0
  /\ daemon = "iterating" /\ IsReport =>
       /\ next <= Len(KeysInOrder(root))
       /\ \A i \in 1 .. next : Gathered(KeysInOrder(root)[i], ports[i], delta[i])
  /\ BilledAsReported

LEMMA ReportIs ==
  ASSUME OpensCounted, TextDenoted, ReaderTyped, at = "done", successful, IsReport
  PROVE  /\ root = Denoted.value /\ IsValue(root) /\ IsComplex(root)
         /\ \A k \in Keys(root) : root.map[k].num \in Nat
<1>1. root = Denoted.value
  BY DoneDenotes DEF IsReport
<1>2. Typed(root) /\ IsValue(root) /\ IsComplex(root)
  BY <1>1 DEF ReaderTyped, Typed, IsReport, IsComplex
<1>3. ASSUME NEW k \in Keys(root) PROVE root.map[k].num \in Nat
  <2>1. root.map[k].type \in {"int", "uint"} /\ root.map[k].num >= 0
    BY <1>1, <1>3 DEF IsReport
  <2>2. IsValue(root.map[k])
    BY <1>2, <1>3 DEF Typed
  <2>3. root.map[k].num \in Int
    BY <2>1, <2>2, Bounds DEF IsValue, Scalar, NullValue
  <2> QED BY <2>1, <2>3
<1> QED BY <1>1, <1>2, <1>3

\* One member more.
LEMMA GatheredNext ==
  ASSUME OpensCounted, TextDenoted, ReaderTyped, HandlerTyped, HandlerPlaced, ReportBilled,
         IsReport, NextMember
  PROVE  /\ next' <= Len(KeysInOrder(root))
         /\ \A i \in 1 .. next' : Gathered(KeysInOrder(root)[i], ports'[i], delta'[i])
<1> DEFINE o == KeysInOrder(root)
<1>1. /\ daemon = "iterating" /\ at = "done" /\ successful /\ next < Len(o) /\ next' = next + 1
  BY DEF NextMember, HandlerPlaced
<1>2. next \in Nat /\ Len(ports) = next /\ Len(delta) = next
  BY DEF HandlerTyped
<1>3. Len(o) \in Nat
  BY <1>1, ReportIs, KeysOrdered
<1>4. Counted = Number(root.map[Key].num)
  BY <1>1, <1>2, ReportCounted
<1>5. Counted # Undefined /\ Counted.num = root.map[Key].num
  BY <1>4, Apart
<1>6. PICK d \in IF Counted = Undefined THEN 0 .. maxUInt64 ELSE {Counted.num} :
        ports' = Append(ports, PortOf(Key)) /\ delta' = Append(delta, d)
  BY Zenon DEF NextMember
<1>7. d = root.map[Key].num
  BY <1>5, <1>6
<1>8. Key = o[next + 1]
  BY DEF Key
<1> HIDE DEF o
<1>9. /\ ports'[next + 1] = PortOf(Key) /\ \A i \in 1 .. next : ports'[i] = ports[i]
  <2>1. ports \in Seq(0 .. PortWord - 1)
    BY DEF HandlerTyped
  <2>2. ports \in Seq((0 .. PortWord - 1) \cup {PortOf(Key)})
    BY <2>1, SeqMonotonic
  <2> QED BY <1>2, <1>6, <2>2, AppendProperties
<1>10. /\ delta'[next + 1] = d /\ \A i \in 1 .. next : delta'[i] = delta[i]
  <2>1. delta \in Seq(0 .. maxUInt64)
    BY DEF HandlerTyped
  <2>2. delta \in Seq((0 .. maxUInt64) \cup {d})
    BY <2>1, SeqMonotonic
  <2> QED BY <1>2, <1>6, <2>2, AppendProperties
<1>11. \A i \in 1 .. next : Gathered(o[i], ports[i], delta[i])
  BY <1>1 DEF ReportBilled, o
<1>12. ASSUME NEW i \in 1 .. next' PROVE Gathered(o[i], ports'[i], delta'[i])
  <2>1. CASE i = next + 1
    <3>1. Gathered(Key, PortOf(Key), d)
      BY <1>7 DEF Gathered
    <3> QED BY <1>8, <1>9, <1>10, <2>1, <3>1
  <2>2. CASE i # next + 1
    <3>1. i \in 1 .. next
      BY <1>1, <1>2, <2>2
    <3> QED BY <1>9, <1>10, <1>11, <3>1
  <2> QED BY <2>1, <2>2
<1>13. next' <= Len(o)
  BY <1>1, <1>2, <1>3
<1> QED BY <1>12, <1>13 DEF o

\* What add_data_to_conf adds for a port.
LEMMA AddedAsReported ==
  ASSUME OpensCounted, TextDenoted, ReaderTyped, HandlerTyped, HandlerPlaced, ReportBilled,
         IsReport, AddDataToConf, NEW p
  PROVE  LET counts == [k \in Keys(Denoted.value) |-> Denoted.value.map[k].num]
             K == {k \in Keys(Denoted.value) : AtolOf[k] % PortWord = p}
         IN  Added(p) = SumFunctionOnSet(counts, K)
<1> DEFINE o == KeysInOrder(root)
           n == Len(o)
           counts == [k \in Keys(root) |-> root.map[k].num]
           K == {k \in Keys(root) : AtolOf[k] % PortWord = p}
           u == Running(n, o, counts, K)
<1>1. daemon = "iterating" /\ at = "done" /\ successful /\ next = n /\ Len(ports) = n
  BY DEF AddDataToConf, HandlerPlaced, HandlerTyped
<1>2. /\ root = Denoted.value /\ IsValue(root) /\ IsComplex(root)
      /\ \A k \in Keys(root) : root.map[k].num \in Nat
  BY <1>1, ReportIs
<1>3. /\ n \in Nat /\ IsFiniteSet(Keys(root)) /\ \A i \in 1 .. n : o[i] \in Keys(root)
      /\ \A i, j \in 1 .. n : o[i] = o[j] => i = j
      /\ \A k \in Keys(root) : \E i \in 1 .. n : o[i] = k
  BY <1>2, KeysOrdered
<1>4. \A i \in 1 .. n : Gathered(o[i], ports[i], delta[i])
  BY <1>1 DEF ReportBilled
<1>5. K \subseteq Keys(root) /\ \A k \in Keys(root) : k \in K <=> PortOf(k) = p
  BY DEF PortOf
<1>6. \A k \in Keys(root) : counts[k] = root.map[k].num /\ counts[k] \in Nat
  BY <1>2
<1> HIDE DEF o, n, counts, K
<1>7. IsFiniteSet(K)
  BY <1>3, <1>5, FS_Subset
<1>8. \A k \in K : counts[k] \in Nat /\ \E i \in 1 .. n : o[i] = k
  BY <1>3, <1>5, <1>6
<1>9. /\ u \in [0 .. n -> Nat] /\ u[0] = 0
      /\ \A i \in 1 .. n : u[i] = u[i - 1] + (IF o[i] \in K THEN counts[o[i]] ELSE 0)
  <2>1. \A k \in K : counts[k] \in Nat
    BY <1>8
  <2>2. n \in Nat
    BY <1>3
  <2> QED BY <2>1, <2>2, RunningIs
<1> HIDE DEF u
<1>10. \A i \in 1 .. n : u[i] = u[i - 1] + (IF ports[i] = p THEN delta[i] ELSE 0)
  <2>1. ASSUME NEW i \in 1 .. n
        PROVE  (IF o[i] \in K THEN counts[o[i]] ELSE 0) = IF ports[i] = p THEN delta[i] ELSE 0
    <3>1. o[i] \in Keys(root) /\ ports[i] = PortOf(o[i]) /\ delta[i] = root.map[o[i]].num
      BY <1>3, <1>4 DEF Gathered
    <3> QED BY <1>5, <1>6, <3>1
  <2> QED BY <1>9, <2>1
<1>11. Added(p) = u[n]
  <2>1. n \in Nat /\ Len(ports) = n /\ u[0] = 0
    BY <1>1, <1>3, <1>9
  <2> QED BY <1>10, <2>1, AddedIs
<1>12. SumFunctionOnSet(counts, K) = Running(n, o, counts, K)[n]
  BY <1>3, <1>7, <1>8, SumInOrder
<1>13. Added(p) = SumFunctionOnSet(counts, K)
  BY <1>11, <1>12 DEF u
<1> QED BY <1>2, <1>13 DEF counts, K

LEMMA BilledNext ==
  ASSUME DepthCounted, OpensCounted, TextDenoted, ReaderTyped, HandlerTyped, HandlerPlaced,
         NothingBilledYet, ReportBilled, [Next]_vars
  PROVE  ReportBilled'
<1>1. text' = text => IsReport' = IsReport /\ Denoted' = Denoted /\ IsPlain' = IsPlain
  BY DEF IsReport, Denoted, IsPlain
<1>2. CASE UNCHANGED vars
  <2>1. UNCHANGED <<text, daemon, next, root, ports, delta, usage>>
    BY <1>2 DEF vars, document, reader, handler
  <2> QED BY <1>1, <2>1 DEF ReportBilled, BilledAsReported, Gathered
<1>3. CASE Receive \/ Given \/ Parsing
  <2>1. daemon' = "parsing" /\ next' = next /\ daemon \in {"receiving", "parsing"}
    BY <1>3 DEF Receive, Given, Parsing, handler
  <2> QED BY <2>1 DEF ReportBilled, BilledAsReported
<1>4. CASE ReceiveBare \/ ParseThrows \/ MemberThrows
  <2>1. daemon' = "ended"
    BY <1>4 DEF ReceiveBare, ParseThrows, MemberThrows
  <2> QED BY <2>1 DEF ReportBilled, BilledAsReported
<1>5. CASE ParseFails
  <2>1. /\ daemon = "parsing" /\ at = "done" /\ ~successful /\ daemon' = "handled"
        /\ text' = text /\ usage' = usage
    BY <1>5 DEF ParseFails, document
  <2>2. IsPlain => ~Denoted.ok /\ ~IsReport
    BY <2>1, DoneDenotes DEF IsReport
  <2>3. \A p \in Port : usage[p] = 0
    BY <2>1 DEF NothingBilledYet
  <2> QED BY <1>1, <2>1, <2>2, <2>3 DEF ReportBilled, BilledAsReported
<1>6. CASE ParseSucceeds
  <2>1. daemon = "parsing" /\ daemon' = "iterating" /\ at = "done" /\ successful
        /\ UNCHANGED <<text, root, next, ports, delta>>
    BY <1>6 DEF ParseSucceeds, document, reader
  <2>2. next = 0
    BY <2>1 DEF ReportBilled
  <2>3. IsReport => Len(KeysInOrder(root)) \in Nat
    BY <2>1, ReportIs, KeysOrdered
  <2>4. 1 .. 0 = {}
    OBVIOUS
  <2>5. IsReport => next' <= Len(KeysInOrder(root'))
    BY <2>1, <2>2, <2>3
  <2> QED BY <1>1, <2>1, <2>2, <2>4, <2>5 DEF ReportBilled, BilledAsReported
<1>7. CASE NextMember
  <2>1. daemon' = "iterating" /\ text' = text /\ root' = root
    BY <1>7 DEF NextMember, document, reader
  <2>2. IsReport => /\ next' <= Len(KeysInOrder(root))
                    /\ \A i \in 1 .. next' : Gathered(KeysInOrder(root)[i], ports'[i], delta'[i])
    BY <1>7, GatheredNext
  <2> QED BY <1>1, <2>1, <2>2 DEF ReportBilled, BilledAsReported, Gathered
<1>8. CASE AddDataToConf
  <2>1. /\ daemon = "iterating" /\ daemon' = "handled" /\ text' = text
        /\ at = "done" /\ successful
        /\ usage' = [p \in Port |-> (usage[p] + Added(p)) % LargeWord]
    BY <1>8 DEF AddDataToConf, document, HandlerPlaced
  <2>2. IsPlain => Denoted.ok
    BY <2>1, DoneDenotes
  <2>3. ASSUME IsReport, NEW p \in Port
        PROVE  LET counts == [k \in Keys(Denoted.value) |-> Denoted.value.map[k].num]
                   K == {k \in Keys(Denoted.value) : AtolOf[k] % PortWord = p}
               IN  usage'[p] = SumFunctionOnSet(counts, K) % LargeWord
    <3> DEFINE counts == [k \in Keys(Denoted.value) |-> Denoted.value.map[k].num]
               K == {k \in Keys(Denoted.value) : AtolOf[k] % PortWord = p}
    <3>1. Added(p) = SumFunctionOnSet(counts, K)
      BY <1>8, <2>3, AddedAsReported
    <3> HIDE DEF counts, K
    <3>2. usage'[p] = (usage[p] + Added(p)) % LargeWord
      BY <2>1
    <3>3. usage[p] = 0
      BY <2>1 DEF NothingBilledYet
    <3>4. Added(p) \in Nat
      BY AddedInNat
    <3> HIDE DEF Added
    <3>5. usage[p] + Added(p) = Added(p)
      BY <3>3, <3>4
    <3> QED BY <3>1, <3>2, <3>5 DEF counts, K
  <2> QED BY <1>1, <2>1, <2>2, <2>3 DEF ReportBilled, BilledAsReported
<1> QED BY <1>2, <1>3, <1>4, <1>5, <1>6, <1>7, <1>8 DEF Next


(***************************************************************************)
(* A datagram that is done with has added to each user what the report     *)
(* tells for its port, exactly and once, the sum over all its members; a   *)
(* text that is no JSON has added nothing (handle_response,                *)
(* daemon/main.cpp:110, and ConfigMgr::add_data_to_conf).                  *)
(***************************************************************************)
THEOREM ReportsAreBilled == Spec => []BilledAsReported
<1>1. Init => ReportBilled
  BY DEF Init, ReportBilled, BilledAsReported
<1>2. IsTyped => ReaderTyped /\ HandlerTyped
  BY DEF IsTyped
<1>3. ReportBilled => BilledAsReported
  BY DEF ReportBilled
<1> QED BY <1>1, <1>2, <1>3, BilledNext, DepthIsCounted, OpensAreCounted, ReportIsTyped,
           TextIsDenoted, HandlerIsPlaced, NothingIsBilledYet, PTL DEF Spec
=============================================================================
