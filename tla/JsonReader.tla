----------------------------- MODULE JsonReader -----------------------------
(***************************************************************************)
(* Json::Reader::parse (daemon/jsoncpp.cpp), as the daemon calls it: with  *)
(* Features::all(), which skips comments and takes any value as the root.  *)
(*                                                                         *)
(* One step reads one token.  The calls of readValue, readObject and       *)
(* readArray are unfolded into the program counter "at" and a stack with a *)
(* frame for each container being read; a frame holds the container so     *)
(* far, and the name or index of the element being read.                   *)
(*                                                                         *)
(* The text is given a token at a time, only when the reader needs one     *)
(* more, so that texts are told apart no further than they are read.       *)
(* A token endOfStream inside the text is a NUL byte: parse(std::string)   *)
(* copies capacity() bytes of its argument, so what ssserver sent may be   *)
(* followed by a NUL and by bytes that were never written, any tokens at   *)
(* all here.  The root is given up when parse fails; the program looks at  *)
(* it only after success.                                                  *)
(***************************************************************************)
EXTENDS JsonToken

CONSTANTS
  StackLimit,    \* stackLimit_g
  ScalarToken,   \* the scalar tokens offered where a value is read
  NameToken,     \* the string tokens offered where a name is read
  OtherString,   \* the string and the number offered elsewhere, where only
  OtherNumber,   \* the type of a token matters
  UsualToken,    \* the tokens offered late in a long text
  MaxVaried,     \* bound: tokens of a text before only those are offered
  MaxTokens,     \* bound: tokens of a text
  MaxSkipped     \* bound: tokens of a text that error recovery skips

ASSUME LimitAssumption == StackLimit \in Nat \ {0}
ASSUME TokenAssumption ==
  /\ ScalarToken \subseteq {t \in Token : IsScalar(t)} /\ NameToken \subseteq Token
  /\ OtherString \in Token /\ OtherNumber \in Token

VARIABLES
  text,          \* the tokens of the document given so far
  closed,        \* whether the document ends with them
  pos,           \* current_: how many of them are read
  at,            \* where in the code the reader is
  stack,         \* the containers being read, the innermost last
  depth,         \* stackDepth_g
  errors,        \* errors_: the places in the text they are about
  root,          \* the value that was read
  successful     \* what the outermost readValue returned

document == <<text, closed, pos>>

reader == <<at, stack, depth, errors, root, successful>>

Place ==
  {"idle", "call", "token", "first", "name", "colon", "comma", "commented",
   "separator", "recover", "rest", "done", "thrown"}

-----------------------------------------------------------------------------
(***************************************************************************)
(* The document and the lexer.                                             *)
(***************************************************************************)
\* At readToken, or at the test of readArray for an empty array.
IsReading == at \notin {"idle", "call", "done", "thrown"}

AnyType ==
  {MarkToken(t) : t \in Mark \ {"true", "false", "null"}} \cup {OtherString, OtherNumber}

Offered ==
  CASE at \in {"token", "first"} -> AnyType \cup ScalarToken
    [] at = "name" -> AnyType \cup NameToken
    [] at = "recover" ->
         {MarkToken(t) : t \in {"objectEnd", "arrayEnd", "endOfStream", "error"}}
    [] at = "rest" -> {MarkToken(t) : t \in {"comment", "endOfStream", "error"}}
    [] OTHER -> AnyType

Bounded ==
  /\ Len(text) < MaxTokens
  /\ errors # << >> => Len(text) < errors[1] + MaxSkipped

\* The document has one more token.
More(t) ==
  /\ IsReading /\ pos = Len(text) /\ ~closed /\ Bounded
  /\ t \in Offered
  /\ Len(text) >= MaxVaried => t \in UsualToken
  /\ text' = Append(text, t)
  /\ UNCHANGED <<closed, pos, reader>>

\* The document has no more tokens.
Close ==
  /\ IsReading /\ pos = Len(text) /\ ~closed
  /\ closed' = TRUE
  /\ UNCHANGED <<text, pos, reader>>

Ahead == pos < Len(text) \/ closed

Current == IF pos < Len(text) THEN text[pos + 1] ELSE EndOfStream

\* readToken: the reader is at p and takes the current token.
Read(p) ==
  /\ at = p /\ Ahead
  /\ pos' = IF pos < Len(text) THEN pos + 1 ELSE pos
  /\ UNCHANGED <<text, closed>>

Comment(p) ==
  /\ Read(p) /\ Current.type = "comment"
  /\ UNCHANGED reader

-----------------------------------------------------------------------------
(***************************************************************************)
(* Returning from readValue, with the frames of st left on the stack.      *)
(***************************************************************************)
Top == stack[Len(stack)]

Pop == SubSeq(stack, 1, Len(stack) - 1)

\* readValue succeeded with v, and its caller goes on.
Return(st, v) ==
  IF st = << >>
  THEN /\ at' = "rest" /\ stack' = st
       /\ root' = v /\ successful' = TRUE
  ELSE LET f == st[Len(st)]
       IN  /\ stack' = [st EXCEPT ![Len(st)].value = Put(@, @.type, f.key, v)]
           /\ at' = IF f.value.type = "object" THEN "comma" ELSE "separator"
           /\ UNCHANGED <<root, successful>>

\* readValue failed; its caller calls recoverFromError.
Fail(st) ==
  /\ stack' = st
  /\ at' = IF st = << >> THEN "rest" ELSE "recover"
  /\ UNCHANGED <<root, successful>>

AddError == errors' = Append(errors, pos)

\* addErrorAndRecover in readObject or readArray.
AddErrorAndRecover ==
  /\ AddError /\ at' = "recover"
  /\ UNCHANGED <<stack, depth, root, successful>>

Goto(p) ==
  /\ at' = p
  /\ UNCHANGED <<stack, depth, errors, root, successful>>

-----------------------------------------------------------------------------
(***************************************************************************)
(* readValue.                                                              *)
(***************************************************************************)
CallValue ==
  /\ at = "call" /\ depth < StackLimit
  /\ at' = "token" /\ depth' = depth + 1
  /\ UNCHANGED <<document, stack, errors, root, successful>>

ExceedStackLimit ==
  /\ at = "call" /\ depth >= StackLimit
  /\ UNCHANGED document
  /\ Goto("thrown")

BeginObject ==
  /\ Read("token") /\ Current.type = "objectBegin"
  /\ stack' = Append(stack, [value |-> DefaultOf("object"), key |-> 0])
  /\ at' = "name"
  /\ UNCHANGED <<depth, errors, root, successful>>

BeginArray ==
  /\ Read("token") /\ Current.type = "arrayBegin"
  /\ stack' = Append(stack, [value |-> DefaultOf("array"), key |-> 0])
  /\ at' = "first"
  /\ UNCHANGED <<depth, errors, root, successful>>

ReadScalar ==
  /\ Read("token") /\ IsScalar(Current)
  /\ depth' = depth - 1
  /\ IF Decode(Current) # Refused
     THEN Return(stack, Decode(Current)) /\ UNCHANGED errors
     ELSE Fail(stack) /\ AddError

NotAValue ==
  /\ Read("token")
  /\ ~IsScalar(Current)
  /\ Current.type \notin {"objectBegin", "arrayBegin", "comment"}
  /\ Fail(stack) /\ AddError
  /\ UNCHANGED depth

\* Mutant of EndContainer: the depth is not counted down.
EndContainerDeeper ==
  /\ Return(Pop, Top.value)
  /\ UNCHANGED <<depth, errors>>

\* readObject or readArray returns true to the readValue that called it.
EndContainer ==
  /\ Return(Pop, Top.value)
  /\ depth' = depth - 1
  /\ UNCHANGED errors

-----------------------------------------------------------------------------
(***************************************************************************)
(* readObject.                                                             *)
(***************************************************************************)
\* The end of the object is taken here only while the last name is empty.
ReadName ==
  /\ Read("name")
  /\ \/ /\ Current.type = "objectEnd" /\ Top.key = 0
        /\ EndContainer
     \/ /\ Current.type = "string" /\ Current.str # Bad
        /\ stack' = [stack EXCEPT ![Len(stack)].key = Current.str]
        /\ at' = "colon"
        /\ UNCHANGED <<depth, errors, root, successful>>
     \/ /\ Current.type \notin {"string", "comment"}
        /\ Current.type = "objectEnd" => Top.key # 0
        /\ AddErrorAndRecover
     \/ /\ Current.type = "string" /\ Current.str = Bad
        /\ AddErrorAndRecover

ReadColon ==
  /\ Read("colon")
  /\ IF Current.type = "memberSeparator" THEN Goto("call") ELSE AddErrorAndRecover

ReadComma ==
  /\ Read("comma")
  /\ CASE Current.type = "objectEnd" -> EndContainer
       [] Current.type = "arraySeparator" -> Goto("name")
       [] Current.type = "comment" -> Goto("commented")
       [] OTHER -> AddErrorAndRecover

\* Behind a comment any token but the end of the object separates members.
ReadCommented ==
  /\ Read("commented") /\ Current.type # "comment"
  /\ IF Current.type = "objectEnd" THEN EndContainer ELSE Goto("name")

-----------------------------------------------------------------------------
(***************************************************************************)
(* readArray.                                                              *)
(***************************************************************************)
EmptyArray ==
  /\ Read("first") /\ Current.type = "arrayEnd"
  /\ EndContainer

FirstElement ==
  /\ at = "first" /\ Ahead /\ Current.type # "arrayEnd"
  /\ UNCHANGED document
  /\ Goto("call")

ReadSeparator ==
  /\ Read("separator") /\ Current.type # "comment"
  /\ CASE Current.type = "arrayEnd" -> EndContainer
       [] Current.type = "arraySeparator" ->
            /\ stack' = [stack EXCEPT ![Len(stack)].key = @ + 1]
            /\ at' = "call"
            /\ UNCHANGED <<depth, errors, root, successful>>
       [] OTHER -> AddErrorAndRecover

-----------------------------------------------------------------------------
(***************************************************************************)
(* recoverFromError, and parse.                                            *)
(***************************************************************************)
SkipUntil == IF Top.value.type = "object" THEN "objectEnd" ELSE "arrayEnd"

\* Mutant of Recover: the end of the text does not stop the loop.
RecoverForever ==
  /\ Read("recover")
  /\ IF Current.type = SkipUntil
     THEN Fail(Pop) /\ depth' = depth - 1
     ELSE UNCHANGED <<at, stack, depth, root, successful>>
  /\ UNCHANGED errors

\* readToken always returns true, so the errors are not cut back in the loop.
Recover ==
  /\ Read("recover")
  /\ IF Current.type \in {SkipUntil, "endOfStream"}
     THEN Fail(Pop) /\ depth' = depth - 1
     ELSE UNCHANGED <<at, stack, depth, root, successful>>
  /\ UNCHANGED errors

\* parse skips the comments behind the value, and one token more.
ReadRest ==
  /\ Read("rest") /\ Current.type # "comment"
  /\ Goto("done")

\* What parse sets up before it calls readValue.
Parse ==
  /\ text' = << >> /\ closed' = FALSE /\ pos' = 0
  /\ at' = "call" /\ stack' = << >> /\ depth' = 0 /\ errors' = << >>
  /\ root' = NullValue /\ successful' = FALSE

Step ==
  \/ CallValue \/ ExceedStackLimit
  \/ BeginObject \/ BeginArray \/ ReadScalar \/ NotAValue
  \/ ReadName \/ ReadColon \/ ReadComma \/ ReadCommented
  \/ EmptyArray \/ FirstElement \/ ReadSeparator
  \/ Recover \/ ReadRest
  \/ \E p \in {"token", "name", "commented", "separator", "rest"} : Comment(p)

Tokens == AnyType \cup ScalarToken \cup NameToken

Feed == Close \/ \E t \in Tokens : More(t)

-----------------------------------------------------------------------------
(***************************************************************************)
(* Properties.  The reader takes more than JSON: comments (and behind one  *)
(* any token as a separator), a lone minus sign as 0, and a comma before   *)
(* the end of an object whose last name is empty.  A text is plain if it   *)
(* has none of these.                                                      *)
(***************************************************************************)
IsPlain ==
  \A i \in DOMAIN text :
    /\ text[i].type # "comment"
    /\ text[i].type = "number" => text[i].digits # << >> \/ text[i].real # Plain
    /\ text[i].type = "string" => text[i].str # 0

\* How deep the containers are that the tokens of s leave open.
OpenAt(s) ==
  Cardinality({i \in DOMAIN s : s[i].type \in {"objectBegin", "arrayBegin"}})
    - Cardinality({i \in DOMAIN s : s[i].type \in {"objectEnd", "arrayEnd"}})

\* Only a text that opens stackLimit_g containers at once runs into the limit, not
\* one with many values: readValue counts its depth down again, and parse clears
\* what an earlier exception left in the global counter.
OnlyDeepTextsThrow ==
  at = "thrown" /\ IsPlain => OpenAt(SubSeq(text, 1, pos)) = StackLimit
=============================================================================
