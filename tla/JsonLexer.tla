----------------------------- MODULE JsonLexer ------------------------------
(***************************************************************************)
(* The lexer of Json::Reader (daemon/jsoncpp.cpp): readToken called until  *)
(* the end of the text, one character a step.  The text is given a         *)
(* character at a time, when the lexer looks at it.                        *)
(***************************************************************************)
EXTENDS JsonString, FiniteSets

CONSTANTS
  StringByte,    \* the bytes offered in a string
  Unit,          \* the code units offered in an escape
  NumberByte,    \* the bytes offered in a number
  CommentByte,   \* the bytes offered in a comment
  TokenByte,     \* the bytes offered elsewhere
  MaxChars,      \* bound: characters of a text
  MaxTokens      \* bound: tokens of a text that is still given more

ASSUME ByteAssumption ==
  /\ StringByte \cup NumberByte \cup CommentByte \cup TokenByte \subseteq 0 .. 255
  /\ \A u \in Unit : u = Bad \/ (u \in Nat /\ u < 65536)

VARIABLES
  text, closed,  \* the characters so far, and whether the text ends there
  current,       \* current_: how many of them are read
  start,         \* token.start_
  at,            \* where the lexer is
  tokens         \* the tokens that were read

vars == <<text, closed, current, start, at, tokens>>

Place ==
  {"space", "literal", "integral", "fraction", "exponent", "power", "string",
   "escaped", "slash", "block", "star", "line", "return", "end"}

Rest == [class |-> "rest", byte |-> 114]

Offered ==
  CASE at = "string" -> {Raw(b) : b \in StringByte}
    [] at = "escaped" -> {Raw(b) : b \in StringByte} \cup {Unicode(u) : u \in Unit}
    [] at = "literal" -> {Rest} \cup {Raw(b) : b \in TokenByte}
    [] at \in {"integral", "fraction", "exponent", "power"} -> {Raw(b) : b \in NumberByte}
    [] at \in {"slash", "block", "star", "line", "return"} -> {Raw(b) : b \in CommentByte}
    [] OTHER -> {Raw(b) : b \in TokenByte}

More(c) ==
  /\ at # "end" /\ current = Len(text) /\ ~closed
  /\ Len(text) < MaxChars /\ Len(tokens) < MaxTokens
  /\ c \in Offered
  /\ text' = Append(text, c)
  /\ UNCHANGED <<closed, current, start, at, tokens>>

Close ==
  /\ at # "end" /\ current = Len(text) /\ ~closed
  /\ closed' = TRUE
  /\ UNCHANGED <<text, current, start, at, tokens>>

AtEnd == current = Len(text) /\ closed

\* The lexer is at p and the class of the character it looks at is in C.
Sees(p, C) == at = p /\ current < Len(text) /\ text[current + 1].class \in C

SeesNot(p, C) == at = p /\ (AtEnd \/ (current < Len(text) /\ text[current + 1].class \notin C))

\* It takes the character and goes on at p.
Take(p) ==
  /\ current' = current + 1 /\ at' = p
  /\ UNCHANGED <<text, closed, start, tokens>>

\* It goes on at p without the character.
Leave(p) ==
  /\ at' = p
  /\ UNCHANGED <<text, closed, current, start, tokens>>

\* Mutant of Emit: the end of the token is one too far.
EmitTooFar(t, from, e) ==
  /\ tokens' = Append(tokens, [type |-> t, from |-> from, to |-> e + 1])
  /\ current' = e /\ at' = "space"
  /\ UNCHANGED <<text, closed, start>>

\* The token ends before place e, and is of type t.
Emit(t, from, e) ==
  /\ tokens' = Append(tokens, [type |-> t, from |-> from, to |-> e])
  /\ current' = e /\ at' = "space"
  /\ UNCHANGED <<text, closed, start>>

\* token.start_ = current_, and the first character is taken.
Begin(p) ==
  /\ start' = current /\ current' = current + 1 /\ at' = p
  /\ UNCHANGED <<text, closed, tokens>>

-----------------------------------------------------------------------------
(***************************************************************************)
(* skipSpaces and readToken.                                               *)
(***************************************************************************)
SkipSpace == Sees("space", {"blank", "newline", "return"}) /\ Take("space")

Single ==
  {"objectBegin", "objectEnd", "arrayBegin", "arrayEnd", "arraySeparator", "memberSeparator"}

ReadSingle ==
  /\ Sees("space", Single)
  /\ Emit(text[current + 1].class, current, current + 1)

\* A NUL byte in the text is an end of stream that is read over.
ReadNul ==
  /\ Sees("space", {"nul"})
  /\ Emit("endOfStream", current, current + 1)

ReadUnknown ==
  /\ Sees("space", {"star", "plus", "point", "backslash", "exp", "other"})
  /\ Emit("error", current, current + 1)

EndOfText ==
  /\ at = "space" /\ AtEnd
  /\ tokens' = Append(tokens, [type |-> "endOfStream", from |-> current, to |-> current])
  /\ at' = "end"
  /\ UNCHANGED <<text, closed, current, start>>

\* Mutant of Match: the character that does not match is taken all the same.
MatchTaking ==
  \/ Sees("literal", {"rest"}) /\ Emit(text[start + 1].class, start, current + 1)
  \/ /\ at = "literal" /\ current < Len(text) /\ text[current + 1].class # "rest"
     /\ tokens' = Append(tokens, [type |-> "error", from |-> start, to |-> current])
     /\ current' = current + 1 /\ at' = "space"
     /\ UNCHANGED <<text, closed, start>>
  \/ at = "literal" /\ AtEnd /\ Emit("error", start, current)

\* match: the letters are taken all together or not at all.
BeginLiteral == Sees("space", {"true", "false", "null"}) /\ Begin("literal")

Match ==
  \/ Sees("literal", {"rest"}) /\ Emit(text[start + 1].class, start, current + 1)
  \/ SeesNot("literal", {"rest"}) /\ Emit("error", start, current)

-----------------------------------------------------------------------------
(***************************************************************************)
(* readNumber.                                                             *)
(***************************************************************************)
BeginNumber == Sees("space", {"digit", "minus"}) /\ Begin("integral")

ReadDigits ==
  \E p \in {"integral", "fraction", "power"} : Sees(p, {"digit"}) /\ Take(p)

ReadPoint == Sees("integral", {"point"}) /\ Take("fraction")

ReadExponent ==
  \E p \in {"integral", "fraction"} : Sees(p, {"exp"}) /\ Take("exponent")

ReadSign == Sees("exponent", {"plus", "minus", "digit"}) /\ Take("power")

EndNumber ==
  /\ \/ SeesNot("integral", {"digit", "point", "exp"})
     \/ SeesNot("fraction", {"digit", "exp"})
     \/ SeesNot("exponent", {"plus", "minus", "digit"})
     \/ SeesNot("power", {"digit"})
  /\ Emit("number", start, current)

-----------------------------------------------------------------------------
(***************************************************************************)
(* readString.                                                             *)
(***************************************************************************)
BeginString == Sees("space", {"quote"}) /\ Begin("string")

ReadInString ==
  \/ at = "string" /\ current < Len(text)
       /\ text[current + 1].class \notin {"quote", "backslash"} /\ Take("string")
  \/ Sees("string", {"backslash"}) /\ Take("escaped")
  \/ at = "escaped" /\ current < Len(text) /\ Take("string")

EndString ==
  \/ Sees("string", {"quote"}) /\ Emit("string", start, current + 1)
  \/ at \in {"string", "escaped"} /\ AtEnd /\ Emit("error", start, current)

-----------------------------------------------------------------------------
(***************************************************************************)
(* readComment.                                                            *)
(***************************************************************************)
BeginComment == Sees("space", {"slash"}) /\ Begin("slash")

\* Mutant of ReadSlash: the star that opens a comment may close it.
ReadSlashClosing ==
  \/ Sees("slash", {"star"}) /\ Take("star")
  \/ Sees("slash", {"slash"}) /\ Take("line")
  \/ at = "slash" /\ current < Len(text)
       /\ text[current + 1].class \notin {"star", "slash"} /\ Emit("error", start, current + 1)
  \/ at = "slash" /\ AtEnd /\ Emit("error", start, current)

ReadSlash ==
  \/ Sees("slash", {"star"}) /\ Take("block")
  \/ Sees("slash", {"slash"}) /\ Take("line")
  \/ at = "slash" /\ current < Len(text)
       /\ text[current + 1].class \notin {"star", "slash"} /\ Emit("error", start, current + 1)
  \/ at = "slash" /\ AtEnd /\ Emit("error", start, current)

\* readCStyleComment
ReadBlock ==
  \/ Sees("block", {"star"}) /\ Take("star")
  \/ at = "block" /\ current < Len(text) /\ text[current + 1].class # "star" /\ Take("block")
  \/ Sees("star", {"slash"}) /\ Emit("comment", start, current + 1)
  \/ SeesNot("star", {"slash"}) /\ Leave("block")
  \/ at = "block" /\ AtEnd /\ Emit("error", start, current)

\* Mutant of ReadLine: a comment at the end of the text is not ended.
ReadLineForever ==
  \/ Sees("line", {"newline"}) /\ Emit("comment", start, current + 1)
  \/ Sees("line", {"return"}) /\ Take("return")
  \/ SeesNot("line", {"newline", "return"}) /\ ~AtEnd /\ Take("line")
  \/ at = "line" /\ AtEnd /\ Leave("line")
  \/ Sees("return", {"newline"}) /\ Emit("comment", start, current + 1)
  \/ SeesNot("return", {"newline"}) /\ Emit("comment", start, current)

\* readCppStyleComment
ReadLine ==
  \/ Sees("line", {"newline"}) /\ Emit("comment", start, current + 1)
  \/ Sees("line", {"return"}) /\ Take("return")
  \/ SeesNot("line", {"newline", "return"}) /\ ~AtEnd /\ Take("line")
  \/ at = "line" /\ AtEnd /\ Emit("comment", start, current)
  \/ Sees("return", {"newline"}) /\ Emit("comment", start, current + 1)
  \/ SeesNot("return", {"newline"}) /\ Emit("comment", start, current)

-----------------------------------------------------------------------------
Init ==
  /\ text = << >> /\ closed = FALSE /\ current = 0 /\ start = 0
  /\ at = "space" /\ tokens = << >>

Step ==
  \/ SkipSpace \/ ReadSingle \/ ReadNul \/ ReadUnknown \/ EndOfText
  \/ BeginLiteral \/ Match
  \/ BeginNumber \/ ReadDigits \/ ReadPoint \/ ReadExponent \/ ReadSign \/ EndNumber
  \/ BeginString \/ ReadInString \/ EndString
  \/ BeginComment \/ ReadSlash \/ ReadBlock \/ ReadLine

Next == Step \/ Close \/ \E c \in Offered : More(c)

Spec == Init /\ [][Next]_vars /\ WF_vars(Next)

-----------------------------------------------------------------------------
(***************************************************************************)
(* Properties.  What each token should look like is said of its text as a  *)
(* whole, without the steps of the lexer.                                  *)
(***************************************************************************)
Character ==
  {Raw(b) : b \in StringByte \cup NumberByte \cup CommentByte \cup TokenByte}
    \cup {Unicode(u) : u \in Unit} \cup {Rest}

TokenType ==
  Single \cup {"true", "false", "null", "number", "string", "comment", "endOfStream", "error"}

Token == [type : TokenType, from : Nat, to : Nat]

TypeOK ==
  /\ text \in Seq(Character) /\ closed \in BOOLEAN /\ at \in Place
  /\ current \in 0 .. Len(text) /\ start \in 0 .. current
  /\ tokens \in Seq(Token)
  /\ \A i \in DOMAIN tokens : tokens[i].from <= tokens[i].to /\ tokens[i].to <= current

Spelling(t) == SubSeq(text, t.from + 1, t.to)

Class(s, i) == IF i \in DOMAIN s THEN s[i].class ELSE "nothing"

Digits(s, i, j) == \A k \in i .. j : Class(s, k) = "digit"

\* -?digits, a point and digits, e and perhaps a sign and digits; no digits are needed.
LooksLikeNumber(s) ==
  \E a \in 1 .. Len(s), b \in 1 .. Len(s) :
    /\ a <= b
    /\ Class(s, 1) \in {"digit", "minus"} /\ Digits(s, 2, a)
    /\ b > a => Class(s, a + 1) = "point" /\ Digits(s, a + 2, b)
    /\ b < Len(s) =>
         /\ Class(s, b + 1) = "exp"
         /\ \/ Digits(s, b + 2, Len(s))
            \/ Class(s, b + 2) \in {"plus", "minus"} /\ Digits(s, b + 3, Len(s))

\* An even number of backslashes stands before place i.
Unescaped(s, i) ==
  LET run == {j \in 1 .. i - 1 : \A k \in j .. i - 1 : Class(s, k) = "backslash"}
  IN  Cardinality(run) % 2 = 0

LooksLikeString(s) ==
  /\ Len(s) >= 2
  /\ {i \in DOMAIN s : Class(s, i) = "quote" /\ Unescaped(s, i)} = {1, Len(s)}

\* The first end of a comment behind its opening is at its end.
LooksLikeComment(s) ==
  \/ /\ Class(s, 1) = "slash" /\ Class(s, 2) = "star"
     /\ {i \in 4 .. Len(s) : Class(s, i - 1) = "star" /\ Class(s, i) = "slash"} = {Len(s)}
  \/ /\ Class(s, 1) = "slash" /\ Class(s, 2) = "slash"
     /\ \A i \in 3 .. Len(s) - 1 :
          \/ Class(s, i) \notin {"newline", "return"}
          \/ Class(s, i) = "return" /\ i + 1 = Len(s) /\ Class(s, i + 1) = "newline"

LooksLike(t) ==
  LET s == Spelling(t)
  IN  CASE t.type = "number" -> LooksLikeNumber(s)
        [] t.type = "string" -> LooksLikeString(s)
        [] t.type = "comment" -> LooksLikeComment(s)
        [] t.type \in {"true", "false", "null"} ->
             Len(s) = 2 /\ Class(s, 1) = t.type /\ Class(s, 2) = "rest"
        [] t.type \in Single -> Len(s) = 1 /\ Class(s, 1) = t.type
        [] t.type = "endOfStream" -> s \in {<< >>, <<Raw(0)>>}
        [] t.type = "error" ->
             ~LooksLikeNumber(s) /\ ~LooksLikeString(s) /\ ~LooksLikeComment(s)

\* Every token is what its characters spell, a quote or the end of a comment that is
\* escaped or overlaps its opening included, and a number ends only where it must.
TokensAreWhatTheySpell ==
  \A i \in DOMAIN tokens :
    LET t == tokens[i]
    IN  /\ LooksLike(t)
        /\ t.type = "number" /\ t.to < Len(text) =>
             ~LooksLikeNumber(Append(Spelling(t), text[t.to + 1]))

\* How far the text has been given to tokens or skipped.
Passed == IF at \in {"space", "end"} THEN current ELSE start

\* The tokens are disjoint and in order, and leave out nothing but blanks.
NothingIsSkipped ==
  \A k \in 1 .. Passed :
    \/ \E i \in DOMAIN tokens :
         /\ tokens[i].from < k /\ k <= tokens[i].to
         /\ \A j \in DOMAIN tokens \ {i} : ~(tokens[j].from < k /\ k <= tokens[j].to)
    \/ /\ text[k].class \in {"blank", "newline", "return"}
       /\ \A i \in DOMAIN tokens : ~(tokens[i].from < k /\ k <= tokens[i].to)

Strings == {i \in DOMAIN tokens : tokens[i].type = "string"}

\* What decodeString makes of a string token.
Content(i) == DecodeString(SubSeq(text, tokens[i].from + 2, tokens[i].to - 1))

\* A string that was read and is written again reads as the same bytes: the escapes
\* of the writer are enough, for quotes, backslashes, controls and NUL bytes.
QuotedReadsBack ==
  \A i \in Strings : Content(i).ok => DecodeString(Quoted(Content(i).bytes)) = Content(i)

\* The code points of UTF-8, read strictly: continuation bytes where the first byte
\* asks for them, and the shortest form.
CodePoints(bytes) ==
  LET Follows(i, n) == \A k \in i + 1 .. i + n : k \in DOMAIN bytes /\ bytes[k] \in 128 .. 191
      Low(k) == bytes[k] - 128
      from[i \in 1 .. Len(bytes) + 1] ==
        IF i = Len(bytes) + 1 THEN << >>
        ELSE CASE bytes[i] < 128 -> <<bytes[i]>> \o from[i + 1]
               [] bytes[i] \in 194 .. 223 /\ Follows(i, 1) ->
                    <<(bytes[i] - 192) * 64 + Low(i + 1)>> \o from[i + 2]
               [] bytes[i] \in 224 .. 239 /\ Follows(i, 2)
                    /\ (bytes[i] - 224) * 64 + Low(i + 1) >= 32 ->
                    <<(bytes[i] - 224) * 4096 + Low(i + 1) * 64 + Low(i + 2)>> \o from[i + 3]
               [] bytes[i] \in 240 .. 244 /\ Follows(i, 3)
                    /\ (bytes[i] - 240) * 64 + Low(i + 1) >= 16 ->
                    <<(bytes[i] - 240) * 262144 + Low(i + 1) * 4096
                        + Low(i + 2) * 64 + Low(i + 3)>> \o from[i + 4]
               [] OTHER -> <<-1>>
  IN  from[1]

IsLowSurrogate(u) == 56320 <= u /\ u <= 57343

\* The code points that the escapes of units u spell in UTF-16.
FromUTF16(u) ==
  CASE Len(u) = 1 -> u
    [] Len(u) = 2 /\ IsHighSurrogate(u[1]) /\ IsLowSurrogate(u[2]) ->
         <<65536 + (u[1] - 55296) * 1024 + (u[2] - 56320)>>
    [] OTHER -> u

\* A string of one or two \u escapes becomes the UTF-8 of the code points that its
\* units are in UTF-16, at each bound of the forms of UTF-8 and of the surrogates.
EscapesKeepCodePoints ==
  \A i \in Strings :
    LET s == SubSeq(text, tokens[i].from + 2, tokens[i].to - 1)
        units == [k \in 1 .. Len(s) \div 2 |-> IF s[2 * k].class = "unicode" THEN s[2 * k].unit ELSE Bad]
    IN  /\ Len(s) \in {2, 4}
        /\ \A k \in 1 .. Len(s) : (s[k].class = "unicode") <=> (k % 2 = 0)
        /\ Bad \notin {units[k] : k \in DOMAIN units}
        /\ \A k \in DOMAIN units :
             /\ IsHighSurrogate(units[k]) =>
                  k + 1 \in DOMAIN units /\ IsLowSurrogate(units[k + 1])
             /\ IsLowSurrogate(units[k]) => k = 2 /\ IsHighSurrogate(units[1])
        => Content(i).ok /\ CodePoints(Content(i).bytes) = FromUTF16(units)

\* readToken comes to the end of every text: an open comment or string does not keep
\* it at the last character.
LexedInTheEnd == <>(at = "end")
=============================================================================
