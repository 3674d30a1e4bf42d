----------------------------- MODULE JsonString -----------------------------
(***************************************************************************)
(* The strings of a JSON text and what they decode to, in both directions  *)
(* (daemon/jsoncpp.cpp: decodeString with what it calls, codePointToUTF8,  *)
(* and valueToQuotedStringN of the writers).                               *)
(*                                                                         *)
(* A character is its byte and the class the lexer puts it in.  An escape  *)
(* \uXXXX is the character after the backslash, with the code unit its     *)
(* four digits spell, or Bad if they are not four hexadecimal digits.  The *)
(* letters behind the first of a literal are one character, "rest".        *)
(***************************************************************************)
EXTENDS Integers, Sequences

CONSTANTS Bad

ASSUME BadUnitAssumption == Bad \notin Int

QUOTE == 34
BACKSLASH == 92
SLASH == 47

\* The class of a byte, by the cases of readToken and of what it calls.
ClassOf(b) ==
  CASE b = 0 -> "nul"
    [] b \in {9, 32} -> "blank"
    [] b = 10 -> "newline"
    [] b = 13 -> "return"
    [] b = 34 -> "quote"
    [] b = 42 -> "star"
    [] b = 43 -> "plus"
    [] b = 44 -> "arraySeparator"
    [] b = 45 -> "minus"
    [] b = 46 -> "point"
    [] b = 47 -> "slash"
    [] b \in 48 .. 57 -> "digit"
    [] b = 58 -> "memberSeparator"
    [] b \in {69, 101} -> "exp"
    [] b = 91 -> "arrayBegin"
    [] b = 92 -> "backslash"
    [] b = 93 -> "arrayEnd"
    [] b = 102 -> "false"
    [] b = 110 -> "null"
    [] b = 116 -> "true"
    [] b = 123 -> "objectBegin"
    [] b = 125 -> "objectEnd"
    [] OTHER -> "other"

Raw(b) == [class |-> ClassOf(b), byte |-> b]
Unicode(u) == [class |-> "unicode", unit |-> u]

Refused == [ok |-> FALSE]
Decoded(s) == [ok |-> TRUE, bytes |-> s]

-----------------------------------------------------------------------------
(***************************************************************************)
(* Reading.                                                                *)
(***************************************************************************)
\* Mutant of UTF8: the bound of the two byte form is one too small.
UTF8Short(cp) ==
  CASE cp <= 127 -> <<cp>>
    [] 127 < cp /\ cp < 2047 -> <<192 + (cp \div 64), 128 + (cp % 64)>>
    [] 2047 <= cp /\ cp <= 65535 ->
         <<224 + (cp \div 4096), 128 + ((cp \div 64) % 64), 128 + (cp % 64)>>
    [] OTHER ->
         <<240 + (cp \div 262144), 128 + ((cp \div 4096) % 64),
           128 + ((cp \div 64) % 64), 128 + (cp % 64)>>

\* codePointToUTF8
UTF8(cp) ==
  CASE cp <= 127 -> <<cp>>
    [] 127 < cp /\ cp <= 2047 -> <<192 + (cp \div 64), 128 + (cp % 64)>>
    [] 2047 < cp /\ cp <= 65535 ->
         <<224 + (cp \div 4096), 128 + ((cp \div 64) % 64), 128 + (cp % 64)>>
    [] OTHER ->
         <<240 + (cp \div 262144), 128 + ((cp \div 4096) % 64),
           128 + ((cp \div 64) % 64), 128 + (cp % 64)>>

IsHighSurrogate(u) == 55296 <= u /\ u <= 56319

\* What an escape with one letter stands for.
Escaped ==
  [c \in {QUOTE, SLASH, BACKSLASH, 98, 102, 110, 114, 116} |->
     CASE c = 98 -> 8 [] c = 102 -> 12 [] c = 110 -> 10 [] c = 114 -> 13 [] c = 116 -> 9
       [] c \in {QUOTE, SLASH, BACKSLASH} -> c]

\* An escape of a code unit at place i of s, without its backslash.
UnitAt(s, i) ==
  IF i \in DOMAIN s /\ s[i].class = "unicode" THEN s[i].unit ELSE Bad

\* decodeUnicodeCodePoint: how many characters the escape at i takes, and what it
\* adds.  A high surrogate needs an escape behind it, which need not be a low one.
CodePointAt(s, i) ==
  LET u == UnitAt(s, i)
      second == IF i + 1 \in DOMAIN s /\ s[i + 1] = Raw(BACKSLASH)
                THEN UnitAt(s, i + 2) ELSE Bad
  IN  CASE u = Bad \/ (IsHighSurrogate(u) /\ second = Bad) -> Refused
        [] u # Bad /\ ~IsHighSurrogate(u) -> [ok |-> TRUE, length |-> 1, point |-> u]
        [] OTHER -> [ok |-> TRUE, length |-> 3,
                     point |-> 65536 + (u % 1024) * 1024 + (second % 1024)]

Prepend(s, d) == IF d.ok THEN Decoded(s \o d.bytes) ELSE d

\* decodeString, of the characters between the quotes.
DecodeString(s) ==
  LET from[i \in 1 .. Len(s) + 1] ==
        CASE i = Len(s) + 1 -> Decoded(<< >>)
          [] i <= Len(s) /\ s[i].class = "quote" -> Decoded(<< >>)
          [] i <= Len(s) /\ s[i].class = "backslash" ->
               IF i = Len(s) THEN Refused
               ELSE IF s[i + 1].class = "unicode"
               THEN LET cp == CodePointAt(s, i + 1)
                    IN  IF cp.ok THEN Prepend(UTF8(cp.point), from[i + 1 + cp.length])
                        ELSE Refused
               ELSE IF s[i + 1].byte \in DOMAIN Escaped
               THEN Prepend(<<Escaped[s[i + 1].byte]>>, from[i + 2])
               ELSE Refused
          [] OTHER -> Prepend(<<s[i].byte>>, from[i + 1])
  IN  from[1]

-----------------------------------------------------------------------------
(***************************************************************************)
(* Writing.                                                                *)
(***************************************************************************)
\* The letters of the escapes that are written; a slash is not escaped.
Letter ==
  [b \in {QUOTE, BACKSLASH, 8, 12, 10, 13, 9} |->
     CASE b = 8 -> 98 [] b = 12 -> 102 [] b = 10 -> 110 [] b = 13 -> 114 [] b = 9 -> 116
       [] b \in {QUOTE, BACKSLASH} -> b]

IsControlCharacter(b) == b \in 1 .. 31

\* Mutant of QuotedByte: the backslash is not escaped.
QuotedByteOpen(b) ==
  CASE b \in DOMAIN Letter \ {BACKSLASH} -> <<Raw(BACKSLASH), Raw(Letter[b])>>
    [] b \notin DOMAIN Letter /\ (IsControlCharacter(b) \/ b = 0) ->
         <<Raw(BACKSLASH), Unicode(b)>>
    [] OTHER -> <<Raw(b)>>

QuotedByte(b) ==
  CASE b \in DOMAIN Letter -> <<Raw(BACKSLASH), Raw(Letter[b])>>
    [] b \notin DOMAIN Letter /\ (IsControlCharacter(b) \/ b = 0) ->
         <<Raw(BACKSLASH), Unicode(b)>>
    [] OTHER -> <<Raw(b)>>

\* valueToQuotedStringN, without the quotes around it.
Quoted(bytes) ==
  LET upTo[i \in 0 .. Len(bytes)] ==
        IF i = 0 THEN << >> ELSE upTo[i - 1] \o QuotedByte(bytes[i])
  IN  upTo[Len(bytes)]
=============================================================================
