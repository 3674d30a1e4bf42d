----------------------------- MODULE JsonToken -----------------------------
(***************************************************************************)
(* The tokens of Json::Reader (daemon/jsoncpp.cpp) and what a token means. *)
(*                                                                         *)
(* A text is a sequence of tokens.  A string token carries the name it     *)
(* decodes to, or Bad if decodeString refuses it.  A number token carries  *)
(* its sign and its digits; if its text has a point or an exponent, also   *)
(* the double that text spells (in halves), or Bad if operator>> refuses   *)
(* it.  The digits behind a lone minus sign are the empty sequence, and a  *)
(* double is exact.  A misspelt literal, an unknown character, an open     *)
(* comment or an open string is a token of type "error".                   *)
(***************************************************************************)
EXTENDS JsonValue, Sequences

CONSTANTS Bad, Plain

ASSUME BadAssumption == Bad \notin Int /\ Plain \notin Int /\ Bad # Plain

\* TokenType without the two types that carry more, string and number.
Mark ==
  {"endOfStream", "objectBegin", "objectEnd", "arrayBegin", "arrayEnd", "true",
   "false", "null", "arraySeparator", "memberSeparator", "comment", "error"}

MarkToken(t) == [type |-> t]
StringToken(s) == [type |-> "string", str |-> s]
NumberToken(neg, digits) ==
  [type |-> "number", neg |-> neg, digits |-> digits, real |-> Plain]
DoubleToken(h) == [type |-> "number", neg |-> h < 0, digits |-> << >>, real |-> h]

Token ==
  {MarkToken(m) : m \in Mark} \cup {StringToken(s) : s \in Name \cup {Bad}}
    \cup [type : {"number"}, neg : BOOLEAN, digits : Seq(0 .. 9), real : Int \cup {Bad, Plain}]

EndOfStream == MarkToken("endOfStream")

\* The number that decimal digits spell.
Numeral(digits) ==
  LET upTo[i \in 0 .. Len(digits)] ==
        IF i = 0 THEN 0 ELSE 10 * upTo[i - 1] + digits[i]
  IN  upTo[Len(digits)]

Signed(t) == IF t.neg THEN -Numeral(t.digits) ELSE Numeral(t.digits)

Refused == [type |-> "refused"]

\* decodeDouble
DecodeDouble(t) ==
  IF t.real = Plain THEN RealValue(2 * Signed(t))
  ELSE IF t.real = Bad THEN Refused ELSE RealValue(t.real)

maxIntegerValue(t) == IF t.neg THEN maxInt64 + 1 ELSE maxUInt64

\* decodeNumber leaves its loop for decodeDouble at a digit that could take the
\* number past its largest.
Overflows(t) ==
  LET threshold == maxIntegerValue(t) \div 10
  IN  \E i \in DOMAIN t.digits :
        LET value == Numeral(SubSeq(t.digits, 1, i - 1))
        IN  /\ value >= threshold
            /\ \/ value > threshold
               \/ i # Len(t.digits)
               \/ t.digits[i] > maxIntegerValue(t) % 10

\* Mutant of DecodeNumber: an integer wraps where it should become a double.
DecodeNumberWrapped(t) ==
  IF t.real # Plain THEN DecodeDouble(t)
  ELSE IF t.neg THEN IntValue(Signed(t))
  ELSE UIntValue(Numeral(t.digits) % LargeWord)

DecodeNumber(t) ==
  IF t.real # Plain \/ Overflows(t) THEN DecodeDouble(t)
  ELSE IF t.neg \/ Numeral(t.digits) <= maxInt THEN IntValue(Signed(t))
  ELSE UIntValue(Numeral(t.digits))

\* What a token that is a value by itself stands for, or Refused.
Decode(t) ==
  CASE t.type = "true" -> BoolValue(TRUE)
    [] t.type = "false" -> BoolValue(FALSE)
    [] t.type = "null" -> NullValue
    [] t.type = "number" -> DecodeNumber(t)
    [] t.type = "string" -> IF t.str = Bad THEN Refused ELSE StringValue(t.str)

IsScalar(t) == t.type \in {"true", "false", "null", "number", "string"}

-----------------------------------------------------------------------------
\* An integer is kept by its size, and is a double where 64 bits do not hold it.
Fitting(n) ==
  IF n \in minInt64 .. maxInt THEN IntValue(n)
  ELSE IF n \in 0 .. maxUInt64 THEN UIntValue(n)
  ELSE RealValue(2 * n)

\* What a scalar stands for, by its spelling and not by the loop over its digits.
Meaning(t) ==
  IF t.type # "number" THEN Decode(t)
  ELSE IF t.real = Bad THEN Refused
  ELSE IF t.real # Plain THEN RealValue(t.real)
  ELSE Fitting(Signed(t))
=============================================================================
