----------------------------- MODULE JsonWriter -----------------------------
(***************************************************************************)
(* FastWriter::write (daemon/jsoncpp.cpp), the inverse of Json::Reader:    *)
(* the tokens that it writes for a value.                                  *)
(*                                                                         *)
(* A method that calls itself for the elements of a value is a function on *)
(* the values inside of it.                                                *)
(***************************************************************************)
EXTENDS JsonToken

CONSTANT MaxNesting   \* bound: how deep the values are nested

\* The elements of the containers of V.
Inner(V) == UNION {Range(v.map) : v \in {x \in V : IsComplex(x)}}

\* The values of V, and what is in them, at each depth; an element that an array has
\* not stored is a null.
Levels(V) ==
  LET level[d \in 0 .. MaxNesting] ==
        IF d = 0 THEN V \cup {NullValue} ELSE Inner(level[d - 1])
  IN  level

Inside(V) == UNION Range(Levels(V))

\* uintToString: the remainders by ten, from the last digit to the first.
Digits(n) ==
  LET left[k \in 0 .. n + 1] == IF k = 0 THEN n ELSE left[k - 1] \div 10
      length == CHOOSE k \in 1 .. n + 1 : left[k] = 0 /\ (k = 1 \/ left[k - 1] # 0)
  IN  [i \in 1 .. length |-> left[length - i] % 10]

\* Mutant of WrittenNumber: the sign of a negative number is lost.
WrittenNumberUnsigned(n) == NumberToken(FALSE, Digits(IF n < 0 THEN -n ELSE n))

\* valueToString of an integer: the digits of the absolute value behind the sign.
WrittenNumber(n) == NumberToken(n < 0, Digits(IF n < 0 THEN -n ELSE n))

\* valueToString of a double writes no point if there is no fraction.
WrittenDouble(h) == IF h % 2 = 0 THEN WrittenNumber(h \div 2) ELSE DoubleToken(h)

\* The texts of a container's elements, with commas between them, and its end.
Separated(parts, end) ==
  LET n == Len(parts)
      from[i \in 1 .. n] ==
        parts[i] \o (IF i = n THEN <<end>> ELSE <<MarkToken("arraySeparator")>> \o from[i + 1])
  IN  IF n = 0 THEN <<end>> ELSE from[1]

\* writeValue; of a string whose pointer is null it writes nothing.  Every index up to
\* size() is written, null where there is no element.
WriteBy(written, v) ==
  CASE v.type = "null" -> <<MarkToken("null")>>
    [] v.type \in {"int", "uint"} -> <<WrittenNumber(v.num)>>
    [] v.type = "real" -> <<WrittenDouble(v.half)>>
    [] v.type = "string" -> IF v.str = NullPointer THEN << >> ELSE <<StringToken(v.str)>>
    [] v.type = "boolean" -> <<MarkToken(IF v.bool THEN "true" ELSE "false")>>
    [] v.type = "array" ->
         LET parts == [i \in 1 .. Size(v) |-> written[At(v, i - 1)]]
         IN  <<MarkToken("arrayBegin")>> \o Separated(parts, MarkToken("arrayEnd"))
    [] v.type = "object" ->
         LET name == KeysInOrder(v)
             parts == [i \in 1 .. Size(v) |-> <<StringToken(name[i]), MarkToken("memberSeparator")>>
                                                \o written[v.map[name[i]]]]
         IN  <<MarkToken("objectBegin")>> \o Separated(parts, MarkToken("objectEnd"))

Written(v) == LET written[x \in Inside({v})] == WriteBy(written, x) IN written

Write(v) == Written(v)[v]
=============================================================================
