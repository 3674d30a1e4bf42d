------------------------------ MODULE MCReport ------------------------------
(***************************************************************************)
(* The instance of StatReport that TLC checks: integers of 20 values, ints *)
(* of 4, ports of 4, and the names "", "1", "2" and "5", which is port 1   *)
(* again.                                                                  *)
(***************************************************************************)
EXTENDS ReportMeaning

MCName == 0 .. 3
MCAtolOf == [k \in MCName |-> IF k = 3 THEN 5 ELSE k]
MCPort == {1, 2}

BadNumber == [DoubleToken(1) EXCEPT !.real = Bad]

\* 1 is an int, 19 the largest unsigned number, 20 one more, 1.5 a fraction.
MCScalarToken ==
  {NumberToken(FALSE, <<1>>), NumberToken(FALSE, <<1, 9>>), NumberToken(FALSE, <<2, 0>>),
   NumberToken(TRUE, <<3>>), NumberToken(TRUE, << >>), DoubleToken(3), BadNumber,
   MarkToken("true"), MarkToken("null"), StringToken(Bad)}

MCNameToken == {StringToken(k) : k \in MCName} \cup {StringToken(Bad)}
\* What goes on with an object or an array of two members or more.
MCUsualToken ==
  {MarkToken(t) : t \in {"objectEnd", "arrayEnd", "arraySeparator", "memberSeparator"}}
    \cup {StringToken(1), StringToken(3), NumberToken(FALSE, <<1>>), NumberToken(TRUE, <<3>>)}

MCOtherString == StringToken(1)
MCOtherNumber == NumberToken(FALSE, <<1>>)
=============================================================================
