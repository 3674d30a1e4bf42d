----------------------------- MODULE MCJsonEdit -----------------------------
(***************************************************************************)
(* The instance of JsonEdit that TLC checks: every number of both widths   *)
(* and the doubles around their bounds, and arrays and objects with gaps   *)
(* and nested ones.                                                        *)
(***************************************************************************)
EXTENDS JsonEditText

MCName == {0, 1}

MCElement ==
  {NullValue, IntValue(-1), StringValue(NullPointer), BoolValue(TRUE),
   ArrayValue([i \in {1} |-> IntValue(1)]), ObjectValue([k \in {0} |-> NullValue])}

MCCompared ==
  MCElement
    \cup {DefaultOf(t) : t \in ValueType}
    \cup {StringValue(s) : s \in MCName}
    \cup {IntValue(1), IntValue(2), UIntValue(2), RealValue(1)}
    \cup {ArrayValue([i \in {0, 1} |-> IntValue(i)]), ArrayValue([i \in {0, 2} |-> IntValue(0)]),
          ArrayValue([i \in {0, 1} |-> StringValue(i - 1)]),
          ObjectValue([k \in {1} |-> IntValue(2)]), ObjectValue([k \in {0, 1} |-> RealValue(k)])}

MCGiven ==
  MCCompared
    \cup {IntValue(n) : n \in minInt64 .. maxInt64}
    \cup {UIntValue(n) : n \in 0 .. maxUInt64}
    \cup {RealValue(h) : h \in 2 * minInt64 - 2 .. 2 * maxUInt64 + 3}
=============================================================================
