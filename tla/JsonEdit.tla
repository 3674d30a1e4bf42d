------------------------------ MODULE JsonEdit ------------------------------
(***************************************************************************)
(* A Json::Value that is edited by calls of its methods, one call a step   *)
(* (daemon/jsoncpp.cpp, class Value), with its conversions and its         *)
(* elements looked at in every state.  An assertion that fails throws, as  *)
(* the library is built with JSON_USE_EXCEPTION, and leaves what the call  *)
(* did before.                                                             *)
(***************************************************************************)
EXTENDS JsonValue, Sequences

CONSTANTS
  Given,         \* the values that the root may be assigned
  Element,       \* the values that an element or a member may be assigned
  MaxIndex       \* bound: the largest index used

ASSUME GivenAssumption == \A v \in Given : IsValue(v)
ASSUME IndexAssumption == MaxIndex \in Nat

VARIABLES
  value,         \* the value
  thrown         \* whether the last call threw

vars == <<value, thrown>>

Index == 0 .. MaxIndex

TypeOK == IsValue(value) /\ thrown \in BOOLEAN

-----------------------------------------------------------------------------
(***************************************************************************)
(* The calls.                                                              *)
(***************************************************************************)
Init == value = DefaultOf("null") /\ thrown = FALSE

\* The call goes on if its precondition holds, and leaves v.
Call(allowed, v) ==
  /\ thrown' = ~allowed
  /\ value' = IF allowed THEN v ELSE value

Assign(v) == Call(TRUE, v)

SetElement(i, x) == Call(MayIndex(value), Put(value, "array", i, x))

\* operator[] of a value that is not const makes the element.
ReadElement(i) == Call(MayIndex(value), Touch(value, "array", i))

SetMember(k, x) == Call(MayName(value), Put(value, "object", k, x))

ReadMember(k) == Call(MayName(value), Touch(value, "object", k))

AppendElement(x) ==
  /\ Size(value) <= MaxIndex
  /\ Call(MayIndex(value), AppendValue(value, x))

ClearValue == Call(value.type \in {"null", "array", "object"}, Clear(value))

\* The size is compared when the elements are gone.
ResizeArray(n) ==
  IF ~MayIndex(value) THEN Call(FALSE, value)
  ELSE value' = Resize(value, n) /\ thrown' = ResizeFails(value, n)

RemoveAMember(k) == Call(MayName(value), RemoveMember(value, k))

RemoveAnIndex(i) == Call(TRUE, RemoveIndex(value, i))

Next ==
  \/ \E v \in Given : Assign(v)
  \/ \E i \in Index, x \in Element : SetElement(i, x)
  \/ \E i \in Index : ReadElement(i) \/ RemoveAnIndex(i)
  \/ \E k \in Name, x \in Element : SetMember(k, x)
  \/ \E k \in Name : ReadMember(k) \/ RemoveAMember(k)
  \/ \E x \in Element : AppendElement(x)
  \/ ClearValue
  \/ \E n \in 0 .. MaxIndex + 1 : ResizeArray(n)

Spec == Init /\ [][Next]_vars

-----------------------------------------------------------------------------
(***************************************************************************)
(* Properties.                                                             *)
(***************************************************************************)
\* isConvertibleTo is the promise that the conversion does not throw, and does not
\* cast a double out of range either, at every bound of either width.
ConvertibleConverts == ConvertsIfConvertible(value)

\* A value that says it is an integer of some width converts to just that integer,
\* even where the bound of the width is not a double: 2^64 is no UInt64.
IntegersConvertExactly == ConvertsExactly(value)

Elements(v) == [i \in 1 .. Size(v) |-> At(v, i - 1)]

\* t is s, or lacks nulls of s at the end, which it may if s had gaps.
CutTo(s, t, gaps) ==
  /\ Len(t) <= Len(s)
  /\ \A i \in 1 .. Len(t) : t[i] = s[i]
  /\ Len(t) < Len(s) => gaps /\ \A i \in Len(t) + 1 .. Len(s) : s[i] = NullValue

HasGaps(v) == Cardinality(Keys(v)) < Size(v)

RemovesOne(v, i) ==
  CutTo([j \in 1 .. Size(v) - 1 |-> At(v, IF j <= i THEN j - 1 ELSE j)],
        Elements(RemoveIndex(v, i)), HasGaps(v))

ResizesTo(v, n) ==
  /\ CutTo([j \in 1 .. n |-> At(v, j - 1)], Elements(Resize(v, n)), HasGaps(v))
  /\ ResizeFails(v, n) => HasGaps(v)

\* removeIndex takes one element out of the array and moves each one behind it one
\* place forward, and resize cuts the array or fills it up with nulls; only where
\* elements were never stored does the size come out smaller, for resize with a
\* failed assertion.
EditsAsASequence ==
  value.type = "array" =>
    /\ \A i \in Keys(value) : RemovesOne(value, i)
    /\ \A n \in 0 .. MaxIndex + 1 : ResizesTo(value, n)
=============================================================================
