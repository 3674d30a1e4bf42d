----------------------------- MODULE JsonValue -----------------------------
(***************************************************************************)
(* Class Json::Value of the vendored jsoncpp (daemon/jsoncpp.cpp,          *)
(* daemon/json/json.h), in which the daemon holds a report of ssserver.    *)
(* Operators only.                                                         *)
(*                                                                         *)
(* A value is a record whose field "type" is its ValueType.  The two       *)
(* integer types hold numbers of 64 bits, 0 .. LargeWord - 1 without a     *)
(* sign; Int and UInt are the narrow ones, of IntWord values.  A double is *)
(* given in halves, so that some are not whole.  A string, and a name of a *)
(* member, is its place in the order of memcmp, and 0 is the empty one; a  *)
(* value of string type that was never given a string holds a null         *)
(* pointer.  An array is a map from the indices that have an element:      *)
(* jsoncpp keeps none for those never written.  Comments, offsets and the  *)
(* ownership of strings are left out.                                      *)
(***************************************************************************)
EXTENDS Integers, FiniteSets, Functions

CONSTANTS IntWord, LargeWord, Name

\* The large word has 2^64 values.  With fewer than 20, decodeNumber's threshold
\* for a negative number would be 0, and -00 too large an integer.
ASSUME WidthAssumption ==
  /\ IntWord \in Nat /\ IntWord % 2 = 0 /\ IntWord > 0
  /\ LargeWord \in Nat /\ LargeWord % 2 = 0 /\ LargeWord > 2 * IntWord /\ LargeWord >= 20
ASSUME NameAssumption == Name \subseteq Nat /\ 0 \in Name

\* ValueType, in its order.
TypeRank ==
  [null |-> 0, int |-> 1, uint |-> 2, real |-> 3, string |-> 4, boolean |-> 5,
   array |-> 6, object |-> 7]

ValueType == DOMAIN TypeRank

NullValue  == [type |-> "null"]
IntValue(n) == [type |-> "int", num |-> n]
UIntValue(n) == [type |-> "uint", num |-> n]
RealValue(h) == [type |-> "real", half |-> h]
StringValue(s) == [type |-> "string", str |-> s]
BoolValue(b) == [type |-> "boolean", bool |-> b]
ArrayValue(f) == [type |-> "array", map |-> f]
ObjectValue(f) == [type |-> "object", map |-> f]

\* string_ = 0, which compares less than the empty string.
NullPointer == -1

NoElements == [i \in {} |-> NullValue]

\* Value(ValueType): the value of a type that is constructed by default.
DefaultOf(t) ==
  CASE t = "null" -> NullValue
    [] t = "int" -> IntValue(0)
    [] t = "uint" -> UIntValue(0)
    [] t = "real" -> RealValue(0)
    [] t = "string" -> StringValue(NullPointer)
    [] t = "boolean" -> BoolValue(FALSE)
    [] t = "array" -> ArrayValue(NoElements)
    [] t = "object" -> ObjectValue(NoElements)

minInt == -(IntWord \div 2)
maxInt == IntWord \div 2 - 1
maxUInt == IntWord - 1
minInt64 == -(LargeWord \div 2)
maxInt64 == LargeWord \div 2 - 1
maxUInt64 == LargeWord - 1

IsComplex(v) == v.type \in {"array", "object"}

Keys(v) == DOMAIN v.map

Greatest(S) == CHOOSE k \in S : \A j \in S : j <= k

-----------------------------------------------------------------------------
(***************************************************************************)
(* What kind of number a value is.                                         *)
(***************************************************************************)
IsIntegralReal(v) == v.half % 2 = 0

\* InRange: the bounds are converted to double, where 2^64 - 1 is 2^64 and
\* 2^63 - 1 is 2^63.
InRange(v, min, max) ==
  LET rounded == IF max \in {maxInt64, maxUInt64} THEN max + 1 ELSE max
  IN  2 * min <= v.half /\ v.half <= 2 * rounded

IsInt(v) ==
  \/ v.type = "int" /\ v.num \in minInt .. maxInt
  \/ v.type = "uint" /\ v.num <= maxInt
  \/ v.type = "real" /\ InRange(v, minInt, maxInt) /\ IsIntegralReal(v)

IsUInt(v) ==
  \/ v.type \in {"int", "uint"} /\ v.num \in 0 .. maxUInt
  \/ v.type = "real" /\ InRange(v, 0, maxUInt) /\ IsIntegralReal(v)

IsInt64(v) ==
  \/ v.type = "int"
  \/ v.type = "uint" /\ v.num <= maxInt64
  \/ /\ v.type = "real" /\ IsIntegralReal(v)
     /\ 2 * minInt64 <= v.half /\ v.half < 2 * (maxInt64 + 1)

\* Mutant of IsUInt64: the bound as InRange has it.
IsUInt64Rounded(v) ==
  \/ v.type = "int" /\ v.num >= 0
  \/ v.type = "uint"
  \/ v.type = "real" /\ IsIntegralReal(v) /\ InRange(v, 0, maxUInt64)

IsUInt64(v) ==
  \/ v.type = "int" /\ v.num >= 0
  \/ v.type = "uint"
  \/ /\ v.type = "real" /\ IsIntegralReal(v)
     /\ 0 <= v.half /\ v.half < 2 * (maxUInt64 + 1)

IsIntegral(v) == IsInt64(v) \/ IsUInt64(v)

IsDouble(v) == v.type = "real" \/ IsIntegral(v)

IsNumeric(v) == IsIntegral(v) \/ IsDouble(v)

-----------------------------------------------------------------------------
(***************************************************************************)
(* Conversions.  Their outcome is a number (of halves for AsDouble), an    *)
(* exception, or, when a double is cast to an integer type that does not   *)
(* hold it, undefined.                                                     *)
(***************************************************************************)
Thrown == [is |-> "thrown"]
Undefined == [is |-> "undefined"]
Number(n) == [is |-> "number", num |-> n]

\* A cast drops the fraction.
Whole(h) == IF h >= 0 THEN h \div 2 ELSE -((-h) \div 2)

Cast(v, min, max) ==
  IF Whole(v.half) \in min .. max THEN Number(Whole(v.half)) ELSE Undefined

\* The cases that asInt, asUInt, asInt64 and asUInt64 have in common; fits says
\* whether an integer is let through.
AsInteger(v, fits, min, max) ==
  CASE v.type \in {"int", "uint"} -> IF fits THEN Number(v.num) ELSE Thrown
    [] v.type = "real" -> IF InRange(v, min, max) THEN Cast(v, min, max) ELSE Thrown
    [] v.type = "null" -> Number(0)
    [] v.type = "boolean" -> Number(IF v.bool THEN 1 ELSE 0)
    [] OTHER -> Thrown

AsInt(v) == AsInteger(v, IsInt(v), minInt, maxInt)
AsUInt(v) == AsInteger(v, IsUInt(v), 0, maxUInt)
AsInt64(v) == AsInteger(v, IsInt64(v), minInt64, maxInt64)

\* Mutant of AsUInt64: the range test of the signed type.
AsUInt64Signed(v) == AsInteger(v, IsInt64(v), minInt64, maxInt64)

AsUInt64(v) == AsInteger(v, IsUInt64(v), 0, maxUInt64)

AsDouble(v) ==
  CASE v.type \in {"int", "uint"} -> Number(2 * v.num)
    [] v.type = "real" -> Number(v.half)
    [] v.type = "null" -> Number(0)
    [] v.type = "boolean" -> Number(IF v.bool THEN 2 ELSE 0)
    [] OTHER -> Thrown

AsBool(v) ==
  CASE v.type \in {"int", "uint"} -> Number(IF v.num # 0 THEN 1 ELSE 0)
    [] v.type = "real" -> Number(IF v.half # 0 THEN 1 ELSE 0)
    [] v.type = "null" -> Number(0)
    [] v.type = "boolean" -> Number(IF v.bool THEN 1 ELSE 0)
    [] OTHER -> Thrown

\* asString refuses arrays and objects; the text itself is not needed.
HasString(v) == ~IsComplex(v)

\* Mutant of IsConvertibleTo: only integers are kept from a type that does not
\* hold them.
IsConvertibleToLoosely(v, t) ==
  CASE t = "null" -> v = NullValue
    [] t \in {"int", "uint"} -> v.type = "real" \/ v.type \in {"boolean", "null"}
    [] OTHER -> FALSE

IsConvertibleTo(v, t) ==
  CASE t = "null" ->
         \/ IsNumeric(v) /\ AsDouble(v) = Number(0)
         \/ v \in {BoolValue(FALSE), NullValue, StringValue(0), StringValue(NullPointer)}
         \/ IsComplex(v) /\ Keys(v) = {}
    [] t = "int" ->
         \/ IsInt(v) \/ v.type \in {"boolean", "null"}
         \/ v.type = "real" /\ InRange(v, minInt, maxInt)
    [] t = "uint" ->
         \/ IsUInt(v) \/ v.type \in {"boolean", "null"}
         \/ v.type = "real" /\ InRange(v, 0, maxUInt)
    [] t \in {"real", "boolean"} -> IsNumeric(v) \/ v.type \in {"boolean", "null"}
    [] t = "string" -> IsNumeric(v) \/ v.type \in {"boolean", "null", "string"}
    [] t \in {"array", "object"} -> v.type \in {t, "null"}

-----------------------------------------------------------------------------
(***************************************************************************)
(* What the conversions promise of one value.                              *)
(***************************************************************************)
Scalar ==
  {NullValue} \cup [type : {"boolean"}, bool : BOOLEAN]
    \cup [type : {"int"}, num : minInt64 .. maxInt64]
    \cup [type : {"uint"}, num : 0 .. maxUInt64]
    \cup [type : {"real"}, half : Int]

As(v, t) ==
  CASE t = "int" -> AsInt(v)
    [] t = "uint" -> AsUInt(v)
    [] t = "real" -> AsDouble(v)
    [] t = "boolean" -> AsBool(v)

ConvertsIfConvertible(v) ==
  \A t \in {"int", "uint", "real", "boolean"} :
    IsConvertibleTo(v, t) => As(v, t) \notin {Thrown, Undefined}

\* Twice the number that a numeric value stands for.
Doubled(v) == IF v.type = "real" THEN v.half ELSE 2 * v.num

ConvertsExactly(v) ==
  \A c \in {<<IsInt(v), AsInt(v)>>, <<IsUInt(v), AsUInt(v)>>,
            <<IsInt64(v), AsInt64(v)>>, <<IsUInt64(v), AsUInt64(v)>>} :
    c[1] => c[2].is = "number" /\ 2 * c[2].num = Doubled(v)

\* ObjectValues: elements at finitely many keys.
IsMap(m) ==
  /\ m = [k \in DOMAIN m |-> m[k]]
  /\ DOMAIN m \subseteq Nat /\ IsFiniteSet(DOMAIN m)

\* What a value is made of, but for what is inside of a container.
IsValue(v) ==
  \/ v \in Scalar
  \/ v.type = "string" /\ v = StringValue(v.str)
  \/ v.type \in {"array", "object"} /\ v = [type |-> v.type, map |-> v.map] /\ IsMap(v.map)

-----------------------------------------------------------------------------
(***************************************************************************)
(* Elements of an array and members of an object.  An operator that        *)
(* changes a value gives the value it leaves; a failed precondition throws *)
(* and leaves it as it was.                                                *)
(***************************************************************************)
\* ArrayIndex size(): of an array, the highest index and one.
Size(v) ==
  CASE v.type = "array" -> IF Keys(v) = {} THEN 0 ELSE Greatest(Keys(v)) + 1
    [] v.type = "object" -> Cardinality(Keys(v))
    [] OTHER -> 0

IsEmpty(v) == v.type \in {"null", "array", "object"} /\ Size(v) = 0

\* What the methods that may be called on a null value turn it into.
Become(v, t) == IF v.type = "null" THEN DefaultOf(t) ELSE v

MayIndex(v) == v.type \in {"null", "array"}

MayName(v) == v.type \in {"null", "object"}

Present(v, k) == IsComplex(v) /\ k \in Keys(v)

\* operator[] const, and find: an element that is not there reads as nullRef.
At(v, k) == IF Present(v, k) THEN v.map[k] ELSE NullValue

\* get: nullRef is told apart from a null that was stored.
Get(v, k, default) == IF Present(v, k) THEN v.map[k] ELSE default

IsMember(v, k) == MayName(v) /\ Present(v, k)

IsValidIndex(v, i) == i < Size(v)

\* operator[] and resolveReference: the element is made, null, if it is absent.
Touch(v, t, k) ==
  LET w == Become(v, t)
  IN  IF Present(w, k) THEN w
      ELSE [w EXCEPT !.map = [j \in Keys(w) \cup {k} |->
                                IF j = k THEN NullValue ELSE w.map[j]]]

\* operator[] followed by an assignment through the reference.
Put(v, t, k, x) == [Touch(v, t, k) EXCEPT !.map[k] = x]

AppendValue(v, x) == Put(v, "array", Size(v), x)

Clear(v) == IF IsComplex(v) THEN DefaultOf(v.type) ELSE v

Without(v, K) == [v EXCEPT !.map = Restrict(@, Keys(v) \ K)]

Resize(v, n) ==
  LET w == Become(v, "array")
  IN  CASE n = 0 -> Clear(w)
        [] n > Size(w) -> Touch(w, "array", n - 1)
        [] OTHER -> Without(w, n .. Size(w) - 1)

\* JSON_ASSERT(size() == newSize), when the elements are gone.
ResizeFails(v, n) == Size(Resize(v, n)) # n

RemoveMember(v, k) == IF v.type = "object" THEN Without(v, {k}) ELSE v

\* Mutant of RemoveIndex: the first of the elements behind it is not shifted.
RemoveIndexGap(v, i) ==
  IF v.type # "array" \/ ~Present(v, i) THEN v
  ELSE ArrayValue([j \in {k \in Keys(v) : k < i} \cup i .. Size(v) - 2 |->
                     IF j <= i THEN v.map[j] ELSE At(v, j + 1)])

\* removeIndex: reading the element behind each index makes it.
RemoveIndex(v, i) ==
  IF v.type # "array" \/ ~Present(v, i) THEN v
  ELSE ArrayValue([j \in {k \in Keys(v) : k < i} \cup i .. Size(v) - 2 |->
                     IF j < i THEN v.map[j] ELSE At(v, j + 1)])

\* begin() to end(), and getMemberNames: the keys in their order.
KeysInOrder(v) ==
  IF ~IsComplex(v) THEN << >>
  ELSE [i \in 1 .. Cardinality(Keys(v)) |->
          CHOOSE k \in Keys(v) : Cardinality({j \in Keys(v) : j < k}) = i - 1]

\* ValueIteratorBase::key: a name, or the number of an index.
KeyValue(v, k) == IF v.type = "array" THEN UIntValue(k) ELSE StringValue(k)
=============================================================================
