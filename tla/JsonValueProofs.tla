-------------------------- MODULE JsonValueProofs --------------------------
(***************************************************************************)
(* Theorems about Json::Value, for integers of every width and arrays of   *)
(* every size: its conversions, and what its methods leave of a value.     *)
(***************************************************************************)
EXTENDS JsonGrammar, FiniteSetTheorems, WellFoundedInduction, SequenceTheorems, TLAPS

(***************************************************************************)
(* The bounds of the two widths.                                           *)
(***************************************************************************)
LEMMA Bounds ==
  /\ minInt \in Int /\ maxInt \in Nat /\ maxUInt \in Nat
  /\ minInt64 \in Int /\ maxInt64 \in Nat /\ maxUInt64 \in Nat
  /\ minInt64 < minInt /\ minInt < 0
  /\ maxInt < maxUInt /\ maxUInt < maxInt64 /\ maxInt64 < maxUInt64
BY WidthAssumption DEF minInt, maxInt, maxUInt, minInt64, maxInt64, maxUInt64

(***************************************************************************)
(* A whole double in range is cast to the number it is.                    *)
(***************************************************************************)
LEMMA CastExact ==
  ASSUME NEW v, v.half \in Int, v.half % 2 = 0, NEW min \in Int, NEW max \in Int,
         2 * min <= v.half, v.half <= 2 * max
  PROVE  /\ Cast(v, min, max).is = "number"
         /\ 2 * Cast(v, min, max).num = v.half
<1>1. 2 * Whole(v.half) = v.half /\ Whole(v.half) \in Int
  BY DEF Whole
<1>2. Whole(v.half) \in min .. max
  BY <1>1
<1> QED BY <1>1, <1>2 DEF Cast, Number

(***************************************************************************)
(* A double between the bounds is cast to some number.                     *)
(***************************************************************************)
LEMMA CastDefined ==
  ASSUME NEW v, v.half \in Int, NEW min \in Int, NEW max \in Int,
         min <= 0, 0 <= max, 2 * min <= v.half, v.half <= 2 * max
  PROVE  Cast(v, min, max) = Number(Whole(v.half))
<1>1. Whole(v.half) \in min .. max
  BY DEF Whole
<1> QED BY <1>1 DEF Cast

(***************************************************************************)
(* What AsInteger makes of each type.                                      *)
(***************************************************************************)
LEMMA AsIntegerOf ==
  ASSUME NEW v, NEW fits, NEW min, NEW max
  PROVE  /\ v.type \in {"int", "uint"} /\ fits
            => AsInteger(v, fits, min, max) = Number(v.num)
         /\ v.type = "real" /\ InRange(v, min, max)
            => AsInteger(v, fits, min, max) = Cast(v, min, max)
         /\ v.type = "null" => AsInteger(v, fits, min, max) = Number(0)
         /\ v.type = "boolean"
            => AsInteger(v, fits, min, max) = Number(IF v.bool THEN 1 ELSE 0)
BY DEF AsInteger

LEMMA Apart ==
  /\ \A n : Number(n) \notin {Thrown, Undefined} /\ Number(n).is = "number"
  /\ \A n : Number(n).num = n
<1>1. ASSUME NEW n
      PROVE  Number(n).is = "number" /\ Number(n).num = n
  BY DEF Number
<1>2. Thrown.is = "thrown" /\ Undefined.is = "undefined"
  BY DEF Thrown, Undefined
<1> QED BY <1>1, <1>2

(***************************************************************************)
(* One width: an integer that fits and a whole double in range convert to  *)
(* the number they are.                                                    *)
(***************************************************************************)
LEMMA ExactlyOne ==
  ASSUME NEW v \in Scalar, NEW fits, NEW min \in Int, NEW max \in Int, fits,
         \/ v.type \in {"int", "uint"}
         \/ /\ v.type = "real" /\ v.half % 2 = 0 /\ InRange(v, min, max)
            /\ 2 * min <= v.half /\ v.half <= 2 * max
  PROVE  /\ AsInteger(v, fits, min, max).is = "number"
         /\ 2 * AsInteger(v, fits, min, max).num = Doubled(v)
<1>1. CASE v.type \in {"int", "uint"}
  <2>1. AsInteger(v, fits, min, max) = Number(v.num)
    BY <1>1, AsIntegerOf
  <2>2. Doubled(v) = 2 * v.num
    BY <1>1 DEF Doubled
  <2> QED BY <2>1, <2>2, Apart
<1>2. CASE /\ v.type = "real" /\ v.half % 2 = 0 /\ InRange(v, min, max)
           /\ 2 * min <= v.half /\ v.half <= 2 * max
  <2>1. v.half \in Int
    BY <1>2 DEF Scalar, NullValue
  <2>2. AsInteger(v, fits, min, max) = Cast(v, min, max)
    BY <1>2, AsIntegerOf
  <2>3. Doubled(v) = v.half
    BY <1>2 DEF Doubled
  <2> QED BY <1>2, <2>1, <2>2, <2>3, CastExact
<1> QED BY <1>1, <1>2

-----------------------------------------------------------------------------
(***************************************************************************)
(* A value that says it is an integer of some width converts to just that  *)
(* integer, for all widths and all values: the bound 2^64, which is a      *)
(* double and no UInt64, is kept out (jsoncpp.cpp, isUInt64).              *)
(***************************************************************************)
THEOREM IntegersExact == \A v \in Scalar : ConvertsExactly(v)
<1> SUFFICES ASSUME NEW v \in Scalar PROVE ConvertsExactly(v)
  OBVIOUS
<1>1. v.type = "real" => v.half \in Int
  BY DEF Scalar, NullValue
<1>2. ASSUME NEW min \in Int, NEW max \in Int, v.type = "real", IsIntegralReal(v),
             InRange(v, min, max), max \notin {maxInt64, maxUInt64}
      PROVE  v.half % 2 = 0 /\ 2 * min <= v.half /\ v.half <= 2 * max
  BY <1>2 DEF InRange, IsIntegralReal
<1>3. ASSUME NEW min \in Int, NEW max \in {maxInt64, maxUInt64},
             v.type = "real", IsIntegralReal(v),
             2 * min <= v.half, v.half < 2 * (max + 1)
      PROVE  /\ v.half % 2 = 0 /\ InRange(v, min, max)
             /\ 2 * min <= v.half /\ v.half <= 2 * max
  <2>1. max \in Int
    BY Bounds
  <2>2. v.half \in Int /\ v.half % 2 = 0
    BY <1>1, <1>3 DEF IsIntegralReal
  <2>3. v.half <= 2 * max
    BY <1>3, <2>1, <2>2
  <2>4. InRange(v, min, max)
    BY <1>3, <2>1, <2>2 DEF InRange
  <2> QED BY <1>3, <2>2, <2>3, <2>4
<1>4. ASSUME IsInt(v)
      PROVE  AsInt(v).is = "number" /\ 2 * AsInt(v).num = Doubled(v)
  <2>1. maxInt \notin {maxInt64, maxUInt64} /\ minInt \in Int /\ maxInt \in Int
    BY Bounds
  <2>2. \/ v.type \in {"int", "uint"}
        \/ v.type = "real" /\ InRange(v, minInt, maxInt) /\ IsIntegralReal(v)
    BY <1>4 DEF IsInt
  <2>3. \/ v.type \in {"int", "uint"}
        \/ /\ v.type = "real" /\ v.half % 2 = 0 /\ InRange(v, minInt, maxInt)
           /\ 2 * minInt <= v.half /\ v.half <= 2 * maxInt
    BY <1>2, <2>1, <2>2
  <2> QED BY <1>4, <2>1, <2>3, ExactlyOne DEF AsInt
<1>5. ASSUME IsUInt(v)
      PROVE  AsUInt(v).is = "number" /\ 2 * AsUInt(v).num = Doubled(v)
  <2>1. maxUInt \notin {maxInt64, maxUInt64} /\ 0 \in Int /\ maxUInt \in Int
    BY Bounds
  <2>2. \/ v.type \in {"int", "uint"}
        \/ v.type = "real" /\ InRange(v, 0, maxUInt) /\ IsIntegralReal(v)
    BY <1>5 DEF IsUInt
  <2>3. \/ v.type \in {"int", "uint"}
        \/ /\ v.type = "real" /\ v.half % 2 = 0 /\ InRange(v, 0, maxUInt)
           /\ 2 * 0 <= v.half /\ v.half <= 2 * maxUInt
    BY <1>2, <2>1, <2>2
  <2> QED BY <1>5, <2>1, <2>3, ExactlyOne DEF AsUInt
<1>6. ASSUME IsInt64(v)
      PROVE  AsInt64(v).is = "number" /\ 2 * AsInt64(v).num = Doubled(v)
  <2>1. minInt64 \in Int /\ maxInt64 \in Int
    BY Bounds
  <2>2. \/ v.type \in {"int", "uint"}
        \/ /\ v.type = "real" /\ IsIntegralReal(v)
           /\ 2 * minInt64 <= v.half /\ v.half < 2 * (maxInt64 + 1)
    BY <1>6 DEF IsInt64
  <2>3. \/ v.type \in {"int", "uint"}
        \/ /\ v.type = "real" /\ v.half % 2 = 0 /\ InRange(v, minInt64, maxInt64)
           /\ 2 * minInt64 <= v.half /\ v.half <= 2 * maxInt64
    BY <1>3, <2>1, <2>2
  <2> QED BY <1>6, <2>1, <2>3, ExactlyOne DEF AsInt64
<1>7. ASSUME IsUInt64(v)
      PROVE  AsUInt64(v).is = "number" /\ 2 * AsUInt64(v).num = Doubled(v)
  <2>1. 0 \in Int /\ maxUInt64 \in Int /\ 2 * 0 = 0
    BY Bounds
  <2>2. \/ v.type \in {"int", "uint"}
        \/ /\ v.type = "real" /\ IsIntegralReal(v)
           /\ 0 <= v.half /\ v.half < 2 * (maxUInt64 + 1)
    BY <1>7 DEF IsUInt64
  <2>3. \/ v.type \in {"int", "uint"}
        \/ /\ v.type = "real" /\ v.half % 2 = 0 /\ InRange(v, 0, maxUInt64)
           /\ 2 * 0 <= v.half /\ v.half <= 2 * maxUInt64
    BY <1>3, <2>1, <2>2
  <2> QED BY <1>7, <2>1, <2>3, ExactlyOne DEF AsUInt64
<1> SUFFICES ASSUME NEW c \in {<<IsInt(v), AsInt(v)>>, <<IsUInt(v), AsUInt(v)>>,
                               <<IsInt64(v), AsInt64(v)>>, <<IsUInt64(v), AsUInt64(v)>>},
                    c[1]
             PROVE  c[2].is = "number" /\ 2 * c[2].num = Doubled(v)
  BY Zenon DEF ConvertsExactly
<1>8. CASE c = <<IsInt(v), AsInt(v)>>
  BY <1>4, <1>8
<1>9. CASE c = <<IsUInt(v), AsUInt(v)>>
  BY <1>5, <1>9
<1>10. CASE c = <<IsInt64(v), AsInt64(v)>>
  BY <1>6, <1>10
<1>11. CASE c = <<IsUInt64(v), AsUInt64(v)>>
  BY <1>7, <1>11
<1> QED BY <1>8, <1>9, <1>10, <1>11

-----------------------------------------------------------------------------
(***************************************************************************)
(* isConvertibleTo keeps its word for every scalar: the conversion it      *)
(* allows neither throws nor casts a double to a type that cannot hold it. *)
(***************************************************************************)
THEOREM ConvertibleScalars == \A v \in Scalar : ConvertsIfConvertible(v)
<1> SUFFICES ASSUME NEW v \in Scalar, NEW t \in {"int", "uint", "real", "boolean"},
                    IsConvertibleTo(v, t)
             PROVE  As(v, t) \notin {Thrown, Undefined}
  BY Zenon DEF ConvertsIfConvertible
<1>1. /\ v.type \in {"null", "boolean", "int", "uint", "real"}
      /\ v.type = "real" => v.half \in Int
  BY DEF Scalar, NullValue
\* The narrow widths, whose bounds are doubles.
<1>2. ASSUME NEW fits, NEW min \in Int, NEW max \in Int, min <= 0, 0 <= max,
             max \notin {maxInt64, maxUInt64},
             \/ v.type \in {"int", "uint"} /\ fits
             \/ v.type \in {"boolean", "null"}
             \/ v.type = "real" /\ InRange(v, min, max)
      PROVE  AsInteger(v, fits, min, max) \notin {Thrown, Undefined}
  <2>1. CASE v.type \in {"int", "uint"} /\ fits
    <3>1. AsInteger(v, fits, min, max) = Number(v.num)
      BY <2>1, AsIntegerOf
    <3> QED BY <3>1, Apart
  <2>2. CASE v.type \in {"boolean", "null"}
    BY <2>2, AsIntegerOf, Apart
  <2>3. CASE v.type = "real" /\ InRange(v, min, max)
    <3>1. 2 * min <= v.half /\ v.half <= 2 * max
      BY <1>2, <2>3 DEF InRange
    <3>2. AsInteger(v, fits, min, max) = Number(Whole(v.half))
      BY <1>1, <1>2, <2>3, <3>1, CastDefined, AsIntegerOf
    <3> QED BY <3>2, Apart
  <2> QED BY <1>2, <2>1, <2>2, <2>3
<1>3. CASE t = "int"
  <2>1. As(v, t) = AsInteger(v, IsInt(v), minInt, maxInt)
    BY <1>3 DEF As, AsInt
  <2>2. \/ v.type \in {"int", "uint"} /\ IsInt(v)
        \/ v.type \in {"boolean", "null"}
        \/ v.type = "real" /\ InRange(v, minInt, maxInt)
    BY <1>1, <1>3 DEF IsConvertibleTo, IsInt
  <2>3. /\ minInt \in Int /\ maxInt \in Int /\ minInt <= 0 /\ 0 <= maxInt
        /\ maxInt \notin {maxInt64, maxUInt64}
    BY Bounds
  <2> QED BY <1>2, <2>1, <2>2, <2>3
<1>4. CASE t = "uint"
  <2>1. As(v, t) = AsInteger(v, IsUInt(v), 0, maxUInt)
    BY <1>4 DEF As, AsUInt
  <2>2. \/ v.type \in {"int", "uint"} /\ IsUInt(v)
        \/ v.type \in {"boolean", "null"}
        \/ v.type = "real" /\ InRange(v, 0, maxUInt)
    BY <1>1, <1>4 DEF IsConvertibleTo, IsUInt
  <2>3. maxUInt \in Int /\ 0 <= maxUInt /\ maxUInt \notin {maxInt64, maxUInt64}
    BY Bounds
  <2> QED BY <1>2, <2>1, <2>2, <2>3
<1>5. CASE t = "real"
  <2>1. \E n : AsDouble(v) = Number(n)
    BY <1>1 DEF AsDouble
  <2>2. As(v, t) = AsDouble(v)
    BY <1>5 DEF As
  <2> QED BY <2>1, <2>2, Apart
<1>6. CASE t = "boolean"
  <2>1. \E n : AsBool(v) = Number(n)
    BY <1>1 DEF AsBool
  <2>2. As(v, t) = AsBool(v)
    BY <1>6 DEF As
  <2> QED BY <2>1, <2>2, Apart
<1> QED BY <1>3, <1>4, <1>5, <1>6

-----------------------------------------------------------------------------
(***************************************************************************)
(* Arrays and objects: the keys of what each call leaves.                  *)
(***************************************************************************)
\* A container of type t with the elements of m.
Holding(t, m) == [type |-> t, map |-> m]

(***************************************************************************)
(* A finite set of numbers that is not empty has a greatest one: a set of  *)
(* them without one, least by inclusion, would stay without one when one   *)
(* of its numbers is taken out.                                            *)
(***************************************************************************)
LEMMA GreatestIs ==
  ASSUME NEW S, S \subseteq Nat, IsFiniteSet(S), S # {}
  PROVE  Greatest(S) \in S /\ \A j \in S : j <= Greatest(S)
<1> DEFINE Has(X) == \E k \in X : \A j \in X : j <= k
           T == {X \in SUBSET S : X # {} /\ ~Has(X)}
<1>1. ASSUME T # {} PROVE FALSE
  <2>1. IsWellFoundedOn(StrictSubsetOrdering(S), SUBSET S)
    BY FS_StrictSubsetOrderingWellFounded, FS_FiniteSubsetsOfFinite
  <2>2. PICK X \in T : \A Y \in T : ~(<<Y, X>> \in StrictSubsetOrdering(S))
    <3>1. T \subseteq SUBSET S
      OBVIOUS
    <3> HIDE DEF T
    <3> QED BY <1>1, <2>1, <3>1, WFMin
  <2>3. PICK x \in X : TRUE
    OBVIOUS
  <2> DEFINE Y == X \ {x}
  <2>4. X \in SUBSET S /\ X # {} /\ ~Has(X) /\ x \in Nat /\ \A y \in X : y \in Nat
    BY <2>3
  <2>5. Y # {}
    BY <2>3, <2>4
  <2>6. ~Has(Y)
    <3> SUFFICES ASSUME NEW k \in Y, \A j \in Y : j <= k PROVE FALSE
      OBVIOUS
    <3>1. k \in X /\ k \in Nat
      BY <2>4
    <3>2. CASE x <= k
      <4>1. \A j \in X : j <= k
        BY <3>2
      <4> QED BY <2>4, <3>1, <4>1
    <3>3. CASE ~(x <= k)
      <4>1. \A j \in X : j <= x
        BY <2>4, <3>1, <3>3
      <4> QED BY <2>3, <2>4, <4>1
    <3> QED BY <3>2, <3>3
  <2>7. Y \in T
    BY <2>4, <2>5, <2>6
  <2>8. <<Y, X>> \in StrictSubsetOrdering(S)
    BY <2>3, <2>4 DEF StrictSubsetOrdering
  <2> QED BY <2>2, <2>7, <2>8
<1>2. Has(S)
  BY <1>1
<1> QED BY <1>2 DEF Greatest

(***************************************************************************)
(* The size of an array is that after which it has no element, and before  *)
(* which it has one.                                                       *)
(***************************************************************************)
LEMMA SizeOf ==
  ASSUME NEW m, IsMap(m)
  PROVE  LET n == Size(Holding("array", m))
         IN  /\ n \in Nat
             /\ \A k \in DOMAIN m : k < n
             /\ n > 0 => n - 1 \in DOMAIN m
<1>1. Size(Holding("array", m)) = IF DOMAIN m = {} THEN 0 ELSE Greatest(DOMAIN m) + 1
  BY DEF Size, Holding, Keys
<1>2. CASE DOMAIN m = {}
  BY <1>1, <1>2
<1>3. CASE DOMAIN m # {}
  <2>1. Greatest(DOMAIN m) \in DOMAIN m /\ \A j \in DOMAIN m : j <= Greatest(DOMAIN m)
    BY <1>3, GreatestIs DEF IsMap
  <2>2. DOMAIN m \subseteq Nat
    BY DEF IsMap
  <2> QED BY <1>1, <1>3, <2>1, <2>2
<1> QED BY <1>2, <1>3

LEMMA SizeIs ==
  ASSUME NEW m, IsMap(m), NEW n \in Nat,
         \A k \in DOMAIN m : k < n, n > 0 => n - 1 \in DOMAIN m
  PROVE  Size(Holding("array", m)) = n
<1> DEFINE s == Size(Holding("array", m))
<1>1. s \in Nat /\ (\A k \in DOMAIN m : k < s) /\ (s > 0 => s - 1 \in DOMAIN m)
  BY SizeOf
<1>2. DOMAIN m \subseteq Nat
  BY DEF IsMap
<1> HIDE DEF s
<1>3. ~(s < n)
  <2> SUFFICES ASSUME s < n PROVE FALSE
    OBVIOUS
  <2>1. n - 1 < s
    BY <1>1
  <2> QED BY <1>1, <2>1
<1>4. ~(n < s)
  <2> SUFFICES ASSUME n < s PROVE FALSE
    OBVIOUS
  <2>1. s - 1 < n
    BY <1>1
  <2> QED BY <1>1, <2>1
<1>5. s = n
  BY <1>1, <1>3, <1>4
<1> QED BY <1>5 DEF s

(***************************************************************************)
(* Containers are values, and have the map they hold.                      *)
(***************************************************************************)
LEMMA Held ==
  ASSUME NEW t \in {"array", "object"}, NEW m, IsMap(m)
  PROVE  LET v == Holding(t, m)
         IN  /\ IsValue(v) /\ IsComplex(v) /\ v.type = t /\ v.map = m /\ Keys(v) = DOMAIN m
             /\ \A k : Present(v, k) <=> k \in DOMAIN m
             /\ \A k : At(v, k) = IF k \in DOMAIN m THEN m[k] ELSE NullValue
<1>1. Holding(t, m).type = t /\ Holding(t, m).map = m
  BY DEF Holding
<1>2. IsComplex(Holding(t, m)) /\ Keys(Holding(t, m)) = DOMAIN m
  BY <1>1 DEF IsComplex, Keys
<1>3. \A k : Present(Holding(t, m), k) <=> k \in DOMAIN m
  BY <1>2 DEF Present
<1>4. IsValue(Holding(t, m))
  BY <1>1 DEF IsValue, Holding
<1> QED BY <1>1, <1>2, <1>3, <1>4 DEF At

LEMMA Holds ==
  ASSUME NEW v, IsValue(v), v.type \in {"array", "object"}
  PROVE  v = Holding(v.type, v.map) /\ IsMap(v.map)
<1>1. v \notin Scalar
  BY DEF Scalar, NullValue
<1> QED BY <1>1 DEF IsValue, Holding

LEMMA Nothing ==
  IsMap(NoElements) /\ DOMAIN NoElements = {}
<1>1. DOMAIN NoElements = {} /\ NoElements = [k \in DOMAIN NoElements |-> NoElements[k]]
  BY DEF NoElements
<1> QED BY <1>1, FS_EmptySet DEF IsMap

\* What a method finds when it may be called on a container of type t.
LEMMA Became ==
  ASSUME NEW v, IsValue(v), NEW t \in {"array", "object"}, v.type \in {"null", t}
  PROVE  /\ Become(v, t) = Holding(t, Become(v, t).map)
         /\ IsMap(Become(v, t).map)
<1>1. CASE v.type = "null"
  <2>1. Become(v, t) = Holding(t, NoElements)
    BY <1>1 DEF Become, DefaultOf, ArrayValue, ObjectValue, Holding
  <2>2. Holding(t, NoElements).map = NoElements
    BY DEF Holding
  <2> QED BY <2>1, <2>2, Nothing
<1>2. CASE v.type = t
  <2>1. Become(v, t) = v
    BY <1>2 DEF Become
  <2> QED BY <1>2, <2>1, Holds
<1> QED BY <1>1, <1>2

LEMMA MapOf ==
  ASSUME NEW D, D \subseteq Nat, IsFiniteSet(D), NEW m, m = [k \in D |-> m[k]]
  PROVE  IsMap(m) /\ DOMAIN m = D
BY DEF IsMap

LEMMA MapReplaced ==
  ASSUME NEW t, NEW m, NEW n
  PROVE  [Holding(t, m) EXCEPT !.map = n] = Holding(t, n)
BY DEF Holding

(***************************************************************************)
(* Touch and Put leave an element at the key, and the others as they were. *)
(***************************************************************************)
LEMMA Touched ==
  ASSUME NEW v, IsValue(v), NEW t \in {"array", "object"}, v.type \in {"null", t},
         NEW k \in Nat
  PROVE  LET w == Become(v, t)
             m == [j \in Keys(w) \cup {k} |-> At(w, j)]
         IN  Touch(v, t, k) = Holding(t, m) /\ IsMap(m)
<1> DEFINE w == Become(v, t)
           m == [j \in Keys(w) \cup {k} |-> At(w, j)]
<1>1. w = Holding(t, w.map) /\ IsMap(w.map)
  BY Became
<1>2. /\ Keys(w) = DOMAIN w.map
      /\ Present(w, k) <=> k \in DOMAIN w.map
      /\ \A j : At(w, j) = IF j \in DOMAIN w.map THEN w.map[j] ELSE NullValue
  BY <1>1, Held
<1>3. IsMap(m)
  <2>1. IsFiniteSet(DOMAIN w.map) /\ DOMAIN w.map \subseteq Nat
    BY <1>1 DEF IsMap
  <2>2. IsFiniteSet(DOMAIN w.map \cup {k})
    BY <2>1, FS_AddElement
  <2>3. m = [j \in DOMAIN w.map \cup {k} |-> m[j]]
    BY <1>2
  <2> QED BY <2>1, <2>2, <2>3, MapOf
<1>4. CASE Present(w, k)
  <2>1. m = [j \in DOMAIN w.map |-> w.map[j]]
    BY <1>2, <1>4
  <2>2. m = w.map
    BY <1>1, <2>1 DEF IsMap
  <2>3. Touch(v, t, k) = w
    BY <1>4 DEF Touch
  <2> QED BY <1>1, <1>3, <2>2, <2>3
<1>5. CASE ~Present(w, k)
  <2>1. Touch(v, t, k) = [w EXCEPT !.map = [j \in Keys(w) \cup {k} |->
                                            IF j = k THEN NullValue ELSE w.map[j]]]
    BY <1>5 DEF Touch
  <2>2. [j \in Keys(w) \cup {k} |-> IF j = k THEN NullValue ELSE w.map[j]] = m
    <3>1. \A j \in Keys(w) \cup {k} : (IF j = k THEN NullValue ELSE w.map[j]) = At(w, j)
      BY <1>2, <1>5
    <3> QED BY <3>1
  <2>3. Touch(v, t, k) = [w EXCEPT !.map = m]
    BY <2>1, <2>2
  <2>4. [w EXCEPT !.map = m] = Holding(t, m)
    <3> HIDE DEF m
    <3>1. [Holding(t, w.map) EXCEPT !.map = m] = Holding(t, m)
      BY MapReplaced
    <3> HIDE DEF w
    <3> QED BY <1>1, <3>1, Zenon
  <2> QED BY <1>3, <2>3, <2>4
<1> QED BY <1>4, <1>5

LEMMA PutIsValue ==
  ASSUME NEW v, IsValue(v), NEW t \in {"array", "object"}, v.type \in {"null", t},
         NEW k \in Nat, NEW x
  PROVE  IsValue(Put(v, t, k, x))
<1>1. PICK m : Touch(v, t, k) = Holding(t, m) /\ IsMap(m)
  BY Touched
<1>2. Put(v, t, k, x) = [Holding(t, m) EXCEPT !.map[k] = x]
  BY <1>1, Zenon DEF Put
<1>3. [Holding(t, m) EXCEPT !.map[k] = x] = Holding(t, [m EXCEPT ![k] = x])
  BY DEF Holding
<1>4. IsMap([m EXCEPT ![k] = x])
  <2>1. DOMAIN [m EXCEPT ![k] = x] = DOMAIN m
    BY <1>1 DEF IsMap
  <2>2. [m EXCEPT ![k] = x] = [j \in DOMAIN m |-> [m EXCEPT ![k] = x][j]]
    BY <1>1 DEF IsMap
  <2> QED BY <1>1, <2>1, <2>2 DEF IsMap
<1> QED BY <1>2, <1>3, <1>4, Held

LEMMA WithoutIs ==
  ASSUME NEW t \in {"array", "object"}, NEW m, IsMap(m), NEW K
  PROVE  LET n == [j \in DOMAIN m \ K |-> m[j]]
         IN  Without(Holding(t, m), K) = Holding(t, n) /\ IsMap(n)
<1> DEFINE n == [j \in DOMAIN m \ K |-> m[j]]
<1>1. IsMap(n)
  <2>1. IsFiniteSet(DOMAIN m) /\ DOMAIN m \subseteq Nat
    BY DEF IsMap
  <2>2. IsFiniteSet(DOMAIN m \ K)
    BY <2>1, FS_Subset
  <2> QED BY <2>1, <2>2, MapOf
<1>2. Without(Holding(t, m), K) = Holding(t, n)
  BY Held DEF Without, Restrict, Holding, Keys
<1> QED BY <1>1, <1>2

LEMMA ClearIsValue ==
  ASSUME NEW v, IsValue(v)
  PROVE  IsValue(Clear(v))
<1>1. CASE IsComplex(v)
  <2>1. Clear(v) = Holding(v.type, NoElements) /\ v.type \in {"array", "object"}
    BY <1>1 DEF Clear, IsComplex, DefaultOf, ArrayValue, ObjectValue, Holding
  <2> QED BY <2>1, Nothing, Held
<1>2. CASE ~IsComplex(v)
  BY <1>2 DEF Clear
<1> QED BY <1>1, <1>2

(***************************************************************************)
(* What resize and removeIndex leave of an array.                          *)
(***************************************************************************)
LEMMA Resized ==
  ASSUME NEW v, IsValue(v), v.type \in {"null", "array"}, NEW n \in Nat
  PROVE  LET w == Become(v, "array")
             cut == [j \in {k \in Keys(w) : k < n} |-> w.map[j]]
             grown == [j \in Keys(w) \cup {n - 1} |-> At(w, j)]
         IN  /\ n <= Size(w) => Resize(v, n) = Holding("array", cut) /\ IsMap(cut)
             /\ n > Size(w) => Resize(v, n) = Holding("array", grown) /\ IsMap(grown)
<1> DEFINE w == Become(v, "array")
           m == w.map
           size == Size(w)
           cut == [j \in {k \in Keys(w) : k < n} |-> w.map[j]]
           grown == [j \in Keys(w) \cup {n - 1} |-> At(w, j)]
<1>1. w = Holding("array", m) /\ IsMap(m)
  BY Became
<1>2. /\ w.type = "array" /\ IsValue(w) /\ IsComplex(w)
      /\ Keys(w) = DOMAIN m /\ DOMAIN m \subseteq Nat
  <2> HIDE DEF w
  <2> QED BY <1>1, Held DEF IsMap
<1>3. size \in Nat /\ \A k \in DOMAIN m : k < size
  <2>1. LET s == Size(Holding("array", m))
        IN  s \in Nat /\ \A k \in DOMAIN m : k < s
    <3> HIDE DEF m
    <3> QED BY <1>1, SizeOf
  <2>2. size = Size(Holding("array", m))
    <3> HIDE DEF w
    <3> QED BY <1>1, Zenon
  <2> HIDE DEF size, m
  <2> QED BY <2>1, <2>2
<1>4. CASE n = 0
  <2>1. ~(n > size)
    BY <1>3, <1>4
  <2>2. Resize(v, n) = Clear(w)
    BY <1>4, <2>1 DEF Resize
  <2>3. Clear(w) = Holding("array", NoElements)
    BY <1>2 DEF Clear, DefaultOf, ArrayValue, Holding
  <2>4. {k \in Keys(w) : k < n} = {}
    BY <1>2, <1>4
  <2>5. cut = NoElements
    BY <2>4 DEF NoElements
  <2> QED BY <2>2, <2>3, <2>5, <2>1, Nothing
<1>5. CASE n # 0 /\ n > size
  <2>1. Resize(v, n) = Touch(w, "array", n - 1)
    BY <1>5 DEF Resize
  <2>2. Become(w, "array") = w
    BY <1>2 DEF Become
  <2>3. Touch(w, "array", n - 1) = Holding("array", grown) /\ IsMap(grown)
    <3>1. n - 1 \in Nat
      BY <1>5
    <3>2. LET u == Become(w, "array")
              g == [j \in Keys(u) \cup {n - 1} |-> At(u, j)]
          IN  Touch(w, "array", n - 1) = Holding("array", g) /\ IsMap(g)
      <4> HIDE DEF w
      <4> QED BY <1>2, <3>1, Touched
    <3> HIDE DEF w
    <3> QED BY <2>2, <3>2
  <2>4. ~(n <= size)
    BY <1>3, <1>5
  <2> QED BY <2>1, <2>3, <2>4
<1>6. CASE n # 0 /\ ~(n > size)
  <2>1. Resize(v, n) = Without(w, n .. size - 1)
    BY <1>6 DEF Resize
  <2>2. {k \in Keys(w) : k < n} = DOMAIN m \ (n .. size - 1)
    <3> HIDE DEF m, size
    <3> QED BY <1>2, <1>3
  <2>3. LET g == [j \in DOMAIN m \ (n .. size - 1) |-> m[j]]
        IN  Without(Holding("array", m), n .. size - 1) = Holding("array", g) /\ IsMap(g)
    <3> HIDE DEF m, size
    <3> QED BY <1>1, WithoutIs
  <2>4. Without(w, n .. size - 1) = Without(Holding("array", m), n .. size - 1)
    <3> HIDE DEF w, size
    <3> QED BY <1>1, Zenon
  <2>5. [j \in DOMAIN m \ (n .. size - 1) |-> m[j]] = cut
    BY <2>2
  <2> QED BY <1>6, <2>1, <2>3, <2>4, <2>5
<1> QED BY <1>4, <1>5, <1>6

LEMMA Removed ==
  ASSUME NEW m, IsMap(m), NEW i \in DOMAIN m
  PROVE  LET v == Holding("array", m)
             D == {k \in DOMAIN m : k < i} \cup i .. Size(v) - 2
             n == [j \in D |-> IF j < i THEN At(v, j) ELSE At(v, j + 1)]
         IN  RemoveIndex(v, i) = Holding("array", n) /\ IsMap(n) /\ DOMAIN n = D
<1> DEFINE v == Holding("array", m)
           D == {k \in DOMAIN m : k < i} \cup i .. Size(v) - 2
           n == [j \in D |-> IF j < i THEN At(v, j) ELSE At(v, j + 1)]
<1>1. /\ v.type = "array" /\ v.map = m /\ Keys(v) = DOMAIN m /\ Present(v, i)
      /\ \A j \in DOMAIN m : At(v, j) = m[j]
  BY Held, Zenon
<1>2. Size(v) \in Nat
  BY SizeOf
<1>3. DOMAIN m \subseteq Nat /\ IsFiniteSet(DOMAIN m)
  BY DEF IsMap
<1>4. D \subseteq Nat
  <2> HIDE DEF v
  <2> QED BY <1>2, <1>3
<1>5. IsFiniteSet(D)
  <2>1. IsFiniteSet({k \in DOMAIN m : k < i})
    BY <1>3, FS_Subset
  <2>2. IsFiniteSet(i .. Size(v) - 2)
    <3>1. i \in Int /\ Size(v) - 2 \in Int
      BY <1>2, <1>3
    <3> QED BY <3>1, FS_Interval
  <2> QED BY <2>1, <2>2, FS_Union
<1>6. IsMap(n) /\ DOMAIN n = D
  <2>1. n = [j \in D |-> n[j]]
    OBVIOUS
  <2> HIDE DEF n, D
  <2> QED BY <1>4, <1>5, <2>1, MapOf
<1>7. RemoveIndex(v, i)
        = ArrayValue([j \in D |-> IF j < i THEN v.map[j] ELSE At(v, j + 1)])
  <2> HIDE DEF v
  <2> QED BY <1>1 DEF RemoveIndex
<1>8. [j \in D |-> IF j < i THEN v.map[j] ELSE At(v, j + 1)] = n
  <2> SUFFICES ASSUME NEW j \in D
               PROVE  (IF j < i THEN v.map[j] ELSE At(v, j + 1))
                        = IF j < i THEN At(v, j) ELSE At(v, j + 1)
    BY Zenon
  <2>1. j < i => j \in DOMAIN m
    <3>1. j \in i .. Size(v) - 2 => ~(j < i)
      <4> HIDE DEF v
      <4> QED BY <1>2, <1>3
    <3> HIDE DEF v
    <3> QED BY <3>1
  <2> HIDE DEF v, D
  <2> QED BY <1>1, <2>1
<1> QED BY <1>6, <1>7, <1>8 DEF ArrayValue, Holding

-----------------------------------------------------------------------------
LEMMA ResizeIsValue ==
  ASSUME NEW v, IsValue(v), v.type \in {"null", "array"}, NEW n \in Nat
  PROVE  IsValue(Resize(v, n))
<1>1. Size(Become(v, "array")) \in Nat
  <2>1. PICK m : Become(v, "array") = Holding("array", m) /\ IsMap(m)
    BY Became
  <2> QED BY <2>1, SizeOf
<1>2. n <= Size(Become(v, "array")) \/ n > Size(Become(v, "array"))
  BY <1>1
<1>3. \E m : Resize(v, n) = Holding("array", m) /\ IsMap(m)
  BY <1>2, Resized
<1> QED BY <1>3, Held

LEMMA RemoveIndexIsValue ==
  ASSUME NEW v, IsValue(v), NEW i
  PROVE  IsValue(RemoveIndex(v, i))
<1>1. CASE v.type # "array" \/ ~Present(v, i)
  BY <1>1 DEF RemoveIndex
<1>2. CASE v.type = "array" /\ Present(v, i)
  <2>1. v = Holding("array", v.map) /\ IsMap(v.map)
    BY <1>2, Holds
  <2>2. i \in DOMAIN v.map
    BY <1>2 DEF Present, Keys
  <2>3. \E m : RemoveIndex(Holding("array", v.map), i) = Holding("array", m) /\ IsMap(m)
    BY <2>1, <2>2, Removed
  <2>4. \E m : RemoveIndex(v, i) = Holding("array", m) /\ IsMap(m)
    BY <2>1, <2>3, Zenon
  <2> QED BY <2>4, Held
<1> QED BY <1>1, <1>2

LEMMA RemoveMemberIsValue ==
  ASSUME NEW v, IsValue(v), NEW k
  PROVE  IsValue(RemoveMember(v, k))
<1>1. CASE v.type # "object"
  BY <1>1 DEF RemoveMember
<1>2. CASE v.type = "object"
  <2>1. v = Holding("object", v.map) /\ IsMap(v.map)
    BY <1>2, Holds
  <2>2. \E m : Without(Holding("object", v.map), {k}) = Holding("object", m) /\ IsMap(m)
    BY <2>1, WithoutIs
  <2>3. RemoveMember(v, k) = Without(v, {k})
    BY <1>2 DEF RemoveMember
  <2>4. \E m : RemoveMember(v, k) = Holding("object", m) /\ IsMap(m)
    BY <2>1, <2>2, <2>3, Zenon
  <2> QED BY <2>4, Held
<1> QED BY <1>1, <1>2

LEMMA TouchIsValue ==
  ASSUME NEW v, IsValue(v), NEW t \in {"array", "object"}, v.type \in {"null", t},
         NEW k \in Nat
  PROVE  IsValue(Touch(v, t, k))
<1>1. \E m : Touch(v, t, k) = Holding(t, m) /\ IsMap(m)
  BY Touched
<1> QED BY <1>1, Held

LEMMA SizeInNat ==
  ASSUME NEW v, IsValue(v), v.type \in {"null", "array"}
  PROVE  Size(v) \in Nat
<1>1. CASE v.type = "null"
  BY <1>1 DEF Size
<1>2. CASE v.type = "array"
  <2>1. v = Holding("array", v.map) /\ IsMap(v.map)
    BY <1>2, Holds
  <2>2. Size(Holding("array", v.map)) \in Nat
    BY <2>1, SizeOf
  <2> QED BY <2>1, <2>2, Zenon
<1> QED BY <1>1, <1>2

LEMMA Prefix ==
  ASSUME NEW S, NEW s \in Seq(S), NEW n \in 0 .. Len(s)
  PROVE  /\ DOMAIN SubSeq(s, 1, n) = 1 .. n
         /\ \A i \in 1 .. n : SubSeq(s, 1, n)[i] = s[i]
<1>1. /\ SubSeq(s, 1, n) \in Seq(S) /\ Len(SubSeq(s, 1, n)) = n
      /\ \A i \in 1 .. n : SubSeq(s, 1, n)[i] = s[i]
  BY SubSeqProperties, LenProperties
<1> QED BY <1>1, LenProperties

-----------------------------------------------------------------------------
(***************************************************************************)
(* Numerals: a function that is defined from its value one place before    *)
(* exists, and has only one value at each place, as far as a sequence of   *)
(* digits goes.  Both are shown for the greatest place up to which they    *)
(* hold, which is the last one.                                            *)
(***************************************************************************)
Sums(g, n, a, d) == g = [i \in 0 .. n |-> IF i = 0 THEN 0 ELSE a * g[i - 1] + d[i]]

LEMMA LastPlace ==
  ASSUME NEW n \in Nat, NEW B, B \subseteq 0 .. n, 0 \in B,
         \A k \in B : k < n => k + 1 \in B
  PROVE  n \in B
<1> DEFINE k == Greatest(B)
<1>1. IsFiniteSet(B) /\ B \subseteq Nat /\ B # {}
  <2>1. IsFiniteSet(0 .. n)
    BY FS_Interval
  <2>2. B \in SUBSET (0 .. n)
    OBVIOUS
  <2>3. IsFiniteSet(B)
    BY <2>1, <2>2, FS_Subset
  <2> QED BY <2>3
<1>2. k \in B
  BY <1>1, GreatestIs
<1>3. \A j \in B : j <= k
  BY <1>1, GreatestIs
<1> HIDE DEF k
<1>4. k \in 0 .. n
  BY <1>2
<1>5. ASSUME k < n PROVE FALSE
  <2>1. k + 1 \in B
    BY <1>2, <1>5
  <2>2. k + 1 <= k
    BY <1>3, <2>1
  <2> QED BY <1>4, <2>2
<1>6. k = n
  BY <1>4, <1>5
<1> QED BY <1>2, <1>6

LEMMA SumsExist ==
  ASSUME NEW n \in Nat, NEW a \in {1, 10}, NEW d, \A i \in 1 .. n : d[i] \in Nat
  PROVE  \E g \in [0 .. n -> Nat] : Sums(g, n, a, d)
<1> DEFINE B == {m \in 0 .. n : \E g \in [0 .. m -> Nat] :
                   \A i \in 0 .. m : g[i] = IF i = 0 THEN 0 ELSE a * g[i - 1] + d[i]}
<1>1. 0 \in B
  <2> DEFINE z == [i \in 0 .. 0 |-> 0]
  <2>1. z \in [0 .. 0 -> Nat] /\ z[0] = 0
    OBVIOUS
  <2> HIDE DEF z
  <2>2. \A i \in 0 .. 0 : z[i] = IF i = 0 THEN 0 ELSE a * z[i - 1] + d[i]
    BY <2>1
  <2>3. 0 \in 0 .. n
    OBVIOUS
  <2> QED BY <2>1, <2>2, <2>3
<1>2. ASSUME NEW k \in B, k < n PROVE k + 1 \in B
  <2>1. PICK g \in [0 .. k -> Nat] :
          \A i \in 0 .. k : g[i] = IF i = 0 THEN 0 ELSE a * g[i - 1] + d[i]
    OBVIOUS
  <2> DEFINE sum == a * g[k] + d[k + 1]
             h == [i \in 0 .. k + 1 |-> IF i = k + 1 THEN sum ELSE g[i]]
  <2>2. k \in Nat /\ g[k] \in Nat /\ d[k + 1] \in Nat /\ k + 1 \in 0 .. n
    BY <1>2
  <2>3. sum \in Nat
    BY <2>2
  <2>4. \A i \in 0 .. k + 1 : h[i] = IF i = k + 1 THEN sum ELSE g[i]
    OBVIOUS
  <2>5. h \in [0 .. k + 1 -> Nat]
    BY <2>2, <2>3
  <2>6. ASSUME NEW i \in 0 .. k + 1
        PROVE  h[i] = IF i = 0 THEN 0 ELSE a * h[i - 1] + d[i]
    <3>1. CASE i = k + 1
      <4>1. h[i] = sum /\ h[i - 1] = g[k]
        <5>1. i - 1 = k /\ i - 1 # k + 1 /\ i - 1 \in 0 .. k + 1
          BY <2>2, <3>1
        <5> HIDE DEF h, sum
        <5> QED BY <2>4, <3>1, <5>1
      <4> QED BY <2>2, <3>1, <4>1
    <3>2. CASE i \in 1 .. k
      <4>1. h[i] = g[i] /\ h[i - 1] = g[i - 1]
        <5>1. i # k + 1 /\ i - 1 # k + 1 /\ i - 1 \in 0 .. k + 1
          BY <2>2, <3>2
        <5> HIDE DEF h, sum
        <5> QED BY <2>4, <5>1
      <4>2. g[i] = a * g[i - 1] + d[i]
        BY <2>1, <2>2, <3>2
      <4> QED BY <2>2, <3>2, <4>1, <4>2
    <3>3. CASE i = 0
      BY <2>1, <2>2, <2>4, <3>3
    <3> QED BY <2>2, <3>1, <3>2, <3>3
  <2> QED BY <2>2, <2>5, <2>6
<1>3. n \in B
  <2>1. B \subseteq 0 .. n
    OBVIOUS
  <2> HIDE DEF B
  <2> QED BY <1>1, <1>2, <2>1, LastPlace
<1>4. PICK g \in [0 .. n -> Nat] :
        \A i \in 0 .. n : g[i] = IF i = 0 THEN 0 ELSE a * g[i - 1] + d[i]
  BY <1>3
<1>5. g = [i \in 0 .. n |-> IF i = 0 THEN 0 ELSE a * g[i - 1] + d[i]]
  BY <1>4
<1> QED BY <1>5 DEF Sums

LEMMA SumsAre ==
  ASSUME NEW n \in Nat, NEW d, NEW u \in [0 .. n -> Nat], Sums(u, n, 1, d)
  PROVE  u[0] = 0 /\ \A i \in 1 .. n : u[i] = u[i - 1] + d[i]
<1>1. \A i \in 0 .. n : u[i] = IF i = 0 THEN 0 ELSE 1 * u[i - 1] + d[i]
  BY DEF Sums
<1>2. u[0] = 0
  BY <1>1
<1>3. ASSUME NEW i \in 1 .. n PROVE u[i] = u[i - 1] + d[i]
  <2>1. i \in 0 .. n /\ i # 0 /\ i - 1 \in 0 .. n
    OBVIOUS
  <2>2. u[i] = 1 * u[i - 1] + d[i] /\ u[i - 1] \in Nat
    BY <1>1, <2>1
  <2> QED BY <2>2
<1> QED BY <1>2, <1>3

LEMMA SumsAgree ==
  ASSUME NEW n \in Nat, NEW m \in 0 .. n, NEW a, NEW d, NEW e,
         \A i \in 1 .. m : d[i] = e[i],
         NEW g, Sums(g, n, a, d), NEW h, Sums(h, m, a, e)
  PROVE  h[m] = g[m]
<1> DEFINE B == {i \in 0 .. m : h[i] = g[i]}
<1>1. \A i \in 0 .. n : g[i] = IF i = 0 THEN 0 ELSE a * g[i - 1] + d[i]
  BY DEF Sums
<1>2. \A i \in 0 .. m : h[i] = IF i = 0 THEN 0 ELSE a * h[i - 1] + e[i]
  BY DEF Sums
<1>3. 0 \in B
  BY <1>1, <1>2
<1>4. ASSUME NEW k \in B, k < m PROVE k + 1 \in B
  <2>1. k + 1 \in 1 .. m /\ k + 1 \in 0 .. m /\ k + 1 \in 0 .. n /\ (k + 1) - 1 = k /\ k + 1 # 0
    BY <1>4
  <2>2. g[k + 1] = a * g[k] + d[k + 1] /\ h[k + 1] = a * h[k] + e[k + 1]
    BY <1>1, <1>2, <2>1
  <2> QED BY <2>1, <2>2
<1>5. m \in B
  <2>1. B \subseteq 0 .. m /\ m \in Nat
    OBVIOUS
  <2> HIDE DEF B
  <2> QED BY <1>3, <1>4, <2>1, LastPlace
<1> QED BY <1>5

(***************************************************************************)
(* One digit more than a tenth of the largest number, and two.             *)
(***************************************************************************)
LEMMA OneDigit ==
  ASSUME NEW max \in Nat, NEW th \in Nat, NEW r \in 0 .. 9, max = 10 * th + r,
         NEW a \in Nat, NEW d \in 0 .. 9, NEW b, b = 10 * a + d
  PROVE  /\ a < th \/ (a = th /\ d <= r) => b <= max
         /\ a > th \/ (a = th /\ d > r) => b > max
OBVIOUS

LEMMA TwoDigits ==
  ASSUME NEW max \in Nat, NEW th \in Nat, NEW r \in 0 .. 9, max = 10 * th + r, max >= 10,
         NEW a \in Nat, a >= th, NEW d \in 0 .. 9, NEW e \in 0 .. 9
  PROVE  10 * (10 * a + d) + e > max
<1>1. th >= 1
  OBVIOUS
<1> QED BY <1>1

LEMMA NoSmaller ==
  ASSUME NEW a \in Nat, NEW d \in 0 .. 9, NEW b, b = 10 * a + d
  PROVE  a <= b /\ b \in Nat
OBVIOUS

(***************************************************************************)
(* The numbers that the prefixes of a sequence of digits spell.            *)
(***************************************************************************)
LEMMA NumeralIs ==
  ASSUME NEW s \in Seq(0 .. 9), NEW g, Sums(g, Len(s), 10, s)
  PROVE  Numeral(s) = g[Len(s)]
<1> DEFINE n == Len(s)
           G == CHOOSE h : Sums(h, Len(s), 10, s)
<1>1. Numeral(s) = G[Len(s)]
  BY DEF Numeral, Sums
<1>2. Sums(G, Len(s), 10, s)
  OBVIOUS
<1>3. n \in Nat /\ n \in 0 .. n
  BY LenProperties
<1> HIDE DEF G
<1>4. G[n] = g[n]
  BY <1>2, <1>3, SumsAgree
<1> QED BY <1>1, <1>4

LEMMA DigitsRead ==
  ASSUME NEW s \in Seq(0 .. 9)
  PROVE  \E u \in [0 .. Len(s) -> Nat] :
           /\ u[0] = 0
           /\ \A i \in 1 .. Len(s) : u[i] = 10 * u[i - 1] + s[i]
           /\ \A i \in 0 .. Len(s) : Numeral(SubSeq(s, 1, i)) = u[i]
           /\ Numeral(s) = u[Len(s)]
<1> DEFINE n == Len(s)
<1>1. n \in Nat /\ \A i \in 1 .. n : s[i] \in 0 .. 9
  BY LenProperties, ElementOfSeq
<1>2. \A i \in 1 .. n : s[i] \in Nat
  BY <1>1
<1>3. PICK u \in [0 .. n -> Nat] : Sums(u, n, 10, s)
  <2> HIDE DEF n
  <2> QED BY <1>1, <1>2, SumsExist
<1>4. u[0] = 0 /\ \A i \in 1 .. n : u[i] = 10 * u[i - 1] + s[i]
  <2>1. \A i \in 0 .. n : u[i] = IF i = 0 THEN 0 ELSE 10 * u[i - 1] + s[i]
    BY <1>3 DEF Sums
  <2> HIDE DEF n
  <2> QED BY <1>1, <2>1
<1>5. ASSUME NEW i \in 0 .. n
      PROVE  Numeral(SubSeq(s, 1, i)) = u[i]
  <2> DEFINE t == SubSeq(s, 1, i)
  <2>1. t \in Seq(0 .. 9) /\ Len(t) = i /\ \A j \in 1 .. i : t[j] = s[j]
    BY <1>1, Prefix
  <2>2. \A j \in 1 .. i : t[j] \in Nat
    BY <1>1, <1>2, <2>1
  <2> HIDE DEF t
  <2>3. PICK h \in [0 .. i -> Nat] : Sums(h, i, 10, t)
    <3>1. i \in Nat /\ 10 \in {1, 10}
      BY <1>1
    <3> QED BY <2>2, <3>1, SumsExist
  <2>4. \A j \in 1 .. i : s[j] = t[j]
    BY <2>1
  <2>5. h[i] = u[i]
    BY <1>1, <1>3, <2>3, <2>4, SumsAgree
  <2> QED BY <2>1, <2>3, <2>5, NumeralIs DEF t
<1>6. Numeral(s) = u[n]
  BY <1>3, NumeralIs
<1> QED BY <1>4, <1>5, <1>6

\* u has the numbers that the first digits of s spell.
Spelled(n, s, u) ==
  /\ \A i \in 1 .. n : s[i] \in 0 .. 9
  /\ u \in [0 .. n -> Nat] /\ u[0] = 0
  /\ \A i \in 1 .. n : u[i] = 10 * u[i - 1] + s[i]

LEMMA DigitAt ==
  ASSUME NEW n \in Nat, NEW s, NEW u, Spelled(n, s, u), NEW i \in 1 .. n
  PROVE  /\ u[i] = 10 * u[i - 1] + s[i]
         /\ u[i - 1] \in Nat /\ u[i] \in Nat /\ s[i] \in 0 .. 9
<1>1. i - 1 \in 0 .. n /\ i \in 0 .. n
  OBVIOUS
<1> QED BY <1>1 DEF Spelled

(***************************************************************************)
(* One digit more makes no number smaller.                                 *)
(***************************************************************************)
LEMMA DigitsGrow ==
  ASSUME NEW n \in Nat, NEW s, NEW u, Spelled(n, s, u), NEW i \in 0 .. n
  PROVE  u[i] <= u[n]
<1> DEFINE B == {j \in 0 .. n : j < i} \cup {j \in i .. n : u[i] <= u[j]}
<1>1. 0 \in B /\ B \subseteq 0 .. n
  <2>1. u[0] \in Nat
    BY DEF Spelled
  <2> QED BY <2>1
<1>2. ASSUME NEW k \in B, k < n PROVE k + 1 \in B
  <2>1. k \in Nat /\ k + 1 \in 1 .. n /\ k + 1 \in 0 .. n /\ k \in 0 .. n /\ (k + 1) - 1 = k
    BY <1>2
  <2>2. u[k + 1] = 10 * u[k] + s[k + 1] /\ u[k] \in Nat /\ u[k + 1] \in Nat /\ s[k + 1] \in 0 .. 9
    BY <2>1, DigitAt
  <2>3. u[k] <= u[k + 1]
    BY <2>2, NoSmaller
  <2>4. CASE k + 1 < i
    BY <2>1, <2>4
  <2>5. CASE k + 1 = i
    BY <2>1, <2>2, <2>5
  <2>6. CASE k >= i
    <3>1. u[i] <= u[k]
      BY <2>6
    <3>3. u[i] \in Nat
      BY DEF Spelled
    <3>2. u[i] <= u[k + 1]
      BY <2>2, <2>3, <3>1, <3>3
    <3> QED BY <2>1, <2>6, <3>2
  <2> QED BY <2>1, <2>4, <2>5, <2>6
<1>3. n \in B
  <2> HIDE DEF B
  <2> QED BY <1>1, <1>2, LastPlace
<1> QED BY <1>3

(***************************************************************************)
(* decodeNumber leaves its loop exactly if the number is past its largest: *)
(* the threshold is met before a digit is read, and the last digit that    *)
(* would still fit is told apart (jsoncpp.cpp, decodeNumber).              *)
(***************************************************************************)
Leaves(n, s, u, th, r) ==
  \E i \in 1 .. n : u[i - 1] >= th /\ (u[i - 1] > th \/ i # n \/ s[i] > r)

LEMMA LoopIsExact ==
  ASSUME NEW max \in Nat, NEW th, th = max \div 10, NEW r, r = max % 10,
         NEW n \in Nat, NEW s, NEW u, Spelled(n, s, u)
  PROVE  /\ ~Leaves(n, s, u, th, r) => u[n] <= max
         /\ Leaves(n, s, u, th, r) /\ max >= 10 => u[n] > max
<1>0. th \in Nat /\ r \in 0 .. 9 /\ max = 10 * th + r
  OBVIOUS
<1>1. ASSUME ~Leaves(n, s, u, th, r) PROVE u[n] <= max
  <2>1. CASE n = 0
    <3>1. u[n] = 0
      BY <2>1 DEF Spelled
    <3> QED BY <3>1
  <2>2. CASE n > 0
    <3>1. n \in 1 .. n
      BY <2>2
    <3>2. ~(u[n - 1] >= th /\ (u[n - 1] > th \/ s[n] > r))
      BY <1>1, <3>1 DEF Leaves
    <3>3. u[n] = 10 * u[n - 1] + s[n] /\ u[n - 1] \in Nat /\ s[n] \in 0 .. 9
      BY <3>1, DigitAt
    <3>4. u[n - 1] < th \/ (u[n - 1] = th /\ s[n] <= r)
      BY <1>0, <3>2, <3>3
    <3> QED BY <1>0, <3>3, <3>4, OneDigit
  <2> QED BY <2>1, <2>2
<1>2. ASSUME Leaves(n, s, u, th, r), max >= 10 PROVE u[n] > max
  <2>1. PICK i \in 1 .. n : u[i - 1] >= th /\ (u[i - 1] > th \/ i # n \/ s[i] > r)
    BY <1>2 DEF Leaves
  <2>2. /\ u[i] = 10 * u[i - 1] + s[i] /\ u[i - 1] \in Nat /\ u[i] \in Nat
        /\ s[i] \in 0 .. 9
    BY DigitAt
  <2>3. u[i] <= u[n]
    <3>1. i \in 0 .. n
      OBVIOUS
    <3> QED BY <3>1, DigitsGrow
  <2>4. u[n] \in Nat
    BY DEF Spelled
  <2>5. CASE u[i - 1] > th \/ (u[i - 1] = th /\ s[i] > r)
    <3>1. u[i] > max
      BY <1>0, <2>2, <2>5, OneDigit
    <3> QED BY <2>2, <2>3, <2>4, <3>1
  <2>6. CASE i # n
    <3>1. i + 1 \in 1 .. n /\ i + 1 \in 0 .. n /\ (i + 1) - 1 = i
      BY <2>6
    <3>2. u[i + 1] = 10 * u[i] + s[i + 1] /\ u[i + 1] \in Nat /\ s[i + 1] \in 0 .. 9
      BY <3>1, DigitAt
    <3>3. u[i + 1] <= u[n]
      BY <3>1, DigitsGrow
    <3>4. u[i + 1] = 10 * (10 * u[i - 1] + s[i]) + s[i + 1]
      BY <2>2, <3>2
    <3>5. u[i + 1] > max
      BY <1>0, <1>2, <2>1, <2>2, <3>2, <3>4, TwoDigits
    <3> QED BY <2>4, <3>2, <3>3, <3>5
  <2> QED BY <2>1, <2>2, <2>5, <2>6
<1> QED BY <1>1, <1>2

LEMMA OverflowIsExact ==
  ASSUME NEW t, t.digits \in Seq(0 .. 9), maxIntegerValue(t) \in Nat
  PROVE  /\ Numeral(t.digits) \in Nat
         /\ ~Overflows(t) => Numeral(t.digits) <= maxIntegerValue(t)
         /\ Overflows(t) /\ maxIntegerValue(t) >= 10
              => Numeral(t.digits) > maxIntegerValue(t)
<1> DEFINE s == t.digits
           n == Len(s)
           max == maxIntegerValue(t)
           th == max \div 10
           r == max % 10
<1>1. PICK u \in [0 .. n -> Nat] :
        /\ u[0] = 0
        /\ \A i \in 1 .. n : u[i] = 10 * u[i - 1] + s[i]
        /\ \A i \in 0 .. n : Numeral(SubSeq(s, 1, i)) = u[i]
        /\ Numeral(s) = u[n]
  BY DigitsRead
<1>2. n \in Nat /\ DOMAIN s = 1 .. n /\ \A i \in 1 .. n : s[i] \in 0 .. 9
  BY LenProperties, ElementOfSeq
<1>3. Overflows(t) <=>
        \E i \in 1 .. n : /\ Numeral(SubSeq(s, 1, i - 1)) >= th
                          /\ \/ Numeral(SubSeq(s, 1, i - 1)) > th
                             \/ i # n \/ s[i] > r
  BY <1>2 DEF Overflows
<1>4. max \in Nat /\ th = max \div 10 /\ r = max % 10
  OBVIOUS
<1> HIDE DEF s, n, max, th, r
<1>5. Overflows(t) <=> Leaves(n, s, u, th, r)
  <2>1. \A i \in 1 .. n : i - 1 \in 0 .. n
    BY <1>2
  <2>2. \A i \in 1 .. n : Numeral(SubSeq(s, 1, i - 1)) = u[i - 1]
    BY <1>1, <2>1
  <2> QED BY <1>3, <2>2 DEF Leaves
<1>6. Spelled(n, s, u)
  BY <1>1, <1>2 DEF Spelled
<1>7. /\ ~Overflows(t) => u[n] <= max
      /\ Overflows(t) /\ max >= 10 => u[n] > max
  BY <1>2, <1>4, <1>5, <1>6, LoopIsExact
<1>8. Numeral(s) = u[n] /\ u[n] \in Nat
  BY <1>1, <1>2
<1> QED BY <1>7, <1>8 DEF s, max

(***************************************************************************)
(* A number token is one of sign, digits, and a double or none.            *)
(***************************************************************************)
LEMMA NumberTokenIs ==
  ASSUME NEW t \in Token, t.type = "number"
  PROVE  /\ t.neg \in BOOLEAN /\ t.digits \in Seq(0 .. 9) /\ t.real \in Int \cup {Bad, Plain}
<1>1. t \notin {MarkToken(m) : m \in Mark}
  BY DEF MarkToken, Mark
<1>2. t \notin {StringToken(s) : s \in Name \cup {Bad}}
  BY DEF StringToken
<1> QED BY <1>1, <1>2 DEF Token

LEMMA DecodeNumberIs ==
  ASSUME NEW t \in Token, t.type = "number", t.real = Plain
  PROVE  LET N == Numeral(t.digits)
             most == IF t.neg THEN maxInt64 + 1 ELSE maxUInt64
             v == DecodeNumber(t)
         IN  /\ N \in Nat
             /\ Overflows(t) => v = RealValue(IF t.neg THEN 2 * (-N) ELSE 2 * N)
             /\ ~Overflows(t) =>
                  /\ N <= most
                  /\ t.neg => v = IntValue(-N)
                  /\ ~t.neg => v = IF N <= maxInt THEN IntValue(N) ELSE UIntValue(N)
             /\ Overflows(t) => N > most
<1> DEFINE N == Numeral(t.digits)
           most == IF t.neg THEN maxInt64 + 1 ELSE maxUInt64
<1>1. t.neg \in BOOLEAN /\ t.digits \in Seq(0 .. 9)
  BY NumberTokenIs
<1>2. maxIntegerValue(t) = most /\ most \in Nat /\ most >= 10
  BY <1>1, WidthAssumption, Bounds DEF maxIntegerValue, maxInt64, maxUInt64
<1>3. /\ N \in Nat
      /\ ~Overflows(t) => N <= most
      /\ Overflows(t) => N > most
  BY <1>1, <1>2, OverflowIsExact
<1>4. Signed(t) = IF t.neg THEN -N ELSE N
  BY DEF Signed
<1>5. Overflows(t) => DecodeNumber(t) = RealValue(2 * Signed(t))
  BY DEF DecodeNumber, DecodeDouble
<1>6. ~Overflows(t) =>
        DecodeNumber(t) = IF t.neg \/ N <= maxInt THEN IntValue(Signed(t)) ELSE UIntValue(N)
  BY DEF DecodeNumber
<1> HIDE DEF N, most
<1>7. Overflows(t) => DecodeNumber(t) = RealValue(IF t.neg THEN 2 * (-N) ELSE 2 * N)
  BY <1>4, <1>5
<1>8. ~Overflows(t) =>
        /\ t.neg => DecodeNumber(t) = IntValue(-N)
        /\ ~t.neg => DecodeNumber(t) = IF N <= maxInt THEN IntValue(N) ELSE UIntValue(N)
  BY <1>4, <1>6
<1> QED BY <1>3, <1>7, <1>8 DEF N, most

(***************************************************************************)
(* What decodeNumber makes of a number's digits is what they spell, for    *)
(* every number of digits: the integer of its size where 64 bits hold it,  *)
(* with its sign, and the double from one past the bound on                *)
(* (jsoncpp.cpp, decodeNumber).                                            *)
(***************************************************************************)
THEOREM NumbersDecodeExactly ==
  \A t \in Token : IsScalar(t) => Decode(t) = Meaning(t)
<1> SUFFICES ASSUME NEW t \in Token, IsScalar(t), t.type = "number"
             PROVE  DecodeNumber(t) = Meaning(t)
  <2> SUFFICES ASSUME NEW t \in Token, IsScalar(t) PROVE Decode(t) = Meaning(t)
    OBVIOUS
  <2>1. t.type # "number" => Meaning(t) = Decode(t)
    BY DEF Meaning
  <2>2. t.type = "number" => Decode(t) = DecodeNumber(t)
    BY DEF Decode
  <2> QED BY <2>1, <2>2
<1>1. t.neg \in BOOLEAN /\ t.real \in Int \cup {Bad, Plain}
  BY NumberTokenIs
<1>2. CASE t.real # Plain
  BY <1>2 DEF DecodeNumber, DecodeDouble, Meaning
<1>3. CASE t.real = Plain
  <2> DEFINE N == Numeral(t.digits)
  <2>1. /\ N \in Nat
        /\ Overflows(t) =>
             /\ DecodeNumber(t) = RealValue(IF t.neg THEN 2 * (-N) ELSE 2 * N)
             /\ N > IF t.neg THEN maxInt64 + 1 ELSE maxUInt64
        /\ ~Overflows(t) =>
             /\ N <= IF t.neg THEN maxInt64 + 1 ELSE maxUInt64
             /\ t.neg => DecodeNumber(t) = IntValue(-N)
             /\ ~t.neg => DecodeNumber(t) = IF N <= maxInt THEN IntValue(N) ELSE UIntValue(N)
    BY <1>3, DecodeNumberIs
  <2>2. Meaning(t) =
          IF Signed(t) \in minInt64 .. maxInt THEN IntValue(Signed(t))
          ELSE IF Signed(t) \in 0 .. maxUInt64 THEN UIntValue(Signed(t))
          ELSE RealValue(2 * Signed(t))
    BY <1>3, BadAssumption DEF Meaning, Fitting
  <2>3. Signed(t) = IF t.neg THEN -N ELSE N
    BY DEF Signed
  <2>4. /\ minInt64 = -(maxInt64 + 1) /\ maxInt64 \in Nat /\ maxUInt64 \in Nat /\ maxInt \in Nat
        /\ maxInt < maxUInt64
    BY WidthAssumption, Bounds DEF minInt64, maxInt64
  <2> HIDE DEF N
  <2>5. CASE t.neg
    <3>1. Signed(t) = -N /\ -N <= 0
      BY <2>1, <2>3, <2>5
    <3>2. CASE Overflows(t)
      <4>1. N > maxInt64 + 1 /\ DecodeNumber(t) = RealValue(2 * (-N))
        BY <2>1, <2>5, <3>2
      <4>2. -N \notin minInt64 .. maxInt /\ -N \notin 0 .. maxUInt64
        BY <2>1, <2>4, <4>1
      <4> QED BY <2>2, <3>1, <4>1, <4>2
    <3>3. CASE ~Overflows(t)
      <4>1. N <= maxInt64 + 1 /\ DecodeNumber(t) = IntValue(-N)
        BY <2>1, <2>5, <3>3
      <4>2. -N \in minInt64 .. maxInt
        BY <2>1, <2>4, <4>1
      <4> QED BY <2>2, <3>1, <4>1, <4>2
    <3> QED BY <3>2, <3>3
  <2>6. CASE ~t.neg
    <3>1. Signed(t) = N
      BY <2>1, <2>3, <2>6
    <3>2. CASE Overflows(t)
      <4>1. N > maxUInt64 /\ DecodeNumber(t) = RealValue(2 * N)
        BY <2>1, <2>6, <3>2
      <4>2. N \notin minInt64 .. maxInt /\ N \notin 0 .. maxUInt64
        BY <2>1, <2>4, <4>1
      <4> QED BY <2>2, <3>1, <4>1, <4>2
    <3>3. CASE ~Overflows(t)
      <4>1. N <= maxUInt64 /\ DecodeNumber(t) = IF N <= maxInt THEN IntValue(N) ELSE UIntValue(N)
        BY <2>1, <2>6, <3>3
      <4>2. (N \in minInt64 .. maxInt <=> N <= maxInt) /\ N \in 0 .. maxUInt64
        BY <2>1, <2>4, <4>1
      <4> QED BY <2>2, <3>1, <4>1, <4>2
    <3> QED BY <3>2, <3>3
  <2> QED BY <2>5, <2>6
<1> QED BY <1>2, <1>3

(***************************************************************************)
(* What is decoded is a value, and no container.                           *)
(***************************************************************************)
LEMMA DecodedIsValue ==
  ASSUME NEW t \in Token, IsScalar(t), Decode(t) # Refused
  PROVE  IsValue(Decode(t)) /\ ~IsComplex(Decode(t))
<1>1. ASSUME NEW n \in minInt64 .. maxInt64, Decode(t) = IntValue(n)
      PROVE  IsValue(Decode(t)) /\ ~IsComplex(Decode(t))
  BY <1>1 DEF IsValue, Scalar, IntValue, IsComplex
<1>2. ASSUME NEW n \in 0 .. maxUInt64, Decode(t) = UIntValue(n)
      PROVE  IsValue(Decode(t)) /\ ~IsComplex(Decode(t))
  BY <1>2 DEF IsValue, Scalar, UIntValue, IsComplex
<1>3. ASSUME NEW h \in Int, Decode(t) = RealValue(h)
      PROVE  IsValue(Decode(t)) /\ ~IsComplex(Decode(t))
  BY <1>3 DEF IsValue, Scalar, RealValue, IsComplex
<1>4. CASE t.type = "number" /\ t.real = Plain
  <2> DEFINE N == Numeral(t.digits)
  <2>1. /\ N \in Nat
        /\ Overflows(t) => DecodeNumber(t) = RealValue(IF t.neg THEN 2 * (-N) ELSE 2 * N)
        /\ ~Overflows(t) =>
             /\ N <= IF t.neg THEN maxInt64 + 1 ELSE maxUInt64
             /\ t.neg => DecodeNumber(t) = IntValue(-N)
             /\ ~t.neg => DecodeNumber(t) = IF N <= maxInt THEN IntValue(N) ELSE UIntValue(N)
    BY <1>4, DecodeNumberIs
  <2>2. Decode(t) = DecodeNumber(t) /\ t.neg \in BOOLEAN
    BY <1>4, NumberTokenIs DEF Decode
  <2>3. /\ minInt64 = -(maxInt64 + 1) /\ maxInt64 \in Nat /\ maxUInt64 \in Nat /\ maxInt \in Nat
        /\ maxInt < maxInt64
    BY WidthAssumption, Bounds DEF minInt64, maxInt64
  <2> HIDE DEF N
  <2>4. CASE Overflows(t)
    <3>1. 2 * (-N) \in Int /\ 2 * N \in Int
      BY <2>1
    <3> QED BY <1>3, <2>1, <2>2, <2>4, <3>1
  <2>5. CASE ~Overflows(t) /\ t.neg
    <3>1. -N \in minInt64 .. maxInt64
      BY <2>1, <2>3, <2>5
    <3> QED BY <1>1, <2>1, <2>2, <2>5, <3>1
  <2>6. CASE ~Overflows(t) /\ ~t.neg
    <3>1. N \in 0 .. maxUInt64 /\ (N <= maxInt => N \in minInt64 .. maxInt64)
      BY <2>1, <2>3, <2>6
    <3> QED BY <1>1, <1>2, <2>1, <2>2, <2>6, <3>1
  <2> QED BY <2>4, <2>5, <2>6
<1>5. CASE t.type = "number" /\ t.real # Plain
  <2>1. Decode(t) = IF t.real = Bad THEN Refused ELSE RealValue(t.real)
    BY <1>5 DEF Decode, DecodeNumber, DecodeDouble
  <2>2. t.real \in Int /\ Decode(t) = RealValue(t.real)
    BY <1>5, <2>1, NumberTokenIs
  <2> QED BY <1>3, <2>2
<1>6. CASE t.type \in {"true", "false", "null"}
  <2>1. Decode(t) \in {BoolValue(TRUE), BoolValue(FALSE), NullValue}
    BY <1>6 DEF Decode
  <2>2. CASE Decode(t) = NullValue
    BY <2>2 DEF IsValue, Scalar, NullValue, IsComplex
  <2>3. ASSUME NEW b \in BOOLEAN, Decode(t) = BoolValue(b)
        PROVE  IsValue(Decode(t)) /\ ~IsComplex(Decode(t))
    BY <2>3 DEF IsValue, Scalar, BoolValue, IsComplex
  <2> QED BY <2>1, <2>2, <2>3
<1>7. CASE t.type = "string"
  <2>1. Decode(t) = StringValue(t.str)
    BY <1>7 DEF Decode
  <2> QED BY <2>1 DEF IsValue, StringValue, IsComplex
<1> QED BY <1>4, <1>5, <1>6, <1>7 DEF IsScalar

-----------------------------------------------------------------------------
(***************************************************************************)
(* The keys of a value in their order.                                     *)
(***************************************************************************)
LEMMA LeastIs ==
  ASSUME NEW S, S \subseteq Nat, IsFiniteSet(S), S # {}
  PROVE  \E k \in S : \A j \in S : k <= j
<1> DEFINE m == Greatest(S)
           R == {i \in 0 .. m : m - i \in S}
           r == Greatest(R)
<1>1. m \in S /\ \A j \in S : j <= m
  BY GreatestIs
<1> HIDE DEF m
<1>2. R \subseteq Nat /\ IsFiniteSet(R) /\ R # {}
  <2>1. IsFiniteSet(0 .. m) /\ R \subseteq 0 .. m
    BY <1>1, FS_Interval
  <2>2. IsFiniteSet(R)
    BY <2>1, FS_Subset
  <2>3. 0 \in R
    BY <1>1
  <2> QED BY <2>1, <2>2, <2>3
<1>3. r \in R /\ \A i \in R : i <= r
  <2> HIDE DEF R
  <2> QED BY <1>2, GreatestIs
<1> HIDE DEF r
<1>4. ASSUME NEW j \in S PROVE m - r <= j
  <2>1. j \in Nat /\ j <= m /\ m \in Nat
    BY <1>1
  <2>2. m - j \in R
    BY <2>1
  <2>3. m - j <= r /\ r \in Nat
    BY <1>3, <2>2
  <2> QED BY <2>1, <2>3
<1> QED BY <1>3, <1>4

\* Of a finite set of keys each rank below its size belongs to one of them.
LEMMA KeyOfRank ==
  ASSUME NEW K, K \subseteq Nat, IsFiniteSet(K), NEW r \in Nat, r < Cardinality(K)
  PROVE  \E k \in K : Cardinality({j \in K : j < k}) = r
<1> DEFINE Below(k) == {j \in K : j < k}
           B == {i \in 0 .. r : \E k \in K : Cardinality(Below(k)) = i}
<1>1. Cardinality(K) \in Nat /\ K # {}
  BY FS_CardinalityType, FS_EmptySet
<1>2. 0 \in B
  <2>1. PICK k \in K : \A j \in K : k <= j
    BY <1>1, LeastIs
  <2>2. Below(k) = {}
    <3>1. ASSUME NEW j \in K PROVE ~(j < k)
      <4>1. k <= j /\ k \in Nat /\ j \in Nat
        BY <2>1
      <4> QED BY <4>1
    <3> QED BY <3>1
  <2> QED BY <2>2, FS_EmptySet
<1>3. ASSUME NEW i \in B, i < r PROVE i + 1 \in B
  <2>1. PICK k \in K : Cardinality(Below(k)) = i
    OBVIOUS
  <2> DEFINE A == {j \in K : k < j}
  <2>2. IsFiniteSet(Below(k)) /\ IsFiniteSet(A) /\ k \notin Below(k) /\ k \in Nat
    <3>1. Below(k) \subseteq K /\ A \subseteq K
      OBVIOUS
    <3> QED BY <3>1, FS_Subset
  <2>3. Cardinality(Below(k) \cup {k}) = i + 1
    BY <2>1, <2>2, FS_AddElement
  <2>4. A # {}
    <3>1. A = {} => K = Below(k) \cup {k}
      <4>1. \A j \in K : j < k \/ j = k \/ k < j
        BY <2>2
      <4> QED BY <4>1
    <3> HIDE DEF A, Below
    <3> QED BY <1>3, <2>3, <3>1
  <2>5. PICK l \in A : \A j \in A : l <= j
    <3>1. A \subseteq Nat
      OBVIOUS
    <3> HIDE DEF A
    <3> QED BY <2>2, <2>4, <3>1, LeastIs
  <2>6. Below(l) = Below(k) \cup {k}
    <3>1. ASSUME NEW j \in K PROVE j < l <=> j < k \/ j = k
      <4>1. j \in Nat /\ l \in Nat /\ k \in Nat /\ k < l /\ (k < j => l <= j)
        BY <2>5
      <4> QED BY <4>1
    <3> QED BY <3>1
  <2>7. l \in K /\ i + 1 \in 0 .. r
    BY <1>3
  <2> QED BY <2>3, <2>6, <2>7
<1>4. r \in B
  <2>1. B \subseteq 0 .. r
    OBVIOUS
  <2> HIDE DEF B
  <2> QED BY <1>2, <1>3, <2>1, LastPlace
<1> QED BY <1>4

Rank(K, k) == Cardinality({j \in K : j < k})

LEMMA RankUp ==
  ASSUME NEW K, K \subseteq Nat, IsFiniteSet(K), NEW k \in K
  PROVE  /\ Rank(K, k) \in Nat /\ Rank(K, k) < Cardinality(K)
         /\ \A l \in K : k < l => Rank(K, k) < Rank(K, l)
<1> DEFINE Below(l) == {j \in K : j < l}
<1>1. \A l \in K : IsFiniteSet(Below(l)) /\ Below(l) \subseteq K
  <2>1. \A l \in K : Below(l) \subseteq K
    OBVIOUS
  <2> HIDE DEF Below
  <2> QED BY <2>1, FS_Subset
<1>2. k \notin Below(k) /\ k \in Nat
  OBVIOUS
<1>3. \A l \in K : k < l => Below(k) \cup {k} \subseteq Below(l)
  <2>1. ASSUME NEW l \in K, k < l, NEW j \in Below(k) \cup {k} PROVE j \in Below(l)
    <3>1. j \in Nat /\ k \in Nat /\ l \in Nat /\ j <= k /\ j \in K
      OBVIOUS
    <3>2. j < l
      BY <2>1, <3>1
    <3> QED BY <3>1, <3>2
  <2> QED BY <2>1
<1> DEFINE U == Below(k) \cup {k}
<1>4. Rank(K, k) = Cardinality(Below(k)) /\ \A l \in K : Rank(K, l) = Cardinality(Below(l))
  BY DEF Rank
<1> HIDE DEF Below
<1>5. Rank(K, k) \in Nat /\ Cardinality(U) = Rank(K, k) + 1
  <2>1. Cardinality(Below(k)) \in Nat
    BY <1>1, FS_CardinalityType
  <2>2. Cardinality(U) = Cardinality(Below(k)) + 1
    BY <1>1, <1>2, FS_AddElement
  <2> QED BY <1>4, <2>1, <2>2
<1>6. Cardinality(K) \in Nat /\ Cardinality(U) <= Cardinality(K)
  <2>1. U \subseteq K
    BY <1>1
  <2> HIDE DEF U
  <2> QED BY <2>1, FS_CardinalityType, FS_Subset
<1>7. ASSUME NEW l \in K, k < l PROVE Rank(K, k) < Rank(K, l)
  <2>1. U \subseteq Below(l)
    BY <1>3, <1>7
  <2>2. Cardinality(Below(l)) \in Nat
    BY <1>1, FS_CardinalityType
  <2> HIDE DEF U
  <2>3. Cardinality(U) <= Cardinality(Below(l))
    BY <1>1, <2>1, FS_Subset
  <2>4. Rank(K, l) = Cardinality(Below(l))
    BY <1>4
  <2> QED BY <1>5, <2>2, <2>3, <2>4
<1> HIDE DEF U
<1>8. Rank(K, k) < Cardinality(K)
  BY <1>5, <1>6
<1> QED BY <1>5, <1>7, <1>8

\* Each key comes once.
LEMMA KeysOrdered ==
  ASSUME NEW v, IsValue(v), IsComplex(v)
  PROVE  /\ Len(KeysInOrder(v)) \in Nat /\ IsFiniteSet(Keys(v))
         /\ \A i \in 1 .. Len(KeysInOrder(v)) : KeysInOrder(v)[i] \in Keys(v)
         /\ \A i, j \in 1 .. Len(KeysInOrder(v)) : KeysInOrder(v)[i] = KeysInOrder(v)[j] => i = j
         /\ \A k \in Keys(v) : \E i \in 1 .. Len(KeysInOrder(v)) : KeysInOrder(v)[i] = k
<1> DEFINE K == Keys(v)
           n == Cardinality(K)
           o == [i \in 1 .. n |-> CHOOSE k \in K : Rank(K, k) = i - 1]
<1>1. K \subseteq Nat /\ IsFiniteSet(K)
  BY DEF IsComplex, IsValue, IsMap, Keys, Scalar, NullValue
<1>2. KeysInOrder(v) = o
  BY Zenon DEF KeysInOrder, Rank
<1> HIDE DEF K
<1>3. n \in Nat
  BY <1>1, FS_CardinalityType
<1>4. ASSUME NEW i \in 1 .. n PROVE o[i] \in K /\ Rank(K, o[i]) = i - 1
  <2>1. i - 1 \in Nat /\ i - 1 < n
    BY <1>3
  <2>2. \E k \in K : Rank(K, k) = i - 1
    BY <1>1, <2>1, KeyOfRank DEF Rank
  <2>3. o[i] = CHOOSE k \in K : Rank(K, k) = i - 1
    OBVIOUS
  <2> HIDE DEF o
  <2> QED BY <2>2, <2>3
<1>5. Len(o) = n
  BY <1>3
<1> HIDE DEF n, o
<1>6. ASSUME NEW i \in 1 .. n, NEW j \in 1 .. n, o[i] = o[j] PROVE i = j
  <2>1. i - 1 = j - 1
    BY <1>4, <1>6
  <2> QED BY <1>3, <2>1
<1>7. ASSUME NEW k \in K PROVE \E i \in 1 .. n : o[i] = k
  <2> DEFINE r == Rank(K, k)
             i == r + 1
  <2>1. r \in Nat /\ r < n
    BY <1>1, RankUp DEF n
  <2>2. i \in 1 .. n /\ i - 1 = r
    <3> HIDE DEF r
    <3> QED BY <1>3, <2>1
  <2>3. o[i] \in K /\ Rank(K, o[i]) = r
    <3> HIDE DEF r, i
    <3> QED BY <1>4, <2>2
  <2>4. o[i] = k
    <3>1. PICK l \in K : l = o[i]
      BY <2>3
    <3>2. ~(k < l) /\ ~(l < k)
      <4>1. Rank(K, l) = Rank(K, k) /\ Rank(K, k) \in Nat
        BY <2>1, <2>3, <3>1
      <4>2. k < l => Rank(K, k) < Rank(K, l)
        BY <1>1, RankUp
      <4>3. l < k => Rank(K, l) < Rank(K, k)
        BY <1>1, RankUp
      <4> QED BY <4>1, <4>2, <4>3
    <3>3. k \in Nat /\ l \in Nat
      BY <1>1
    <3>4. k = l
      BY <3>2, <3>3
    <3> QED BY <3>1, <3>4
  <2> QED BY <2>2, <2>4
<1> QED BY <1>1, <1>2, <1>3, <1>4, <1>5, <1>6, <1>7 DEF K

-----------------------------------------------------------------------------
\* A text, whatever its tokens are.
IsText(t) == t \in Seq(Range(t))

\* A phrase at i of a text of n tokens ends behind i, and not behind the text.
Ends(p, i, n) == p.ok => p.next \in i + 1 .. n + 1

IsMapping(m) == m = [k \in DOMAIN m |-> m[k]]

PhrasesEnd(g, i, n) ==
  /\ Ends(g[i].value, i, n) /\ Ends(g[i].elements, i, n) /\ Ends(g[i].members, i, n)
  /\ g[i].elements.ok => g[i].elements.value \in Seq(Range(g[i].elements.value))
  /\ g[i].members.ok => IsMapping(g[i].members.value)

LEMMA NoPhrase == ~None.ok /\ \A i, n : Ends(None, i, n)
BY DEF None, Ends

LEMMA PhraseIs ==
  ASSUME NEW v, NEW i
  PROVE  Parsed(v, i).ok /\ Parsed(v, i).value = v /\ Parsed(v, i).next = i
BY DEF Parsed

LEMMA PhraseEnds ==
  ASSUME NEW v, NEW i \in Int, NEW j \in Int, NEW n \in Int, j \in i + 1 .. n + 1
  PROVE  Ends(Parsed(v, j), i, n)
BY PhraseIs DEF Ends

LEMMA TypeInside ==
  ASSUME NEW t, IsText(t), NEW i, TypeAt(t, i) # "endOfStream"
  PROVE  i \in 1 .. Len(t)
BY LenProperties DEF TypeAt, IsText

LEMMA Joined ==
  ASSUME NEW v, NEW s, s \in Seq(Range(s))
  PROVE  /\ <<v>> \o s \in Seq(Range(<<v>> \o s))
         /\ Len(<<v>> \o s) = Len(s) + 1
         /\ (<<v>> \o s)[1] = v
         /\ \A k \in 1 .. Len(s) : (<<v>> \o s)[k + 1] = s[k]
<1> DEFINE S == Range(s) \cup {v}
<1>1. s \in Seq(S) /\ <<v>> \in Seq(S) /\ Len(<<v>>) = 1 /\ <<v>>[1] = v
  BY SeqMonotonic
<1> HIDE DEF S
<1>2. Len(s) \in Nat
  BY LenProperties
<1> DEFINE u == <<v>>
           w == u \o s
<1>3. u \in Seq(S) /\ Len(u) = 1 /\ u[1] = v
  BY <1>1
<1> HIDE DEF u
<1>4. /\ w \in Seq(S) /\ Len(w) = Len(u) + Len(s)
      /\ \A i \in 1 .. Len(u) + Len(s) : w[i] = IF i <= Len(u) THEN u[i] ELSE s[i - Len(u)]
  BY <1>1, <1>3, ConcatProperties
<1> HIDE DEF w
<1>5. w \in Seq(Range(w))
  BY <1>4, SeqOfRange
<1>6. Len(w) = Len(s) + 1 /\ w[1] = v
  BY <1>2, <1>3, <1>4
<1>7. \A k \in 1 .. Len(s) : w[k + 1] = s[k]
  <2>1. ASSUME NEW k \in 1 .. Len(s) PROVE w[k + 1] = s[k]
    <3>1. k + 1 \in 1 .. Len(u) + Len(s) /\ ~(k + 1 <= Len(u)) /\ (k + 1) - Len(u) = k
      BY <1>2, <1>3
    <3> QED BY <1>4, <3>1
  <2> QED BY <2>1
<1> QED BY <1>5, <1>6, <1>7 DEF u, w

(***************************************************************************)
(* What is behind a place decides its phrases.                             *)
(***************************************************************************)
\* g tells the phrases of t at the places from m on.
Tells(t, g, m) ==
  /\ \A i \in m .. Len(t) + 1 : g[i] = PhrasesAt(t, g, i)
  /\ \A i \in m .. Len(t) + 1 : PhrasesEnd(g, i, Len(t))

\* g and h tell the same behind i, and phrases that end.
SameBehind(t, g, h, i) ==
  /\ \A j \in i + 1 .. Len(t) + 1 : g[j] = h[j]
  /\ \A j \in i + 1 .. Len(t) + 1 : PhrasesEnd(g, j, Len(t))

LEMMA ValueLocal ==
  ASSUME NEW t, IsText(t), NEW i \in 1 .. Len(t) + 1, NEW g, NEW h, SameBehind(t, g, h, i)
  PROVE  ValueAt(t, g, i) = ValueAt(t, h, i) /\ Ends(ValueAt(t, g, i), i, Len(t))
<1>0. Len(t) \in Nat /\ i \in Nat
  BY LenProperties DEF IsText
<1>1. CASE i > Len(t)
  <2>1. ValueAt(t, g, i) = None /\ ValueAt(t, h, i) = None
    <3>1. ~(i <= Len(t) /\ IsScalar(t[i])) /\ TypeAt(t, i) = "endOfStream"
      BY <1>0, <1>1, TypeInside
    <3> QED BY <1>1, <3>1 DEF ValueAt
  <2> QED BY <2>1, NoPhrase
<1>2. CASE i <= Len(t) /\ IsScalar(t[i])
  <2>0. ~(i > Len(t)) /\ TypeAt(t, i) \notin {"arrayBegin", "objectBegin"}
    <3>1. i \in DOMAIN t
      BY <1>0, <1>2, LenProperties DEF IsText
    <3> QED BY <1>0, <1>2, <3>1 DEF TypeAt, IsScalar
  <2>1. \A f : ValueAt(t, f, i) = IF Meaning(t[i]) = Refused THEN None
                                  ELSE Parsed(Meaning(t[i]), i + 1)
    BY <1>2, <2>0 DEF ValueAt
  <2>2. i + 1 \in i + 1 .. Len(t) + 1
    BY <1>0, <1>2
  <2> QED BY <1>0, <2>1, <2>2, PhraseEnds, NoPhrase
<1>3. CASE i <= Len(t) /\ ~IsScalar(t[i]) /\ TypeAt(t, i) = "arrayBegin"
  <2>0. ~(i > Len(t)) /\ TypeAt(t, i) # "objectBegin"
    BY <1>0, <1>3
  <2>1. i + 1 \in i + 1 .. Len(t) + 1
    BY <1>0, <1>3
  <2>2. g[i + 1] = h[i + 1] /\ Ends(g[i + 1].elements, i + 1, Len(t))
    BY <2>1 DEF SameBehind, PhrasesEnd
  <2>3. \A f : ValueAt(t, f, i) =
               IF TypeAt(t, i + 1) = "arrayEnd" THEN Parsed(ArrayOf(<< >>), i + 2)
               ELSE IF f[i + 1].elements.ok
                    THEN Parsed(ArrayOf(f[i + 1].elements.value), f[i + 1].elements.next)
                    ELSE None
    BY <1>3, <2>0 DEF ValueAt
  <2>4. CASE TypeAt(t, i + 1) = "arrayEnd"
    <3>1. i + 1 \in 1 .. Len(t)
      BY <2>4, TypeInside
    <3>2. i + 2 \in i + 1 .. Len(t) + 1
      BY <1>0, <3>1
    <3> QED BY <1>0, <2>3, <2>4, <3>2, PhraseEnds
  <2>5. CASE TypeAt(t, i + 1) # "arrayEnd" /\ g[i + 1].elements.ok
    <3>1. g[i + 1].elements.next \in i + 1 .. Len(t) + 1
      BY <1>0, <2>2, <2>5 DEF Ends
    <3> QED BY <1>0, <2>2, <2>3, <2>5, <3>1, PhraseEnds
  <2>6. CASE TypeAt(t, i + 1) # "arrayEnd" /\ ~g[i + 1].elements.ok
    BY <2>2, <2>3, <2>6, NoPhrase
  <2> QED BY <2>4, <2>5, <2>6
<1>4. CASE i <= Len(t) /\ ~IsScalar(t[i]) /\ TypeAt(t, i) = "objectBegin"
  <2>0. ~(i > Len(t)) /\ TypeAt(t, i) # "arrayBegin"
    BY <1>0, <1>4
  <2>1. i + 1 \in i + 1 .. Len(t) + 1
    BY <1>0, <1>4
  <2>2. g[i + 1] = h[i + 1] /\ Ends(g[i + 1].members, i + 1, Len(t))
    BY <2>1 DEF SameBehind, PhrasesEnd
  <2>3. \A f : ValueAt(t, f, i) =
               IF TypeAt(t, i + 1) = "objectEnd" THEN Parsed(ObjectValue(NoElements), i + 2)
               ELSE IF f[i + 1].members.ok
                    THEN Parsed(ObjectValue(f[i + 1].members.value), f[i + 1].members.next)
                    ELSE None
    BY <1>4, <2>0 DEF ValueAt
  <2>4. CASE TypeAt(t, i + 1) = "objectEnd"
    <3>1. i + 1 \in 1 .. Len(t)
      BY <2>4, TypeInside
    <3>2. i + 2 \in i + 1 .. Len(t) + 1
      BY <1>0, <3>1
    <3> QED BY <1>0, <2>3, <2>4, <3>2, PhraseEnds
  <2>5. CASE TypeAt(t, i + 1) # "objectEnd" /\ g[i + 1].members.ok
    <3>1. g[i + 1].members.next \in i + 1 .. Len(t) + 1
      BY <1>0, <2>2, <2>5 DEF Ends
    <3> QED BY <1>0, <2>2, <2>3, <2>5, <3>1, PhraseEnds
  <2>6. CASE TypeAt(t, i + 1) # "objectEnd" /\ ~g[i + 1].members.ok
    BY <2>2, <2>3, <2>6, NoPhrase
  <2> QED BY <2>4, <2>5, <2>6
<1>5. CASE i <= Len(t) /\ ~IsScalar(t[i]) /\ TypeAt(t, i) \notin {"arrayBegin", "objectBegin"}
  <2>1. ~(i > Len(t))
    BY <1>0, <1>5
  <2>2. \A f : ValueAt(t, f, i) = None
    BY <1>5, <2>1 DEF ValueAt
  <2> QED BY <2>2, NoPhrase
<1> QED BY <1>0, <1>1, <1>2, <1>3, <1>4, <1>5

\* The separator behind a value, and what is behind that.
LEMMA SeparatorInside ==
  ASSUME NEW t, IsText(t), NEW i \in 1 .. Len(t) + 1, NEW v, v.ok, Ends(v, i, Len(t)),
         TypeAt(t, v.next) # "endOfStream"
  PROVE  v.next \in i + 1 .. Len(t) /\ v.next + 1 \in i + 1 .. Len(t) + 1
<1>0. Len(t) \in Nat /\ i \in Nat
  BY LenProperties DEF IsText
<1>1. v.next \in 1 .. Len(t)
  BY TypeInside
<1>2. v.next \in i + 1 .. Len(t) + 1
  BY DEF Ends
<1> QED BY <1>0, <1>1, <1>2

LEMMA ElementsLocal ==
  ASSUME NEW t, IsText(t), NEW i \in 1 .. Len(t) + 1, NEW g, NEW h, SameBehind(t, g, h, i)
  PROVE  LET e == ElementsAt(t, g, i)
         IN  /\ e = ElementsAt(t, h, i) /\ Ends(e, i, Len(t))
             /\ e.ok => e.value \in Seq(Range(e.value))
<1> DEFINE e == ElementsAt(t, g, i)
<1>0. Len(t) \in Nat /\ i \in Nat
  BY LenProperties DEF IsText
<1>1. PICK v : v = ValueAt(t, g, i) /\ v = ValueAt(t, h, i) /\ Ends(v, i, Len(t))
  BY ValueLocal
<1>2. \A f : ValueAt(t, f, i) = v =>
        ElementsAt(t, f, i) =
          CASE v.ok /\ TypeAt(t, v.next) = "arrayEnd" -> Parsed(<<v.value>>, v.next + 1)
            [] v.ok /\ TypeAt(t, v.next) = "arraySeparator" ->
                 IF f[v.next + 1].elements.ok
                 THEN Parsed(<<v.value>> \o f[v.next + 1].elements.value,
                             f[v.next + 1].elements.next)
                 ELSE None
            [] OTHER -> None
  BY DEF ElementsAt
<1>3. CASE v.ok /\ TypeAt(t, v.next) = "arrayEnd"
  <2>1. e = Parsed(<<v.value>>, v.next + 1) /\ ElementsAt(t, h, i) = Parsed(<<v.value>>, v.next + 1)
    BY <1>1, <1>2, <1>3
  <2>2. v.next + 1 \in i + 1 .. Len(t) + 1 /\ v.next + 1 \in Int
    BY <1>0, <1>1, <1>3, SeparatorInside
  <2>3. <<v.value>> \in Seq(Range(<<v.value>>))
    <3>1. <<v.value>> \in Seq({v.value})
      OBVIOUS
    <3> QED BY <3>1, SeqOfRange
  <2> HIDE DEF e
  <2>4. e.value = <<v.value>>
    BY <2>1, PhraseIs
  <2>5. Ends(e, i, Len(t))
    BY <1>0, <2>1, <2>2, PhraseEnds
  <2> QED BY <2>1, <2>3, <2>4, <2>5 DEF e
<1>4. CASE v.ok /\ TypeAt(t, v.next) = "arraySeparator"
  <2>1. v.next + 1 \in i + 1 .. Len(t) + 1
    BY <1>1, <1>4, SeparatorInside
  <2>2. PICK r : /\ r = g[v.next + 1].elements /\ r = h[v.next + 1].elements
                 /\ Ends(r, v.next + 1, Len(t))
                 /\ r.ok => r.value \in Seq(Range(r.value))
    BY <2>1 DEF SameBehind, PhrasesEnd
  <2>3. /\ e = IF r.ok THEN Parsed(<<v.value>> \o r.value, r.next) ELSE None
        /\ ElementsAt(t, h, i) = e
    BY <1>1, <1>2, <1>4, <2>2
  <2>4. CASE r.ok
    <3>1. e = Parsed(<<v.value>> \o r.value, r.next)
      BY <2>3, <2>4
    <3>2. r.next \in i + 1 .. Len(t) + 1 /\ r.next \in Int
      BY <1>0, <2>1, <2>2, <2>4 DEF Ends
    <3>3. e.value = <<v.value>> \o r.value
      <4> HIDE DEF e
      <4> QED BY <3>1, PhraseIs
    <3>4. <<v.value>> \o r.value \in Seq(Range(<<v.value>> \o r.value))
      BY <2>2, <2>4, Joined
    <3>5. Ends(e, i, Len(t))
      <4> HIDE DEF e
      <4> QED BY <1>0, <3>1, <3>2, PhraseEnds
    <3> HIDE DEF e
    <3>6. e.value \in Seq(Range(e.value))
      BY <3>3, <3>4
    <3> QED BY <2>3, <3>5, <3>6 DEF e
  <2>5. CASE ~r.ok
    <3>1. e = None
      BY <2>3, <2>5
    <3>2. Ends(None, i, Len(t)) /\ ~None.ok
      BY NoPhrase
    <3> HIDE DEF e
    <3> QED BY <2>3, <3>1, <3>2 DEF e
  <2> QED BY <2>4, <2>5
<1>5. CASE ~(v.ok /\ TypeAt(t, v.next) \in {"arrayEnd", "arraySeparator"})
  <2>1. e = None /\ ElementsAt(t, h, i) = None
    BY <1>1, <1>2, <1>5
  <2>2. Ends(None, i, Len(t)) /\ ~None.ok
    BY NoPhrase
  <2> HIDE DEF e
  <2> QED BY <2>1, <2>2 DEF e
<1> QED BY <1>3, <1>4, <1>5

LEMMA MembersLocal ==
  ASSUME NEW t, IsText(t), NEW i \in 1 .. Len(t) + 1, NEW g, NEW h, SameBehind(t, g, h, i)
  PROVE  LET m == MembersAt(t, g, i)
         IN  /\ m = MembersAt(t, h, i) /\ Ends(m, i, Len(t))
             /\ m.ok => IsMapping(m.value)
<1> DEFINE m == MembersAt(t, g, i)
<1>0. Len(t) \in Nat /\ i \in Nat
  BY LenProperties DEF IsText
<1>1. Ends(None, i, Len(t)) /\ ~None.ok
  BY NoPhrase
<1>2. CASE TypeAt(t, i) # "string" \/ TypeAt(t, i + 1) # "memberSeparator"
  <2>1. m = None /\ MembersAt(t, h, i) = None
    BY <1>2 DEF MembersAt
  <2> HIDE DEF m
  <2> QED BY <1>1, <2>1 DEF m
<1>3. CASE ~(TypeAt(t, i) # "string" \/ TypeAt(t, i + 1) # "memberSeparator")
  <2>1. i + 1 \in 1 .. Len(t)
    BY <1>3, TypeInside
  <2>2. i + 2 \in i + 1 .. Len(t) + 1
    BY <1>0, <2>1
  <2>3. PICK v : v = g[i + 2].value /\ v = h[i + 2].value /\ Ends(v, i + 2, Len(t))
    BY <2>2 DEF SameBehind, PhrasesEnd
  <2> DEFINE first == Member(t[i].str, v.value)
  <2>4. \A f : f[i + 2].value = v =>
          MembersAt(t, f, i) =
            CASE t[i].str # Bad /\ v.ok /\ TypeAt(t, v.next) = "objectEnd" ->
                   Parsed(first, v.next + 1)
              [] t[i].str # Bad /\ v.ok /\ TypeAt(t, v.next) = "arraySeparator" ->
                   IF f[v.next + 1].members.ok
                   THEN Parsed(Over(first, f[v.next + 1].members.value), f[v.next + 1].members.next)
                   ELSE None
              [] OTHER -> None
    BY <1>3 DEF MembersAt
  <2>m. IsMapping(first) /\ \A r : IsMapping(Over(first, r))
    BY DEF Member, Over, IsMapping
  <2> HIDE DEF first
  <2>5. CASE t[i].str # Bad /\ v.ok /\ TypeAt(t, v.next) \in {"objectEnd", "arraySeparator"}
    <3>1. v.next \in i + 3 .. Len(t) /\ v.next + 1 \in i + 1 .. Len(t) + 1
      <4>1. i + 2 \in 1 .. Len(t) + 1
        BY <1>0, <2>2
      <4>2. TypeAt(t, v.next) # "endOfStream"
        BY <2>5
      <4>3. v.next \in (i + 2) + 1 .. Len(t) /\ v.next + 1 \in (i + 2) + 1 .. Len(t) + 1
        BY <2>3, <2>5, <4>1, <4>2, SeparatorInside
      <4> QED BY <1>0, <4>3
    <3>2. CASE TypeAt(t, v.next) = "objectEnd"
      <4>1. m = Parsed(first, v.next + 1) /\ MembersAt(t, h, i) = Parsed(first, v.next + 1)
        BY <2>3, <2>4, <2>5, <3>2
      <4> HIDE DEF m
      <4>2. Ends(m, i, Len(t))
        BY <1>0, <3>1, <4>1, PhraseEnds
      <4>3. m.value = first
        BY <4>1, PhraseIs
      <4> QED BY <2>m, <4>1, <4>2, <4>3 DEF m
    <3>3. CASE TypeAt(t, v.next) = "arraySeparator"
      <4>1. PICK r : /\ r = g[v.next + 1].members /\ r = h[v.next + 1].members
                     /\ Ends(r, v.next + 1, Len(t))
        BY <3>1 DEF SameBehind, PhrasesEnd
      <4>2. /\ m = IF r.ok THEN Parsed(Over(first, r.value), r.next) ELSE None
            /\ MembersAt(t, h, i) = m
        BY <2>3, <2>4, <2>5, <3>3, <4>1
      <4> HIDE DEF m
      <4>3. CASE r.ok
        <5>1. r.next \in i + 1 .. Len(t) + 1 /\ r.next \in Int
          BY <1>0, <3>1, <4>1, <4>3 DEF Ends
        <5>2. Ends(m, i, Len(t))
          BY <1>0, <4>2, <4>3, <5>1, PhraseEnds
        <5>3. m.value = Over(first, r.value)
          BY <4>2, <4>3, PhraseIs
        <5> QED BY <2>m, <4>2, <5>2, <5>3 DEF m
      <4>4. CASE ~r.ok
        BY <1>1, <4>2, <4>4 DEF m
      <4> QED BY <4>3, <4>4
    <3> QED BY <2>5, <3>2, <3>3
  <2>6. CASE ~(t[i].str # Bad /\ v.ok /\ TypeAt(t, v.next) \in {"objectEnd", "arraySeparator"})
    <3>1. m = None /\ MembersAt(t, h, i) = None
      BY <2>3, <2>4, <2>6
    <3> HIDE DEF m
    <3> QED BY <1>1, <3>1 DEF m
  <2> QED BY <2>5, <2>6
<1> QED BY <1>2, <1>3

LEMMA PhrasesLocal ==
  ASSUME NEW t, IsText(t), NEW i \in 1 .. Len(t) + 1, NEW g, NEW h, SameBehind(t, g, h, i)
  PROVE  /\ PhrasesAt(t, g, i) = PhrasesAt(t, h, i)
         /\ \A f : f[i] = PhrasesAt(t, g, i) => PhrasesEnd(f, i, Len(t))
<1>1. ValueAt(t, g, i) = ValueAt(t, h, i) /\ Ends(ValueAt(t, g, i), i, Len(t))
  BY ValueLocal
<1>2. /\ ElementsAt(t, g, i) = ElementsAt(t, h, i) /\ Ends(ElementsAt(t, g, i), i, Len(t))
      /\ ElementsAt(t, g, i).ok =>
           ElementsAt(t, g, i).value \in Seq(Range(ElementsAt(t, g, i).value))
  BY ElementsLocal
<1>3. /\ MembersAt(t, g, i) = MembersAt(t, h, i) /\ Ends(MembersAt(t, g, i), i, Len(t))
      /\ MembersAt(t, g, i).ok => IsMapping(MembersAt(t, g, i).value)
  BY MembersLocal
<1>4. PhrasesAt(t, g, i) = PhrasesAt(t, h, i)
  BY <1>1, <1>2, <1>3 DEF PhrasesAt
<1>5. ASSUME NEW f, f[i] = PhrasesAt(t, g, i)
      PROVE  PhrasesEnd(f, i, Len(t))
  <2>1. /\ f[i].value = ValueAt(t, g, i) /\ f[i].elements = ElementsAt(t, g, i)
        /\ f[i].members = MembersAt(t, g, i)
    BY <1>5 DEF PhrasesAt
  <2> QED BY <1>1, <1>2, <1>3, <2>1 DEF PhrasesEnd
<1> QED BY <1>4, <1>5

(***************************************************************************)
(* So the grammar of a text tells the phrases of each place.               *)
(***************************************************************************)
LEMMA GrammarExists ==
  ASSUME NEW t, IsText(t)
  PROVE  \E g : Tells(t, g, 1) /\ DOMAIN g = 1 .. Len(t) + 1
                /\ g = [i \in 1 .. Len(t) + 1 |-> g[i]]
<1> DEFINE n == Len(t)
           From(g, m) == /\ g = [i \in m .. n + 1 |-> g[i]]
                         /\ Tells(t, g, m)
           B == {b \in 0 .. n + 1 : \E g : From(g, n + 2 - b)}
<1>1. n \in Nat
  BY LenProperties DEF IsText
<1>2. 0 \in B
  <2>1. n + 2 - 0 .. n + 1 = {}
    BY <1>1
  <2> DEFINE z == [i \in {} |-> i]
  <2>2. z = [i \in n + 2 - 0 .. n + 1 |-> z[i]]
    BY <2>1
  <2>3. Tells(t, z, n + 2 - 0)
    BY <2>1 DEF Tells
  <2> HIDE DEF z
  <2>4. From(z, n + 2 - 0)
    BY <2>2, <2>3
  <2>5. 0 \in 0 .. n + 1
    BY <1>1
  <2> HIDE DEF From
  <2> QED BY <2>4, <2>5
<1>3. ASSUME NEW b \in B, b < n + 1 PROVE b + 1 \in B
  <2>1. PICK m \in 1 .. n + 1 : m = n + 2 - (b + 1)
    BY <1>1, <1>3
  <2>2. PICK g : From(g, m + 1)
    <3>1. n + 2 - b = m + 1
      BY <1>1, <1>3, <2>1
    <3>2. \E g : From(g, n + 2 - b)
      OBVIOUS
    <3> QED BY <3>1, <3>2
  <2> DEFINE x == PhrasesAt(t, g, m)
             h == [i \in m .. n + 1 |-> IF i = m THEN x ELSE g[i]]
  <2>3. \A i \in m .. n + 1 : h[i] = IF i = m THEN x ELSE g[i]
    OBVIOUS
  <2>4. h = [i \in m .. n + 1 |-> h[i]]
    OBVIOUS
  <2> HIDE DEF h, x
  <2>5. \A i \in m + 1 .. n + 1 : /\ h[i] = g[i] /\ g[i] = PhrasesAt(t, g, i)
                                  /\ PhrasesEnd(g, i, n)
    <3>1. ASSUME NEW i \in m + 1 .. n + 1 PROVE h[i] = g[i]
      <4>1. i \in m .. n + 1 /\ i # m
        BY <1>1, <2>1
      <4> QED BY <2>3, <4>1
    <3>2. Tells(t, g, m + 1)
      BY <2>2
    <3> QED BY <3>1, <3>2 DEF Tells
  <2>6. ASSUME NEW i \in m .. n + 1 PROVE SameBehind(t, g, h, i)
    <3>1. \A j \in i + 1 .. n + 1 : j \in m + 1 .. n + 1
      BY <1>1, <2>1
    <3> QED BY <2>5, <3>1 DEF SameBehind
  <2>7. ASSUME NEW i \in m .. n + 1
        PROVE  h[i] = PhrasesAt(t, h, i) /\ PhrasesEnd(h, i, n)
    <3>1. i \in 1 .. n + 1
      BY <1>1, <2>1
    <3>2. /\ PhrasesAt(t, g, i) = PhrasesAt(t, h, i)
          /\ h[i] = PhrasesAt(t, g, i) => PhrasesEnd(h, i, n)
      BY <2>6, <3>1, PhrasesLocal
    <3>3. h[i] = PhrasesAt(t, g, i)
      <4>1. CASE i = m
        BY <2>3, <4>1 DEF x
      <4>2. CASE i # m
        <5>1. i \in m + 1 .. n + 1
          BY <1>1, <2>1, <4>2
        <5> QED BY <2>5, <5>1
      <4> QED BY <4>1, <4>2
    <3> QED BY <3>2, <3>3
  <2>8. From(h, m)
    BY <2>4, <2>7 DEF Tells
  <2>9. b + 1 \in 0 .. n + 1
    BY <1>1, <1>3
  <2> HIDE DEF From
  <2> QED BY <2>1, <2>8, <2>9
<1>4. n + 1 \in B
  <2>1. B \subseteq 0 .. n + 1 /\ n + 1 \in Nat
    BY <1>1
  <2> HIDE DEF B
  <2> QED BY <1>2, <1>3, <2>1, LastPlace
<1>5. PICK g : From(g, 1)
  <2>1. \E g : From(g, n + 2 - (n + 1))
    BY <1>4
  <2>2. n + 2 - (n + 1) = 1
    BY <1>1
  <2> QED BY <2>1, <2>2
<1> QED BY <1>5

LEMMA GrammarTells ==
  ASSUME NEW t, IsText(t)
  PROVE  Tells(t, Grammar(t), 1)
<1> DEFINE n == Len(t)
           is(g) == g = [i \in 1 .. n + 1 |-> PhrasesAt(t, g, i)]
           from == CHOOSE g : is(g)
<1>1. Grammar(t) = from
  BY DEF Grammar
<1>2. PICK g : Tells(t, g, 1) /\ g = [i \in 1 .. n + 1 |-> g[i]]
  BY GrammarExists
<1>3. is(g)
  BY <1>2 DEF Tells
<1>4. is(from)
  <2> HIDE DEF is
  <2> QED BY <1>3
<1> HIDE DEF from
<1>5. \A i \in 1 .. n + 1 : from[i] = PhrasesAt(t, from, i)
  BY <1>4
<1> DEFINE B == {b \in 0 .. n + 1 : \A i \in n + 2 - b .. n + 1 : PhrasesEnd(from, i, n)}
<1>6. n \in Nat
  BY LenProperties DEF IsText
<1>7. 0 \in B
  BY <1>6
<1>8. ASSUME NEW b \in B, b < n + 1 PROVE b + 1 \in B
  <2>0. b \in 0 .. n + 1
    OBVIOUS
  <2> DEFINE m == n + 1 - b
  <2>1. m \in 1 .. n + 1 /\ m = n + 2 - (b + 1) /\ n + 2 - b = m + 1 /\ b + 1 \in 0 .. n + 1
    <3> HIDE DEF B
    <3> QED BY <1>6, <1>8, <2>0
  <2> HIDE DEF m
  <2>2. \A i \in m + 1 .. n + 1 : PhrasesEnd(from, i, n)
    BY <2>1
  <2>3. SameBehind(t, from, from, m)
    BY <2>2 DEF SameBehind
  <2>4. from[m] = PhrasesAt(t, from, m)
    BY <1>5, <2>1
  <2>5. PhrasesEnd(from, m, n)
    BY <2>1, <2>3, <2>4, PhrasesLocal
  <2>6. \A i \in m .. n + 1 : i = m \/ i \in m + 1 .. n + 1
    BY <1>6, <2>1
  <2>7. \A i \in n + 2 - (b + 1) .. n + 1 : PhrasesEnd(from, i, n)
    BY <2>1, <2>2, <2>5, <2>6
  <2> QED BY <2>1, <2>7
<1>9. n + 1 \in B
  <2>1. B \subseteq 0 .. n + 1 /\ n + 1 \in Nat
    BY <1>6
  <2> HIDE DEF B
  <2> QED BY <1>7, <1>8, <2>1, LastPlace
<1>10. \A i \in 1 .. n + 1 : PhrasesEnd(from, i, n)
  <2>1. n + 2 - (n + 1) = 1
    BY <1>6
  <2>2. \A i \in n + 2 - (n + 1) .. n + 1 : PhrasesEnd(from, i, n)
    BY <1>9
  <2> QED BY <2>1, <2>2
<1> QED BY <1>1, <1>5, <1>10 DEF Tells

-----------------------------------------------------------------------------
(***************************************************************************)
(* The phrases of a text, one unfolded into those behind it.               *)
(***************************************************************************)
ValueIn(t, i) == Grammar(t)[i].value
ElementsIn(t, i) == Grammar(t)[i].elements
MembersIn(t, i) == Grammar(t)[i].members

LEMMA Unfolded ==
  ASSUME NEW t, IsText(t), NEW i \in 1 .. Len(t) + 1
  PROVE  /\ ValueIn(t, i) = ValueAt(t, Grammar(t), i)
         /\ ElementsIn(t, i) = ElementsAt(t, Grammar(t), i)
         /\ MembersIn(t, i) = MembersAt(t, Grammar(t), i)
         /\ Ends(ValueIn(t, i), i, Len(t))
         /\ ElementsIn(t, i).ok => ElementsIn(t, i).value \in Seq(Range(ElementsIn(t, i).value))
         /\ MembersIn(t, i).ok => IsMapping(MembersIn(t, i).value)
<1>1. Tells(t, Grammar(t), 1)
  BY GrammarTells
<1>2. Grammar(t)[i] = PhrasesAt(t, Grammar(t), i) /\ PhrasesEnd(Grammar(t), i, Len(t))
  BY <1>1 DEF Tells
<1>3. /\ PhrasesAt(t, Grammar(t), i).value = ValueAt(t, Grammar(t), i)
      /\ PhrasesAt(t, Grammar(t), i).elements = ElementsAt(t, Grammar(t), i)
      /\ PhrasesAt(t, Grammar(t), i).members = MembersAt(t, Grammar(t), i)
  BY DEF PhrasesAt
<1> QED BY <1>2, <1>3, Zenon DEF ValueIn, ElementsIn, MembersIn, PhrasesEnd

LEMMA ScalarIn ==
  ASSUME NEW t, IsText(t), NEW i \in 1 .. Len(t), IsScalar(t[i])
  PROVE  ValueIn(t, i) = IF Meaning(t[i]) = Refused THEN None ELSE Parsed(Meaning(t[i]), i + 1)
<1>0. Len(t) \in Nat /\ i \in 1 .. Len(t) + 1 /\ ~(i > Len(t)) /\ i <= Len(t)
  BY LenProperties DEF IsText
<1>1. TypeAt(t, i) \notin {"arrayBegin", "objectBegin"}
  BY LenProperties DEF IsText, TypeAt, IsScalar
<1>2. ValueIn(t, i) = ValueAt(t, Grammar(t), i)
  BY <1>0, Unfolded
<1> QED BY <1>0, <1>1, <1>2 DEF ValueAt

LEMMA ContainerIn ==
  ASSUME NEW t, IsText(t), NEW i \in 1 .. Len(t)
  PROVE  /\ TypeAt(t, i) = "arrayBegin" =>
              ValueIn(t, i) =
                IF TypeAt(t, i + 1) = "arrayEnd" THEN Parsed(ArrayOf(<< >>), i + 2)
                ELSE IF ElementsIn(t, i + 1).ok
                     THEN Parsed(ArrayOf(ElementsIn(t, i + 1).value), ElementsIn(t, i + 1).next)
                     ELSE None
         /\ TypeAt(t, i) = "objectBegin" =>
              ValueIn(t, i) =
                IF TypeAt(t, i + 1) = "objectEnd" THEN Parsed(ObjectValue(NoElements), i + 2)
                ELSE IF MembersIn(t, i + 1).ok
                     THEN Parsed(ObjectValue(MembersIn(t, i + 1).value), MembersIn(t, i + 1).next)
                     ELSE None
<1>0. Len(t) \in Nat /\ i \in 1 .. Len(t) + 1 /\ ~(i > Len(t)) /\ i <= Len(t)
  BY LenProperties DEF IsText
<1>1. TypeAt(t, i) \in {"arrayBegin", "objectBegin"} => ~IsScalar(t[i])
  BY LenProperties DEF IsText, TypeAt, IsScalar
<1>2. ValueIn(t, i) = ValueAt(t, Grammar(t), i)
  BY <1>0, Unfolded
<1>3. CASE TypeAt(t, i) = "arrayBegin"
  BY <1>0, <1>1, <1>2, <1>3 DEF ValueAt, ElementsIn
<1>4. CASE TypeAt(t, i) = "objectBegin"
  BY <1>0, <1>1, <1>2, <1>4 DEF ValueAt, MembersIn
<1> QED BY <1>3, <1>4

LEMMA NoValueIn ==
  ASSUME NEW t, IsText(t), NEW i \in 1 .. Len(t) + 1,
         TypeAt(t, i) \notin {"true", "false", "null", "number", "string", "arrayBegin", "objectBegin"}
  PROVE  ~ValueIn(t, i).ok
<1>0. Len(t) \in Nat
  BY LenProperties DEF IsText
<1>1. ValueIn(t, i) = ValueAt(t, Grammar(t), i)
  BY Unfolded
<1>2. ~(i <= Len(t) /\ IsScalar(t[i]))
  <2>1. i <= Len(t) => TypeAt(t, i) = t[i].type
    BY <1>0, LenProperties DEF IsText, TypeAt
  <2> QED BY <2>1 DEF IsScalar
<1>3. ValueAt(t, Grammar(t), i) = None
  BY <1>2 DEF ValueAt
<1> QED BY <1>1, <1>3, NoPhrase
=============================================================================
