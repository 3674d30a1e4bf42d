--------------------------- MODULE JsonEditProofs ---------------------------
(***************************************************************************)
(* Theorems about a Json::Value that is edited by any calls, for integers  *)
(* of every width and arrays of every size: its conversions, its order and *)
(* its text.                                                               *)
(***************************************************************************)
EXTENDS JsonEditText, JsonValueProofs

(***************************************************************************)
(* An index below the size that has no element is a gap.                   *)
(***************************************************************************)
LEMMA Gap ==
  ASSUME NEW m, IsMap(m), NEW i \in Nat, i < Size(Holding("array", m)), i \notin DOMAIN m
  PROVE  HasGaps(Holding("array", m))
<1> DEFINE n == Size(Holding("array", m))
<1>1. n \in Nat /\ \A k \in DOMAIN m : k < n
  BY SizeOf
<1>2. DOMAIN m \subseteq Nat
  BY DEF IsMap
<1>h. i < n
  OBVIOUS
<1> HIDE DEF n
<1>3. DOMAIN m \in SUBSET (0 .. n - 1) /\ i \in 0 .. n - 1
  BY <1>1, <1>2, <1>h
<1>4. /\ IsFiniteSet(0 .. n - 1) /\ Cardinality(0 .. n - 1) = n
  <2>1. IsFiniteSet(0 .. n - 1)
        /\ Cardinality(0 .. n - 1) = IF 0 > n - 1 THEN 0 ELSE (n - 1) - 0 + 1
    BY <1>1, FS_Interval
  <2> QED BY <1>1, <2>1
<1>5. /\ Cardinality(DOMAIN m) <= n
      /\ Cardinality(DOMAIN m) \in Nat
      /\ Cardinality(DOMAIN m) # n
  <2>1. /\ IsFiniteSet(DOMAIN m)
        /\ Cardinality(DOMAIN m) <= Cardinality(0 .. n - 1)
        /\ Cardinality(0 .. n - 1) = Cardinality(DOMAIN m) => 0 .. n - 1 = DOMAIN m
    BY <1>3, <1>4, FS_Subset
  <2>2. Cardinality(DOMAIN m) \in Nat
    BY <2>1, FS_CardinalityType
  <2> QED BY <1>3, <1>4, <2>1, <2>2
<1>6. Cardinality(DOMAIN m) < n
  BY <1>1, <1>5
<1>7. Keys(Holding("array", m)) = DOMAIN m
  BY DEF Keys, Holding
<1> QED BY <1>6, <1>7 DEF HasGaps, n

LEMMA CallTyped ==
  ASSUME TypeOK, NEW allowed \in BOOLEAN, NEW v, allowed => IsValue(v), Call(allowed, v)
  PROVE  TypeOK'
<1>1. thrown' \in BOOLEAN
  BY DEF Call
<1>2. IsValue(value')
  BY DEF Call, TypeOK
<1> QED BY <1>1, <1>2 DEF TypeOK

(***************************************************************************)
(* Every call leaves a value whose elements are at finitely many indices   *)
(* or names, so that begin() to end() and the comparison of two containers *)
(* come to an end (jsoncpp.cpp, class Value).                              *)
(***************************************************************************)
LEMMA ValueStaysTyped == Spec => []TypeOK
<1>1. Init => TypeOK
  <2>1. IsValue(DefaultOf("null"))
    BY DEF IsValue, DefaultOf, Scalar
  <2> QED BY <2>1 DEF Init, TypeOK
<1>2. TypeOK /\ [Next]_vars => TypeOK'
  <2> SUFFICES ASSUME TypeOK, [Next]_vars PROVE TypeOK'
    OBVIOUS
  <2>1. IsValue(value)
    BY DEF TypeOK
  <2>2. /\ \A i \in Index : i \in Nat
        /\ \A k \in Name : k \in Nat
        /\ \A n \in 0 .. MaxIndex + 1 : n \in Nat
    BY IndexAssumption, NameAssumption DEF Index
  <2>3. /\ MayIndex(value) => value.type \in {"null", "array"}
        /\ MayName(value) => value.type \in {"null", "object"}
    BY DEF MayIndex, MayName
  <2>4. MayIndex(value) \in BOOLEAN /\ MayName(value) \in BOOLEAN
    BY DEF MayIndex, MayName
  <2>5. ASSUME NEW v \in Given, Assign(v) PROVE TypeOK'
    <3>1. IsValue(v)
      BY GivenAssumption
    <3> QED BY <2>5, <3>1, CallTyped DEF Assign
  <2>6. ASSUME NEW i \in Index, NEW x \in Element, SetElement(i, x) PROVE TypeOK'
    <3>1. MayIndex(value) => IsValue(Put(value, "array", i, x))
      BY <2>1, <2>2, <2>3, PutIsValue
    <3> QED BY <2>4, <2>6, <3>1, CallTyped DEF SetElement
  <2>7. ASSUME NEW i \in Index, ReadElement(i) PROVE TypeOK'
    <3>1. MayIndex(value) => IsValue(Touch(value, "array", i))
      BY <2>1, <2>2, <2>3, TouchIsValue
    <3> QED BY <2>4, <2>7, <3>1, CallTyped DEF ReadElement
  <2>8. ASSUME NEW i \in Index, RemoveAnIndex(i) PROVE TypeOK'
    <3>1. IsValue(RemoveIndex(value, i))
      BY <2>1, RemoveIndexIsValue
    <3> QED BY <2>8, <3>1, CallTyped DEF RemoveAnIndex
  <2>9. ASSUME NEW k \in Name, NEW x \in Element, SetMember(k, x) PROVE TypeOK'
    <3>1. MayName(value) => IsValue(Put(value, "object", k, x))
      BY <2>1, <2>2, <2>3, PutIsValue
    <3> QED BY <2>4, <2>9, <3>1, CallTyped DEF SetMember
  <2>10. ASSUME NEW k \in Name, ReadMember(k) PROVE TypeOK'
    <3>1. MayName(value) => IsValue(Touch(value, "object", k))
      BY <2>1, <2>2, <2>3, TouchIsValue
    <3> QED BY <2>4, <2>10, <3>1, CallTyped DEF ReadMember
  <2>11. ASSUME NEW k \in Name, RemoveAMember(k) PROVE TypeOK'
    <3>1. IsValue(RemoveMember(value, k))
      BY <2>1, RemoveMemberIsValue
    <3> QED BY <2>4, <2>11, <3>1, CallTyped DEF RemoveAMember
  <2>12. ASSUME NEW x \in Element, AppendElement(x) PROVE TypeOK'
    <3>1. MayIndex(value) => IsValue(AppendValue(value, x))
      BY <2>1, <2>3, SizeInNat, PutIsValue DEF AppendValue
    <3> QED BY <2>4, <2>12, <3>1, CallTyped DEF AppendElement
  <2>13. CASE ClearValue
    <3>1. IsValue(Clear(value))
      BY <2>1, ClearIsValue
    <3>2. (value.type \in {"null", "array", "object"}) \in BOOLEAN
      OBVIOUS
    <3> QED BY <2>13, <3>1, <3>2, CallTyped DEF ClearValue
  <2>14. ASSUME NEW n \in 0 .. MaxIndex + 1, ResizeArray(n) PROVE TypeOK'
    <3>1. CASE ~MayIndex(value)
      BY <2>1, <2>14, <3>1, CallTyped DEF ResizeArray
    <3>2. CASE MayIndex(value)
      <4>1. IsValue(Resize(value, n))
        BY <2>1, <2>2, <2>3, <3>2, ResizeIsValue
      <4>2. value' = Resize(value, n) /\ thrown' \in BOOLEAN
        BY <2>14, <3>2 DEF ResizeArray, ResizeFails
      <4> QED BY <4>1, <4>2 DEF TypeOK
    <3> QED BY <3>1, <3>2
  <2>15. CASE UNCHANGED vars
    BY <2>15 DEF vars, TypeOK
  <2> QED
    BY <2>5, <2>6, <2>7, <2>8, <2>9, <2>10, <2>11, <2>12, <2>13, <2>14, <2>15 DEF Next
<1> QED BY <1>1, <1>2, PTL DEF Spec

(***************************************************************************)
(* Strings and containers are no numbers, and convertible to none.         *)
(***************************************************************************)
LEMMA NoNumber ==
  ASSUME NEW v, v.type \in {"string", "array", "object"}
  PROVE  ConvertsIfConvertible(v) /\ ConvertsExactly(v)
<1>1. ~IsInt(v) /\ ~IsUInt(v) /\ ~IsInt64(v) /\ ~IsUInt64(v)
  BY DEF IsInt, IsUInt, IsInt64, IsUInt64
<1>2. ~IsNumeric(v)
  BY <1>1 DEF IsNumeric, IsDouble, IsIntegral
<1>3. \A t \in {"int", "uint", "real", "boolean"} : ~IsConvertibleTo(v, t)
  BY <1>1, <1>2 DEF IsConvertibleTo
<1>4. ConvertsIfConvertible(v)
  BY <1>3 DEF ConvertsIfConvertible
<1>5. ConvertsExactly(v)
  BY <1>1 DEF ConvertsExactly
<1> QED BY <1>4, <1>5

LEMMA ValuesConvert ==
  ASSUME TypeOK
  PROVE  ConvertsIfConvertible(value) /\ ConvertsExactly(value)
<1>1. value \in Scalar \/ value.type \in {"string", "array", "object"}
  BY DEF TypeOK, IsValue
<1> QED BY <1>1, NoNumber, IntegersExact, ConvertibleScalars

(***************************************************************************)
(* Whatever the calls have made of a value, isConvertibleTo keeps its word *)
(* (jsoncpp.cpp, Value::isConvertibleTo and the as methods).               *)
(***************************************************************************)
THEOREM EditedConverts == Spec => []ConvertibleConverts
<1>1. TypeOK => ConvertibleConverts
  BY ValuesConvert DEF ConvertibleConverts
<1> QED BY <1>1, ValueStaysTyped, PTL

(***************************************************************************)
(* Whatever the calls have made of a value, one that says it is an integer *)
(* of some width converts to just that integer (jsoncpp.cpp, Value::isInt  *)
(* to isUInt64 and asInt to asUInt64).                                     *)
(***************************************************************************)
THEOREM EditedExact == Spec => []IntegersConvertExactly
<1>1. TypeOK => IntegersConvertExactly
  BY ValuesConvert DEF IntegersConvertExactly
<1> QED BY <1>1, ValueStaysTyped, PTL

-----------------------------------------------------------------------------
(***************************************************************************)
(* Arrays as sequences.                                                    *)
(***************************************************************************)
LEMMA CutToIf ==
  ASSUME NEW p \in Nat, NEW q \in Nat, q <= p,
         NEW s, s = [j \in 1 .. p |-> s[j]], NEW t, t = [j \in 1 .. q |-> t[j]],
         NEW gaps \in BOOLEAN,
         \A j \in 1 .. q : t[j] = s[j],
         q < p => gaps /\ \A j \in q + 1 .. p : s[j] = NullValue
  PROVE  CutTo(s, t, gaps)
<1>1. Len(s) = p /\ Len(t) = q
  <2>1. s \in Seq({s[j] : j \in 1 .. p}) /\ DOMAIN s = 1 .. p
    <3>1. s \in [1 .. p -> {s[j] : j \in 1 .. p}]
      OBVIOUS
    <3> QED BY <3>1, SeqDef
  <2>2. t \in Seq({t[j] : j \in 1 .. q}) /\ DOMAIN t = 1 .. q
    <3>1. t \in [1 .. q -> {t[j] : j \in 1 .. q}]
      OBVIOUS
    <3> QED BY <3>1, SeqDef
  <2>3. Len(s) \in Nat /\ DOMAIN s = 1 .. Len(s) /\ Len(t) \in Nat /\ DOMAIN t = 1 .. Len(t)
    BY <2>1, <2>2, LenProperties
  <2> QED BY <2>1, <2>2, <2>3
<1> QED BY <1>1 DEF CutTo

\* The elements that an array has, up to its size.
LEMMA ElementsAre ==
  ASSUME NEW m, IsMap(m)
  PROVE  LET v == Holding("array", m)
         IN  \A q : q = Size(v) =>
               /\ Elements(v) = [j \in 1 .. q |-> Elements(v)[j]]
               /\ \A j \in 1 .. q : Elements(v)[j] = At(v, j - 1)
BY DEF Elements

(***************************************************************************)
(* An array that was cut behind some index is as long as the last element  *)
(* kept says, and shorter only where it had none.                          *)
(***************************************************************************)
LEMMA Shortened ==
  ASSUME NEW m, IsMap(m), NEW r, IsMap(r), NEW n \in Nat, n <= Size(Holding("array", m)),
         DOMAIN r = {k \in DOMAIN m : k < n}
  PROVE  LET v == Holding("array", m)
             q == Size(Holding("array", r))
         IN  /\ q \in Nat /\ q <= n
             /\ q < n => HasGaps(v) /\ \A k \in q .. n - 1 : At(v, k) = NullValue
<1> DEFINE v == Holding("array", m)
           q == Size(Holding("array", r))
<1>1. q \in Nat /\ (\A k \in DOMAIN r : k < q) /\ (q > 0 => q - 1 \in DOMAIN r)
  BY SizeOf
<1>2. DOMAIN m \subseteq Nat /\ Size(v) \in Nat
  BY SizeOf DEF IsMap
<1>3. \A k : At(v, k) = IF k \in DOMAIN m THEN m[k] ELSE NullValue
  BY Held
<1>4. \A k \in Nat : k < Size(v) /\ k \notin DOMAIN m => HasGaps(v)
  BY Gap
<1>5. n <= Size(v)
  OBVIOUS
<1> HIDE DEF v, q
<1>6. q <= n
  <2>1. CASE q > 0
    <3>1. q - 1 < n
      BY <1>1, <2>1
    <3> QED BY <1>1, <3>1
  <2>2. CASE ~(q > 0)
    BY <1>1, <2>2
  <2> QED BY <2>1, <2>2
<1>7. \A k \in q .. n - 1 : k \in Nat /\ k \notin DOMAIN m
  <2> SUFFICES ASSUME NEW k \in q .. n - 1 PROVE k \in Nat /\ k \notin DOMAIN m
    OBVIOUS
  <2>1. k \in Nat /\ k < n /\ ~(k < q)
    BY <1>1
  <2> QED BY <1>1, <2>1
<1>8. ASSUME q < n PROVE HasGaps(v) /\ \A k \in q .. n - 1 : At(v, k) = NullValue
  <2>1. q \in q .. n - 1 /\ q < Size(v)
    BY <1>1, <1>2, <1>5, <1>8
  <2>2. HasGaps(v)
    BY <1>1, <1>4, <1>7, <2>1
  <2> QED BY <1>3, <1>7, <2>2
<1> QED BY <1>1, <1>6, <1>8 DEF v, q

LEMMA RemovesOneAlways ==
  ASSUME NEW m, IsMap(m), NEW i \in DOMAIN m
  PROVE  RemovesOne(Holding("array", m), i)
<1> DEFINE v == Holding("array", m)
           n == Size(v)
           D == {k \in DOMAIN m : k < i} \cup i .. n - 2
           r == [j \in D |-> IF j < i THEN At(v, j) ELSE At(v, j + 1)]
           R == Holding("array", r)
           q == Size(R)
           s == [j \in 1 .. n - 1 |-> At(v, IF j <= i THEN j - 1 ELSE j)]
           t == Elements(R)
<1>1. RemoveIndex(v, i) = R /\ IsMap(r) /\ DOMAIN r = D
  BY Removed
<1>2. n \in Nat /\ (\A k \in DOMAIN m : k < n) /\ DOMAIN m \subseteq Nat
  BY SizeOf DEF IsMap
<1>3. i \in Nat /\ i < n /\ n - 1 \in Nat
  <2> HIDE DEF v, n
  <2> QED BY <1>2
<1>4. q \in Nat /\ (\A k \in D : k < q) /\ (q > 0 => q - 1 \in D)
  <2> HIDE DEF r, D
  <2> QED BY <1>1, SizeOf
<1>5. /\ t = [j \in 1 .. q |-> t[j]]
      /\ \A j \in 1 .. q : t[j] = At(R, j - 1)
  <2> HIDE DEF r
  <2> QED BY <1>1, ElementsAre
<1>6. \A k : At(v, k) = IF k \in DOMAIN m THEN m[k] ELSE NullValue
  BY Held
<1>7. \A k : At(R, k) = IF k \in D THEN r[k] ELSE NullValue
  <2> HIDE DEF r, D
  <2> QED BY <1>1, Held
<1>8. \A k \in D : r[k] = IF k < i THEN At(v, k) ELSE At(v, k + 1)
  <2> HIDE DEF v, D
  <2> QED OBVIOUS
<1>9. /\ s = [j \in 1 .. n - 1 |-> s[j]]
      /\ \A j \in 1 .. n - 1 : s[j] = At(v, IF j <= i THEN j - 1 ELSE j)
  <2> HIDE DEF v, n
  <2> QED OBVIOUS
<1>10. RemovesOne(v, i) <=> CutTo(s, t, HasGaps(v))
  <2>1. RemovesOne(v, i) <=> CutTo(s, Elements(RemoveIndex(v, i)), HasGaps(v))
    BY DEF RemovesOne
  <2> HIDE DEF s, v, R
  <2> QED BY <1>1, <2>1, Zenon
<1>11. \A k \in D : k \in Nat /\ k < n - 1
  <2> SUFFICES ASSUME NEW k \in D PROVE k \in Nat /\ k < n - 1
    OBVIOUS
  <2>1. (k \in DOMAIN m /\ k < i) \/ k \in i .. n - 2
    OBVIOUS
  <2> HIDE DEF n, D
  <2> QED BY <1>2, <1>3, <2>1
<1>12. q <= n - 1
  <2>1. CASE q > 0
    <3>1. q - 1 < n - 1
      BY <1>4, <1>11, <2>1
    <3> HIDE DEF n, q
    <3> QED BY <1>2, <1>4, <3>1
  <2>2. CASE ~(q > 0)
    <3> HIDE DEF n, q
    <3> QED BY <1>3, <1>4, <2>2
  <2> QED BY <2>1, <2>2
<1>13. \A j \in 1 .. q : t[j] = s[j]
  <2> SUFFICES ASSUME NEW j \in 1 .. q PROVE t[j] = s[j]
    OBVIOUS
  <2>1. /\ j \in 1 .. n - 1 /\ j \in Nat /\ j - 1 \in Nat /\ (j - 1) + 1 = j
        /\ j - 1 < i <=> j <= i
        /\ j - 1 >= i => j - 1 \in i .. n - 2
    <3> HIDE DEF n, q
    <3> QED BY <1>2, <1>3, <1>4, <1>12
  <2>2. t[j] = At(R, j - 1) /\ s[j] = At(v, IF j <= i THEN j - 1 ELSE j)
    <3> HIDE DEF n, q, s, t, R, v
    <3> QED BY <1>5, <1>9, <2>1
  <2>3. CASE j <= i
    <3>1. j - 1 \in D => At(R, j - 1) = At(v, j - 1)
      <4> HIDE DEF D, r, R, v
      <4> QED BY <1>7, <1>8, <2>1, <2>3
    <3>2. j - 1 \notin D => At(R, j - 1) = At(v, j - 1)
      <4>1. j - 1 \notin D => j - 1 \notin DOMAIN m
        <5> HIDE DEF n
        <5> QED BY <2>1, <2>3
      <4> HIDE DEF D, r, R, v
      <4> QED BY <1>6, <1>7, <4>1
    <3> HIDE DEF s, t, R, v, D
    <3> QED BY <2>2, <2>3, <3>1, <3>2
  <2>4. CASE ~(j <= i)
    <3>1. j - 1 >= i /\ ~(j - 1 < i)
      <4> HIDE DEF n, q
      <4> QED BY <1>3, <2>1, <2>4
    <3>2. j - 1 \in D
      <4> HIDE DEF n
      <4> QED BY <2>1, <3>1
    <3>3. At(R, j - 1) = At(v, j)
      <4> HIDE DEF D, r, R, v
      <4> QED BY <1>7, <1>8, <2>1, <3>1, <3>2
    <3> HIDE DEF s, t, R, v
    <3> QED BY <2>2, <2>4, <3>3
  <2> QED BY <2>3, <2>4
<1>14. ASSUME q < n - 1
       PROVE  HasGaps(v) /\ \A j \in q + 1 .. n - 1 : s[j] = NullValue
  <2>1. i = n - 1
    <3>1. ~(i <= n - 2)
      <4> SUFFICES ASSUME i <= n - 2 PROVE FALSE
        OBVIOUS
      <4>1. n - 2 \in D
        <5>1. n - 2 \in i .. n - 2
          <6> HIDE DEF n
          <6> QED BY <1>2, <1>3
        <5> HIDE DEF n
        <5> QED BY <5>1
      <4>2. n - 2 < q
        BY <1>4, <4>1
      <4> HIDE DEF n, q
      <4> QED BY <1>2, <1>4, <1>14, <4>2
    <3> HIDE DEF n
    <3> QED BY <1>2, <1>3, <3>1
  <2>2. D = {k \in DOMAIN m : k < n - 1}
    <3>1. i .. n - 2 = {}
      <4> HIDE DEF n
      <4> QED BY <1>2, <2>1
    <3> HIDE DEF n
    <3> QED BY <2>1, <3>1
  <2>3. HasGaps(v) /\ \A k \in q .. (n - 1) - 1 : At(v, k) = NullValue
    <3>1. n - 1 <= Size(v)
      <4>1. n - 1 <= n
        <5> HIDE DEF n
        <5> QED BY <1>2
      <4> QED BY <4>1
    <3> DEFINE p == n - 1
    <3>2. p \in Nat /\ p <= Size(v) /\ DOMAIN r = {k \in DOMAIN m : k < p} /\ q < p
      BY <1>1, <1>3, <1>14, <2>2, <3>1
    <3> HIDE DEF p, r
    <3>3. HasGaps(v) /\ \A k \in q .. p - 1 : At(v, k) = NullValue
      BY <1>1, <3>2, Shortened
    <3> QED BY <3>3 DEF p
  <2>4. ASSUME NEW j \in q + 1 .. n - 1 PROVE s[j] = NullValue
    <3>1. j \in 1 .. n - 1 /\ j <= i /\ j - 1 \in q .. (n - 1) - 1
      <4> HIDE DEF n, q
      <4> QED BY <1>2, <1>4, <2>1, <2>4
    <3> HIDE DEF n, q, s, v
    <3> QED BY <1>9, <2>3, <3>1
  <2> QED BY <2>3, <2>4
<1>15. HasGaps(v) \in BOOLEAN
  BY DEF HasGaps
<1>16. CutTo(s, t, HasGaps(v))
  <2> DEFINE p == n - 1
  <2>1. /\ p \in Nat /\ q \in Nat /\ q <= p
        /\ s = [j \in 1 .. p |-> s[j]] /\ t = [j \in 1 .. q |-> t[j]]
        /\ \A j \in 1 .. q : t[j] = s[j]
        /\ q < p => HasGaps(v) /\ \A j \in q + 1 .. p : s[j] = NullValue
    BY <1>3, <1>4, <1>5, <1>9, <1>12, <1>13, <1>14
  <2> HIDE DEF p, q, s, t, v
  <2> QED BY <1>15, <2>1, CutToIf
<1> QED BY <1>10, <1>16

LEMMA ResizesToAlways ==
  ASSUME NEW m, IsMap(m), NEW n \in Nat
  PROVE  ResizesTo(Holding("array", m), n)
<1> DEFINE v == Holding("array", m)
           R == Resize(v, n)
           s == [j \in 1 .. n |-> At(v, j - 1)]
           t == Elements(R)
<1>1. Become(v, "array") = v /\ Keys(v) = DOMAIN m /\ IsValue(v) /\ v.type = "array"
      /\ v.map = m
  <2>1. Keys(v) = DOMAIN m /\ IsValue(v) /\ v.type = "array" /\ v.map = m
    BY Held
  <2> QED BY <2>1 DEF Become
<1>2. Size(v) \in Nat /\ (\A k \in DOMAIN m : k < Size(v)) /\ DOMAIN m \subseteq Nat
  BY SizeOf DEF IsMap
<1>3. \A k : At(v, k) = IF k \in DOMAIN m THEN m[k] ELSE NullValue
  BY Held
<1>4. /\ s = [j \in 1 .. n |-> s[j]]
      /\ \A j \in 1 .. n : s[j] = At(v, j - 1)
  <2> HIDE DEF v
  <2> QED OBVIOUS
<1>5. HasGaps(v) \in BOOLEAN
  BY DEF HasGaps
\* What remains to be shown of either case.
<1>6. ASSUME NEW r, IsMap(r), R = Holding("array", r),
             Size(R) <= n,
             \A k \in Nat : k < Size(R) => At(R, k) = At(v, k),
             Size(R) < n => HasGaps(v) /\ \A k \in Size(R) .. n - 1 : At(v, k) = NullValue
      PROVE  ResizesTo(v, n)
  <2> DEFINE q == Size(R)
  <2>1. q \in Nat
    <3>1. Size(Holding("array", r)) \in Nat
      BY <1>6, SizeOf
    <3> HIDE DEF R
    <3> QED BY <1>6, <3>1
  <2>2. /\ t = [j \in 1 .. q |-> t[j]]
        /\ \A j \in 1 .. q : t[j] = At(R, j - 1)
    <3>1. LET u == Holding("array", r)
          IN  /\ Elements(u) = [j \in 1 .. Size(u) |-> Elements(u)[j]]
              /\ \A j \in 1 .. Size(u) : Elements(u)[j] = At(u, j - 1)
      BY <1>6, ElementsAre
    <3> HIDE DEF R
    <3> QED BY <1>6, <3>1
  <2>3. \A j \in 1 .. q : t[j] = s[j]
    <3> SUFFICES ASSUME NEW j \in 1 .. q PROVE t[j] = s[j]
      OBVIOUS
    <3>1. j - 1 \in Nat /\ j - 1 < q /\ j \in 1 .. n
      <4>1. q <= n
        BY <1>6
      <4> HIDE DEF q
      <4> QED BY <2>1, <4>1
    <3> HIDE DEF s, t, R, v
    <3> QED BY <1>4, <1>6, <2>2, <3>1
  <2>4. ASSUME q < n PROVE HasGaps(v) /\ \A j \in q + 1 .. n : s[j] = NullValue
    <3>1. HasGaps(v) /\ \A k \in q .. n - 1 : At(v, k) = NullValue
      BY <1>6, <2>4
    <3>2. ASSUME NEW j \in q + 1 .. n PROVE s[j] = NullValue
      <4>1. j \in 1 .. n /\ j - 1 \in q .. n - 1
        <5> HIDE DEF q
        <5> QED BY <2>1, <3>2
      <4> HIDE DEF q, s, v
      <4> QED BY <1>4, <3>1, <4>1
    <3> QED BY <3>1, <3>2
  <2>5. CutTo(s, t, HasGaps(v))
    <3>1. q <= n
      BY <1>6
    <3> HIDE DEF q, s, t, v
    <3> QED BY <1>4, <1>5, <2>1, <2>2, <2>3, <2>4, <3>1, CutToIf
  <2>6. ResizeFails(v, n) => HasGaps(v)
    <3>1. ResizeFails(v, n) => q # n
      BY DEF ResizeFails
    <3>2. q <= n
      BY <1>6
    <3> HIDE DEF q, v
    <3> QED BY <2>1, <2>4, <3>1, <3>2
  <2> QED BY <2>5, <2>6 DEF ResizesTo
<1>7. ASSUME n <= Size(v) PROVE ResizesTo(v, n)
  <2> DEFINE r == [j \in {k \in DOMAIN m : k < n} |-> m[j]]
             q == Size(Holding("array", r))
  <2>1. R = Holding("array", r) /\ IsMap(r)
    <3>1. LET w == Become(v, "array")
              cut == [j \in {k \in Keys(w) : k < n} |-> w.map[j]]
          IN  R = Holding("array", cut) /\ IsMap(cut)
      <4>1. n <= Size(Become(v, "array"))
        BY <1>1, <1>7
      <4> HIDE DEF v
      <4> QED BY <1>1, <4>1, Resized
    <3> HIDE DEF v, R
    <3> QED BY <1>1, <3>1
  <2>2. DOMAIN r = {k \in DOMAIN m : k < n}
    OBVIOUS
  <2>3. /\ q \in Nat /\ q <= n
        /\ q < n => HasGaps(v) /\ \A k \in q .. n - 1 : At(v, k) = NullValue
    <3> HIDE DEF r
    <3> QED BY <1>7, <2>1, <2>2, Shortened
  <2>4. ASSUME NEW k \in Nat, k < q PROVE At(R, k) = At(v, k)
    <3>1. k < n
      <4> HIDE DEF q
      <4> QED BY <2>3, <2>4
    <3>2. At(R, k) = IF k \in DOMAIN r THEN r[k] ELSE NullValue
      <4>1. At(Holding("array", r), k) = IF k \in DOMAIN r THEN r[k] ELSE NullValue
        <5> HIDE DEF r
        <5> QED BY <2>1, Held
      <4> HIDE DEF R, r
      <4> QED BY <2>1, <4>1
    <3> HIDE DEF R, v
    <3> QED BY <1>3, <3>1, <3>2
  <2>5. q = Size(R)
    <3> HIDE DEF R, r
    <3> QED BY <2>1
  <2>6. /\ Size(R) <= n
        /\ \A k \in Nat : k < Size(R) => At(R, k) = At(v, k)
        /\ Size(R) < n => HasGaps(v) /\ \A k \in Size(R) .. n - 1 : At(v, k) = NullValue
    <3> HIDE DEF R, v, q
    <3> QED BY <2>3, <2>4, <2>5
  <2> HIDE DEF r, R, v
  <2> QED BY <1>6, <2>1, <2>6, Zenon
<1>8. ASSUME n > Size(v) PROVE ResizesTo(v, n)
  <2> DEFINE D == DOMAIN m \cup {n - 1}
             r == [j \in D |-> At(v, j)]
  <2>1. R = Holding("array", r) /\ IsMap(r)
    <3>1. LET w == Become(v, "array")
              grown == [j \in Keys(w) \cup {n - 1} |-> At(w, j)]
          IN  R = Holding("array", grown) /\ IsMap(grown)
      <4>1. n > Size(Become(v, "array"))
        BY <1>1, <1>8
      <4> HIDE DEF v
      <4> QED BY <1>1, <4>1, Resized
    <3> HIDE DEF v, R
    <3> QED BY <1>1, <3>1
  <2>2. Size(R) = n
    <3>1. \A k \in DOMAIN r : k < n
      <4>1. \A k \in DOMAIN m : k < n
        <5> HIDE DEF v
        <5> QED BY <1>2, <1>8
      <4> QED BY <4>1
    <3>2. n - 1 \in DOMAIN r
      OBVIOUS
    <3>3. Size(Holding("array", r)) = n
      <4> HIDE DEF r
      <4> QED BY <2>1, <3>1, <3>2, SizeIs
    <3> HIDE DEF R, r
    <3> QED BY <2>1, <3>3
  <2>3. ASSUME NEW k \in Nat PROVE At(R, k) = At(v, k)
    <3>1. At(R, k) = IF k \in D THEN At(v, k) ELSE NullValue
      <4>1. DOMAIN r = D
        OBVIOUS
      <4>2. At(Holding("array", r), k) = IF k \in D THEN r[k] ELSE NullValue
        <5> HIDE DEF r, D
        <5> QED BY <2>1, <4>1, Held
      <4>3. k \in D => r[k] = At(v, k)
        <5> HIDE DEF D, v
        <5> QED OBVIOUS
      <4> HIDE DEF R, r, D, v
      <4> QED BY <2>1, <4>2, <4>3
    <3>2. k \notin D => k \notin DOMAIN m
      OBVIOUS
    <3> HIDE DEF R, D, v
    <3> QED BY <1>3, <3>1, <3>2
  <2>4. Size(R) <= n /\ ~(Size(R) < n)
    <3> HIDE DEF R
    <3> QED BY <2>2
  <2> HIDE DEF r, R, v
  <2> QED BY <1>6, <2>1, <2>3, <2>4, Zenon
<1>9. n <= Size(v) \/ n > Size(v)
  <2> HIDE DEF v
  <2> QED BY <1>2
<1> QED BY <1>7, <1>8, <1>9

(***************************************************************************)
(* removeIndex takes one element out of an array of any size, with gaps    *)
(* anywhere, and moves the ones behind it one place forward; resize cuts   *)
(* the array or fills it up with nulls, and its assertion fails only where *)
(* an element was never stored (jsoncpp.cpp, Value::removeIndex and        *)
(* Value::resize).                                                         *)
(***************************************************************************)
THEOREM EditedAsASequence == Spec => []EditsAsASequence
<1>1. TypeOK => EditsAsASequence
  <2> SUFFICES ASSUME TypeOK, value.type = "array"
               PROVE  /\ \A i \in Keys(value) : RemovesOne(value, i)
                      /\ \A n \in 0 .. MaxIndex + 1 : ResizesTo(value, n)
    BY DEF EditsAsASequence
  <2>1. value = Holding("array", value.map) /\ IsMap(value.map)
    BY Holds DEF TypeOK
  <2>2. ASSUME NEW i \in Keys(value) PROVE RemovesOne(value, i)
    <3>1. RemovesOne(Holding("array", value.map), i)
      BY <2>1, RemovesOneAlways DEF Keys
    <3> QED BY <2>1, <3>1, Zenon
  <2>3. ASSUME NEW n \in 0 .. MaxIndex + 1 PROVE ResizesTo(value, n)
    <3>1. n \in Nat
      BY IndexAssumption
    <3>2. ResizesTo(Holding("array", value.map), n)
      BY <2>1, <3>1, ResizesToAlways
    <3> QED BY <2>1, <3>2, Zenon
  <2> QED BY <2>2, <2>3
<1> QED BY <1>1, ValueStaysTyped, PTL

-----------------------------------------------------------------------------
(***************************************************************************)
(* The values inside of others, by their depth.                            *)
(***************************************************************************)
LEMMA LevelsAre ==
  ASSUME NEW V
  PROVE  /\ Levels(V)[0] = V \cup {NullValue}
         /\ \A d \in 1 .. MaxNesting : Levels(V)[d] = Inner(Levels(V)[d - 1])
         /\ DOMAIN Levels(V) = 0 .. MaxNesting
<1> DEFINE n == MaxNesting
           top == V \cup {NullValue}
           is(g, m) == g = [d \in 0 .. m |-> IF d = 0 THEN top ELSE Inner(g[d - 1])]
           B == {m \in 0 .. n : \E g : is(g, m)}
           L == CHOOSE g : is(g, n)
<1>1. n \in Nat
  BY NestingAssumption
<1>2. 0 \in B
  <2> DEFINE z == [d \in 0 .. 0 |-> top]
  <2>1. z = [d \in 0 .. 0 |-> IF d = 0 THEN top ELSE Inner(z[d - 1])]
    OBVIOUS
  <2>2. is(z, 0)
    BY <2>1
  <2> HIDE DEF is
  <2> QED BY <1>1, <2>2
<1>3. ASSUME NEW m \in B, m < n PROVE m + 1 \in B
  <2>1. PICK g : is(g, m)
    OBVIOUS
  <2>2. m \in Nat /\ m + 1 \in 0 .. n
    BY <1>1, <1>3
  <2> DEFINE h == [d \in 0 .. m + 1 |-> IF d = m + 1 THEN Inner(g[m]) ELSE g[d]]
  <2>3. \A d \in 0 .. m : g[d] = IF d = 0 THEN top ELSE Inner(g[d - 1])
    BY <2>1
  <2>4. \A d \in 0 .. m + 1 : h[d] = IF d = m + 1 THEN Inner(g[m]) ELSE g[d]
    OBVIOUS
  <2>5. h = [d \in 0 .. m + 1 |-> h[d]]
    OBVIOUS
  <2> HIDE DEF h, is, top
  <2>6. ASSUME NEW d \in 0 .. m + 1 PROVE h[d] = IF d = 0 THEN top ELSE Inner(h[d - 1])
    <3>1. CASE d = 0
      <4>1. d \in 0 .. m /\ d # m + 1
        BY <2>2, <3>1
      <4> QED BY <2>3, <2>4, <3>1, <4>1
    <3>2. CASE d # 0 /\ d = m + 1
      <4>1. d - 1 = m /\ m \in 0 .. m + 1 /\ m # m + 1
        BY <2>2, <3>2
      <4> QED BY <2>4, <3>2, <4>1
    <3>3. CASE d # 0 /\ d # m + 1
      <4>1. d \in 0 .. m /\ d - 1 \in 0 .. m + 1 /\ d - 1 # m + 1
        BY <2>2, <3>3
      <4> QED BY <2>3, <2>4, <3>3, <4>1
    <3> QED BY <3>1, <3>2, <3>3
  <2>7. is(h, m + 1)
    BY <2>5, <2>6 DEF is
  <2> QED BY <2>2, <2>7
<1>4. n \in B
  <2>1. B \subseteq 0 .. n
    OBVIOUS
  <2> HIDE DEF B
  <2> QED BY <1>1, <1>2, <1>3, <2>1, LastPlace
<1>5. is(L, n)
  <2>1. \E g : is(g, n)
    BY <1>4
  <2> HIDE DEF is
  <2> QED BY <2>1
<1>6. Levels(V) = L
  BY DEF Levels
<1> HIDE DEF L
<1>7. /\ DOMAIN L = 0 .. n
      /\ \A d \in 0 .. n : L[d] = IF d = 0 THEN top ELSE Inner(L[d - 1])
  BY <1>5
<1>8. 0 \in 0 .. n /\ \A d \in 1 .. n : d \in 0 .. n /\ d # 0
  BY <1>1
<1> QED BY <1>6, <1>7, <1>8

\* What is at depth d of V or deeper, and the null.
Behind(V, d) == {NullValue} \cup UNION {Levels(V)[e] : e \in d .. MaxNesting}

\* Values that nest no deeper than the bound.
Shallow(V) == Inner(Levels(V)[MaxNesting]) = {}

LEMMA InsideIs ==
  ASSUME NEW V
  PROVE  /\ Inside(V) = Behind(V, 0)
         /\ V \subseteq Inside(V)
         /\ NullValue \in Inside(V)
<1>1. MaxNesting \in Nat /\ 0 \in 0 .. MaxNesting
  BY NestingAssumption
<1>2. Levels(V)[0] = V \cup {NullValue} /\ DOMAIN Levels(V) = 0 .. MaxNesting
  BY LevelsAre
<1>3. Range(Levels(V)) = {Levels(V)[e] : e \in 0 .. MaxNesting}
  BY <1>2 DEF Range
<1>4. V \cup {NullValue} \subseteq Inside(V)
  BY <1>1, <1>2, <1>3 DEF Inside
<1> QED BY <1>3, <1>4 DEF Inside, Behind

\* The elements of a value are one level deeper.
LEMMA ElementsBehind ==
  ASSUME NEW V, Shallow(V), NEW d \in 0 .. MaxNesting
  PROVE  /\ \A x \in Behind(V, d) : IsComplex(x) =>
              \A k \in Keys(x) : d < MaxNesting /\ x.map[k] \in Behind(V, d + 1)
         /\ d < MaxNesting => Behind(V, d + 1) \subseteq Behind(V, d)
         /\ Behind(V, d) \subseteq Inside(V)
<1>1. MaxNesting \in Nat /\ d \in Nat
  BY NestingAssumption
<1>2. ASSUME NEW x \in Behind(V, d), IsComplex(x), NEW k \in Keys(x)
      PROVE  d < MaxNesting /\ x.map[k] \in Behind(V, d + 1)
  <2>1. x # NullValue
    BY <1>2 DEF IsComplex, NullValue
  <2>2. PICK e \in d .. MaxNesting : x \in Levels(V)[e]
    BY <2>1 DEF Behind
  <2>3. x.map[k] \in Inner(Levels(V)[e])
    BY <1>2, <2>2 DEF Inner, Keys, Range
  <2>4. e # MaxNesting
    BY <2>3 DEF Shallow
  <2>5. e + 1 \in d + 1 .. MaxNesting /\ e + 1 \in 1 .. MaxNesting /\ (e + 1) - 1 = e /\ d < MaxNesting
    BY <1>1, <2>4
  <2>6. Levels(V)[e + 1] = Inner(Levels(V)[e])
    BY <2>5, LevelsAre
  <2> QED BY <2>3, <2>5, <2>6 DEF Behind
<1>3. d + 1 .. MaxNesting \subseteq d .. MaxNesting /\ d .. MaxNesting \subseteq 0 .. MaxNesting
  BY <1>1
<1>4. Behind(V, d + 1) \subseteq Behind(V, d) /\ Behind(V, d) \subseteq Behind(V, 0)
  BY <1>3 DEF Behind
<1> QED BY <1>2, <1>4, InsideIs

-----------------------------------------------------------------------------
(***************************************************************************)
(* The order of values is defined for all of them.                         *)
(***************************************************************************)
IsOrder(g, A) == g = [p \in A \X A |-> LessBy(g, p[1], p[2])]

Agree(g, h, A) == \A x, y \in A : g[<<x, y>>] = h[<<x, y>>]

\* The elements of v are in A.
Contains(A, v) == IsComplex(v) => \A k \in Keys(v) : v.map[k] \in A

LEMMA LessLocal ==
  ASSUME NEW A, NEW v, NEW w, NEW g, NEW h, Agree(g, h, A), Contains(A, v), Contains(A, w)
  PROVE  LessBy(g, v, w) = LessBy(h, v, w)
<1>1. ASSUME v.type = w.type, IsComplex(v)
      PROVE  LessMap(g, v.map, w.map) <=> LessMap(h, v.map, w.map)
  <2>1. IsComplex(w)
    BY <1>1 DEF IsComplex
  <2>2. \A j \in DOMAIN v.map \cap DOMAIN w.map :
          /\ g[<<v.map[j], w.map[j]>>] = h[<<v.map[j], w.map[j]>>]
          /\ g[<<w.map[j], v.map[j]>>] = h[<<w.map[j], v.map[j]>>]
    BY <1>1, <2>1 DEF Keys, Agree, Contains
  <2> QED BY <2>2, Zenon DEF LessMap
<1> QED BY <1>1 DEF LessBy

LEMMA OrderExists ==
  ASSUME NEW V, Shallow(V)
  PROVE  IsOrder(LessThan(V), Inside(V))
<1> DEFINE n == MaxNesting
           S(b) == Behind(V, n - b)
           B == {b \in 0 .. n : \E g : IsOrder(g, S(b))}
<1>1. n \in Nat
  BY NestingAssumption
<1>2. 0 \in B
  <2> DEFINE g == [p \in S(0) \X S(0) |-> LessBy(<< >>, p[1], p[2])]
  <2>1. Agree(g, << >>, {}) /\ \A x \in S(0) : Contains({}, x)
    <3>1. n - 0 = n /\ n \in 0 .. n /\ ~(n < n)
      BY <1>1
    <3> HIDE DEF g
    <3> QED BY <3>1, ElementsBehind DEF Agree, Contains
  <2>2. \A v, w \in S(0) : LessBy(g, v, w) = LessBy(<< >>, v, w)
    <3> HIDE DEF g, S
    <3> QED BY <2>1, LessLocal
  <2>3. ASSUME NEW p \in S(0) \X S(0) PROVE LessBy(<< >>, p[1], p[2]) = LessBy(g, p[1], p[2])
    <3> HIDE DEF g, S
    <3> QED BY <2>2
  <2>4. g = [p \in S(0) \X S(0) |-> LessBy(g, p[1], p[2])]
    BY <2>3
  <2>5. IsOrder(g, S(0))
    BY <2>4 DEF IsOrder
  <2> QED BY <1>1, <2>5
<1>3. ASSUME NEW b \in B, b < n PROVE b + 1 \in B
  <2>1. PICK g : IsOrder(g, S(b))
    OBVIOUS
  <2>2. PICK A : A = S(b)
    OBVIOUS
  <2>3. PICK C : C = S(b + 1)
    OBVIOUS
  <2>4. A \subseteq C /\ \A x \in C : Contains(A, x)
    <3>1. n - (b + 1) \in 0 .. n /\ n - b = (n - (b + 1)) + 1 /\ n - (b + 1) < n
      BY <1>1, <1>3
    <3> QED BY <2>2, <2>3, <3>1, ElementsBehind DEF Contains
  <2> DEFINE h == [p \in C \X C |-> LessBy(g, p[1], p[2])]
  <2>5. \A p \in C \X C : h[p] = LessBy(g, p[1], p[2])
    OBVIOUS
  <2>6. h = [p \in C \X C |-> h[p]]
    OBVIOUS
  <2> HIDE DEF h
  <2>7. \A p \in A \X A : g[p] = LessBy(g, p[1], p[2])
    BY <2>1, <2>2 DEF IsOrder
  <2>8. Agree(g, h, A)
    <3>1. ASSUME NEW x \in A, NEW y \in A PROVE g[<<x, y>>] = h[<<x, y>>]
      <4>1. <<x, y>> \in A \X A /\ <<x, y>> \in C \X C
        BY <2>4
      <4> QED BY <2>5, <2>7, <4>1
    <3> QED BY <3>1 DEF Agree
  <2>9. ASSUME NEW p \in C \X C PROVE h[p] = LessBy(h, p[1], p[2])
    <3>1. p[1] \in C /\ p[2] \in C
      OBVIOUS
    <3>2. LessBy(g, p[1], p[2]) = LessBy(h, p[1], p[2])
      BY <2>4, <2>8, <3>1, LessLocal
    <3> QED BY <2>5, <3>2
  <2>10. IsOrder(h, C)
    BY <2>6, <2>9 DEF IsOrder
  <2>11. b + 1 \in 0 .. n
    BY <1>1, <1>3
  <2> QED BY <2>3, <2>10, <2>11
<1>4. n \in B
  <2>1. B \subseteq 0 .. n
    OBVIOUS
  <2> HIDE DEF B
  <2> QED BY <1>1, <1>2, <1>3, <2>1, LastPlace
<1>5. PICK g : IsOrder(g, Inside(V))
  <2>1. n - n = 0
    BY <1>1
  <2> QED BY <1>4, <2>1, InsideIs
<1> DEFINE L == CHOOSE f : f = [p \in Inside(V) \X Inside(V) |-> LessBy(f, p[1], p[2])]
<1>6. LessThan(V) = L
  BY DEF LessThan
<1>7. L = [p \in Inside(V) \X Inside(V) |-> LessBy(L, p[1], p[2])]
  BY <1>5 DEF IsOrder
<1> QED BY <1>6, <1>7 DEF IsOrder

-----------------------------------------------------------------------------
(***************************************************************************)
(* The order is strict and total, if it is on the elements.                *)
(***************************************************************************)
Before(less, v, w) == less[<<v, w>>]

Irreflexive(less, A) == \A v \in A : ~Before(less, v, v)
Transitive(less, A) ==
  \A u, v, w \in A : Before(less, u, v) /\ Before(less, v, w) => Before(less, u, w)
Connected(less, A) == \A v, w \in A : v = w \/ Before(less, v, w) \/ Before(less, w, v)

StrictTotal(less, A) == Irreflexive(less, A) /\ Transitive(less, A) /\ Connected(less, A)

IsMapTo(f, A) ==
  f = [k \in DOMAIN f |-> f[k]] /\ DOMAIN f \subseteq Nat /\ \A k \in DOMAIN f : f[k] \in A

\* Maps f and g are the same below k, and f comes first at k.
SameBelow(f, g, k) ==
  \A j \in DOMAIN f \cup DOMAIN g : j < k => j \in DOMAIN f \cap DOMAIN g /\ f[j] = g[j]
FirstAt(less, f, g, k) ==
  \/ k \in DOMAIN f \ DOMAIN g
  \/ k \in DOMAIN f \cap DOMAIN g /\ Before(less, f[k], g[k])

LEMMA LessMapIs ==
  ASSUME NEW less, NEW A, StrictTotal(less, A), NEW f, IsMapTo(f, A), NEW g, IsMapTo(g, A)
  PROVE  LessMap(less, f, g) <=>
           \E k \in DOMAIN f \cup DOMAIN g : SameBelow(f, g, k) /\ FirstAt(less, f, g, k)
<1>1. \A j \in DOMAIN f \cap DOMAIN g :
        ~Before(less, f[j], g[j]) /\ ~Before(less, g[j], f[j]) <=> f[j] = g[j]
  BY DEF StrictTotal, Irreflexive, Connected, IsMapTo
<1>2. ASSUME NEW k \in DOMAIN f \cup DOMAIN g
      PROVE  (\A j \in DOMAIN f \cup DOMAIN g : j < k =>
                j \in DOMAIN f \cap DOMAIN g
                  /\ ~Before(less, f[j], g[j]) /\ ~Before(less, g[j], f[j]))
               <=> SameBelow(f, g, k)
  BY <1>1 DEF SameBelow
<1>3. LessMap(less, f, g) <=>
        \E k \in DOMAIN f \cup DOMAIN g :
          /\ \A j \in DOMAIN f \cup DOMAIN g : j < k =>
               j \in DOMAIN f \cap DOMAIN g
                 /\ ~Before(less, f[j], g[j]) /\ ~Before(less, g[j], f[j])
          /\ FirstAt(less, f, g, k)
  BY Zenon DEF LessMap, FirstAt, Before
<1> QED BY <1>2, <1>3

LEMMA MapsIrreflexive ==
  ASSUME NEW less, NEW A, StrictTotal(less, A), NEW f, IsMapTo(f, A)
  PROVE  ~LessMap(less, f, f)
<1>1. \A k \in DOMAIN f : ~FirstAt(less, f, f, k)
  BY DEF FirstAt, StrictTotal, Irreflexive, IsMapTo
<1> QED BY <1>1, LessMapIs

LEMMA MapsConnected ==
  ASSUME NEW less, NEW A, StrictTotal(less, A), NEW f, IsMapTo(f, A), NEW g, IsMapTo(g, A),
         IsFiniteSet(DOMAIN f), IsFiniteSet(DOMAIN g), f # g
  PROVE  LessMap(less, f, g) \/ LessMap(less, g, f)
<1> DEFINE D == {k \in DOMAIN f \cup DOMAIN g : ~(k \in DOMAIN f \cap DOMAIN g /\ f[k] = g[k])}
<1>1. D # {}
  <2>1. D = {} => DOMAIN f = DOMAIN g /\ \A k \in DOMAIN f : f[k] = g[k]
    OBVIOUS
  <2> HIDE DEF D
  <2> QED BY <2>1 DEF IsMapTo
<1>2. D \subseteq Nat /\ IsFiniteSet(D)
  <2>1. IsFiniteSet(DOMAIN f \cup DOMAIN g) /\ D \subseteq DOMAIN f \cup DOMAIN g
    BY FS_Union
  <2>2. IsFiniteSet(D)
    BY <2>1, FS_Subset
  <2> QED BY <2>1, <2>2 DEF IsMapTo
<1>3. PICK k \in D : \A j \in D : k <= j
  <2> HIDE DEF D
  <2> QED BY <1>1, <1>2, LeastIs
<1>4. k \in DOMAIN f \cup DOMAIN g /\ k \in Nat
  BY <1>2
<1>5. ASSUME NEW j \in DOMAIN f \cup DOMAIN g, j < k
      PROVE  j \in DOMAIN f \cap DOMAIN g /\ f[j] = g[j]
  <2>1. ~(k <= j)
    BY <1>4, <1>5 DEF IsMapTo
  <2> QED BY <1>3, <2>1
<1>6. SameBelow(f, g, k) /\ SameBelow(g, f, k)
  BY <1>5 DEF SameBelow
<1>7. FirstAt(less, f, g, k) \/ FirstAt(less, g, f, k)
  <2>1. CASE k \in DOMAIN f \cap DOMAIN g
    <3>1. f[k] \in A /\ g[k] \in A /\ f[k] # g[k]
      BY <2>1 DEF IsMapTo
    <3> QED BY <2>1, <3>1 DEF FirstAt, StrictTotal, Connected
  <2>2. CASE k \notin DOMAIN f \cap DOMAIN g
    BY <1>4, <2>2 DEF FirstAt
  <2> QED BY <2>1, <2>2
<1> HIDE DEF D
<1> QED BY <1>4, <1>6, <1>7, LessMapIs

LEMMA MapsTransitive ==
  ASSUME NEW less, NEW A, StrictTotal(less, A), NEW f, IsMapTo(f, A), NEW g, IsMapTo(g, A),
         NEW h, IsMapTo(h, A), LessMap(less, f, g), LessMap(less, g, h)
  PROVE  LessMap(less, f, h)
<1>1. PICK k \in DOMAIN f \cup DOMAIN g : SameBelow(f, g, k) /\ FirstAt(less, f, g, k)
  BY LessMapIs
<1>2. PICK l \in DOMAIN g \cup DOMAIN h : SameBelow(g, h, l) /\ FirstAt(less, g, h, l)
  BY LessMapIs
<1>3. k \in Nat /\ l \in Nat /\ DOMAIN f \cup DOMAIN g \cup DOMAIN h \subseteq Nat
  BY DEF IsMapTo
<1>4. ASSUME NEW m \in Nat, m <= k, m <= l PROVE SameBelow(f, h, m)
  <2>1. ASSUME NEW j \in DOMAIN f \cup DOMAIN h, j < m
        PROVE  j \in DOMAIN f \cap DOMAIN h /\ f[j] = h[j]
    <3>1. j < k /\ j < l
      BY <1>3, <1>4, <2>1
    <3> QED BY <1>1, <1>2, <3>1 DEF SameBelow
  <2> QED BY <2>1 DEF SameBelow
<1>5. CASE k = l
  <2>1. k \in DOMAIN f /\ k \in DOMAIN g /\ Before(less, f[k], g[k])
    BY <1>1, <1>2, <1>5 DEF FirstAt
  <2>2. k \in DOMAIN h => Before(less, g[k], h[k])
    BY <1>2, <1>5 DEF FirstAt
  <2>3. k \in DOMAIN h => Before(less, f[k], h[k])
    BY <2>1, <2>2 DEF IsMapTo, StrictTotal, Transitive
  <2>4. FirstAt(less, f, h, k)
    BY <2>1, <2>3 DEF FirstAt
  <2>5. SameBelow(f, h, k)
    BY <1>3, <1>4, <1>5
  <2> QED BY <2>1, <2>4, <2>5, LessMapIs
<1>6. CASE k < l
  <2>1. k \in DOMAIN g \cup DOMAIN h => k \in DOMAIN g \cap DOMAIN h /\ g[k] = h[k]
    BY <1>2, <1>6 DEF SameBelow
  <2>2. k \in DOMAIN f /\ FirstAt(less, f, h, k)
    BY <1>1, <2>1 DEF FirstAt
  <2>3. SameBelow(f, h, k)
    BY <1>3, <1>4, <1>6
  <2> QED BY <2>2, <2>3, LessMapIs
<1>7. CASE l < k
  <2>1. l \in DOMAIN f \cup DOMAIN g => l \in DOMAIN f \cap DOMAIN g /\ f[l] = g[l]
    BY <1>1, <1>7 DEF SameBelow
  <2>2. l \in DOMAIN f /\ FirstAt(less, f, h, l)
    BY <1>2, <2>1 DEF FirstAt
  <2>3. SameBelow(f, h, l)
    BY <1>3, <1>4, <1>7
  <2> QED BY <2>2, <2>3, LessMapIs
<1> QED BY <1>3, <1>5, <1>6, <1>7

(***************************************************************************)
(* The same of values.                                                     *)
(***************************************************************************)
\* A value whose string, if it is one, has a place in the order of memcmp.
Sound(v) == IsValue(v) /\ (v.type = "string" => v.str \in Int)

LEMMA RanksApart ==
  /\ \A t \in ValueType : TypeRank[t] \in Nat
  /\ \A t, u \in ValueType : TypeRank[t] = TypeRank[u] => t = u
BY DEF ValueType, TypeRank

LEMMA SoundIs ==
  ASSUME NEW v, Sound(v)
  PROVE  /\ v.type \in ValueType
         /\ v.type = "null" => v = NullValue
         /\ v.type \in {"int", "uint"} => v.num \in Int /\ v = [type |-> v.type, num |-> v.num]
         /\ v.type = "real" => v.half \in Int /\ v = RealValue(v.half)
         /\ v.type = "boolean" => v.bool \in BOOLEAN /\ v = BoolValue(v.bool)
         /\ v.type = "string" => v.str \in Int /\ v = StringValue(v.str)
         /\ IsComplex(v) => v = [type |-> v.type, map |-> v.map] /\ IsMap(v.map)
<1>0. minInt64 \in Int /\ maxInt64 \in Int /\ maxUInt64 \in Int
  BY Bounds
<1>1. CASE v \in Scalar
  <2>1. CASE v = NullValue
    BY <2>1 DEF NullValue, ValueType, TypeRank, IsComplex
  <2>2. CASE v \in [type : {"boolean"}, bool : BOOLEAN]
    BY <2>2 DEF BoolValue, ValueType, TypeRank, IsComplex
  <2>3. CASE v \in [type : {"int"}, num : minInt64 .. maxInt64]
    BY <1>0, <2>3 DEF ValueType, TypeRank, IsComplex
  <2>4. CASE v \in [type : {"uint"}, num : 0 .. maxUInt64]
    BY <1>0, <2>4 DEF ValueType, TypeRank, IsComplex
  <2>5. CASE v \in [type : {"real"}, half : Int]
    BY <2>5 DEF RealValue, ValueType, TypeRank, IsComplex
  <2> QED BY <1>1, <2>1, <2>2, <2>3, <2>4, <2>5 DEF Scalar
<1>2. CASE v.type = "string" /\ v = StringValue(v.str)
  BY <1>2 DEF Sound, ValueType, TypeRank, IsComplex
<1>3. CASE v.type \in {"array", "object"} /\ v = [type |-> v.type, map |-> v.map] /\ IsMap(v.map)
  BY <1>3 DEF ValueType, TypeRank, IsComplex
<1> QED BY <1>1, <1>2, <1>3 DEF Sound, IsValue

LEMMA ScalarsOrdered ==
  ASSUME NEW v, NEW w, NEW u, Sound(v), Sound(w), Sound(u), v.type = w.type, u.type = v.type,
         ~IsComplex(v)
  PROVE  /\ ~LessScalar(v, v)
         /\ v = w \/ LessScalar(v, w) \/ LessScalar(w, v)
         /\ LessScalar(u, v) /\ LessScalar(v, w) => LessScalar(u, w)
<1>1. v.type \in {"null", "int", "uint", "real", "string", "boolean"}
  BY SoundIs DEF ValueType, TypeRank, IsComplex
<1>2. CASE v.type = "null"
  BY <1>2, SoundIs DEF LessScalar
<1>3. CASE v.type \in {"int", "uint"}
  <2>1. v.num \in Int /\ w.num \in Int /\ u.num \in Int /\ (v.num = w.num => v = w)
    BY <1>3, SoundIs
  <2>2. \A x, y : x.type = v.type => (LessScalar(x, y) <=> x.num < y.num)
    BY <1>3 DEF LessScalar
  <2> QED BY <2>1, <2>2
<1>4. CASE v.type = "real"
  <2>1. v.half \in Int /\ w.half \in Int /\ u.half \in Int /\ (v.half = w.half => v = w)
    BY <1>4, SoundIs
  <2>2. \A x, y : x.type = v.type => (LessScalar(x, y) <=> x.half < y.half)
    BY <1>4 DEF LessScalar
  <2> QED BY <2>1, <2>2
<1>5. CASE v.type = "string"
  <2>1. v.str \in Int /\ w.str \in Int /\ u.str \in Int /\ (v.str = w.str => v = w)
    BY <1>5, SoundIs
  <2>2. \A x, y : x.type = v.type => (LessScalar(x, y) <=> x.str < y.str)
    BY <1>5 DEF LessScalar
  <2> QED BY <2>1, <2>2
<1>6. CASE v.type = "boolean"
  <2>1. v.bool \in BOOLEAN /\ w.bool \in BOOLEAN /\ u.bool \in BOOLEAN /\ (v.bool = w.bool => v = w)
    BY <1>6, SoundIs
  <2>2. \A x, y : x.type = v.type => (LessScalar(x, y) <=> ~x.bool /\ y.bool)
    BY <1>6 DEF LessScalar
  <2> QED BY <2>1, <2>2
<1> QED BY <1>1, <1>2, <1>3, <1>4, <1>5, <1>6

\* What orders two containers of one type.
LessComplex(less, v, w) ==
  \/ Cardinality(Keys(v)) < Cardinality(Keys(w))
  \/ Cardinality(Keys(v)) = Cardinality(Keys(w)) /\ LessMap(less, v.map, w.map)

LEMMA ContainersOrdered ==
  ASSUME NEW less, NEW A, StrictTotal(less, A), NEW v, NEW w, NEW u,
         Sound(v), Sound(w), Sound(u), v.type = w.type, u.type = v.type, IsComplex(v),
         Contains(A, v), Contains(A, w), Contains(A, u)
  PROVE  /\ ~LessComplex(less, v, v)
         /\ v = w \/ LessComplex(less, v, w) \/ LessComplex(less, w, v)
         /\ LessComplex(less, u, v) /\ LessComplex(less, v, w) => LessComplex(less, u, w)
<1>1. IsComplex(w) /\ IsComplex(u)
  BY DEF IsComplex
<1>2. /\ IsMapTo(v.map, A) /\ IsMapTo(w.map, A) /\ IsMapTo(u.map, A)
      /\ IsFiniteSet(Keys(v)) /\ IsFiniteSet(Keys(w)) /\ IsFiniteSet(Keys(u))
      /\ v.map = w.map => v = w
  BY <1>1, SoundIs DEF IsMapTo, IsMap, Contains, Keys
<1>3. /\ Cardinality(Keys(v)) \in Nat /\ Cardinality(Keys(w)) \in Nat
      /\ Cardinality(Keys(u)) \in Nat
  BY <1>2, FS_CardinalityType
<1>4. ~LessMap(less, v.map, v.map)
  BY <1>2, MapsIrreflexive
<1>5. v.map = w.map \/ LessMap(less, v.map, w.map) \/ LessMap(less, w.map, v.map)
  BY <1>2, MapsConnected DEF Keys
<1>6. LessMap(less, u.map, v.map) /\ LessMap(less, v.map, w.map) => LessMap(less, u.map, w.map)
  BY <1>2, MapsTransitive
<1> QED BY <1>2, <1>3, <1>4, <1>5, <1>6 DEF LessComplex

LEMMA ValuesOrdered ==
  ASSUME NEW less, NEW A, StrictTotal(less, A), NEW C,
         \A v \in C : Sound(v) /\ Contains(A, v),
         \A v, w \in C : Before(less, v, w) <=> LessBy(less, v, w)
  PROVE  StrictTotal(less, C)
<1>1. \A v, w : LessBy(less, v, w) <=>
        \/ TypeRank[v.type] < TypeRank[w.type]
        \/ v.type = w.type /\ ~IsComplex(v) /\ LessScalar(v, w)
        \/ v.type = w.type /\ IsComplex(v) /\ LessComplex(less, v, w)
  BY DEF LessBy, LessComplex
<1>2. \A v \in C : v.type \in ValueType /\ TypeRank[v.type] \in Nat
  BY SoundIs, RanksApart
<1>3. \A v, w \in C : TypeRank[v.type] = TypeRank[w.type] => v.type = w.type
  BY <1>2, RanksApart
<1>4. ASSUME NEW v \in C PROVE ~LessBy(less, v, v)
  <2>1. IsComplex(v) => ~LessComplex(less, v, v)
    BY ContainersOrdered
  <2>2. ~IsComplex(v) => ~LessScalar(v, v)
    BY ScalarsOrdered
  <2> QED BY <1>1, <1>2, <2>1, <2>2
<1>5. ASSUME NEW v \in C, NEW w \in C PROVE v = w \/ LessBy(less, v, w) \/ LessBy(less, w, v)
  <2>1. CASE v.type # w.type
    BY <1>1, <1>2, <1>3, <2>1
  <2>2. CASE v.type = w.type /\ IsComplex(v)
    <3>1. v = w \/ LessComplex(less, v, w) \/ LessComplex(less, w, v)
      BY <2>2, ContainersOrdered
    <3>2. IsComplex(w)
      BY <2>2 DEF IsComplex
    <3> QED BY <1>1, <2>2, <3>1, <3>2
  <2>3. CASE v.type = w.type /\ ~IsComplex(v)
    <3>1. v = w \/ LessScalar(v, w) \/ LessScalar(w, v)
      BY <2>3, ScalarsOrdered
    <3>2. ~IsComplex(w)
      BY <2>3 DEF IsComplex
    <3> QED BY <1>1, <2>3, <3>1, <3>2
  <2> QED BY <2>1, <2>2, <2>3
<1>6. ASSUME NEW u \in C, NEW v \in C, NEW w \in C, LessBy(less, u, v), LessBy(less, v, w)
      PROVE  LessBy(less, u, w)
  <2>1. TypeRank[u.type] <= TypeRank[v.type] /\ TypeRank[v.type] <= TypeRank[w.type]
    BY <1>1, <1>2, <1>6
  <2>2. CASE TypeRank[u.type] < TypeRank[w.type]
    BY <1>1, <2>2
  <2>3. CASE TypeRank[u.type] = TypeRank[w.type]
    <3>1. TypeRank[u.type] = TypeRank[v.type] /\ TypeRank[v.type] = TypeRank[w.type]
      BY <1>2, <2>1, <2>3
    <3>2. u.type = v.type /\ v.type = w.type
      BY <1>3, <3>1
    <3>3. (IsComplex(u) <=> IsComplex(v)) /\ (IsComplex(w) <=> IsComplex(v))
      BY <3>2 DEF IsComplex
    <3>4. /\ ~(TypeRank[u.type] < TypeRank[v.type])
          /\ ~(TypeRank[v.type] < TypeRank[w.type])
      BY <1>2, <3>1
    <3>5. CASE IsComplex(v)
      <4>1. LessComplex(less, u, v) /\ LessComplex(less, v, w)
        BY <1>1, <1>6, <3>3, <3>4, <3>5
      <4>2. LessComplex(less, u, w)
        BY <3>2, <3>3, <3>5, <4>1, ContainersOrdered
      <4> QED BY <1>1, <3>2, <3>3, <3>5, <4>2
    <3>6. CASE ~IsComplex(v)
      <4>1. LessScalar(u, v) /\ LessScalar(v, w)
        BY <1>1, <1>6, <3>3, <3>4, <3>6
      <4>2. LessScalar(u, w)
        BY <3>2, <3>3, <3>6, <4>1, ScalarsOrdered
      <4> QED BY <1>1, <3>2, <3>3, <3>6, <4>2
    <3> QED BY <3>5, <3>6
  <2> QED BY <1>2, <2>1, <2>2, <2>3
<1> QED BY <1>4, <1>5, <1>6 DEF StrictTotal, Irreflexive, Connected, Transitive

LEMMA InsideOrdered ==
  ASSUME NEW V, Shallow(V), \A v \in Inside(V) : Sound(v)
  PROVE  StrictTotal(LessThan(V), Inside(V))
<1> DEFINE n == MaxNesting
           less == LessThan(V)
           S(b) == Behind(V, n - b)
           B == {b \in 0 .. n : StrictTotal(less, S(b))}
<1>1. n \in Nat
  BY NestingAssumption
<1>2. IsOrder(less, Inside(V))
  BY OrderExists
<1>3. \A v, w \in Inside(V) : Before(less, v, w) <=> LessBy(less, v, w)
  <2> HIDE DEF less
  <2>1. ASSUME NEW v \in Inside(V), NEW w \in Inside(V)
        PROVE  Before(less, v, w) <=> LessBy(less, v, w)
    <3>1. <<v, w>> \in Inside(V) \X Inside(V) /\ <<v, w>>[1] = v /\ <<v, w>>[2] = w
      OBVIOUS
    <3>2. less[<<v, w>>] = LessBy(less, v, w)
      BY <1>2, <3>1 DEF IsOrder
    <3> QED BY <3>2 DEF Before
  <2> QED BY <2>1
<1> HIDE DEF less
<1>4. 0 \in B
  <2>1. PICK C : C = S(0)
    OBVIOUS
  <2>2. n - 0 = n /\ n \in 0 .. n /\ ~(n < n)
    BY <1>1
  <2>3. C \subseteq Inside(V) /\ \A v \in C : Contains({}, v)
    BY <2>1, <2>2, ElementsBehind DEF Contains
  <2>4. StrictTotal(less, {})
    BY DEF StrictTotal, Irreflexive, Connected, Transitive
  <2>5. StrictTotal(less, C)
    BY <1>3, <2>3, <2>4, ValuesOrdered
  <2> QED BY <1>1, <2>1, <2>5
<1>5. ASSUME NEW b \in B, b < n PROVE b + 1 \in B
  <2>1. PICK C : C = S(b + 1)
    OBVIOUS
  <2>2. PICK A : A = S(b)
    OBVIOUS
  <2>3. n - (b + 1) \in 0 .. n /\ n - b = (n - (b + 1)) + 1 /\ n - (b + 1) < n
    BY <1>1, <1>5
  <2>4. C \subseteq Inside(V) /\ \A v \in C : Contains(A, v)
    BY <2>1, <2>2, <2>3, ElementsBehind DEF Contains
  <2>5. StrictTotal(less, A)
    BY <2>2
  <2>6. StrictTotal(less, C)
    BY <1>3, <2>4, <2>5, ValuesOrdered
  <2>7. b + 1 \in 0 .. n
    BY <1>1, <1>5
  <2> QED BY <2>1, <2>6, <2>7
<1>6. n \in B
  <2>1. B \subseteq 0 .. n
    OBVIOUS
  <2> HIDE DEF B
  <2> QED BY <1>1, <1>4, <1>5, <2>1, LastPlace
<1>7. n - n = 0
  BY <1>1
<1> QED BY <1>6, <1>7, InsideIs DEF less

-----------------------------------------------------------------------------
(***************************************************************************)
(* What the calls leave in a value comes from the value, from the call, or *)
(* is a null.                                                              *)
(***************************************************************************)
Fits(P, v) == Sound(v) /\ Contains(P, v)

LEMMA HeldFits ==
  ASSUME NEW P, NEW t \in {"array", "object"}, NEW m, IsMap(m), \A k \in DOMAIN m : m[k] \in P
  PROVE  Fits(P, Holding(t, m))
<1>1. /\ IsValue(Holding(t, m)) /\ Holding(t, m).type = t /\ Holding(t, m).map = m
      /\ Keys(Holding(t, m)) = DOMAIN m
  BY Held
<1> QED BY <1>1 DEF Fits, Sound, Contains

LEMMA ElementFits ==
  ASSUME NEW P, NullValue \in P, NEW v, Fits(P, v), NEW k
  PROVE  At(v, k) \in P
BY DEF At, Present, Fits, Contains

LEMMA BecomeFits ==
  ASSUME NEW P, NEW v, Fits(P, v), NEW t \in {"array", "object"}
  PROVE  Fits(P, Become(v, t))
<1>1. Fits(P, Holding(t, NoElements))
  BY Nothing, HeldFits
<1>2. Holding(t, NoElements) = DefaultOf(t)
  BY DEF Holding, DefaultOf, ArrayValue, ObjectValue
<1> QED BY <1>1, <1>2 DEF Become

LEMMA TouchFits ==
  ASSUME NEW P, NullValue \in P, NEW v, Fits(P, v), NEW t \in {"array", "object"},
         v.type \in {"null", t}, NEW k \in Nat
  PROVE  Fits(P, Touch(v, t, k))
<1> DEFINE w == Become(v, t)
           m == [j \in Keys(w) \cup {k} |-> At(w, j)]
<1>1. Touch(v, t, k) = Holding(t, m) /\ IsMap(m)
  BY Touched DEF Fits, Sound
<1>2. Fits(P, w)
  BY BecomeFits
<1> HIDE DEF w
<1>3. \A j \in DOMAIN m : m[j] \in P
  BY <1>2, ElementFits
<1> HIDE DEF m
<1> QED BY <1>1, <1>3, HeldFits

LEMMA PutFits ==
  ASSUME NEW P, NullValue \in P, NEW v, Fits(P, v), NEW t \in {"array", "object"},
         v.type \in {"null", t}, NEW k \in Nat, NEW x \in P
  PROVE  Fits(P, Put(v, t, k, x))
<1> DEFINE w == Become(v, t)
           m == [j \in Keys(w) \cup {k} |-> At(w, j)]
           n == [m EXCEPT ![k] = x]
<1>1. Touch(v, t, k) = Holding(t, m) /\ IsMap(m)
  BY Touched DEF Fits, Sound
<1>2. Fits(P, w)
  BY BecomeFits
<1> HIDE DEF w
<1>3. \A j \in DOMAIN m : m[j] \in P
  BY <1>2, ElementFits
<1> HIDE DEF m
<1>4. Put(v, t, k, x) = Holding(t, n)
  <2>1. Put(v, t, k, x) = [Holding(t, m) EXCEPT !.map[k] = x]
    BY <1>1 DEF Put
  <2> QED BY <2>1 DEF Holding
<1>5. DOMAIN n = DOMAIN m /\ \A j \in DOMAIN n : n[j] = IF j = k THEN x ELSE m[j]
  OBVIOUS
<1>6. n = [j \in DOMAIN m |-> n[j]]
  OBVIOUS
<1> HIDE DEF n
<1>7. IsMap(n)
  BY <1>1, <1>5, <1>6 DEF IsMap
<1>8. \A j \in DOMAIN n : n[j] \in P
  BY <1>3, <1>5
<1> QED BY <1>4, <1>7, <1>8, HeldFits

LEMMA ClearFits ==
  ASSUME NEW P, NEW v, Fits(P, v)
  PROVE  Fits(P, Clear(v))
<1>1. CASE IsComplex(v)
  <2>1. Fits(P, Holding(v.type, NoElements))
    BY <1>1, Nothing, HeldFits DEF IsComplex
  <2>2. Clear(v) = Holding(v.type, NoElements)
    BY <1>1 DEF Clear, IsComplex, Holding, DefaultOf, ArrayValue, ObjectValue
  <2> QED BY <2>1, <2>2
<1>2. CASE ~IsComplex(v)
  BY <1>2 DEF Clear
<1> QED BY <1>1, <1>2

LEMMA ResizeFits ==
  ASSUME NEW P, NullValue \in P, NEW v, Fits(P, v), v.type \in {"null", "array"}, NEW n \in Nat
  PROVE  Fits(P, Resize(v, n))
<1> DEFINE w == Become(v, "array")
           cut == [j \in {k \in Keys(w) : k < n} |-> w.map[j]]
           grown == [j \in Keys(w) \cup {n - 1} |-> At(w, j)]
<1>1. IsValue(v)
  BY DEF Fits, Sound
<1>2. /\ n <= Size(w) => Resize(v, n) = Holding("array", cut) /\ IsMap(cut)
      /\ n > Size(w) => Resize(v, n) = Holding("array", grown) /\ IsMap(grown)
  BY <1>1, Resized
<1>3. w = Holding("array", w.map) /\ IsMap(w.map)
  BY <1>1, Became
<1>4. Fits(P, w)
  BY BecomeFits
<1>5. Size(w) \in Nat
  BY <1>3, SizeOf
<1>6. IsComplex(w)
  BY <1>3, Held
<1> HIDE DEF w
<1>7. \A j \in DOMAIN cut : cut[j] \in P
  BY <1>4, <1>6 DEF Fits, Contains
<1>8. \A j \in DOMAIN grown : grown[j] \in P
  BY <1>4, ElementFits
<1> HIDE DEF cut, grown
<1>9. n <= Size(w) \/ n > Size(w)
  BY <1>5
<1>10. CASE n <= Size(w)
  BY <1>2, <1>7, <1>10, HeldFits
<1>11. CASE n > Size(w)
  BY <1>2, <1>8, <1>11, HeldFits
<1> QED BY <1>9, <1>10, <1>11

LEMMA RemoveIndexFits ==
  ASSUME NEW P, NullValue \in P, NEW v, Fits(P, v), NEW i
  PROVE  Fits(P, RemoveIndex(v, i))
<1>1. CASE v.type # "array" \/ ~Present(v, i)
  BY <1>1 DEF RemoveIndex
<1>2. CASE v.type = "array" /\ Present(v, i)
  <2>1. v = Holding("array", v.map) /\ IsMap(v.map)
    BY <1>2, Holds DEF Fits, Sound
  <2>2. i \in DOMAIN v.map
    BY <1>2 DEF Present, Keys
  <2> DEFINE D == {k \in DOMAIN v.map : k < i} \cup i .. Size(v) - 2
             n == [j \in D |-> IF j < i THEN At(v, j) ELSE At(v, j + 1)]
  <2>3. RemoveIndex(v, i) = Holding("array", n) /\ IsMap(n)
    BY <2>1, <2>2, Removed
  <2>4. \A j \in DOMAIN n : n[j] \in P
    <3> HIDE DEF D
    <3> QED BY ElementFits
  <2> HIDE DEF n
  <2> QED BY <2>3, <2>4, HeldFits
<1> QED BY <1>1, <1>2

LEMMA RemoveMemberFits ==
  ASSUME NEW P, NEW v, Fits(P, v), NEW k
  PROVE  Fits(P, RemoveMember(v, k))
<1>1. CASE v.type # "object"
  BY <1>1 DEF RemoveMember
<1>2. CASE v.type = "object"
  <2>1. v = Holding("object", v.map) /\ IsMap(v.map)
    BY <1>2, Holds DEF Fits, Sound
  <2> DEFINE n == [j \in DOMAIN v.map \ {k} |-> v.map[j]]
  <2>2. Without(Holding("object", v.map), {k}) = Holding("object", n) /\ IsMap(n)
    BY <2>1, WithoutIs
  <2>3. \A j \in DOMAIN n : n[j] \in P
    BY <1>2 DEF Fits, Contains, IsComplex, Keys
  <2> HIDE DEF n
  <2>4. RemoveMember(v, k) = Holding("object", n)
    BY <1>2, <2>1, <2>2 DEF RemoveMember
  <2> QED BY <2>2, <2>3, <2>4, HeldFits
<1> QED BY <1>1, <1>2

-----------------------------------------------------------------------------
\* All that is ever inside of the root.
Parts == Inner(Given) \cup Element \cup {NullValue}

\* The root holds nothing else.
RootFits == Fits(Parts, value)

LEMMA GivenFits ==
  /\ \A v \in Given : Fits(Parts, v)
  /\ \A v \in Given \cup Element \cup Compared : Sound(v)
<1>1. Given \cup Element \cup Compared \subseteq Inside(Given \cup Element \cup Compared)
  BY InsideIs
<1>2. \A v \in Given \cup Element \cup Compared : Sound(v)
  <2>1. \A k \in Name \cup {NullPointer} : k \in Int
    BY NameAssumption DEF NullPointer
  <2>2. \A v \in Inside(Given \cup Element \cup Compared) :
          IsValue(v) /\ (v.type = "string" => v.str \in Name \cup {NullPointer})
    BY NestingAssumption
  <2> QED BY <1>1, <2>1, <2>2 DEF Sound
<1>3. ASSUME NEW v \in Given, IsComplex(v), NEW k \in Keys(v) PROVE v.map[k] \in Parts
  BY <1>3 DEF Parts, Inner, Range, Keys
<1> QED BY <1>2, <1>3 DEF Fits, Contains

LEMMA CallFits ==
  ASSUME RootFits, NEW allowed \in BOOLEAN, NEW v, allowed => Fits(Parts, v), Call(allowed, v)
  PROVE  RootFits'
BY DEF Call, RootFits, Fits, Sound, Contains, Parts, Inner

LEMMA RootAlwaysFits == Spec => []RootFits
<1>1. Init => RootFits
  BY DEF Init, RootFits, Fits, Sound, Contains, DefaultOf, IsValue, Scalar, NullValue, IsComplex
<1>2. RootFits /\ [Next]_vars => RootFits'
  <2> SUFFICES ASSUME RootFits, [Next]_vars PROVE RootFits'
    OBVIOUS
  <2>1. Fits(Parts, value) /\ NullValue \in Parts /\ Element \subseteq Parts
    BY DEF RootFits, Parts
  <2>2. /\ \A i \in Index : i \in Nat
        /\ \A k \in Name : k \in Nat
        /\ \A n \in 0 .. MaxIndex + 1 : n \in Nat
    BY IndexAssumption, NameAssumption DEF Index
  <2>3. /\ MayIndex(value) => value.type \in {"null", "array"}
        /\ MayName(value) => value.type \in {"null", "object"}
    BY DEF MayIndex, MayName
  <2>4. MayIndex(value) \in BOOLEAN /\ MayName(value) \in BOOLEAN
    BY DEF MayIndex, MayName
  <2>5. ASSUME NEW v \in Given, Assign(v) PROVE RootFits'
    <3>1. Fits(Parts, v)
      BY GivenFits
    <3> QED BY <2>5, <3>1, CallFits DEF Assign
  <2>6. ASSUME NEW i \in Index, NEW x \in Element, SetElement(i, x) PROVE RootFits'
    <3>1. MayIndex(value) => Fits(Parts, Put(value, "array", i, x))
      BY <2>1, <2>2, <2>3, PutFits
    <3> QED BY <2>4, <2>6, <3>1, CallFits DEF SetElement
  <2>7. ASSUME NEW i \in Index, ReadElement(i) PROVE RootFits'
    <3>1. MayIndex(value) => Fits(Parts, Touch(value, "array", i))
      BY <2>1, <2>2, <2>3, TouchFits
    <3> QED BY <2>4, <2>7, <3>1, CallFits DEF ReadElement
  <2>8. ASSUME NEW i \in Index, RemoveAnIndex(i) PROVE RootFits'
    <3>1. Fits(Parts, RemoveIndex(value, i))
      BY <2>1, RemoveIndexFits
    <3> QED BY <2>8, <3>1, CallFits DEF RemoveAnIndex
  <2>9. ASSUME NEW k \in Name, NEW x \in Element, SetMember(k, x) PROVE RootFits'
    <3>1. MayName(value) => Fits(Parts, Put(value, "object", k, x))
      BY <2>1, <2>2, <2>3, PutFits
    <3> QED BY <2>4, <2>9, <3>1, CallFits DEF SetMember
  <2>10. ASSUME NEW k \in Name, ReadMember(k) PROVE RootFits'
    <3>1. MayName(value) => Fits(Parts, Touch(value, "object", k))
      BY <2>1, <2>2, <2>3, TouchFits
    <3> QED BY <2>4, <2>10, <3>1, CallFits DEF ReadMember
  <2>11. ASSUME NEW k \in Name, RemoveAMember(k) PROVE RootFits'
    <3>1. Fits(Parts, RemoveMember(value, k))
      BY <2>1, RemoveMemberFits
    <3> QED BY <2>4, <2>11, <3>1, CallFits DEF RemoveAMember
  <2>12. ASSUME NEW x \in Element, AppendElement(x) PROVE RootFits'
    <3>1. MayIndex(value) => Fits(Parts, AppendValue(value, x))
      BY <2>1, <2>3, SizeInNat, PutFits DEF AppendValue, Fits, Sound
    <3> QED BY <2>4, <2>12, <3>1, CallFits DEF AppendElement
  <2>13. CASE ClearValue
    <3>1. Fits(Parts, Clear(value))
      BY <2>1, ClearFits
    <3>2. (value.type \in {"null", "array", "object"}) \in BOOLEAN
      OBVIOUS
    <3> QED BY <2>13, <3>1, <3>2, CallFits DEF ClearValue
  <2>14. ASSUME NEW n \in 0 .. MaxIndex + 1, ResizeArray(n) PROVE RootFits'
    <3>1. CASE ~MayIndex(value)
      BY <2>1, <2>14, <3>1, CallFits DEF ResizeArray
    <3>2. CASE MayIndex(value)
      <4>1. Fits(Parts, Resize(value, n))
        BY <2>1, <2>2, <2>3, <3>2, ResizeFits
      <4>2. value' = Resize(value, n)
        BY <2>14, <3>2 DEF ResizeArray
      <4> QED BY <4>1, <4>2 DEF RootFits
    <3> QED BY <3>1, <3>2
  <2>15. CASE UNCHANGED vars
    BY <2>15 DEF vars, RootFits
  <2> QED
    BY <2>5, <2>6, <2>7, <2>8, <2>9, <2>10, <2>11, <2>12, <2>13, <2>14, <2>15 DEF Next
<1> QED BY <1>1, <1>2, PTL DEF Spec

(***************************************************************************)
(* So what is inside of the root and of what it is compared with nests no  *)
(* deeper than the bound.                                                  *)
(***************************************************************************)
LEMMA InnerOf ==
  /\ \A V, W : V \subseteq W => Inner(V) \subseteq Inner(W)
  /\ \A V, W, X : V \subseteq W \cup X => Inner(V) \subseteq Inner(W) \cup Inner(X)
BY DEF Inner

LEMMA LevelsGrow ==
  ASSUME NEW V, NEW W, V \subseteq W, NEW d \in 0 .. MaxNesting
  PROVE  Levels(V)[d] \subseteq Levels(W)[d] /\ Levels(W)[d] \subseteq Inside(W)
<1> DEFINE B == {e \in 0 .. d : Levels(V)[e] \subseteq Levels(W)[e]}
<1>1. MaxNesting \in Nat /\ d \in Nat /\ 0 \in 0 .. d
  BY NestingAssumption
<1>2. 0 \in B
  BY <1>1, LevelsAre
<1>3. ASSUME NEW e \in B, e < d PROVE e + 1 \in B
  <2>1. e + 1 \in 1 .. MaxNesting /\ (e + 1) - 1 = e /\ e + 1 \in 0 .. d
    BY <1>1, <1>3
  <2>2. Levels(V)[e + 1] = Inner(Levels(V)[e]) /\ Levels(W)[e + 1] = Inner(Levels(W)[e])
    BY <2>1, LevelsAre
  <2>3. Levels(V)[e] \subseteq Levels(W)[e]
    OBVIOUS
  <2>4. Levels(V)[e + 1] \subseteq Levels(W)[e + 1]
    BY <2>2, <2>3, InnerOf
  <2> QED BY <2>1, <2>4
<1>4. d \in B
  <2>1. B \subseteq 0 .. d
    OBVIOUS
  <2> HIDE DEF B
  <2> QED BY <1>1, <1>2, <1>3, <2>1, LastPlace
<1>5. Levels(W)[d] \subseteq Inside(W)
  <2>1. d \in DOMAIN Levels(W)
    BY LevelsAre
  <2>2. Levels(W)[d] \in Range(Levels(W))
    BY <2>1 DEF Range
  <2> QED BY <2>2 DEF Inside
<1> QED BY <1>4, <1>5

\* What the root may be and be compared with, and all that is known of it.
World == Given \cup Element \cup Compared

LEMMA WorldSound == \A v \in Inside(World) : Sound(v)
<1>1. \A k \in Name \cup {NullPointer} : k \in Int
  BY NameAssumption DEF NullPointer
<1>2. \A v \in Inside(World) :
        IsValue(v) /\ (v.type = "string" => v.str \in Name \cup {NullPointer})
  BY NestingAssumption DEF World
<1> QED BY <1>1, <1>2 DEF Sound

LEMMA LevelsOfRoot ==
  ASSUME RootFits, NEW d \in 1 .. MaxNesting
  PROVE  Levels({value} \cup Compared)[d]
           \subseteq Levels(Given \cup Compared)[d] \cup Levels(Element)[d - 1]
<1> DEFINE V == {value} \cup Compared
           W == Given \cup Compared
           E == Element
           B == {e \in 0 .. d - 1 : Levels(V)[e + 1] \subseteq Levels(W)[e + 1] \cup Levels(E)[e]}
<1>1. MaxNesting \in Nat /\ d \in Nat /\ d - 1 \in Nat /\ 0 \in 0 .. d - 1
  BY NestingAssumption
<1>2. 0 \in B
  <2>1. 0 + 1 = 1 /\ 1 \in 1 .. MaxNesting /\ 1 - 1 = 0
    BY <1>1
  <2>2. /\ Levels(V)[0] = V \cup {NullValue} /\ Levels(W)[0] = W \cup {NullValue}
        /\ Levels(E)[0] = E \cup {NullValue}
        /\ Levels(V)[1] = Inner(Levels(V)[0]) /\ Levels(W)[1] = Inner(Levels(W)[0])
    BY <2>1, LevelsAre
  <2>3. Inner({value}) \subseteq Parts
    BY DEF RootFits, Fits, Contains, Inner, Range, Keys
  <2>4. Inner(V \cup {NullValue}) \subseteq Inner({value}) \cup Inner(Compared \cup {NullValue})
    <3>1. V \cup {NullValue} \subseteq {value} \cup (Compared \cup {NullValue})
      OBVIOUS
    <3> HIDE DEF V
    <3> QED BY ONLY <3>1, InnerOf
  <2>5. Inner(Compared \cup {NullValue}) \subseteq Inner(W \cup {NullValue})
    <3>1. Compared \cup {NullValue} \subseteq W \cup {NullValue}
      OBVIOUS
    <3> QED BY <3>1, InnerOf
  <2>6. Inner(Given) \subseteq Inner(W \cup {NullValue})
    <3>1. Given \subseteq W \cup {NullValue}
      OBVIOUS
    <3> QED BY <3>1, InnerOf
  <2>7. Levels(V)[1] \subseteq Levels(W)[1] \cup Levels(E)[0]
    <3> HIDE DEF V, W, E
    <3>1. Parts \subseteq Inner(W \cup {NullValue}) \cup (E \cup {NullValue})
      BY <2>6 DEF Parts, E
    <3> QED BY <2>2, <2>3, <2>4, <2>5, <3>1
  <2> QED BY <1>1, <2>1, <2>7
<1>3. ASSUME NEW e \in B, e < d - 1 PROVE e + 1 \in B
  <2>1. /\ e \in Nat /\ e + 1 \in 1 .. MaxNesting /\ (e + 1) + 1 \in 1 .. MaxNesting
        /\ ((e + 1) + 1) - 1 = e + 1 /\ (e + 1) - 1 = e /\ e + 1 \in 0 .. d - 1
    BY <1>1, <1>3
  <2>2. /\ Levels(V)[(e + 1) + 1] = Inner(Levels(V)[e + 1])
        /\ Levels(W)[(e + 1) + 1] = Inner(Levels(W)[e + 1])
        /\ Levels(E)[e + 1] = Inner(Levels(E)[e])
    <3> HIDE DEF V, W, E
    <3> QED BY <2>1, LevelsAre
  <2>3. Levels(V)[e + 1] \subseteq Levels(W)[e + 1] \cup Levels(E)[e]
    OBVIOUS
  <2>4. Levels(V)[(e + 1) + 1] \subseteq Levels(W)[(e + 1) + 1] \cup Levels(E)[e + 1]
    <3> HIDE DEF V, W, E
    <3>1. Inner(Levels(V)[e + 1]) \subseteq Inner(Levels(W)[e + 1]) \cup Inner(Levels(E)[e])
      BY ONLY <2>3, InnerOf
    <3> QED BY ONLY <2>2, <3>1
  <2> QED BY <2>1, <2>4
<1>4. d - 1 \in B
  <2>1. B \subseteq 0 .. d - 1
    OBVIOUS
  <2> HIDE DEF B
  <2> QED BY <1>1, <1>2, <1>3, <2>1, LastPlace
<1>5. (d - 1) + 1 = d
  BY <1>1
<1> QED BY <1>4, <1>5

LEMMA RootBounded ==
  ASSUME RootFits, NEW V, V \subseteq {value} \cup Compared
  PROVE  Shallow(V) /\ \A v \in Inside(V) : Sound(v)
<1> DEFINE n == MaxNesting
           U == {value} \cup Compared
<1>1. n \in 1 .. n /\ n \in 0 .. n /\ n - 1 \in 0 .. n /\ n \in Nat
  BY NestingAssumption
<1>2. Inner(Levels(V)[n]) = {}
  <2>1. Levels(V)[n] \subseteq Levels(U)[n]
    BY <1>1, LevelsGrow
  <2>2. Levels(U)[n] \subseteq Levels(Given \cup Compared)[n] \cup Levels(Element)[n - 1]
    BY <1>1, LevelsOfRoot
  <2>3. Levels(V)[n] \subseteq Levels(Given \cup Compared)[n] \cup Levels(Element)[n - 1]
    BY <2>1, <2>2
  <2>4. Inner(Levels(Given \cup Compared)[n]) = {} /\ Inner(Levels(Element)[n - 1]) = {}
    BY NestingAssumption
  <2>5. Inner(Levels(V)[n])
          \subseteq Inner(Levels(Given \cup Compared)[n]) \cup Inner(Levels(Element)[n - 1])
    <3>1. PICK X, Y, Z : X = Levels(V)[n] /\ Y = Levels(Given \cup Compared)[n] /\ Z = Levels(Element)[n - 1]
      OBVIOUS
    <3>2. X \subseteq Y \cup Z
      BY <2>3, <3>1
    <3>3. Inner(X) \subseteq Inner(Y) \cup Inner(Z)
      BY ONLY <3>2, InnerOf
    <3> QED BY <3>1, <3>3
  <2> QED BY <2>4, <2>5
<1>3. ASSUME NEW v \in Inside(V) PROVE Sound(v)
  <2>1. PICK d \in 0 .. n : v \in Levels(V)[d]
    BY LevelsAre DEF Inside, Range
  <2>2. v \in Levels(U)[d]
    BY <2>1, LevelsGrow
  <2>3. CASE d = 0
    <3>1. v \in {value} \cup Compared \cup {NullValue}
      BY <2>2, <2>3, LevelsAre
    <3>2. Sound(value)
      BY DEF RootFits, Fits
    <3>3. Compared \subseteq Inside(World) /\ NullValue \in Inside(World)
      BY InsideIs DEF World
    <3> QED BY <3>1, <3>2, <3>3, WorldSound
  <2>4. CASE d # 0
    <3>1. d \in 1 .. n /\ d - 1 \in 0 .. n
      BY <1>1, <2>4
    <3>2. v \in Levels(Given \cup Compared)[d] \/ v \in Levels(Element)[d - 1]
      BY <2>2, <3>1, LevelsOfRoot
    <3>3. Given \cup Compared \subseteq World /\ Element \subseteq World
      BY DEF World
    <3>4. v \in Inside(World)
      BY <3>1, <3>2, <3>3, LevelsGrow
    <3> QED BY <3>4, WorldSound
  <2> QED BY <2>3, <2>4
<1> QED BY <1>2, <1>3 DEF Shallow

(***************************************************************************)
(* operator< is a strict total order of all values that calls can make and *)
(* of those they are compared with, containers inside of containers, gaps  *)
(* and null pointers included (jsoncpp.cpp, Value::operator<).             *)
(***************************************************************************)
THEOREM ValuesAreOrdered == Spec => []OrderIsTotal
<1>1. RootFits => OrderIsTotal
  <2> SUFFICES ASSUME RootFits PROVE OrderIsTotal
    OBVIOUS
  <2> DEFINE U == {value} \cup Compared
             less == LessThan(U)
  <2>1. StrictTotal(less, Inside(U))
    BY RootBounded, InsideOrdered
  <2>2. value \in Inside(U) /\ Compared \subseteq Inside(U)
    BY InsideIs
  <2> HIDE DEF less, U
  <2>3. ASSUME NEW w \in Compared
        PROVE  Cardinality({c \in 1 .. 3 : \/ c = 1 /\ less[<<value, w>>]
                                           \/ c = 2 /\ Equals(value, w)
                                           \/ c = 3 /\ less[<<w, value>>]}) = 1
    <3> DEFINE S == {c \in 1 .. 3 : \/ c = 1 /\ less[<<value, w>>]
                                    \/ c = 2 /\ Equals(value, w)
                                    \/ c = 3 /\ less[<<w, value>>]}
    <3>1. w \in Inside(U)
      BY <2>2
    <3>2. less[<<value, w>>] \/ value = w \/ less[<<w, value>>]
      BY <2>1, <2>2, <3>1 DEF StrictTotal, Connected, Before
    <3>3. ~(less[<<value, w>>] /\ less[<<w, value>>])
      BY <2>1, <2>2, <3>1 DEF StrictTotal, Irreflexive, Transitive, Before
    <3>4. value = w => ~less[<<value, w>>] /\ ~less[<<w, value>>]
      BY <2>1, <2>2, <3>1 DEF StrictTotal, Irreflexive, Before
    <3>5. \E c \in 1 .. 3 : S = {c}
      <4>1. CASE value = w
        <5>1. S = {2}
          BY <3>4, <4>1 DEF Equals
        <5> QED BY <5>1
      <4>2. CASE value # w /\ less[<<value, w>>]
        <5>1. S = {1}
          BY <3>3, <4>2 DEF Equals
        <5> QED BY <5>1
      <4>3. CASE value # w /\ less[<<w, value>>]
        <5>1. S = {3}
          BY <3>3, <4>3 DEF Equals
        <5> QED BY <5>1
      <4> QED BY <3>2, <4>1, <4>2, <4>3
    <3> HIDE DEF S
    <3>6. Cardinality(S) = 1
      BY <3>5, FS_Singleton
    <3> QED BY <3>6 DEF S
  <2>4. ASSUME NEW w \in Compared, NEW u \in Compared, less[<<w, value>>], less[<<value, u>>]
        PROVE  less[<<w, u>>]
    <3>1. w \in Inside(U) /\ u \in Inside(U)
      BY <2>2
    <3> QED BY <2>1, <2>2, <2>4, <3>1 DEF StrictTotal, Transitive, Before
  <2> QED BY <2>3, <2>4 DEF OrderIsTotal, less, U
<1> QED BY <1>1, RootAlwaysFits, PTL

-----------------------------------------------------------------------------
(***************************************************************************)
(* The digits that are written for a number spell it.                      *)
(***************************************************************************)
Quotients(g, n, m) == g = [k \in 0 .. m |-> IF k = 0 THEN n ELSE g[k - 1] \div 10]

LEMMA QuotientsExist ==
  ASSUME NEW n \in Nat, NEW m \in Nat
  PROVE  \E g \in [0 .. m -> Nat] : Quotients(g, n, m)
<1> DEFINE B == {k \in 0 .. m : \E g \in [0 .. k -> Nat] : Quotients(g, n, k)}
<1>1. 0 \in B
  <2> DEFINE g == [k \in 0 .. 0 |-> n]
  <2>1. g \in [0 .. 0 -> Nat] /\ g = [k \in 0 .. 0 |-> IF k = 0 THEN n ELSE g[k - 1] \div 10]
    OBVIOUS
  <2>2. Quotients(g, n, 0)
    BY <2>1 DEF Quotients
  <2> HIDE DEF g
  <2> QED BY <2>1, <2>2
<1>2. ASSUME NEW k \in B, k < m PROVE k + 1 \in B
  <2>1. PICK g \in [0 .. k -> Nat] : Quotients(g, n, k)
    OBVIOUS
  <2>2. k \in Nat /\ k + 1 \in 0 .. m /\ k \in 0 .. k
    BY <1>2
  <2>3. \A i \in 0 .. k : g[i] = IF i = 0 THEN n ELSE g[i - 1] \div 10
    BY <2>1 DEF Quotients
  <2> DEFINE h == [i \in 0 .. k + 1 |-> IF i = k + 1 THEN g[k] \div 10 ELSE g[i]]
  <2>4. \A i \in 0 .. k + 1 : h[i] = IF i = k + 1 THEN g[k] \div 10 ELSE g[i]
    OBVIOUS
  <2>5. h \in [0 .. k + 1 -> Nat]
    <3>1. g[k] \in Nat /\ g[k] \div 10 \in Nat
      BY <2>2
    <3>2. ASSUME NEW i \in 0 .. k + 1, i # k + 1 PROVE g[i] \in Nat
      <4>1. i \in 0 .. k
        BY <2>2, <3>2
      <4> QED BY <4>1
    <3> QED BY <3>1, <3>2
  <2>6. h = [i \in 0 .. k + 1 |-> h[i]]
    OBVIOUS
  <2> HIDE DEF h
  <2>7. ASSUME NEW i \in 0 .. k + 1 PROVE h[i] = IF i = 0 THEN n ELSE h[i - 1] \div 10
    <3>1. CASE i = 0
      <4>1. i \in 0 .. k /\ i # k + 1
        BY <2>2, <3>1
      <4> QED BY <2>3, <2>4, <3>1, <4>1
    <3>2. CASE i # 0 /\ i = k + 1
      <4>1. i - 1 = k /\ k \in 0 .. k + 1 /\ k # k + 1
        BY <2>2, <3>2
      <4>2. h[i] = g[k] \div 10 /\ h[i - 1] = g[k]
        BY <2>4, <3>2, <4>1
      <4> QED BY <3>2, <4>2
    <3>3. CASE i # 0 /\ i # k + 1
      <4>1. i \in 0 .. k /\ i - 1 \in 0 .. k + 1 /\ i - 1 # k + 1
        BY <2>2, <3>3
      <4>2. h[i] = g[i] /\ h[i - 1] = g[i - 1]
        BY <2>4, <3>3, <4>1
      <4> QED BY <2>3, <3>3, <4>1, <4>2
    <3> QED BY <3>1, <3>2, <3>3
  <2>8. Quotients(h, n, k + 1)
    BY <2>6, <2>7 DEF Quotients
  <2> QED BY <2>2, <2>5, <2>8
<1>3. m \in B
  <2>1. B \subseteq 0 .. m
    OBVIOUS
  <2> HIDE DEF B
  <2> QED BY <1>1, <1>2, <2>1, LastPlace
<1> QED BY <1>3

LEMMA QuotientsEnd ==
  ASSUME NEW n \in Nat, NEW g \in [0 .. n + 1 -> Nat], Quotients(g, n, n + 1)
  PROVE  /\ g[0] = n /\ \A k \in 1 .. n + 1 : g[k] = g[k - 1] \div 10
         /\ \E k \in 1 .. n + 1 : g[k] = 0 /\ (k = 1 \/ g[k - 1] # 0)
<1>1. \A k \in 0 .. n + 1 : g[k] = IF k = 0 THEN n ELSE g[k - 1] \div 10
  BY DEF Quotients
<1>2. g[0] = n /\ \A k \in 1 .. n + 1 : g[k] = g[k - 1] \div 10
  BY <1>1
<1> DEFINE B == {k \in 0 .. n + 1 : g[k] = 0 \/ g[k] + k <= n}
           Z == {k \in 1 .. n + 1 : g[k] = 0}
<1>3. n + 1 \in B
  <2>1. 0 \in B
    BY <1>2
  <2>2. ASSUME NEW k \in B, k < n + 1 PROVE k + 1 \in B
    <3>1. k \in Nat /\ k + 1 \in 1 .. n + 1 /\ (k + 1) - 1 = k /\ g[k] \in Nat /\ k + 1 \in 0 .. n + 1
      BY <2>2
    <3>2. PICK a \in Nat : a = g[k]
      BY <3>1
    <3>3. g[k + 1] = a \div 10
      BY <1>2, <3>1, <3>2
    <3>4. a = 0 => a \div 10 = 0
      OBVIOUS
    <3>5. a # 0 => a \div 10 + 1 <= a
      OBVIOUS
    <3>6. a = 0 \/ a + k <= n
      BY <3>2
    <3>7. a \div 10 \in Nat
      OBVIOUS
    <3>8. PICK b \in Nat : b = a \div 10
      BY <3>7
    <3>9. b = 0 \/ b + (k + 1) <= n
      BY <3>1, <3>4, <3>5, <3>6, <3>8
    <3> QED BY <3>1, <3>3, <3>8, <3>9
  <2>3. B \subseteq 0 .. n + 1 /\ n + 1 \in Nat
    OBVIOUS
  <2> HIDE DEF B
  <2> QED BY <2>1, <2>2, <2>3, LastPlace
<1>4. n + 1 \in Z
  <2>1. g[n + 1] \in Nat
    OBVIOUS
  <2> QED BY <1>3, <2>1
<1>5. Z \subseteq Nat /\ IsFiniteSet(Z) /\ Z # {}
  <2>1. IsFiniteSet(1 .. n + 1) /\ Z \subseteq 1 .. n + 1
    BY FS_Interval
  <2>2. IsFiniteSet(Z)
    <3> HIDE DEF Z
    <3> QED BY <2>1, FS_Subset
  <2>3. Z # {}
    BY <1>4
  <2> QED BY <2>1, <2>2, <2>3
<1>6. PICK k \in Z : \A j \in Z : k <= j
  <2> HIDE DEF Z
  <2> QED BY <1>5, LeastIs
<1>7. k = 1 \/ g[k - 1] # 0
  <2> SUFFICES ASSUME k # 1, g[k - 1] = 0 PROVE FALSE
    OBVIOUS
  <2>1. k - 1 \in Z /\ ~(k <= k - 1)
    OBVIOUS
  <2> QED BY <1>6, <2>1
<1> QED BY <1>2, <1>6, <1>7

LEMMA DigitsSpell ==
  ASSUME NEW n \in Nat
  PROVE  Digits(n) \in Seq(0 .. 9) /\ Numeral(Digits(n)) = n
<1> DEFINE left == CHOOSE g : g = [k \in 0 .. n + 1 |-> IF k = 0 THEN n ELSE g[k - 1] \div 10]
           ends(k) == left[k] = 0 /\ (k = 1 \/ left[k - 1] # 0)
           length == CHOOSE k \in 1 .. n + 1 : ends(k)
           digits == [i \in 1 .. length |-> left[length - i] % 10]
<1>1. Digits(n) = digits
  BY DEF Digits
<1>2. Quotients(left, n, n + 1)
  <2>1. n + 1 \in Nat
    OBVIOUS
  <2>2. \E g : Quotients(g, n, n + 1)
    BY <2>1, QuotientsExist
  <2>3. left = CHOOSE g : Quotients(g, n, n + 1)
    BY DEF Quotients
  <2> HIDE DEF left
  <2> QED BY <2>2, <2>3
<1> HIDE DEF left
<1>4. left \in [0 .. n + 1 -> Nat]
  <2> DEFINE B == {k \in 0 .. n + 1 : left[k] \in Nat}
  <2>1. left = [k \in 0 .. n + 1 |-> IF k = 0 THEN n ELSE left[k - 1] \div 10]
    BY <1>2 DEF Quotients
  <2>2. \A k \in 0 .. n + 1 : left[k] = IF k = 0 THEN n ELSE left[k - 1] \div 10
    BY <2>1
  <2>3. left = [k \in 0 .. n + 1 |-> left[k]]
    BY <2>1, <2>2
  <2>4. ASSUME NEW k \in 0 .. n + 1 PROVE left[k] \in Nat
    <3> DEFINE C == {j \in 0 .. k : left[j] \in Nat}
    <3>1. 0 \in C /\ C \subseteq 0 .. k /\ k \in Nat
      BY <2>2
    <3>2. ASSUME NEW j \in C, j < k PROVE j + 1 \in C
      <4>1. j + 1 \in 0 .. n + 1 /\ j + 1 # 0 /\ (j + 1) - 1 = j /\ j + 1 \in 0 .. k
        BY <3>2
      <4>2. left[j + 1] = left[j] \div 10 /\ left[j] \in Nat
        BY <2>2, <4>1
      <4>3. PICK a \in Nat : a = left[j]
        BY <4>2
      <4>4. a \div 10 \in Nat
        OBVIOUS
      <4> QED BY <4>1, <4>2, <4>3, <4>4
    <3>3. k \in C
      <4> HIDE DEF C
      <4> QED BY <3>1, <3>2, LastPlace
    <3> QED BY <3>3
  <2> QED BY <2>3, <2>4
<1>5. /\ left[0] = n /\ \A k \in 1 .. n + 1 : left[k] = left[k - 1] \div 10
      /\ \E k \in 1 .. n + 1 : ends(k)
  BY <1>2, <1>4, QuotientsEnd
<1>6. length \in 1 .. n + 1 /\ ends(length)
  <2>1. \E k \in 1 .. n + 1 : ends(k)
    BY <1>5
  <2> HIDE DEF ends
  <2> QED BY <2>1
<1>7. length \in Nat /\ length \in 1 .. n + 1 /\ left[length] = 0
  BY <1>6
<1> HIDE DEF length
<1>8. ASSUME NEW i \in 1 .. length
      PROVE  \E a, b \in Nat : \E c \in 0 .. 9 :
               /\ a = left[length - i] /\ b = left[length - (i - 1)]
               /\ c = left[length - i] % 10 /\ a = 10 * b + c
  <2>1. length - i \in 0 .. n + 1 /\ length - (i - 1) \in 1 .. n + 1
        /\ (length - (i - 1)) - 1 = length - i
    BY <1>7
  <2>2. PICK a \in Nat : a = left[length - i]
    BY <1>4, <2>1
  <2>3. left[length - (i - 1)] = a \div 10
    BY <1>5, <2>1, <2>2
  <2>4. PICK b, c : b = a \div 10 /\ c = a % 10
    OBVIOUS
  <2>5. b \in Nat /\ c \in 0 .. 9 /\ a = 10 * b + c
    BY ONLY <2>4, a \in Nat
  <2>6. b = left[length - (i - 1)] /\ c = left[length - i] % 10
    BY <2>2, <2>3, <2>4
  <2> QED BY <2>2, <2>5, <2>6
<1>9. digits \in Seq(0 .. 9) /\ Len(digits) = length
      /\ \A i \in 1 .. length : digits[i] = left[length - i] % 10
  BY <1>7, <1>8
<1> DEFINE u == [i \in 0 .. length |-> left[length - i]]
<1>10. u = [i \in 0 .. length |-> u[i]] /\ \A i \in 0 .. length : u[i] = left[length - i]
  OBVIOUS
<1> HIDE DEF u, digits
<1>11. Sums(u, length, 10, digits)
  <2>1. ASSUME NEW i \in 0 .. length PROVE u[i] = IF i = 0 THEN 0 ELSE 10 * u[i - 1] + digits[i]
    <3>1. CASE i = 0
      <4>1. length - i = length
        BY <1>7, <3>1
      <4> QED BY <1>7, <1>10, <3>1, <4>1
    <3>2. CASE i # 0
      <4>1. i \in 1 .. length /\ i - 1 \in 0 .. length
        BY <1>7, <3>2
      <4>2. u[i] = left[length - i] /\ u[i - 1] = left[length - (i - 1)]
        BY <1>10, <4>1
      <4>3. digits[i] = left[length - i] % 10
        BY <1>9, <4>1
      <4>4. PICK a \in Nat, b \in Nat, c \in 0 .. 9 :
              /\ a = left[length - i] /\ b = left[length - (i - 1)]
              /\ c = left[length - i] % 10 /\ a = 10 * b + c
        BY <1>8, <4>1
      <4>5. u[i] = a /\ u[i - 1] = b /\ digits[i] = c
        BY <4>2, <4>3, <4>4
      <4> QED BY <3>2, <4>4, <4>5
    <3> QED BY <3>1, <3>2
  <2> QED BY <1>10, <2>1 DEF Sums
<1>12. u[length] = n
  <2>1. length \in 0 .. length /\ length - length = 0
    BY <1>7
  <2> QED BY <1>5, <1>10, <2>1
<1>13. Numeral(digits) = n
  BY <1>9, <1>11, <1>12, NumeralIs
<1> QED BY <1>1, <1>9, <1>13 DEF digits

LEMMA NumberMeans ==
  ASSUME NEW n \in Int
  PROVE  /\ WrittenNumber(n).type = "number" /\ Meaning(WrittenNumber(n)) = Fitting(n)
         /\ Fitting(n) # Refused
<1> DEFINE d == Digits(IF n < 0 THEN -n ELSE n)
           t == WrittenNumber(n)
<1>1. (IF n < 0 THEN -n ELSE n) \in Nat
  OBVIOUS
<1>2. Numeral(d) = IF n < 0 THEN -n ELSE n
  BY <1>1, DigitsSpell
<1>3. t = NumberToken(n < 0, d)
  BY DEF WrittenNumber
<1> HIDE DEF d
<1>4. t.type = "number" /\ t.neg = (n < 0) /\ t.digits = d /\ t.real = Plain
  BY <1>3 DEF NumberToken
<1> HIDE DEF t
<1>5. Signed(t) = n
  <2>1. CASE n < 0
    <3>1. Signed(t) = -Numeral(d)
      BY <1>4, <2>1 DEF Signed
    <3> QED BY <1>2, <2>1, <3>1
  <2>2. CASE ~(n < 0)
    <3>1. Signed(t) = Numeral(d)
      BY <1>4, <2>2 DEF Signed
    <3> QED BY <1>2, <2>2, <3>1
  <2> QED BY <2>1, <2>2
<1>6. Plain # Bad
  BY BadAssumption
<1>7. Meaning(t) = Fitting(n)
  BY <1>4, <1>5, <1>6 DEF Meaning
<1>8. Fitting(n) # Refused
  BY DEF Fitting, Refused, IntValue, UIntValue, RealValue
<1> QED BY <1>4, <1>7, <1>8 DEF t

LEMMA DoubleMeans ==
  ASSUME NEW h \in Int
  PROVE  LET m == IF h % 2 = 0 THEN Fitting(h \div 2) ELSE RealValue(h)
         IN  WrittenDouble(h).type = "number" /\ Meaning(WrittenDouble(h)) = m /\ m # Refused
<1>1. CASE h % 2 = 0
  <2>1. h \div 2 \in Int
    OBVIOUS
  <2>2. WrittenDouble(h) = WrittenNumber(h \div 2)
    BY <1>1 DEF WrittenDouble
  <2> QED BY <1>1, <2>1, <2>2, NumberMeans, Zenon
<1>2. CASE h % 2 # 0
  <2>1. WrittenDouble(h) = DoubleToken(h)
    BY <1>2 DEF WrittenDouble
  <2>2. DoubleToken(h).type = "number" /\ DoubleToken(h).real = h
    BY DEF DoubleToken
  <2>3. h # Bad /\ h # Plain
    BY BadAssumption
  <2>4. Meaning(DoubleToken(h)) = RealValue(h)
    BY <2>2, <2>3 DEF Meaning
  <2>5. RealValue(h) # Refused
    BY DEF RealValue, Refused
  <2> QED BY <1>2, <2>1, <2>2, <2>4, <2>5
<1> QED BY <1>1, <1>2

-----------------------------------------------------------------------------
(***************************************************************************)
(* Texts that stand in other texts.                                        *)
(***************************************************************************)
LEMMA OneToken ==
  ASSUME NEW e
  PROVE  IsText(<<e>>) /\ Len(<<e>>) = 1 /\ <<e>>[1] = e
<1>1. <<e>> \in Seq({e}) /\ Len(<<e>>) = 1 /\ <<e>>[1] = e
  OBVIOUS
<1> QED BY <1>1, SeqOfRange DEF IsText

LEMMA TextsJoined ==
  ASSUME NEW a, IsText(a), NEW b, IsText(b)
  PROVE  /\ IsText(a \o b) /\ Len(a) \in Nat /\ Len(b) \in Nat /\ Len(a \o b) = Len(a) + Len(b)
         /\ \A i \in 1 .. Len(a) : (a \o b)[i] = a[i]
         /\ \A i \in 1 .. Len(b) : (a \o b)[Len(a) + i] = b[i]
<1> DEFINE S == Range(a) \cup Range(b)
           w == a \o b
<1>1. a \in Seq(S) /\ b \in Seq(S)
  BY SeqMonotonic DEF IsText
<1> HIDE DEF S
<1>2. Len(a) \in Nat /\ Len(b) \in Nat
  BY <1>1, LenProperties
<1>3. /\ w \in Seq(S) /\ Len(w) = Len(a) + Len(b)
      /\ \A i \in 1 .. Len(a) + Len(b) : w[i] = IF i <= Len(a) THEN a[i] ELSE b[i - Len(a)]
  BY <1>1, ConcatProperties
<1> HIDE DEF w
<1>4. IsText(w)
  BY <1>3, SeqOfRange DEF IsText
<1>5. ASSUME NEW i \in 1 .. Len(a) PROVE w[i] = a[i]
  <2>1. i \in 1 .. Len(a) + Len(b) /\ i <= Len(a)
    BY <1>2
  <2> QED BY <1>3, <2>1
<1>6. ASSUME NEW i \in 1 .. Len(b) PROVE w[Len(a) + i] = b[i]
  <2>1. Len(a) + i \in 1 .. Len(a) + Len(b) /\ ~(Len(a) + i <= Len(a)) /\ (Len(a) + i) - Len(a) = i
    BY <1>2
  <2> QED BY <1>3, <2>1
<1> QED BY <1>2, <1>3, <1>4, <1>5, <1>6 DEF w

\* The text w stands in t from p on.
Placed(t, p, w) ==
  /\ p \in Nat \ {0} /\ p + Len(w) <= Len(t) + 1
  /\ \A j \in 1 .. Len(w) : t[(p - 1) + j] = w[j]

LEMMA PlacedParts ==
  ASSUME NEW t, IsText(t), NEW p, NEW a, IsText(a), NEW b, IsText(b), Placed(t, p, a \o b)
  PROVE  Placed(t, p, a) /\ Placed(t, p + Len(a), b) /\ p + Len(a \o b) = (p + Len(a)) + Len(b)
<1> DEFINE w == a \o b
<1>1. /\ Len(a) \in Nat /\ Len(b) \in Nat /\ Len(w) = Len(a) + Len(b)
      /\ \A i \in 1 .. Len(a) : w[i] = a[i]
      /\ \A i \in 1 .. Len(b) : w[Len(a) + i] = b[i]
  BY TextsJoined
<1>2. /\ p \in Nat \ {0} /\ p + Len(w) <= Len(t) + 1
      /\ \A j \in 1 .. Len(w) : t[(p - 1) + j] = w[j]
  BY DEF Placed
<1>3. Len(t) \in Nat
  BY LenProperties DEF IsText
<1> HIDE DEF w
<1>4. p + Len(a) \in Nat \ {0} /\ p + Len(a) <= Len(t) + 1 /\ (p + Len(a)) + Len(b) <= Len(t) + 1
      /\ p + Len(w) = (p + Len(a)) + Len(b)
  BY <1>1, <1>2, <1>3
<1>5. ASSUME NEW j \in 1 .. Len(a) PROVE t[(p - 1) + j] = a[j]
  <2>1. j \in 1 .. Len(w)
    BY <1>1
  <2> QED BY <1>1, <1>2, <2>1
<1>6. ASSUME NEW j \in 1 .. Len(b) PROVE t[((p + Len(a)) - 1) + j] = b[j]
  <2>1. Len(a) + j \in 1 .. Len(w) /\ ((p + Len(a)) - 1) + j = (p - 1) + (Len(a) + j)
    BY <1>1, <1>2
  <2> QED BY <1>1, <1>2, <2>1
<1> QED BY <1>2, <1>4, <1>5, <1>6 DEF Placed, w

LEMMA PlacedToken ==
  ASSUME NEW t, IsText(t), NEW p, NEW w, IsText(w), Len(w) >= 1, Placed(t, p, w)
  PROVE  p \in 1 .. Len(t) /\ t[p] = w[1] /\ TypeAt(t, p) = w[1].type
<1>1. Len(t) \in Nat /\ DOMAIN t = 1 .. Len(t) /\ Len(w) \in Nat
  BY LenProperties DEF IsText
<1>2. /\ p \in Nat \ {0} /\ p + Len(w) <= Len(t) + 1
      /\ \A j \in 1 .. Len(w) : t[(p - 1) + j] = w[j]
  BY DEF Placed
<1>3. p \in 1 .. Len(t) /\ 1 \in 1 .. Len(w) /\ (p - 1) + 1 = p
  BY <1>1, <1>2
<1>4. t[p] = w[1]
  BY <1>2, <1>3
<1> QED BY <1>1, <1>3, <1>4 DEF TypeAt

\* The text w says r, wherever it stands.
Says(w, r) ==
  /\ IsText(w) /\ Len(w) >= 1 /\ w[1].type # "arrayEnd"
  /\ \A t, p : IsText(t) /\ Placed(t, p, w) => ValueIn(t, p) = Parsed(r, p + Len(w))

LEMMA ScalarSays ==
  ASSUME NEW e, IsScalar(e), Meaning(e) # Refused
  PROVE  Says(<<e>>, Meaning(e))
<1>1. IsText(<<e>>) /\ Len(<<e>>) = 1 /\ <<e>>[1] = e
  BY OneToken
<1>2. e.type # "arrayEnd"
  BY DEF IsScalar
<1>3. ASSUME NEW t, NEW p, IsText(t), Placed(t, p, <<e>>)
      PROVE  ValueIn(t, p) = Parsed(Meaning(e), p + 1)
  <2>1. p \in 1 .. Len(t) /\ t[p] = e
    BY <1>1, <1>3, PlacedToken
  <2> QED BY <1>3, <2>1, ScalarIn
<1> QED BY <1>1, <1>2, <1>3 DEF Says

-----------------------------------------------------------------------------
(***************************************************************************)
(* What is inside of values, from the null outwards: the elements of a     *)
(* value of a layer are of the layer before.                               *)
(***************************************************************************)
Layer(V, b) == IF b = 0 THEN {NullValue} ELSE Behind(V, (MaxNesting + 1) - b)

LEMMA LayersAre ==
  ASSUME NEW V, Shallow(V)
  PROVE  /\ Layer(V, 0) = {NullValue} /\ Layer(V, MaxNesting + 1) = Inside(V)
         /\ \A b \in 0 .. MaxNesting :
              /\ NullValue \in Layer(V, b)
              /\ Layer(V, b) \subseteq Layer(V, b + 1)
              /\ Layer(V, b + 1) \subseteq Inside(V)
              /\ \A x \in Layer(V, b + 1) : Contains(Layer(V, b), x)
<1> DEFINE n == MaxNesting
<1>1. n \in Nat
  BY NestingAssumption
<1>2. Layer(V, n + 1) = Inside(V)
  <2>1. n + 1 # 0 /\ (n + 1) - (n + 1) = 0
    BY <1>1
  <2> QED BY <2>1, InsideIs DEF Layer
<1>3. ASSUME NEW b \in 0 .. n
      PROVE  /\ NullValue \in Layer(V, b)
             /\ Layer(V, b) \subseteq Layer(V, b + 1)
             /\ Layer(V, b + 1) \subseteq Inside(V)
             /\ \A x \in Layer(V, b + 1) : Contains(Layer(V, b), x)
  <2>1. PICK d : d = (n + 1) - (b + 1)
    OBVIOUS
  <2>2. d \in 0 .. n /\ b + 1 # 0 /\ b \in Nat
    BY <1>1, <2>1
  <2>3. Layer(V, b + 1) = Behind(V, d)
    BY <2>1, <2>2 DEF Layer
  <2>4. NullValue \in Behind(V, d) /\ Behind(V, d) \subseteq Inside(V)
    BY <2>2, ElementsBehind DEF Behind
  <2>5. CASE b = 0
    <3>1. d = n
      BY <1>1, <2>1, <2>5
    <3>2. Layer(V, b) = {NullValue} /\ ~(d < n)
      BY <1>1, <2>5, <3>1 DEF Layer
    <3>3. \A x \in Behind(V, d) : Contains({NullValue}, x)
      BY <2>2, <3>2, ElementsBehind DEF Contains
    <3> QED BY <2>3, <2>4, <3>2, <3>3
  <2>6. CASE b # 0
    <3>1. (n + 1) - b = d + 1 /\ d < n
      BY <1>1, <2>1, <2>2, <2>6
    <3>2. Layer(V, b) = Behind(V, d + 1) /\ NullValue \in Behind(V, d + 1)
      BY <2>6, <3>1 DEF Layer, Behind
    <3>3. /\ \A x \in Behind(V, d) : Contains(Behind(V, d + 1), x)
          /\ Behind(V, d + 1) \subseteq Behind(V, d)
      BY <2>2, <3>1, ElementsBehind DEF Contains
    <3> QED BY <2>3, <2>4, <3>2, <3>3
  <2> QED BY <2>5, <2>6
<1>4. Layer(V, 0) = {NullValue}
  BY DEF Layer
<1> QED BY <1>2, <1>3, <1>4

-----------------------------------------------------------------------------
(***************************************************************************)
(* The text of a value, and what it says, are defined for all values.      *)
(***************************************************************************)
IsWriting(g, A) == g = [x \in A |-> WriteBy(g, x)]
IsReading(g, A) == g = [x \in A |-> ReadBy(g, x)]

Same(g, h, A) == \A x \in A : g[x] = h[x]

LEMMA ElementsOf ==
  ASSUME NEW A, NullValue \in A, NEW v, IsValue(v), Contains(A, v)
  PROVE  /\ v.type = "array" => Size(v) \in Nat /\ \A i : At(v, i) \in A
         /\ v.type = "object" =>
              /\ Size(v) \in Nat /\ DOMAIN KeysInOrder(v) = 1 .. Size(v)
              /\ \A i \in 1 .. Size(v) : KeysInOrder(v)[i] \in Keys(v)
              /\ Keys(v) = {KeysInOrder(v)[i] : i \in 1 .. Size(v)}
              /\ \A k \in Keys(v) : v.map[k] \in A /\ k \in Nat
<1>1. \A i : At(v, i) \in A
  BY DEF At, Present, Contains
<1>2. CASE v.type = "array"
  BY <1>1, <1>2, SizeInNat
<1>3. CASE v.type = "object"
  <2>1. IsComplex(v) /\ v \notin Scalar
    BY <1>3 DEF IsComplex, Scalar, NullValue
  <2>2. \A k \in Keys(v) : v.map[k] \in A /\ k \in Nat
    BY <2>1, <1>3 DEF Contains, Keys, IsValue, IsMap
  <2>3. Size(v) = Cardinality(Keys(v)) /\ IsFiniteSet(Keys(v))
    BY <1>3, <2>1, KeysOrdered DEF Size
  <2>4. Size(v) \in Nat
    BY <2>3, FS_CardinalityType
  <2>5. DOMAIN KeysInOrder(v) = 1 .. Size(v) /\ Len(KeysInOrder(v)) = Size(v)
    BY <2>1, <2>3, <2>4 DEF KeysInOrder
  <2> QED BY <1>3, <2>1, <2>2, <2>4, <2>5, KeysOrdered
<1> QED BY <1>2, <1>3

LEMMA WriteLocal ==
  ASSUME NEW A, NullValue \in A, NEW v, IsValue(v), Contains(A, v),
         NEW g, NEW h, Same(g, h, A)
  PROVE  WriteBy(g, v) = WriteBy(h, v)
<1>1. CASE v.type = "array"
  <2>1. [i \in 1 .. Size(v) |-> g[At(v, i - 1)]] = [i \in 1 .. Size(v) |-> h[At(v, i - 1)]]
    BY <1>1, ElementsOf DEF Same
  <2> QED BY <1>1, <2>1 DEF WriteBy
<1>2. CASE v.type = "object"
  <2> DEFINE name == KeysInOrder(v)
             begin(i) == <<StringToken(name[i]), MarkToken("memberSeparator")>>
  <2>1. \A i \in 1 .. Size(v) : g[v.map[name[i]]] = h[v.map[name[i]]]
    BY <1>2, ElementsOf DEF Same
  <2>2. [i \in 1 .. Size(v) |-> begin(i) \o g[v.map[name[i]]]]
          = [i \in 1 .. Size(v) |-> begin(i) \o h[v.map[name[i]]]]
    BY <2>1
  <2> QED BY <1>2, <2>2 DEF WriteBy
<1>3. CASE v.type \notin {"array", "object"}
  BY <1>3 DEF WriteBy
<1> QED BY <1>1, <1>2, <1>3

LEMMA ReadLocal ==
  ASSUME NEW A, NullValue \in A, NEW v, IsValue(v), Contains(A, v),
         NEW g, NEW h, Same(g, h, A)
  PROVE  ReadBy(g, v) = ReadBy(h, v)
<1>1. CASE v.type = "array"
  <2>1. [i \in 0 .. Size(v) - 1 |-> g[At(v, i)]] = [i \in 0 .. Size(v) - 1 |-> h[At(v, i)]]
    BY <1>1, ElementsOf DEF Same
  <2> QED BY <1>1, <2>1 DEF ReadBy
<1>2. CASE v.type = "object"
  <2>1. [k \in Keys(v) |-> g[v.map[k]]] = [k \in Keys(v) |-> h[v.map[k]]]
    BY <1>2, ElementsOf DEF Same
  <2> QED BY <1>2, <2>1 DEF ReadBy
<1>3. CASE v.type \notin {"array", "object"}
  BY <1>3 DEF ReadBy
<1> QED BY <1>1, <1>2, <1>3

LEMMA WritingExists ==
  ASSUME NEW V, Shallow(V), \A x \in Inside(V) : IsValue(x)
  PROVE  \E g : IsWriting(g, Inside(V))
<1> DEFINE n == MaxNesting + 1
           B == {b \in 0 .. n : \E g : IsWriting(g, Layer(V, b))}
<1>1. n \in Nat
  BY NestingAssumption
<1>2. 0 \in B
  <2> DEFINE z == [x \in {NullValue} |-> <<MarkToken("null")>>]
  <2>1. \A g : WriteBy(g, NullValue) = <<MarkToken("null")>>
    BY DEF WriteBy, NullValue
  <2>2. z = [x \in {NullValue} |-> WriteBy(z, x)]
    BY <2>1, Zenon
  <2>3. IsWriting(z, Layer(V, 0))
    BY <2>2 DEF IsWriting, Layer
  <2> HIDE DEF z
  <2> QED BY <1>1, <2>3
<1>3. ASSUME NEW b \in B, b < n PROVE b + 1 \in B
  <2>1. PICK A, C : A = Layer(V, b) /\ C = Layer(V, b + 1)
    OBVIOUS
  <2>2. PICK g : IsWriting(g, A)
    BY <2>1
  <2>3. b \in 0 .. MaxNesting /\ b + 1 \in 0 .. n
    BY <1>1, <1>3, NestingAssumption
  <2>4. NullValue \in A /\ A \subseteq C /\ \A x \in C : IsValue(x) /\ Contains(A, x)
    BY <2>1, <2>3, LayersAre
  <2> DEFINE h == [x \in C |-> WriteBy(g, x)]
  <2>5. \A x \in C : h[x] = WriteBy(g, x)
    OBVIOUS
  <2>6. h = [x \in C |-> h[x]]
    OBVIOUS
  <2> HIDE DEF h
  <2>7. Same(g, h, A)
    <3>1. \A x \in A : g[x] = WriteBy(g, x)
      BY <2>2 DEF IsWriting
    <3> QED BY <2>4, <2>5, <3>1 DEF Same
  <2>8. \A x \in C : h[x] = WriteBy(h, x)
    BY <2>4, <2>5, <2>7, WriteLocal
  <2>9. IsWriting(h, C)
    BY <2>6, <2>8 DEF IsWriting
  <2> QED BY <2>1, <2>3, <2>9
<1>4. n \in B
  <2>1. B \subseteq 0 .. n
    OBVIOUS
  <2> HIDE DEF B
  <2> QED BY <1>1, <1>2, <1>3, <2>1, LastPlace
<1> QED BY <1>4, LayersAre

LEMMA ReadingExists ==
  ASSUME NEW V, Shallow(V), \A x \in Inside(V) : IsValue(x)
  PROVE  \E g : IsReading(g, Inside(V))
<1> DEFINE n == MaxNesting + 1
           B == {b \in 0 .. n : \E g : IsReading(g, Layer(V, b))}
<1>1. n \in Nat
  BY NestingAssumption
<1>2. 0 \in B
  <2> DEFINE z == [x \in {NullValue} |-> NullValue]
  <2>1. \A g : ReadBy(g, NullValue) = NullValue
    BY DEF ReadBy, NullValue
  <2>2. z = [x \in {NullValue} |-> ReadBy(z, x)]
    BY <2>1, Zenon
  <2>3. IsReading(z, Layer(V, 0))
    BY <2>2 DEF IsReading, Layer
  <2> HIDE DEF z
  <2> QED BY <1>1, <2>3
<1>3. ASSUME NEW b \in B, b < n PROVE b + 1 \in B
  <2>1. PICK A, C : A = Layer(V, b) /\ C = Layer(V, b + 1)
    OBVIOUS
  <2>2. PICK g : IsReading(g, A)
    BY <2>1
  <2>3. b \in 0 .. MaxNesting /\ b + 1 \in 0 .. n
    BY <1>1, <1>3, NestingAssumption
  <2>4. NullValue \in A /\ A \subseteq C /\ \A x \in C : IsValue(x) /\ Contains(A, x)
    BY <2>1, <2>3, LayersAre
  <2> DEFINE h == [x \in C |-> ReadBy(g, x)]
  <2>5. \A x \in C : h[x] = ReadBy(g, x)
    OBVIOUS
  <2>6. h = [x \in C |-> h[x]]
    OBVIOUS
  <2> HIDE DEF h
  <2>7. Same(g, h, A)
    <3>1. \A x \in A : g[x] = ReadBy(g, x)
      BY <2>2 DEF IsReading
    <3> QED BY <2>4, <2>5, <3>1 DEF Same
  <2>8. \A x \in C : h[x] = ReadBy(h, x)
    BY <2>4, <2>5, <2>7, ReadLocal
  <2>9. IsReading(h, C)
    BY <2>6, <2>8 DEF IsReading
  <2> QED BY <2>1, <2>3, <2>9
<1>4. n \in B
  <2>1. B \subseteq 0 .. n
    OBVIOUS
  <2> HIDE DEF B
  <2> QED BY <1>1, <1>2, <1>3, <2>1, LastPlace
<1> QED BY <1>4, LayersAre

-----------------------------------------------------------------------------
(***************************************************************************)
(* The elements of a container, from any of them on.                       *)
(***************************************************************************)
\* The text from element i on, if f has the texts of those behind.
PartAt(f, parts, end, i) ==
  parts[i] \o (IF i = Len(parts) THEN <<end>> ELSE <<MarkToken("arraySeparator")>> \o f[i + 1])

Assembled(f, parts, end) ==
  \A i \in 1 .. Len(parts) : IsText(f[i]) /\ f[i] = PartAt(f, parts, end, i)

LEMMA SeparatedIs ==
  ASSUME NEW n \in Nat \ {0}, NEW parts, parts = [i \in 1 .. n |-> parts[i]],
         \A i \in 1 .. n : IsText(parts[i]), NEW end
  PROVE  \E f : Separated(parts, end) = f[1] /\ Assembled(f, parts, end)
<1> DEFINE is(g, m) == g = [i \in m .. n |-> PartAt(g, parts, end, i)]
           B == {b \in 0 .. n - 1 : \E g : is(g, n - b)}
           F == CHOOSE g : is(g, 1)
<1>0. Len(parts) = n
  OBVIOUS
<1>1. 0 \in B
  <2> DEFINE g == [i \in n .. n |-> PartAt(<< >>, parts, end, i)]
  <2>1. \A h : PartAt(h, parts, end, n) = parts[n] \o <<end>>
    BY <1>0 DEF PartAt
  <2>2. \A i \in n .. n : i = n
    OBVIOUS
  <2>3. g = [i \in n .. n |-> PartAt(g, parts, end, i)]
    BY <2>1, <2>2
  <2>4. n - 0 = n
    OBVIOUS
  <2>5. is(g, n - 0)
    BY <2>3, <2>4
  <2> HIDE DEF g, is
  <2> QED BY <2>5
<1>2. ASSUME NEW b \in B, b < n - 1 PROVE b + 1 \in B
  <2>1. PICK g : is(g, n - b)
    OBVIOUS
  <2>2. PICK m : m = n - b
    OBVIOUS
  <2>3. m \in Nat /\ m - 1 \in 1 .. n /\ n - (b + 1) = m - 1 /\ b + 1 \in 0 .. n - 1 /\ m <= n
    BY <1>2, <2>2
  <2>4. \A i \in m .. n : g[i] = PartAt(g, parts, end, i)
    BY <2>1, <2>2
  <2> DEFINE h == [i \in m - 1 .. n |-> IF i = m - 1 THEN PartAt(g, parts, end, i) ELSE g[i]]
  <2>5. \A i \in m - 1 .. n : h[i] = IF i = m - 1 THEN PartAt(g, parts, end, i) ELSE g[i]
    OBVIOUS
  <2>6. h = [i \in m - 1 .. n |-> h[i]]
    OBVIOUS
  <2> HIDE DEF h
  <2>7. ASSUME NEW i \in m - 1 .. n PROVE h[i] = PartAt(h, parts, end, i)
    <3>1. h[i] = PartAt(g, parts, end, i)
      <4>1. CASE i = m - 1
        BY <2>5, <4>1
      <4>2. CASE i # m - 1
        <5>1. i \in m .. n
          BY <2>3, <4>2
        <5> QED BY <2>4, <2>5, <4>2, <5>1
      <4> QED BY <4>1, <4>2
    <3>2. i # n => g[i + 1] = h[i + 1]
      <4> SUFFICES ASSUME i # n PROVE g[i + 1] = h[i + 1]
        OBVIOUS
      <4>1. i + 1 \in m - 1 .. n /\ i + 1 # m - 1
        BY <2>3
      <4> QED BY <2>5, <4>1
    <3>3. PartAt(g, parts, end, i) = PartAt(h, parts, end, i)
      BY <1>0, <3>2 DEF PartAt
    <3> QED BY <3>1, <3>3
  <2>8. is(h, m - 1)
    <3> DEFINE k == [i \in m - 1 .. n |-> PartAt(h, parts, end, i)]
    <3>1. [i \in m - 1 .. n |-> h[i]] = k
      BY <2>7
    <3> QED BY <2>6, <3>1
  <2> HIDE DEF is
  <2> QED BY <2>3, <2>8
<1>3. n - 1 \in B
  <2>1. B \subseteq 0 .. n - 1 /\ n - 1 \in Nat
    OBVIOUS
  <2> HIDE DEF B
  <2> QED BY <1>1, <1>2, <2>1, LastPlace
<1>4. is(F, 1)
  <2>1. PICK g : is(g, n - (n - 1))
    BY <1>3
  <2>2. n - (n - 1) = 1
    OBVIOUS
  <2>3. is(g, 1)
    <3>1. PICK m : m = n - (n - 1)
      OBVIOUS
    <3>2. is(g, m)
      BY <2>1, <3>1
    <3> HIDE DEF is
    <3> QED BY <2>2, <3>1, <3>2
  <2> HIDE DEF is
  <2> QED BY <2>3
<1>5. Separated(parts, end) = F[1]
  BY <1>0 DEF Separated, PartAt
<1> HIDE DEF F
<1>6. \A i \in 1 .. n : F[i] = PartAt(F, parts, end, i)
  BY <1>4
<1> DEFINE C == {b \in 0 .. n - 1 : IsText(F[n - b])}
<1>7. 0 \in C
  <2>1. n - 0 = n /\ n \in 1 .. n /\ F[n] = parts[n] \o <<end>>
    BY <1>0, <1>6 DEF PartAt
  <2>2. IsText(parts[n] \o <<end>>)
    BY <2>1, OneToken, TextsJoined
  <2>3. F[n - 0] = F[n] /\ 0 \in 0 .. n - 1
    BY <2>1
  <2>4. IsText(F[n - 0])
    BY ONLY <2>1, <2>2, <2>3
  <2> QED BY <2>3, <2>4
<1>8. ASSUME NEW b \in C, b < n - 1 PROVE b + 1 \in C
  <2>1. PICK i : i = n - (b + 1)
    OBVIOUS
  <2>2. i \in 1 .. n /\ i # n /\ i + 1 = n - b /\ b + 1 \in 0 .. n - 1
    BY <1>8, <2>1
  <2>3. F[i] = parts[i] \o (<<MarkToken("arraySeparator")>> \o F[i + 1])
    BY <1>0, <1>6, <2>2 DEF PartAt
  <2>4. IsText(F[i + 1])
    BY <2>2
  <2>5. IsText(F[i])
    BY <2>2, <2>3, <2>4, OneToken, TextsJoined
  <2> QED BY <2>1, <2>2, <2>5
<1>9. \A i \in 1 .. n : IsText(F[i])
  <2>1. ASSUME NEW i \in 1 .. n PROVE IsText(F[i])
    <3> DEFINE D == {b \in 0 .. n - i : b \in C}
    <3>1. n - i \in D
      <4>1. D \subseteq 0 .. n - i /\ n - i \in Nat /\ 0 \in D
        BY <1>7
      <4>2. ASSUME NEW b \in D, b < n - i PROVE b + 1 \in D
        <5>1. b + 1 \in 0 .. n - i /\ b < n - 1 /\ b \in C
          BY <4>2
        <5> HIDE DEF C
        <5> QED BY <1>8, <5>1
      <4> HIDE DEF D
      <4> QED BY <4>1, <4>2, LastPlace
    <3>2. n - (n - i) = i
      OBVIOUS
    <3> QED BY <3>1, <3>2
  <2> QED BY <2>1
<1> QED BY <1>0, <1>5, <1>6, <1>9 DEF Assembled

-----------------------------------------------------------------------------
(***************************************************************************)
(* What the elements of an array, and the members of an object, say.       *)
(***************************************************************************)
\* The elements of r from i on.
Rest(r, i, n) == [j \in 1 .. (n - i) + 1 |-> r[(i + j) - 1]]

ElementsSay(f, r, i, n) ==
  \A t, p : IsText(t) /\ Placed(t, p, f[i]) =>
    ElementsIn(t, p) = Parsed(Rest(r, i, n), p + Len(f[i]))

LEMMA RestIs ==
  ASSUME NEW n \in Nat, NEW i \in 1 .. n, NEW r
  PROVE  /\ i = n => Rest(r, i, n) = <<r[i]>>
         /\ i < n => Rest(r, i, n) = <<r[i]>> \o Rest(r, i + 1, n)
<1>1. ASSUME i = n PROVE Rest(r, i, n) = <<r[i]>>
  <2>1. (n - i) + 1 = 1 /\ \A j \in 1 .. 1 : (i + j) - 1 = i
    BY <1>1
  <2>2. Rest(r, i, n) = [j \in 1 .. 1 |-> r[i]]
    BY <2>1 DEF Rest
  <2> QED BY <2>2
<1>2. ASSUME i < n PROVE Rest(r, i, n) = <<r[i]>> \o Rest(r, i + 1, n)
  <2>1. PICK m \in Nat : m = n - i
    OBVIOUS
  <2> DEFINE S == {r[j] : j \in 1 .. n}
             s == Rest(r, i + 1, n)
             u == Rest(r, i, n)
             w == <<r[i]>> \o s
  <2>2. s = [j \in 1 .. m |-> r[((i + 1) + j) - 1]]
    <3>1. (n - (i + 1)) + 1 = m
      BY <2>1
    <3> QED BY <3>1 DEF Rest
  <2>3. u = [j \in 1 .. m + 1 |-> r[(i + j) - 1]]
    BY <2>1 DEF Rest
  <2>4. s \in Seq(S) /\ Len(s) = m
    <3>1. \A j \in 1 .. m : ((i + 1) + j) - 1 \in 1 .. n
      BY <2>1
    <3>2. \A j \in 1 .. m : r[((i + 1) + j) - 1] \in S
      BY <3>1
    <3> HIDE DEF s, S
    <3> QED BY <2>2, <3>2
  <2>5. <<r[i]>> \in Seq(S)
    OBVIOUS
  <2>6. \A j \in 1 .. m : s[j] = r[((i + 1) + j) - 1]
    BY <2>2
  <2>7. \A j \in 1 .. m + 1 : u[j] = r[(i + j) - 1]
    BY <2>3
  <2>8. PICK o : o = <<r[i]>>
    OBVIOUS
  <2>9. o \in Seq(S) /\ Len(o) = 1 /\ o[1] = r[i] /\ w = o \o s
    BY <2>5, <2>8
  <2> HIDE DEF s, u, S
  <2>10. /\ w \in Seq(S) /\ Len(w) = 1 + m
         /\ \A j \in 1 .. 1 + m : w[j] = IF j <= 1 THEN o[j] ELSE s[j - 1]
    BY <2>4, <2>9, ConcatProperties
  <2> HIDE DEF w
  <2>11. ASSUME NEW j \in 1 .. m + 1 PROVE w[j] = u[j]
    <3>1. CASE j = 1
      <4>1. (i + j) - 1 = i /\ j \in 1 .. 1 + m /\ j <= 1
        BY <3>1
      <4> QED BY <2>7, <2>9, <2>10, <3>1, <4>1
    <3>2. CASE j # 1
      <4>1. j - 1 \in 1 .. m /\ ~(j <= 1) /\ j \in 1 .. 1 + m /\ ((i + 1) + (j - 1)) - 1 = (i + j) - 1
        BY <3>2
      <4> QED BY <2>6, <2>7, <2>10, <4>1
    <3> QED BY <3>1, <3>2
  <2>12. DOMAIN w = 1 .. m + 1 /\ w = [j \in 1 .. m + 1 |-> w[j]]
    <3>1. 1 + m = m + 1
      BY <2>1
    <3> QED BY <2>10, <3>1, LenProperties
  <2>13. u = [j \in 1 .. m + 1 |-> u[j]]
    BY <2>3, <2>7
  <2>14. w = u
    BY <2>11, <2>12, <2>13
  <2> QED BY <2>14 DEF w, s, u
<1> QED BY <1>1, <1>2

\* Where the parts of a text are that is put together of elements.
LEMMA LastPlaced ==
  ASSUME NEW t, IsText(t), NEW p, NEW a, IsText(a), NEW e, Placed(t, p, a \o <<e>>)
  PROVE  /\ Placed(t, p, a) /\ TypeAt(t, p + Len(a)) = e.type
         /\ p + Len(a \o <<e>>) = (p + Len(a)) + 1
<1>1. PICK s : s = <<e>>
  OBVIOUS
<1>2. IsText(s) /\ Len(s) = 1 /\ s[1] = e
  BY <1>1, OneToken
<1>3. Placed(t, p, a \o s)
  BY <1>1
<1>4. Placed(t, p, a) /\ Placed(t, p + Len(a), s) /\ p + Len(a \o s) = (p + Len(a)) + Len(s)
  <2>1. IsText(s)
    BY <1>2
  <2> QED BY ONLY IsText(t), IsText(a), <1>3, <2>1, PlacedParts
<1>5. PICK q : q = p + Len(a)
  OBVIOUS
<1>6. Placed(t, q, s) /\ Len(s) >= 1
  BY <1>2, <1>4, <1>5
<1>7. TypeAt(t, q) = e.type
  BY ONLY IsText(t), <1>2, <1>6, PlacedToken
<1> QED BY <1>1, <1>2, <1>4, <1>5, <1>7

LEMMA NextPlaced ==
  ASSUME NEW t, IsText(t), NEW p, NEW a, IsText(a), NEW e, NEW g, IsText(g),
         Placed(t, p, a \o (<<e>> \o g))
  PROVE  /\ Placed(t, p, a) /\ TypeAt(t, p + Len(a)) = e.type
         /\ Placed(t, (p + Len(a)) + 1, g)
         /\ p + Len(a \o (<<e>> \o g)) = ((p + Len(a)) + 1) + Len(g)
<1>1. PICK s : s = <<e>>
  OBVIOUS
<1>2. IsText(s) /\ Len(s) = 1 /\ s[1] = e
  BY <1>1, OneToken
<1>3. PICK w : w = s \o g
  OBVIOUS
<1>4. IsText(w)
  BY <1>2, <1>3, TextsJoined
<1>5. Placed(t, p, a \o w)
  BY <1>1, <1>3
<1>6. Placed(t, p, a) /\ Placed(t, p + Len(a), w) /\ p + Len(a \o w) = (p + Len(a)) + Len(w)
  BY <1>4, <1>5, PlacedParts
<1>7. PICK q : q = p + Len(a)
  OBVIOUS
<1>8. Placed(t, q, s \o g)
  BY <1>3, <1>6, <1>7
<1>9. Placed(t, q, s) /\ Placed(t, q + Len(s), g) /\ q + Len(s \o g) = (q + Len(s)) + Len(g)
  <2>1. IsText(s)
    BY <1>2
  <2> QED BY ONLY IsText(t), IsText(g), <1>8, <2>1, PlacedParts
<1>10. Len(s) >= 1
  BY <1>2
<1>11. TypeAt(t, q) = e.type
  BY ONLY IsText(t), <1>2, <1>9, <1>10, PlacedToken
<1> QED BY <1>1, <1>2, <1>3, <1>6, <1>7, <1>9, <1>11

LEMMA PartsPlaced ==
  ASSUME NEW n \in Nat, NEW parts, Len(parts) = n, NEW f, NEW end, NEW i \in 1 .. n,
         IsText(parts[i]), Assembled(f, parts, end),
         NEW t, IsText(t), NEW p, Placed(t, p, f[i])
  PROVE  LET q == p + Len(parts[i])
         IN  /\ Placed(t, p, parts[i])
             /\ i = n => TypeAt(t, q) = end.type /\ p + Len(f[i]) = q + 1
             /\ i # n => /\ TypeAt(t, q) = "arraySeparator" /\ Placed(t, q + 1, f[i + 1])
                         /\ p + Len(f[i]) = (q + 1) + Len(f[i + 1])
<1>0. \A j \in 1 .. n : IsText(f[j]) /\ f[j] = PartAt(f, parts, end, j)
  BY DEF Assembled
<1>1. PICK a : a = parts[i]
  OBVIOUS
<1>2. CASE i = n
  <2>1. f[i] = a \o <<end>> /\ IsText(a)
    BY <1>0, <1>1, <1>2 DEF PartAt
  <2>2. Placed(t, p, a \o <<end>>)
    BY <2>1, Zenon
  <2>3. /\ Placed(t, p, a) /\ TypeAt(t, p + Len(a)) = end.type
        /\ p + Len(a \o <<end>>) = (p + Len(a)) + 1
    BY ONLY IsText(t), <2>1, <2>2, LastPlaced
  <2> QED BY <1>1, <1>2, <2>1, <2>3
<1>3. CASE i # n
  <2> DEFINE e == MarkToken("arraySeparator")
  <2>1. PICK g : g = f[i + 1]
    OBVIOUS
  <2>2. f[i] = a \o (<<e>> \o g) /\ IsText(a) /\ IsText(g) /\ e.type = "arraySeparator"
    <3>1. i + 1 \in 1 .. n
      BY <1>3
    <3> QED BY <1>0, <1>1, <1>3, <2>1, <3>1 DEF PartAt, MarkToken
  <2> HIDE DEF e
  <2>3. Placed(t, p, a \o (<<e>> \o g))
    BY <2>2, Zenon
  <2>4. /\ Placed(t, p, a) /\ TypeAt(t, p + Len(a)) = e.type
        /\ Placed(t, (p + Len(a)) + 1, g)
        /\ p + Len(a \o (<<e>> \o g)) = ((p + Len(a)) + 1) + Len(g)
    BY ONLY IsText(t), <2>2, <2>3, NextPlaced
  <2> QED BY <1>1, <1>3, <2>1, <2>2, <2>4
<1> QED BY <1>2, <1>3

LEMMA ElementsUnfold ==
  ASSUME NEW t, IsText(t), NEW p \in 1 .. Len(t), NEW x, NEW q, ValueIn(t, p) = Parsed(x, q)
  PROVE  /\ TypeAt(t, q) = "arrayEnd" => ElementsIn(t, p) = Parsed(<<x>>, q + 1)
         /\ \A s, z : TypeAt(t, q) = "arraySeparator" /\ ElementsIn(t, q + 1) = Parsed(s, z) =>
              ElementsIn(t, p) = Parsed(<<x>> \o s, z)
<1>0. p \in 1 .. Len(t) + 1
  BY LenProperties DEF IsText
<1>1. /\ ElementsIn(t, p) = ElementsAt(t, Grammar(t), p)
      /\ ValueAt(t, Grammar(t), p) = Parsed(x, q)
  BY <1>0, Unfolded
<1>2. Parsed(x, q).ok /\ Parsed(x, q).value = x /\ Parsed(x, q).next = q
  BY PhraseIs
<1>3. CASE TypeAt(t, q) = "arrayEnd"
  BY <1>1, <1>2, <1>3 DEF ElementsAt
<1>4. ASSUME NEW s, NEW z, TypeAt(t, q) = "arraySeparator", ElementsIn(t, q + 1) = Parsed(s, z)
      PROVE  ElementsIn(t, p) = Parsed(<<x>> \o s, z)
  <2>1. Grammar(t)[q + 1].elements = Parsed(s, z)
    BY <1>4 DEF ElementsIn
  <2>2. Parsed(s, z).ok /\ Parsed(s, z).value = s /\ Parsed(s, z).next = z
    BY PhraseIs
  <2> QED BY <1>1, <1>2, <1>4, <2>1, <2>2 DEF ElementsAt
<1> QED BY <1>3, <1>4

LEMMA ElementsSaid ==
  ASSUME NEW n \in Nat \ {0}, NEW parts, Len(parts) = n, NEW f, NEW r,
         \A i \in 1 .. n : Says(parts[i], r[i]),
         NEW end, end.type = "arrayEnd", Assembled(f, parts, end)
  PROVE  ElementsSay(f, r, 1, n)
<1> DEFINE B == {b \in 0 .. n - 1 : ElementsSay(f, r, n - b, n)}
<1>1. ASSUME NEW i \in 1 .. n, i < n => ElementsSay(f, r, i + 1, n)
      PROVE  ElementsSay(f, r, i, n)
  <2> SUFFICES ASSUME NEW t, NEW p, IsText(t), Placed(t, p, f[i])
               PROVE  ElementsIn(t, p) = Parsed(Rest(r, i, n), p + Len(f[i]))
    BY DEF ElementsSay
  <2> DEFINE q == p + Len(parts[i])
  <2>1. IsText(parts[i]) /\ Len(parts[i]) >= 1 /\ (i # n => i + 1 \in 1 .. n /\ i < n)
    BY DEF Says
  <2>2. /\ Placed(t, p, parts[i])
        /\ i = n => TypeAt(t, q) = end.type /\ p + Len(f[i]) = q + 1
        /\ i # n => /\ TypeAt(t, q) = "arraySeparator"
                    /\ Placed(t, q + 1, f[i + 1]) /\ p + Len(f[i]) = (q + 1) + Len(f[i + 1])
    <3>1. n \in Nat /\ IsText(parts[i])
      BY <2>1
    <3> HIDE DEF q
    <3> SUFFICES /\ Placed(t, p, parts[i])
                 /\ i = n => /\ TypeAt(t, p + Len(parts[i])) = end.type
                             /\ p + Len(f[i]) = (p + Len(parts[i])) + 1
                 /\ i # n => /\ TypeAt(t, p + Len(parts[i])) = "arraySeparator"
                             /\ Placed(t, (p + Len(parts[i])) + 1, f[i + 1])
                             /\ p + Len(f[i]) = ((p + Len(parts[i])) + 1) + Len(f[i + 1])
      BY DEF q
    <3> QED BY ONLY Len(parts) = n, i \in 1 .. n, Assembled(f, parts, end), IsText(t),
                    Placed(t, p, f[i]), <3>1, PartsPlaced
  <2>3. p \in 1 .. Len(t)
    BY <2>1, <2>2, PlacedToken
  <2>4. ValueIn(t, p) = Parsed(r[i], q)
    BY <2>2 DEF Says
  <2> HIDE DEF q
  <2>5. CASE i = n
    <3>1. TypeAt(t, q) = "arrayEnd" /\ Rest(r, i, n) = <<r[i]>>
      BY <2>2, <2>5, RestIs
    <3>2. ElementsIn(t, p) = Parsed(<<r[i]>>, q + 1)
      BY <2>3, <2>4, <3>1, ElementsUnfold
    <3> QED BY <2>2, <2>5, <3>1, <3>2
  <2>6. CASE i # n
    <3>1. ElementsIn(t, q + 1) = Parsed(Rest(r, i + 1, n), (q + 1) + Len(f[i + 1]))
      BY <1>1, <2>1, <2>2, <2>6 DEF ElementsSay
    <3>2. Rest(r, i, n) = <<r[i]>> \o Rest(r, i + 1, n)
      BY <2>1, <2>6, RestIs
    <3>3. ElementsIn(t, p) = Parsed(<<r[i]>> \o Rest(r, i + 1, n), (q + 1) + Len(f[i + 1]))
      BY <2>2, <2>3, <2>4, <2>6, <3>1, ElementsUnfold
    <3> QED BY <2>2, <2>6, <3>2, <3>3
  <2> QED BY <2>5, <2>6
<1>2. 0 \in B
  <2>1. PICK i : i = n - 0
    OBVIOUS
  <2>2. i \in 1 .. n /\ ~(i < n) /\ 0 \in 0 .. n - 1
    BY <2>1
  <2>3. ElementsSay(f, r, i, n)
    BY <1>1, <2>2
  <2> QED BY <2>1, <2>2, <2>3
<1>3. ASSUME NEW b \in B, b < n - 1 PROVE b + 1 \in B
  <2>1. PICK i : i = n - (b + 1)
    OBVIOUS
  <2>2. i \in 1 .. n /\ i + 1 = n - b /\ b + 1 \in 0 .. n - 1
    BY <1>3, <2>1
  <2>3. ElementsSay(f, r, i + 1, n)
    BY <2>2
  <2>4. ElementsSay(f, r, i, n)
    BY <1>1, <2>2, <2>3
  <2> QED BY <2>1, <2>2, <2>4
<1>4. n - 1 \in B
  <2>1. B \subseteq 0 .. n - 1 /\ n - 1 \in Nat
    OBVIOUS
  <2> HIDE DEF B
  <2> QED BY <1>2, <1>3, <2>1, LastPlace
<1>5. n - (n - 1) = 1
  OBVIOUS
<1> QED BY <1>4, <1>5

-----------------------------------------------------------------------------
\* The members of r with the names from the i-th on.
Named(r, name, i, n) == [k \in {name[j] : j \in i .. n} |-> r[k]]

MembersSay(f, r, name, i, n) ==
  \A t, p : IsText(t) /\ Placed(t, p, f[i]) =>
    MembersIn(t, p) = Parsed(Named(r, name, i, n), p + Len(f[i]))

LEMMA NamedIs ==
  ASSUME NEW n \in Nat, NEW i \in 1 .. n, NEW name, NEW r
  PROVE  /\ i = n => Named(r, name, i, n) = Member(name[i], r[name[i]])
         /\ i < n => Named(r, name, i, n)
                       = Over(Member(name[i], r[name[i]]), Named(r, name, i + 1, n))
<1>1. i .. n = {i} \cup (i + 1 .. n) /\ (i = n => i .. n = {i})
  OBVIOUS
<1> DEFINE D == {name[j] : j \in i .. n}
           E == {name[j] : j \in i + 1 .. n}
<1>2. D = {name[i]} \cup E /\ (i = n => D = {name[i]})
  BY <1>1
<1> HIDE DEF D, E
<1>3. /\ Named(r, name, i, n) = [k \in D |-> r[k]]
      /\ Named(r, name, i + 1, n) = [k \in E |-> r[k]]
  BY DEF Named, D, E
<1>4. Member(name[i], r[name[i]]) = [k \in {name[i]} |-> r[k]]
  BY DEF Member
<1>5. Over([k \in {name[i]} |-> r[k]], [k \in E |-> r[k]]) = [k \in {name[i]} \cup E |-> r[k]]
  BY DEF Over
<1> QED BY <1>2, <1>3, <1>4, <1>5

LEMMA MembersUnfold ==
  ASSUME NEW t, IsText(t), NEW p \in 1 .. Len(t), TypeAt(t, p) = "string", t[p].str # Bad,
         TypeAt(t, p + 1) = "memberSeparator",
         NEW x, NEW q, ValueIn(t, p + 2) = Parsed(x, q)
  PROVE  /\ TypeAt(t, q) = "objectEnd" =>
              MembersIn(t, p) = Parsed(Member(t[p].str, x), q + 1)
         /\ \A s, z : TypeAt(t, q) = "arraySeparator" /\ MembersIn(t, q + 1) = Parsed(s, z) =>
              MembersIn(t, p) = Parsed(Over(Member(t[p].str, x), s), z)
<1>0. p \in 1 .. Len(t) + 1
  BY LenProperties DEF IsText
<1>1. /\ MembersIn(t, p) = MembersAt(t, Grammar(t), p)
      /\ Grammar(t)[p + 2].value = Parsed(x, q)
  BY <1>0, Unfolded DEF ValueIn
<1>2. Parsed(x, q).ok /\ Parsed(x, q).value = x /\ Parsed(x, q).next = q
  BY PhraseIs
<1>3. CASE TypeAt(t, q) = "objectEnd"
  BY <1>1, <1>2, <1>3 DEF MembersAt
<1>4. ASSUME NEW s, NEW z, TypeAt(t, q) = "arraySeparator", MembersIn(t, q + 1) = Parsed(s, z)
      PROVE  MembersIn(t, p) = Parsed(Over(Member(t[p].str, x), s), z)
  <2>1. Grammar(t)[q + 1].members = Parsed(s, z)
    BY <1>4 DEF MembersIn
  <2>2. Parsed(s, z).ok /\ Parsed(s, z).value = s /\ Parsed(s, z).next = z
    BY PhraseIs
  <2> QED BY <1>1, <1>2, <1>4, <2>1, <2>2 DEF MembersAt
<1> QED BY <1>3, <1>4

\* A member stands behind its name and a colon.
Begins(m, a, b, w) == m = <<a, b>> \o w

MemberPlaced(t, p, m, a, b, w) ==
  /\ p \in 1 .. Len(t) /\ t[p] = a /\ TypeAt(t, p) = a.type
  /\ TypeAt(t, p + 1) = b.type
  /\ Placed(t, p + 2, w) /\ p + Len(m) = (p + 2) + Len(w)

LEMMA MemberBegins ==
  ASSUME NEW a, NEW b, NEW w, IsText(w), NEW m, Begins(m, a, b, w)
  PROVE  /\ IsText(m) /\ Len(m) >= 1 /\ m[1] = a
         /\ \A t, p : IsText(t) /\ Placed(t, p, m) => MemberPlaced(t, p, m, a, b, w)
<1>1. PICK c, d, e : c = <<a>> /\ d = <<b>> /\ e = c \o d
  OBVIOUS
<1>2. /\ IsText(c) /\ Len(c) = 1 /\ c[1] = a
      /\ IsText(d) /\ Len(d) = 1 /\ d[1] = b
  BY <1>1, OneToken
<1>3. IsText(c) /\ IsText(d) /\ e = c \o d
  BY <1>1, <1>2
<1>4. /\ IsText(e) /\ Len(e) = Len(c) + Len(d)
      /\ \A i \in 1 .. Len(c) : e[i] = c[i]
  BY ONLY <1>3, TextsJoined
<1>5. m = e \o w
  <2>1. <<a>> \o <<b>> = <<a, b>>
    <3> DEFINE S == {a, b}
    <3>1. PICK s, u, v : s = <<a, b>> /\ u = <<a>> /\ v = <<b>>
      OBVIOUS
    <3>2. /\ s \in Seq(S) /\ Len(s) = 2 /\ s[1] = a /\ s[2] = b
          /\ u \in Seq(S) /\ Len(u) = 1 /\ u[1] = a
          /\ v \in Seq(S) /\ Len(v) = 1 /\ v[1] = b
      BY <3>1
    <3> HIDE DEF S
    <3> DEFINE x == u \o v
    <3>3. /\ x \in Seq(S) /\ Len(x) = Len(u) + Len(v)
          /\ \A i \in 1 .. Len(u) + Len(v) : x[i] = IF i <= Len(u) THEN u[i] ELSE v[i - Len(u)]
      BY ONLY <3>2, ConcatProperties
    <3>4. /\ x \in Seq(S) /\ Len(x) = 1 + 1
          /\ \A i \in 1 .. 1 + 1 : x[i] = IF i <= 1 THEN u[i] ELSE v[i - 1]
      <4> HIDE DEF x
      <4> QED BY ONLY <3>2, <3>3
    <3> HIDE DEF x
    <3>5. x[1] = a /\ x[2] = b /\ Len(x) = 2
      <4>1. 1 \in 1 .. 1 + 1 /\ 2 \in 1 .. 1 + 1 /\ 2 - 1 = 1 /\ ~(2 <= 1)
        OBVIOUS
      <4> QED BY <3>2, <3>4, <4>1
    <3>6. \A i \in 1 .. Len(x) : x[i] = s[i]
      BY <3>2, <3>5
    <3>7. x = s
      BY <3>2, <3>4, <3>5, <3>6, SeqEqual
    <3> QED BY <3>1, <3>7 DEF x
  <2> QED BY <1>1, <2>1 DEF Begins
<1>6. /\ IsText(m) /\ Len(e) \in Nat /\ Len(w) \in Nat /\ Len(m) = Len(e) + Len(w)
      /\ \A i \in 1 .. Len(e) : m[i] = e[i]
  BY ONLY IsText(w), <1>4, <1>5, TextsJoined
<1>7. Len(e) = 2 /\ 1 \in 1 .. Len(e) /\ m[1] = a /\ Len(m) >= 1
  BY <1>2, <1>4, <1>6
<1>8. ASSUME NEW t, NEW p, IsText(t), Placed(t, p, m)
      PROVE  MemberPlaced(t, p, m, a, b, w)
  <2>1. p \in 1 .. Len(t) /\ t[p] = a /\ TypeAt(t, p) = a.type
    BY ONLY <1>6, <1>7, <1>8, PlacedToken
  <2>2. Placed(t, p, e \o w)
    BY <1>5, <1>8, Zenon
  <2>3. Placed(t, p, e) /\ Placed(t, p + Len(e), w) /\ p + Len(e \o w) = (p + Len(e)) + Len(w)
    <3>1. IsText(e)
      BY <1>4
    <3> QED BY ONLY <1>8, IsText(w), <2>2, <3>1, PlacedParts
  <2>4. Placed(t, p, c \o d)
    BY <1>1, <2>3
  <2>5. Placed(t, p, c) /\ Placed(t, p + Len(c), d)
    <3>1. IsText(c) /\ IsText(d)
      BY <1>2
    <3> QED BY ONLY <1>8, <2>4, <3>1, PlacedParts
  <2>6. PICK q : q = p + 1
    OBVIOUS
  <2>7. Placed(t, q, d) /\ IsText(d) /\ Len(d) >= 1
    BY <1>2, <2>5, <2>6
  <2>8. TypeAt(t, q) = d[1].type
    BY ONLY <1>8, <2>7, PlacedToken
  <2> QED BY <1>2, <1>5, <1>7, <2>1, <2>3, <2>6, <2>8 DEF MemberPlaced
<1> QED BY <1>6, <1>7, <1>8

LEMMA MembersSaid ==
  ASSUME NEW n \in Nat \ {0}, NEW parts, Len(parts) = n, NEW f, NEW r, NEW name, NEW w,
         \A i \in 1 .. n :
           /\ name[i] # Bad /\ Says(w[i], r[name[i]])
           /\ parts[i] = <<StringToken(name[i]), MarkToken("memberSeparator")>> \o w[i],
         NEW end, end.type = "objectEnd", Assembled(f, parts, end)
  PROVE  MembersSay(f, r, name, 1, n)
<1> DEFINE B == {b \in 0 .. n - 1 : MembersSay(f, r, name, n - b, n)}
<1>1. ASSUME NEW i \in 1 .. n, i < n => MembersSay(f, r, name, i + 1, n)
      PROVE  MembersSay(f, r, name, i, n)
  <2> SUFFICES ASSUME NEW t, NEW p, IsText(t), Placed(t, p, f[i])
               PROVE  MembersIn(t, p) = Parsed(Named(r, name, i, n), p + Len(f[i]))
    BY DEF MembersSay
  <2>1. PICK a, c, u, k, x :
          /\ a = StringToken(name[i]) /\ c = MarkToken("memberSeparator") /\ u = w[i]
          /\ k = name[i] /\ x = r[k]
    OBVIOUS
  <2>2. PICK m : m = parts[i]
    OBVIOUS
  <2>3. /\ m = <<a, c>> \o u /\ k # Bad /\ Says(u, x) /\ (i # n => i < n) /\ n \in Nat
        /\ a.type = "string" /\ a.str = k /\ c.type = "memberSeparator"
    <3>1. StringToken(name[i]).type = "string" /\ StringToken(name[i]).str = name[i]
      BY DEF StringToken
    <3>2. MarkToken("memberSeparator").type = "memberSeparator"
      BY DEF MarkToken
    <3>3. n \in Nat /\ (i # n => i < n)
      OBVIOUS
    <3>4. parts[i] = <<a, c>> \o u
      BY <2>1
    <3> QED BY <2>1, <2>2, <3>1, <3>2, <3>3, <3>4
  <2>4. IsText(u) /\ Len(u) >= 1
    BY <2>3 DEF Says
  <2>5. Begins(m, a, c, u) /\ IsText(m)
    <3>1. Begins(m, a, c, u)
      BY <2>3 DEF Begins
    <3> QED BY <2>4, <3>1, MemberBegins
  <2>6. PICK q : q = p + Len(m)
    OBVIOUS
  <2>7. /\ Placed(t, p, m)
        /\ i = n => TypeAt(t, q) = end.type /\ p + Len(f[i]) = q + 1
        /\ i # n => /\ TypeAt(t, q) = "arraySeparator"
                    /\ Placed(t, q + 1, f[i + 1]) /\ p + Len(f[i]) = (q + 1) + Len(f[i + 1])
    <3>1. n \in Nat /\ IsText(parts[i])
      BY <2>2, <2>5
    <3> SUFFICES /\ Placed(t, p, parts[i])
                 /\ i = n => /\ TypeAt(t, p + Len(parts[i])) = end.type
                             /\ p + Len(f[i]) = (p + Len(parts[i])) + 1
                 /\ i # n => /\ TypeAt(t, p + Len(parts[i])) = "arraySeparator"
                             /\ Placed(t, (p + Len(parts[i])) + 1, f[i + 1])
                             /\ p + Len(f[i]) = ((p + Len(parts[i])) + 1) + Len(f[i + 1])
      BY <2>2, <2>6
    <3> QED BY ONLY Len(parts) = n, i \in 1 .. n, Assembled(f, parts, end), IsText(t),
                    Placed(t, p, f[i]), <3>1, PartsPlaced
  <2>8. /\ p \in 1 .. Len(t) /\ t[p] = a /\ TypeAt(t, p) = "string"
        /\ TypeAt(t, p + 1) = "memberSeparator"
        /\ Placed(t, p + 2, u) /\ q = (p + 2) + Len(u)
    <3>1. IsText(u) /\ Begins(m, a, c, u) /\ IsText(t) /\ Placed(t, p, m)
      BY <2>4, <2>5, <2>7
    <3>2. MemberPlaced(t, p, m, a, c, u)
      BY ONLY <3>1, MemberBegins
    <3> QED BY <2>3, <2>6, <3>2 DEF MemberPlaced
  <2>9. ValueIn(t, p + 2) = Parsed(x, q)
    BY <2>3, <2>8 DEF Says
  <2>10. /\ TypeAt(t, q) = "objectEnd" => MembersIn(t, p) = Parsed(Member(k, x), q + 1)
         /\ \A s, z : TypeAt(t, q) = "arraySeparator" /\ MembersIn(t, q + 1) = Parsed(s, z) =>
              MembersIn(t, p) = Parsed(Over(Member(k, x), s), z)
    <3>1. t[p].str = k /\ t[p].str # Bad
      BY <2>3, <2>8
    <3> QED BY <2>8, <2>9, <3>1, MembersUnfold
  <2>11. CASE i = n
    <3>1. Named(r, name, i, n) = Member(k, x)
      BY <2>1, <2>3, <2>11, NamedIs
    <3> QED BY <2>7, <2>10, <2>11, <3>1
  <2>12. CASE i # n
    <3>1. MembersIn(t, q + 1) = Parsed(Named(r, name, i + 1, n), (q + 1) + Len(f[i + 1]))
      BY <1>1, <2>3, <2>7, <2>12 DEF MembersSay
    <3>2. Named(r, name, i, n) = Over(Member(k, x), Named(r, name, i + 1, n))
      BY <2>1, <2>3, <2>12, NamedIs
    <3> QED BY <2>7, <2>10, <2>12, <3>1, <3>2
  <2> QED BY <2>11, <2>12
<1>2. 0 \in B
  <2>1. PICK i : i = n - 0
    OBVIOUS
  <2>2. i \in 1 .. n /\ ~(i < n) /\ 0 \in 0 .. n - 1
    BY <2>1
  <2>3. MembersSay(f, r, name, i, n)
    BY <1>1, <2>2
  <2> QED BY <2>1, <2>2, <2>3
<1>3. ASSUME NEW b \in B, b < n - 1 PROVE b + 1 \in B
  <2>1. PICK i : i = n - (b + 1)
    OBVIOUS
  <2>2. i \in 1 .. n /\ i + 1 = n - b /\ b + 1 \in 0 .. n - 1
    BY <1>3, <2>1
  <2>3. MembersSay(f, r, name, i + 1, n)
    BY <2>2
  <2>4. MembersSay(f, r, name, i, n)
    BY <1>1, <2>2, <2>3
  <2> QED BY <2>1, <2>2, <2>4
<1>4. n - 1 \in B
  <2>1. B \subseteq 0 .. n - 1 /\ n - 1 \in Nat
    OBVIOUS
  <2> HIDE DEF B
  <2> QED BY <1>2, <1>3, <2>1, LastPlace
<1>5. n - (n - 1) = 1
  OBVIOUS
<1> QED BY <1>4, <1>5

-----------------------------------------------------------------------------
(***************************************************************************)
(* What a container says.                                                  *)
(***************************************************************************)
Opens(w, b, s) == w = <<b>> \o s

OpenedAt(t, p, w, b, s) ==
  /\ p \in 1 .. Len(t) /\ p \in Nat /\ TypeAt(t, p) = b.type
  /\ Placed(t, p + 1, s) /\ p + Len(w) = (p + 1) + Len(s)

LEMMA ContainerOpens ==
  ASSUME NEW b, NEW s, IsText(s), NEW w, Opens(w, b, s)
  PROVE  /\ IsText(w) /\ Len(w) >= 1 /\ w[1] = b
         /\ \A t, p : IsText(t) /\ Placed(t, p, w) => OpenedAt(t, p, w, b, s)
<1>1. PICK c : c = <<b>>
  OBVIOUS
<1>2. IsText(c) /\ Len(c) = 1 /\ c[1] = b
  BY <1>1, OneToken
<1>3. w = c \o s
  BY <1>1 DEF Opens
<1>4. /\ IsText(w) /\ Len(c) \in Nat /\ Len(s) \in Nat /\ Len(w) = Len(c) + Len(s)
      /\ \A i \in 1 .. Len(c) : w[i] = c[i]
  <2>1. IsText(c)
    BY <1>2
  <2> QED BY ONLY IsText(s), <2>1, <1>3, TextsJoined
<1>5. Len(w) >= 1 /\ w[1] = b
  BY <1>2, <1>4
<1>6. ASSUME NEW t, NEW p, IsText(t), Placed(t, p, w)
      PROVE  OpenedAt(t, p, w, b, s)
  <2>1. p \in 1 .. Len(t) /\ TypeAt(t, p) = b.type
    BY ONLY <1>4, <1>5, <1>6, PlacedToken
  <2>2. Placed(t, p, c \o s)
    BY <1>3, <1>6
  <2>3. Placed(t, p + Len(c), s) /\ p + Len(c \o s) = (p + Len(c)) + Len(s)
    <3>1. IsText(c)
      BY <1>2
    <3> QED BY ONLY <1>6, IsText(s), <2>2, <3>1, PlacedParts
  <2>4. Len(t) \in Nat
    BY <1>6, LenProperties DEF IsText
  <2>5. p \in Nat
    BY <2>1, <2>4
  <2> QED BY <1>2, <1>3, <2>1, <2>3, <2>5 DEF OpenedAt
<1> QED BY <1>4, <1>5, <1>6

\* An empty container is nothing but its beginning and its end.
LEMMA EndPlaced ==
  ASSUME NEW t, IsText(t), NEW p, NEW w, NEW b, NEW e, NEW s, s = <<e>>, OpenedAt(t, p, w, b, s)
  PROVE  TypeAt(t, p + 1) = e.type /\ p + Len(w) = p + 2
<1>1. IsText(s) /\ Len(s) = 1 /\ s[1] = e
  BY OneToken
<1>2. PICK q : q = p + 1
  OBVIOUS
<1>3. Placed(t, q, s) /\ Len(s) >= 1 /\ p + Len(w) = (p + 1) + 1 /\ p \in Nat
  BY <1>1, <1>2 DEF OpenedAt
<1>4. TypeAt(t, q) = e.type
  BY ONLY IsText(t), <1>1, <1>3, PlacedToken
<1>5. (p + 1) + 1 = p + 2
  BY <1>3
<1> QED BY <1>2, <1>3, <1>4, <1>5

LEMMA ArraySays ==
  ASSUME NEW n \in Nat, NEW parts, parts = [i \in 1 .. n |-> parts[i]], NEW r,
         \A i \in 1 .. n : Says(parts[i], r[i]),
         NEW b, b.type = "arrayBegin", NEW end, end.type = "arrayEnd"
  PROVE  Says(<<b>> \o Separated(parts, end), ArrayValue([k \in 0 .. n - 1 |-> r[k + 1]]))
<1>1. PICK s, w : s = Separated(parts, end) /\ Opens(w, b, s)
  BY DEF Opens
<1>2. PICK a : a = ArrayValue([k \in 0 .. n - 1 |-> r[k + 1]])
  OBVIOUS
<1>3. Len(parts) = n
  OBVIOUS
<1>4. SUFFICES Says(w, a)
  BY <1>1, <1>2 DEF Opens
<1>5. CASE n = 0
  <2>1. s = <<end>>
    BY <1>1, <1>3, <1>5 DEF Separated
  <2>2. IsText(s)
    BY <2>1, OneToken
  <2>3. /\ IsText(w) /\ Len(w) >= 1 /\ w[1] = b
        /\ \A t, p : IsText(t) /\ Placed(t, p, w) => OpenedAt(t, p, w, b, s)
    BY ONLY <1>1, <2>2, ContainerOpens
  <2>4. ArrayOf(<< >>) = a
    <3>1. [k \in 0 .. 0 - 1 |-> << >>[k + 1]] = [k \in 0 .. 0 - 1 |-> r[k + 1]]
      <4>1. 0 .. 0 - 1 = {}
        OBVIOUS
      <4> QED BY <4>1
    <3>2. Len(<< >>) = 0
      OBVIOUS
    <3> QED BY <1>2, <1>5, <3>1, <3>2 DEF ArrayOf
  <2>5. ASSUME NEW t, NEW p, IsText(t), Placed(t, p, w)
        PROVE  ValueIn(t, p) = Parsed(a, p + Len(w))
    <3>1. OpenedAt(t, p, w, b, s)
      BY <2>3, <2>5
    <3>2. TypeAt(t, p + 1) = "arrayEnd" /\ p + Len(w) = p + 2
      <4>1. TypeAt(t, p + 1) = end.type /\ p + Len(w) = p + 2
        BY ONLY <2>1, <2>5, <3>1, EndPlaced
      <4> QED BY <4>1
    <3>3. p \in 1 .. Len(t) /\ TypeAt(t, p) = "arrayBegin"
      BY <3>1 DEF OpenedAt
    <3> QED BY <2>4, <2>5, <3>2, <3>3, ContainerIn
  <2> QED BY <2>3, <2>5 DEF Says
<1>6. CASE n # 0
  <2>1. n \in Nat \ {0} /\ 1 \in 1 .. n
    BY <1>6
  <2>2. \A i \in 1 .. n : IsText(parts[i]) /\ Len(parts[i]) >= 1 /\ parts[i][1].type # "arrayEnd"
    BY DEF Says
  <2>3. PICK f : s = f[1] /\ Assembled(f, parts, end)
    <3>1. \A i \in 1 .. n : IsText(parts[i])
      BY <2>2
    <3>2. \E f : Separated(parts, end) = f[1] /\ Assembled(f, parts, end)
      BY ONLY parts = [i \in 1 .. n |-> parts[i]], <2>1, <3>1, SeparatedIs
    <3> QED BY <1>1, <3>2
  <2>4. IsText(s)
    BY <1>3, <2>1, <2>3 DEF Assembled
  <2>5. /\ IsText(w) /\ Len(w) >= 1 /\ w[1] = b
        /\ \A t, p : IsText(t) /\ Placed(t, p, w) => OpenedAt(t, p, w, b, s)
    BY ONLY <1>1, <2>4, ContainerOpens
  <2>6. ElementsSay(f, r, 1, n)
    BY <1>3, <2>1, <2>3, ElementsSaid
  <2>7. ArrayOf(Rest(r, 1, n)) = a
    <3>1. Rest(r, 1, n) = [j \in 1 .. n |-> r[j]]
      <4>1. (n - 1) + 1 = n /\ \A j \in 1 .. n : (1 + j) - 1 = j
        OBVIOUS
      <4> QED BY <4>1 DEF Rest
    <3>2. PICK l : l = Rest(r, 1, n)
      OBVIOUS
    <3>3. Len(l) = n /\ \A j \in 1 .. n : l[j] = r[j]
      BY <3>1, <3>2
    <3>4. \A k \in 0 .. n - 1 : k + 1 \in 1 .. n
      OBVIOUS
    <3>5. [k \in 0 .. n - 1 |-> l[k + 1]] = [k \in 0 .. n - 1 |-> r[k + 1]]
      BY <3>3, <3>4
    <3> QED BY <1>2, <3>2, <3>3, <3>5 DEF ArrayOf
  <2>8. ASSUME NEW t, NEW p, IsText(t), Placed(t, p, w)
        PROVE  ValueIn(t, p) = Parsed(a, p + Len(w))
    <3>1. PICK q : q = p + 1
      OBVIOUS
    <3>2. /\ p \in 1 .. Len(t) /\ TypeAt(t, p) = "arrayBegin"
          /\ Placed(t, q, f[1]) /\ p + Len(w) = q + Len(f[1])
      BY <2>3, <2>5, <2>8, <3>1 DEF OpenedAt
    <3>3. ElementsIn(t, q) = Parsed(Rest(r, 1, n), p + Len(w))
      BY <2>6, <2>8, <3>2 DEF ElementsSay
    <3>4. Placed(t, q, parts[1])
      <4>1. n \in Nat /\ IsText(parts[1])
        BY <2>1, <2>2
      <4> QED BY ONLY <1>3, <2>1, <2>3, <2>8, <3>2, <4>1, PartsPlaced
    <3>5. TypeAt(t, q) # "arrayEnd"
      <4>1. PICK m : m = parts[1]
        OBVIOUS
      <4>2. IsText(m) /\ Len(m) >= 1 /\ Placed(t, q, m) /\ m[1].type # "arrayEnd"
        BY <2>1, <2>2, <3>4, <4>1
      <4>3. TypeAt(t, q) = m[1].type
        BY ONLY <2>8, <4>2, PlacedToken
      <4> QED BY <4>2, <4>3
    <3>6. PICK l, z : l = Rest(r, 1, n) /\ z = p + Len(w)
      OBVIOUS
    <3>7. Parsed(l, z).ok /\ Parsed(l, z).value = l /\ Parsed(l, z).next = z
      BY PhraseIs
    <3>8. ValueIn(t, p) = IF TypeAt(t, p + 1) = "arrayEnd" THEN Parsed(ArrayOf(<< >>), p + 2)
                          ELSE IF ElementsIn(t, p + 1).ok
                               THEN Parsed(ArrayOf(ElementsIn(t, p + 1).value), ElementsIn(t, p + 1).next)
                               ELSE None
      BY <2>8, <3>2, ContainerIn
    <3> QED BY <2>7, <3>1, <3>3, <3>5, <3>6, <3>7, <3>8
  <2> QED BY <2>5, <2>8 DEF Says
<1> QED BY <1>5, <1>6

\* Each part is a name of r, a colon and what says the member.
MembersGiven(n, parts, name, u, r) ==
  \A i \in 1 .. n :
    /\ name[i] # Bad /\ Says(u[i], r[name[i]])
    /\ parts[i] = <<StringToken(name[i]), MarkToken("memberSeparator")>> \o u[i]

NamesOf(name, n) == {name[i] : i \in 1 .. n}

LEMMA ObjectSays ==
  ASSUME NEW n \in Nat, NEW parts, parts = [i \in 1 .. n |-> parts[i]], NEW r, NEW name, NEW u,
         MembersGiven(n, parts, name, u, r),
         NEW b, b.type = "objectBegin", NEW end, end.type = "objectEnd"
  PROVE  Says(<<b>> \o Separated(parts, end),
              ObjectValue([k \in NamesOf(name, n) |-> r[k]]))
<1>1. PICK s, w : s = Separated(parts, end) /\ Opens(w, b, s)
  BY DEF Opens
<1>2. PICK a : a = ObjectValue([k \in NamesOf(name, n) |-> r[k]])
  OBVIOUS
<1>3. Len(parts) = n
  OBVIOUS
<1>0. \A i \in 1 .. n :
        /\ name[i] # Bad /\ Says(u[i], r[name[i]])
        /\ parts[i] = <<StringToken(name[i]), MarkToken("memberSeparator")>> \o u[i]
  BY DEF MembersGiven
<1>4. SUFFICES Says(w, a)
  BY <1>1, <1>2 DEF Opens
<1>5. CASE n = 0
  <2>1. s = <<end>>
    BY <1>1, <1>3, <1>5 DEF Separated
  <2>2. IsText(s)
    BY <2>1, OneToken
  <2>3. /\ IsText(w) /\ Len(w) >= 1 /\ w[1] = b
        /\ \A t, p : IsText(t) /\ Placed(t, p, w) => OpenedAt(t, p, w, b, s)
    BY ONLY <1>1, <2>2, ContainerOpens
  <2>4. ObjectValue(NoElements) = a
    <3>1. {name[i] : i \in 1 .. 0} = {}
      OBVIOUS
    <3>2. NoElements = [k \in {name[i] : i \in 1 .. 0} |-> r[k]]
      BY <3>1 DEF NoElements
    <3> QED BY <1>2, <1>5, <3>2 DEF NamesOf
  <2>5. ASSUME NEW t, NEW p, IsText(t), Placed(t, p, w)
        PROVE  ValueIn(t, p) = Parsed(a, p + Len(w))
    <3>1. OpenedAt(t, p, w, b, s)
      BY <2>3, <2>5
    <3>2. TypeAt(t, p + 1) = "objectEnd" /\ p + Len(w) = p + 2
      <4>1. TypeAt(t, p + 1) = end.type /\ p + Len(w) = p + 2
        BY ONLY <2>1, <2>5, <3>1, EndPlaced
      <4> QED BY <4>1
    <3>3. p \in 1 .. Len(t) /\ TypeAt(t, p) = "objectBegin"
      BY <3>1 DEF OpenedAt
    <3> QED BY <2>4, <2>5, <3>2, <3>3, ContainerIn
  <2> QED BY <2>3, <2>5 DEF Says
<1>6. CASE n # 0
  <2>1. n \in Nat \ {0} /\ 1 \in 1 .. n
    BY <1>6
  <2>2. \A i \in 1 .. n : IsText(parts[i]) /\ Len(parts[i]) >= 1 /\ parts[i][1].type # "objectEnd"
    <3>1. ASSUME NEW i \in 1 .. n
          PROVE  IsText(parts[i]) /\ Len(parts[i]) >= 1 /\ parts[i][1].type # "objectEnd"
      <4>1. PICK d, c, v, m : /\ d = StringToken(name[i]) /\ c = MarkToken("memberSeparator")
                              /\ v = u[i] /\ m = parts[i]
        OBVIOUS
      <4>2. Begins(m, d, c, v) /\ IsText(v)
        BY <1>0, <4>1 DEF Begins, Says
      <4>3. IsText(m) /\ Len(m) >= 1 /\ m[1] = d
        BY ONLY <4>2, MemberBegins
      <4>4. d.type = "string"
        BY <4>1 DEF StringToken
      <4> QED BY <4>1, <4>3, <4>4
    <3> QED BY <3>1
  <2>3. PICK f : s = f[1] /\ Assembled(f, parts, end)
    <3>1. \A i \in 1 .. n : IsText(parts[i])
      BY <2>2
    <3>2. \E f : Separated(parts, end) = f[1] /\ Assembled(f, parts, end)
      BY ONLY parts = [i \in 1 .. n |-> parts[i]], <2>1, <3>1, SeparatedIs
    <3> QED BY <1>1, <3>2
  <2>4. IsText(s)
    BY <1>3, <2>1, <2>3 DEF Assembled
  <2>5. /\ IsText(w) /\ Len(w) >= 1 /\ w[1] = b
        /\ \A t, p : IsText(t) /\ Placed(t, p, w) => OpenedAt(t, p, w, b, s)
    BY ONLY <1>1, <2>4, ContainerOpens
  <2>6. MembersSay(f, r, name, 1, n)
    BY <1>0, <1>3, <2>1, <2>3, MembersSaid
  <2>7. ObjectValue(Named(r, name, 1, n)) = a
    BY <1>2 DEF Named, NamesOf
  <2>8. ASSUME NEW t, NEW p, IsText(t), Placed(t, p, w)
        PROVE  ValueIn(t, p) = Parsed(a, p + Len(w))
    <3>1. PICK q : q = p + 1
      OBVIOUS
    <3>2. /\ p \in 1 .. Len(t) /\ TypeAt(t, p) = "objectBegin"
          /\ Placed(t, q, f[1]) /\ p + Len(w) = q + Len(f[1])
      BY <2>3, <2>5, <2>8, <3>1 DEF OpenedAt
    <3>3. MembersIn(t, q) = Parsed(Named(r, name, 1, n), p + Len(w))
      BY <2>6, <2>8, <3>2 DEF MembersSay
    <3>4. Placed(t, q, parts[1])
      <4>1. n \in Nat /\ IsText(parts[1])
        BY <2>1, <2>2
      <4> QED BY ONLY <1>3, <2>1, <2>3, <2>8, <3>2, <4>1, PartsPlaced
    <3>5. TypeAt(t, q) # "objectEnd"
      <4>1. PICK m : m = parts[1]
        OBVIOUS
      <4>2. IsText(m) /\ Len(m) >= 1 /\ Placed(t, q, m) /\ m[1].type # "objectEnd"
        BY <2>1, <2>2, <3>4, <4>1
      <4>3. TypeAt(t, q) = m[1].type
        BY ONLY <2>8, <4>2, PlacedToken
      <4> QED BY <4>2, <4>3
    <3>6. PICK l, z : l = Named(r, name, 1, n) /\ z = p + Len(w)
      OBVIOUS
    <3>7. Parsed(l, z).ok /\ Parsed(l, z).value = l /\ Parsed(l, z).next = z
      BY PhraseIs
    <3>8. ValueIn(t, p) = IF TypeAt(t, p + 1) = "objectEnd" THEN Parsed(ObjectValue(NoElements), p + 2)
                          ELSE IF MembersIn(t, p + 1).ok
                               THEN Parsed(ObjectValue(MembersIn(t, p + 1).value), MembersIn(t, p + 1).next)
                               ELSE None
      BY <2>8, <3>2, ContainerIn
    <3> QED BY <2>7, <3>1, <3>3, <3>5, <3>6, <3>7, <3>8
  <2> QED BY <2>5, <2>8 DEF Says
<1> QED BY <1>5, <1>6

-----------------------------------------------------------------------------
(***************************************************************************)
(* What the text of a value says.                                          *)
(***************************************************************************)
\* What is written for the values of A says what is read for them.
Tell(W, R, A) == \A x \in A : Says(W[x], R[x])

LEMMA ScalarTold ==
  ASSUME NEW v, Sound(v), ~IsComplex(v), v # StringValue(NullPointer), NEW W, NEW R
  PROVE  Says(WriteBy(W, v), ReadBy(R, v))
<1>1. PICK x, r : x = WriteBy(W, v) /\ r = ReadBy(R, v)
  OBVIOUS
<1>2. SUFFICES \E e : x = <<e>> /\ IsScalar(e) /\ Meaning(e) = r /\ r # Refused
  BY <1>1, ScalarSays
<1>3. v.type \in {"null", "int", "uint", "real", "string", "boolean"}
  BY SoundIs DEF ValueType, TypeRank, IsComplex
<1>4. CASE v.type = "null"
  <2> DEFINE e == MarkToken("null")
  <2>1. x = <<e>> /\ r = v /\ v = NullValue
    BY <1>1, <1>4, SoundIs DEF WriteBy, ReadBy
  <2>2. IsScalar(e) /\ Meaning(e) = NullValue /\ NullValue # Refused
    BY DEF IsScalar, Meaning, Decode, MarkToken, NullValue, Refused
  <2> QED BY <2>1, <2>2
<1>5. CASE v.type \in {"int", "uint"}
  <2> DEFINE e == WrittenNumber(v.num)
  <2>1. x = <<e>> /\ r = Fitting(v.num)
    BY <1>1, <1>5 DEF WriteBy, ReadBy
  <2>2. v.num \in Int
    BY <1>5, SoundIs
  <2>3. e.type = "number" /\ Meaning(e) = Fitting(v.num) /\ Fitting(v.num) # Refused
    BY <2>2, NumberMeans
  <2> HIDE DEF e
  <2> QED BY <2>1, <2>3 DEF IsScalar
<1>6. CASE v.type = "real"
  <2> DEFINE e == WrittenDouble(v.half)
  <2>1. x = <<e>> /\ r = IF v.half % 2 = 0 THEN Fitting(v.half \div 2) ELSE RealValue(v.half)
    BY <1>1, <1>6, SoundIs DEF WriteBy, ReadBy
  <2>2. v.half \in Int
    BY <1>6, SoundIs
  <2>3. e.type = "number" /\ Meaning(e) = r /\ r # Refused
    BY <2>1, <2>2, DoubleMeans
  <2> HIDE DEF e
  <2> QED BY <2>1, <2>3 DEF IsScalar
<1>7. CASE v.type = "string"
  <2> DEFINE e == StringToken(v.str)
  <2>1. v.str \in Int /\ v = StringValue(v.str) /\ v.str # NullPointer
    BY <1>7, SoundIs
  <2>2. x = <<e>> /\ r = v
    BY <1>1, <1>7, <2>1 DEF WriteBy, ReadBy
  <2>3. v.str # Bad
    BY <2>1, BadAssumption
  <2>4. IsScalar(e) /\ Meaning(e) = StringValue(v.str) /\ StringValue(v.str) # Refused
    BY <2>3 DEF IsScalar, Meaning, Decode, StringToken, StringValue, Refused
  <2> QED BY <2>1, <2>2, <2>4
<1>8. CASE v.type = "boolean"
  <2> DEFINE e == MarkToken(IF v.bool THEN "true" ELSE "false")
  <2>1. v.bool \in BOOLEAN /\ v = BoolValue(v.bool)
    BY <1>8, SoundIs
  <2>2. x = <<e>> /\ r = v
    BY <1>1, <1>8 DEF WriteBy, ReadBy
  <2>3. IsScalar(e) /\ Meaning(e) = BoolValue(v.bool) /\ BoolValue(v.bool) # Refused
    BY <2>1 DEF IsScalar, Meaning, Decode, MarkToken, BoolValue, Refused
  <2> QED BY <2>1, <2>2, <2>3
<1> QED BY <1>3, <1>4, <1>5, <1>6, <1>7, <1>8

LEMMA ArrayTold ==
  ASSUME NEW A, NullValue \in A, NEW v, Sound(v), Contains(A, v), v.type = "array",
         NEW W, NEW R, Tell(W, R, A)
  PROVE  Says(WriteBy(W, v), ReadBy(R, v))
<1> DEFINE n == Size(v)
           parts == [i \in 1 .. n |-> W[At(v, i - 1)]]
           r == [i \in 1 .. n |-> R[At(v, i - 1)]]
           b == MarkToken("arrayBegin")
           end == MarkToken("arrayEnd")
<1>1. n \in Nat /\ \A i : At(v, i) \in A
  BY ElementsOf DEF Sound
<1>2. WriteBy(W, v) = <<b>> \o Separated(parts, end)
  BY DEF WriteBy
<1>3. ReadBy(R, v) = ArrayValue([k \in 0 .. n - 1 |-> R[At(v, k)]])
  BY DEF ReadBy
<1>4. \A i \in 1 .. n : Says(parts[i], r[i])
  BY <1>1 DEF Tell
<1>5. [k \in 0 .. n - 1 |-> R[At(v, k)]] = [k \in 0 .. n - 1 |-> r[k + 1]]
  <2>1. \A k \in 0 .. n - 1 : k + 1 \in 1 .. n /\ (k + 1) - 1 = k
    BY <1>1
  <2>2. \A k \in 0 .. n - 1 : r[k + 1] = R[At(v, k)]
    BY <2>1
  <2> HIDE DEF r, n
  <2> QED BY <2>2
<1>6. parts = [i \in 1 .. n |-> parts[i]] /\ b.type = "arrayBegin" /\ end.type = "arrayEnd"
  BY DEF MarkToken
<1> HIDE DEF n, parts, r, b, end
<1>7. Says(<<b>> \o Separated(parts, end), ArrayValue([k \in 0 .. n - 1 |-> r[k + 1]]))
  BY ONLY <1>1, <1>4, <1>6, ArraySays
<1> QED BY <1>2, <1>3, <1>5, <1>7

LEMMA ObjectTold ==
  ASSUME NEW A, NullValue \in A, NEW v, Sound(v), Contains(A, v), v.type = "object",
         NEW W, NEW R, Tell(W, R, A)
  PROVE  Says(WriteBy(W, v), ReadBy(R, v))
<1> DEFINE n == Size(v)
           name == KeysInOrder(v)
           u == [i \in 1 .. n |-> W[v.map[name[i]]]]
           parts == [i \in 1 .. n |-> <<StringToken(name[i]), MarkToken("memberSeparator")>>
                                         \o W[v.map[name[i]]]]
           r == [k \in Keys(v) |-> R[v.map[k]]]
           b == MarkToken("objectBegin")
           end == MarkToken("objectEnd")
<1>1. /\ n \in Nat /\ \A i \in 1 .. n : name[i] \in Keys(v)
      /\ Keys(v) = {name[i] : i \in 1 .. n}
      /\ \A k \in Keys(v) : v.map[k] \in A /\ k \in Nat
  BY ElementsOf DEF Sound
<1>2. WriteBy(W, v) = <<b>> \o Separated(parts, end)
  BY DEF WriteBy
<1>3. ReadBy(R, v) = ObjectValue([k \in Keys(v) |-> R[v.map[k]]])
  BY DEF ReadBy
<1>4. \A i \in 1 .. n :
        /\ name[i] # Bad /\ Says(u[i], r[name[i]])
        /\ parts[i] = <<StringToken(name[i]), MarkToken("memberSeparator")>> \o u[i]
  <2>1. ASSUME NEW i \in 1 .. n
        PROVE  /\ name[i] # Bad /\ Says(u[i], r[name[i]])
               /\ parts[i] = <<StringToken(name[i]), MarkToken("memberSeparator")>> \o u[i]
    <3>1. name[i] \in Keys(v) /\ name[i] \in Nat /\ v.map[name[i]] \in A
      BY <1>1
    <3>2. name[i] # Bad
      BY <3>1, BadAssumption
    <3>3. Says(W[v.map[name[i]]], R[v.map[name[i]]])
      BY <3>1 DEF Tell
    <3> HIDE DEF n, name
    <3> QED BY <3>1, <3>2, <3>3
  <2> QED BY <2>1
<1>5. r = [k \in NamesOf(name, n) |-> r[k]]
  <2>1. r = [k \in Keys(v) |-> r[k]]
    OBVIOUS
  <2> HIDE DEF r, name, n
  <2> QED BY <1>1, <2>1 DEF NamesOf
<1>6. parts = [i \in 1 .. n |-> parts[i]] /\ b.type = "objectBegin" /\ end.type = "objectEnd"
  BY DEF MarkToken
<1>7. ReadBy(R, v) = ObjectValue(r)
  BY <1>3
<1> HIDE DEF n, parts, r, b, end, u, name
<1>8. MembersGiven(n, parts, name, u, r)
  BY <1>4 DEF MembersGiven
<1>9. Says(<<b>> \o Separated(parts, end),
           ObjectValue([k \in NamesOf(name, n) |-> r[k]]))
  BY ONLY <1>1, <1>6, <1>8, ObjectSays
<1> QED BY <1>2, <1>5, <1>7, <1>9

LEMMA ValueTold ==
  ASSUME NEW A, NullValue \in A, NEW v, Sound(v), Contains(A, v), v # StringValue(NullPointer),
         NEW W, NEW R, Tell(W, R, A)
  PROVE  Says(WriteBy(W, v), ReadBy(R, v))
<1>1. CASE IsComplex(v)
  <2>1. v.type \in {"array", "object"}
    BY <1>1 DEF IsComplex
  <2> QED BY <2>1, ArrayTold, ObjectTold
<1>2. CASE ~IsComplex(v)
  BY <1>2, ScalarTold
<1> QED BY <1>1, <1>2

LEMMA InsideTold ==
  ASSUME NEW V, Shallow(V), \A x \in Inside(V) : Sound(x), StringValue(NullPointer) \notin Inside(V),
         NEW W, IsWriting(W, Inside(V)), NEW R, IsReading(R, Inside(V))
  PROVE  Tell(W, R, Inside(V))
<1> DEFINE n == MaxNesting + 1
           B == {b \in 0 .. n : Tell(W, R, Layer(V, b))}
<1>1. n \in Nat /\ 0 \in 0 .. n /\ 0 \in 0 .. MaxNesting
  BY NestingAssumption
<1>2. ASSUME NEW x \in Inside(V)
      PROVE  W[x] = WriteBy(W, x) /\ R[x] = ReadBy(R, x)
  <2>1. W = [y \in Inside(V) |-> WriteBy(W, y)] /\ R = [y \in Inside(V) |-> ReadBy(R, y)]
    BY DEF IsWriting, IsReading
  <2> QED BY <2>1
<1>3. 0 \in B
  <2>1. ~IsComplex(NullValue) /\ Sound(NullValue) /\ NullValue # StringValue(NullPointer)
        /\ NullValue \in Inside(V)
    BY InsideIs DEF IsComplex, NullValue, Sound, IsValue, Scalar, StringValue
  <2>2. Says(WriteBy(W, NullValue), ReadBy(R, NullValue))
    BY <2>1, ScalarTold
  <2>3. Says(W[NullValue], R[NullValue])
    BY <1>2, <2>1, <2>2
  <2>4. Tell(W, R, Layer(V, 0))
    BY <2>3, LayersAre DEF Tell
  <2> QED BY <1>1, <2>4
<1>4. ASSUME NEW b \in B, b < n PROVE b + 1 \in B
  <2>1. b \in 0 .. MaxNesting /\ b + 1 \in 0 .. n
    BY <1>1, <1>4, NestingAssumption
  <2>2. PICK A, C : A = Layer(V, b) /\ C = Layer(V, b + 1)
    OBVIOUS
  <2>3. NullValue \in A /\ C \subseteq Inside(V) /\ \A x \in C : Contains(A, x)
    BY <2>1, <2>2, LayersAre
  <2>4. Tell(W, R, A)
    BY <2>2
  <2>5. ASSUME NEW x \in C PROVE Says(W[x], R[x])
    <3>1. Sound(x) /\ Contains(A, x) /\ x # StringValue(NullPointer) /\ x \in Inside(V)
      BY <2>3, <2>5
    <3>2. Says(WriteBy(W, x), ReadBy(R, x))
      BY ONLY <2>3, <2>4, <3>1, ValueTold
    <3> QED BY <1>2, <3>1, <3>2
  <2>6. Tell(W, R, Layer(V, b + 1))
    BY <2>2, <2>5 DEF Tell
  <2> QED BY <2>1, <2>6
<1>5. n \in B
  <2>1. B \subseteq 0 .. n
    OBVIOUS
  <2> HIDE DEF B
  <2> QED BY <1>1, <1>3, <1>4, <2>1, LastPlace
<1> QED BY <1>5, LayersAre

(***************************************************************************)
(* What FastWriter writes for the root is one value of the grammar of      *)
(* RFC 8259 and nothing more, and it is the value that was written, but    *)
(* for the types of its numbers and the gaps of its arrays, however the    *)
(* root was made (jsoncpp.cpp, FastWriter::writeValue).                    *)
(***************************************************************************)
THEOREM WritingReadsBack == Spec => []WrittenReadsBack
<1>1. RootFits => WrittenReadsBack
  <2> SUFFICES ASSUME RootFits, StringValue(NullPointer) \notin Inside({value})
               PROVE  LET text == Write(value)
                          read == Denotation(text)
                      IN  read.ok /\ read.next = Len(text) + 1 /\ read.value = AsRead(value)
    BY DEF WrittenReadsBack
  <2> DEFINE V == {value}
             W == CHOOSE g : IsWriting(g, Inside(V))
             R == CHOOSE g : IsReading(g, Inside(V))
  <2>1. Shallow(V) /\ \A x \in Inside(V) : Sound(x)
    BY RootBounded
  <2>2. value \in Inside(V)
    BY InsideIs
  <2>3. Write(value) = W[value]
    BY DEF Write, Written, IsWriting
  <2>4. AsRead(value) = R[value]
    BY DEF AsRead, IsReading
  <2>5. StringValue(NullPointer) \notin Inside(V)
    OBVIOUS
  <2> HIDE DEF V
  <2>6. \A x \in Inside(V) : IsValue(x)
    BY <2>1 DEF Sound
  <2>7. IsWriting(W, Inside(V)) /\ IsReading(R, Inside(V))
    BY <2>1, <2>6, WritingExists, ReadingExists
  <2> HIDE DEF W, R
  <2>8. Tell(W, R, Inside(V))
    BY ONLY <2>1, <2>5, <2>7, InsideTold
  <2>9. PICK text, r : text = W[value] /\ r = R[value]
    OBVIOUS
  <2>10. Says(text, r)
    BY <2>2, <2>8, <2>9 DEF Tell
  <2>11. IsText(text) /\ Placed(text, 1, text)
    <3>1. IsText(text)
      BY <2>10 DEF Says
    <3>2. Len(text) \in Nat
      BY <3>1, LenProperties DEF IsText
    <3>3. 1 \in Nat \ {0} /\ 1 + Len(text) <= Len(text) + 1 /\ \A j \in 1 .. Len(text) : (1 - 1) + j = j
      BY <3>2
    <3> QED BY <3>1, <3>3 DEF Placed
  <2>12. PICK z : z = 1 + Len(text)
    OBVIOUS
  <2>13. ValueIn(text, 1) = Parsed(r, z)
    BY <2>10, <2>11, <2>12 DEF Says
  <2>14. Denotation(text) = ValueIn(text, 1)
    BY DEF Denotation, ValueIn
  <2>15. Parsed(r, z).ok /\ Parsed(r, z).value = r /\ Parsed(r, z).next = z
    BY PhraseIs
  <2>16. z = Len(text) + 1
    <3>1. Len(text) \in Nat
      BY <2>11, LenProperties DEF IsText
    <3> QED BY <2>12, <3>1
  <2> QED BY <2>3, <2>4, <2>9, <2>13, <2>14, <2>15, <2>16
<1> QED BY <1>1, RootAlwaysFits, PTL
=============================================================================
