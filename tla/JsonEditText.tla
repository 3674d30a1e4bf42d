---------------------------- MODULE JsonEditText ----------------------------
(***************************************************************************)
(* The order of Json::Value and the text that is written for it, looked at *)
(* in every state of JsonEdit.                                             *)
(***************************************************************************)
EXTENDS JsonEdit, JsonWriter, JsonGrammar

CONSTANT Compared   \* the values that the root is compared with

\* Strings are null pointers or names, and values are nested no deeper than the bound,
\* also when the root has them as elements.
ASSUME NestingAssumption ==
  /\ MaxNesting \in Nat \ {0}
  /\ \A v \in Inside(Given \cup Element \cup Compared) :
       IsValue(v) /\ (v.type = "string" => v.str \in Name \cup {NullPointer})
  /\ Inner(Levels(Given \cup Compared)[MaxNesting]) = {}
  /\ Inner(Levels(Element)[MaxNesting - 1]) = {}

-----------------------------------------------------------------------------
(***************************************************************************)
(* Order and equality.                                                     *)
(***************************************************************************)
\* operator== compares types and payloads.
Equals(v, w) == v = w

\* operator< of two values of one type that are no containers.
LessScalar(v, w) ==
  CASE v.type = "null" -> FALSE
    [] v.type \in {"int", "uint"} -> v.num < w.num
    [] v.type = "real" -> v.half < w.half
    [] v.type = "string" -> v.str < w.str
    [] v.type = "boolean" -> ~v.bool /\ w.bool

\* std::map compares by the first pair that differs.
LessMap(less, f, g) ==
  \E k \in DOMAIN f \cup DOMAIN g :
    /\ \A j \in DOMAIN f \cup DOMAIN g : j < k =>
         j \in DOMAIN f \cap DOMAIN g /\ ~less[<<f[j], g[j]>>] /\ ~less[<<g[j], f[j]>>]
    /\ \/ k \in DOMAIN f \ DOMAIN g
       \/ k \in DOMAIN f \cap DOMAIN g /\ less[<<f[k], g[k]>>]

\* Mutant of LessBy: of two containers only the number of elements counts.
LessBySize(less, v, w) ==
  \/ TypeRank[v.type] < TypeRank[w.type]
  \/ v.type = w.type /\ ~IsComplex(v) /\ LessScalar(v, w)
  \/ v.type = w.type /\ IsComplex(v) /\ Cardinality(Keys(v)) < Cardinality(Keys(w))

\* operator<: by type, then by payload; arrays and objects by their number of
\* elements, then as maps.
LessBy(less, v, w) ==
  \/ TypeRank[v.type] < TypeRank[w.type]
  \/ v.type = w.type /\ ~IsComplex(v) /\ LessScalar(v, w)
  \/ /\ v.type = w.type /\ IsComplex(v)
     /\ \/ Cardinality(Keys(v)) < Cardinality(Keys(w))
        \/ Cardinality(Keys(v)) = Cardinality(Keys(w)) /\ LessMap(less, v.map, w.map)

\* operator< on V and the values inside.
LessThan(V) ==
  LET less[p \in Inside(V) \X Inside(V)] == LessBy(less, p[1], p[2]) IN less

-----------------------------------------------------------------------------
(***************************************************************************)
(* Properties.                                                             *)
(***************************************************************************)
\* operator< is a strict total order that agrees with operator==, nested containers
\* and the null pointer of a string included: std::set and std::sort may use it.
OrderIsTotal ==
  LET less == LessThan({value} \cup Compared)
  IN  \A w \in Compared :
        /\ Cardinality({c \in 1 .. 3 : \/ c = 1 /\ less[<<value, w>>]
                                       \/ c = 2 /\ Equals(value, w)
                                       \/ c = 3 /\ less[<<w, value>>]}) = 1
        /\ \A u \in Compared : less[<<w, value>>] /\ less[<<value, u>>] => less[<<w, u>>]

\* The value that a text says that was written for v: each number has the type that
\* its size has in a text, and an element that was not stored is null.
ReadBy(read, v) ==
  CASE v.type \in {"int", "uint"} -> Fitting(v.num)
    [] v.type = "real" -> IF v.half % 2 = 0 THEN Fitting(v.half \div 2) ELSE v
    [] v.type = "array" -> ArrayValue([i \in 0 .. Size(v) - 1 |-> read[At(v, i)]])
    [] v.type = "object" -> ObjectValue([k \in Keys(v) |-> read[v.map[k]]])
    [] OTHER -> v

AsRead(v) == LET read[x \in Inside({v})] == ReadBy(read, x) IN read[v]

\* What FastWriter writes is one value of the grammar, and the same value, however
\* sparse an array has become: only a string with a null pointer leaves a hole.
WrittenReadsBack ==
  StringValue(NullPointer) \notin Inside({value}) =>
    LET text == Write(value)
        read == Denotation(text)
    IN  read.ok /\ read.next = Len(text) + 1 /\ read.value = AsRead(value)
=============================================================================
