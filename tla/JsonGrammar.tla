---------------------------- MODULE JsonGrammar ----------------------------
(***************************************************************************)
(* What a text of tokens says, by the grammar of RFC 8259 and not by the   *)
(* code: the reference that Json::Reader is compared with.  Of two members *)
(* of the same name the last counts.                                       *)
(*                                                                         *)
(* A phrase that begins at a place of the text is what it says and the     *)
(* place behind it, or None.  In "from", what the places behind say is     *)
(* known: the grammar of a text is a function that gives each place its    *)
(* phrases, from the last place to the first.                              *)
(***************************************************************************)
EXTENDS JsonToken

None == [ok |-> FALSE]
Parsed(v, next) == [ok |-> TRUE, value |-> v, next |-> next]

TypeAt(s, i) == IF i \in DOMAIN s THEN s[i].type ELSE "endOfStream"

\* The members of f, and those of g, which count where both have a name.
Over(f, g) ==
  [k \in DOMAIN f \cup DOMAIN g |-> IF k \in DOMAIN g THEN g[k] ELSE f[k]]

Member(k, v) == [j \in {k} |-> v]

ArrayOf(list) == ArrayValue([k \in 0 .. Len(list) - 1 |-> list[k + 1]])

\* value = false / null / true / object / array / number / string
ValueAt(s, from, i) ==
  CASE i > Len(s) -> None
    [] i <= Len(s) /\ IsScalar(s[i]) ->
         IF Meaning(s[i]) = Refused THEN None ELSE Parsed(Meaning(s[i]), i + 1)
    [] TypeAt(s, i) = "arrayBegin" ->
         IF TypeAt(s, i + 1) = "arrayEnd" THEN Parsed(ArrayOf(<< >>), i + 2)
         ELSE LET e == from[i + 1].elements
              IN  IF e.ok THEN Parsed(ArrayOf(e.value), e.next) ELSE None
    [] TypeAt(s, i) = "objectBegin" ->
         IF TypeAt(s, i + 1) = "objectEnd" THEN Parsed(ObjectValue(NoElements), i + 2)
         ELSE LET m == from[i + 1].members
              IN  IF m.ok THEN Parsed(ObjectValue(m.value), m.next) ELSE None
    [] OTHER -> None

\* elements = value "]" / value "," elements
ElementsAt(s, from, i) ==
  LET v == ValueAt(s, from, i)
      rest == from[v.next + 1].elements
  IN  CASE v.ok /\ TypeAt(s, v.next) = "arrayEnd" -> Parsed(<<v.value>>, v.next + 1)
        [] v.ok /\ TypeAt(s, v.next) = "arraySeparator" ->
             IF rest.ok THEN Parsed(<<v.value>> \o rest.value, rest.next) ELSE None
        [] OTHER -> None

\* members = string ":" value "}" / string ":" value "," members
MembersAt(s, from, i) ==
  IF TypeAt(s, i) # "string" \/ TypeAt(s, i + 1) # "memberSeparator" THEN None
  ELSE LET v == from[i + 2].value
           rest == from[v.next + 1].members
           first == Member(s[i].str, v.value)
       IN  CASE s[i].str # Bad /\ v.ok /\ TypeAt(s, v.next) = "objectEnd" ->
                  Parsed(first, v.next + 1)
             [] s[i].str # Bad /\ v.ok /\ TypeAt(s, v.next) = "arraySeparator" ->
                  IF rest.ok THEN Parsed(Over(first, rest.value), rest.next) ELSE None
             [] OTHER -> None

PhrasesAt(s, from, i) ==
  [value |-> ValueAt(s, from, i), elements |-> ElementsAt(s, from, i),
   members |-> MembersAt(s, from, i)]

Grammar(s) == LET from[i \in 1 .. Len(s) + 1] == PhrasesAt(s, from, i) IN from

\* What a text says that begins with a value.
Denotation(s) == Grammar(s)[1].value
=============================================================================
