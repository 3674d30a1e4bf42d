-------------------------- MODULE JsonLexerProofs --------------------------
(***************************************************************************)
(* Theorems about JsonLexer, for texts of any length over any characters.  *)
(***************************************************************************)
EXTENDS JsonLexer, TLAPS, SequenceTheorems, FiniteSetTheorems, WellFoundedInduction

\* A literal that is being matched began with the letter of its type.
LiteralBegun ==
  at = "literal" => /\ start < Len(text)
                    /\ text[start + 1].class \in {"true", "false", "null"}

\* No token ends behind what has been passed.
TokensArePassed == \A i \in DOMAIN tokens : tokens[i].to <= Passed

Inv == TypeOK /\ LiteralBegun /\ TokensArePassed /\ NothingIsSkipped

-----------------------------------------------------------------------------
(***************************************************************************)
(* The tokens have places in the text.                                     *)
(***************************************************************************)
LEMMA TokenPlaces ==
  ASSUME TypeOK
  PROVE  /\ Len(tokens) \in Nat /\ DOMAIN tokens = 1 .. Len(tokens)
         /\ \A i \in DOMAIN tokens : tokens[i].from \in Nat /\ tokens[i].to \in Nat
<1>1. /\ Len(tokens) \in Nat /\ DOMAIN tokens = 1 .. Len(tokens)
      /\ \A i \in DOMAIN tokens : tokens[i] \in Token
  BY LenProperties, ElementOfSeq DEF TypeOK
<1> QED BY <1>1 DEF Token

(***************************************************************************)
(* A token that is emitted goes from what had been passed to what has been *)
(* passed now, and keeps the invariant.                                    *)
(***************************************************************************)
LEMMA EmitKeeps ==
  ASSUME Inv, NEW t \in TokenType, NEW e \in Passed .. Len(text),
         tokens' = Append(tokens, [type |-> t, from |-> Passed, to |-> e]),
         current' = e, at' \in {"space", "end"},
         text' = text, closed' \in BOOLEAN, start' \in 0 .. e
  PROVE  Inv'
<1> DEFINE new == [type |-> t, from |-> Passed, to |-> e]
<1>0. /\ Passed \in Nat /\ Passed <= current /\ current \in Nat /\ Len(text) \in Nat
      /\ e \in Nat /\ e <= Len(text) /\ Passed <= e
  BY DEF Inv, TypeOK, Passed
<1>1. /\ tokens' \in Seq(Token)
      /\ Len(tokens') = Len(tokens) + 1
      /\ DOMAIN tokens = 1 .. Len(tokens) /\ Len(tokens) \in Nat
      /\ DOMAIN tokens' = 1 .. Len(tokens) + 1
      /\ \A i \in 1 .. Len(tokens) : tokens'[i] = tokens[i]
      /\ tokens'[Len(tokens) + 1] = new
  <2>1. new \in Token
    BY <1>0 DEF Token
  <2>2. tokens \in Seq(Token) /\ tokens' = Append(tokens, new)
    BY DEF Inv, TypeOK
  <2> HIDE DEF new
  <2> QED BY <2>1, <2>2, AppendProperties, LenProperties
<1>2. \A i \in DOMAIN tokens : /\ tokens[i].from \in Nat /\ tokens[i].to \in Nat
                               /\ tokens[i].from <= tokens[i].to
                               /\ tokens[i].to <= Passed
  BY TokenPlaces DEF Inv, TypeOK, TokensArePassed
<1>3. Passed' = e
  BY DEF Passed
<1>4. TypeOK'
  <2>1. \A i \in DOMAIN tokens' : tokens'[i].from <= tokens'[i].to /\ tokens'[i].to <= e
    BY <1>0, <1>1, <1>2
  <2> QED BY <1>0, <1>1, <2>1 DEF Inv, TypeOK, Place
<1>5. LiteralBegun'
  BY DEF LiteralBegun
<1>6. TokensArePassed'
  BY <1>0, <1>1, <1>2, <1>3 DEF TokensArePassed
<1>7. NothingIsSkipped'
  <2> SUFFICES ASSUME NEW k \in 1 .. e
      PROVE  \/ \E i \in DOMAIN tokens' :
                  /\ tokens'[i].from < k /\ k <= tokens'[i].to
                  /\ \A j \in DOMAIN tokens' \ {i} :
                       ~(tokens'[j].from < k /\ k <= tokens'[j].to)
             \/ /\ text[k].class \in {"blank", "newline", "return"}
                /\ \A i \in DOMAIN tokens' : ~(tokens'[i].from < k /\ k <= tokens'[i].to)
    BY <1>3 DEF NothingIsSkipped
  <2>1. CASE k <= Passed
    <3>1. ~(new.from < k)
      BY <2>1, <1>0
    <3>2. k \in 1 .. Passed
      BY <2>1, <1>0
    <3>3. \/ \E i \in DOMAIN tokens :
               /\ tokens[i].from < k /\ k <= tokens[i].to
               /\ \A j \in DOMAIN tokens \ {i} :
                    ~(tokens[j].from < k /\ k <= tokens[j].to)
          \/ /\ text[k].class \in {"blank", "newline", "return"}
             /\ \A i \in DOMAIN tokens : ~(tokens[i].from < k /\ k <= tokens[i].to)
      BY <3>2 DEF Inv, NothingIsSkipped
    <3> QED BY <3>1, <3>3, <1>1
  <2>2. CASE k > Passed
    <3>1. \A i \in 1 .. Len(tokens) : ~(k <= tokens'[i].to)
      BY <2>2, <1>0, <1>1, <1>2
    <3>2. new.from < k /\ k <= new.to
      BY <2>2, <1>0
    <3> QED BY <3>1, <3>2, <1>1
  <2> QED BY <2>1, <2>2, <1>0
<1> QED BY <1>4, <1>5, <1>6, <1>7 DEF Inv

(***************************************************************************)
(* A step that adds no token and passes nothing keeps the invariant.       *)
(***************************************************************************)
LEMMA MoveKeeps ==
  ASSUME Inv, UNCHANGED <<text, closed, tokens>>, Passed' = Passed,
         at' \in Place, current' \in 0 .. Len(text), start' \in 0 .. current',
         current <= current', LiteralBegun'
  PROVE  Inv'
<1>1. TypeOK'
  <2>1. \A i \in DOMAIN tokens : tokens[i].to \in Nat
    BY TokenPlaces DEF Inv
  <2> QED BY <2>1 DEF Inv, TypeOK
<1>2. TokensArePassed'
  BY DEF Inv, TokensArePassed
<1>3. NothingIsSkipped'
  BY DEF Inv, NothingIsSkipped
<1> QED BY <1>1, <1>2, <1>3 DEF Inv

(***************************************************************************)
(* So does a step that passes a blank.                                     *)
(***************************************************************************)
LEMMA SkipKeeps ==
  ASSUME Inv, SkipSpace
  PROVE  Inv'
<1>0. /\ at = "space" /\ at' = "space" /\ current' = current + 1 /\ current < Len(text)
      /\ UNCHANGED <<text, closed, start, tokens>>
      /\ text[current + 1].class \in {"blank", "newline", "return"}
      /\ current \in Nat /\ Len(text) \in Nat
      /\ \A i \in DOMAIN tokens : tokens[i].to \in Nat /\ tokens[i].to <= current
  BY TokenPlaces DEF SkipSpace, Sees, Take, Inv, TypeOK
<1>1. TypeOK'
  BY <1>0 DEF Inv, TypeOK
<1>2. LiteralBegun' /\ TokensArePassed'
  BY <1>0 DEF LiteralBegun, TokensArePassed, Passed
<1>3. NothingIsSkipped'
  <2> SUFFICES ASSUME NEW k \in 1 .. current + 1
      PROVE  \/ \E i \in DOMAIN tokens :
                  /\ tokens[i].from < k /\ k <= tokens[i].to
                  /\ \A j \in DOMAIN tokens \ {i} :
                       ~(tokens[j].from < k /\ k <= tokens[j].to)
             \/ /\ text[k].class \in {"blank", "newline", "return"}
                /\ \A i \in DOMAIN tokens : ~(tokens[i].from < k /\ k <= tokens[i].to)
    BY <1>0 DEF NothingIsSkipped, Passed
  <2>1. CASE k = current + 1
    BY <2>1, <1>0
  <2>2. CASE k # current + 1
    BY <2>2, <1>0 DEF Inv, NothingIsSkipped, Passed
  <2> QED BY <2>1, <2>2
<1> QED BY <1>1, <1>2, <1>3 DEF Inv

-----------------------------------------------------------------------------
(***************************************************************************)
(* The text is given another character, or ends.                           *)
(***************************************************************************)
LEMMA GivenKeeps ==
  ASSUME Inv, Close \/ \E c \in Offered : More(c)
  PROVE  Inv'
<1>1. CASE Close
  <2>1. LiteralBegun'
    BY <1>1 DEF Close, LiteralBegun, Inv
  <2> QED BY <1>1, <2>1
      DEF Close, Inv, TypeOK, TokensArePassed, NothingIsSkipped, Passed
<1>2. ASSUME NEW c \in Offered, More(c)
      PROVE  Inv'
  <2>1. c \in Character
    BY DEF Offered, Character
  <2>2. /\ text' = Append(text, c) /\ UNCHANGED <<closed, current, start, at, tokens>>
        /\ text \in Seq(Character) /\ current = Len(text) /\ Len(text) \in Nat
    BY <1>2 DEF More, Inv, TypeOK
  <2>3. /\ text' \in Seq(Character) /\ Len(text') = Len(text) + 1
        /\ \A k \in 1 .. Len(text) : text'[k] = text[k]
    BY <2>1, <2>2
  <2>4. Passed' = Passed /\ Passed \in 0 .. Len(text)
    BY <2>2 DEF Passed, Inv, TypeOK
  <2>5. TypeOK'
    BY <2>2, <2>3 DEF Inv, TypeOK
  <2>6. LiteralBegun'
    BY <2>2, <2>3 DEF Inv, TypeOK, LiteralBegun
  <2>7. TokensArePassed'
    BY <2>2, <2>4 DEF Inv, TokensArePassed
  <2>8. NothingIsSkipped'
    <3>1. \A k \in 1 .. Passed : text'[k] = text[k]
      BY <2>2, <2>3, <2>4
    <3> QED BY <2>2, <2>4, <3>1 DEF Inv, NothingIsSkipped
  <2> QED BY <2>5, <2>6, <2>7, <2>8 DEF Inv
<1> QED BY <1>1, <1>2

-----------------------------------------------------------------------------
(***************************************************************************)
(* The steps of readToken that emit no token.                              *)
(***************************************************************************)
LEMMA ReadingKeeps ==
  ASSUME Inv,
         \/ BeginLiteral \/ BeginNumber \/ BeginString \/ BeginComment
         \/ ReadDigits \/ ReadPoint \/ ReadExponent \/ ReadSign \/ ReadInString
  PROVE  Inv'
<1>0. /\ current \in Nat /\ start \in Nat /\ start <= current
      /\ Len(text) \in Nat /\ current <= Len(text)
  BY DEF Inv, TypeOK
<1>1. ASSUME NEW p \in {"literal", "integral", "string", "slash"},
             at = "space", current < Len(text), Begin(p),
             p = "literal" => text[current + 1].class \in {"true", "false", "null"}
      PROVE  Inv'
  <2>1. Passed' = Passed
    BY <1>1 DEF Begin, Passed
  <2>2. LiteralBegun'
    BY <1>0, <1>1 DEF Begin, LiteralBegun
  <2>3. at' \in Place /\ current' \in 0 .. Len(text) /\ start' \in 0 .. current'
    BY <1>0, <1>1 DEF Begin, Place
  <2> QED BY <2>1, <2>2, <2>3, <1>0, <1>1, MoveKeeps DEF Begin
<1>2. ASSUME NEW p \in Place \ {"space", "end", "literal"},
             at \notin {"space", "end"}, current < Len(text), Take(p)
      PROVE  Inv'
  <2>1. Passed' = Passed
    BY <1>2 DEF Take, Passed
  <2>2. LiteralBegun'
    BY <1>2 DEF Take, LiteralBegun
  <2>3. at' \in Place /\ current' \in 0 .. Len(text) /\ start' \in 0 .. current'
    BY <1>0, <1>2 DEF Take
  <2> QED BY <2>1, <2>2, <2>3, <1>0, <1>2, MoveKeeps DEF Take
<1>3. CASE BeginLiteral \/ BeginNumber \/ BeginString \/ BeginComment
  BY <1>1, <1>3 DEF BeginLiteral, BeginNumber, BeginString, BeginComment, Sees
<1>4. CASE ReadDigits \/ ReadPoint \/ ReadExponent \/ ReadSign \/ ReadInString
  BY <1>2, <1>4 DEF ReadDigits, ReadPoint, ReadExponent, ReadSign, ReadInString, Sees, Place
<1> QED BY <1>3, <1>4

(***************************************************************************)
(* The steps that end a token of one character, and the end of the text.   *)
(***************************************************************************)
LEMMA SingleKeeps ==
  ASSUME Inv, ReadSingle \/ ReadNul \/ ReadUnknown \/ EndOfText
  PROVE  Inv'
<1>0. /\ current \in Nat /\ start \in Nat /\ start <= current
      /\ Len(text) \in Nat /\ current <= Len(text) /\ closed \in BOOLEAN
  BY DEF Inv, TypeOK
<1>1. at = "space" /\ Passed = current
  BY DEF ReadSingle, ReadNul, ReadUnknown, EndOfText, Sees, Passed
<1>2. ASSUME NEW t \in TokenType, current < Len(text), Emit(t, current, current + 1)
      PROVE  Inv'
  <2>1. current + 1 \in Passed .. Len(text) /\ start' \in 0 .. current + 1
    BY <1>0, <1>1, <1>2 DEF Emit
  <2> QED BY <1>0, <1>1, <1>2, <2>1, EmitKeeps DEF Emit
<1>3. CASE ReadSingle
  BY <1>2, <1>3 DEF ReadSingle, Sees, TokenType
<1>4. CASE ReadNul \/ ReadUnknown
  BY <1>2, <1>4 DEF ReadNul, ReadUnknown, Sees, TokenType
<1>5. CASE EndOfText
  <2>1. /\ tokens' = Append(tokens, [type |-> "endOfStream", from |-> Passed, to |-> current])
        /\ current \in Passed .. Len(text) /\ start' \in 0 .. current
        /\ "endOfStream" \in TokenType
    BY <1>0, <1>1, <1>5 DEF EndOfText, TokenType
  <2> QED BY <1>0, <1>5, <2>1, EmitKeeps DEF EndOfText
<1> QED BY <1>3, <1>4, <1>5

(***************************************************************************)
(* The steps that end a longer token, or leave it for an error.            *)
(***************************************************************************)
LEMMA EndKeeps ==
  ASSUME Inv, Match \/ EndNumber \/ EndString \/ ReadSlash \/ ReadBlock \/ ReadLine
  PROVE  Inv'
<1>0. /\ current \in Nat /\ start \in Nat /\ start <= current
      /\ Len(text) \in Nat /\ current <= Len(text) /\ closed \in BOOLEAN
  BY DEF Inv, TypeOK
<1>1. at \notin {"space", "end"} /\ Passed = start
  BY DEF Match, EndNumber, EndString, ReadSlash, ReadBlock, ReadLine, Sees, SeesNot, Passed
<1>2. ASSUME NEW t \in TokenType, NEW e \in current .. Len(text), Emit(t, start, e)
      PROVE  Inv'
  <2>1. e \in Passed .. Len(text) /\ start' \in 0 .. e
    BY <1>0, <1>1, <1>2 DEF Emit
  <2> QED BY <1>0, <1>1, <1>2, <2>1, EmitKeeps DEF Emit
<1>3. ASSUME NEW p \in Place \ {"space", "end", "literal"},
             (current < Len(text) /\ Take(p)) \/ Leave(p)
      PROVE  Inv'
  <2>1. Passed' = Passed
    BY <1>1, <1>3 DEF Take, Leave, Passed
  <2>2. LiteralBegun'
    BY <1>3 DEF Take, Leave, LiteralBegun
  <2>3. at' \in Place /\ current' \in 0 .. Len(text) /\ start' \in 0 .. current'
        /\ current <= current'
    BY <1>0, <1>3 DEF Take, Leave
  <2> QED BY <2>1, <2>2, <2>3, <1>3, MoveKeeps DEF Take, Leave
<1>4. /\ current \in current .. Len(text)
      /\ current < Len(text) => current + 1 \in current .. Len(text)
  BY <1>0
<1>5. CASE Match
  <2>1. at = "literal"
    BY <1>5 DEF Match, Sees, SeesNot
  <2>2. text[start + 1].class \in TokenType /\ "error" \in TokenType
    BY <2>1 DEF Inv, LiteralBegun, TokenType
  <2> QED BY <1>2, <1>4, <1>5, <2>2 DEF Match, Sees
<1>6. CASE EndNumber \/ EndString
  BY <1>2, <1>4, <1>6 DEF EndNumber, EndString, Sees, TokenType
<1>7. CASE ReadSlash \/ ReadBlock \/ ReadLine
  <2>1. {"comment", "error"} \subseteq TokenType
        /\ {"block", "line", "star", "return"} \subseteq Place \ {"space", "end", "literal"}
    BY DEF TokenType, Place
  <2>2. CASE ReadSlash
    BY <1>2, <1>3, <1>4, <2>1, <2>2 DEF ReadSlash, Sees
  <2>3. CASE ReadBlock
    BY <1>2, <1>3, <1>4, <2>1, <2>3 DEF ReadBlock, Sees
  <2>4. CASE ReadLine
    <3>1. ~AtEnd /\ SeesNot("line", {"newline", "return"}) => current < Len(text)
      BY <1>0 DEF SeesNot
    <3> QED BY <1>2, <1>3, <1>4, <2>1, <2>4, <3>1 DEF ReadLine, Sees
  <2> QED BY <1>7, <2>2, <2>3, <2>4
<1> QED BY <1>5, <1>6, <1>7

-----------------------------------------------------------------------------
(***************************************************************************)
(* The invariant holds in the beginning and in every step.                 *)
(***************************************************************************)
LEMMA InvHolds == Spec => []Inv
<1>1. Init => Inv
  <2> SUFFICES ASSUME Init PROVE Inv
    OBVIOUS
  <2>1. text \in Seq(Character) /\ Len(text) = 0 /\ tokens \in Seq(Token) /\ DOMAIN tokens = {}
    BY EmptySeq DEF Init
  <2>2. TypeOK
    <3>1. current = 0 /\ start = 0 /\ at \in Place /\ closed \in BOOLEAN
      BY DEF Init, Place
    <3>2. \A i \in DOMAIN tokens : tokens[i].from <= tokens[i].to /\ tokens[i].to <= current
      BY <2>1, Zenon
    <3>3. current \in 0 .. Len(text) /\ start \in 0 .. current
      BY <2>1, <3>1
    <3> QED BY <2>1, <3>1, <3>2, <3>3 DEF TypeOK
  <2>3. LiteralBegun /\ TokensArePassed
    BY <2>1 DEF Init, LiteralBegun, TokensArePassed
  <2>4. NothingIsSkipped
    <3>1. Passed = 0
      BY DEF Init, Passed
    <3> QED BY <3>1 DEF NothingIsSkipped
  <2> QED BY <2>2, <2>3, <2>4 DEF Inv
<1>2. Inv /\ [Next]_vars => Inv'
  <2> SUFFICES ASSUME Inv, [Next]_vars PROVE Inv'
    OBVIOUS
  <2>1. CASE UNCHANGED vars
    BY <2>1 DEF vars, Inv, TypeOK, LiteralBegun, TokensArePassed, NothingIsSkipped, Passed
  <2>2. CASE Close \/ \E c \in Offered : More(c)
    BY <2>2, GivenKeeps
  <2>3. CASE Step
    BY <2>3, SkipKeeps, ReadingKeeps, SingleKeeps, EndKeeps DEF Step
  <2> QED BY <2>1, <2>2, <2>3 DEF Next
<1> QED BY <1>1, <1>2, PTL DEF Spec

(***************************************************************************)
(* Every text is lexed within its types: the places of tokens are places   *)
(* of the text, in order.                                                  *)
(***************************************************************************)
THEOREM LexerTypes == Spec => []TypeOK
BY InvHolds, PTL DEF Inv

(***************************************************************************)
(* readToken skips nothing but blanks, and gives no character to two       *)
(* tokens, in texts of any length.                                         *)
(***************************************************************************)
THEOREM LexerSkipsNothing == Spec => []NothingIsSkipped
BY InvHolds, PTL DEF Inv

-----------------------------------------------------------------------------
(***************************************************************************)
(* What a token spells: lemmas about the characters of a text.             *)
(***************************************************************************)
LEMMA ClassOfAppend ==
  ASSUME NEW s \in Seq(Character), NEW c \in Character
  PROVE  /\ Append(s, c) \in Seq(Character) /\ Len(Append(s, c)) = Len(s) + 1
         /\ Len(s) \in Nat
         /\ \A k \in Int : k # Len(s) + 1 => Class(Append(s, c), k) = Class(s, k)
         /\ Class(Append(s, c), Len(s) + 1) = c.class
         /\ \A k \in Int : k > Len(s) => Class(s, k) = "nothing"
<1> QED BY DEF Class

LEMMA SpelledSoFar ==
  ASSUME NEW x \in Seq(Character), NEW f \in Nat, NEW e \in Nat, f <= e, e <= Len(x)
  PROVE  /\ SubSeq(x, f + 1, e) \in Seq(Character)
         /\ Len(SubSeq(x, f + 1, e)) = e - f
         /\ e < Len(x) => /\ SubSeq(x, f + 1, e + 1) = Append(SubSeq(x, f + 1, e), x[e + 1])
                          /\ x[e + 1] \in Character
<1>1. /\ SubSeq(x, f + 1, e) \in Seq(Character)
      /\ Len(SubSeq(x, f + 1, e)) = e - f
      /\ \A i \in 1 .. e - f : SubSeq(x, f + 1, e)[i] = x[f + i]
  BY SubSeqProperties, LenProperties
<1>2. ASSUME e < Len(x)
      PROVE  /\ SubSeq(x, f + 1, e + 1) = Append(SubSeq(x, f + 1, e), x[e + 1])
             /\ x[e + 1] \in Character
  <2> DEFINE s == SubSeq(x, f + 1, e)
             u == SubSeq(x, f + 1, e + 1)
             w == Append(s, x[e + 1])
  <2>1. x[e + 1] \in Character
    BY <1>2, ElementOfSeq
  <2>2. /\ u \in Seq(Character) /\ Len(u) = e + 1 - f
        /\ \A i \in 1 .. e + 1 - f : u[i] = x[f + i]
    <3>1. e + 1 \in Nat /\ e + 1 <= Len(x)
      BY <1>2
    <3> QED BY <3>1, SubSeqProperties, LenProperties
  <2>3. /\ w \in Seq(Character) /\ Len(w) = e - f + 1
        /\ \A i \in 1 .. e - f : w[i] = s[i]
        /\ w[e - f + 1] = x[e + 1]
    <3> HIDE DEF s
    <3> QED BY <1>1, <2>1, AppendProperties DEF s
  <2>4. \A i \in 1 .. Len(u) : u[i] = w[i]
    <3> SUFFICES ASSUME NEW i \in 1 .. Len(u) PROVE u[i] = w[i]
      OBVIOUS
    <3>1. CASE i = e - f + 1
      <4> HIDE DEF u, w, s
      <4> QED BY <3>1, <2>2, <2>3
    <3>2. CASE i # e - f + 1
      <4>1. i \in 1 .. e - f
        BY <3>2, <2>2
      <4>2. w[i] = x[f + i] /\ u[i] = x[f + i]
        <5> HIDE DEF u, w
        <5> QED BY <4>1, <1>1, <2>2, <2>3
      <4> QED BY <4>2
    <3> QED BY <3>1, <3>2
  <2>5. Len(u) = Len(w)
    BY <2>2, <2>3
  <2> HIDE DEF u, w, s
  <2>6. u = w
    BY <2>2, <2>3, <2>4, <2>5, SeqEqual
  <2> QED BY <2>1, <2>6 DEF u, w, s
<1> QED BY <1>1, <1>2

LEMMA SpelledBefore ==
  ASSUME NEW x \in Seq(Character), NEW c \in Character,
         NEW f \in Nat, NEW e \in Nat, f <= e, e <= Len(x)
  PROVE  SubSeq(Append(x, c), f + 1, e) = SubSeq(x, f + 1, e)
<1> DEFINE y == Append(x, c)
           s == SubSeq(x, f + 1, e)
           u == SubSeq(y, f + 1, e)
<1>1. /\ y \in Seq(Character) /\ Len(y) = Len(x) + 1 /\ Len(x) \in Nat
      /\ \A i \in 1 .. Len(x) : y[i] = x[i]
  BY AppendProperties, LenProperties
<1>2. /\ s \in Seq(Character) /\ Len(s) = e - f
      /\ \A i \in 1 .. e - f : s[i] = x[f + i]
  BY SubSeqProperties, LenProperties
<1>3. /\ u \in Seq(Character) /\ Len(u) = e - f
      /\ \A i \in 1 .. e - f : u[i] = y[f + i]
  <2>1. e <= Len(y)
    BY <1>1
  <2> HIDE DEF y
  <2> QED BY <1>1, <2>1, SubSeqProperties, LenProperties
<1>4. \A i \in 1 .. Len(u) : u[i] = s[i]
  <2> HIDE DEF u, s, y
  <2> SUFFICES ASSUME NEW i \in 1 .. Len(u) PROVE u[i] = s[i]
    OBVIOUS
  <2>1. i \in 1 .. e - f /\ f + i \in 1 .. Len(x)
    BY <1>1, <1>3
  <2>2. u[i] = y[f + i] /\ s[i] = x[f + i] /\ y[f + i] = x[f + i]
    BY <2>1, <1>1, <1>2, <1>3
  <2> QED BY <2>2
<1> HIDE DEF u, s, y
<1>5. u = s
  BY <1>2, <1>3, <1>4, SeqEqual
<1> QED BY <1>5 DEF u, s, y

\* t is s with one more character, of class d.
Extends(s, t, d) ==
  /\ Len(s) \in Nat /\ Len(t) = Len(s) + 1
  /\ \A k \in Int : k # Len(s) + 1 => Class(t, k) = Class(s, k)
  /\ Class(t, Len(s) + 1) = d

LEMMA AppendExtends ==
  ASSUME NEW s \in Seq(Character), NEW c \in Character
  PROVE  Extends(s, Append(s, c), c.class)
BY ClassOfAppend DEF Extends

LEMMA FirstExtends ==
  ASSUME NEW c \in Character
  PROVE  /\ Extends(<< >>, <<c>>, c.class) /\ Append(<< >>, c) = <<c>>
         /\ <<c>> \in Seq(Character) /\ Len(<< >>) = 0
         /\ << >> \in Seq(Character)
<1>1. << >> \in Seq(Character) /\ Len(<< >>) = 0
  BY EmptySeq
<1>2. Append(<< >>, c) = <<c>>
  OBVIOUS
<1> QED BY <1>1, <1>2, AppendExtends, ClassOfAppend

-----------------------------------------------------------------------------
(***************************************************************************)
(* The shapes a number goes through.  The first b characters of s are      *)
(* digits with perhaps a minus before and a point between them.            *)
(***************************************************************************)
Mantissa(s, b) ==
  \E a \in 1 .. b :
    /\ Class(s, 1) \in {"digit", "minus"} /\ Digits(s, 2, a)
    /\ b > a => Class(s, a + 1) = "point" /\ Digits(s, a + 2, b)

ExponentOf(s, b) ==
  /\ Class(s, b + 1) = "exp"
  /\ \/ Digits(s, b + 2, Len(s))
     \/ Class(s, b + 2) \in {"plus", "minus"} /\ Digits(s, b + 3, Len(s))

Integral(s) ==
  Len(s) >= 1 /\ Class(s, 1) \in {"digit", "minus"} /\ Digits(s, 2, Len(s))

Fraction(s) ==
  \E a \in 1 .. Len(s) - 1 :
    /\ Class(s, 1) \in {"digit", "minus"} /\ Digits(s, 2, a)
    /\ Class(s, a + 1) = "point" /\ Digits(s, a + 2, Len(s))

Exponent(s) == Len(s) >= 2 /\ Mantissa(s, Len(s) - 1) /\ Class(s, Len(s)) = "exp"

Power(s) ==
  \E b \in 1 .. Len(s) - 2 :
    /\ Mantissa(s, b) /\ Class(s, b + 1) = "exp"
    /\ Class(s, b + 2) \in {"plus", "minus", "digit"} /\ Digits(s, b + 3, Len(s))

LEMMA NumberIs ==
  ASSUME NEW s, Len(s) \in Nat
  PROVE  LooksLikeNumber(s) <=>
           \E b \in 1 .. Len(s) : Mantissa(s, b) /\ (b < Len(s) => ExponentOf(s, b))
<1>1. ASSUME LooksLikeNumber(s)
      PROVE  \E b \in 1 .. Len(s) : Mantissa(s, b) /\ (b < Len(s) => ExponentOf(s, b))
  <2>1. PICK a \in 1 .. Len(s), b \in 1 .. Len(s) :
          /\ a <= b
          /\ Class(s, 1) \in {"digit", "minus"} /\ Digits(s, 2, a)
          /\ b > a => Class(s, a + 1) = "point" /\ Digits(s, a + 2, b)
          /\ b < Len(s) =>
               /\ Class(s, b + 1) = "exp"
               /\ \/ Digits(s, b + 2, Len(s))
                  \/ Class(s, b + 2) \in {"plus", "minus"} /\ Digits(s, b + 3, Len(s))
    BY <1>1 DEF LooksLikeNumber
  <2>2. a \in 1 .. b
    BY <2>1
  <2>3. Mantissa(s, b)
    BY <2>1, <2>2 DEF Mantissa
  <2> QED BY <2>1, <2>3 DEF ExponentOf
<1>2. ASSUME NEW b \in 1 .. Len(s), Mantissa(s, b), b < Len(s) => ExponentOf(s, b)
      PROVE  LooksLikeNumber(s)
  <2>1. PICK a \in 1 .. b :
          /\ Class(s, 1) \in {"digit", "minus"} /\ Digits(s, 2, a)
          /\ b > a => Class(s, a + 1) = "point" /\ Digits(s, a + 2, b)
    BY <1>2 DEF Mantissa
  <2>2. a \in 1 .. Len(s) /\ a <= b
    OBVIOUS
  <2> QED BY <1>2, <2>1, <2>2 DEF LooksLikeNumber, ExponentOf
<1> QED BY <1>1, <1>2

LEMMA MantissaClasses ==
  ASSUME NEW s, NEW b \in Nat, Mantissa(s, b)
  PROVE  /\ b >= 1 /\ Class(s, 1) \in {"digit", "minus"}
         /\ \A k \in 2 .. b : Class(s, k) \in {"digit", "point"}
<1>1. PICK a \in 1 .. b :
        /\ Class(s, 1) \in {"digit", "minus"} /\ Digits(s, 2, a)
        /\ b > a => Class(s, a + 1) = "point" /\ Digits(s, a + 2, b)
  BY DEF Mantissa
<1>2. ASSUME NEW k \in 2 .. b PROVE Class(s, k) \in {"digit", "point"}
  <2>1. k \in 2 .. a \/ k = a + 1 \/ k \in a + 2 .. b
    OBVIOUS
  <2> QED BY <1>1, <2>1 DEF Digits
<1> QED BY <1>1, <1>2

LEMMA MantissaKept ==
  ASSUME NEW s, NEW t, NEW d, Extends(s, t, d), NEW b \in 1 .. Len(s)
  PROVE  Mantissa(s, b) <=> Mantissa(t, b)
<1>1. \A k \in 1 .. b : Class(s, k) = Class(t, k)
  BY DEF Extends
<1>2. \A i, j \in Nat : i >= 1 /\ j <= b => (Digits(s, i, j) <=> Digits(t, i, j))
  BY <1>1 DEF Digits
<1>3. ASSUME NEW a \in 1 .. b
      PROVE  /\ a \in Nat /\ b \in Nat /\ a + 2 \in Nat /\ a + 2 >= 1 /\ a <= b
             /\ b > a => a + 1 \in 1 .. b
  BY DEF Extends
<1>4. 1 \in 1 .. b
  BY DEF Extends
<1> HIDE DEF Extends, Digits, Class
<1>5. ASSUME NEW a \in 1 .. b
      PROVE  /\ Digits(s, 2, a) <=> Digits(t, 2, a)
             /\ Digits(s, a + 2, b) <=> Digits(t, a + 2, b)
             /\ b > a => Class(s, a + 1) = Class(t, a + 1)
  BY <1>1, <1>2, <1>3
<1> QED BY <1>1, <1>4, <1>5 DEF Mantissa

(***************************************************************************)
(* Each shape is a number, and what the steps of readNumber make of it.    *)
(***************************************************************************)
LEMMA IntegralGrows ==
  ASSUME NEW s, NEW t, NEW d, Extends(s, t, d), Integral(s)
  PROVE  /\ LooksLikeNumber(s)
         /\ d = "digit" => Integral(t)
         /\ d = "point" => Fraction(t)
         /\ d = "exp" => Exponent(t)
<1> DEFINE n == Len(s)
<1>1. /\ n \in Nat /\ n >= 1 /\ Len(t) = n + 1 /\ Class(s, 1) \in {"digit", "minus"}
      /\ \A k \in 2 .. n : Class(s, k) = "digit"
      /\ \A k \in 1 .. n : Class(t, k) = Class(s, k)
      /\ Class(t, n + 1) = d
  BY DEF Extends, Integral, Digits
<1>2. Mantissa(s, n)
  <2>1. n \in 1 .. n /\ Digits(s, 2, n) /\ ~(n > n)
    BY <1>1 DEF Digits
  <2> HIDE DEF n
  <2> QED BY <1>1, <2>1 DEF Mantissa
<1>3. LooksLikeNumber(s)
  BY <1>1, <1>2, NumberIs
<1>4. d = "digit" => Integral(t)
  BY <1>1 DEF Integral, Digits
<1>5. ASSUME d = "point" PROVE Fraction(t)
  <2> SUFFICES \E a \in 1 .. n :
        /\ Class(t, 1) \in {"digit", "minus"} /\ Digits(t, 2, a)
        /\ Class(t, a + 1) = "point" /\ Digits(t, a + 2, n + 1)
    BY <1>1 DEF Fraction
  <2> WITNESS n \in 1 .. n
  <2> QED BY <1>1, <1>5 DEF Digits
<1>6. ASSUME d = "exp" PROVE Exponent(t)
  <2>1. Mantissa(t, n)
    BY <1>1, <1>2, MantissaKept
  <2>2. Len(t) - 1 = n
    BY <1>1
  <2> HIDE DEF n
  <2> QED BY <1>1, <1>6, <2>1, <2>2 DEF Exponent
<1> QED BY <1>3, <1>4, <1>5, <1>6

LEMMA FractionGrows ==
  ASSUME NEW s, NEW t, NEW d, Extends(s, t, d), Fraction(s)
  PROVE  /\ LooksLikeNumber(s)
         /\ d = "digit" => Fraction(t)
         /\ d = "exp" => Exponent(t)
<1> DEFINE n == Len(s)
<1>1. /\ n \in Nat /\ Len(t) = n + 1
      /\ \A k \in 1 .. n : Class(t, k) = Class(s, k)
      /\ Class(t, n + 1) = d
  BY DEF Extends
<1>2. PICK a \in 1 .. n - 1 :
        /\ Class(s, 1) \in {"digit", "minus"} /\ Digits(s, 2, a)
        /\ Class(s, a + 1) = "point" /\ Digits(s, a + 2, n)
  BY DEF Fraction
<1>3. n >= 2 /\ a \in 1 .. n /\ n > a /\ a + 1 \in 1 .. n
  BY <1>1
<1> HIDE DEF n
<1>4. Mantissa(s, n)
  BY <1>2, <1>3 DEF Mantissa
<1>5. LooksLikeNumber(s)
  BY <1>1, <1>3, <1>4, NumberIs DEF n
<1>6. ASSUME d = "digit" PROVE Fraction(t)
  <2>1. Class(t, 1) \in {"digit", "minus"} /\ Class(t, a + 1) = "point"
    BY <1>1, <1>2, <1>3
  <2>2. Digits(t, 2, a) /\ Digits(t, a + 2, n + 1)
    BY <1>1, <1>2, <1>3, <1>6 DEF Digits
  <2>3. a \in 1 .. Len(t) - 1
    BY <1>1
  <2> QED BY <1>1, <2>1, <2>2, <2>3 DEF Fraction
<1>7. ASSUME d = "exp" PROVE Exponent(t)
  <2>1. Mantissa(t, n)
    BY <1>1, <1>3, <1>4, MantissaKept DEF n
  <2>2. Len(t) - 1 = n
    BY <1>1
  <2> QED BY <1>1, <1>3, <1>7, <2>1, <2>2 DEF Exponent
<1> QED BY <1>5, <1>6, <1>7

LEMMA ExponentGrows ==
  ASSUME NEW s, NEW t, NEW d, Extends(s, t, d), Exponent(s)
  PROVE  /\ LooksLikeNumber(s)
         /\ d \in {"plus", "minus", "digit"} => Power(t)
<1> DEFINE b == Len(s) - 1
<1>1. /\ b \in Nat /\ b >= 1 /\ Len(s) = b + 1 /\ Len(t) = b + 2
      /\ Mantissa(s, b) /\ Class(s, b + 1) = "exp"
      /\ Class(t, b + 1) = Class(s, b + 1) /\ Class(t, b + 2) = d
  BY DEF Extends, Exponent
<1> HIDE DEF b
<1>2. LooksLikeNumber(s)
  <2>1. ExponentOf(s, b)
    BY <1>1 DEF ExponentOf, Digits
  <2>2. b \in 1 .. Len(s)
    BY <1>1
  <2> QED BY <1>1, <2>1, <2>2, NumberIs
<1>3. ASSUME d \in {"plus", "minus", "digit"} PROVE Power(t)
  <2>1. Mantissa(t, b)
    <3>1. b \in 1 .. Len(s)
      BY <1>1
    <3> QED BY <1>1, <3>1, MantissaKept
  <2>2. b \in 1 .. Len(t) - 2 /\ Digits(t, b + 3, Len(t))
    BY <1>1 DEF Digits
  <2> QED BY <1>1, <1>3, <2>1, <2>2 DEF Power
<1> QED BY <1>2, <1>3

LEMMA PowerGrows ==
  ASSUME NEW s, NEW t, NEW d, Extends(s, t, d), Power(s)
  PROVE  /\ LooksLikeNumber(s)
         /\ d = "digit" => Power(t)
<1>1. /\ Len(s) \in Nat /\ Len(t) = Len(s) + 1
      /\ \A k \in 1 .. Len(s) : Class(t, k) = Class(s, k)
      /\ Class(t, Len(s) + 1) = d
  BY DEF Extends
<1>2. PICK b \in 1 .. Len(s) - 2 :
        /\ Mantissa(s, b) /\ Class(s, b + 1) = "exp"
        /\ Class(s, b + 2) \in {"plus", "minus", "digit"} /\ Digits(s, b + 3, Len(s))
  BY DEF Power
<1>3. b \in 1 .. Len(s) /\ b < Len(s) /\ b + 1 \in 1 .. Len(s) /\ b + 2 \in 1 .. Len(s)
  BY <1>1
<1>4. LooksLikeNumber(s)
  <2>1. ExponentOf(s, b)
    <3>1. CASE Class(s, b + 2) = "digit"
      <4>1. Digits(s, b + 2, Len(s))
        BY <1>1, <1>2, <3>1 DEF Digits
      <4> QED BY <1>2, <4>1 DEF ExponentOf
    <3>2. CASE Class(s, b + 2) # "digit"
      BY <1>2, <3>2 DEF ExponentOf
    <3> QED BY <3>1, <3>2
  <2> QED BY <1>1, <1>2, <1>3, <2>1, NumberIs
<1>5. ASSUME d = "digit" PROVE Power(t)
  <2>1. Mantissa(t, b)
    BY <1>2, <1>3, MantissaKept
  <2>2. b \in 1 .. Len(t) - 2 /\ Digits(t, b + 3, Len(t))
    BY <1>1, <1>2, <1>5 DEF Digits
  <2>3. Class(t, b + 1) = "exp" /\ Class(t, b + 2) \in {"plus", "minus", "digit"}
    BY <1>1, <1>2, <1>3
  <2> QED BY <2>1, <2>2, <2>3 DEF Power
<1> QED BY <1>4, <1>5

(***************************************************************************)
(* A number ends only where it must: with the character at which           *)
(* readNumber stops it is a number no more.                                *)
(***************************************************************************)
LEMMA IntegralEnds ==
  ASSUME NEW s, NEW t, NEW d, Extends(s, t, d), Integral(s),
         d \notin {"digit", "point", "exp"}
  PROVE  ~LooksLikeNumber(t)
<1> DEFINE n == Len(s) + 1
<1>1. /\ n \in Nat /\ n >= 2 /\ Len(t) = n /\ Class(t, n) = d
      /\ \A k \in 2 .. n - 1 : Class(t, k) = "digit"
  BY DEF Extends, Integral, Digits
<1> HIDE DEF n
<1>2. SUFFICES ASSUME NEW b \in 1 .. n, Mantissa(t, b), b < n => ExponentOf(t, b)
               PROVE  FALSE
  BY <1>1, NumberIs
<1>3. CASE b = n
  <2>1. Class(t, n) \in {"digit", "point"}
    BY <1>1, <1>2, <1>3, MantissaClasses
  <2> QED BY <1>1, <2>1
<1>4. CASE b < n
  <2>1. Class(t, b + 1) = "exp"
    BY <1>2, <1>4 DEF ExponentOf
  <2>2. b + 1 = n \/ b + 1 \in 2 .. n - 1
    BY <1>1, <1>4
  <2> QED BY <1>1, <2>1, <2>2
<1> QED BY <1>1, <1>3, <1>4

LEMMA FractionEnds ==
  ASSUME NEW s, NEW t, NEW d, Extends(s, t, d), Fraction(s), d \notin {"digit", "exp"}
  PROVE  ~LooksLikeNumber(t)
<1> DEFINE n == Len(s) + 1
<1>1. /\ n \in Nat /\ Len(t) = n /\ Class(t, n) = d /\ Len(s) = n - 1
      /\ \A k \in 1 .. n - 1 : Class(t, k) = Class(s, k)
  BY DEF Extends
<1>2. PICK p \in 1 .. Len(s) - 1 :
        /\ Class(s, 1) \in {"digit", "minus"} /\ Digits(s, 2, p)
        /\ Class(s, p + 1) = "point" /\ Digits(s, p + 2, Len(s))
  BY DEF Fraction
<1> HIDE DEF n
<1>3. /\ p \in Nat /\ 1 <= p /\ p + 2 <= n
      /\ \A k \in 2 .. p : Class(t, k) = "digit"
      /\ Class(t, p + 1) = "point"
      /\ \A k \in p + 2 .. n - 1 : Class(t, k) = "digit"
  BY <1>1, <1>2 DEF Digits
<1>4. SUFFICES ASSUME NEW b \in 1 .. n, Mantissa(t, b), b < n => ExponentOf(t, b)
               PROVE  FALSE
  BY <1>1, NumberIs
<1>5. CASE b = n
  <2>1. PICK a \in 1 .. n :
          /\ Digits(t, 2, a)
          /\ n > a => Class(t, a + 1) = "point" /\ Digits(t, a + 2, n)
    BY <1>4, <1>5 DEF Mantissa
  <2>2. a <= p
    <3>1. p + 1 \in 2 .. a => Class(t, p + 1) = "digit"
      BY <2>1 DEF Digits
    <3> QED BY <1>3, <3>1
  <2>3. n \in a + 2 .. n /\ n > a
    BY <1>1, <1>3, <2>2
  <2>4. Class(t, n) = "digit"
    BY <2>1, <2>3 DEF Digits
  <2> QED BY <1>1, <2>4
<1>6. CASE b < n
  <2>1. Class(t, b + 1) = "exp"
    BY <1>4, <1>6 DEF ExponentOf
  <2>2. b + 1 = n \/ b + 1 \in 2 .. p \/ b + 1 = p + 1 \/ b + 1 \in p + 2 .. n - 1
    BY <1>1, <1>3, <1>6
  <2> QED BY <1>1, <1>3, <2>1, <2>2
<1> QED BY <1>1, <1>5, <1>6

LEMMA ExponentEnds ==
  ASSUME NEW s, NEW t, NEW d, Extends(s, t, d), Exponent(s),
         d \notin {"plus", "minus", "digit"}
  PROVE  ~LooksLikeNumber(t)
<1> DEFINE m == Len(s)
<1>1. /\ m \in Nat /\ m >= 2 /\ Len(t) = m + 1 /\ Class(t, m + 1) = d
      /\ Class(t, m) = "exp"
      /\ Mantissa(s, m - 1)
      /\ \A k \in 1 .. m : Class(t, k) = Class(s, k)
  BY DEF Extends, Exponent
<1> HIDE DEF m
<1>2. SUFFICES ASSUME NEW b \in 1 .. m + 1, Mantissa(t, b), b < m + 1 => ExponentOf(t, b)
               PROVE  FALSE
  BY <1>1, NumberIs
<1>3. b < m
  <2>1. m \in 2 .. b => Class(t, m) \in {"digit", "point"}
    BY <1>2, MantissaClasses
  <2> QED BY <1>1, <2>1
<1>4. /\ Class(t, b + 1) = "exp"
      /\ \/ Digits(t, b + 2, m + 1)
         \/ Class(t, b + 2) \in {"plus", "minus"} /\ Digits(t, b + 3, m + 1)
  BY <1>1, <1>2, <1>3 DEF ExponentOf
<1>5. b + 1 = m
  <2>1. \A k \in 2 .. m - 1 : Class(s, k) \in {"digit", "point"}
    BY <1>1, MantissaClasses
  <2>2. b + 1 \in 2 .. m - 1 => Class(t, b + 1) = Class(s, b + 1)
    BY <1>1
  <2> QED BY <1>1, <1>3, <1>4, <2>1, <2>2
<1>6. b + 2 = m + 1 /\ m + 1 \in b + 2 .. m + 1
  BY <1>1, <1>5
<1>7. Class(t, m + 1) \in {"digit", "plus", "minus"}
  BY <1>4, <1>6 DEF Digits
<1> QED BY <1>1, <1>7

LEMMA PowerEnds ==
  ASSUME NEW s, NEW t, NEW d, Extends(s, t, d), Power(s), d # "digit"
  PROVE  ~LooksLikeNumber(t)
<1> DEFINE m == Len(s)
<1>1. /\ m \in Nat /\ Len(t) = m + 1 /\ Class(t, m + 1) = d
      /\ \A k \in 1 .. m : Class(t, k) = Class(s, k)
  BY DEF Extends
<1>2. PICK p \in 1 .. m - 2 :
        /\ Mantissa(s, p) /\ Class(s, p + 1) = "exp"
        /\ Class(s, p + 2) \in {"plus", "minus", "digit"} /\ Digits(s, p + 3, m)
  BY DEF Power
<1> HIDE DEF m
<1>3. p + 1 \in 1 .. m /\ Class(t, p + 1) = "exp" /\ p + 3 <= m + 1 /\ p >= 1
  BY <1>1, <1>2
<1>4. SUFFICES ASSUME NEW b \in 1 .. m + 1, Mantissa(t, b), b < m + 1 => ExponentOf(t, b)
               PROVE  FALSE
  BY <1>1, NumberIs
<1>5. b <= p
  <2>1. p + 1 \in 2 .. b => Class(t, p + 1) \in {"digit", "point"}
    BY <1>4, MantissaClasses
  <2> QED BY <1>3, <2>1
<1>6. /\ Class(t, b + 1) = "exp"
      /\ \/ Digits(t, b + 2, m + 1)
         \/ Class(t, b + 2) \in {"plus", "minus"} /\ Digits(t, b + 3, m + 1)
  BY <1>1, <1>3, <1>4, <1>5 DEF ExponentOf
<1>7. b = p
  <2>1. \A k \in 2 .. p : Class(s, k) \in {"digit", "point"}
    BY <1>2, MantissaClasses
  <2>2. b + 1 \in 2 .. p => Class(t, b + 1) = Class(s, b + 1)
    BY <1>1
  <2> QED BY <1>3, <1>5, <1>6, <2>1, <2>2
<1>8. m + 1 \in b + 2 .. m + 1 /\ m + 1 \in b + 3 .. m + 1
  BY <1>1, <1>3, <1>7
<1>9. Class(t, m + 1) = "digit"
  BY <1>6, <1>8 DEF Digits
<1> QED BY <1>1, <1>9

-----------------------------------------------------------------------------
(***************************************************************************)
(* Which characters are escaped: a place is unescaped unless a backslash   *)
(* that is itself unescaped stands before it.                              *)
(***************************************************************************)
LEMMA UnescapedNext ==
  ASSUME NEW s, NEW i \in Nat
  PROVE  /\ i <= 1 => Unescaped(s, i)
         /\ i >= 2 /\ Class(s, i - 1) # "backslash" => Unescaped(s, i)
         /\ i >= 2 /\ Class(s, i - 1) = "backslash" =>
              (Unescaped(s, i) <=> ~Unescaped(s, i - 1))
<1> DEFINE run(h) == {j \in 1 .. h - 1 : \A k \in j .. h - 1 : Class(s, k) = "backslash"}
<1>1. \A x \in Nat : Unescaped(s, x) <=> Cardinality(run(x)) % 2 = 0
  BY DEF Unescaped
<1>2. Cardinality({}) % 2 = 0
  BY FS_EmptySet
<1>3. i <= 1 => run(i) = {}
  OBVIOUS
<1>4. i >= 2 /\ Class(s, i - 1) # "backslash" => run(i) = {}
  OBVIOUS
<1>5. ASSUME i >= 2, Class(s, i - 1) = "backslash"
      PROVE  Unescaped(s, i) <=> ~Unescaped(s, i - 1)
  <2>1. run(i) = run(i - 1) \cup {i - 1}
    <3>1. ASSUME NEW j \in run(i) PROVE j \in run(i - 1) \cup {i - 1}
      OBVIOUS
    <3>2. ASSUME NEW j \in run(i - 1) PROVE j \in run(i)
      <4>1. j \in 1 .. i - 1 /\ \A k \in j .. i - 2 : Class(s, k) = "backslash"
        OBVIOUS
      <4>2. ASSUME NEW k \in j .. i - 1 PROVE Class(s, k) = "backslash"
        BY <4>1, <1>5
      <4> QED BY <4>1, <4>2
    <3>3. i - 1 \in run(i)
      <4>1. \A k \in i - 1 .. i - 1 : k = i - 1
        OBVIOUS
      <4> QED BY <4>1, <1>5
    <3> HIDE DEF run
    <3> QED BY <3>1, <3>2, <3>3
  <2>2. i - 1 \notin run(i - 1)
    OBVIOUS
  <2>3. IsFiniteSet(run(i - 1))
    <3>1. run(i - 1) \subseteq 1 .. i - 2 /\ IsFiniteSet(1 .. i - 2)
      BY FS_Interval
    <3> QED BY <3>1, FS_Subset
  <2>4. i - 1 \in Nat
    BY <1>5
  <2> HIDE DEF run
  <2>5. /\ Cardinality(run(i - 1)) \in Nat
        /\ Cardinality(run(i)) = Cardinality(run(i - 1)) + 1
    BY <2>1, <2>2, <2>3, FS_AddElement, FS_CardinalityType
  <2> QED BY <1>1, <2>4, <2>5
<1> HIDE DEF run
<1> QED BY <1>1, <1>2, <1>3, <1>4, <1>5

LEMMA UnescapedKept ==
  ASSUME NEW s, NEW t, NEW d, Extends(s, t, d), NEW i \in 1 .. Len(s) + 1
  PROVE  Unescaped(s, i) <=> Unescaped(t, i)
<1>1. \A k \in 1 .. i - 1 : Class(s, k) = Class(t, k)
  BY DEF Extends
<1>2. {j \in 1 .. i - 1 : \A k \in j .. i - 1 : Class(s, k) = "backslash"}
        = {j \in 1 .. i - 1 : \A k \in j .. i - 1 : Class(t, k) = "backslash"}
  <2>1. \A j \in 1 .. i - 1 : \A k \in j .. i - 1 : k \in 1 .. i - 1
    BY DEF Extends
  <2> HIDE DEF Class, Extends
  <2> QED BY <1>1, <2>1
<1> QED BY <1>2 DEF Unescaped

(***************************************************************************)
(* A string that is being read: no quote behind the first ends it, and the *)
(* next character is escaped or not.                                       *)
(***************************************************************************)
OpenString(s, escaped) ==
  /\ Len(s) >= 1 /\ Class(s, 1) = "quote"
  /\ \A i \in 2 .. Len(s) : Class(s, i) = "quote" => ~Unescaped(s, i)
  /\ escaped <=> ~Unescaped(s, Len(s) + 1)

LEMMA StringGrows ==
  ASSUME NEW s, NEW t, NEW d, Extends(s, t, d), NEW e \in BOOLEAN, OpenString(s, e)
  PROVE  /\ e => OpenString(t, FALSE)
         /\ ~e /\ d = "backslash" => OpenString(t, TRUE)
         /\ ~e /\ d \notin {"quote", "backslash"} => OpenString(t, FALSE)
         /\ ~e /\ d = "quote" /\ DOMAIN t = 1 .. Len(t) => LooksLikeString(t)
         /\ DOMAIN s = 1 .. Len(s) => ~LooksLikeString(s)
         /\ ~LooksLikeNumber(s) /\ ~LooksLikeComment(s)
<1> DEFINE n == Len(s)
<1>1. /\ n \in Nat /\ n >= 1 /\ Len(t) = n + 1 /\ Class(t, n + 1) = d
      /\ \A k \in 1 .. n : Class(t, k) = Class(s, k)
      /\ Class(s, 1) = "quote"
      /\ \A i \in 2 .. n : Class(s, i) = "quote" => ~Unescaped(s, i)
      /\ e <=> ~Unescaped(s, n + 1)
  BY DEF Extends, OpenString
<1>2. \A i \in 1 .. n + 1 : Unescaped(s, i) <=> Unescaped(t, i)
  BY UnescapedKept
<1> HIDE DEF n
<1>3. /\ d # "backslash" => Unescaped(t, n + 2)
      /\ d = "backslash" => (Unescaped(t, n + 2) <=> ~Unescaped(t, n + 1))
  <2>1. n + 2 \in Nat /\ n + 2 >= 2 /\ (n + 2) - 1 = n + 1
    BY <1>1
  <2> QED BY <1>1, <2>1, UnescapedNext
<1>4. /\ e <=> ~Unescaped(t, n + 1)
      /\ n + 1 \in 1 .. n + 1
      /\ Class(t, 1) = "quote"
      /\ \A i \in 2 .. n : Class(t, i) = "quote" => ~Unescaped(t, i)
  BY <1>1, <1>2
<1>5. \A f \in BOOLEAN :
        /\ d = "quote" => ~Unescaped(t, n + 1)
        /\ f <=> ~Unescaped(t, n + 2)
        => OpenString(t, f)
  <2> SUFFICES ASSUME NEW f \in BOOLEAN,
                      d = "quote" => ~Unescaped(t, n + 1),
                      f <=> ~Unescaped(t, n + 2)
               PROVE  OpenString(t, f)
    OBVIOUS
  <2>1. Len(t) >= 1 /\ Len(t) + 1 = n + 2
    BY <1>1
  <2>2. \A i \in 2 .. Len(t) : Class(t, i) = "quote" => ~Unescaped(t, i)
    <3>1. \A i \in 2 .. Len(t) : i \in 2 .. n \/ i = n + 1
      BY <1>1
    <3> QED BY <1>1, <1>4, <3>1
  <2> QED BY <1>4, <2>1, <2>2 DEF OpenString
<1>6. e => OpenString(t, FALSE)
  BY <1>3, <1>4, <1>5
<1>7. ~e /\ d = "backslash" => OpenString(t, TRUE)
  BY <1>3, <1>4, <1>5
<1>8. ~e /\ d \notin {"quote", "backslash"} => OpenString(t, FALSE)
  BY <1>3, <1>4, <1>5
<1>9. ASSUME ~e, d = "quote", DOMAIN t = 1 .. Len(t)
      PROVE  LooksLikeString(t)
  <2>1. Unescaped(t, 1)
    BY UnescapedNext
  <2>2. \A i \in DOMAIN t : i = 1 \/ i \in 2 .. n \/ i = n + 1
    BY <1>1, <1>9
  <2>3. {i \in DOMAIN t : Class(t, i) = "quote" /\ Unescaped(t, i)} = {1, n + 1}
    <3>1. 1 \in DOMAIN t /\ n + 1 \in DOMAIN t
      BY <1>1, <1>9
    <3> QED BY <1>1, <1>4, <1>9, <2>1, <2>2, <3>1
  <2> QED BY <1>1, <2>3 DEF LooksLikeString
<1>10. ASSUME DOMAIN s = 1 .. Len(s) PROVE ~LooksLikeString(s)
  <2> SUFFICES ASSUME LooksLikeString(s) PROVE FALSE
    OBVIOUS
  <2>1. n >= 2 /\ n \in {i \in DOMAIN s : Class(s, i) = "quote" /\ Unescaped(s, i)}
    <3>1. Len(s) \in {1, Len(s)}
      OBVIOUS
    <3> QED BY <3>1 DEF LooksLikeString, n
  <2> QED BY <1>1, <2>1
<1>11. ~LooksLikeNumber(s) /\ ~LooksLikeComment(s)
  BY <1>1 DEF LooksLikeNumber, LooksLikeComment
<1> QED BY <1>6, <1>7, <1>8, <1>9, <1>10, <1>11

-----------------------------------------------------------------------------
(***************************************************************************)
(* Comments that are being read.                                           *)
(***************************************************************************)
OpenBlock(s, star) ==
  /\ Len(s) >= 2 /\ Class(s, 1) = "slash" /\ Class(s, 2) = "star"
  /\ \A i \in 4 .. Len(s) : ~(Class(s, i - 1) = "star" /\ Class(s, i) = "slash")
  /\ star => Len(s) >= 3 /\ Class(s, Len(s)) = "star"

OpenLine(s, return) ==
  /\ Len(s) >= 2 /\ Class(s, 1) = "slash" /\ Class(s, 2) = "slash"
  /\ \A i \in 3 .. Len(s) - 1 : Class(s, i) \notin {"newline", "return"}
  /\ IF return THEN Len(s) >= 3 /\ Class(s, Len(s)) = "return"
     ELSE Len(s) >= 3 => Class(s, Len(s)) \notin {"newline", "return"}

LEMMA BlockGrows ==
  ASSUME NEW s, NEW t, NEW d, Extends(s, t, d), NEW star \in BOOLEAN, OpenBlock(s, star)
  PROVE  /\ star /\ d = "slash" => LooksLikeComment(t)
         /\ ~(Len(s) >= 3 /\ Class(s, Len(s)) = "star" /\ d = "slash") =>
              OpenBlock(t, FALSE) /\ (d = "star" => OpenBlock(t, TRUE))
         /\ ~LooksLikeNumber(s) /\ ~LooksLikeString(s) /\ ~LooksLikeComment(s)
<1> DEFINE n == Len(s)
<1>1. /\ n \in Nat /\ n >= 2 /\ Len(t) = n + 1 /\ Class(t, n + 1) = d
      /\ \A k \in 1 .. n : Class(t, k) = Class(s, k)
      /\ Class(s, 1) = "slash" /\ Class(s, 2) = "star"
      /\ \A i \in 4 .. n : ~(Class(s, i - 1) = "star" /\ Class(s, i) = "slash")
      /\ star => n >= 3 /\ Class(s, n) = "star"
  BY DEF Extends, OpenBlock
<1> HIDE DEF n
<1>2. /\ Class(t, 1) = "slash" /\ Class(t, 2) = "star"
      /\ \A i \in 4 .. n : ~(Class(t, i - 1) = "star" /\ Class(t, i) = "slash")
  BY <1>1
<1>3. ASSUME star, d = "slash" PROVE LooksLikeComment(t)
  <2>1. n + 1 \in 4 .. n + 1 /\ Class(t, (n + 1) - 1) = "star" /\ Class(t, n + 1) = "slash"
    BY <1>1, <1>3
  <2>2. \A i \in 4 .. n + 1 : i \in 4 .. n \/ i = n + 1
    BY <1>1
  <2>3. {i \in 4 .. n + 1 : Class(t, i - 1) = "star" /\ Class(t, i) = "slash"} = {n + 1}
    BY <1>2, <2>1, <2>2
  <2> QED BY <1>1, <1>2, <2>3 DEF LooksLikeComment
<1>4. ASSUME ~(n >= 3 /\ Class(s, n) = "star" /\ d = "slash")
      PROVE  OpenBlock(t, FALSE) /\ (d = "star" => OpenBlock(t, TRUE))
  <2>1. ASSUME NEW i \in 4 .. n + 1
        PROVE  ~(Class(t, i - 1) = "star" /\ Class(t, i) = "slash")
    <3>1. CASE i = n + 1
      <4>1. n >= 3 /\ i - 1 = n /\ Class(t, n) = Class(s, n)
        BY <1>1, <3>1
      <4> QED BY <1>1, <1>4, <3>1, <4>1
    <3>2. CASE i # n + 1
      BY <1>1, <1>2, <3>2
    <3> QED BY <3>1, <3>2
  <2> QED BY <1>1, <1>2, <2>1 DEF OpenBlock
<1>5. ~LooksLikeNumber(s) /\ ~LooksLikeString(s)
  BY <1>1 DEF LooksLikeNumber, LooksLikeString
<1>6. ~LooksLikeComment(s)
  <2>1. n \notin {i \in 4 .. n : Class(s, i - 1) = "star" /\ Class(s, i) = "slash"}
    BY <1>1
  <2> QED BY <1>1, <2>1 DEF LooksLikeComment, n
<1> QED BY <1>3, <1>4, <1>5, <1>6 DEF n

LEMMA LineGrows ==
  ASSUME NEW s, NEW t, NEW d, Extends(s, t, d), NEW return \in BOOLEAN, OpenLine(s, return)
  PROVE  /\ LooksLikeComment(s)
         /\ d = "newline" => LooksLikeComment(t)
         /\ ~return /\ d = "return" => OpenLine(t, TRUE)
         /\ ~return /\ d \notin {"newline", "return"} => OpenLine(t, FALSE)
<1> DEFINE n == Len(s)
<1>1. /\ n \in Nat /\ n >= 2 /\ Len(t) = n + 1 /\ Class(t, n + 1) = d
      /\ \A k \in 1 .. n : Class(t, k) = Class(s, k)
      /\ Class(s, 1) = "slash" /\ Class(s, 2) = "slash"
      /\ \A i \in 3 .. n - 1 : Class(s, i) \notin {"newline", "return"}
      /\ return => n >= 3 /\ Class(s, n) = "return"
      /\ ~return => (n >= 3 => Class(s, n) \notin {"newline", "return"})
  BY DEF Extends, OpenLine
<1>2. LooksLikeComment(s)
  BY <1>1 DEF LooksLikeComment
<1> HIDE DEF n
<1>3. /\ Class(t, 1) = "slash" /\ Class(t, 2) = "slash" /\ Len(t) - 1 = n
      /\ \A i \in 3 .. n - 1 : Class(t, i) \notin {"newline", "return"}
      /\ Class(t, n) = Class(s, n)
      /\ \A i \in 3 .. n : i \in 3 .. n - 1 \/ i = n
  BY <1>1
<1>4. ASSUME d = "newline" PROVE LooksLikeComment(t)
  <2>1. ASSUME NEW i \in 3 .. n
        PROVE  \/ Class(t, i) \notin {"newline", "return"}
               \/ Class(t, i) = "return" /\ i + 1 = Len(t) /\ Class(t, i + 1) = "newline"
    <3>1. CASE i = n
      BY <1>1, <1>3, <1>4, <3>1
    <3>2. CASE i # n
      BY <1>3, <3>2
    <3> QED BY <3>1, <3>2
  <2> QED BY <1>3, <2>1 DEF LooksLikeComment
<1>5. ASSUME ~return
      PROVE  \A i \in 3 .. n : Class(t, i) \notin {"newline", "return"}
  BY <1>1, <1>3, <1>5
<1>6. ASSUME ~return, d = "return" PROVE OpenLine(t, TRUE)
  <2>1. Len(t) >= 3 /\ Class(t, Len(t)) = "return"
    BY <1>1, <1>6
  <2> QED BY <1>3, <1>5, <1>6, <2>1 DEF OpenLine
<1>7. ASSUME ~return, d \notin {"newline", "return"} PROVE OpenLine(t, FALSE)
  <2>1. Len(t) >= 3 /\ Class(t, Len(t)) \notin {"newline", "return"}
    BY <1>1, <1>7
  <2> QED BY <1>3, <1>5, <1>7, <2>1 DEF OpenLine
<1> QED BY <1>2, <1>4, <1>6, <1>7

(***************************************************************************)
(* The first character tells the tokens that begin with another one apart, *)
(* and a slash alone opens no comment.                                     *)
(***************************************************************************)
LEMMA LooksLikeNothing ==
  ASSUME NEW s, Len(s) \in Nat,
         \/ Class(s, 1) \notin {"digit", "minus", "quote", "slash"}
         \/ Class(s, 1) = "slash" /\ Class(s, 2) \notin {"slash", "star"}
  PROVE  ~LooksLikeNumber(s) /\ ~LooksLikeString(s) /\ ~LooksLikeComment(s)
<1>1. ~LooksLikeNumber(s) /\ ~LooksLikeComment(s)
  BY DEF LooksLikeNumber, LooksLikeComment
<1>2. Class(s, 1) # "quote"
  OBVIOUS
<1>3. ~LooksLikeString(s)
  BY <1>2 DEF LooksLikeString
<1> QED BY <1>1, <1>3

-----------------------------------------------------------------------------
(***************************************************************************)
(* What has been read of the token that is being read, and the shape it    *)
(* has at each place of the lexer.                                         *)
(***************************************************************************)
Read == SubSeq(text, start + 1, current)

ShapeOfRead ==
  /\ at = "literal" => current = start + 1
  /\ at = "integral" => Integral(Read)
  /\ at = "fraction" => Fraction(Read)
  /\ at = "exponent" => Exponent(Read)
  /\ at = "power" => Power(Read)
  /\ at = "string" => OpenString(Read, FALSE)
  /\ at = "escaped" => OpenString(Read, TRUE)
  /\ at = "slash" => Len(Read) = 1 /\ Class(Read, 1) = "slash"
  /\ at = "block" =>
       /\ OpenBlock(Read, FALSE)
       /\ Len(Read) >= 3 /\ Class(Read, Len(Read)) = "star" =>
            AtEnd \/ (current < Len(text) /\ text[current + 1].class # "slash")
  /\ at = "star" => OpenBlock(Read, TRUE)
  /\ at = "line" => OpenLine(Read, FALSE)
  /\ at = "return" => OpenLine(Read, TRUE)

\* What a token of a type spells, and that a number of text x ends only where it must.
Spells(type, s) ==
  CASE type = "number" -> LooksLikeNumber(s)
    [] type = "string" -> LooksLikeString(s)
    [] type = "comment" -> LooksLikeComment(s)
    [] type \in {"true", "false", "null"} ->
         Len(s) = 2 /\ Class(s, 1) = type /\ Class(s, 2) = "rest"
    [] type \in Single -> Len(s) = 1 /\ Class(s, 1) = type
    [] type = "endOfStream" -> s \in {<< >>, <<Raw(0)>>}
    [] type = "error" ->
         ~LooksLikeNumber(s) /\ ~LooksLikeString(s) /\ ~LooksLikeComment(s)

Spelled(x, t) ==
  /\ Spells(t.type, SubSeq(x, t.from + 1, t.to))
  /\ t.type = "number" /\ t.to < Len(x) =>
       ~LooksLikeNumber(Append(SubSeq(x, t.from + 1, t.to), x[t.to + 1]))

\* A number at the end of what there is of the text is one at its end.
AllSpelled ==
  \A i \in DOMAIN tokens :
    /\ Spelled(text, tokens[i])
    /\ tokens[i].type = "number" => tokens[i].to < Len(text) \/ closed

LEMMA ReadSoFar ==
  ASSUME Inv, at \notin {"space", "end"}
  PROVE  /\ Read \in Seq(Character) /\ Len(Read) = current - start /\ Len(Read) \in Nat
         /\ DOMAIN Read = 1 .. Len(Read)
         /\ start \in Nat /\ current \in Nat /\ start <= current /\ current <= Len(text)
         /\ current < Len(text) =>
              /\ text[current + 1] \in Character
              /\ SubSeq(text, start + 1, current + 1) = Append(Read, text[current + 1])
              /\ Extends(Read, Append(Read, text[current + 1]), text[current + 1].class)
<1>1. /\ text \in Seq(Character) /\ start \in Nat /\ current \in Nat
      /\ start <= current /\ current <= Len(text)
  BY DEF Inv, TypeOK
<1>2. /\ Read \in Seq(Character) /\ Len(Read) = current - start
      /\ current < Len(text) =>
           /\ SubSeq(text, start + 1, current + 1) = Append(Read, text[current + 1])
           /\ text[current + 1] \in Character
  BY <1>1, SpelledSoFar DEF Read
<1>3. DOMAIN Read = 1 .. Len(Read) /\ Len(Read) \in Nat
  BY <1>2, LenProperties
<1>4. current < Len(text) =>
        Extends(Read, Append(Read, text[current + 1]), text[current + 1].class)
  BY <1>2, AppendExtends
<1> QED BY <1>1, <1>2, <1>3, <1>4

LEMMA ReadOfOne ==
  ASSUME Inv, current < Len(text)
  PROVE  /\ SubSeq(text, current + 1, current + 1) = <<text[current + 1]>>
         /\ SubSeq(text, current + 1, current) = << >>
         /\ text[current + 1] \in Character
         /\ <<text[current + 1]>> \in Seq(Character)
         /\ Len(<<text[current + 1]>>) = 1
         /\ Class(<<text[current + 1]>>, 1) = text[current + 1].class
         /\ Class(<<text[current + 1]>>, 2) = "nothing"
<1>1. text \in Seq(Character) /\ current \in Nat /\ current <= Len(text)
  BY DEF Inv, TypeOK
<1>2. SubSeq(text, current + 1, current) = << >>
  BY <1>1, SubSeqEmpty
<1>3. /\ SubSeq(text, current + 1, current + 1)
           = Append(SubSeq(text, current + 1, current), text[current + 1])
      /\ text[current + 1] \in Character
  BY <1>1, SpelledSoFar
<1>4. Extends(<< >>, <<text[current + 1]>>, text[current + 1].class)
      /\ Append(<< >>, text[current + 1]) = <<text[current + 1]>>
      /\ Len(<< >>) = 0 /\ << >> \in Seq(Character)
      /\ <<text[current + 1]>> \in Seq(Character)
  BY <1>3, FirstExtends
<1>5. Class(<<text[current + 1]>>, 1) = text[current + 1].class
      /\ Class(<<text[current + 1]>>, 2) = "nothing"
      /\ Len(<<text[current + 1]>>) = 1
  BY DEF Class
<1> QED BY <1>2, <1>3, <1>4, <1>5

(***************************************************************************)
(* The byte that ends the text early is the only one of its class.         *)
(***************************************************************************)
LEMMA NulIsOne ==
  ASSUME NEW c \in Character, c.class = "nul"
  PROVE  c = Raw(0)
<1>1. PICK b : c = Raw(b)
  <2>1. c # Rest /\ \A u \in Unit : c # Unicode(u)
    BY DEF Rest, Unicode
  <2> QED BY <2>1 DEF Character
<1>2. ClassOf(b) = "nul"
  BY <1>1 DEF Raw
<1>3. b = 0
  BY <1>2 DEF ClassOf
<1> QED BY <1>1, <1>3

-----------------------------------------------------------------------------
(***************************************************************************)
(* A token that is emitted spells what it should if its characters do, and *)
(* the tokens before it are left alone.                                    *)
(***************************************************************************)
LEMMA EmitSpells ==
  ASSUME Inv, AllSpelled, NEW t, NEW f \in Nat, NEW e \in Nat,
         tokens' = Append(tokens, [type |-> t, from |-> f, to |-> e]),
         [type |-> t, from |-> f, to |-> e] \in Token,
         text' = text, closed' = closed, at' \in {"space", "end"},
         Spells(t, SubSeq(text, f + 1, e)),
         t = "number" =>
           /\ e < Len(text) \/ closed
           /\ e < Len(text) => ~LooksLikeNumber(Append(SubSeq(text, f + 1, e), text[e + 1]))
  PROVE  ShapeOfRead' /\ AllSpelled'
<1> DEFINE new == [type |-> t, from |-> f, to |-> e]
<1>1. ShapeOfRead'
  BY DEF ShapeOfRead
<1>2. new.type = t /\ new.from = f /\ new.to = e
  OBVIOUS
<1>3. Spelled(text, new)
  BY <1>2 DEF Spelled
<1> HIDE DEF new
<1>4. /\ DOMAIN tokens' = 1 .. Len(tokens) + 1 /\ DOMAIN tokens = 1 .. Len(tokens)
      /\ Len(tokens) \in Nat
      /\ \A i \in 1 .. Len(tokens) : tokens'[i] = tokens[i]
      /\ tokens'[Len(tokens) + 1] = new
  <2>1. tokens \in Seq(Token) /\ tokens' = Append(tokens, new) /\ new \in Token
    BY DEF new, Inv, TypeOK
  <2> QED BY <2>1, AppendProperties, LenProperties
<1>5. ASSUME NEW i \in DOMAIN tokens'
      PROVE  /\ Spelled(text, tokens'[i])
             /\ tokens'[i].type = "number" => tokens'[i].to < Len(text) \/ closed
  <2>1. CASE i = Len(tokens) + 1
    <3>1. tokens'[i] = new
      BY <1>4, <2>1
    <3> QED BY <1>2, <1>3, <3>1
  <2>2. CASE i # Len(tokens) + 1
    <3>1. i \in DOMAIN tokens /\ tokens'[i] = tokens[i]
      BY <1>4, <2>2
    <3> QED BY <3>1 DEF AllSpelled
  <2> QED BY <2>1, <2>2
<1>6. AllSpelled'
  BY <1>5 DEF AllSpelled
<1> QED BY <1>1, <1>6

(***************************************************************************)
(* A step that emits no token leaves them spelled.                         *)
(***************************************************************************)
LEMMA StaySpelled ==
  ASSUME AllSpelled, UNCHANGED <<text, closed, tokens>>
  PROVE  AllSpelled'
<1>1. \A i \in DOMAIN tokens :
        /\ Spelled(text, tokens[i])
        /\ tokens[i].type = "number" => tokens[i].to < Len(text) \/ closed
  BY DEF AllSpelled
<1> QED BY <1>1 DEF AllSpelled

(***************************************************************************)
(* The text is given another character, or ends.                           *)
(***************************************************************************)
LEMMA GivenSpells ==
  ASSUME Inv, ShapeOfRead, AllSpelled, Close \/ \E c \in Offered : More(c)
  PROVE  ShapeOfRead' /\ AllSpelled'
<1>0. /\ current = Len(text) /\ ~closed /\ UNCHANGED <<current, start, at, tokens>>
      /\ text \in Seq(Character) /\ current \in Nat /\ start \in Nat /\ start <= current
      /\ Len(text) \in Nat
  BY DEF Close, More, Inv, TypeOK
<1>1. /\ text' \in Seq(Character)
      /\ Len(text') >= Len(text) /\ Len(text') \in Nat
      /\ Len(text') > Len(text) \/ closed'
      /\ \A i \in 1 .. Len(text) : text'[i] = text[i]
      /\ \A f, e \in Nat : f <= e /\ e <= Len(text) =>
           SubSeq(text', f + 1, e) = SubSeq(text, f + 1, e)
  <2>1. CASE Close
    BY <1>0, <2>1 DEF Close
  <2>2. ASSUME NEW c \in Offered, More(c)
        PROVE  /\ text' = Append(text, c) /\ c \in Character
    BY <2>2 DEF More, Offered, Character
  <2>3. CASE \E c \in Offered : More(c)
    <3>1. PICK c \in Character : text' = Append(text, c)
      BY <2>2, <2>3
    <3>2. /\ text' \in Seq(Character) /\ Len(text') = Len(text) + 1
          /\ \A i \in 1 .. Len(text) : text'[i] = text[i]
      BY <1>0, <3>1, AppendProperties
    <3>3. \A f, e \in Nat : f <= e /\ e <= Len(text) =>
            SubSeq(text', f + 1, e) = SubSeq(text, f + 1, e)
      BY <1>0, <3>1, SpelledBefore
    <3> QED BY <1>0, <3>2, <3>3
  <2> QED BY <2>1, <2>3
<1>2. Read' = Read
  BY <1>0, <1>1 DEF Read
<1>3. ShapeOfRead'
  <2>1. ~AtEnd /\ ~(current < Len(text))
    BY <1>0 DEF AtEnd
  <2> QED BY <1>0, <1>2, <2>1 DEF ShapeOfRead
<1>4. AllSpelled'
  <2> SUFFICES ASSUME NEW i \in DOMAIN tokens
      PROVE  /\ Spelled(text', tokens[i])
             /\ tokens[i].type = "number" => tokens[i].to < Len(text') \/ closed'
    BY <1>0 DEF AllSpelled
  <2> DEFINE t == tokens[i]
  <2>1. t.from \in Nat /\ t.to \in Nat /\ t.from <= t.to /\ t.to <= Len(text)
    BY <1>0, TokenPlaces DEF Inv, TypeOK
  <2>2. Spelled(text, t) /\ (t.type = "number" => t.to < Len(text))
    BY <1>0 DEF AllSpelled
  <2> HIDE DEF t
  <2>3. SubSeq(text', t.from + 1, t.to) = SubSeq(text, t.from + 1, t.to)
    BY <1>1, <2>1
  <2>4. t.type = "number" => text'[t.to + 1] = text[t.to + 1]
    BY <1>0, <1>1, <2>1, <2>2
  <2>5. t.type = "number" => t.to < Len(text')
    BY <1>0, <1>1, <2>1, <2>2
  <2>6. Spelled(text', t)
    BY <2>2, <2>3, <2>4 DEF Spelled
  <2> QED BY <2>5, <2>6 DEF t
<1> QED BY <1>3, <1>4

(***************************************************************************)
(* The steps between the tokens: those of one character, and the first     *)
(* character of the others.                                                *)
(***************************************************************************)
LEMMA SingleSpells ==
  ASSUME Inv, AllSpelled, ReadSingle \/ ReadNul \/ ReadUnknown \/ EndOfText
  PROVE  ShapeOfRead' /\ AllSpelled'
<1>0. current \in Nat /\ current <= Len(text) /\ Len(text) \in Nat
  BY DEF Inv, TypeOK
<1>1. ASSUME NEW t \in TokenType \ {"number"}, current < Len(text),
             Emit(t, current, current + 1), Spells(t, <<text[current + 1]>>)
      PROVE  ShapeOfRead' /\ AllSpelled'
  <2>1. [type |-> t, from |-> current, to |-> current + 1] \in Token /\ current + 1 \in Nat
    BY <1>0 DEF Token
  <2>2. Spells(t, SubSeq(text, current + 1, current + 1))
    BY <1>1, ReadOfOne
  <2>3. /\ tokens' = Append(tokens, [type |-> t, from |-> current, to |-> current + 1])
        /\ text' = text /\ closed' = closed /\ at' \in {"space", "end"}
    BY <1>1 DEF Emit
  <2> QED BY <1>0, <2>1, <2>2, <2>3, EmitSpells
<1>2. CASE ReadSingle
  <2>1. /\ text[current + 1].class \in Single /\ current < Len(text)
        /\ Emit(text[current + 1].class, current, current + 1)
    BY <1>2 DEF ReadSingle, Sees
  <2>2. text[current + 1].class \in TokenType \ {"number"}
    BY <2>1 DEF TokenType, Single
  <2>3. \A c \in Single : \A s :
          Spells(c, s) <=> Len(s) = 1 /\ Class(s, 1) = c
    BY DEF Spells, Single
  <2>4. Spells(text[current + 1].class, <<text[current + 1]>>)
    BY <2>1, <2>3, ReadOfOne
  <2> QED BY <1>1, <2>1, <2>2, <2>4
<1>3. CASE ReadNul
  <2>1. text[current + 1].class = "nul" /\ current < Len(text)
        /\ Emit("endOfStream", current, current + 1)
    BY <1>3 DEF ReadNul, Sees
  <2>2. text[current + 1] = Raw(0)
    BY <2>1, ReadOfOne, NulIsOne
  <2>3. Spells("endOfStream", <<text[current + 1]>>)
    BY <2>2 DEF Spells, Single
  <2> QED BY <1>1, <2>1, <2>3 DEF TokenType
<1>4. CASE ReadUnknown
  <2>1. /\ text[current + 1].class \in {"star", "plus", "point", "backslash", "exp", "other"}
        /\ current < Len(text) /\ Emit("error", current, current + 1)
    BY <1>4 DEF ReadUnknown, Sees
  <2>2. /\ ~LooksLikeNumber(<<text[current + 1]>>) /\ ~LooksLikeString(<<text[current + 1]>>)
        /\ ~LooksLikeComment(<<text[current + 1]>>)
    <3>1. /\ Class(<<text[current + 1]>>, 1) \notin {"digit", "minus", "quote", "slash"}
          /\ Len(<<text[current + 1]>>) \in Nat
      BY <2>1, ReadOfOne
    <3> QED BY <3>1, LooksLikeNothing
  <2>3. Spells("error", <<text[current + 1]>>)
    BY <2>2 DEF Spells, Single
  <2> QED BY <1>1, <2>1, <2>3 DEF TokenType
<1>5. CASE EndOfText
  <2>1. SubSeq(text, current + 1, current) = << >>
    BY <1>0, SubSeqEmpty
  <2>2. Spells("endOfStream", SubSeq(text, current + 1, current))
    BY <2>1 DEF Spells, Single
  <2>3. [type |-> "endOfStream", from |-> current, to |-> current] \in Token
    BY <1>0 DEF Token, TokenType
  <2> QED BY <1>0, <1>5, <2>2, <2>3, EmitSpells DEF EndOfText
<1> QED BY <1>2, <1>3, <1>4, <1>5

LEMMA BeginShapes ==
  ASSUME Inv, AllSpelled,
         BeginLiteral \/ BeginNumber \/ BeginString \/ BeginComment \/ SkipSpace
  PROVE  ShapeOfRead' /\ AllSpelled'
<1>0. current < Len(text) /\ current \in Nat
  BY DEF BeginLiteral, BeginNumber, BeginString, BeginComment, SkipSpace, Sees, Inv, TypeOK
<1>1. AllSpelled'
  BY StaySpelled
     DEF BeginLiteral, BeginNumber, BeginString, BeginComment, SkipSpace, Begin, Take
<1> DEFINE c == text[current + 1]
<1>2. ASSUME NEW p, Begin(p)
      PROVE  Read' = <<c>> /\ current' = start' + 1 /\ at' = p
  BY <1>0, <1>2, ReadOfOne DEF Begin, Read
<1>3. Len(<<c>>) = 1 /\ Class(<<c>>, 1) = c.class
  BY <1>0, ReadOfOne
<1> HIDE DEF c
<1>4. CASE BeginLiteral
  <2>1. current' = start' + 1 /\ at' = "literal"
    BY <1>2, <1>4 DEF BeginLiteral
  <2> QED BY <1>1, <2>1 DEF ShapeOfRead
<1>5. CASE BeginNumber
  <2>1. Read' = <<c>> /\ at' = "integral" /\ c.class \in {"digit", "minus"}
    BY <1>2, <1>5 DEF BeginNumber, Sees, c
  <2>2. Integral(<<c>>)
    BY <1>3, <2>1 DEF Integral, Digits
  <2> QED BY <1>1, <2>1, <2>2 DEF ShapeOfRead
<1>6. CASE BeginString
  <2>1. Read' = <<c>> /\ at' = "string" /\ c.class = "quote"
    BY <1>2, <1>6 DEF BeginString, Sees, c
  <2>2. Unescaped(<<c>>, 2)
    <3>1. 2 \in Nat /\ 2 >= 2 /\ Class(<<c>>, 2 - 1) # "backslash"
      BY <1>3, <2>1
    <3> QED BY <3>1, UnescapedNext
  <2>3. OpenString(<<c>>, FALSE)
    <3>1. Len(<<c>>) >= 1 /\ Len(<<c>>) + 1 = 2 /\ 2 .. Len(<<c>>) = {}
      BY <1>3
    <3> QED BY <1>3, <2>1, <2>2, <3>1 DEF OpenString
  <2> QED BY <1>1, <2>1, <2>3 DEF ShapeOfRead
<1>7. CASE BeginComment
  <2>1. Read' = <<c>> /\ at' = "slash" /\ c.class = "slash"
    BY <1>2, <1>7 DEF BeginComment, Sees, c
  <2> QED BY <1>1, <1>3, <2>1 DEF ShapeOfRead
<1>8. CASE SkipSpace
  BY <1>1, <1>8 DEF SkipSpace, Take, ShapeOfRead
<1> QED BY <1>4, <1>5, <1>6, <1>7, <1>8

(***************************************************************************)
(* What a step inside a token does to what has been read, and what a step  *)
(* that ends it emits.                                                     *)
(***************************************************************************)
LEMMA TakeReads ==
  ASSUME Inv, AllSpelled, at \notin {"space", "end"}, current < Len(text), NEW p, Take(p)
  PROVE  /\ Read' = Append(Read, text[current + 1]) /\ at' = p /\ AllSpelled'
         /\ Extends(Read, Append(Read, text[current + 1]), text[current + 1].class)
<1>1. /\ SubSeq(text, start + 1, current + 1) = Append(Read, text[current + 1])
      /\ Extends(Read, Append(Read, text[current + 1]), text[current + 1].class)
  BY ReadSoFar
<1>2. Read' = SubSeq(text, start + 1, current + 1)
  BY DEF Read, Take
<1>3. UNCHANGED <<text, closed, tokens>> /\ at' = p
  BY DEF Take
<1> QED BY <1>1, <1>2, <1>3, StaySpelled

LEMMA EndSpells ==
  ASSUME Inv, AllSpelled, at \notin {"space", "end"}, NEW t \in TokenType
  PROVE  /\ /\ Emit(t, start, current) /\ Spells(t, Read)
            /\ t = "number" =>
                 /\ current < Len(text) \/ closed
                 /\ current < Len(text) => ~LooksLikeNumber(Append(Read, text[current + 1]))
            => ShapeOfRead' /\ AllSpelled'
         /\ /\ Emit(t, start, current + 1) /\ current < Len(text) /\ t # "number"
            /\ Spells(t, Append(Read, text[current + 1]))
            => ShapeOfRead' /\ AllSpelled'
<1>0. /\ start \in Nat /\ current \in Nat /\ current <= Len(text)
      /\ current < Len(text) =>
           SubSeq(text, start + 1, current + 1) = Append(Read, text[current + 1])
  BY ReadSoFar
<1>1. /\ [type |-> t, from |-> start, to |-> current] \in Token
      /\ [type |-> t, from |-> start, to |-> current + 1] \in Token
      /\ current + 1 \in Nat
  BY <1>0 DEF Token
<1>2. ASSUME Emit(t, start, current), Spells(t, Read),
             t = "number" =>
               /\ current < Len(text) \/ closed
               /\ current < Len(text) => ~LooksLikeNumber(Append(Read, text[current + 1]))
      PROVE  ShapeOfRead' /\ AllSpelled'
  <2>1. /\ tokens' = Append(tokens, [type |-> t, from |-> start, to |-> current])
        /\ text' = text /\ closed' = closed /\ at' \in {"space", "end"}
    BY <1>2 DEF Emit
  <2> QED BY <1>0, <1>1, <1>2, <2>1, EmitSpells DEF Read
<1>3. ASSUME Emit(t, start, current + 1), current < Len(text), t # "number",
             Spells(t, Append(Read, text[current + 1]))
      PROVE  ShapeOfRead' /\ AllSpelled'
  <2>1. /\ tokens' = Append(tokens, [type |-> t, from |-> start, to |-> current + 1])
        /\ text' = text /\ closed' = closed /\ at' \in {"space", "end"}
    BY <1>3 DEF Emit
  <2>2. Spells(t, SubSeq(text, start + 1, current + 1))
    BY <1>0, <1>3
  <2> QED BY <1>0, <1>1, <1>3, <2>1, <2>2, EmitSpells
<1> QED BY <1>2, <1>3

\* What the types of the longer tokens spell.
LEMMA SpellsIs ==
  ASSUME NEW s
  PROVE  /\ Spells("number", s) <=> LooksLikeNumber(s)
         /\ Spells("string", s) <=> LooksLikeString(s)
         /\ Spells("comment", s) <=> LooksLikeComment(s)
         /\ Spells("error", s) <=>
              ~LooksLikeNumber(s) /\ ~LooksLikeString(s) /\ ~LooksLikeComment(s)
         /\ \A c \in {"true", "false", "null"} :
              Spells(c, s) <=> Len(s) = 2 /\ Class(s, 1) = c /\ Class(s, 2) = "rest"
         /\ {"number", "string", "comment", "error"} \subseteq TokenType
BY DEF Spells, Single, TokenType

LEMMA MatchSpells ==
  ASSUME Inv, ShapeOfRead, AllSpelled, Match
  PROVE  ShapeOfRead' /\ AllSpelled'
<1> DEFINE c == text[start + 1]
           d == text[current + 1]
<1>1. at = "literal" /\ current = start + 1 /\ start < Len(text) /\ start \in Nat
      /\ c.class \in {"true", "false", "null"}
  BY DEF Match, Sees, SeesNot, ShapeOfRead, Inv, LiteralBegun, TypeOK
<1>2. /\ Read \in Seq(Character) /\ Len(Read) = 1 /\ Class(Read, 1) = c.class
      /\ current < Len(text) => Extends(Read, Append(Read, d), d.class)
  <2>1. /\ Read \in Seq(Character) /\ Len(Read) = 1 /\ DOMAIN Read = 1 .. 1
        /\ current < Len(text) => Extends(Read, Append(Read, d), d.class)
    BY <1>1, ReadSoFar
  <2>2. Read[1] = c
    <3>1. text \in Seq(Character) /\ start \in Int /\ start < start + 1
      BY <1>1 DEF Inv, TypeOK
    <3>2. SubSeq(text, start + 1, start) = << >>
      BY <1>1, SubSeqEmpty
    <3>3. SubSeq(text, start + 1, start + 1) = Append(SubSeq(text, start + 1, start), c)
      BY <1>1, <3>1, SpelledSoFar
    <3>4. Read = Append(<< >>, c)
      BY <1>1, <3>2, <3>3 DEF Read
    <3> HIDE DEF c
    <3> QED BY <3>4
  <2> QED BY <2>1, <2>2 DEF Class
<1> HIDE DEF c, d
<1>3. CASE Sees("literal", {"rest"}) /\ Emit(text[start + 1].class, start, current + 1)
  <2>1. current < Len(text) /\ d.class = "rest" /\ c.class \in TokenType /\ c.class # "number"
    BY <1>1, <1>3 DEF Sees, d, TokenType
  <2>2. /\ Len(Append(Read, d)) = 2 /\ Class(Append(Read, d), 1) = c.class
        /\ Class(Append(Read, d), 2) = "rest"
    BY <1>2, <2>1 DEF Extends
  <2>3. Spells(c.class, Append(Read, d))
    BY <1>1, <2>2, SpellsIs
  <2> QED BY <1>1, <1>3, <2>1, <2>3, EndSpells DEF c, d
<1>4. CASE SeesNot("literal", {"rest"}) /\ Emit("error", start, current)
  <2>1. Spells("error", Read)
    <3>1. Class(Read, 1) \notin {"digit", "minus", "quote", "slash"} /\ Len(Read) \in Nat
      BY <1>1, <1>2
    <3> QED BY <3>1, LooksLikeNothing, SpellsIs
  <2> QED BY <1>1, <1>4, <2>1, EndSpells, SpellsIs
<1> QED BY <1>3, <1>4 DEF Match

LEMMA NumberSpells ==
  ASSUME Inv, ShapeOfRead, AllSpelled,
         ReadDigits \/ ReadPoint \/ ReadExponent \/ ReadSign \/ EndNumber
  PROVE  ShapeOfRead' /\ AllSpelled'
<1> DEFINE d == text[current + 1].class
           more == Append(Read, text[current + 1])
<1>0. at \in {"integral", "fraction", "exponent", "power"}
  BY DEF ReadDigits, ReadPoint, ReadExponent, ReadSign, EndNumber, Sees, SeesNot
<1>1. current < Len(text) => Extends(Read, more, d)
  BY <1>0, ReadSoFar
<1>2. ASSUME NEW p, current < Len(text), Take(p)
      PROVE  Read' = more /\ at' = p /\ AllSpelled'
  BY <1>0, <1>2, TakeReads
<1>3. /\ at = "integral" => Integral(Read)
      /\ at = "fraction" => Fraction(Read)
      /\ at = "exponent" => Exponent(Read)
      /\ at = "power" => Power(Read)
  BY DEF ShapeOfRead
<1>4. CASE ReadDigits
  <2>1. PICK p \in {"integral", "fraction", "power"} :
          at = p /\ current < Len(text) /\ d = "digit" /\ Take(p)
    BY <1>4 DEF ReadDigits, Sees
  <2> HIDE DEF d, more
  <2>2. /\ p = "integral" => Integral(more)
        /\ p = "fraction" => Fraction(more)
        /\ p = "power" => Power(more)
    BY <1>1, <1>3, <2>1, IntegralGrows, FractionGrows, PowerGrows
  <2> QED BY <1>2, <2>1, <2>2 DEF ShapeOfRead
<1>5. CASE ReadPoint
  <2>1. at = "integral" /\ current < Len(text) /\ d = "point" /\ Take("fraction")
    BY <1>5 DEF ReadPoint, Sees
  <2> HIDE DEF d, more
  <2>2. Fraction(more)
    BY <1>1, <1>3, <2>1, IntegralGrows
  <2>3. Read' = more /\ at' = "fraction" /\ AllSpelled'
    BY <1>2, <2>1
  <2> QED BY <2>2, <2>3 DEF ShapeOfRead
<1>6. CASE ReadExponent
  <2>1. /\ at \in {"integral", "fraction"} /\ current < Len(text) /\ d = "exp"
        /\ Take("exponent")
    BY <1>6 DEF ReadExponent, Sees
  <2> HIDE DEF d, more
  <2>2. Exponent(more)
    BY <1>1, <1>3, <2>1, IntegralGrows, FractionGrows
  <2>3. Read' = more /\ at' = "exponent" /\ AllSpelled'
    BY <1>2, <2>1
  <2> QED BY <2>2, <2>3 DEF ShapeOfRead
<1>7. CASE ReadSign
  <2>1. /\ at = "exponent" /\ current < Len(text) /\ d \in {"plus", "minus", "digit"}
        /\ Take("power")
    BY <1>7 DEF ReadSign, Sees
  <2> HIDE DEF d, more
  <2>2. Power(more)
    BY <1>1, <1>3, <2>1, ExponentGrows
  <2>3. Read' = more /\ at' = "power" /\ AllSpelled'
    BY <1>2, <2>1
  <2> QED BY <2>2, <2>3 DEF ShapeOfRead
<1>8. CASE EndNumber
  <2>1. /\ Emit("number", start, current)
        /\ AtEnd \/ current < Len(text)
        /\ current < Len(text) =>
             /\ at = "integral" => d \notin {"digit", "point", "exp"}
             /\ at = "fraction" => d \notin {"digit", "exp"}
             /\ at = "exponent" => d \notin {"plus", "minus", "digit"}
             /\ at = "power" => d # "digit"
    BY <1>0, <1>8 DEF EndNumber, SeesNot, AtEnd
  <2>2. current < Len(text) \/ closed
    BY <2>1 DEF AtEnd
  <2>3. LooksLikeNumber(Read)
    <3>1. Read \in Seq(Character) /\ Append(Read, Rest) \in Seq(Character)
          /\ Extends(Read, Append(Read, Rest), "rest")
      <4>1. Read \in Seq(Character) /\ Rest \in Character /\ Rest.class = "rest"
        BY <1>0, ReadSoFar DEF Character, Rest
      <4> QED BY <4>1, AppendExtends, ClassOfAppend
    <3> QED BY <1>0, <1>3, <3>1, IntegralGrows, FractionGrows, ExponentGrows, PowerGrows
  <2>4. current < Len(text) => ~LooksLikeNumber(more)
    <3> HIDE DEF d, more
    <3> QED BY <1>0, <1>1, <1>3, <2>1, IntegralEnds, FractionEnds, ExponentEnds, PowerEnds
  <2> QED BY <1>0, <2>1, <2>2, <2>3, <2>4, EndSpells, SpellsIs
<1> QED BY <1>4, <1>5, <1>6, <1>7, <1>8

LEMMA StringSpells ==
  ASSUME Inv, ShapeOfRead, AllSpelled, ReadInString \/ EndString
  PROVE  ShapeOfRead' /\ AllSpelled'
<1> DEFINE d == text[current + 1].class
           more == Append(Read, text[current + 1])
<1>0. at \in {"string", "escaped"}
  BY DEF ReadInString, EndString, Sees
<1>1. /\ current < Len(text) => Extends(Read, more, d)
      /\ current < Len(text) => more \in Seq(Character) /\ DOMAIN more = 1 .. Len(more)
      /\ Read \in Seq(Character) /\ DOMAIN Read = 1 .. Len(Read)
  <2>1. /\ Read \in Seq(Character) /\ DOMAIN Read = 1 .. Len(Read)
        /\ current < Len(text) => text[current + 1] \in Character /\ Extends(Read, more, d)
    BY <1>0, ReadSoFar
  <2>2. current < Len(text) => more \in Seq(Character)
    BY <2>1, ClassOfAppend
  <2>3. current < Len(text) => DOMAIN more = 1 .. Len(more)
    <3> HIDE DEF more
    <3> QED BY <2>2, LenProperties
  <2> QED BY <2>1, <2>2, <2>3
<1>2. ASSUME NEW p, current < Len(text), Take(p)
      PROVE  Read' = more /\ at' = p /\ AllSpelled'
  BY <1>0, <1>2, TakeReads
<1>3. PICK e \in BOOLEAN : OpenString(Read, e) /\ e = (at = "escaped")
  <2>1. (at = "escaped") \in BOOLEAN /\ OpenString(Read, at = "escaped")
    BY <1>0 DEF ShapeOfRead, OpenString
  <2> QED BY <2>1
<1>4. CASE ReadInString
  <2>1. /\ current < Len(text)
        /\ \/ at = "string" /\ d \notin {"quote", "backslash"} /\ Take("string")
           \/ at = "string" /\ d = "backslash" /\ Take("escaped")
           \/ at = "escaped" /\ Take("string")
    BY <1>4 DEF ReadInString, Sees
  <2>2. Read' = more /\ AllSpelled' /\ at' \in {"string", "escaped"}
        /\ \/ at = "string" /\ d \notin {"quote", "backslash"} /\ at' = "string"
           \/ at = "string" /\ d = "backslash" /\ at' = "escaped"
           \/ at = "escaped" /\ at' = "string"
    BY <1>2, <2>1
  <2> HIDE DEF d, more
  <2>3. /\ at' = "string" => OpenString(more, FALSE)
        /\ at' = "escaped" => OpenString(more, TRUE)
    BY <1>1, <1>3, <2>1, <2>2, StringGrows
  <2> QED BY <2>2, <2>3 DEF ShapeOfRead
<1>5. CASE EndString
  <2>1. CASE Sees("string", {"quote"}) /\ Emit("string", start, current + 1)
    <3>1. at = "string" /\ current < Len(text) /\ d = "quote"
      BY <2>1 DEF Sees
    <3>2. LooksLikeString(more)
      <4> HIDE DEF d, more
      <4> QED BY <1>1, <1>3, <3>1, StringGrows
    <3> QED BY <1>0, <2>1, <3>1, <3>2, EndSpells, SpellsIs
  <2>2. CASE AtEnd /\ Emit("error", start, current)
    <3>1. Extends(Read, Append(Read, Rest), "rest")
      <4>1. Rest \in Character /\ Rest.class = "rest"
        BY DEF Character, Rest
      <4> QED BY <1>1, <4>1, AppendExtends
    <3>2. ~LooksLikeNumber(Read) /\ ~LooksLikeString(Read) /\ ~LooksLikeComment(Read)
      BY <1>1, <1>3, <3>1, StringGrows
    <3> QED BY <1>0, <2>2, <3>2, EndSpells, SpellsIs
  <2> QED BY <1>5, <2>1, <2>2 DEF EndString
<1> QED BY <1>4, <1>5

LEMMA SlashSpells ==
  ASSUME Inv, ShapeOfRead, AllSpelled, ReadSlash
  PROVE  ShapeOfRead' /\ AllSpelled'
<1> DEFINE d == text[current + 1].class
           more == Append(Read, text[current + 1])
<1>0. at = "slash"
  BY DEF ReadSlash, Sees
<1>1. /\ Read \in Seq(Character) /\ Len(Read) = 1 /\ Class(Read, 1) = "slash"
      /\ Class(Read, 2) = "nothing"
      /\ current < Len(text) => Extends(Read, more, d)
  BY <1>0, ReadSoFar DEF ShapeOfRead, Class
<1>2. ASSUME NEW p, current < Len(text), Take(p)
      PROVE  Read' = more /\ at' = p /\ AllSpelled'
  BY <1>0, <1>2, TakeReads
<1>3. current < Len(text) =>
        /\ Len(more) = 2 /\ Class(more, 1) = "slash" /\ Class(more, 2) = d
  <2> HIDE DEF more, d
  <2> QED BY <1>1 DEF Extends
<1>4. CASE Sees("slash", {"star"}) /\ Take("block")
  <2>1. Read' = more /\ at' = "block" /\ AllSpelled' /\ d = "star" /\ current < Len(text)
    BY <1>2, <1>4 DEF Sees
  <2> HIDE DEF d, more
  <2>2. OpenBlock(more, FALSE) /\ ~(Len(more) >= 3)
    BY <1>3, <2>1 DEF OpenBlock
  <2> QED BY <2>1, <2>2 DEF ShapeOfRead
<1>5. CASE Sees("slash", {"slash"}) /\ Take("line")
  <2>1. Read' = more /\ at' = "line" /\ AllSpelled' /\ d = "slash" /\ current < Len(text)
    BY <1>2, <1>5 DEF Sees
  <2> HIDE DEF d, more
  <2>2. OpenLine(more, FALSE)
    BY <1>3, <2>1 DEF OpenLine
  <2> QED BY <2>1, <2>2 DEF ShapeOfRead
<1>6. CASE current < Len(text) /\ d \notin {"star", "slash"} /\ Emit("error", start, current + 1)
  <2>1. Class(more, 2) \notin {"slash", "star"} /\ Len(more) \in Nat /\ Class(more, 1) = "slash"
    BY <1>3, <1>6
  <2>2. ~LooksLikeNumber(more) /\ ~LooksLikeString(more) /\ ~LooksLikeComment(more)
    <3> HIDE DEF more
    <3> QED BY <2>1, LooksLikeNothing
  <2> QED BY <1>0, <1>6, <2>2, EndSpells, SpellsIs
<1>7. CASE AtEnd /\ Emit("error", start, current)
  <2>1. ~LooksLikeNumber(Read) /\ ~LooksLikeString(Read) /\ ~LooksLikeComment(Read)
    BY <1>1, LooksLikeNothing
  <2> QED BY <1>0, <1>7, <2>1, EndSpells, SpellsIs
<1> QED BY <1>4, <1>5, <1>6, <1>7 DEF ReadSlash

LEMMA BlockSpells ==
  ASSUME Inv, ShapeOfRead, AllSpelled, ReadBlock
  PROVE  ShapeOfRead' /\ AllSpelled'
<1> DEFINE d == text[current + 1].class
           more == Append(Read, text[current + 1])
<1>0. at \in {"block", "star"}
  BY DEF ReadBlock, Sees, SeesNot
<1>1. /\ Read \in Seq(Character) /\ Len(Read) \in Nat
      /\ current < Len(text) => Extends(Read, more, d)
  BY <1>0, ReadSoFar
<1>2. ASSUME NEW p, current < Len(text), Take(p)
      PROVE  Read' = more /\ at' = p /\ AllSpelled'
  BY <1>0, <1>2, TakeReads
<1>3. /\ at = "star" => OpenBlock(Read, TRUE)
      /\ at = "block" => OpenBlock(Read, FALSE)
      /\ at = "block" /\ current < Len(text) =>
           ~(Len(Read) >= 3 /\ Class(Read, Len(Read)) = "star" /\ d = "slash")
  <2>1. current < Len(text) => ~AtEnd
    BY <1>0, ReadSoFar DEF AtEnd
  <2> QED BY <2>1 DEF ShapeOfRead
<1>4. CASE Sees("block", {"star"}) /\ Take("star")
  <2>1. /\ Read' = more /\ at' = "star" /\ AllSpelled' /\ d = "star"
        /\ current < Len(text) /\ at = "block"
    BY <1>2, <1>4 DEF Sees
  <2> HIDE DEF d, more
  <2>2. OpenBlock(more, TRUE)
    BY <1>1, <1>3, <2>1, BlockGrows
  <2> QED BY <2>1, <2>2 DEF ShapeOfRead
<1>5. CASE at = "block" /\ current < Len(text) /\ d # "star" /\ Take("block")
  <2>1. Read' = more /\ at' = "block" /\ AllSpelled'
    BY <1>2, <1>5
  <2> HIDE DEF d, more
  <2>2. OpenBlock(more, FALSE) /\ Class(more, Len(more)) # "star"
    BY <1>1, <1>3, <1>5, BlockGrows DEF Extends
  <2> QED BY <2>1, <2>2 DEF ShapeOfRead
<1>6. CASE Sees("star", {"slash"}) /\ Emit("comment", start, current + 1)
  <2>1. at = "star" /\ current < Len(text) /\ d = "slash"
    BY <1>6 DEF Sees
  <2>2. LooksLikeComment(more)
    <3> HIDE DEF d, more
    <3> QED BY <1>1, <1>3, <2>1, BlockGrows
  <2> QED BY <1>0, <1>6, <2>1, <2>2, EndSpells, SpellsIs
<1>7. CASE SeesNot("star", {"slash"}) /\ Leave("block")
  <2>1. /\ UNCHANGED <<text, closed, current, start, tokens>> /\ at' = "block"
        /\ at = "star" /\ (AtEnd \/ (current < Len(text) /\ d # "slash"))
    BY <1>7 DEF SeesNot, Leave
  <2>2. AllSpelled'
    BY <2>1, StaySpelled
  <2>3. Read' = Read /\ (AtEnd \/ (current < Len(text) /\ d # "slash"))'
    BY <2>1 DEF Read, AtEnd
  <2>4. OpenBlock(Read, FALSE)
    BY <1>3, <2>1 DEF OpenBlock
  <2> QED BY <2>1, <2>2, <2>3, <2>4 DEF ShapeOfRead
<1>8. CASE at = "block" /\ AtEnd /\ Emit("error", start, current)
  <2>1. ~LooksLikeNumber(Read) /\ ~LooksLikeString(Read) /\ ~LooksLikeComment(Read)
    <3>1. Extends(Read, Append(Read, Rest), "rest")
      <4>1. Rest \in Character /\ Rest.class = "rest"
        BY DEF Character, Rest
      <4> QED BY <1>1, <4>1, AppendExtends
    <3> QED BY <1>3, <1>8, <3>1, BlockGrows
  <2> QED BY <1>0, <1>8, <2>1, EndSpells, SpellsIs
<1> QED BY <1>4, <1>5, <1>6, <1>7, <1>8 DEF ReadBlock

LEMMA LineSpells ==
  ASSUME Inv, ShapeOfRead, AllSpelled, ReadLine
  PROVE  ShapeOfRead' /\ AllSpelled'
<1> DEFINE d == text[current + 1].class
           more == Append(Read, text[current + 1])
<1>0. at \in {"line", "return"}
  BY DEF ReadLine, Sees, SeesNot
<1>1. /\ Read \in Seq(Character) /\ Len(Read) \in Nat
      /\ current < Len(text) => Extends(Read, more, d)
  BY <1>0, ReadSoFar
<1>2. ASSUME NEW p, current < Len(text), Take(p)
      PROVE  Read' = more /\ at' = p /\ AllSpelled'
  BY <1>0, <1>2, TakeReads
<1>3. /\ at = "line" => OpenLine(Read, FALSE)
      /\ at = "return" => OpenLine(Read, TRUE)
  BY DEF ShapeOfRead
<1>4. LooksLikeComment(Read)
  <2>1. Extends(Read, Append(Read, Rest), "rest")
    <3>1. Rest \in Character /\ Rest.class = "rest"
      BY DEF Character, Rest
    <3> QED BY <1>1, <3>1, AppendExtends
  <2> QED BY <1>0, <1>3, <2>1, LineGrows
<1>5. CASE /\ Sees("line", {"newline"}) \/ Sees("return", {"newline"})
           /\ Emit("comment", start, current + 1)
  <2>1. current < Len(text) /\ d = "newline"
    BY <1>5 DEF Sees
  <2>2. LooksLikeComment(more)
    <3> HIDE DEF d, more
    <3> QED BY <1>0, <1>1, <1>3, <2>1, LineGrows
  <2> QED BY <1>0, <1>5, <2>1, <2>2, EndSpells, SpellsIs
<1>6. CASE Sees("line", {"return"}) /\ Take("return")
  <2>1. /\ Read' = more /\ at' = "return" /\ AllSpelled' /\ d = "return"
        /\ current < Len(text) /\ at = "line"
    BY <1>2, <1>6 DEF Sees
  <2> HIDE DEF d, more
  <2>2. OpenLine(more, TRUE)
    BY <1>1, <1>3, <2>1, LineGrows
  <2> QED BY <2>1, <2>2 DEF ShapeOfRead
<1>7. CASE SeesNot("line", {"newline", "return"}) /\ ~AtEnd /\ Take("line")
  <2>1. /\ Read' = more /\ at' = "line" /\ AllSpelled' /\ d \notin {"newline", "return"}
        /\ current < Len(text) /\ at = "line"
    BY <1>2, <1>7 DEF SeesNot
  <2> HIDE DEF d, more
  <2>2. OpenLine(more, FALSE)
    BY <1>1, <1>3, <2>1, LineGrows
  <2> QED BY <2>1, <2>2 DEF ShapeOfRead
<1>8. CASE Emit("comment", start, current)
  BY <1>0, <1>4, <1>8, EndSpells, SpellsIs
<1> QED BY <1>5, <1>6, <1>7, <1>8 DEF ReadLine

-----------------------------------------------------------------------------
(***************************************************************************)
(* Every token is what its characters spell, in texts of any length over   *)
(* any characters: readToken ends a string at its first unescaped quote,   *)
(* a comment at its first end that does not overlap its opening and a      *)
(* number only where it must, and what it calls an error is none of them.  *)
(***************************************************************************)
THEOREM LexerReadsWhatIsSpelled == Spec => []TokensAreWhatTheySpell
<1>1. Init => ShapeOfRead /\ AllSpelled
  <2> SUFFICES ASSUME Init PROVE ShapeOfRead /\ AllSpelled
    OBVIOUS
  <2>1. at = "space" /\ DOMAIN tokens = {}
    BY EmptySeq DEF Init
  <2> QED BY <2>1, Zenon DEF ShapeOfRead, AllSpelled
<1>2. Inv /\ ShapeOfRead /\ AllSpelled /\ [Next]_vars => ShapeOfRead' /\ AllSpelled'
  <2> SUFFICES ASSUME Inv, ShapeOfRead, AllSpelled, [Next]_vars
               PROVE  ShapeOfRead' /\ AllSpelled'
    OBVIOUS
  <2>1. CASE UNCHANGED vars
    <3>1. AllSpelled'
      BY <2>1, StaySpelled DEF vars
    <3>2. /\ Read' = Read /\ AtEnd' = AtEnd
          /\ text' = text /\ current' = current /\ start' = start /\ at' = at
      BY <2>1 DEF vars, Read, AtEnd
    <3>3. ShapeOfRead'
      BY <3>2 DEF ShapeOfRead
    <3> QED BY <3>1, <3>3
  <2>2. CASE Close \/ \E c \in Offered : More(c)
    BY <2>2, GivenSpells
  <2>3. CASE Step
    BY <2>3, SingleSpells, BeginShapes, MatchSpells, NumberSpells, StringSpells,
       SlashSpells, BlockSpells, LineSpells
       DEF Step
  <2> QED BY <2>1, <2>2, <2>3 DEF Next
<1>3. AllSpelled => TokensAreWhatTheySpell
  <2> SUFFICES ASSUME AllSpelled, NEW i \in DOMAIN tokens
      PROVE  LET t == tokens[i]
             IN  /\ LooksLike(t)
                 /\ t.type = "number" /\ t.to < Len(text) =>
                      ~LooksLikeNumber(Append(Spelling(t), text[t.to + 1]))
    BY DEF TokensAreWhatTheySpell
  <2>1. Spelled(text, tokens[i])
    BY DEF AllSpelled
  <2> QED BY <2>1 DEF Spelled, Spells, LooksLike, Spelling
<1> QED BY <1>1, <1>2, <1>3, InvHolds, PTL DEF Spec


-----------------------------------------------------------------------------
(***************************************************************************)
(* Recursive functions over the places of a sequence: what holds of a      *)
(* place when it holds of all behind it holds of every place, and a        *)
(* function that is defined from its values behind a place exists.         *)
(***************************************************************************)
LEMMA LeastIs ==
  ASSUME NEW T \in SUBSET Nat, T # {}
  PROVE  \E x \in T : \A y \in T : x <= y
<1> DEFINE R == {ss \in Nat \X Nat : ss[1] < ss[2]}
<1>1. IsWellFoundedOn(R, Nat)
  BY NatLessThanWellFounded, Zenon DEF OpToRel
<1> HIDE DEF R
<1>2. PICK x \in T : \A y \in T : ~(<<y, x>> \in R)
  BY <1>1, WFMin
<1>3. \A y \in T : ~(y < x)
  BY <1>2 DEF R
<1> QED BY <1>3

LEMMA FromTheLast ==
  ASSUME NEW n \in Nat, NEW B,
         \A k \in 1 .. n + 1 : (\A j \in k + 1 .. n + 1 : j \in B) => k \in B
  PROVE  \A k \in 1 .. n + 1 : k \in B
<1> DEFINE T == {m \in 0 .. n : n + 1 - m \notin B}
<1>1. ASSUME T # {} PROVE FALSE
  <2>1. PICK m \in T : \A l \in T : m <= l
    <3>1. T \in SUBSET Nat
      OBVIOUS
    <3> HIDE DEF T
    <3> QED BY <1>1, <3>1, LeastIs
  <2>2. m \in 0 .. n /\ n + 1 - m \in 1 .. n + 1 /\ n + 1 - m \notin B
    BY <2>1
  <2>3. ASSUME NEW j \in (n + 1 - m) + 1 .. n + 1 PROVE j \in B
    <3>1. n + 1 - j \in 0 .. n /\ n + 1 - j < m /\ n + 1 - (n + 1 - j) = j
      BY <2>2
    <3>2. n + 1 - j \notin T
      BY <2>1, <2>2, <3>1
    <3> QED BY <3>1, <3>2
  <2> QED BY <2>2, <2>3
<1>2. ASSUME NEW k \in 1 .. n + 1 PROVE k \in B
  <2>1. n + 1 - k \in 0 .. n /\ n + 1 - (n + 1 - k) = k
    OBVIOUS
  <2> QED BY <1>1, <2>1
<1> QED BY <1>2

\* A place looks only behind itself.
LooksBehind(F, n, S) ==
  \A i \in 1 .. n, g \in [1 .. n + 1 -> S], h \in [1 .. n + 1 -> S] :
    (\A j \in i + 1 .. n + 1 : g[j] = h[j]) => F[i][g] = F[i][h]

\* The values that places have from those behind them, z behind the last.
FromBehind(F, n, S, z) ==
  {g \in [1 .. n + 1 -> S] : g[n + 1] = z /\ \A i \in 1 .. n : g[i] = F[i][g]}

Backward(n, S) == {F \in [1 .. n -> [[1 .. n + 1 -> S] -> S]] : LooksBehind(F, n, S)}

LEMMA BackwardExists ==
  ASSUME NEW n \in Nat, NEW S, NEW z \in S, NEW F \in Backward(n, S)
  PROVE  FromBehind(F, n, S, z) # {}
<1>0. F \in [1 .. n -> [[1 .. n + 1 -> S] -> S]] /\ LooksBehind(F, n, S)
  BY DEF Backward
<1> DEFINE G == [1 .. n + 1 -> S]
           B == {k \in 1 .. n + 1 :
                   \E g \in G : g[n + 1] = z /\ \A i \in k .. n : g[i] = F[i][g]}
<1>1. ASSUME NEW k \in 1 .. n + 1, \A j \in k + 1 .. n + 1 : j \in B
      PROVE  k \in B
  <2>1. CASE k = n + 1
    <3> DEFINE g == [i \in 1 .. n + 1 |-> z]
    <3>1. g \in G /\ g[n + 1] = z
      OBVIOUS
    <3>2. \A i \in k .. n : g[i] = F[i][g]
      BY <2>1
    <3> HIDE DEF g, G
    <3> QED BY <3>1, <3>2
  <2>2. CASE k < n + 1
    <3>0. k \in 1 .. n /\ k + 1 \in k + 1 .. n + 1
      BY <2>2
    <3>1. k + 1 \in B /\ k \in 1 .. n
      <4> HIDE DEF B
      <4> QED BY <1>1, <3>0
    <3>2. PICK g \in G : g[n + 1] = z /\ \A i \in k + 1 .. n : g[i] = F[i][g]
      BY <3>1
    <3> DEFINE v == F[k][g]
               h == [g EXCEPT ![k] = v]
    <3>3. v \in S
      BY <1>0, <3>1
    <3>4. h \in G /\ h[k] = v /\ \A j \in 1 .. n + 1 : j # k => h[j] = g[j]
      BY <3>1, <3>3
    <3> HIDE DEF h
    <3>5. ASSUME NEW i \in k .. n PROVE h[i] = F[i][h]
      <4>1. i \in 1 .. n /\ \A j \in i + 1 .. n + 1 : j \in 1 .. n + 1 /\ j # k
        BY <3>1
      <4>2. F[i][g] = F[i][h]
        <5>1. \A j \in i + 1 .. n + 1 : g[j] = h[j]
          BY <3>4, <4>1
        <5> QED BY <1>0, <3>4, <4>1, <5>1 DEF LooksBehind
      <4>3. CASE i = k
        BY <3>4, <4>2, <4>3
      <4>4. CASE i # k
        <5>1. i \in k + 1 .. n
          BY <3>1, <4>4
        <5>2. h[i] = g[i] /\ g[i] = F[i][g]
          BY <3>2, <3>4, <4>1, <4>4, <5>1
        <5> QED BY <4>2, <5>2
      <4> QED BY <4>3, <4>4
    <3>6. h[n + 1] = z
      BY <3>1, <3>2, <3>4
    <3> QED BY <3>4, <3>5, <3>6
  <2> QED BY <2>1, <2>2
<1>2. 1 \in B
  <2> HIDE DEF B
  <2>1. 1 \in 1 .. n + 1
    OBVIOUS
  <2> QED BY <1>1, <2>1, FromTheLast
<1> QED BY <1>2 DEF FromBehind


LEMMA LettersAre ==
  /\ DOMAIN Letter = {8, 9, 10, 12, 13, 34, 92}
  /\ DOMAIN Escaped = {34, 47, 92, 98, 102, 110, 114, 116}
  /\ \A b \in DOMAIN Letter : Letter[b] \in DOMAIN Escaped /\ Escaped[Letter[b]] = b
<1>1. DOMAIN Letter = {8, 9, 10, 12, 13, 34, 92}
  BY DEF Letter, QUOTE, BACKSLASH
<1>2. DOMAIN Escaped = {34, 47, 92, 98, 102, 110, 114, 116}
  BY DEF Escaped, QUOTE, SLASH, BACKSLASH
<1> QED BY <1>1, <1>2 DEF Escaped, Letter, QUOTE, SLASH, BACKSLASH

-----------------------------------------------------------------------------
(***************************************************************************)
(* decodeString, as a function of the place at which it goes on.           *)
(***************************************************************************)
\* Sixteen bits.
IsUnit(u) == u = Bad \/ (u \in Nat /\ u < 65536)

Readable(s) ==
  /\ Len(s) \in Nat /\ DOMAIN s = 1 .. Len(s)
  /\ \A i \in DOMAIN s : s[i].class = "unicode" => IsUnit(s[i].unit)

Byte == 0 .. 255

Bytes(s) == Byte \cup {s[i].byte : i \in DOMAIN s}

Results(V) == {Refused} \cup {Decoded(b) : b \in Seq(V)}

Reads(s, g, i) ==
  CASE i = Len(s) + 1 -> Decoded(<< >>)
    [] i <= Len(s) /\ s[i].class = "quote" -> Decoded(<< >>)
    [] i <= Len(s) /\ s[i].class = "backslash" ->
         IF i = Len(s) THEN Refused
         ELSE IF s[i + 1].class = "unicode"
         THEN LET cp == CodePointAt(s, i + 1)
              IN  IF cp.ok THEN Prepend(UTF8(cp.point), g[i + 1 + cp.length])
                  ELSE Refused
         ELSE IF s[i + 1].byte \in DOMAIN Escaped
         THEN Prepend(<<Escaped[s[i + 1].byte]>>, g[i + 2])
         ELSE Refused
    [] OTHER -> Prepend(<<s[i].byte>>, g[i + 1])

LEMMA UnitIs ==
  ASSUME NEW s, Readable(s), NEW i \in Nat
  PROVE  /\ IsUnit(UnitAt(s, i))
         /\ UnitAt(s, i) # Bad => i \in 1 .. Len(s)
<1>1. DOMAIN s = 1 .. Len(s)
  BY DEF Readable
<1> QED BY <1>1 DEF UnitAt, Readable, IsUnit

\* What UTF-16 can spell.
Point == {p \in Nat : p < 1114112}

LEMMA CodePointIs ==
  ASSUME NEW s, Readable(s), NEW i \in 1 .. Len(s), NEW cp, cp = CodePointAt(s, i)
  PROVE  /\ cp.ok \in BOOLEAN
         /\ cp.ok => /\ cp.length \in {1, 3} /\ i + cp.length <= Len(s) + 1
                     /\ cp.point \in Point
<1> DEFINE u == UnitAt(s, i)
           second == IF i + 1 \in DOMAIN s /\ s[i + 1] = Raw(BACKSLASH)
                     THEN UnitAt(s, i + 2) ELSE Bad
<1>0. Len(s) \in Nat
  BY DEF Readable
<1>1. cp = CASE u = Bad \/ (IsHighSurrogate(u) /\ second = Bad) -> Refused
             [] u # Bad /\ ~IsHighSurrogate(u) -> [ok |-> TRUE, length |-> 1, point |-> u]
             [] OTHER -> [ok |-> TRUE, length |-> 3,
                          point |-> 65536 + (u % 1024) * 1024 + (second % 1024)]
  BY DEF CodePointAt
<1>2. IsUnit(u)
  BY UnitIs
<1>3. IsUnit(second) /\ (second # Bad => i + 2 <= Len(s))
  BY <1>0, UnitIs DEF IsUnit
<1> HIDE DEF u, second
<1>4. CASE u = Bad \/ (IsHighSurrogate(u) /\ second = Bad)
  <2>1. cp = Refused
    BY <1>1, <1>4
  <2> QED BY <2>1 DEF Refused
<1>5. CASE u # Bad /\ ~IsHighSurrogate(u)
  <2>1. cp = [ok |-> TRUE, length |-> 1, point |-> u]
    BY <1>1, <1>5
  <2>2. u \in Point
    BY <1>2, <1>5 DEF IsUnit, Point
  <2> QED BY <1>0, <2>1, <2>2
<1>6. CASE u # Bad /\ IsHighSurrogate(u) /\ second # Bad
  <2> DEFINE p == 65536 + (u % 1024) * 1024 + (second % 1024)
  <2>1. cp = [ok |-> TRUE, length |-> 3, point |-> p]
    BY <1>1, <1>6
  <2>2. p \in Point
    <3>1. u \in Nat /\ second \in Nat
      BY <1>2, <1>3, <1>6 DEF IsUnit
    <3>2. /\ u % 1024 \in Nat /\ u % 1024 < 1024
          /\ second % 1024 \in Nat /\ second % 1024 < 1024
      BY <3>1
    <3> QED BY <3>1, <3>2 DEF Point
  <2> HIDE DEF p
  <2> QED BY <1>0, <1>3, <1>6, <2>1, <2>2
<1> QED BY <1>4, <1>5, <1>6

LEMMA UTF8Bytes ==
  ASSUME NEW cp \in Point
  PROVE  UTF8(cp) \in Seq(Byte)
<1>0. cp \in Nat /\ cp < 1114112
  BY SMT DEF Point
<1>1. CASE cp <= 127
  <2>1. UTF8(cp) = <<cp>>
    BY <1>0, <1>1 DEF UTF8
  <2>2. cp \in Byte
    BY <1>0, <1>1 DEF Byte
  <2> QED BY <2>1, <2>2
<1>2. CASE 127 < cp /\ cp <= 2047
  <2>1. UTF8(cp) = <<192 + (cp \div 64), 128 + (cp % 64)>>
    BY <1>0, <1>2 DEF UTF8
  <2>2. 192 + (cp \div 64) \in Byte /\ 128 + (cp % 64) \in Byte
    BY <1>0, <1>2 DEF Byte
  <2> QED BY <2>1, <2>2
<1>3. CASE 2047 < cp /\ cp <= 65535
  <2>1. UTF8(cp) = <<224 + (cp \div 4096), 128 + ((cp \div 64) % 64), 128 + (cp % 64)>>
    BY <1>0, <1>3 DEF UTF8
  <2>2. /\ 224 + (cp \div 4096) \in Byte /\ 128 + ((cp \div 64) % 64) \in Byte
        /\ 128 + (cp % 64) \in Byte
    BY <1>0, <1>3 DEF Byte
  <2> QED BY <2>1, <2>2
<1>4. CASE 65535 < cp
  <2>1. UTF8(cp) = <<240 + (cp \div 262144), 128 + ((cp \div 4096) % 64),
                     128 + ((cp \div 64) % 64), 128 + (cp % 64)>>
    BY <1>0, <1>4 DEF UTF8
  <2>2. /\ 240 + (cp \div 262144) \in Byte /\ 128 + ((cp \div 4096) % 64) \in Byte
        /\ 128 + ((cp \div 64) % 64) \in Byte /\ 128 + (cp % 64) \in Byte
    BY <1>0, <1>4 DEF Byte
  <2> QED BY <2>1, <2>2
<1> QED BY <1>0, <1>1, <1>2, <1>3, <1>4

LEMMA ResultsAre ==
  ASSUME NEW V
  PROVE  /\ Refused \in Results(V) /\ Decoded(<< >>) \in Results(V)
         /\ \A b \in Seq(V) : Decoded(b) \in Results(V)
<1>1. << >> \in Seq(V)
  BY EmptySeq
<1> QED BY <1>1 DEF Results

LEMMA PrependIs ==
  ASSUME NEW V, NEW b \in Seq(V), NEW d \in Results(V)
  PROVE  Prepend(b, d) \in Results(V)
<1>1. CASE d = Refused
  BY <1>1 DEF Prepend, Refused, Results
<1>2. ASSUME NEW c \in Seq(V), d = Decoded(c)
      PROVE  Prepend(b, d) \in Results(V)
  <2>1. b \o c \in Seq(V)
    BY ConcatProperties
  <2>2. Prepend(b, d) = Decoded(b \o c)
    BY <1>2 DEF Prepend, Decoded
  <2> QED BY <2>1, <2>2 DEF Results
<1> QED BY <1>1, <1>2 DEF Results

LEMMA ReadsIs ==
  ASSUME NEW s, Readable(s), NEW i \in 1 .. Len(s) + 1,
         NEW g, \A j \in i + 1 .. Len(s) + 1 : g[j] \in Results(Bytes(s))
  PROVE  /\ Reads(s, g, i) \in Results(Bytes(s))
         /\ \A h : (\A j \in i + 1 .. Len(s) + 1 : h[j] = g[j])
                     => Reads(s, h, i) = Reads(s, g, i)
<1> DEFINE V == Bytes(s)
           n == Len(s)
<1>0. n \in Nat /\ DOMAIN s = 1 .. n
  BY DEF Readable
<1>1. Decoded(<< >>) \in Results(V) /\ Refused \in Results(V)
  BY ResultsAre
<1>V. Byte \subseteq V /\ \A j \in DOMAIN s : s[j].byte \in V
  BY DEF Bytes
<1>g. \A j \in i + 1 .. n + 1 : g[j] \in Results(V)
  OBVIOUS
<1> SUFFICES /\ Reads(s, g, i) \in Results(V)
             /\ \A h : (\A j \in i + 1 .. n + 1 : h[j] = g[j])
                         => Reads(s, h, i) = Reads(s, g, i)
  OBVIOUS
<1> HIDE DEF V
<1>2. CASE i = n + 1
  <2>1. i = Len(s) + 1 /\ ~(i <= Len(s))
    BY <1>0, <1>2
  <2>2. \A h : Reads(s, h, i) = Decoded(<< >>)
    BY <2>1 DEF Reads
  <2> QED BY <1>1, <2>2
<1>3. CASE i <= n /\ s[i].class = "quote"
  BY <1>0, <1>1, <1>3 DEF Reads
<1>4. CASE i <= n /\ s[i].class = "backslash" /\ i = n
  BY <1>0, <1>1, <1>4 DEF Reads
<1>5. CASE i < n /\ s[i].class = "backslash" /\ s[i + 1].class = "unicode"
  <2> DEFINE cp == CodePointAt(s, i + 1)
  <2>1. \A h : Reads(s, h, i)
                 = IF cp.ok THEN Prepend(UTF8(cp.point), h[i + 1 + cp.length]) ELSE Refused
    BY <1>0, <1>5 DEF Reads
  <2>2. /\ cp.ok \in BOOLEAN
        /\ cp.ok => /\ cp.length \in {1, 3} /\ i + 1 + cp.length <= n + 1
                    /\ cp.point \in Point
    <3>1. i + 1 \in 1 .. Len(s)
      BY <1>0, <1>5
    <3> QED BY <3>1, CodePointIs
  <2> HIDE DEF cp
  <2>3. cp.ok => UTF8(cp.point) \in Seq(V)
    <3>1. cp.ok => UTF8(cp.point) \in Seq(Byte)
      BY <2>2, UTF8Bytes
    <3>2. Seq(Byte) \subseteq Seq(V)
      BY <1>V, SeqMonotonic
    <3> QED BY <3>1, <3>2
  <2>4. cp.ok => i + 1 + cp.length \in i + 1 .. n + 1
    BY <1>0, <2>2
  <2>5. cp.ok => Prepend(UTF8(cp.point), g[i + 1 + cp.length]) \in Results(V)
    BY <1>g, <2>3, <2>4, PrependIs
  <2> QED BY <1>1, <2>1, <2>2, <2>4, <2>5
<1>6. CASE i < n /\ s[i].class = "backslash" /\ s[i + 1].class # "unicode"
  <2> DEFINE b == s[i + 1].byte
  <2>1. \A h : Reads(s, h, i)
                 = IF b \in DOMAIN Escaped THEN Prepend(<<Escaped[b]>>, h[i + 2]) ELSE Refused
    BY <1>0, <1>6 DEF Reads
  <2>2. i + 2 \in i + 1 .. n + 1
    BY <1>0, <1>6
  <2> HIDE DEF b
  <2>3. b \in DOMAIN Escaped => <<Escaped[b]>> \in Seq(V)
    <3>1. b \in DOMAIN Escaped => Escaped[b] \in Byte
      BY DEF Escaped, QUOTE, SLASH, BACKSLASH, Byte
    <3>2. b \in DOMAIN Escaped => Escaped[b] \in V
      BY <1>V, <3>1
    <3> QED BY <3>2
  <2>4. b \in DOMAIN Escaped => Prepend(<<Escaped[b]>>, g[i + 2]) \in Results(V)
    BY <1>g, <2>2, <2>3, PrependIs
  <2> QED BY <1>1, <2>1, <2>2, <2>4
<1>7. CASE i <= n /\ s[i].class \notin {"quote", "backslash"}
  <2>1. \A h : Reads(s, h, i) = Prepend(<<s[i].byte>>, h[i + 1])
    BY <1>0, <1>7 DEF Reads
  <2>2. i + 1 \in i + 1 .. n + 1
    BY <1>0, <1>7
  <2>3. <<s[i].byte>> \in Seq(V)
    <3>1. s[i].byte \in V
      BY <1>0, <1>V, <1>7
    <3> QED BY <3>1
  <2>4. Prepend(<<s[i].byte>>, g[i + 1]) \in Results(V)
    BY <1>g, <2>2, <2>3, PrependIs
  <2> QED BY <2>1, <2>2, <2>4
<1>8. i = n + 1 \/ i = n \/ i < n
  <2>1. i \in 1 .. n + 1
    OBVIOUS
  <2> HIDE DEF n
  <2> QED BY <1>0, <2>1
<1> HIDE DEF n
<1> QED BY <1>0, <1>2, <1>3, <1>4, <1>5, <1>6, <1>7, <1>8

\* decodeString goes on from place to place, and gives bytes if it gives anything.
LEMMA DecodeIs ==
  ASSUME NEW s, Readable(s)
  PROVE  \E g \in [1 .. Len(s) + 1 -> Results(Bytes(s))] :
           DecodeString(s) = g[1] /\ \A i \in 1 .. Len(s) + 1 : g[i] = Reads(s, g, i)
<1> DEFINE n == Len(s)
           R == Results(Bytes(s))
           F == [i \in 1 .. n |-> [g \in [1 .. n + 1 -> R] |-> Reads(s, g, i)]]
           is(g) == g = [i \in 1 .. n + 1 |-> Reads(s, g, i)]
           from == CHOOSE g : is(g)
<1>0. n \in Nat
  BY DEF Readable
<1>1. DecodeString(s) = from[1]
  BY DEF DecodeString, Reads
<1> HIDE DEF from
<1>2. \E g : is(g)
  <2>1. F \in [1 .. n -> [[1 .. n + 1 -> R] -> R]]
    <3>1. ASSUME NEW i \in 1 .. n, NEW g \in [1 .. n + 1 -> R] PROVE Reads(s, g, i) \in R
      <4>1. i \in 1 .. Len(s) + 1 /\ \A j \in i + 1 .. Len(s) + 1 : g[j] \in R
        BY <1>0
      <4> QED BY <4>1, ReadsIs
    <3> QED BY <3>1
  <2>2. LooksBehind(F, n, R)
    <3>1. ASSUME NEW i \in 1 .. n, NEW g \in [1 .. n + 1 -> R], NEW h \in [1 .. n + 1 -> R],
                 \A j \in i + 1 .. n + 1 : g[j] = h[j]
          PROVE  F[i][g] = F[i][h]
      <4>1. i \in 1 .. Len(s) + 1 /\ \A j \in i + 1 .. Len(s) + 1 : g[j] \in R
        BY <1>0
      <4>2. Reads(s, h, i) = Reads(s, g, i)
        BY <3>1, <4>1, ReadsIs
      <4> QED BY <4>2
    <3> HIDE DEF F
    <3> QED BY <3>1 DEF LooksBehind
  <2>3. Decoded(<< >>) \in R
    BY ResultsAre
  <2>4. \A i \in 1 .. n, g \in [1 .. n + 1 -> R] : F[i][g] = Reads(s, g, i)
    OBVIOUS
  <2> HIDE DEF F
  <2>5. PICK g \in [1 .. n + 1 -> R] :
          g[n + 1] = Decoded(<< >>) /\ \A i \in 1 .. n : g[i] = F[i][g]
    <3> DEFINE z == Decoded(<< >>)
    <3>1. z \in R
      BY <2>3
    <3> HIDE DEF R, n, z
    <3>2. F \in Backward(n, R)
      BY <2>1, <2>2 DEF Backward
    <3>3. FromBehind(F, n, R, z) # {}
      BY <1>0, <3>1, <3>2, BackwardExists
    <3> USE DEF z
    <3> QED BY <3>3 DEF FromBehind
  <2>6. Reads(s, g, n + 1) = Decoded(<< >>)
    BY <1>0 DEF Reads
  <2>7. \A i \in 1 .. n + 1 : g[i] = Reads(s, g, i)
    BY <1>0, <2>4, <2>5, <2>6
  <2>8. g = [i \in 1 .. n + 1 |-> Reads(s, g, i)]
    BY <2>7
  <2> QED BY <2>8
<1>3. is(from)
  <2> HIDE DEF is
  <2> QED BY <1>2 DEF from
<1>4. DOMAIN from = 1 .. n + 1 /\ \A i \in 1 .. n + 1 : from[i] = Reads(s, from, i)
  BY <1>3
<1>5. from = [i \in 1 .. n + 1 |-> from[i]]
  BY <1>3
<1> HIDE DEF is
<1>6. \A i \in 1 .. n + 1 : from[i] \in R
  <2> DEFINE B == {i \in 1 .. n + 1 : from[i] \in R}
  <2>1. ASSUME NEW k \in 1 .. n + 1, \A j \in k + 1 .. n + 1 : j \in B
        PROVE  k \in B
    <3>1. \A j \in k + 1 .. n + 1 : from[j] \in R
      BY <2>1
    <3>2. Reads(s, from, k) \in R
      BY <3>1, ReadsIs
    <3> QED BY <1>4, <3>2
  <2>2. \A k \in 1 .. n + 1 : k \in B
    <3> HIDE DEF B
    <3> QED BY <1>0, <2>1, FromTheLast
  <2> QED BY <2>2
<1>7. from \in [1 .. n + 1 -> R]
  BY <1>5, <1>6
<1> QED BY <1>1, <1>4, <1>7
-----------------------------------------------------------------------------
(***************************************************************************)
(* What is quoted is read back.                                            *)
(***************************************************************************)
LEMMA ClassIs ==
  ASSUME NEW b
  PROVE  /\ ClassOf(b) # "unicode"
         /\ ClassOf(b) = "quote" => b = 34
         /\ ClassOf(b) = "backslash" <=> b = 92
BY DEF ClassOf

LEMMA RawIs ==
  ASSUME NEW b
  PROVE  Raw(b).class = ClassOf(b) /\ Raw(b).byte = b
BY DEF Raw

LEMMA UnicodeIs ==
  ASSUME NEW u
  PROVE  Unicode(u).class = "unicode" /\ Unicode(u).unit = u
BY DEF Unicode

LEMMA UTF8One ==
  ASSUME NEW cp \in Nat, cp <= 127
  PROVE  UTF8(cp) = <<cp>>
BY DEF UTF8

LEMMA CodePointOne ==
  ASSUME NEW s, NEW i, NEW u, UnitAt(s, i) = u, u # Bad, ~IsHighSurrogate(u)
  PROVE  CodePointAt(s, i) = [ok |-> TRUE, length |-> 1, point |-> u]
BY DEF CodePointAt

\* What QuotedByte writes for a byte.
LEMMA QuotedByteIs ==
  ASSUME NEW b
  PROVE  \/ /\ b \in DOMAIN Letter
            /\ QuotedByte(b) = <<Raw(BACKSLASH), Raw(Letter[b])>>
         \/ /\ b \in 0 .. 31
            /\ QuotedByte(b) = <<Raw(BACKSLASH), Unicode(b)>>
         \/ /\ b # 34 /\ b # 92
            /\ QuotedByte(b) = <<Raw(b)>>
<1>1. CASE b \in DOMAIN Letter
  BY <1>1 DEF QuotedByte
<1>2. CASE b \notin DOMAIN Letter /\ (IsControlCharacter(b) \/ b = 0)
  <2>1. b \in 0 .. 31
    BY <1>2 DEF IsControlCharacter
  <2> QED BY <1>2, <2>1 DEF QuotedByte
<1>3. CASE b \notin DOMAIN Letter /\ ~(IsControlCharacter(b) \/ b = 0)
  <2>1. b # 34 /\ b # 92
    BY <1>3, LettersAre
  <2> QED BY <1>3, <2>1 DEF QuotedByte
<1> QED BY <1>1, <1>2, <1>3

\* Places of s are read as from says.
ReadFrom(s, from) == \A i \in 1 .. Len(s) + 1 : from[i] = Reads(s, from, i)

\* The characters q follow place m of s.
StandsBehind(s, m, q) ==
  m + Len(q) <= Len(s) /\ \A p \in 1 .. Len(q) : s[m + p] = q[p]

\* Behind place m the bytes w are decoded.
GoesOn(from, m, w) == from[m + 1] = Decoded(w)

LEMMA QuotedByteRead ==
  ASSUME NEW s, Readable(s), NEW from, ReadFrom(s, from),
         NEW m \in Nat, NEW b, NEW c,
         StandsBehind(s, m, QuotedByte(b)),
         GoesOn(from, m + Len(QuotedByte(b)), c)
  PROVE  GoesOn(from, m, <<b>> \o c)
<1> DEFINE q == QuotedByte(b)
<1>0. Len(s) \in Nat /\ DOMAIN s = 1 .. Len(s)
  BY DEF Readable
<1>P. \A w : Prepend(w, Decoded(c)) = Decoded(w \o c)
  BY DEF Prepend, Decoded
<1>S. m + Len(q) <= Len(s) /\ \A p \in 1 .. Len(q) : s[m + p] = q[p]
  BY DEF StandsBehind
<1>T. from[m + Len(q) + 1] = Decoded(c)
  BY DEF GoesOn
<1> SUFFICES from[m + 1] = Decoded(<<b>> \o c)
  BY DEF GoesOn
<1>R. m + 1 <= Len(s) => from[m + 1] = Reads(s, from, m + 1)
  BY <1>0 DEF ReadFrom
<1>B. Raw(BACKSLASH).class = "backslash"
  BY RawIs, ClassIs DEF BACKSLASH
<1>1. CASE b \in DOMAIN Letter /\ q = <<Raw(BACKSLASH), Raw(Letter[b])>>
  <2>1. Len(q) = 2 /\ q[1] = Raw(BACKSLASH) /\ q[2] = Raw(Letter[b])
    BY <1>1
  <2>2. /\ m + 2 <= Len(s) /\ s[m + 1] = Raw(BACKSLASH) /\ s[m + 1 + 1] = Raw(Letter[b])
        /\ from[m + 1 + 2] = Decoded(c)
    BY <1>S, <1>T, <2>1, 1 \in 1 .. 2, 2 \in 1 .. 2
  <2>3. s[m + 1 + 1].class # "unicode" /\ s[m + 1 + 1].byte = Letter[b]
    BY <2>2, RawIs, ClassIs
  <2>4. Letter[b] \in DOMAIN Escaped /\ Escaped[Letter[b]] = b
    BY <1>1, LettersAre
  <2>5. m + 1 <= Len(s) /\ m + 1 # Len(s) /\ m + 1 # Len(s) + 1
    <3>1. m + 2 <= Len(s) /\ Len(s) \in Nat
      BY <1>0, <2>2
    <3>2. m + 1 < Len(s)
      BY <3>1
    <3> QED BY <3>1, <3>2
  <2>6. s[m + 1].class = "backslash" /\ s[m + 1].class # "quote"
    BY <1>B, <2>2
  <2>7. Reads(s, from, m + 1) = Prepend(<<b>>, from[m + 1 + 2])
    BY <2>3, <2>4, <2>5, <2>6 DEF Reads
  <2> QED BY <1>P, <1>R, <2>2, <2>5, <2>7
<1>2. CASE b \in 0 .. 31 /\ q = <<Raw(BACKSLASH), Unicode(b)>>
  <2>1. Len(q) = 2 /\ q[1] = Raw(BACKSLASH) /\ q[2] = Unicode(b)
    BY <1>2
  <2>2. /\ m + 2 <= Len(s) /\ s[m + 1] = Raw(BACKSLASH) /\ s[m + 1 + 1] = Unicode(b)
        /\ from[m + 1 + 2] = Decoded(c)
    BY <1>S, <1>T, <2>1, 1 \in 1 .. 2, 2 \in 1 .. 2
  <2>3. s[m + 1 + 1].class = "unicode" /\ s[m + 1 + 1].unit = b
    BY <2>2, UnicodeIs
  <2>4. UnitAt(s, m + 1 + 1) = b
    <3>1. m + 1 + 1 \in DOMAIN s
      BY <1>0, <2>2
    <3> QED BY <2>3, <3>1 DEF UnitAt
  <2>5. CodePointAt(s, m + 1 + 1) = [ok |-> TRUE, length |-> 1, point |-> b]
    <3>1. b # Bad /\ ~IsHighSurrogate(b)
      BY <1>2, BadUnitAssumption DEF IsHighSurrogate
    <3> QED BY <2>4, <3>1, CodePointOne
  <2>6. UTF8(b) = <<b>>
    <3>1. b \in Nat /\ b <= 127
      BY <1>2
    <3> QED BY <3>1, UTF8One
  <2>7. m + 1 <= Len(s) /\ m + 1 # Len(s) /\ m + 1 # Len(s) + 1
    <3>1. m + 2 <= Len(s) /\ Len(s) \in Nat
      BY <1>0, <2>2
    <3>2. m + 1 < Len(s)
      BY <3>1
    <3> QED BY <3>1, <3>2
  <2>8. s[m + 1].class = "backslash" /\ s[m + 1].class # "quote"
    BY <1>B, <2>2
  <2>9. Reads(s, from, m + 1) = Prepend(<<b>>, from[m + 1 + 2])
    <3> DEFINE cp == CodePointAt(s, m + 1 + 1)
    <3>1. Reads(s, from, m + 1)
            = IF cp.ok THEN Prepend(UTF8(cp.point), from[m + 1 + 1 + cp.length]) ELSE Refused
      BY <2>3, <2>7, <2>8 DEF Reads
    <3>2. cp.ok /\ cp.point = b /\ cp.length = 1
      BY <2>5
    <3> HIDE DEF cp
    <3>3. m + 1 + 1 + cp.length = m + 1 + 2
      BY <3>2
    <3> QED BY <2>6, <3>1, <3>2, <3>3
  <2> QED BY <1>P, <1>R, <2>2, <2>7, <2>9
<1>3. CASE b # 34 /\ b # 92 /\ q = <<Raw(b)>>
  <2>1. Len(q) = 1 /\ q[1] = Raw(b)
    BY <1>3
  <2>2. m + 1 <= Len(s) /\ s[m + 1] = Raw(b) /\ from[m + 1 + 1] = Decoded(c)
    BY <1>S, <1>T, <2>1, 1 \in 1 .. 1
  <2>3. /\ s[m + 1].class # "quote" /\ s[m + 1].class # "backslash"
        /\ s[m + 1].byte = b
    BY <1>3, <2>2, RawIs, ClassIs
  <2>4. m + 1 # Len(s) + 1
    BY <1>0, <2>2
  <2>5. Reads(s, from, m + 1) = Prepend(<<b>>, from[m + 1 + 1])
    BY <2>2, <2>3, <2>4 DEF Reads
  <2> QED BY <1>P, <1>R, <2>2, <2>5
<1> QED BY <1>1, <1>2, <1>3, QuotedByteIs

(***************************************************************************)
(* Sequences that are joined to one: Q[1] \o ... \o Q[n].                  *)
(***************************************************************************)
LEMMA FromTheFirst ==
  ASSUME NEW n \in Nat, NEW B,
         \A k \in 0 .. n : (\A j \in 0 .. k - 1 : j \in B) => k \in B
  PROVE  \A k \in 0 .. n : k \in B
<1> DEFINE T == {m \in 0 .. n : m \notin B}
<1>1. ASSUME T # {} PROVE FALSE
  <2>1. PICK m \in T : \A l \in T : m <= l
    <3>1. T \in SUBSET Nat
      OBVIOUS
    <3> HIDE DEF T
    <3> QED BY <1>1, <3>1, LeastIs
  <2>2. m \in 0 .. n /\ m \notin B
    BY <2>1
  <2>3. ASSUME NEW j \in 0 .. m - 1 PROVE j \in B
    <3>1. j \in 0 .. n /\ j < m
      BY <2>2
    <3>2. j \notin T
      BY <2>1, <2>2, <3>1
    <3> QED BY <3>1, <3>2
  <2> QED BY <2>2, <2>3
<1> QED BY <1>1

Joined(g, Q, n) == g[0] = << >> /\ \A i \in 1 .. n : g[i] = g[i - 1] \o Q[i]

LEMMA JoinedExists ==
  ASSUME NEW n \in Nat, NEW C, NEW Q \in [1 .. n -> Seq(C)]
  PROVE  \E g \in [0 .. n -> Seq(C)] : Joined(g, Q, n)
<1> DEFINE G == [0 .. n -> Seq(C)]
           B == {k \in 0 .. n : \E g \in G : Joined(g, Q, k)}
<1>1. ASSUME NEW k \in 0 .. n, \A j \in 0 .. k - 1 : j \in B
      PROVE  k \in B
  <2>1. CASE k = 0
    <3> DEFINE g == [i \in 0 .. n |-> << >>]
    <3>1. g \in G
      BY EmptySeq
    <3>2. Joined(g, Q, 0)
      BY DEF Joined
    <3> HIDE DEF g, G
    <3> QED BY <2>1, <3>1, <3>2
  <2>2. CASE k > 0
    <3>0. k \in 1 .. n /\ k - 1 \in 0 .. k - 1
      BY <2>2
    <3>1. k - 1 \in B
      <4> HIDE DEF B
      <4> QED BY <1>1, <3>0
    <3>2. PICK g \in G : Joined(g, Q, k - 1)
      BY <3>1
    <3> DEFINE v == g[k - 1] \o Q[k]
               h == [g EXCEPT ![k] = v]
    <3>3. v \in Seq(C)
      <4>1. g[k - 1] \in Seq(C) /\ Q[k] \in Seq(C)
        BY <3>0
      <4> QED BY <4>1, ConcatProperties
    <3>4. h \in G /\ h[k] = v /\ \A j \in 0 .. n : j # k => h[j] = g[j]
      BY <3>0, <3>3
    <3> HIDE DEF h
    <3>5. h[0] = << >>
      BY <3>0, <3>2, <3>4 DEF Joined
    <3>6. ASSUME NEW i \in 1 .. k PROVE h[i] = h[i - 1] \o Q[i]
      <4>1. i \in 0 .. n /\ i - 1 \in 0 .. n /\ i - 1 # k
        BY <3>0
      <4>2. CASE i = k
        BY <3>4, <4>1, <4>2
      <4>3. CASE i # k
        <5>1. i \in 1 .. k - 1
          BY <3>0, <4>3
        <5>2. g[i] = g[i - 1] \o Q[i]
          BY <3>2, <5>1 DEF Joined
        <5> QED BY <3>4, <4>1, <4>3, <5>2
      <4> QED BY <4>2, <4>3
    <3>7. Joined(h, Q, k)
      BY <3>5, <3>6 DEF Joined
    <3> HIDE DEF G
    <3> QED BY <3>4, <3>7
  <2> QED BY <2>1, <2>2
<1>2. n \in B
  <2> HIDE DEF B
  <2>1. n \in 0 .. n
    OBVIOUS
  <2> QED BY <1>1, <2>1, FromTheFirst
<1> QED BY <1>2

\* What has been joined to place k stays at the beginning.
BeginsWith(s, t) == Len(t) <= Len(s) /\ \A p \in 1 .. Len(t) : s[p] = t[p]

LEMMA JoinedBegins ==
  ASSUME NEW C, NEW t \in Seq(C), NEW q \in Seq(C), NEW s \in Seq(C), BeginsWith(s, t \o q)
  PROVE  /\ BeginsWith(s, t)
         /\ Len(t) + Len(q) <= Len(s) /\ Len(t \o q) = Len(t) + Len(q)
         /\ \A p \in 1 .. Len(q) : s[Len(t) + p] = q[p]
<1>1. /\ Len(t) \in Nat /\ Len(q) \in Nat /\ Len(s) \in Nat
      /\ Len(t \o q) = Len(t) + Len(q)
      /\ \A p \in 1 .. Len(t) + Len(q) :
           (t \o q)[p] = IF p <= Len(t) THEN t[p] ELSE q[p - Len(t)]
  BY LenProperties, ConcatProperties
<1>2. \A p \in 1 .. Len(t) : s[p] = t[p]
  BY <1>1 DEF BeginsWith
<1>3. ASSUME NEW p \in 1 .. Len(q) PROVE s[Len(t) + p] = q[p]
  <2>1. /\ Len(t) + p \in 1 .. Len(t) + Len(q)
        /\ ~(Len(t) + p <= Len(t)) /\ Len(t) + p - Len(t) = p
    BY <1>1
  <2>2. (t \o q)[Len(t) + p] = q[p]
    BY <1>1, <2>1
  <2> QED BY <1>1, <2>1, <2>2 DEF BeginsWith
<1> QED BY <1>1, <1>2, <1>3 DEF BeginsWith

\* The characters that quoting writes for bytes in V.
Written(V) ==
  {Raw(w) : w \in V \cup DOMAIN Escaped} \cup {Unicode(b) : b \in 0 .. 31}

Quotes(bytes) == [i \in 1 .. Len(bytes) |-> QuotedByte(bytes[i])]

LEMMA WrittenIs ==
  ASSUME NEW V, NEW b \in V
  PROVE  QuotedByte(b) \in Seq(Written(V))
<1>1. Raw(BACKSLASH) \in Written(V)
  BY LettersAre DEF Written, BACKSLASH
<1>2. CASE b \in DOMAIN Letter /\ QuotedByte(b) = <<Raw(BACKSLASH), Raw(Letter[b])>>
  <2>1. Raw(Letter[b]) \in Written(V)
    BY <1>2, LettersAre DEF Written
  <2> QED BY <1>1, <1>2, <2>1
<1>3. CASE b \in 0 .. 31 /\ QuotedByte(b) = <<Raw(BACKSLASH), Unicode(b)>>
  <2>1. Unicode(b) \in Written(V)
    BY <1>3 DEF Written
  <2> QED BY <1>1, <1>3, <2>1
<1>4. CASE QuotedByte(b) = <<Raw(b)>>
  <2>1. Raw(b) \in Written(V)
    BY DEF Written
  <2> QED BY <1>4, <2>1
<1> QED BY <1>2, <1>3, <1>4, QuotedByteIs

LEMMA WrittenReadable ==
  ASSUME NEW V, NEW s \in Seq(Written(V))
  PROVE  Readable(s)
<1>1. Len(s) \in Nat /\ DOMAIN s = 1 .. Len(s)
  BY LenProperties
<1>2. ASSUME NEW i \in DOMAIN s, s[i].class = "unicode"
      PROVE  IsUnit(s[i].unit)
  <2>1. s[i] \in Written(V)
    BY <1>1, ElementOfSeq
  <2>2. CASE \E w : s[i] = Raw(w)
    BY <1>2, <2>2, RawIs, ClassIs
  <2>3. ASSUME NEW b \in 0 .. 31, s[i] = Unicode(b)
        PROVE  IsUnit(s[i].unit)
    <3>1. IsUnit(b)
      BY DEF IsUnit
    <3> QED BY <2>3, <3>1, UnicodeIs
  <2> QED BY <2>1, <2>2, <2>3 DEF Written
<1> QED BY <1>1, <1>2 DEF Readable

\* The writer joins what it writes for each byte.
LEMMA QuotedIs ==
  ASSUME NEW V, NEW bytes \in Seq(V)
  PROVE  \E g \in [0 .. Len(bytes) -> Seq(Written(V))] :
           Joined(g, Quotes(bytes), Len(bytes)) /\ Quoted(bytes) = g[Len(bytes)]
<1> DEFINE n == Len(bytes)
           C == Written(V)
           Q == Quotes(bytes)
           is(g) == g = [i \in 0 .. n |-> IF i = 0 THEN << >> ELSE g[i - 1] \o QuotedByte(bytes[i])]
           upTo == CHOOSE g : is(g)
<1>0. n \in Nat /\ \A i \in 1 .. n : bytes[i] \in V
  BY LenProperties, ElementOfSeq
<1>1. Quoted(bytes) = upTo[n]
  BY DEF Quoted
<1> HIDE DEF upTo
<1>2. Q \in [1 .. n -> Seq(C)]
  <2>1. \A i \in 1 .. n : QuotedByte(bytes[i]) \in Seq(C)
    BY <1>0, WrittenIs
  <2> HIDE DEF C
  <2> QED BY <2>1 DEF Quotes
<1>3. \A i \in 1 .. n : Q[i] = QuotedByte(bytes[i])
  BY DEF Quotes
<1> HIDE DEF Q, C
<1>4. PICK h \in [0 .. n -> Seq(C)] : Joined(h, Q, n)
  <2> HIDE DEF n
  <2> QED BY <1>0, <1>2, JoinedExists
<1>5. is(h)
  <2>1. \A i \in 0 .. n : h[i] = IF i = 0 THEN << >> ELSE h[i - 1] \o QuotedByte(bytes[i])
    BY <1>0, <1>3, <1>4 DEF Joined
  <2> HIDE DEF n
  <2> QED BY <2>1
<1>6. is(upTo)
  <2> HIDE DEF is
  <2> QED BY <1>5 DEF upTo
<1>7. \A i \in 0 .. n : upTo[i] = IF i = 0 THEN << >> ELSE upTo[i - 1] \o QuotedByte(bytes[i])
  BY <1>6
<1>8. upTo = [i \in 0 .. n |-> upTo[i]]
  BY <1>6
<1> HIDE DEF is
<1>9. Joined(upTo, Q, n)
  <2>1. \A i \in 1 .. n : i \in 0 .. n /\ i # 0
    BY <1>0
  <2>2. 0 \in 0 .. n
    BY <1>0
  <2> QED BY <1>3, <1>7, <2>1, <2>2 DEF Joined
<1>10. \A i \in 0 .. n : upTo[i] \in Seq(C)
  <2> DEFINE B == {i \in 0 .. n : upTo[i] \in Seq(C)}
  <2>1. ASSUME NEW k \in 0 .. n, \A j \in 0 .. k - 1 : j \in B PROVE k \in B
    <3>1. CASE k = 0
      <4>1. upTo[k] = << >>
        BY <1>9, <3>1 DEF Joined
      <4> QED BY <4>1, EmptySeq
    <3>2. CASE k > 0
      <4>1. k \in 1 .. n /\ k - 1 \in 0 .. k - 1
        BY <3>2
      <4>2. upTo[k - 1] \in Seq(C) /\ Q[k] \in Seq(C)
        BY <1>2, <2>1, <4>1
      <4>3. upTo[k] = upTo[k - 1] \o Q[k]
        BY <1>9, <4>1 DEF Joined
      <4> QED BY <4>2, <4>3, ConcatProperties
    <3> QED BY <1>0, <3>1, <3>2
  <2>2. \A k \in 0 .. n : k \in B
    <3> HIDE DEF B
    <3> QED BY <1>0, <2>1, FromTheFirst
  <2> QED BY <2>2
<1>11. upTo \in [0 .. n -> Seq(C)]
  BY <1>8, <1>10
<1> USE DEF C, Q
<1> HIDE DEF n
<1>12. upTo \in [0 .. n -> Seq(Written(V))] /\ Joined(upTo, Quotes(bytes), n)
  BY <1>9, <1>11
<1> USE DEF n
<1> QED BY <1>1, <1>12

LEMMA QuotedReads ==
  ASSUME NEW V, NEW bytes \in Seq(V)
  PROVE  DecodeString(Quoted(bytes)) = Decoded(bytes)
<1> DEFINE n == Len(bytes)
           C == Written(V)
           Q == Quotes(bytes)
           s == Quoted(bytes)
<1>0. n \in Nat
  BY LenProperties
<1>1. PICK g \in [0 .. n -> Seq(C)] : Joined(g, Q, n) /\ s = g[n]
  BY QuotedIs
<1>2. Readable(s) /\ s \in Seq(C)
  <2>1. s \in Seq(C)
    BY <1>0, <1>1
  <2> QED BY <2>1, WrittenReadable
<1>3. PICK from \in [1 .. Len(s) + 1 -> Results(Bytes(s))] :
        DecodeString(s) = from[1] /\ \A i \in 1 .. Len(s) + 1 : from[i] = Reads(s, from, i)
  BY <1>2, DecodeIs
<1>4. ReadFrom(s, from)
  BY <1>3 DEF ReadFrom
<1>Q. \A i \in 1 .. n : Q[i] = QuotedByte(bytes[i])
  BY DEF Quotes
<1>C. \A i \in 1 .. n : Q[i] \in Seq(C)
  <2>1. \A i \in 1 .. n : bytes[i] \in V
    BY ElementOfSeq
  <2> QED BY <1>Q, <2>1, WrittenIs
<1> HIDE DEF Q, C, s
<1> DEFINE B == {k \in 1 .. n + 1 :
                   /\ BeginsWith(s, g[k - 1])
                   /\ from[Len(g[k - 1]) + 1] = Decoded(SubSeq(bytes, k, n))}
<1>5. ASSUME NEW k \in 1 .. n + 1, \A j \in k + 1 .. n + 1 : j \in B
      PROVE  k \in B
  <2>1. CASE k = n + 1
    <3>1. k - 1 = n /\ g[k - 1] = s
      BY <1>0, <1>1, <2>1
    <3>2. Len(s) \in Nat
      BY <1>2, LenProperties
    <3>3. BeginsWith(s, s)
      BY <3>2 DEF BeginsWith
    <3>4. from[Len(s) + 1] = Decoded(<< >>)
      <4>1. Len(s) + 1 \in 1 .. Len(s) + 1 /\ ~(Len(s) + 1 <= Len(s))
        BY <3>2
      <4>2. Reads(s, from, Len(s) + 1) = Decoded(<< >>)
        BY <4>1 DEF Reads
      <4> QED BY <1>4, <4>1, <4>2 DEF ReadFrom
    <3>5. SubSeq(bytes, k, n) = << >>
      BY <1>0, <2>1, SubSeqProperties
    <3> QED BY <3>1, <3>3, <3>4, <3>5
  <2>2. CASE k <= n
    <3> DEFINE t == g[k - 1]
               q == Q[k]
               b == bytes[k]
               c == SubSeq(bytes, k + 1, n)
    <3>1. k \in 1 .. n /\ k + 1 \in k + 1 .. n + 1 /\ k + 1 - 1 = k
      BY <1>0, <2>2
    <3>2. BeginsWith(s, g[k]) /\ from[Len(g[k]) + 1] = Decoded(c)
      <4>1. k + 1 \in B
        <5> HIDE DEF B
        <5> QED BY <1>5, <3>1
      <4> QED BY <3>1, <4>1
    <3>3. g[k] = t \o q /\ t \in Seq(C) /\ q \in Seq(C)
      <4>1. k - 1 \in 0 .. n
        BY <3>1
      <4> QED BY <1>1, <1>C, <3>1, <4>1 DEF Joined
    <3>4. /\ BeginsWith(s, t)
          /\ Len(t) + Len(q) <= Len(s) /\ Len(g[k]) = Len(t) + Len(q)
          /\ \A p \in 1 .. Len(q) : s[Len(t) + p] = q[p]
      <4>1. BeginsWith(s, t \o q)
        BY <3>2, <3>3
      <4> HIDE DEF t, q
      <4> QED BY <1>2, <3>3, <4>1, JoinedBegins
    <3>5. q = QuotedByte(b)
      BY <1>Q, <3>1
    <3>6. Len(t) \in Nat
      BY <3>3, LenProperties
    <3>7. SubSeq(bytes, k, n) = <<b>> \o c
      <4>1. k \in 1 .. Len(bytes) /\ n \in k .. Len(bytes)
        BY <1>0, <3>1
      <4> HIDE DEF n
      <4> QED BY <4>1, SubSeqRecursiveFirst
    <3> HIDE DEF t, q, b, c
    <3>8. from[Len(t) + 1] = Decoded(<<b>> \o c)
      <4> DEFINE m == Len(t)
      <4>1. m \in Nat /\ GoesOn(from, m + Len(QuotedByte(b)), c)
        BY <3>2, <3>4, <3>5, <3>6 DEF GoesOn
      <4>2. StandsBehind(s, m, QuotedByte(b))
        BY <3>4, <3>5 DEF StandsBehind
      <4> HIDE DEF m
      <4>3. GoesOn(from, m, <<b>> \o c)
        BY <1>2, <1>4, <4>1, <4>2, QuotedByteRead
      <4> QED BY <4>3 DEF m, GoesOn
    <3>9. from[Len(t) + 1] = Decoded(SubSeq(bytes, k, n))
      BY <3>7, <3>8
    <3> USE DEF t
    <3> QED BY <3>4, <3>9
  <2> QED BY <1>0, <2>1, <2>2
<1>6. 1 \in B
  <2> HIDE DEF B
  <2>1. \A k \in 1 .. n + 1 : k \in B
    <3> HIDE DEF n
    <3> QED BY <1>0, <1>5, FromTheLast
  <2> QED BY <1>0, <2>1
<1>7. from[1] = Decoded(SubSeq(bytes, 1, n))
  <2>1. g[1 - 1] = << >> /\ Len(g[1 - 1]) + 1 = 1
    BY <1>1 DEF Joined
  <2> QED BY <1>6, <2>1
<1>8. SubSeq(bytes, 1, n) = bytes
  BY SubSeqFull
<1> USE DEF s
<1> QED BY <1>3, <1>7, <1>8

-----------------------------------------------------------------------------
(***************************************************************************)
(* The code points of UTF-8, as a function of the place.                   *)
(***************************************************************************)
Follow(bytes, i, n) == \A k \in i + 1 .. i + n : k \in DOMAIN bytes /\ bytes[k] \in 128 .. 191

Points(bytes, g, i) ==
  IF i = Len(bytes) + 1 THEN << >>
  ELSE CASE bytes[i] < 128 -> <<bytes[i]>> \o g[i + 1]
         [] bytes[i] \in 194 .. 223 /\ Follow(bytes, i, 1) ->
              <<(bytes[i] - 192) * 64 + (bytes[i + 1] - 128)>> \o g[i + 2]
         [] bytes[i] \in 224 .. 239 /\ Follow(bytes, i, 2)
              /\ (bytes[i] - 224) * 64 + (bytes[i + 1] - 128) >= 32 ->
              <<(bytes[i] - 224) * 4096 + (bytes[i + 1] - 128) * 64 + (bytes[i + 2] - 128)>>
                \o g[i + 3]
         [] bytes[i] \in 240 .. 244 /\ Follow(bytes, i, 3)
              /\ (bytes[i] - 240) * 64 + (bytes[i + 1] - 128) >= 16 ->
              <<(bytes[i] - 240) * 262144 + (bytes[i + 1] - 128) * 4096
                  + (bytes[i + 2] - 128) * 64 + (bytes[i + 3] - 128)>> \o g[i + 4]
         [] OTHER -> <<-1>>

\* A code point before others.
On(x, w) == <<x>> \o w

LEMMA Prefixed ==
  ASSUME NEW x \in Int, NEW w \in Seq(Int)
  PROVE  On(x, w) \in Seq(Int)
<1>1. <<x>> \in Seq(Int)
  OBVIOUS
<1> QED BY <1>1, ConcatProperties DEF On

LEMMA ByteIsInt == Byte \subseteq Int
BY DEF Byte

LEMMA FollowIs ==
  ASSUME NEW bytes \in Seq(Byte), NEW i \in 1 .. Len(bytes), NEW n \in {1, 2, 3},
         Follow(bytes, i, n)
  PROVE  i + n <= Len(bytes) /\ \A k \in i + 1 .. i + n : bytes[k] \in Int
<1>1. Len(bytes) \in Nat /\ DOMAIN bytes = 1 .. Len(bytes)
  BY LenProperties
<1>2. i + n \in i + 1 .. i + n
  OBVIOUS
<1>3. i + n \in DOMAIN bytes
  BY <1>2 DEF Follow
<1>4. \A k \in i + 1 .. i + n : bytes[k] \in Byte
  BY <1>1, ElementOfSeq DEF Follow
<1>5. i + n <= Len(bytes)
  BY <1>1, <1>3
<1> QED BY <1>4, <1>5, ByteIsInt, Zenon

LEMMA PointsIs ==
  ASSUME NEW bytes \in Seq(Byte), NEW i \in 1 .. Len(bytes) + 1,
         NEW g, \A j \in i + 1 .. Len(bytes) + 1 : g[j] \in Seq(Int)
  PROVE  /\ Points(bytes, g, i) \in Seq(Int)
         /\ \A h : (\A j \in i + 1 .. Len(bytes) + 1 : h[j] = g[j])
                     => Points(bytes, h, i) = Points(bytes, g, i)
<1> DEFINE n == Len(bytes)
           b == bytes[i]
           v2 == (bytes[i] - 192) * 64 + (bytes[i + 1] - 128)
           v3 == (bytes[i] - 224) * 4096 + (bytes[i + 1] - 128) * 64 + (bytes[i + 2] - 128)
           v4 == (bytes[i] - 240) * 262144 + (bytes[i + 1] - 128) * 4096
                   + (bytes[i + 2] - 128) * 64 + (bytes[i + 3] - 128)
           C2 == bytes[i] \in 194 .. 223 /\ Follow(bytes, i, 1)
           C3 == bytes[i] \in 224 .. 239 /\ Follow(bytes, i, 2)
                   /\ (bytes[i] - 224) * 64 + (bytes[i + 1] - 128) >= 32
           C4 == bytes[i] \in 240 .. 244 /\ Follow(bytes, i, 3)
                   /\ (bytes[i] - 240) * 64 + (bytes[i + 1] - 128) >= 16
<1>0. n \in Nat
  BY LenProperties
<1>1. CASE i = n + 1
  <2>1. \A h : Points(bytes, h, i) = << >>
    BY <1>1 DEF Points
  <2> QED BY <2>1, EmptySeq
<1>2. CASE i # n + 1
  <2>0. i \in 1 .. n
    BY <1>0, <1>2
  <2>1. \A h : Points(bytes, h, i)
                 = CASE b < 128 -> On(b, h[i + 1])
                     [] C2 -> On(v2, h[i + 2])
                     [] C3 -> On(v3, h[i + 3])
                     [] C4 -> On(v4, h[i + 4])
                     [] OTHER -> <<-1>>
    BY <1>2 DEF Points, On
  <2>2. b \in Int
    <3>1. b \in Byte
      BY <2>0, ElementOfSeq
    <3> QED BY <3>1, ByteIsInt, Zenon
  <2>3. C2 => v2 \in Int /\ i + 2 \in i + 1 .. n + 1
    <3> SUFFICES ASSUME C2 PROVE v2 \in Int /\ i + 2 \in i + 1 .. n + 1
      OBVIOUS
    <3>1. i + 1 <= n /\ bytes[i + 1] \in Int
      BY <2>0, FollowIs, i + 1 \in i + 1 .. i + 1
    <3> QED BY <1>0, <2>0, <2>2, <3>1
  <2>4. C3 => v3 \in Int /\ i + 3 \in i + 1 .. n + 1
    <3> SUFFICES ASSUME C3 PROVE v3 \in Int /\ i + 3 \in i + 1 .. n + 1
      OBVIOUS
    <3>1. i + 2 <= n /\ bytes[i + 1] \in Int /\ bytes[i + 2] \in Int
      BY <2>0, FollowIs, i + 1 \in i + 1 .. i + 2, i + 2 \in i + 1 .. i + 2
    <3>2. i + 3 \in i + 1 .. n + 1
      BY <1>0, <2>0, <3>1
    <3> HIDE DEF n, C3
    <3>3. v3 \in Int
      <4> DEFINE p0 == bytes[i]
                 p1 == bytes[i + 1]
                 p2 == bytes[i + 2]
      <4>1. p0 \in Int /\ p1 \in Int /\ p2 \in Int
        BY <2>2, <3>1
      <4> HIDE DEF p0, p1, p2
      <4>2. (p0 - 224) * 4096 + (p1 - 128) * 64 + (p2 - 128) \in Int
        BY <4>1, SMT
      <4> USE DEF p0, p1, p2
      <4> QED BY <4>2, SMT
    <3> QED BY <3>2, <3>3
  <2>5. C4 => v4 \in Int /\ i + 4 \in i + 1 .. n + 1
    <3> SUFFICES ASSUME C4 PROVE v4 \in Int /\ i + 4 \in i + 1 .. n + 1
      OBVIOUS
    <3>1. i + 3 <= n /\ bytes[i + 1] \in Int /\ bytes[i + 2] \in Int /\ bytes[i + 3] \in Int
      BY <2>0, FollowIs, i + 1 \in i + 1 .. i + 3, i + 2 \in i + 1 .. i + 3,
         i + 3 \in i + 1 .. i + 3
    <3>2. i + 4 \in i + 1 .. n + 1
      BY <1>0, <2>0, <3>1
    <3> HIDE DEF n, C4
    <3>3. v4 \in Int
      <4> DEFINE p0 == bytes[i]
                 p1 == bytes[i + 1]
                 p2 == bytes[i + 2]
                 p3 == bytes[i + 3]
      <4>1. p0 \in Int /\ p1 \in Int /\ p2 \in Int /\ p3 \in Int
        BY <2>2, <3>1
      <4> HIDE DEF p0, p1, p2, p3
      <4>2. (p0 - 240) * 262144 + (p1 - 128) * 4096 + (p2 - 128) * 64 + (p3 - 128) \in Int
        BY <4>1, SMT
      <4> USE DEF p0, p1, p2, p3
      <4> QED BY <4>2, SMT
    <3> QED BY <3>2, <3>3
  <2>6. i + 1 \in i + 1 .. n + 1
    BY <1>0, <2>0
  <2>7. <<-1>> \in Seq(Int)
    OBVIOUS
  <2> HIDE DEF b, v2, v3, v4, C2, C3, C4
  <2>8. \A j \in i + 1 .. n + 1, x \in Int : On(x, g[j]) \in Seq(Int)
    BY Prefixed
  <2> HIDE DEF n
  <2>9. Points(bytes, g, i) \in Seq(Int)
    BY <2>1, <2>2, <2>3, <2>4, <2>5, <2>6, <2>7, <2>8
  <2>10. ASSUME NEW h, \A j \in i + 1 .. n + 1 : h[j] = g[j]
         PROVE  Points(bytes, h, i) = Points(bytes, g, i)
    <3>1. /\ h[i + 1] = g[i + 1] /\ (C2 => h[i + 2] = g[i + 2])
          /\ (C3 => h[i + 3] = g[i + 3]) /\ (C4 => h[i + 4] = g[i + 4])
      BY <2>3, <2>4, <2>5, <2>6, <2>10
    <3>2. CASE b < 128
      BY <2>1, <2>2, <2>3, <2>4, <2>5, <3>1, <3>2
    <3>3. CASE ~(b < 128) /\ C2
      BY <2>1, <2>2, <2>3, <2>4, <2>5, <3>1, <3>3
    <3>4. CASE ~(b < 128) /\ ~C2 /\ C3
      BY <2>1, <2>2, <2>3, <2>4, <2>5, <3>1, <3>4
    <3>5. CASE ~(b < 128) /\ ~C2 /\ ~C3 /\ C4
      BY <2>1, <2>2, <2>3, <2>4, <2>5, <3>1, <3>5
    <3>6. CASE ~(b < 128) /\ ~C2 /\ ~C3 /\ ~C4
      BY <2>1, <3>6
    <3> QED BY <3>2, <3>3, <3>4, <3>5, <3>6
  <2> USE DEF n
  <2> QED BY <2>9, <2>10
<1> QED BY <1>1, <1>2

LEMMA CodePointsAre ==
  ASSUME NEW bytes \in Seq(Byte)
  PROVE  \E g \in [1 .. Len(bytes) + 1 -> Seq(Int)] :
           CodePoints(bytes) = g[1]
             /\ \A i \in 1 .. Len(bytes) + 1 : g[i] = Points(bytes, g, i)
<1> DEFINE n == Len(bytes)
           R == Seq(Int)
           F == [i \in 1 .. n |-> [g \in [1 .. n + 1 -> R] |-> Points(bytes, g, i)]]
           is(g) == g = [i \in 1 .. n + 1 |-> Points(bytes, g, i)]
           from == CHOOSE g : is(g)
<1>0. n \in Nat
  BY LenProperties
<1>1. CodePoints(bytes) = from[1]
  BY DEF CodePoints, Points, Follow
<1> HIDE DEF from
<1>2. \E g : is(g)
  <2>1. F \in [1 .. n -> [[1 .. n + 1 -> R] -> R]]
    <3>1. ASSUME NEW i \in 1 .. n, NEW g \in [1 .. n + 1 -> R] PROVE Points(bytes, g, i) \in R
      <4>1. i \in 1 .. Len(bytes) + 1 /\ \A j \in i + 1 .. Len(bytes) + 1 : g[j] \in R
        BY <1>0
      <4> QED BY <4>1, PointsIs
    <3> QED BY <3>1
  <2>2. LooksBehind(F, n, R)
    <3>1. ASSUME NEW i \in 1 .. n, NEW g \in [1 .. n + 1 -> R], NEW h \in [1 .. n + 1 -> R],
                 \A j \in i + 1 .. n + 1 : g[j] = h[j]
          PROVE  F[i][g] = F[i][h]
      <4>1. i \in 1 .. Len(bytes) + 1 /\ \A j \in i + 1 .. Len(bytes) + 1 : g[j] \in R
        BY <1>0
      <4>2. Points(bytes, h, i) = Points(bytes, g, i)
        BY <3>1, <4>1, PointsIs
      <4> QED BY <4>2
    <3> HIDE DEF F
    <3> QED BY <3>1 DEF LooksBehind
  <2>3. \A i \in 1 .. n, g \in [1 .. n + 1 -> R] : F[i][g] = Points(bytes, g, i)
    OBVIOUS
  <2>4. << >> \in R
    BY EmptySeq
  <2> HIDE DEF F
  <2>5. PICK g \in [1 .. n + 1 -> R] :
          g[n + 1] = << >> /\ \A i \in 1 .. n : g[i] = F[i][g]
    <3> DEFINE z == << >>
    <3>1. z \in R
      BY <2>4
    <3> HIDE DEF R, n, z
    <3>2. F \in Backward(n, R)
      BY <2>1, <2>2 DEF Backward
    <3>3. FromBehind(F, n, R, z) # {}
      BY <1>0, <3>1, <3>2, BackwardExists
    <3> USE DEF z
    <3> QED BY <3>3 DEF FromBehind
  <2>6. Points(bytes, g, n + 1) = << >>
    BY <1>0 DEF Points
  <2>7. \A i \in 1 .. n + 1 : g[i] = Points(bytes, g, i)
    BY <1>0, <2>3, <2>5, <2>6
  <2>8. g = [i \in 1 .. n + 1 |-> Points(bytes, g, i)]
    BY <2>7
  <2> QED BY <2>8
<1>3. is(from)
  <2> HIDE DEF is
  <2> QED BY <1>2 DEF from
<1>4. DOMAIN from = 1 .. n + 1 /\ \A i \in 1 .. n + 1 : from[i] = Points(bytes, from, i)
  BY <1>3
<1>5. from = [i \in 1 .. n + 1 |-> from[i]]
  BY <1>3
<1> HIDE DEF is
<1>6. \A i \in 1 .. n + 1 : from[i] \in R
  <2> DEFINE B == {i \in 1 .. n + 1 : from[i] \in R}
  <2>1. ASSUME NEW k \in 1 .. n + 1, \A j \in k + 1 .. n + 1 : j \in B
        PROVE  k \in B
    <3>1. \A j \in k + 1 .. n + 1 : from[j] \in R
      BY <2>1
    <3>2. Points(bytes, from, k) \in R
      BY <3>1, PointsIs
    <3> QED BY <1>4, <3>2
  <2>2. \A k \in 1 .. n + 1 : k \in B
    <3> HIDE DEF B
    <3> QED BY <1>0, <2>1, FromTheLast
  <2> QED BY <2>2
<1>7. from \in [1 .. n + 1 -> R]
  BY <1>5, <1>6
<1> QED BY <1>1, <1>4, <1>7

\* The values of g are the code points from each place on.
PointsFrom(bytes, g) == \A i \in 1 .. Len(bytes) + 1 : g[i] = Points(bytes, g, i)

\* The code points of two, three and four bytes.
Point2(a, b) == (a - 192) * 64 + (b - 128)
Point3(a, b, c) == (a - 224) * 4096 + (b - 128) * 64 + (c - 128)
Point4(a, b, c, d) == (a - 240) * 262144 + (b - 128) * 4096 + (c - 128) * 64 + (d - 128)

\* The bytes that continue a code point.
Behind(w) == \A k \in 2 .. Len(w) : w[k] \in 128 .. 191

LEMMA UTF8Two ==
  ASSUME NEW u \in Nat, 127 < u, u <= 2047, NEW w, w = UTF8(u)
  PROVE  /\ Len(w) = 2 /\ w[1] \in 194 .. 223 /\ Behind(w)
         /\ Point2(w[1], w[2]) = u
<1> DEFINE a == 192 + (u \div 64)
           b == 128 + (u % 64)
<1>1. w = <<a, b>>
  BY DEF UTF8
<1>2. a \in 194 .. 223 /\ b \in 128 .. 191
  OBVIOUS
<1>3. Point2(a, b) = u
  BY DEF Point2
<1> HIDE DEF a, b
<1> QED BY <1>1, <1>2, <1>3 DEF Behind

LEMMA UTF8Three ==
  ASSUME NEW u \in Nat, 2047 < u, u <= 65535, NEW w, w = UTF8(u)
  PROVE  /\ Len(w) = 3 /\ w[1] \in 224 .. 239 /\ Behind(w)
         /\ (w[1] - 224) * 64 + (w[2] - 128) >= 32
         /\ Point3(w[1], w[2], w[3]) = u
<1> DEFINE a == 224 + (u \div 4096)
           b == 128 + ((u \div 64) % 64)
           c == 128 + (u % 64)
<1>1. w = <<a, b, c>>
  BY DEF UTF8
<1>2. a \in 224 .. 239 /\ b \in 128 .. 191 /\ c \in 128 .. 191
  OBVIOUS
<1>3. Point3(a, b, c) = u
  BY DEF Point3
<1>4. (a - 224) * 64 + (b - 128) >= 32
  OBVIOUS
<1> HIDE DEF a, b, c
<1>5. Len(w) = 3 /\ w[1] = a /\ w[2] = b /\ w[3] = c
  BY <1>1
<1>6. Behind(w)
  BY <1>2, <1>5 DEF Behind
<1> QED BY <1>2, <1>3, <1>4, <1>5, <1>6

LEMMA UTF8Four ==
  ASSUME NEW u \in Point, 65535 < u, NEW w, w = UTF8(u)
  PROVE  /\ Len(w) = 4 /\ w[1] \in 240 .. 244 /\ Behind(w)
         /\ (w[1] - 240) * 64 + (w[2] - 128) >= 16
         /\ Point4(w[1], w[2], w[3], w[4]) = u
<1> DEFINE a == 240 + (u \div 262144)
           b == 128 + ((u \div 4096) % 64)
           c == 128 + ((u \div 64) % 64)
           d == 128 + (u % 64)
<1>0. u \in Nat /\ u < 1114112
  BY SMT DEF Point
<1>1. w = <<a, b, c, d>>
  BY <1>0, SMT DEF UTF8
<1>2. a \in 240 .. 244 /\ b \in 128 .. 191 /\ c \in 128 .. 191 /\ d \in 128 .. 191
  BY <1>0, SMT
<1>3. Point4(a, b, c, d) = u
  BY <1>0, SMT DEF Point4
<1>4. (a - 240) * 64 + (b - 128) >= 16
  BY <1>0, SMT
<1> HIDE DEF a, b, c, d
<1>5. Len(w) = 4 /\ w[1] = a /\ w[2] = b /\ w[3] = c /\ w[4] = d
  BY <1>1, SMT
<1>6. Behind(w)
  <2>1. \A k \in 2 .. 4 : k = 2 \/ k = 3 \/ k = 4
    BY SMT
  <2> QED BY <1>2, <1>5, <2>1, SMT DEF Behind
<1> QED BY <1>2, <1>3, <1>4, <1>5, <1>6, SMT

LEMMA FollowsFrom ==
  ASSUME NEW bytes, NEW m \in Nat, NEW w, NEW l \in {2, 3, 4}, Len(w) = l, Behind(w),
         StandsBehind(bytes, m, w), Len(bytes) \in Nat, DOMAIN bytes = 1 .. Len(bytes)
  PROVE  Follow(bytes, m + 1, l - 1)
<1>1. ASSUME NEW k \in m + 2 .. m + l
      PROVE  k \in DOMAIN bytes /\ bytes[k] \in 128 .. 191
  <2>1. k - m \in 2 .. Len(w) /\ k - m \in 1 .. Len(w) /\ m + (k - m) = k
    OBVIOUS
  <2>2. bytes[k] = w[k - m] /\ w[k - m] \in 128 .. 191
    BY <2>1 DEF StandsBehind, Behind
  <2>3. k \in 1 .. Len(bytes)
    BY DEF StandsBehind
  <2> QED BY <2>2, <2>3
<1>2. m + 1 + 1 = m + 2 /\ m + 1 + (l - 1) = m + l
  OBVIOUS
<1> QED BY <1>1, <1>2 DEF Follow

\* The form of the code point at a place.
IsTwo(bytes, i) == bytes[i] \in 194 .. 223 /\ Follow(bytes, i, 1)
IsThree(bytes, i) ==
  bytes[i] \in 224 .. 239 /\ Follow(bytes, i, 2)
    /\ (bytes[i] - 224) * 64 + (bytes[i + 1] - 128) >= 32
IsFour(bytes, i) ==
  bytes[i] \in 240 .. 244 /\ Follow(bytes, i, 3)
    /\ (bytes[i] - 240) * 64 + (bytes[i + 1] - 128) >= 16

LEMMA PointsByForm ==
  ASSUME NEW bytes, NEW g, NEW i, i # Len(bytes) + 1
  PROVE  Points(bytes, g, i)
           = CASE bytes[i] < 128 -> On(bytes[i], g[i + 1])
               [] IsTwo(bytes, i) -> On(Point2(bytes[i], bytes[i + 1]), g[i + 2])
               [] IsThree(bytes, i) ->
                    On(Point3(bytes[i], bytes[i + 1], bytes[i + 2]), g[i + 3])
               [] IsFour(bytes, i) ->
                    On(Point4(bytes[i], bytes[i + 1], bytes[i + 2], bytes[i + 3]), g[i + 4])
               [] OTHER -> <<-1>>
BY SMT DEF Points, On, Point2, Point3, Point4, IsTwo, IsThree, IsFour

LEMMA LeadsDiffer ==
  ASSUME NEW b
  PROVE  /\ b \in 194 .. 223 => ~(b < 128) /\ b \notin 224 .. 239 /\ b \notin 240 .. 244
         /\ b \in 224 .. 239 => ~(b < 128) /\ b \notin 194 .. 223 /\ b \notin 240 .. 244
         /\ b \in 240 .. 244 => ~(b < 128) /\ b \notin 194 .. 223 /\ b \notin 224 .. 239
<1>1. b \in 194 .. 223 => b \in Int /\ 194 <= b /\ b <= 223
  OBVIOUS
<1>2. b \in 224 .. 239 => b \in Int /\ 224 <= b /\ b <= 239
  OBVIOUS
<1>3. b \in 240 .. 244 => b \in Int /\ 240 <= b /\ b <= 244
  OBVIOUS
<1> QED BY <1>1, <1>2, <1>3

LEMMA FormsDiffer ==
  ASSUME NEW bytes, NEW i
  PROVE  /\ IsTwo(bytes, i) => ~(bytes[i] < 128) /\ ~IsThree(bytes, i) /\ ~IsFour(bytes, i)
         /\ IsThree(bytes, i) => ~(bytes[i] < 128) /\ ~IsTwo(bytes, i) /\ ~IsFour(bytes, i)
         /\ IsFour(bytes, i) => ~(bytes[i] < 128) /\ ~IsTwo(bytes, i) /\ ~IsThree(bytes, i)
<1>1. IsTwo(bytes, i) => bytes[i] \in 194 .. 223
  BY Zenon DEF IsTwo
<1>2. IsThree(bytes, i) => bytes[i] \in 224 .. 239
  BY Zenon DEF IsThree
<1>3. IsFour(bytes, i) => bytes[i] \in 240 .. 244
  BY Zenon DEF IsFour
<1> DEFINE b == bytes[i]
           A == b \in 194 .. 223
           B == b \in 224 .. 239
           C == b \in 240 .. 244
           L == b < 128
<1>4. (A => ~L /\ ~B /\ ~C) /\ (B => ~L /\ ~A /\ ~C) /\ (C => ~L /\ ~A /\ ~B)
  <2> HIDE DEF b
  <2> QED BY LeadsDiffer
<1>5. (IsTwo(bytes, i) => A) /\ (IsThree(bytes, i) => B) /\ (IsFour(bytes, i) => C)
  BY <1>1, <1>2, <1>3, Zenon
<1> HIDE DEF A, B, C, L
<1>6. /\ IsTwo(bytes, i) => ~L /\ ~IsThree(bytes, i) /\ ~IsFour(bytes, i)
      /\ IsThree(bytes, i) => ~L /\ ~IsTwo(bytes, i) /\ ~IsFour(bytes, i)
      /\ IsFour(bytes, i) => ~L /\ ~IsTwo(bytes, i) /\ ~IsThree(bytes, i)
  BY <1>4, <1>5
<1> QED BY <1>6, Zenon DEF L

LEMMA PointsTwo ==
  ASSUME NEW bytes, NEW g, NEW i, i # Len(bytes) + 1, IsTwo(bytes, i)
  PROVE  Points(bytes, g, i) = On(Point2(bytes[i], bytes[i + 1]), g[i + 2])
BY PointsByForm, FormsDiffer

LEMMA PointsThree ==
  ASSUME NEW bytes, NEW g, NEW i, i # Len(bytes) + 1, IsThree(bytes, i)
  PROVE  Points(bytes, g, i)
           = On(Point3(bytes[i], bytes[i + 1], bytes[i + 2]), g[i + 3])
BY PointsByForm, FormsDiffer

LEMMA PointsFour ==
  ASSUME NEW bytes, NEW g, NEW i, i # Len(bytes) + 1, IsFour(bytes, i)
  PROVE  Points(bytes, g, i)
           = On(Point4(bytes[i], bytes[i + 1], bytes[i + 2], bytes[i + 3]), g[i + 4])
BY PointsByForm, FormsDiffer

LEMMA CodePointRead ==
  ASSUME NEW bytes \in Seq(Byte), NEW g, PointsFrom(bytes, g),
         NEW m \in Nat, NEW u \in Point,
         NEW w, w = UTF8(u), StandsBehind(bytes, m, w)
  PROVE  g[m + 1] = On(u, g[m + Len(w) + 1])
<1> DEFINE i == m + 1
<1>0. Len(bytes) \in Nat /\ DOMAIN bytes = 1 .. Len(bytes)
  BY LenProperties
<1>u. u \in Nat
  BY DEF Point
<1>S. m + Len(w) <= Len(bytes) /\ \A p \in 1 .. Len(w) : bytes[m + p] = w[p]
  BY DEF StandsBehind
<1>R. m + 1 <= Len(bytes) => g[i] = Points(bytes, g, i)
  BY <1>0 DEF PointsFrom
<1>1. CASE u <= 127
  <2>1. w = <<u>>
    BY <1>1, <1>u, UTF8One
  <2>2. Len(w) = 1 /\ w[1] = u
    BY <2>1
  <2>3. i <= Len(bytes) /\ bytes[i] = u
    BY <1>S, <2>2, 1 \in 1 .. 1
  <2>4. i # Len(bytes) + 1
    BY <1>0, <2>3
  <2>5. m + Len(w) + 1 = i + 1
    BY <2>2
  <2>6. bytes[i] < 128
    BY <1>1, <1>u, <2>3
  <2>7. Points(bytes, g, i) = On(bytes[i], g[i + 1])
    BY <2>4, <2>6, PointsByForm, FormsDiffer
  <2> QED BY <1>R, <2>3, <2>5, <2>7
<1>2. CASE 127 < u /\ u <= 2047
  <2>1. /\ Len(w) = 2 /\ w[1] \in 194 .. 223 /\ Behind(w)
        /\ Point2(w[1], w[2]) = u
    BY <1>2, <1>u, UTF8Two
  <2>2. i + 1 <= Len(bytes)
    BY <1>S, <2>1
  <2>3. bytes[i] = w[1] /\ bytes[i + 1] = w[2]
    <3>1. 1 \in 1 .. Len(w) /\ 2 \in 1 .. Len(w)
      BY <2>1
    <3>2. bytes[m + 1] = w[1] /\ bytes[m + 2] = w[2]
      BY <1>S, <3>1
    <3>3. i + 1 = m + 2
      OBVIOUS
    <3> QED BY <3>2, <3>3
  <2>4. i \in Nat /\ i # Len(bytes) + 1 /\ m + 1 <= Len(bytes)
    BY <1>0, <2>2
  <2>5. m + Len(w) + 1 = i + 2
    BY <2>1
  <2>6. Follow(bytes, i, 1)
    <3>1. Follow(bytes, m + 1, 2 - 1)
      BY <1>0, <2>1, FollowsFrom
    <3> QED BY <3>1
  <2> HIDE DEF i
  <2>F. IsTwo(bytes, i)
    BY <2>1, <2>3, <2>6 DEF IsTwo
  <2>7. Points(bytes, g, i) = On(Point2(bytes[i], bytes[i + 1]), g[i + 2])
    BY <2>4, <2>F, PointsTwo
  <2>8. Points(bytes, g, i) = On(u, g[i + 2])
    <3>1. Point2(bytes[i], bytes[i + 1]) = u
      BY <2>1, <2>3
    <3> QED BY <2>7, <3>1
  <2> QED BY <1>R, <2>4, <2>5, <2>8 DEF i
<1>3. CASE 2047 < u /\ u <= 65535
  <2>1. /\ Len(w) = 3 /\ w[1] \in 224 .. 239 /\ Behind(w)
        /\ (w[1] - 224) * 64 + (w[2] - 128) >= 32
        /\ Point3(w[1], w[2], w[3]) = u
    BY <1>3, <1>u, UTF8Three
  <2>2. i + 2 <= Len(bytes)
    BY <1>S, <2>1
  <2>3. bytes[i] = w[1] /\ bytes[i + 1] = w[2] /\ bytes[i + 2] = w[3]
    <3>1. 1 \in 1 .. Len(w) /\ 2 \in 1 .. Len(w) /\ 3 \in 1 .. Len(w)
      BY <2>1
    <3>2. bytes[m + 1] = w[1] /\ bytes[m + 2] = w[2] /\ bytes[m + 3] = w[3]
      BY <1>S, <3>1
    <3>3. i + 1 = m + 2 /\ i + 2 = m + 3
      OBVIOUS
    <3> QED BY <3>2, <3>3
  <2>4. i \in Nat /\ i # Len(bytes) + 1 /\ m + 1 <= Len(bytes)
    BY <1>0, <2>2
  <2>5. m + Len(w) + 1 = i + 3
    BY <2>1
  <2>6. Follow(bytes, i, 2)
    <3>1. Follow(bytes, m + 1, 3 - 1)
      BY <1>0, <2>1, FollowsFrom
    <3> QED BY <3>1
  <2> HIDE DEF i
  <2>F. IsThree(bytes, i)
    BY <2>1, <2>3, <2>6 DEF IsThree
  <2>7. Points(bytes, g, i) = On(Point3(bytes[i], bytes[i + 1], bytes[i + 2]), g[i + 3])
    BY <2>4, <2>F, PointsThree
  <2>8. Points(bytes, g, i) = On(u, g[i + 3])
    <3>1. Point3(bytes[i], bytes[i + 1], bytes[i + 2]) = u
      BY <2>1, <2>3
    <3> QED BY <2>7, <3>1
  <2> QED BY <1>R, <2>4, <2>5, <2>8 DEF i
<1>4. CASE 65535 < u
  <2>1. /\ Len(w) = 4 /\ w[1] \in 240 .. 244 /\ Behind(w)
        /\ (w[1] - 240) * 64 + (w[2] - 128) >= 16
        /\ Point4(w[1], w[2], w[3], w[4]) = u
    BY <1>4, <1>u, UTF8Four, SMT
  <2>2. i + 3 <= Len(bytes)
    BY <1>S, <2>1
  <2>3. bytes[i] = w[1] /\ bytes[i + 1] = w[2] /\ bytes[i + 2] = w[3] /\ bytes[i + 3] = w[4]
    <3>1. 1 \in 1 .. Len(w) /\ 2 \in 1 .. Len(w) /\ 3 \in 1 .. Len(w) /\ 4 \in 1 .. Len(w)
      BY <2>1
    <3>2. bytes[m + 1] = w[1] /\ bytes[m + 2] = w[2] /\ bytes[m + 3] = w[3] /\ bytes[m + 4] = w[4]
      BY <1>S, <3>1
    <3>3. i + 1 = m + 2 /\ i + 2 = m + 3 /\ i + 3 = m + 4
      OBVIOUS
    <3> QED BY <3>2, <3>3
  <2>4. i \in Nat /\ i # Len(bytes) + 1 /\ m + 1 <= Len(bytes)
    BY <1>0, <2>2
  <2>5. m + Len(w) + 1 = i + 4
    BY <2>1
  <2>6. Follow(bytes, i, 3)
    <3>1. Follow(bytes, m + 1, 4 - 1)
      BY <1>0, <2>1, FollowsFrom
    <3> QED BY <3>1
  <2> HIDE DEF i
  <2>F. IsFour(bytes, i)
    BY <2>1, <2>3, <2>6 DEF IsFour
  <2>7. Points(bytes, g, i) = On(Point4(bytes[i], bytes[i + 1], bytes[i + 2], bytes[i + 3]), g[i + 4])
    BY <2>4, <2>F, PointsFour, SMT
  <2>8. Points(bytes, g, i) = On(u, g[i + 4])
    <3>1. Point4(bytes[i], bytes[i + 1], bytes[i + 2], bytes[i + 3]) = u
      BY <2>1, <2>3
    <3> QED BY <2>7, <3>1
  <2> QED BY <1>R, <2>4, <2>5, <2>8 DEF i
<1> QED BY <1>1, <1>2, <1>3, <1>4, <1>u

-----------------------------------------------------------------------------
(***************************************************************************)
(* One or two code points in UTF-8 and back.                               *)
(***************************************************************************)
LEMMA TwoJoined ==
  ASSUME NEW u, NEW v
  PROVE  <<u>> \o <<v>> = <<u, v>>
<1> DEFINE S == {u, v}
           x == <<u>> \o <<v>>
           y == <<u, v>>
<1>1. <<u>> \in Seq(S) /\ <<v>> \in Seq(S) /\ y \in Seq(S)
  OBVIOUS
<1>2. Len(<<u>>) = 1 /\ Len(<<v>>) = 1 /\ Len(y) = 2 /\ y[1] = u /\ y[2] = v
  OBVIOUS
<1>3. <<u>>[1] = u /\ <<v>>[1] = v
  OBVIOUS
<1> HIDE DEF S, y
<1>4. /\ x \in Seq(S) /\ Len(x) = Len(<<u>>) + Len(<<v>>)
      /\ \A p \in 1 .. Len(<<u>>) + Len(<<v>>) :
           x[p] = IF p <= Len(<<u>>) THEN <<u>>[p] ELSE <<v>>[p - Len(<<u>>)]
  BY <1>1, ConcatProperties
<1> HIDE DEF x
<1>5. Len(x) = 2 /\ x[1] = u /\ x[2] = v
  BY <1>2, <1>3, <1>4
<1>6. \A p \in 1 .. 2 : p = 1 \/ p = 2
  OBVIOUS
<1>7. x = y
  BY <1>1, <1>2, <1>4, <1>5, <1>6, SeqEqual
<1> QED BY <1>7 DEF x, y

LEMMA OneInUTF8 ==
  ASSUME NEW u \in Point
  PROVE  CodePoints(UTF8(u)) = <<u>>
<1> DEFINE w == UTF8(u)
<1>1. w \in Seq(Byte) /\ Len(w) \in Nat
  BY UTF8Bytes, LenProperties
<1> HIDE DEF w
<1>2. PICK g \in [1 .. Len(w) + 1 -> Seq(Int)] :
        CodePoints(w) = g[1] /\ \A i \in 1 .. Len(w) + 1 : g[i] = Points(w, g, i)
  BY <1>1, CodePointsAre
<1>3. PointsFrom(w, g)
  BY <1>2 DEF PointsFrom
<1>4. StandsBehind(w, 0, w)
  BY <1>1 DEF StandsBehind
<1>5. g[0 + 1] = On(u, g[0 + Len(w) + 1])
  BY <1>1, <1>3, <1>4, CodePointRead DEF w
<1>6. g[Len(w) + 1] = << >>
  <2>1. Points(w, g, Len(w) + 1) = << >>
    BY DEF Points
  <2>2. Len(w) + 1 \in 1 .. Len(w) + 1
    BY <1>1
  <2> QED BY <1>2, <2>1, <2>2
<1>7. g[1] = On(u, << >>)
  <2>1. 0 + Len(w) + 1 = Len(w) + 1 /\ 0 + 1 = 1
    BY <1>1
  <2> QED BY <1>5, <1>6, <2>1
<1>8. On(u, << >>) = <<u>>
  <2>1. <<u>> \in Seq(Point)
    OBVIOUS
  <2> QED BY <2>1, ConcatEmptySeq DEF On
<1> USE DEF w
<1> QED BY <1>2, <1>7, <1>8

LEMMA TwoInUTF8 ==
  ASSUME NEW u \in Point, NEW v \in Point
  PROVE  CodePoints(UTF8(u) \o UTF8(v)) = <<u, v>>
<1> DEFINE x == UTF8(u)
           y == UTF8(v)
           w == x \o y
<1>1. /\ x \in Seq(Byte) /\ Len(x) \in Nat
      /\ y \in Seq(Byte) /\ Len(y) \in Nat
  BY UTF8Bytes, LenProperties
<1> HIDE DEF x, y
<1>2. /\ w \in Seq(Byte) /\ Len(w) = Len(x) + Len(y)
      /\ \A p \in 1 .. Len(x) + Len(y) : w[p] = IF p <= Len(x) THEN x[p] ELSE y[p - Len(x)]
  BY <1>1, ConcatProperties
<1>a. StandsBehind(w, 0, x)
  <2>1. ASSUME NEW p \in 1 .. Len(x) PROVE w[0 + p] = x[p]
    <3>1. p \in 1 .. Len(x) + Len(y) /\ p <= Len(x) /\ 0 + p = p
      BY <1>1
    <3> HIDE DEF w
    <3> QED BY <1>2, <3>1
  <2> HIDE DEF w
  <2> QED BY <1>1, <1>2, <2>1 DEF StandsBehind
<1>b. StandsBehind(w, Len(x), y)
  <2>1. ASSUME NEW p \in 1 .. Len(y) PROVE w[Len(x) + p] = y[p]
    <3>1. Len(x) + p \in 1 .. Len(x) + Len(y) /\ ~(Len(x) + p <= Len(x)) /\ Len(x) + p - Len(x) = p
      BY <1>1
    <3> HIDE DEF w
    <3> QED BY <1>2, <3>1
  <2> HIDE DEF w
  <2> QED BY <1>1, <1>2, <2>1 DEF StandsBehind
<1> HIDE DEF w
<1>3. PICK g \in [1 .. Len(w) + 1 -> Seq(Int)] :
        CodePoints(w) = g[1] /\ \A i \in 1 .. Len(w) + 1 : g[i] = Points(w, g, i)
  BY <1>2, CodePointsAre
<1>4. PointsFrom(w, g)
  BY <1>3 DEF PointsFrom
<1>5. g[0 + 1] = On(u, g[0 + Len(x) + 1])
  BY <1>2, <1>4, <1>a, CodePointRead DEF x
<1>6. g[Len(x) + 1] = On(v, g[Len(x) + Len(y) + 1])
  <2> DEFINE m == Len(x)
  <2>1. m \in Nat /\ StandsBehind(w, m, y)
    BY <1>1, <1>b
  <2> HIDE DEF m
  <2>2. g[m + 1] = On(v, g[m + Len(y) + 1])
    BY <1>2, <1>4, <2>1, CodePointRead DEF y
  <2> USE DEF m
  <2> QED BY <2>2
<1>7. g[Len(w) + 1] = << >>
  <2>1. Points(w, g, Len(w) + 1) = << >>
    BY DEF Points
  <2>2. Len(w) + 1 \in 1 .. Len(w) + 1
    BY <1>1, <1>2
  <2> QED BY <1>3, <2>1, <2>2
<1>8. g[1] = On(u, On(v, << >>))
  <2>1. 0 + Len(x) + 1 = Len(x) + 1 /\ 0 + 1 = 1 /\ Len(x) + Len(y) + 1 = Len(w) + 1
    BY <1>1, <1>2
  <2> QED BY <1>5, <1>6, <1>7, <2>1
<1>9. On(u, On(v, << >>)) = <<u, v>>
  <2>1. <<v>> \in Seq(Point)
    OBVIOUS
  <2>2. On(v, << >>) = <<v>>
    BY <2>1, ConcatEmptySeq DEF On
  <2> QED BY <2>2, TwoJoined DEF On
<1> USE DEF w, x, y
<1> QED BY <1>3, <1>8, <1>9

-----------------------------------------------------------------------------
(***************************************************************************)
(* Strings of one or two \u escapes.                                       *)
(***************************************************************************)
\* At place i of s an escape of the unit u begins.
EscapeOf(s, i, u) ==
  /\ i \in Nat /\ 1 <= i /\ i + 1 <= Len(s)
  /\ s[i] = Raw(BACKSLASH)
  /\ s[i + 1].class = "unicode" /\ s[i + 1].unit = u
  /\ u # Bad

LEMMA EscapeIs ==
  ASSUME NEW s, Readable(s), NEW i, NEW u, EscapeOf(s, i, u), NEW from, ReadFrom(s, from),
         NEW cp, cp = CodePointAt(s, i + 1), cp.ok
  PROVE  /\ UnitAt(s, i + 1) = u
         /\ from[i] = Prepend(UTF8(cp.point), from[i + 1 + cp.length])
<1>1. Len(s) \in Nat /\ DOMAIN s = 1 .. Len(s)
  BY DEF Readable
<1>2. /\ i \in Nat /\ i \in 1 .. Len(s) /\ i + 1 \in 1 .. Len(s)
      /\ i # Len(s) /\ i # Len(s) + 1 /\ i <= Len(s) /\ i \in 1 .. Len(s) + 1
  <2> DEFINE n == Len(s)
  <2>1. n \in Nat /\ i \in Nat /\ 1 <= i /\ i + 1 <= n
    BY <1>1 DEF EscapeOf
  <2> HIDE DEF n
  <2>2. i \in 1 .. n /\ i + 1 \in 1 .. n /\ i <= n
    BY <2>1
  <2>3. i # n /\ i # n + 1 /\ i \in 1 .. n + 1
    BY <2>1
  <2> QED BY <2>1, <2>2, <2>3 DEF n
<1>3. s[i].class = "backslash" /\ s[i].class # "quote"
  BY RawIs, ClassIs DEF EscapeOf, BACKSLASH
<1>4. s[i + 1].class = "unicode" /\ s[i + 1].unit = u
  BY DEF EscapeOf
<1>5. UnitAt(s, i + 1) = u
  <2>1. i + 1 \in 1 .. Len(s)
    BY <1>2
  <2>2. i + 1 \in DOMAIN s
    BY <1>1, <2>1, Zenon
  <2> QED BY <1>4, <2>2 DEF UnitAt
<1>6. Reads(s, from, i)
        = IF cp.ok THEN Prepend(UTF8(cp.point), from[i + 1 + cp.length]) ELSE Refused
  BY <1>2, <1>3, <1>4 DEF Reads
<1>7. from[i] = Reads(s, from, i)
  <2>1. i \in 1 .. Len(s) + 1
    BY <1>2, Zenon
  <2> QED BY <2>1 DEF ReadFrom
<1> QED BY <1>5, <1>6, <1>7

LEMMA EscapeUnit ==
  ASSUME NEW s, Readable(s), NEW i, NEW u, EscapeOf(s, i, u)
  PROVE  UnitAt(s, i + 1) = u /\ u \in Nat /\ u < 65536
<1>1. Len(s) \in Nat /\ DOMAIN s = 1 .. Len(s)
  BY DEF Readable
<1>2. i + 1 \in DOMAIN s
  BY <1>1 DEF EscapeOf
<1>3. s[i + 1].class = "unicode" /\ s[i + 1].unit = u /\ u # Bad
  BY DEF EscapeOf
<1>4. UnitAt(s, i + 1) = u
  BY <1>2, <1>3 DEF UnitAt
<1>5. IsUnit(u)
  BY <1>2, <1>3 DEF Readable
<1> QED BY <1>3, <1>4, <1>5, SMT DEF IsUnit

LEMMA EscapePoint ==
  ASSUME NEW s, Readable(s), NEW i, NEW u, EscapeOf(s, i, u)
  PROVE  u \in Point
<1>1. u \in Nat /\ u < 65536
  BY EscapeUnit
<1> QED BY <1>1, SMT DEF Point

LEMMA SingleRead ==
  ASSUME NEW s, Readable(s), NEW i, NEW u, EscapeOf(s, i, u), ~IsHighSurrogate(u),
         NEW from, ReadFrom(s, from)
  PROVE  from[i] = Prepend(UTF8(u), from[i + 2])
<1> DEFINE cp == CodePointAt(s, i + 1)
<1>1. UnitAt(s, i + 1) = u /\ u # Bad /\ i \in Nat
  BY EscapeUnit DEF EscapeOf
<1>2. cp = [ok |-> TRUE, length |-> 1, point |-> u]
  BY <1>1, CodePointOne
<1>3. cp.ok /\ cp.point = u /\ cp.length = 1
  BY <1>2
<1> HIDE DEF cp
<1>4. from[i] = Prepend(UTF8(cp.point), from[i + 1 + cp.length])
  BY <1>3, EscapeIs DEF cp
<1>5. i + 1 + cp.length = i + 2
  BY <1>1, <1>3
<1> QED BY <1>3, <1>4, <1>5

\* The code point of a pair.
Pair(u, v) == 65536 + (u % 1024) * 1024 + (v % 1024)

LEMMA CodePointPair ==
  ASSUME NEW s, NEW j, NEW u, NEW v,
         UnitAt(s, j) = u, u # Bad, IsHighSurrogate(u),
         j + 1 \in DOMAIN s, s[j + 1] = Raw(BACKSLASH), UnitAt(s, j + 2) = v, v # Bad
  PROVE  CodePointAt(s, j) = [ok |-> TRUE, length |-> 3, point |-> Pair(u, v)]
<1> DEFINE second == IF j + 1 \in DOMAIN s /\ s[j + 1] = Raw(BACKSLASH)
                     THEN UnitAt(s, j + 2) ELSE Bad
<1>1. CodePointAt(s, j)
        = CASE u = Bad \/ (IsHighSurrogate(u) /\ second = Bad) -> Refused
            [] u # Bad /\ ~IsHighSurrogate(u) -> [ok |-> TRUE, length |-> 1, point |-> u]
            [] OTHER -> [ok |-> TRUE, length |-> 3, point |-> Pair(u, second)]
  BY SMT DEF CodePointAt, Pair
<1>2. second = v
  OBVIOUS
<1> HIDE DEF second
<1> QED BY <1>1, <1>2

LEMMA PairRead ==
  ASSUME NEW s, Readable(s), NEW i, NEW u, EscapeOf(s, i, u), IsHighSurrogate(u),
         NEW v, EscapeOf(s, i + 2, v), NEW from, ReadFrom(s, from)
  PROVE  from[i] = Prepend(UTF8(Pair(u, v)), from[i + 4])
<1> DEFINE cp == CodePointAt(s, i + 1)
<1>0. Len(s) \in Nat /\ DOMAIN s = 1 .. Len(s)
  BY DEF Readable
<1>1. UnitAt(s, i + 1) = u /\ u # Bad /\ i \in Nat
  BY EscapeUnit DEF EscapeOf
<1>2. UnitAt(s, i + 1 + 2) = v /\ v # Bad
  <2>1. UnitAt(s, i + 2 + 1) = v /\ v # Bad
    <3> DEFINE j == i + 2
    <3>1. EscapeOf(s, j, v)
      OBVIOUS
    <3> HIDE DEF j
    <3>2. UnitAt(s, j + 1) = v /\ v # Bad
      <4>1. UnitAt(s, j + 1) = v
        BY <3>1, EscapeUnit
      <4> QED BY <4>1 DEF EscapeOf
    <3> QED BY <3>2 DEF j
  <2>2. i + 2 + 1 = i + 1 + 2
    BY <1>1
  <2> QED BY <2>1, <2>2
<1>3. i + 1 + 1 \in DOMAIN s /\ s[i + 1 + 1] = Raw(BACKSLASH)
  <2>1. i + 1 + 1 = i + 2
    BY <1>1
  <2>2. i + 2 \in Nat /\ i + 2 + 1 <= Len(s) /\ s[i + 2] = Raw(BACKSLASH)
    BY <1>1 DEF EscapeOf
  <2> QED BY <1>0, <1>1, <2>1, <2>2
<1>4. cp = [ok |-> TRUE, length |-> 3, point |-> Pair(u, v)]
  <2> DEFINE j == i + 1
  <2>1. /\ UnitAt(s, j) = u /\ u # Bad
        /\ j + 1 \in DOMAIN s /\ s[j + 1] = Raw(BACKSLASH)
        /\ UnitAt(s, j + 2) = v /\ v # Bad
    BY <1>1, <1>2, <1>3
  <2> HIDE DEF j
  <2>2. CodePointAt(s, j) = [ok |-> TRUE, length |-> 3, point |-> Pair(u, v)]
    BY <2>1, CodePointPair
  <2> QED BY <2>2 DEF j
<1>5. cp.ok /\ cp.point = Pair(u, v) /\ cp.length = 3
  BY <1>4
<1> HIDE DEF cp
<1>6. from[i] = Prepend(UTF8(cp.point), from[i + 1 + cp.length])
  BY <1>5, EscapeIs DEF cp
<1>7. i + 1 + cp.length = i + 4
  BY <1>1, <1>5
<1> QED BY <1>5, <1>6, <1>7

\* The text that is decoded to the code points c.
DecodedTo(s, c) == DecodeString(s).ok /\ CodePoints(DecodeString(s).bytes) = c

LEMMA ReadToTheEnd ==
  ASSUME NEW s, Readable(s)
  PROVE  \E from : DecodeString(s) = from[1] /\ ReadFrom(s, from)
                     /\ from[Len(s) + 1] = Decoded(<< >>)
<1>1. PICK from \in [1 .. Len(s) + 1 -> Results(Bytes(s))] :
        DecodeString(s) = from[1] /\ \A i \in 1 .. Len(s) + 1 : from[i] = Reads(s, from, i)
  BY DecodeIs
<1>2. Len(s) \in Nat
  BY DEF Readable
<1>3. Len(s) + 1 \in 1 .. Len(s) + 1 /\ ~(Len(s) + 1 <= Len(s))
  BY <1>2
<1>4. Reads(s, from, Len(s) + 1) = Decoded(<< >>)
  BY <1>3 DEF Reads
<1> QED BY <1>1, <1>3, <1>4 DEF ReadFrom

LEMMA DecodedIs ==
  ASSUME NEW w, NEW c
  PROVE  /\ Prepend(w, Decoded(c)) = Decoded(w \o c)
         /\ Decoded(w).ok /\ Decoded(w).bytes = w
BY DEF Prepend, Decoded

LEMMA OneUnit ==
  ASSUME NEW s, Readable(s), Len(s) = 2, NEW u, EscapeOf(s, 1, u), ~IsHighSurrogate(u)
  PROVE  DecodedTo(s, <<u>>)
<1>1. PICK from : DecodeString(s) = from[1] /\ ReadFrom(s, from)
                    /\ from[Len(s) + 1] = Decoded(<< >>)
  BY ReadToTheEnd
<1>2. u \in Point
  BY EscapePoint
<1>3. from[1] = Prepend(UTF8(u), from[1 + 2])
  BY <1>1, SingleRead
<1>4. from[1] = Decoded(UTF8(u) \o << >>)
  <2>1. Len(s) + 1 = 1 + 2
    OBVIOUS
  <2>2. from[1 + 2] = Decoded(<< >>)
    BY <1>1, <2>1
  <2>3. Prepend(UTF8(u), Decoded(<< >>)) = Decoded(UTF8(u) \o << >>)
    BY DecodedIs, Zenon
  <2> QED BY <1>3, <2>2, <2>3, Zenon
<1>5. UTF8(u) \o << >> = UTF8(u)
  BY <1>2, UTF8Bytes, ConcatEmptySeq
<1>6. DecodeString(s) = Decoded(UTF8(u))
  BY <1>1, <1>4, <1>5
<1>7. DecodeString(s).ok /\ DecodeString(s).bytes = UTF8(u)
  BY <1>6, DecodedIs
<1> QED BY <1>2, <1>7, OneInUTF8 DEF DecodedTo

LEMMA TwoUnits ==
  ASSUME NEW s, Readable(s), Len(s) = 4,
         NEW u, EscapeOf(s, 1, u), ~IsHighSurrogate(u),
         NEW v, EscapeOf(s, 3, v), ~IsHighSurrogate(v)
  PROVE  DecodedTo(s, <<u, v>>)
<1>1. PICK from : DecodeString(s) = from[1] /\ ReadFrom(s, from)
                    /\ from[Len(s) + 1] = Decoded(<< >>)
  BY ReadToTheEnd
<1>2. u \in Point /\ v \in Point
  BY EscapePoint
<1>3. from[1] = Prepend(UTF8(u), from[1 + 2]) /\ from[3] = Prepend(UTF8(v), from[3 + 2])
  BY <1>1, SingleRead
<1>4. from[3] = Decoded(UTF8(v) \o << >>)
  <2>1. Len(s) + 1 = 3 + 2
    OBVIOUS
  <2>2. from[3 + 2] = Decoded(<< >>)
    BY <1>1, <2>1
  <2>3. Prepend(UTF8(v), Decoded(<< >>)) = Decoded(UTF8(v) \o << >>)
    BY DecodedIs, Zenon
  <2> QED BY <1>3, <2>2, <2>3, Zenon
<1>5. UTF8(v) \o << >> = UTF8(v)
  BY <1>2, UTF8Bytes, ConcatEmptySeq
<1>6. from[1] = Decoded(UTF8(u) \o UTF8(v))
  BY <1>3, <1>4, <1>5, DecodedIs
<1>7. DecodeString(s) = Decoded(UTF8(u) \o UTF8(v))
  BY <1>1, <1>6
<1>8. DecodeString(s).ok /\ DecodeString(s).bytes = UTF8(u) \o UTF8(v)
  BY <1>7, DecodedIs
<1> QED BY <1>2, <1>8, TwoInUTF8 DEF DecodedTo

LEMMA OnePair ==
  ASSUME NEW s, Readable(s), Len(s) = 4,
         NEW u, EscapeOf(s, 1, u), IsHighSurrogate(u),
         NEW v, EscapeOf(s, 3, v), IsLowSurrogate(v)
  PROVE  DecodedTo(s, <<65536 + (u - 55296) * 1024 + (v - 56320)>>)
<1> DEFINE p == Pair(u, v)
<1>1. PICK from : DecodeString(s) = from[1] /\ ReadFrom(s, from)
                    /\ from[Len(s) + 1] = Decoded(<< >>)
  BY ReadToTheEnd
<1>2. u \in Nat /\ v \in Nat
  BY EscapeUnit, SMT
<1>3. /\ p \in Point
      /\ p = 65536 + (u - 55296) * 1024 + (v - 56320)
  <2>1. 55296 <= u /\ u <= 56319 /\ 56320 <= v /\ v <= 57343
    BY SMT DEF IsHighSurrogate, IsLowSurrogate
  <2>2. u % 1024 = u - 55296 /\ v % 1024 = v - 56320
    BY <1>2, <2>1, SMT
  <2> QED BY <1>2, <2>1, <2>2, SMT DEF Pair, Point
<1>4. from[1] = Prepend(UTF8(p), from[1 + 4])
  <2>1. EscapeOf(s, 1 + 2, v)
    BY SMT
  <2> QED BY <1>1, <2>1, PairRead
<1> HIDE DEF p
<1>5. from[1] = Decoded(UTF8(p) \o << >>)
  <2>1. Len(s) + 1 = 1 + 4
    OBVIOUS
  <2>2. from[1 + 4] = Decoded(<< >>)
    BY <1>1, <2>1
  <2>3. Prepend(UTF8(p), Decoded(<< >>)) = Decoded(UTF8(p) \o << >>)
    BY DecodedIs, Zenon
  <2> QED BY <1>4, <2>2, <2>3, Zenon
<1>6. UTF8(p) \o << >> = UTF8(p)
  BY <1>3, UTF8Bytes, ConcatEmptySeq, SMT
<1>7. DecodedTo(s, <<p>>)
  <2>1. p \in Point
    BY <1>3, SMT
  <2> QED BY <1>1, <1>5, <1>6, <2>1, DecodedIs, OneInUTF8 DEF DecodedTo
<1> QED BY <1>3, <1>7, SMT

-----------------------------------------------------------------------------
(***************************************************************************)
(* The strings of a text.                                                  *)
(***************************************************************************)
LEMMA CharacterIs ==
  ASSUME NEW c \in Character
  PROVE  /\ c.class = "unicode" => IsUnit(c.unit)
         /\ c.class = "backslash" => c = Raw(BACKSLASH)
<1>1. CASE \E b : c = Raw(b)
  <2>1. PICK b : c = Raw(b)
    BY <1>1
  <2>2. c.class = ClassOf(b)
    BY <2>1, RawIs
  <2> QED BY <2>1, <2>2, ClassIs DEF BACKSLASH
<1>2. ASSUME NEW u \in Unit, c = Unicode(u)
      PROVE  /\ c.class = "unicode" => IsUnit(c.unit)
             /\ c.class = "backslash" => c = Raw(BACKSLASH)
  <2>1. c.class = "unicode" /\ c.unit = u
    BY <1>2, UnicodeIs
  <2>2. IsUnit(u)
    BY ByteAssumption, SMT DEF IsUnit
  <2> QED BY <2>1, <2>2
<1>3. CASE c = Rest
  <2>1. c.class = "rest"
    BY <1>3 DEF Rest
  <2> QED BY <2>1
<1> QED BY <1>1, <1>2, <1>3 DEF Character

\* s holds the elements of t at m .. n.
IsPart(s, t, m, n) == \A k \in 1 .. n - m + 1 : s[k] = t[m + k - 1]

LEMMA PartIs ==
  ASSUME NEW t, NEW m \in Int, NEW n \in Int, \A k \in m .. n : t[k] \in Character,
         NEW s, s = SubSeq(t, m, n)
  PROVE  /\ s \in Seq(Character)
         /\ Len(s) = IF m <= n THEN n - m + 1 ELSE 0
         /\ IsPart(s, t, m, n)
<1>1. s \in Seq(Character)
  BY SubSeqProperties
<1>2. Len(s) = IF m <= n THEN n - m + 1 ELSE 0
  BY SubSeqProperties
<1>3. IsPart(s, t, m, n)
  BY SubSeqProperties DEF IsPart
<1> QED BY <1>1, <1>2, <1>3

LEMMA ContentIs ==
  ASSUME TypeOK, NEW i \in DOMAIN tokens, NEW s,
         s = SubSeq(text, tokens[i].from + 2, tokens[i].to - 1)
  PROVE  /\ Readable(s)
         /\ \A k \in 1 .. Len(s) : tokens[i].from + 1 + k \in DOMAIN text
                                     /\ s[k] = text[tokens[i].from + 1 + k]
<1> DEFINE f == tokens[i].from
           e == tokens[i].to
<1>1. f \in Nat /\ e \in Nat /\ e <= Len(text) /\ Len(text) \in Nat
  <2>1. e <= current /\ current \in 0 .. Len(text)
    BY DEF TypeOK
  <2>2. Len(text) \in Nat
    BY LenProperties DEF TypeOK
  <2> QED BY <2>1, <2>2, TokenPlaces
<1>2. DOMAIN text = 1 .. Len(text) /\ \A k \in 1 .. Len(text) : text[k] \in Character
  BY LenProperties, ElementOfSeq DEF TypeOK
<1> HIDE DEF f, e
<1>3. /\ s \in Seq(Character)
      /\ Len(s) = IF f + 2 <= e - 1 THEN (e - 1) - (f + 2) + 1 ELSE 0
      /\ \A k \in 1 .. (e - 1) - (f + 2) + 1 : s[k] = text[f + 2 + k - 1]
  <2> DEFINE m == f + 2
             n == e - 1
  <2>1. m \in Int /\ n \in Int
    BY <1>1
  <2>2. \A k \in m .. n : text[k] \in Character
    BY <1>1, <1>2
  <2>3. s = SubSeq(text, m, n)
    BY DEF f, e
  <2> HIDE DEF m, n
  <2>4. s \in Seq(Character)
    BY <2>1, <2>2, <2>3, PartIs
  <2>5. Len(s) = IF m <= n THEN n - m + 1 ELSE 0
    BY <2>1, <2>2, <2>3, PartIs
  <2>6. IsPart(s, text, m, n)
    BY <2>1, <2>2, <2>3, PartIs
  <2> USE DEF m, n
  <2> QED BY <2>4, <2>5, <2>6, Zenon DEF IsPart
<1>4. Len(s) \in Nat /\ DOMAIN s = 1 .. Len(s) /\ \A k \in 1 .. Len(s) : s[k] \in Character
  BY <1>3, LenProperties, ElementOfSeq
<1>5. Readable(s)
  BY <1>4, CharacterIs DEF Readable
<1>6. ASSUME NEW k \in 1 .. Len(s)
      PROVE  f + 1 + k \in DOMAIN text /\ s[k] = text[f + 1 + k]
  <2>1. k \in 1 .. (e - 1) - (f + 2) + 1
    BY <1>1, <1>3, <1>4
  <2>2. f + 2 + k - 1 = f + 1 + k /\ f + 1 + k \in 1 .. Len(text)
    BY <1>1, <2>1
  <2> QED BY <1>2, <1>3, <2>1, <2>2
<1> USE DEF f
<1> QED BY <1>5, <1>6

(***************************************************************************)
(* A string that was read and is quoted again is read as the same bytes,   *)
(* whatever its bytes are: quotes, backslashes, controls, NUL bytes and    *)
(* those of UTF-8.                                                         *)
(***************************************************************************)
THEOREM QuotedIsReadBack == Spec => []QuotedReadsBack
<1>1. TypeOK => QuotedReadsBack
  <2> SUFFICES ASSUME TypeOK, NEW i \in Strings, Content(i).ok
               PROVE  DecodeString(Quoted(Content(i).bytes)) = Content(i)
    BY DEF QuotedReadsBack
  <2> DEFINE s == SubSeq(text, tokens[i].from + 2, tokens[i].to - 1)
             d == DecodeString(s)
  <2>1. d = Content(i)
    BY DEF Content
  <2>2. Readable(s)
    <3>1. i \in DOMAIN tokens
      BY DEF Strings
    <3> QED BY <3>1, ContentIs
  <2> HIDE DEF s
  <2>3. PICK from \in [1 .. Len(s) + 1 -> Results(Bytes(s))] : d = from[1]
    BY <2>2, DecodeIs
  <2>4. d \in Results(Bytes(s))
    <3>1. 1 \in 1 .. Len(s) + 1
      BY <2>2 DEF Readable
    <3> QED BY <2>3, <3>1
  <2> HIDE DEF d
  <2>5. d # Refused
    BY <2>1 DEF Refused
  <2>6. PICK b \in Seq(Bytes(s)) : d = Decoded(b)
    BY <2>4, <2>5 DEF Results
  <2>7. d.bytes = b
    BY <2>6 DEF Decoded
  <2>8. DecodeString(Quoted(b)) = Decoded(b)
    BY QuotedReads
  <2> QED BY <2>1, <2>6, <2>7, <2>8
<1> QED BY <1>1, LexerTypes, PTL

\* A code unit stands behind a backslash, also the one that is about to be read.
UnitsAreEscaped ==
  /\ \A k \in DOMAIN text :
       text[k].class = "unicode" => k > 1 /\ text[k - 1].class = "backslash"
  /\ at = "escaped" => current >= 1 /\ text[current].class = "backslash"

LEMMA StepEscapes ==
  ASSUME Step
  PROVE  /\ text' = text
         /\ at' = "escaped" => current' = current + 1 /\ text[current + 1].class = "backslash"
<1>1. CASE SkipSpace \/ ReadSingle \/ ReadNul \/ ReadUnknown \/ EndOfText
  BY <1>1 DEF SkipSpace, ReadSingle, ReadNul, ReadUnknown, EndOfText, Take, Emit
<1>2. CASE BeginLiteral \/ Match
  BY <1>2 DEF BeginLiteral, Match, Begin, Emit
<1>3. CASE BeginNumber \/ ReadDigits \/ ReadPoint \/ ReadExponent \/ ReadSign \/ EndNumber
  <2>1. CASE ReadDigits
    BY <2>1 DEF ReadDigits, Take
  <2>2. CASE ReadExponent
    BY <2>2 DEF ReadExponent, Take
  <2>3. CASE BeginNumber \/ ReadPoint \/ ReadSign
    BY <2>3 DEF BeginNumber, ReadPoint, ReadSign, Begin, Take
  <2>4. CASE EndNumber
    BY <2>4 DEF EndNumber, Emit
  <2> QED BY <1>3, <2>1, <2>2, <2>3, <2>4
<1>4. CASE BeginString \/ EndString
  BY <1>4 DEF BeginString, EndString, Begin, Emit
<1>5. CASE ReadInString
  BY <1>5 DEF ReadInString, Take, Sees
<1>6. CASE BeginComment \/ ReadSlash
  BY <1>6 DEF BeginComment, ReadSlash, Begin, Take, Emit
<1>7. CASE ReadBlock
  BY <1>7 DEF ReadBlock, Take, Emit, Leave
<1>8. CASE ReadLine
  BY <1>8 DEF ReadLine, Take, Emit
<1> QED BY <1>1, <1>2, <1>3, <1>4, <1>5, <1>6, <1>7, <1>8 DEF Step

LEMMA OfferedUnits ==
  ASSUME NEW c \in Offered, c.class = "unicode"
  PROVE  at = "escaped"
<1>1. \A b : Raw(b).class # "unicode"
  BY RawIs, ClassIs
<1>2. Rest.class # "unicode"
  BY DEF Rest
<1> QED BY <1>1, <1>2 DEF Offered

LEMMA UnitsAreEscapedHolds == Spec => []UnitsAreEscaped
<1>1. Init => UnitsAreEscaped
  BY DEF Init, UnitsAreEscaped
<1>2. TypeOK /\ UnitsAreEscaped /\ [Next]_vars => UnitsAreEscaped'
  <2> SUFFICES ASSUME TypeOK, UnitsAreEscaped, [Next]_vars
               PROVE  UnitsAreEscaped'
    OBVIOUS
  <2>0. /\ Len(text) \in Nat /\ DOMAIN text = 1 .. Len(text) /\ current \in 0 .. Len(text)
        /\ text \in Seq(Character)
    BY LenProperties DEF TypeOK
  <2>1. CASE UNCHANGED vars \/ Close
    BY <2>1 DEF vars, Close, UnitsAreEscaped
  <2>2. ASSUME NEW c \in Offered, More(c)
        PROVE  UnitsAreEscaped'
    <3>1. /\ text' = Append(text, c) /\ current = Len(text)
          /\ current' = current /\ at' = at
      BY <2>2 DEF More
    <3>2. /\ Len(text') = Len(text) + 1 /\ DOMAIN text' = 1 .. Len(text) + 1
          /\ \A k \in 1 .. Len(text) : text'[k] = text[k]
          /\ text'[Len(text) + 1] = c
      BY <2>0, <3>1
    <3>3. ASSUME NEW k \in DOMAIN text', text'[k].class = "unicode"
          PROVE  k > 1 /\ text'[k - 1].class = "backslash"
      <4>1. CASE k = Len(text) + 1
        <5>1. at = "escaped"
          BY <3>2, <3>3, <4>1, OfferedUnits
        <5>2. current >= 1 /\ text[current].class = "backslash"
          BY <5>1 DEF UnitsAreEscaped
        <5>3. k - 1 = current /\ current \in 1 .. Len(text)
          BY <2>0, <3>1, <4>1, <5>2
        <5> QED BY <3>2, <4>1, <5>2, <5>3
      <4>2. CASE k # Len(text) + 1
        <5>1. k \in 1 .. Len(text)
          BY <2>0, <3>2, <4>2
        <5>2. k > 1 /\ text[k - 1].class = "backslash"
          BY <2>0, <3>2, <3>3, <5>1 DEF UnitsAreEscaped
        <5>3. k - 1 \in 1 .. Len(text)
          BY <5>1, <5>2
        <5> QED BY <3>2, <5>2, <5>3
      <4> QED BY <4>1, <4>2
    <3>4. at' = "escaped" => current' >= 1 /\ text'[current'].class = "backslash"
      BY <2>0, <3>1, <3>2 DEF UnitsAreEscaped
    <3> QED BY <3>3, <3>4 DEF UnitsAreEscaped
  <2>3. CASE Step
    <3>1. /\ text' = text
          /\ at' = "escaped" => current' = current + 1 /\ text[current + 1].class = "backslash"
      BY <2>3, StepEscapes
    <3>2. at' = "escaped" => current' >= 1 /\ text'[current'].class = "backslash"
      BY <2>0, <3>1
    <3> QED BY <3>1, <3>2 DEF UnitsAreEscaped
  <2> QED BY <2>1, <2>2, <2>3 DEF Next
<1> QED BY <1>1, <1>2, LexerTypes, PTL DEF Spec

\* In s every code unit stands behind a backslash: each is an escape.
UnitsAreEscapes(s) ==
  \A k \in Nat :
    1 <= k /\ k + 1 <= Len(s) /\ s[k + 1].class = "unicode" /\ s[k + 1].unit # Bad
      => EscapeOf(s, k, s[k + 1].unit)

LEMMA EscapesAre ==
  ASSUME TypeOK, UnitsAreEscaped, NEW i \in DOMAIN tokens, NEW s,
         s = SubSeq(text, tokens[i].from + 2, tokens[i].to - 1)
  PROVE  UnitsAreEscapes(s)
<1> SUFFICES ASSUME NEW k \in Nat, 1 <= k, k + 1 <= Len(s),
                    s[k + 1].class = "unicode", s[k + 1].unit # Bad
             PROVE  EscapeOf(s, k, s[k + 1].unit)
  BY DEF UnitsAreEscapes
<1> DEFINE f == tokens[i].from
           n == Len(s)
           p == f + 1 + k
           q == f + 1 + (k + 1)
<1>1. n \in Nat /\ f \in Nat
  BY ContentIs, TokenPlaces DEF Readable
<1>2. \A j \in 1 .. n : f + 1 + j \in DOMAIN text /\ s[j] = text[f + 1 + j]
  BY ContentIs
<1>3. k \in 1 .. n /\ k + 1 \in 1 .. n
  <2> HIDE DEF n
  <2>1. k + 1 <= n
    BY DEF n
  <2> QED BY <1>1, <2>1
<1>4. p \in DOMAIN text /\ s[k] = text[p]
  BY <1>2, <1>3
<1>5. q \in DOMAIN text /\ s[k + 1] = text[q]
  BY <1>2, <1>3
<1>6. q - 1 = p
  <2> HIDE DEF f
  <2> QED BY <1>1
<1> HIDE DEF f, n, p, q
<1>7. text[q].class = "unicode"
  BY <1>5
<1>8. text[p].class = "backslash"
  BY <1>5, <1>6, <1>7 DEF UnitsAreEscaped
<1>9. text[p] \in Character
  <2>1. p \in 1 .. Len(text)
    BY <1>4, LenProperties DEF TypeOK
  <2> QED BY <2>1, ElementOfSeq DEF TypeOK
<1>10. s[k] = Raw(BACKSLASH)
  BY <1>4, <1>8, <1>9, CharacterIs
<1> QED BY <1>10 DEF EscapeOf

\* The units that the escapes of s spell, every second character of s, and that they
\* are UTF-16.
UnitsOf(s) ==
  [k \in 1 .. Len(s) \div 2 |-> IF s[2 * k].class = "unicode" THEN s[2 * k].unit ELSE Bad]

SpellsUTF16(s, units) ==
  /\ Bad \notin {units[k] : k \in DOMAIN units}
  /\ \A k \in DOMAIN units :
       /\ IsHighSurrogate(units[k]) =>
            k + 1 \in DOMAIN units /\ IsLowSurrogate(units[k + 1])
       /\ IsLowSurrogate(units[k]) => k = 2 /\ IsHighSurrogate(units[1])

LEMMA OneEscape ==
  ASSUME NEW s, Readable(s), Len(s) = 2, UnitsAreEscapes(s), s[2].class = "unicode",
         SpellsUTF16(s, UnitsOf(s))
  PROVE  DecodedTo(s, FromUTF16(UnitsOf(s)))
<1> DEFINE u == s[2].unit
           units == UnitsOf(s)
<1>1. DOMAIN units = 1 .. 1 /\ units[1] = u
  <2>1. 1 .. Len(s) \div 2 = 1 .. 1
    BY SMT
  <2>2. units = [k \in 1 .. 1 |-> IF s[2 * k].class = "unicode" THEN s[2 * k].unit ELSE Bad]
    BY <2>1, Zenon DEF UnitsOf
  <2>3. 1 \in 1 .. 1 /\ 2 * 1 = 2
    BY SMT
  <2> HIDE DEF units
  <2> QED BY <2>2, <2>3, Zenon
<1>2. units = <<u>>
  <2>1. units = [k \in 1 .. 1 |-> u]
    <3>1. \A k \in 1 .. 1 : s[2 * k] = s[2]
      BY SMT
    <3>2. 1 .. Len(s) \div 2 = 1 .. 1
      BY SMT
    <3> QED BY <3>1, <3>2, Zenon DEF UnitsOf
  <2> HIDE DEF units, u
  <2>2. [k \in 1 .. 1 |-> u] = <<u>>
    OBVIOUS
  <2> QED BY <2>1, <2>2, Zenon
<1> HIDE DEF units
<1>3. 1 \in DOMAIN units /\ 1 + 1 \notin DOMAIN units
  BY <1>1, SMT
<1>4. u # Bad /\ ~IsHighSurrogate(u)
  BY <1>1, <1>3, Zenon DEF SpellsUTF16, units
<1>5. EscapeOf(s, 1, u)
  <2>1. 1 \in Nat /\ 1 <= 1 /\ 1 + 1 <= Len(s) /\ 1 + 1 = 2
    BY SMT
  <2> QED BY <1>4, <2>1, Zenon DEF UnitsAreEscapes
<1>6. DecodedTo(s, <<u>>)
  BY <1>4, <1>5, OneUnit, Zenon
<1>7. FromUTF16(units) = <<u>>
  <2> HIDE DEF u
  <2>1. Len(units) = 1
    BY <1>2
  <2> QED BY <1>2, <2>1, SMT DEF FromUTF16
<1> QED BY <1>6, <1>7 DEF units

LEMMA TwoEscapes ==
  ASSUME NEW s, Readable(s), Len(s) = 4, UnitsAreEscapes(s), s[2].class = "unicode",
         s[4].class = "unicode", SpellsUTF16(s, UnitsOf(s))
  PROVE  DecodedTo(s, FromUTF16(UnitsOf(s)))
<1> DEFINE u == s[2].unit
           v == s[4].unit
           units == UnitsOf(s)
<1>1. units = <<u, v>>
  <2>1. 1 .. Len(s) \div 2 = 1 .. 2
    BY SMT
  <2>2. units = [k \in 1 .. 2 |-> IF s[2 * k].class = "unicode" THEN s[2 * k].unit ELSE Bad]
    BY <2>1, Zenon DEF UnitsOf
  <2>3. 1 \in 1 .. 2 /\ 2 * 1 = 2 /\ 2 \in 1 .. 2 /\ 2 * 2 = 4
    BY SMT
  <2> HIDE DEF units
  <2>4. units[1] = u /\ units[2] = v
    BY <2>2, <2>3, Zenon
  <2>5. units = [k \in 1 .. 2 |-> units[k]]
    BY <2>2, Zenon
  <2> HIDE DEF u, v
  <2> QED BY <2>4, <2>5
<1> HIDE DEF units
<1>2. /\ Len(units) = 2 /\ DOMAIN units = 1 .. 2 /\ units[1] = u /\ units[2] = v
  <2> HIDE DEF u, v
  <2> QED BY <1>1
<1>3. 1 \in DOMAIN units /\ 2 \in DOMAIN units /\ 1 + 1 = 2 /\ 2 + 1 \notin DOMAIN units /\ 1 # 2
  BY <1>2, SMT
<1>4. u # Bad /\ v # Bad
  BY <1>2, <1>3, Zenon DEF SpellsUTF16, units
<1>5. IsHighSurrogate(u) => IsLowSurrogate(v)
  BY <1>2, <1>3, Zenon DEF SpellsUTF16, units
<1>6. ~IsHighSurrogate(v)
  BY <1>2, <1>3, Zenon DEF SpellsUTF16, units
<1>7. EscapeOf(s, 1, u)
  <2>1. 1 \in Nat /\ 1 <= 1 /\ 1 + 1 <= Len(s) /\ 1 + 1 = 2
    BY SMT
  <2> QED BY <1>4, <2>1, Zenon DEF UnitsAreEscapes
<1>8. EscapeOf(s, 3, v)
  <2>1. 3 \in Nat /\ 1 <= 3 /\ 3 + 1 <= Len(s) /\ 3 + 1 = 4
    BY SMT
  <2> QED BY <1>4, <2>1, Zenon DEF UnitsAreEscapes
<1>9. CASE IsHighSurrogate(u)
  <2>1. DecodedTo(s, <<65536 + (u - 55296) * 1024 + (v - 56320)>>)
    BY <1>5, <1>7, <1>8, <1>9, OnePair, SMT
  <2>2. FromUTF16(units) = <<65536 + (u - 55296) * 1024 + (v - 56320)>>
    <3> HIDE DEF u, v
    <3> QED BY <1>1, <1>2, <1>5, <1>9, SMT DEF FromUTF16
  <2> QED BY <2>1, <2>2, SMT DEF units
<1>10. CASE ~IsHighSurrogate(u)
  <2>1. DecodedTo(s, <<u, v>>)
    BY <1>6, <1>7, <1>8, <1>10, TwoUnits, Zenon
  <2>2. FromUTF16(units) = <<u, v>>
    <3> HIDE DEF u, v
    <3> QED BY <1>1, <1>2, <1>10, SMT DEF FromUTF16
  <2> QED BY <2>1, <2>2, Zenon DEF units
<1> QED BY <1>9, <1>10

(***************************************************************************)
(* A string of one or two \u escapes becomes the UTF-8 of the code points  *)
(* that they spell in UTF-16, for every unit and every pair.               *)
(***************************************************************************)
THEOREM EscapesAreKept == Spec => []EscapesKeepCodePoints
<1>1. TypeOK /\ UnitsAreEscaped => EscapesKeepCodePoints
  <2> SUFFICES ASSUME TypeOK, UnitsAreEscaped PROVE EscapesKeepCodePoints
    OBVIOUS
  <2>1. ASSUME NEW i \in Strings, NEW s,
               s = SubSeq(text, tokens[i].from + 2, tokens[i].to - 1),
               Len(s) \in {2, 4},
               \A k \in 1 .. Len(s) : (s[k].class = "unicode") <=> (k % 2 = 0),
               SpellsUTF16(s, UnitsOf(s))
        PROVE  DecodedTo(s, FromUTF16(UnitsOf(s)))
    <3>1. i \in DOMAIN tokens
      BY DEF Strings
    <3>2. Readable(s) /\ UnitsAreEscapes(s)
      BY <2>1, <3>1, ContentIs, EscapesAre, Zenon
    <3>3. CASE Len(s) = 2
      <4>1. 2 \in 1 .. Len(s) /\ 2 % 2 = 0
        BY <3>3, SMT
      <4>2. s[2].class = "unicode"
        BY <2>1, <4>1, Zenon
      <4> QED BY <2>1, <3>2, <3>3, <4>2, OneEscape, Zenon
    <3>4. CASE Len(s) = 4
      <4>1. 2 \in 1 .. Len(s) /\ 2 % 2 = 0 /\ 4 \in 1 .. Len(s) /\ 4 % 2 = 0
        BY <3>4, SMT
      <4>2. s[2].class = "unicode" /\ s[4].class = "unicode"
        BY <2>1, <4>1, Zenon
      <4> QED BY <2>1, <3>2, <3>4, <4>2, TwoEscapes, Zenon
    <3>5. Len(s) = 2 \/ Len(s) = 4
      BY <2>1, Zenon
    <3> QED BY <3>3, <3>4, <3>5
  <2>2. ASSUME NEW i \in Strings
        PROVE  LET s == SubSeq(text, tokens[i].from + 2, tokens[i].to - 1)
               IN  /\ Len(s) \in {2, 4}
                   /\ \A k \in 1 .. Len(s) : (s[k].class = "unicode") <=> (k % 2 = 0)
                   /\ SpellsUTF16(s, UnitsOf(s))
                   => DecodedTo(s, FromUTF16(UnitsOf(s)))
    <3> DEFINE s == SubSeq(text, tokens[i].from + 2, tokens[i].to - 1)
    <3>1. s = SubSeq(text, tokens[i].from + 2, tokens[i].to - 1)
      OBVIOUS
    <3> HIDE DEF s
    <3>2. /\ Len(s) \in {2, 4}
          /\ \A k \in 1 .. Len(s) : (s[k].class = "unicode") <=> (k % 2 = 0)
          /\ SpellsUTF16(s, UnitsOf(s))
          => DecodedTo(s, FromUTF16(UnitsOf(s)))
      BY <2>1, <3>1, Zenon
    <3> QED BY <3>2, Zenon DEF s
  <2> QED BY <2>2, Zenon
        DEF EscapesKeepCodePoints, DecodedTo, Content, SpellsUTF16, UnitsOf
<1> QED BY <1>1, LexerTypes, UnitsAreEscapedHolds, PTL
=============================================================================
