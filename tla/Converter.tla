----------------------------- MODULE Converter -----------------------------
(***************************************************************************)
(* Sizes as text and as numbers (shared/converter.cpp), and the conversion *)
(* of ports (atol and the assignment to uint16_t, shared/operation.cpp).   *)
(*                                                                         *)
(* A text is what the conversions tell apart: the number its leading       *)
(* digits spell (num; blanks, commas and underscores between them are      *)
(* skipped), the two digits behind a decimal point (frac, where the scan   *)
(* of the digits stops), the unit letters that occur anywhere in it, in    *)
(* either case (letters), and whether a blank is between number and        *)
(* letters (spaced).                                                       *)
(*                                                                         *)
(* Widths are constants: uint64_t holds 0 .. Word - 1, a signed 64 bit     *)
(* integer ends at Word \div 2 - 1, a port is a number below PortWord, and *)
(* a kilobyte is Kilo bytes.                                               *)
(***************************************************************************)
EXTENDS Integers, FiniteSets

CONSTANTS Word, PortWord, Kilo

ASSUME WordAssumption == Word \in Nat /\ Word % 2 = 0 /\ Word > 2
ASSUME PortWordAssumption == PortWord \in Nat \ {0} /\ 2 * PortWord <= Word
ASSUME KiloAssumption == Kilo \in Nat /\ Kilo > 1

Unit == {"B", "K", "M", "G", "T"}

Text == [num : Nat, frac : 0 .. 99, letters : SUBSET Unit, spaced : BOOLEAN]

\* The text of a number that is printed without a unit.
Decimal(n) == [num |-> n, frac |-> 0, letters |-> {}, spaced |-> FALSE]

\* What a stream's >> takes of a text.
FirstWord(t) == IF t.spaced THEN [t EXCEPT !.letters = {}, !.spaced = FALSE] ELSE t

MaxSigned == Word \div 2 - 1

\* atoll, and atol: the number is cut off at the largest signed one.
Atoll(n) == IF n > MaxSigned THEN MaxSigned ELSE n

Bytes(u) ==
  CASE u = "T" -> Kilo * Kilo * Kilo * Kilo
    [] u = "G" -> Kilo * Kilo * Kilo
    [] u = "M" -> Kilo * Kilo
    [] u = "K" -> Kilo
    [] u = "B" -> 1

\* Mutant of UnitOf: the letters are looked for in the opposite order, so the
\* B of "MB" is found first.
UnitOfLast(letters, bare) ==
  IF "B" \in letters THEN "B"
  ELSE IF "K" \in letters THEN "K"
  ELSE IF "M" \in letters THEN "M"
  ELSE IF "G" \in letters THEN "G"
  ELSE IF "T" \in letters THEN "T"
  ELSE bare

\* The largest letter found decides.
UnitOf(letters, bare) ==
  IF "T" \in letters THEN "T"
  ELSE IF "G" \in letters THEN "G"
  ELSE IF "M" \in letters THEN "M"
  ELSE IF "K" \in letters THEN "K"
  ELSE IF "B" \in letters THEN "B"
  ELSE bare

\* Mutant of ParseSize: the product is not cut to its width.
ParseSizeWide(t, usegig) ==
  Atoll(t.num) * Bytes(UnitOf(t.letters, IF usegig THEN "G" ELSE "B"))

\* parse_size: a number without a unit counts bytes, or gigabytes if usegig.
ParseSize(t, usegig) ==
  (Atoll(t.num) * Bytes(UnitOf(t.letters, IF usegig THEN "G" ELSE "B"))) % Word

\* Mutant of PortOf: a port in a variable that is one bit narrower.
PortOfNarrow(n) == Atoll(n) % (PortWord \div 2)

\* uint16_t pt = atol(port)
PortOf(n) == Atoll(n) % PortWord

-----------------------------------------------------------------------------
(***************************************************************************)
(* convert_to_string: the largest unit that leaves at least 1 before the   *)
(* point, at most TB, with two digits behind it.  The quotients are exact  *)
(* here, a tie is rounded up.                                              *)
(***************************************************************************)
\* Mutant of ShownUnit: the unit changes one step too late.
ShownUnitLate(n) ==
  IF n > Bytes("T") THEN "T"
  ELSE IF n > Bytes("G") THEN "G"
  ELSE IF n > Bytes("M") THEN "M"
  ELSE IF n > Bytes("K") THEN "K"
  ELSE "B"

ShownUnit(n) ==
  IF n >= Bytes("T") THEN "T"
  ELSE IF n >= Bytes("G") THEN "G"
  ELSE IF n >= Bytes("M") THEN "M"
  ELSE IF n >= Bytes("K") THEN "K"
  ELSE "B"

\* format: the number in hundredths of unit b.
Hundredths(n, b) == (100 * n + b \div 2) \div b

ConvertToString(n) ==
  LET u == ShownUnit(n)
      h == Hundredths(n, Bytes(u))
  IN  [num |-> h \div 100, frac |-> h % 100,
       letters |-> IF u = "B" THEN {"B"} ELSE {u, "B"}, spaced |-> TRUE]
=============================================================================
