----------------------------- MODULE MCWatcher -----------------------------
(* Instances of Watcher for TLC: the values of the structured constants.   *)
EXTENDS Watcher

L(p, w, k, u) == [port |-> p, pw |-> w, cap |-> k, usage |-> u]

Pw == CHOOSE w \in Password : TRUE

\* A table of users: the file f, slot by slot.
InputFile(f) == [i \in Slot |-> IF i <= Len(f) THEN f[i] ELSE NoLine]

\* Lists of users as export_users writes them (two columns), with a cap, and
\* as export writes them (four columns); the empty file is what a path that
\* cannot be opened reads as.
NoInputs == {}
FullInputs == {InputFile(<<L(1, Pw, Blank, Blank), L(2, Pw, Blank, Blank)>>),
               InputFile(<<L(1, Pw, 2, Blank), L(2, Pw, 1, 1)>>)}
OneInput == {InputFile(<<L(1, Pw, 1, 1)>>)}
UserInputs == {InputFile(<<>>),
               InputFile(<<L(1, Pw, Blank, Blank)>>),
               InputFile(<<L(1, Pw, 2, Blank), L(2, Pw, 1, 1)>>)}
=============================================================================
