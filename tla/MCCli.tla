------------------------------- MODULE MCCli -------------------------------
(* Instances of Cli for TLC: texts of sizes and files that users write.    *)
EXTENDS Cli

T(n, letters) == [num |-> n, frac |-> 0, letters |-> letters, spaced |-> FALSE]

\* 0; 9; 2K; 1.50MB; 3 GB; the largest number that atoll reads and one more;
\* a product that wraps around to 0, which means unlimited.
Sizes == {T(0, {}), T(9, {}), T(2, {"K"}),
          [num |-> 1, frac |-> 50, letters |-> {"M", "B"}, spaced |-> FALSE],
          [num |-> 3, frac |-> 0, letters |-> {"G", "B"}, spaced |-> TRUE],
          T(9, {"G"}), T(8192, {"B"}), T(1024, {"T"})}

FewSizes == {T(9, {}), T(2, {"K", "B"})}

L(n, c, u) == [port |-> n, cap |-> c, usage |-> u]

\* No file; users as export_users writes them; a file with every column, whose
\* lines name one port twice once the port is cut to its width.
Files == {<<>>,
          <<L(1, Blank, Blank), L(3, T(1, {"M"}), Blank)>>,
          <<L(1, T(5, {}), T(7, {"K"})), L(5, Blank, T(0, {}))>>}
=============================================================================
