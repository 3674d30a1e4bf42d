----------------------------- MODULE MCJsonLexer ----------------------------
(***************************************************************************)
(* The instance of JsonLexer that TLC checks: a byte of each class, and    *)
(* the code units at the bounds of the forms of UTF-8 and of UTF-16.       *)
(***************************************************************************)
EXTENDS JsonLexer

MCStringByte == {0, 10, 34, 92, 110, 120, 195}

MCNumberByte == {32, 43, 45, 46, 47, 48, 69}

MCCommentByte == {10, 13, 42, 47, 120}

MCTokenByte == {0, 32, 34, 45, 46, 47, 48, 58, 110}

MCUnit == {Bad, 0, 31, 127, 128, 2047, 2048, 55295, 55296, 56319, 56320, 57343, 57344, 65535}
=============================================================================
