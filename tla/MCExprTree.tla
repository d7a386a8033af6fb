----------------------------- MODULE MCExprTree -----------------------------
(***************************************************************************)
(* ExprTree on every file of up to eight tokens over one operator that is  *)
(* binary and unary, with parentheses, and on shorter ones over operators  *)
(* of all levels.                                                          *)
(***************************************************************************)
EXTENDS ExprTree

File(tokens, length) ==
    [tokens |-> tokens \cup {"Returns", "Ints"}, length |-> length]

OperatorFiles ==
    { File({"Minuss", "LeftParens", "RightParens"}, 8),
      File({"Minuss", "Stars", "LeftParens", "RightParens"}, 6),
      File({"Ors", "Ands", "Nots", "DoubleEqualss", "Lesses"}, 6),
      File({"Ampersands", "Carets", "Pipes", "Tildes", "LeftShifts"}, 6) }
=============================================================================
