------------------------------ MODULE ExprTree ------------------------------
(***************************************************************************)
(* The trees parser_expr builds.  Parser runs as it is; two history        *)
(* variables keep what it consumed and the nodes it built, in the order it *)
(* built them, which is the postfix form of the tree.  They are compared   *)
(* with a reference that splits the expression instead of climbing it.     *)
(***************************************************************************)
EXTENDS Parser, SequencesExt, FiniteSetsExt

VARIABLES
    read,   \* the tokens consumed so far
    built   \* the nodes built so far

treeVars == <<vars, read, built>>

Consumed == IF pos' # pos THEN Append(read, tok) ELSE read
Built ==
    IF At("leaf") THEN Append(built, tok)
    ELSE IF At("node") THEN Append(built, Ins.of)
    ELSE built

\* The file starts with a return.
TreeInit == Init /\ tok = "Returns" /\ read = <<>> /\ built = <<>>
TreeNext == Next /\ read' = Consumed /\ built' = Built
TreeSpec == TreeInit /\ [][TreeNext]_treeVars

(* ---------------------------- The reference ---------------------------- *)

Unary == {"Ampersands", "Minuss", "Nots", "Tildes"}
Operands == {"Ints"}

\* How many parentheses are open before position k.
Nesting(s, k) ==
    Cardinality({j \in 1..(k - 1) : s[j] = "LeftParens"})
      - Cardinality({j \in 1..(k - 1) : s[j] = "RightParens"})

\* The binary operators outside parentheses: what precedes one ends an operand.
Outer(s) == {k \in 2..(Len(s) - 1) :
    /\ s[k] \in Infix
    /\ s[k - 1] \in Operands \cup {"RightParens"}
    /\ Nesting(s, k) = 0}

\* The one applied last: of the loosest, the rightmost.
Root(s) ==
    LET loosest == {k \in Outer(s) :
            \A j \in Outer(s) : parser_precedence(s[k]) <= parser_precedence(s[j])}
    IN  Max(loosest)

Left(s, k) == SubSeq(s, 1, k - 1)
Right(s, k) == SubSeq(s, k + 1, Len(s))

RECURSIVE IsExpr(_)
IsExpr(s) ==
    CASE s = <<>> -> FALSE
      [] Outer(s) # {} -> \E k \in Outer(s) : IsExpr(Left(s, k)) /\ IsExpr(Right(s, k))
      [] OTHER ->
           \/ Len(s) = 1 /\ s[1] \in Operands
           \/ s[1] \in Unary /\ IsExpr(Tail(s))
           \/ s[1] = "LeftParens" /\ Last(s) = "RightParens" /\ IsExpr(Tail(Front(s)))

RECURSIVE Postfix(_)
Postfix(s) ==
    IF Outer(s) # {}
    THEN Postfix(Left(s, Root(s))) \o Postfix(Right(s, Root(s))) \o <<s[Root(s)]>>
    ELSE CASE s[1] \in Operands -> s
           [] s[1] \in Unary -> Append(Postfix(Tail(s)), PrefixNode(s[1]))
           [] s[1] = "LeftParens" -> Postfix(Tail(Front(s)))

(* ------------------------------ Properties ----------------------------- *)

\* The file is one return statement, and it was read to its end.
ReturnRead ==
    /\ Done
    /\ \A k \in 2..Len(read) : read[k] # "Returns"

Value == Tail(read)

\* parser_expr accepts an operator expression exactly when it is one: nothing
\* is skipped in silence, and no well-formed expression is refused.
ExactlyExpressions == ReturnRead => (~reported <=> Value = <<>> \/ IsExpr(Value))

\* The tree it builds groups by precedence, and to the left among equals.
TreeIsReference ==
    (ReturnRead /\ ~reported /\ Value # <<>>) => built = Postfix(Value)
=============================================================================
