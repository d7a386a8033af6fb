------------------------------ MODULE MCParser ------------------------------
(***************************************************************************)
(* Parser on every file of a few tokens, written with one of a few         *)
(* alphabets: each holds the tokens one family of procedures looks at, and *)
(* is small enough for files that open and close two blocks.               *)
(***************************************************************************)
EXTENDS Parser

File(tokens, length) == [tokens |-> tokens, length |-> length]

StatementFiles ==
    { File({"Identifier", "Ifs", "Thens", "Ends", "Semicolons"}, 8),
      File({"Identifier", "Ifs", "Elifs", "Elses", "Ends"}, 7),
      File({"Identifier", "Whiles", "Dos", "Ends", "Semicolons"}, 7),
      File({"Identifier", "Fors", "Ins", "Dos", "Ends", "Returns"}, 6),
      File({"Identifier", "Matchs", "Colons", "Cases", "Dos", "Ends"}, 7),
      File({"Identifier", "Functions", "LeftParens", "RightParens", "Ends", "Semicolons"}, 6),
      File({"Functions", "LeftParens", "RightParens", "Ends", "Ifs", "Identifier"}, 6),
      File({"Identifier", "Modules", "Publics", "Functions", "Ends", "Semicolons"}, 6)}

DeclarationFiles ==
    { File({"Identifier", "Classes", "Publics", "Unsafes", "Functions", "Ends"}, 6),
      File({"Identifier", "Classes", "Fors", "Greaters", "Commas", "LeftParens"}, 6),
      File({"Classes", "Ats", "operation", "LeftParens", "Plus", "RightParens"}, 7),
      File({"Identifier", "Structs", "Colons", "Vars", "Equalss", "Ends"}, 6),
      File({"Identifier", "Enums", "Colons", "LeftParens", "RightParens", "Ends"}, 7),
      File({"Identifier", "Traits", "Colons", "Types", "Functions", "Ends"}, 6),
      File({"Functions", "LeftParens", "Selfs", "Commas", "RightParens", "Colons"}, 7),
      File({"Functions", "LeftBrackets", "Identifier", "Colons", "RightBrackets"}, 7),
      File({"Externs", "Strings", "Functions", "LeftParens", "RightParens", "Ends"}, 7),
      File({"Ats", "ffi", "atom", "LeftParens", "Strings", "RightParens"}, 6),
      File({"Ats", "atom", "LeftParens", "bits", "Equalss", "Ints"}, 6),
      File({"Imports", "Froms", "Atomic", "StdString", "Stars"}, 7),
      File({"Vars", "Identifier", "Colons", "Atomics", "LeftBrackets", "RightBrackets"}, 7),
      File({"Consts", "Locals", "Lets", "Identifier", "Equalss", "Ints"}, 6),
      File({"Identifier", "Classes", "Fors", "Functions", "Ends"}, 6),
      File({"Identifier", "Traits", "Colons", "Functions", "LeftParens", "RightParens", "Ends"}, 7) }

ExpressionFiles ==
    { File({"Identifier", "LeftParens", "RightParens", "Colons", "Commas"}, 7),
      File({"Identifier", "Dots", "LeftParens", "LeftBrackets", "RightBrackets", "Colons"}, 6),
      File({"Identifier", "Dots", "Load", "Store", "LeftParens", "Ints"}, 6),
      File({"Selfs", "Dots", "Identifier", "LeftParens", "Equalss", "RightParens"}, 6),
      File({"Returns", "Minuss", "Plus", "Stars", "Ints", "LeftParens"}, 6),
      File({"Returns", "Identifier", "Ass", "Stars", "Functions", "Fn_Sizes"}, 6),
      File({"Returns", "Identifier", "LeftBraces", "Equalss", "RightBraces"}, 7),
      File({"Returns", "Fn_Sizes", "LeftBrackets", "RightBrackets", "Functions"}, 6) }

CallFiles == { File({"Identifier", "LeftParens", "RightParens", "Colons", "Commas"}, 9) }

ParserFiles == StatementFiles \cup DeclarationFiles \cup ExpressionFiles
=============================================================================
