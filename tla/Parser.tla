------------------------------- MODULE Parser -------------------------------
(***************************************************************************)
(* The recursive-descent parser (src/src/syntax/parser.c, the recovery     *)
(* helpers of src/src/helper/error.c, the one-token lookahead of parser.h  *)
(* and the loop of main that drives them).                                 *)
(*                                                                         *)
(* A C procedure is a sequence of instructions under its own name, and the *)
(* machine below runs them with an explicit stack: todo is what is left to *)
(* do, innermost procedure first.  What a procedure builds is left out,    *)
(* except the expression nodes (Leaf, Node); what it looks at, consumes,   *)
(* reports and calls, and the order of that, is the program.               *)
(*                                                                         *)
(* A token is its tag (or, for the identifiers and literals whose text the *)
(* parser looks at, a tag of its own).  The file is not fixed beforehand:  *)
(* every token is chosen when the lexer first reads it.                    *)
(***************************************************************************)
EXTENDS Naturals, Sequences, FiniteSets

CONSTANTS
    Files,          \* bound: records [tokens, length], the tokens a file is
                    \* written with and how many it may hold
    None            \* no token

ASSUME ParserAssumption ==
    /\ \A f \in Files : f.length \in Nat \ {0} /\ None \notin f.tokens
    /\ None # "Colons"

VARIABLES
    file,            \* which of Files is read
    tok,             \* parser_current
    ahead,           \* the token after it, once the lexer was asked for it
    pos,             \* how many tokens were consumed
    peeked,          \* Parser.peek_tok, None while has_peek is false
    atomic_imported, \* Parser.atomic_imported
    reported,        \* the error list is not empty
    owed,            \* ghost: blocks entered minus ends consumed
    ifs,             \* ghost: how many of those blocks were an if
    todo             \* the call stack: the instructions still to run

vars == <<file, tok, ahead, pos, peeked, atomic_imported, reported,
          owed, ifs, todo>>

EOFs == "EOFs"

Names    == {"Identifier", "operation", "atom", "ffi", "bits", "signed", "Atomic"}
Texts    == {"Strings", "StdString"}          \* "..." and "std"
Numbers  == {"Ints", "OddInts"}               \* an atom width, any other
Words    == {"Load", "Store", "CompareExchange"}   \* tag Orderings
Literals == Texts \cup Numbers \cup {"Floats", "Chars", "Trues", "Falses", "Nulls"}
Assigns  == {"Equalss", "PlusEqualss", "MinusEqualss", "StarEqualss",
             "SlashEqualss", "PercentEqualss", "AmpersandEqualss",
             "PipeEqualss", "CaretEqualss", "LeftShiftEqualss",
             "RightShiftEqualss"}

\* The characters between the start and the end of a token: those of a string
\* literal include its quotes.
SourceText(t) == IF t = "StdString" THEN "'std'" ELSE t

parser_precedence(t) ==
    CASE t = "Ors" -> 1
      [] t = "Ands" -> 2
      [] t = "Pipes" -> 3
      [] t = "Carets" -> 4
      [] t = "Ampersands" -> 5
      [] t \in {"DoubleEqualss", "NotEqualss"} -> 6
      [] t \in {"Lesses", "Greaters", "LessEqualss", "GreaterEqualss"} -> 7
      [] t \in {"LeftShifts", "RightShifts"} -> 8
      [] t \in {"Plus", "Minuss"} -> 9
      [] t \in {"Stars", "Slashs", "Percents"} -> 10

Infix == {"Ors", "Ands", "Pipes", "Carets", "Ampersands", "DoubleEqualss",
          "NotEqualss", "Lesses", "Greaters", "LessEqualss",
          "GreaterEqualss", "LeftShifts", "RightShifts", "Plus", "Minuss",
          "Stars", "Slashs", "Percents"}

is_operation == Infix \cup Assigns \cup {"Tildes", "Bangs", "Nots"}

(* -------------------------- The instructions --------------------------- *)

Adv  == [op |-> "advance"]              \* parser_advance
Err  == [op |-> "report"]               \* parse_error
Back == [op |-> "return"]
Leave == [op |-> "break"]
Again == [op |-> "continue"]
Leaf == [op |-> "leaf"]                 \* a node for the current token
Node(n)  == [op |-> "node", of |-> n]   \* a node over the last ones built
Call(p)  == [op |-> "call", of |-> p]
Climb(m) == [op |-> "climb", of |-> m]  \* the loop of parser_expr_bp
NoteImport(isAtomic) == [op |-> "import", of |-> isAtomic]
IfPeeked(t, yes) == [op |-> "peek", of |-> t, then |-> yes]
IfAtomic(yes, no) == [op |-> "atomic", then |-> yes, else |-> no]

\* switch (the current token): the arms are tried in order.
On(tokens, do) == <<tokens, do>>
Switch(arms, default) == [op |-> "switch", of |-> arms, else |-> default]
When(tokens, yes, no) == Switch(<<On(tokens, yes)>>, no)

\* while (the current token is not / is one of them) body
Until(tokens, body) == [op |-> "loop", of |-> tokens, sense |-> FALSE, do |-> body]
While(tokens, body) == [op |-> "loop", of |-> tokens, sense |-> TRUE, do |-> body]

\* The body, and parser_advance when the position is still what it was.
Forced(body) == [op |-> "mark", do |-> body]

(* ------------------------- Shared fragments ---------------------------- *)

parser_sync ==
    <<Until({"Ends", "Semicolons", "Functions", "Classes", "Structs",
             "Enums", "Traits", "Returns", EOFs}, <<Adv>>)>>

Want(tokens) == When(tokens, <<Adv>>, <<Err>>)
Opt(tokens) == When(tokens, <<Adv>>, <<>>)
parser_expect(t) == When({t}, <<Adv>>, <<Err>> \o parser_sync)

\* Mutant: a missing ')' is not reported.
CloseParenOptional == Opt({"RightParens"})

CloseParen == parser_expect("RightParens")
CloseBracket == parser_expect("RightBrackets")
Comma == Opt({"Commas"})

\* '[' names ']', each name followed by its bound
NameList(names, bound) ==
    <<Adv,
      Until({"RightBrackets", EOFs},
            <<Switch(<<On(names, <<Adv>> \o bound), On({"Commas"}, <<Adv>>)>>,
                     <<Err, Adv>>)>>),
      CloseBracket>>

Bound == <<When({"Colons"}, <<Adv, Want(Names)>>, <<>>)>>
GenericParams == When({"LeftBrackets"}, NameList(Names, Bound), <<>>)
GenericArgs == When({"LeftBrackets"}, NameList(Names, <<>>), <<>>)

\* name ':' type pairs up to the ')'
ParamsAfter(special) ==
    <<Until({"RightParens", EOFs},
            special \o
            <<When(Names, <<Adv>>, <<Err>> \o parser_sync \o <<Leave>>),
              Want({"Colons"}), Call("parser_type"), Comma>>),
      CloseParen>>

Params == ParamsAfter(<<>>)
MethodParams == ParamsAfter(<<When({"Selfs"}, <<Adv, Comma, Again>>, <<>>)>>)

\* expressions, or name ':' expression pairs, up to the ')'
PlainArgs == <<Until({"RightParens", EOFs}, <<Call("parser_expr"), Comma>>), CloseParen>>
NamedArgs ==
    <<Until({"RightParens", EOFs},
            <<When(Names, <<IfPeeked("Colons", <<Adv, Adv>>)>>, <<>>),
              Call("parser_expr"), Comma>>),
      CloseParen>>

TypesUpToParen == <<Until({"RightParens", EOFs}, <<Call("parser_type"), Comma>>), CloseParen>>

Block(ends) == Until(ends \cup {EOFs}, <<Call("parser_stmt")>>)
ForcedBlock == Until({"Ends", EOFs}, <<Forced(<<Call("parser_stmt")>>)>>)
CloseBlock == parser_expect("Ends")

(* --------------------------- Expressions ------------------------------- *)

parser_expr_bp(min) ==
    <<Call("parser_expr_primary"), Climb(min),
      When({"Ass"}, <<Adv, Call("parser_type"), Node("Ass")>>, <<>>)>>

parser_expr == <<[op |-> "call_bp", of |-> 0]>>

parser_literal ==
    <<Adv,
      Until({"RightBraces", EOFs},
            <<When(Names, <<Adv>>, <<Err>> \o parser_sync \o <<Leave>>),
              Want({"Equalss"}), Call("parser_expr"), Comma>>),
      parser_expect("RightBraces")>>

\* The generic arguments of a function call: the condition of the loop is a
\* comma expression, so only integers are taken.
parser_function_call ==
    <<When({"LeftBrackets"}, NameList(Numbers, <<>>), <<>>),
      parser_expect("LeftParens")>> \o NamedArgs

parser_method_calls ==
    <<Adv, Want(Names), GenericArgs,
      When({"LeftParens"}, <<Adv>> \o NamedArgs, <<>>)>>

parser_index == <<Call("parser_expr"), CloseBracket>>

parser_builtin_function ==
    <<Adv, When({"LeftBrackets"}, <<Adv>>, <<Err, Back>>), Call("parser_type"),
      CloseBracket, When({"LeftParens"}, <<Adv, CloseParen>>, <<>>)>>

SelfPrimary ==
    <<Leaf, Adv,
      When({"Dots"}, <<Adv, Adv, When({"LeftParens"}, <<Adv>> \o PlainArgs, <<>>)>>, <<>>)>>

NamePrimary ==
    <<Leaf, Adv,
      Switch(<<On({"LeftBraces"}, <<Call("parser_literal")>>),
               On({"LeftParens"}, <<Call("parser_function_call")>>),
               On({"Dots"}, <<Call("parser_method_calls")>>),
               On({"LeftBrackets"},
                  <<Adv, When({"LeftParens"}, <<Call("parser_function_call")>>,
                              <<Call("parser_index")>>)>>)>>,
             <<>>)>>

PrefixNode(t) ==
    CASE t = "Ampersands" -> "AddrOf" [] t = "Minuss" -> "Negate"
      [] t = "Nots" -> "Not" [] t = "Tildes" -> "Complement"
\* Mutant: the operator is not consumed.
PrefixStill(t) == On({t}, <<Call("parser_expr_primary"), Node(PrefixNode(t))>>)

Prefix(t) == On({t}, <<Adv, Call("parser_expr_primary"), Node(PrefixNode(t))>>)

parser_expr_primary ==
    <<Switch(<<Prefix("Ampersands"), Prefix("Minuss"), Prefix("Nots"), Prefix("Tildes"),
               On({"LeftParens"}, <<Adv, Call("parser_expr"), CloseParen>>),
               On(Literals, <<Leaf, Adv>>),
               On({"Selfs"}, SelfPrimary),
               On({"Fn_Sizes"}, <<Call("parser_builtin_function")>>),
               On(Names, NamePrimary),
               On({EOFs}, <<Err>>)>>,
             <<Err, Adv>>)>>

(* ------------------------------ Types ---------------------------------- *)

AtomicType ==
    <<Adv, IfAtomic(<<>>, <<Err, Adv, Back>>),
      When({"LeftBrackets"}, <<Adv>>, <<Err, Back>>), Call("parser_type"),
      Want({"RightBrackets"})>>

FunctionType ==
    <<Adv, When({"LeftParens"}, <<Adv>> \o TypesUpToParen, <<>>),
      When({"Colons"}, <<Adv, Call("parser_type")>>, <<>>)>>

parser_type_base ==
    <<Switch(<<On(Numbers \cup Texts \cup Names \cup
                  {"Floats", "Chars", "Voids", "Bools"}, <<Adv>>),
               On({"Atomics"}, AtomicType),
               On({"LeftParens"}, <<Adv>> \o TypesUpToParen),
               On({"Stars"}, <<Adv, Opt({"Stars"}), Call("parser_type")>>),
               On({"Functions"}, FunctionType)>>,
             <<Err, Adv>>)>>

parser_type == <<Call("parser_type_base")>>

(* --------------------------- Declarations ------------------------------ *)

Signature ==
    <<Adv, Want(Names), GenericParams, Want({"LeftParens"})>> \o MethodParams
    \o <<When({"Colons"}, <<Adv, Call("parser_type")>>, <<>>)>>

\* Mutant: the body of a function does not force the parser on.
parser_functionsUnforced == Signature \o <<Block({"Ends"}), CloseBlock>>

parser_functions == Signature \o <<ForcedBlock, CloseBlock>>
parser_trait_functions == Signature

TraitNames ==
    When({"Fors"}, <<Adv, When(Names, <<>>, <<Err>>), While(Names, <<Adv, Comma>>)>>, <<>>)

ClassField == <<Adv, Want(Names), Want({"Colons"}), Call("parser_type")>>

PublicMethod ==
    <<Adv, Opt({"Unsafes"}),
      When({"Functions"}, <<Call("parser_functions")>>, <<Err, Adv, Again>>)>>

ClassOperation ==
    <<Adv, When({"operation"}, <<>>, <<Err, Adv, Again>>), Call("operation_op"),
      When({"Functions"}, <<Call("parser_functions")>>, <<Err, Again>>)>>

parser_class ==
    <<Adv, Want(Names), TraitNames, GenericParams,
      When({"LeftParens"}, <<Adv>> \o Params, <<>>), TraitNames,
      When({"Greaters"}, <<Adv, Want(Names)>>, <<>>),
      Until({"Ends", EOFs},
            <<Switch(<<On({"Vars", "Lets"}, ClassField),
                       On({"Publics"}, PublicMethod),
                       On({"Functions"}, <<Call("parser_functions")>>),
                       On({"Ats"}, ClassOperation)>>,
                     <<Err, Adv>>)>>),
      CloseBlock>>

parser_structer ==
    <<Adv, Want(Names), GenericParams, Want({"Colons"}),
      Until({"Ends", EOFs},
            <<Switch(<<On({"Vars"}, <<Adv, Want(Names), Want({"Equalss"}), Call("parser_type")>>),
                       On(Names, <<Adv, Want({"Equalss"}), Call("parser_type")>>)>>,
                     <<Err, Adv>>)>>),
      CloseBlock>>

parser_enums ==
    <<Adv, Want(Names), GenericParams, Want({"Colons"}),
      Until({"Ends", EOFs},
            <<Switch(<<On(Names, <<Adv, When({"LeftParens"}, <<Adv>> \o Params, <<>>)>>),
                       On({"Commas"}, <<Adv>>)>>,
                     <<Err, Adv>>)>>),
      CloseBlock>>

parser_traits ==
    <<Adv, Want(Names), GenericParams, Want({"Colons"}),
      Until({"Ends", EOFs},
            <<Forced(<<Switch(<<On({"Types"}, <<Adv, Want(Names)>>),
                                On({"Functions"}, <<Call("parser_trait_functions")>>)>>,
                              <<Err, Adv>>)>>)>>),
      CloseBlock>>

ExternFunction ==
    <<Adv, Want(Names), When({"LeftParens"}, <<Adv>> \o Params, <<Err>>),
      When({"Colons"}, <<Adv, Call("parser_type")>>, <<>>)>>

parser_extern ==
    <<Adv, Opt(Texts),
      Until({"Ends", EOFs}, <<When({"Functions"}, ExternFunction, <<Err, Adv>>)>>),
      CloseBlock>>

parser_module == <<Adv, Want(Names), ForcedBlock, CloseBlock>>

TypeAnnotation == When({"Colons"}, <<Adv, Call("parser_type")>>, <<>>)
Initialiser == When({"Equalss"}, <<Adv, Call("parser_expr")>>, <<Err>>)

parser_const == <<Want(Names), TypeAnnotation, Initialiser>>
parser_vars == <<Adv>> \o parser_const
parser_lets == <<Adv>> \o parser_const
parser_globle == <<Adv>> \o parser_const

\* A token, or an error and out of the procedure.
Must(tokens) == When(tokens, <<Adv>>, <<Err, Back>>)

operation_atom ==
    <<Adv, Must({"LeftParens"}), Must({"bits"}), Must({"Equalss"}), Must({"Ints"}),
      Must({"Commas"}), Must({"signed"}), Must({"Equalss"}), Must({"Trues", "Falses"}),
      Must({"RightParens"})>>

operation_op == <<Adv, Must({"LeftParens"}), Must(is_operation), Must({"RightParens"})>>

parser_ffi == <<Adv, Must(Texts), Must({"RightParens"}), Call("parser_extern")>>

parser_operation ==
    <<Adv,
      Switch(<<On({"operation"}, <<Adv, Call("operation_op")>>),
               On({"atom"}, <<Adv, Call("operation_atom")>>),
               On({"ffi"}, <<Adv, Call("parser_ffi")>>),
               On(Names, <<Err, Adv>>)>>,
             <<Err>>)>>

ImportPath(isAtomic) ==
    When({"Froms"}, <<Adv, When(Texts, <<NoteImport(isAtomic), Adv>>, <<Err>>)>>, <<>>)

parser_import ==
    <<Adv,
      Switch(<<On({"Stars"}, <<Adv, When({"Froms"}, <<>>, <<Err>>), Adv, Want(Texts)>>),
               On(Texts, <<Adv>>),
               On({"Atomic"}, <<Adv, ImportPath(TRUE)>>)>>,
             <<Want(Names), ImportPath(FALSE)>>)>>

parser_from_import ==
    <<Adv, Want(Texts), When({"Imports"}, <<>>, <<Err>>), Adv, Want(Names \cup {"Stars"})>>

(* ---------------------------- Statements ------------------------------- *)

parser_return ==
    <<Adv, When({"Ends", "Semicolons", EOFs}, <<>>, <<Call("parser_expr")>>)>>

parser_match ==
    <<Adv, Call("parser_expr"), Want({"Colons"}),
      While({"Cases"}, <<Adv, Call("parser_expr"), Want({"Dos"}), Block({"Cases", "Ends"})>>),
      CloseBlock>>

\* Mutant: as parser_if does, the loop does not insist on its end.
parser_whileOpen ==
    <<Adv, Call("parser_expr"), Want({"Dos"}), Block({"Ends"}), Opt({"Ends"})>>

parser_while ==
    <<Adv, Call("parser_expr"), Want({"Dos"}), Block({"Ends"}), CloseBlock>>

parser_for ==
    <<Adv, Want(Names), Want({"Ins"}), Call("parser_expr"), Want({"Dos"}),
      Block({"Ends"}), CloseBlock>>

Branches ==
    <<Adv, Call("parser_expr"), Want({"Thens"}), Block({"Ends", "Elifs", "Elses"}),
      Switch(<<On({"Elifs"}, <<Call("parser_elif")>>),
               On({"Elses"}, <<Call("parser_else")>>)>>, <<>>)>>

parser_if == Branches \o <<Opt({"Ends"})>>
parser_elif == Branches
parser_else == <<Adv, Opt({"Thens"}), Block({"Ends"})>>

parser_self ==
    <<Adv, Must({"Dots"}), Must(Names),
      Switch(<<On(Assigns, <<Adv, Call("parser_expr")>>),
               On({"LeftParens"}, <<Adv>> \o PlainArgs)>>, <<>>)>>

parser_ordering == Want(Words)

parser_atomic_op ==
    <<Switch(<<On({"Load"}, <<Adv, Must({"LeftParens"}), parser_ordering>>),
               On({"Store"}, <<Adv, Must({"LeftParens"}), Call("parser_expr"), Comma,
                               parser_ordering>>)>>,
             <<Adv, Must({"LeftParens"}), Call("parser_expr"), Comma, Call("parser_expr"),
               Comma, parser_ordering, Comma, parser_ordering>>),
      Want({"RightParens"})>>

MemberStatement ==
    <<Adv, Opt(Names),
      When(Words, <<Call("parser_atomic_op")>>,
           <<GenericArgs, When({"LeftParens"}, <<Adv>> \o NamedArgs, <<>>)>>)>>

Assignment == When(Assigns, <<Adv, Call("parser_expr")>>, <<>>)

NameStatement ==
    <<Adv,
      Switch(<<On({"Dots"}, MemberStatement),
               On({"LeftParens"}, <<Call("parser_function_call")>>),
               On({"LeftBrackets"},
                  <<Adv, Call("parser_expr"), CloseBracket, Assignment>>)>>,
             <<Assignment>>)>>

Typed == <<On({"Functions"}, <<Call("parser_functions")>>),
           On({"Structs"}, <<Call("parser_structer")>>),
           On({"Enums"}, <<Call("parser_enums")>>),
           On({"Traits"}, <<Call("parser_traits")>>)>>
Top == Typed \o <<On({"Classes"}, <<Call("parser_class")>>),
                  On({"Modules"}, <<Call("parser_module")>>)>>

PublicStatement ==
    <<Adv, When({"Unsafes"}, <<Adv, Switch(Typed, <<Err>> \o parser_sync)>>,
                <<Switch(Top, <<Err>> \o parser_sync)>>)>>
UnsafeStatement == <<Adv, Switch(Typed, <<Err>> \o parser_sync)>>
ConstStatement ==
    <<Adv, Switch(<<On({"Functions"}, <<Call("parser_functions")>>),
                    On({"Locals"}, <<Call("parser_globle")>>),
                    On(Names, <<Call("parser_const")>>)>>,
                  <<Err>> \o parser_sync)>>

parser_stmt ==
    <<Switch(<<On({"Publics"}, PublicStatement),
               On({"Unsafes"}, UnsafeStatement),
               On({"Consts"}, ConstStatement)>>
             \o Top \o
             <<On({"Imports"}, <<Call("parser_import")>>),
               On({"Froms"}, <<Call("parser_from_import")>>),
               On({"Ifs"}, <<Call("parser_if")>>),
               On({"Returns"}, <<Call("parser_return")>>),
               On({"Locals"}, <<Call("parser_globle")>>),
               On({"Vars"}, <<Call("parser_vars")>>),
               On({"Lets"}, <<Call("parser_lets")>>),
               On({"Matchs"}, <<Call("parser_match")>>),
               On({"Fors"}, <<Call("parser_for")>>),
               On({"Ats"}, <<Call("parser_operation")>>),
               On({"Selfs"}, <<Call("parser_self")>>),
               On({"Whiles"}, <<Call("parser_while")>>),
               On({"Externs"}, <<Call("parser_extern")>>),
               On(Names, NameStatement),
               On({EOFs}, <<Err>>)>>,
             <<Err>> \o parser_sync)>>

\* The loop of main.
ParseFile == <<Until({EOFs}, <<Forced(<<Call("parser_stmt")>>)>>)>>

Body ==
    [ parser_expr |-> parser_expr, parser_expr_primary |-> parser_expr_primary,
      parser_literal |-> parser_literal, parser_function_call |-> parser_function_call,
      parser_method_calls |-> parser_method_calls, parser_index |-> parser_index,
      parser_builtin_function |-> parser_builtin_function,
      parser_type |-> parser_type, parser_type_base |-> parser_type_base,
      parser_functions |-> parser_functions,
      parser_trait_functions |-> parser_trait_functions,
      parser_class |-> parser_class, parser_structer |-> parser_structer,
      parser_enums |-> parser_enums, parser_traits |-> parser_traits,
      parser_extern |-> parser_extern, parser_module |-> parser_module,
      parser_const |-> parser_const, parser_vars |-> parser_vars,
      parser_lets |-> parser_lets, parser_globle |-> parser_globle,
      operation_atom |-> operation_atom, operation_op |-> operation_op,
      parser_ffi |-> parser_ffi, parser_operation |-> parser_operation,
      parser_import |-> parser_import, parser_from_import |-> parser_from_import,
      parser_return |-> parser_return, parser_match |-> parser_match,
      parser_while |-> parser_while, parser_for |-> parser_for,
      parser_if |-> parser_if, parser_elif |-> parser_elif,
      parser_else |-> parser_else, parser_self |-> parser_self,
      parser_atomic_op |-> parser_atomic_op, parser_stmt |-> parser_stmt ]

(* ------------------------------ The machine ---------------------------- *)

Ins == Head(todo)
Rest == Tail(todo)
At(op) == todo # <<>> /\ Ins.op = op

\* The index of the first instruction of the stack with that operation.
FirstOf(op) == CHOOSE k \in DOMAIN todo :
    todo[k].op = op /\ \A j \in 1..(k - 1) : todo[j].op # op
DropThrough(k) == SubSeq(todo, k + 1, Len(todo))

\* Mutant: one more token is read past the end of the file.
UpcomingPastEnd ==
    IF ahead # <<>> THEN {ahead[1]}
    ELSE IF tok = EOFs \/ pos > file.length THEN {EOFs}
    ELSE file.tokens \cup {EOFs}

\* What the lexer may deliver after the current token.
Upcoming ==
    IF ahead # <<>> THEN {ahead[1]}
    ELSE IF tok = EOFs \/ pos + 1 >= file.length THEN {EOFs}
    ELSE file.tokens \cup {EOFs}

\* The procedures of what an end closes.
Blocks == {"parser_functions", "parser_if", "parser_while", "parser_for", "parser_match",
           "parser_structer", "parser_enums", "parser_class", "parser_traits",
           "parser_extern", "parser_module"}

\* The lexer delivers the next token; at the end of the file it stays there.
Consume ==
    /\ tok' \in Upcoming
    /\ ahead' = <<>>
    /\ pos' = IF tok = EOFs THEN pos ELSE pos + 1
    /\ owed' = IF tok = "Ends" THEN owed - 1 ELSE owed
    /\ ifs' = ifs

Reading == <<tok, ahead, pos, owed, ifs>>
Flags == <<peeked, atomic_imported, reported>>

Advance ==
    /\ At("advance")
    /\ Consume
    /\ todo' = Rest
    /\ UNCHANGED <<file, Flags>>

Report ==
    /\ At("report")
    /\ reported' = TRUE
    /\ todo' = Rest
    /\ UNCHANGED <<file, Reading, peeked, atomic_imported>>

Goto(program) ==
    /\ todo' = program
    /\ UNCHANGED <<file, Reading, Flags>>

Arm(arms, default) ==
    LET hits == {k \in DOMAIN arms : tok \in arms[k][1]}
    IN  IF hits = {} THEN default
        ELSE arms[CHOOSE k \in hits : \A j \in hits : k <= j][2]

Branch == At("switch") /\ Goto(Arm(Ins.of, Ins.else) \o Rest)

Iterate ==
    /\ At("loop")
    /\ Goto(IF (tok \in Ins.of) = Ins.sense THEN Ins.do \o todo ELSE Rest)

Break == At("break") /\ Goto(DropThrough(FirstOf("loop")))
Continue == At("continue") /\ Goto(DropThrough(FirstOf("loop") - 1))

Mark == At("mark") /\ Goto(Ins.do \o <<[op |-> "force", of |-> pos]>> \o Rest)

ForceOn ==
    /\ At("force")
    /\ IF pos = Ins.of
       THEN Consume /\ UNCHANGED <<file, Flags>> /\ todo' = Rest
       ELSE Goto(Rest)

End(p) == <<[op |-> "end", of |-> p]>>
Enter ==
    /\ At("call")
    /\ todo' = Body[Ins.of] \o End(Ins.of) \o Rest
    /\ owed' = IF Ins.of \in Blocks THEN owed + 1 ELSE owed
    /\ ifs' = IF Ins.of = "parser_if" THEN ifs + 1 ELSE ifs
    /\ UNCHANGED <<file, tok, ahead, pos, Flags>>
EnterBp ==
    At("call_bp") /\ Goto(parser_expr_bp(Ins.of) \o End("parser_expr_bp") \o Rest)
Leaving == At("end") /\ Goto(Rest)
Return == At("return") /\ Goto(DropThrough(FirstOf("end")))

\* Mutant: the right operand is parsed at the level of the operator.
ClimbStepSame ==
    /\ At("climb")
    /\ Goto(IF tok \in Infix /\ parser_precedence(tok) >= Ins.of
            THEN <<Adv, [op |-> "call_bp", of |-> parser_precedence(tok)], Node(tok)>>
                 \o todo
            ELSE Rest)

\* while the current token binds at least as tightly: consume it, parse its
\* right operand one level tighter, and build the node.
ClimbStep ==
    /\ At("climb")
    /\ Goto(IF tok \in Infix /\ parser_precedence(tok) >= Ins.of
            THEN <<Adv, [op |-> "call_bp", of |-> parser_precedence(tok) + 1], Node(tok)>>
                 \o todo
            ELSE Rest)

Build == (At("leaf") \/ At("node")) /\ Goto(Rest)

\* The lexer is run one token ahead and put back, and the token it found is
\* kept for good.  (When there is a kept token already the lexer is not run; the
\* token that does follow is fixed here all the same, so that a property can
\* tell the two apart.)
parser_peek_next ==
    \E t \in Upcoming :
        /\ ahead' = <<t>>
        /\ peeked' = IF peeked = None THEN t ELSE peeked

PeekTest ==
    /\ At("peek")
    /\ parser_peek_next
    /\ todo' = IF peeked' = Ins.of THEN Ins.then \o Rest ELSE Rest
    /\ UNCHANGED <<file, tok, pos, owed, ifs, atomic_imported, reported>>

AtomicTest == At("atomic") /\ Goto((IF atomic_imported THEN Ins.then ELSE Ins.else) \o Rest)

ImportNoted ==
    /\ At("import")
    /\ atomic_imported' = (atomic_imported \/ (Ins.of /\ SourceText(tok) = "std"))
    /\ todo' = Rest
    /\ UNCHANGED <<file, Reading, peeked, reported>>

Init ==
    /\ file \in Files
    /\ tok \in file.tokens
    /\ ahead = <<>>
    /\ pos = 0
    /\ peeked = None
    /\ atomic_imported = FALSE
    /\ reported = FALSE
    /\ owed = 0
    /\ ifs = 0
    /\ todo = ParseFile

Done == todo = <<>>
Finish == Done /\ UNCHANGED vars

Step ==
    \/ Advance
    \/ Report
    \/ Branch
    \/ Iterate
    \/ Break
    \/ Continue
    \/ Mark
    \/ ForceOn
    \/ Enter
    \/ EnterBp
    \/ Leaving
    \/ Return
    \/ ClimbStep
    \/ Build
    \/ PeekTest
    \/ AtomicTest
    \/ ImportNoted

Next == Step \/ Finish

Spec == Init /\ [][Next]_vars /\ WF_vars(Step)

(* ------------------------------ Properties ----------------------------- *)

\* The machine's types: every instruction of the stack is a known one and the
\* reading position stays within the file (parser.c keeps no other state).
TypeOK ==
    /\ file \in Files
    /\ tok \in file.tokens \cup {EOFs}
    /\ Len(ahead) <= 1
    /\ pos \in 0..file.length
    /\ peeked \in file.tokens \cup {EOFs, None}
    /\ {atomic_imported, reported} \subseteq BOOLEAN
    /\ \A k \in DOMAIN todo : todo[k].op \in
         {"advance", "report", "return", "break", "continue", "leaf", "node", "call", "climb",
          "import", "peek", "atomic", "switch", "loop", "mark", "force", "end", "call_bp"}

\* The nesting of procedure calls.
Depth == Cardinality({k \in DOMAIN todo : todo[k].op = "end"})

\* The C stack the parser needs is bounded by the length of what it has read:
\* no procedure comes back to itself before a token was consumed.  At most three
\* calls are open per token.
DepthBounded == Depth <= 3 * (pos + 1)

\* After self. and after an annotation the parser advances over a token that it
\* does not look at; and over two once it keeps a colon as the token that follows.
Unread == {"Selfs", "Ats"}

\* A file that was accepted without an error, and in which no token was skipped
\* unread, has an end for each block it opened and no other one; only an if may
\* be left open, by the end of the file.
AcceptedIsClosed ==
    (Done /\ ~reported /\ file.tokens \cap Unread = {} /\ peeked # "Colons")
        => (0 <= owed /\ owed <= ifs)

\* The block of an if, elif, else, while, for or match is being read: their
\* loops do not force the parser on.
InControlBlock == \E k \in DOMAIN todo :
    /\ todo[k].op = "end"
    /\ todo[k].of \in {"parser_if", "parser_elif", "parser_else", "parser_while", "parser_for",
                      "parser_match"}

\* The whole file is read whatever it holds, unless the statements of such a
\* block come to a semicolon.
FileIsRead == <>(Done \/ (tok = "Semicolons" /\ InControlBlock))

\* "consume ':'" (parser.c:521): the token taken as the colon of a named argument
\* is one.  The kept token is not dropped when the parser advances.
NamedArgumentHasColon ==
    [][At("peek") /\ peeked' = "Colons" => ahead' = <<"Colons">>]_vars
=============================================================================
