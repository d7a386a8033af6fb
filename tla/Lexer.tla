-------------------------------- MODULE Lexer --------------------------------
(***************************************************************************)
(* The lexer (src/src/syntax/lexer.c) under the three calls the parser     *)
(* makes of it (src/include/parser.h): the current token, the advance, and *)
(* the lookahead that copies the Lexer, runs it and puts the copy back.    *)
(*                                                                         *)
(* One step of a scanning loop is one action.  A source is a sequence of   *)
(* characters without its terminating zero; one character stands for each  *)
(* class the code tells apart.  The line table is an array on the heap,    *)
(* which the copy of the Lexer does not copy: lines is the pointer, length *)
(* and capacity that the Lexer holds, live the block there really is, and  *)
(* cells what is in it.  The value of a literal is left out.               *)
(***************************************************************************)
EXTENDS Naturals, Sequences, FiniteSets

CONSTANTS
  Sources,   \* the texts that are read
  Keywords,  \* the spellings lexer_words compares a word with
  FirstCap,  \* capacity of an array after its first push (8 in the code)
  None       \* no token, no copy

LF    == "newline"
Zero  == "zero"
Quote == "quote"
Tick  == "apostrophe"
Slant == "backslash"

Spaces  == {" ", LF}
Octals  == {"0", "1"}
Digits  == Octals \cup {"8"}
Hexes   == Digits \cup {"a", "b"}
Letters == {"a", "b", "x", "o", "_"}

Operators ==
  {<<"+">>, <<"+", "=">>, <<"*">>, <<"*", "=">>, <<"=">>, <<"=", "=">>, <<"/">>, <<"/", "=">>,
   <<"&">>, <<"&", "&">>, <<"&", "=">>,
   <<"<">>, <<"<", "=">>, <<"<", "<">>, <<"<", "<", "=">>,
   <<".">>, <<".", ".">>, <<".", ".", ".">>, <<"(">>}

Characters == Spaces \cup Digits \cup Letters
              \cup {Quote, Tick, Slant, "+", "=", "/", "&", "<", ".", "(", "*", "$"}

ASSUME LexerAssumption ==
  /\ Sources \subseteq Seq(Characters)
  /\ FirstCap \in Nat \ {0}
  /\ None \notin [cur : Nat, top : [tag : STRING, start : Nat, stop : Nat],
                  lines : [data : Nat, len : Nat, cap : Nat]]

VARIABLES
  src,       \* Lexer.source
  cur,       \* Lexer.cur
  top,       \* Lexer.top, None while its tag is 0
  mode,      \* "idle", or the loop the lexer is in
  start,     \* where the token at hand starts
  tag,       \* its tag, None for an unknown character
  lines,     \* Lexer.line_starts: the block it points to, len, cap
  live,      \* the block that was allocated last; the others were freed
  cells,     \* what is in that block
  saved,     \* the copy parser_peek_next puts back, None outside of it
  has_peek,  \* Parser.has_peek
  broken,    \* the lexer wrote to, or reallocated, a freed block
  grewAhead, \* ghost: the table was reallocated during a lookahead
  read       \* ghost: the tokens the parser consumed

table == <<lines, live, cells, broken, grewAhead>>
scan == <<cur, mode, start, tag>>
vars == <<src, scan, top, table, saved, has_peek, read>>

-------------------------------------------------------------------------------
Char(i) == IF i <= Len(src) THEN src[i] ELSE Zero
Here == Char(cur)
After == Char(cur + 1)
Text == SubSeq(src, start, cur - 1)

(* ARR_PUSH(line_starts, at); the block may or may not move when it grows. *)
Push(at) ==
  LET full == lines.len = lines.cap IN
  IF lines.data # live
  THEN broken' = TRUE /\ UNCHANGED <<lines, live, cells, grewAhead>>
  ELSE /\ live' \in IF full THEN {live, live + 1} ELSE {live}
       /\ lines' = [data |-> live', len |-> lines.len + 1,
                    cap |-> IF full THEN 2 * lines.cap ELSE lines.cap]
       /\ cells' = Append(SubSeq(cells, 1, lines.len), at)
       /\ grewAhead' = (grewAhead \/ (full /\ saved # None))
       /\ UNCHANGED broken

(* lexer_advance_char: a newline starts a line, the zero is not passed.    *)
Move ==
  /\ cur' = IF Here = Zero THEN cur ELSE cur + 1
  /\ IF Here = LF THEN Push(cur + 1) ELSE UNCHANGED table

(* The same where no newline can be.                                       *)
Skip(n) == cur' = cur + n /\ UNCHANGED table

Goto(m) == mode' = m /\ UNCHANGED <<start, tag>>
Found(t) == mode' = "found" /\ tag' = t /\ UNCHANGED start

In(m) == mode = m /\ ~broken /\ UNCHANGED <<src, top, saved, has_peek, read>>

-------------------------------------------------------------------------------
(* skip_comments                                                           *)

Blank ==
  /\ In("skip")
  /\ Here \in Spaces
  /\ Move
  /\ Goto("skip")

LineComment ==
  \/ In("skip") /\ Here = "/" /\ After = "/" /\ Skip(0) /\ Goto("line")
  \/ In("line") /\ Move /\ Goto(IF Here = LF THEN "skip" ELSE "line")

(* compue_top: the first character tells what comes.                       *)
Start ==
  /\ In("skip")
  /\ Here \notin Spaces
  /\ ~(Here = "/" /\ After = "/")
  /\ start' = cur
  /\ IF Here = "/" /\ After = "*" THEN mode' = "block" /\ Skip(2) /\ UNCHANGED tag
     ELSE IF Here = Zero THEN mode' = "found" /\ tag' = "EOFs" /\ Skip(0)
     ELSE IF Here \in Letters THEN mode' = "word" /\ Skip(0) /\ UNCHANGED tag
     ELSE IF Here \in Digits
     THEN /\ tag' = "Ints"
          /\ IF Here = "0" /\ After \in {"x", "b", "o"}
             THEN mode' = After /\ Skip(2)
             ELSE mode' = "decimal" /\ Skip(0)
     ELSE IF Here = Quote THEN mode' = "string" /\ tag' = "Strings" /\ Skip(1)
     ELSE IF Here = Tick THEN mode' = "char" /\ tag' = "Chars" /\ Skip(1)
     ELSE mode' = "chars" /\ Skip(1) /\ UNCHANGED tag

(* The comment that lexer_chars skips before it calls compue_top again.    *)
BlockComment ==
  /\ In("block")
  /\ IF Here = "*" /\ After = "/" THEN Skip(2) /\ Goto("skip") ELSE Move /\ Goto("block")

(* Mutant: a character it does not know is not consumed.                   *)
OperatorStays ==
  /\ In("chars")
  /\ IF Append(Text, Here) \in Operators THEN Skip(1) /\ Goto("chars")
     ELSE IF Text \in Operators THEN Skip(0) /\ Found("Operator")
     ELSE cur' = cur - 1 /\ UNCHANGED table /\ Found(None)

(* lexer_chars: '=' or a second and third character as long as they make a *)
(* longer operator; "Unknown char" leaves the tag 0.                       *)
Operator ==
  /\ In("chars")
  /\ IF Append(Text, Here) \in Operators THEN Skip(1) /\ Goto("chars")
     ELSE Skip(0) /\ Found(IF Text \in Operators THEN "Operator" ELSE None)

Word ==
  /\ In("word")
  /\ IF Here \in Letters \cup Digits THEN Skip(1) /\ Goto("word")
     ELSE Skip(0) /\ Found(IF Text \in Keywords THEN "Keyword" ELSE "Identifier")

(* lexer_numbers: hexadecimal, binary and octal digits, none needed.       *)
Prefixed ==
  /\ \/ In("x") /\ Here \in Hexes /\ Skip(1) /\ Goto("x")
     \/ In("b") /\ Here \in {"0", "1"} /\ Skip(1) /\ Goto("b")
     \/ In("o") /\ Here \in Octals /\ Skip(1) /\ Goto("o")
     \/ In("x") /\ Here \notin Hexes /\ Skip(0) /\ Found("Ints")
     \/ In("b") /\ Here \notin {"0", "1"} /\ Skip(0) /\ Found("Ints")
     \/ In("o") /\ Here \notin Octals /\ Skip(0) /\ Found("Ints")

(* Mutant: any point after a number starts a fraction.                     *)
DecimalPoint ==
  \/ In("decimal") /\ Here \in Digits /\ Skip(1) /\ Goto("decimal")
  \/ In("decimal") /\ Here = "." /\ Skip(1) /\ Goto("fraction")
  \/ In("decimal") /\ Here \notin Digits \cup {"."} /\ Skip(0) /\ Found("Ints")
  \/ In("fraction") /\ Here \in Digits /\ Skip(1) /\ Goto("fraction")
  \/ In("fraction") /\ Here \notin Digits /\ Skip(0) /\ Found("Floats")

Decimal ==
  \/ In("decimal") /\ Here \in Digits /\ Skip(1) /\ Goto("decimal")
  \/ In("decimal") /\ Here = "." /\ After \in Digits /\ Skip(1) /\ Goto("fraction")
  \/ /\ In("decimal") /\ Here \notin Digits /\ ~(Here = "." /\ After \in Digits)
     /\ Skip(0) /\ Found("Ints")
  \/ In("fraction") /\ Here \in Digits /\ Skip(1) /\ Goto("fraction")
  \/ In("fraction") /\ Here \notin Digits /\ Skip(0) /\ Found("Floats")

(* Mutant: the end of the text is not looked for after a backslash.        *)
StringPastEnd ==
  \/ In("string") /\ Here \in {Quote, Zero} /\ Move /\ Found("Strings")
  \/ In("string") /\ Here = Slant /\ Skip(2) /\ Goto("string")
  \/ In("string") /\ Here \notin {Quote, Zero, Slant} /\ Move /\ Goto("string")

(* Mutant: the lines in a string are not counted.                          *)
StringUncounted ==
  \/ In("string") /\ Here \in {Quote, Zero} /\ Move /\ Found("Strings")
  \/ In("string") /\ Here = Slant /\ After # Zero /\ Move /\ Goto("escape")
  \/ /\ In("string") /\ Here \notin {Quote, Zero} /\ ~(Here = Slant /\ After # Zero)
     /\ Skip(1) /\ Goto("string")
  \/ In("escape") /\ Move /\ Goto("string")

(* lexer_strings: up to the closing quote or the end of the text.          *)
String ==
  \/ In("string") /\ Here \in {Quote, Zero} /\ Move /\ Found("Strings")
  \/ In("string") /\ Here = Slant /\ After # Zero /\ Move /\ Goto("escape")
  \/ /\ In("string") /\ Here \notin {Quote, Zero} /\ ~(Here = Slant /\ After # Zero)
     /\ Move /\ Goto("string")
  \/ In("escape") /\ Move /\ Goto("string")

(* lexer_char_literal: one character or an escape, and a quote if there is. *)
CharLiteral ==
  \/ In("char") /\ Here = Slant /\ Move /\ Goto("value")
  \/ In("char") /\ Here # Slant /\ Move /\ Goto("close")
  \/ In("value") /\ Move /\ Goto("close")
  \/ In("close") /\ Skip(IF Here = Tick THEN 1 ELSE 0) /\ Found("Chars")

(* compue_top returns; in a lookahead the copy of the Lexer is put back.   *)
Deliver ==
  /\ mode = "found" /\ ~broken
  /\ mode' = "idle"
  /\ IF saved = None
     THEN /\ top' = IF tag = None THEN None ELSE [tag |-> tag, start |-> start, stop |-> cur]
          /\ UNCHANGED <<cur, lines>>
     ELSE cur' = saved.cur /\ top' = saved.top /\ lines' = saved.lines
  /\ saved' = None
  /\ UNCHANGED <<src, start, tag, live, cells, broken, grewAhead, has_peek, read>>

-------------------------------------------------------------------------------
(* What the parser calls                                                   *)

(* parser_current, when there is no token yet.                             *)
Current ==
  /\ mode = "idle" /\ ~broken
  /\ top = None
  /\ Goto("skip")
  /\ UNCHANGED <<src, cur, top, table, saved, has_peek, read>>

AtEnd == mode = "idle" /\ top # None /\ top.tag = "EOFs"

Advance ==
  /\ mode = "idle" /\ ~broken
  /\ top # None /\ ~AtEnd
  /\ read' = Append(read, top)
  /\ top' = None
  /\ UNCHANGED <<src, scan, table, saved, has_peek>>

(* parser_peek_next, called at an identifier; it runs the lexer only once. *)
PeekNext ==
  /\ mode = "idle" /\ ~broken
  /\ top # None /\ top.tag = "Identifier"
  /\ ~has_peek
  /\ has_peek' = TRUE
  /\ saved' = [cur |-> cur, top |-> top, lines |-> lines]
  /\ top' = None
  /\ Goto("skip")
  /\ UNCHANGED <<src, cur, table, read>>

(* lexer_new                                                               *)
Init ==
  /\ src \in Sources
  /\ cur = 1
  /\ top = None
  /\ mode = "idle"
  /\ start = 1
  /\ tag = None
  /\ lines = [data |-> 1, len |-> 1, cap |-> FirstCap]
  /\ live = 1
  /\ cells = <<1>>
  /\ saved = None
  /\ has_peek = FALSE
  /\ broken = FALSE
  /\ grewAhead = FALSE
  /\ read = << >>

Scan ==
  \/ Blank \/ LineComment \/ Start \/ BlockComment \/ Operator \/ Word
  \/ Prefixed \/ Decimal \/ String \/ CharLiteral \/ Deliver

Next == Scan \/ Current \/ Advance \/ PeekNext

Spec == Init /\ [][Next]_vars

(* One thread runs the parser and the lexer, and asks until the end.       *)
FairSpec == Spec /\ WF_vars(Next)
-------------------------------------------------------------------------------
(* Properties                                                              *)

Positions == 1..(Len(src) + 1)
Tags == {"EOFs", "Identifier", "Keyword", "Ints", "Floats", "Strings", "Chars", "Operator"}
Tokens == [tag : Tags, start : Positions, stop : Positions]
Tables == [data : Nat, len : Nat \ {0}, cap : Nat \ {0}]
Modes == {"idle", "skip", "line", "block", "word", "x", "b", "o", "decimal", "fraction",
          "string", "escape", "char", "value", "close", "chars", "found"}

(* No scanning loop reads or leaves the cursor beyond the terminating zero, *)
(* whatever the text ends in.                                              *)
TypeOK ==
  /\ src \in Seq(Characters)
  /\ cur \in Positions
  /\ top \in Tokens \cup {None}
  /\ mode \in Modes
  /\ start \in Positions
  /\ tag \in Tags \cup {None}
  /\ lines \in Tables
  /\ live \in Nat
  /\ cells \in Seq(Positions)
  /\ saved \in [cur : Positions, top : Tokens, lines : Tables] \cup {None}
  /\ has_peek \in BOOLEAN
  /\ broken \in BOOLEAN
  /\ grewAhead \in BOOLEAN
  /\ read \in Seq(Tokens)

LineStarts(i) == {1} \cup {j + 1 : j \in {k \in 1..(i - 1) : Char(k) = LF}}

(* n cells that hold the line starts up to i, in order.                    *)
Holds(n, i) ==
  /\ n <= Len(cells)
  /\ {cells[k] : k \in 1..n} = LineStarts(i)
  /\ \A j, k \in 1..n : j < k => cells[j] < cells[k]

(* The line table has each line up to the cursor once and in order, also    *)
(* when a lookahead scanned lines that are scanned again; only a lookahead  *)
(* in which the array was reallocated leaves the Lexer a table that was     *)
(* freed, and only then is a freed block written.                          *)
LinesRight ==
  /\ lines.data = live => Holds(lines.len, cur)
  /\ lines.data # live \/ broken => grewAhead

(* The text is read to its end, unless it ends in a // or /* comment, in    *)
(* which the scan never ends, or the line table is lost.                   *)
CommentAtEnd == mode \in {"line", "block"} /\ Here = Zero
SourceRead == <>(AtEnd \/ CommentAtEnd \/ broken)
===============================================================================
