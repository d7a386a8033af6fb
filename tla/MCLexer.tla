------------------------------- MODULE MCLexer -------------------------------
(***************************************************************************)
(* Lexer over every short text of seven alphabets, and the tokens of a      *)
(* text by definition: at each place the longest spelling that is one.      *)
(***************************************************************************)
EXTENDS Lexer

TextsOver(chars, n) == UNION {[1..k -> chars] : k \in 0..n}

ShortTexts ==
  TextsOver({"/", "*", LF, "a"}, 6)
  \cup TextsOver({Quote, Slant, LF, "a"}, 5)
  \cup TextsOver({Tick, Slant, LF, "a"}, 5)
  \cup TextsOver({"0", "8", "x", ".", "a"}, 5)
  \cup TextsOver({"0", "1", "8", "b", "o"}, 4)
  \cup TextsOver({"<", "=", "&", "."}, 4)
  \cup TextsOver({"+", "*", "$", "(", "_", " "}, 3)

Reserved == {<<"a", "b">>, <<"a">>}

-------------------------------------------------------------------------------
(* What a token is, said of its whole spelling                             *)

All(t, S) == \A i \in 1..Len(t) : t[i] \in S
Tail2(t) == SubSeq(t, 3, Len(t))
IsWord(t) == t # << >> /\ t[1] \in Letters /\ All(t, Letters \cup Digits)
IsInt(t) ==
  \/ t # << >> /\ All(t, Digits)
  \/ /\ Len(t) >= 2 /\ t[1] = "0"
     /\ \/ t[2] = "x" /\ All(Tail2(t), Hexes)
        \/ t[2] = "b" /\ All(Tail2(t), {"0", "1"})
        \/ t[2] = "o" /\ All(Tail2(t), Octals)
IsFloat(t) ==
  \E k \in 2..(Len(t) - 1) :
    t[k] = "." /\ \A i \in (1..Len(t)) \ {k} : t[i] \in Digits

(* A character is escaped after an odd number of backslashes.              *)
Escaped(t, i) ==
  \E n \in 1..i : /\ n % 2 = 1 /\ i - n >= 2 /\ (i - n = 2 \/ t[i - n - 1] # Slant)
                  /\ \A k \in (i - n)..(i - 1) : t[k] = Slant
Closes(t, i) == i > 1 /\ t[i] = Quote /\ ~Escaped(t, i)

(* Without its closing quote a string is the rest of the text.             *)
IsString(t, rest) ==
  /\ t # << >> /\ t[1] = Quote
  /\ \A i \in 2..(Len(t) - 1) : ~Closes(t, i)
  /\ Closes(t, Len(t)) \/ Len(t) = rest

IsChar(t, rest) ==
  /\ t # << >> /\ t[1] = Tick
  /\ \/ t = <<Tick>> /\ rest = 1
     \/ t = <<Tick, Slant>> /\ rest = 2
     \/ Len(t) = 2 /\ t[2] # Slant
     \/ Len(t) = 3 /\ (t[2] = Slant \/ t[3] = Tick)
     \/ Len(t) = 4 /\ t[2] = Slant /\ t[4] = Tick

TagOf(t, rest) ==
  IF t \in Keywords THEN "Keyword"
  ELSE IF IsWord(t) THEN "Identifier"
  ELSE IF IsInt(t) THEN "Ints"
  ELSE IF IsFloat(t) THEN "Floats"
  ELSE IF IsString(t, rest) THEN "Strings"
  ELSE IF IsChar(t, rest) THEN "Chars"
  ELSE IF t \in Operators THEN "Operator"
  ELSE None

Greatest(S) == CHOOSE n \in S : \A m \in S : m <= n
Least(S) == CHOOSE n \in S : \A m \in S : n <= m

RECURSIVE TokensFrom(_)
TokensFrom(i) ==
  LET rest == Len(src) - i + 1
      next == Char(i + 1)
      ends == {n \in 1..rest : TagOf(SubSeq(src, i, i + n - 1), rest) # None}
      newlines == {j \in i..Len(src) : src[j] = LF}
      closings == {j \in (i + 2)..(Len(src) - 1) : src[j] = "*" /\ src[j + 1] = "/"}
  IN IF rest <= 0 THEN << >>
     ELSE IF Char(i) = "/" /\ next = "/"
     THEN IF newlines = {} THEN << >> ELSE TokensFrom(Least(newlines) + 1)
     ELSE IF Char(i) = "/" /\ next = "*"
     THEN IF closings = {} THEN << >> ELSE TokensFrom(Least(closings) + 2)
     ELSE IF ends = {} THEN TokensFrom(i + 1)
     ELSE LET n == Greatest(ends) IN
            <<[tag |-> TagOf(SubSeq(src, i, i + n - 1), rest), start |-> i, stop |-> i + n]>>
            \o TokensFrom(i + n)

(* The parser consumes the tokens of the text and no others: comments and   *)
(* unknown characters are passed over, every other token is the longest     *)
(* there is, and a lookahead loses or repeats none.                        *)
TokensAreReference ==
  AtEnd \/ CommentAtEnd =>
    read \o (IF saved = None THEN << >> ELSE <<saved.top>>) = TokensFrom(1)
==============================================================================
