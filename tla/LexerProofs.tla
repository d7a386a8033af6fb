----------------------------- MODULE LexerProofs -----------------------------
(***************************************************************************)
(* Proofs about Lexer, for texts of any length and content and an array of *)
(* any first capacity.                                                     *)
(***************************************************************************)
EXTENDS Lexer, TLAPS

-------------------------------------------------------------------------------
(* The characters                                                          *)

LEMMA NoZero == Zero \notin Characters /\ LF # Zero
  BY DEF Zero, Characters, Spaces, Digits, Octals, Letters, Quote, Tick, Slant, LF

LEMMA CharInText ==
  ASSUME src \in Seq(Characters), NEW i \in Nat \ {0}, Char(i) # Zero
  PROVE  i \in 1..Len(src)
  BY DEF Char

LEMMA LastOfThree ==
  ASSUME NEW S, NEW a \in S, NEW b \in S, NEW c \in S
  PROVE  /\ Len(<<a>>) = 1 /\ <<a>>[1] = a
         /\ Len(<<a, b>>) = 2 /\ <<a, b>>[2] = b
         /\ Len(<<a, b, c>>) = 3 /\ <<a, b, c>>[3] = c
  OBVIOUS

LEMMA OperatorsEnd ==
  ASSUME NEW o \in Operators
  PROVE  o[Len(o)] \in Characters \ {LF}
  <1> DEFINE C == {"+", "=", "*", "/", "&", "<", ".", "("}
  <1>1. C \subseteq Characters \ {LF}
    BY DEF Characters, Spaces, Digits, Octals, Letters, LF, Quote, Tick, Slant
  <1>2. \/ \E a \in C : o = <<a>>
        \/ \E a, b \in C : o = <<a, b>>
        \/ \E a, b, c \in C : o = <<a, b, c>>
    BY DEF Operators
  <1>3. o[Len(o)] \in C
    <2> HIDE DEF C
    <2> QED
      BY <1>2, LastOfThree
  <1> QED
    BY <1>1, <1>3

LEMMA LastAppended ==
  ASSUME NEW S, NEW t \in Seq(S), NEW c \in S
  PROVE  Append(t, c)[Len(Append(t, c))] = c
  OBVIOUS

LEMMA ExtendsOperator ==
  ASSUME NEW S, NEW t \in Seq(S), NEW c \in S, Append(t, c) \in Operators
  PROVE  c \notin {LF, Zero}
  <1>1. c \in Characters \ {LF}
    BY LastAppended, OperatorsEnd, ZenonT(30)
  <1> QED
    BY <1>1, NoZero

(* The next n characters are in the text and no newlines.                  *)
Clear(n) == \A k \in 0..(n - 1) : Char(cur + k) \notin {LF, Zero}

-------------------------------------------------------------------------------
(* The line table                                                          *)

(* Besides LinesRight: what the copy of the Lexer holds stays right while  *)
(* the lookahead goes on over the same array.                              *)
Copied ==
  saved # None =>
    /\ saved.lines.data <= live
    /\ saved.lines.data # live => grewAhead
    /\ saved.lines.data = live =>
         /\ lines.data = live
         /\ saved.lines.len <= lines.len
         /\ Holds(saved.lines.len, saved.cur)

TableInv == LinesRight /\ lines.data <= live /\ Copied

LEMMA StartsOn ==
  ASSUME src \in Seq(Characters), NEW i \in Nat \ {0}
  PROVE  /\ Char(i) # LF => LineStarts(i + 1) = LineStarts(i)
         /\ Char(i) = LF => LineStarts(i + 1) = LineStarts(i) \cup {i + 1}
         /\ \A s \in LineStarts(i) : s \in Nat /\ s <= i
  <1>1. 1..((i + 1) - 1) = (1..(i - 1)) \cup {i}
    OBVIOUS
  <1>2. \A s \in LineStarts(i) : s \in Nat /\ s <= i
    BY DEF LineStarts
  <1>3. ASSUME Char(i) # LF
        PROVE  {k \in 1..((i + 1) - 1) : Char(k) = LF} = {k \in 1..(i - 1) : Char(k) = LF}
    BY <1>1, <1>3
  <1>4. ASSUME Char(i) = LF
        PROVE  {k \in 1..((i + 1) - 1) : Char(k) = LF}
                 = {k \in 1..(i - 1) : Char(k) = LF} \cup {i}
    BY <1>1, <1>4
  <1>5. ASSUME Char(i) # LF
        PROVE  LineStarts(i + 1) = LineStarts(i)
    BY <1>3, <1>5 DEF LineStarts
  <1>6. ASSUME Char(i) = LF
        PROVE  LineStarts(i + 1) = LineStarts(i) \cup {i + 1}
    BY <1>4, <1>6 DEF LineStarts
  <1> QED
    BY <1>2, <1>5, <1>6

LEMMA ClearStarts ==
  ASSUME src \in Seq(Characters), cur \in Positions, NEW n \in 0..2, Clear(n)
  PROVE  cur + n \in Positions /\ LineStarts(cur + n) = LineStarts(cur)
  <1>1. cur \in Nat \ {0} /\ Len(src) \in Nat
    BY DEF Positions
  <1>2. CASE n = 0
    BY <1>1, <1>2
  <1>3. CASE n = 1
    <2>1. Char(cur + 0) \notin {LF, Zero}
      BY <1>3 DEF Clear
    <2>2. Char(cur) \notin {LF, Zero}
      BY <1>1, <2>1
    <2>3. cur \in 1..Len(src)
      BY <1>1, <2>2, CharInText
    <2> QED
      BY <1>1, <1>3, <2>2, <2>3, StartsOn DEF Positions
  <1>4. CASE n = 2
    <2>1. Char(cur + 0) \notin {LF, Zero} /\ Char(cur + 1) \notin {LF, Zero}
      BY <1>4 DEF Clear
    <2>2. Char(cur) \notin {LF, Zero}
      BY <1>1, <2>1
    <2>3. cur + 1 \in 1..Len(src)
      BY <1>1, <2>1, CharInText
    <2>4. LineStarts(cur + 1) = LineStarts(cur)
      BY <1>1, <2>2, StartsOn
    <2>5. cur + 1 \in Nat \ {0} /\ (cur + 1) + 1 = cur + 2
      BY <1>1
    <2>6. LineStarts((cur + 1) + 1) = LineStarts(cur + 1)
      BY <2>1, <2>5, StartsOn
    <2>7. LineStarts(cur + 2) = LineStarts(cur)
      BY <2>4, <2>5, <2>6
    <2>8. cur + 2 \in Positions
      BY <1>1, <2>3 DEF Positions
    <2> QED
      BY <1>4, <2>7, <2>8
  <1> QED
    BY <1>2, <1>3, <1>4

HoldsIn(c, n, i) ==
  /\ n <= Len(c)
  /\ {c[k] : k \in 1..n} = LineStarts(i)
  /\ \A j, k \in 1..n : j < k => c[j] < c[k]

LEMMA Truncated ==
  ASSUME NEW S, NEW c \in Seq(S), NEW n \in 1..Len(c), NEW x \in S
  PROVE  /\ Append(SubSeq(c, 1, n), x) \in Seq(S)
         /\ Len(Append(SubSeq(c, 1, n), x)) = n + 1
         /\ \A k \in 1..n : Append(SubSeq(c, 1, n), x)[k] = c[k]
         /\ Append(SubSeq(c, 1, n), x)[n + 1] = x
  <1> DEFINE s == SubSeq(c, 1, n)
  <1>1. s \in Seq(S) /\ Len(s) = n /\ \A k \in 1..n : s[k] = c[k]
    OBVIOUS
  <1>2. ASSUME NEW t \in Seq(S), Len(t) = n, \A k \in 1..n : t[k] = c[k]
        PROVE  /\ Append(t, x) \in Seq(S) /\ Len(Append(t, x)) = n + 1
               /\ \A k \in 1..n : Append(t, x)[k] = c[k]
               /\ Append(t, x)[n + 1] = x
    BY <1>2
  <1> QED
    BY <1>1, <1>2

(* A newline at i, pushed onto the starts up to i.                         *)
LEMMA HoldsPushed ==
  ASSUME src \in Seq(Characters), NEW c \in Seq(Positions), NEW d \in Seq(Positions),
         NEW n \in Nat \ {0}, NEW i \in Nat \ {0}, HoldsIn(c, n, i), Char(i) = LF,
         Len(d) = n + 1, \A k \in 1..n : d[k] = c[k], d[n + 1] = i + 1
  PROVE  HoldsIn(d, n + 1, i + 1)
  <1>1. 1..(n + 1) = (1..n) \cup {n + 1}
    OBVIOUS
  <1>2. LineStarts(i + 1) = LineStarts(i) \cup {i + 1}
    BY StartsOn
  <1>3. {d[k] : k \in 1..(n + 1)} = {c[k] : k \in 1..n} \cup {i + 1}
    BY <1>1
  <1>4. {d[k] : k \in 1..(n + 1)} = LineStarts(i + 1)
    BY <1>2, <1>3 DEF HoldsIn
  <1>5. \A k \in 1..n : c[k] \in Nat /\ c[k] <= i
    BY StartsOn DEF HoldsIn
  <1>6. ASSUME NEW j \in 1..(n + 1), NEW k \in 1..(n + 1), j < k
        PROVE  d[j] < d[k]
    <2>1. j \in 1..n
      BY <1>6
    <2>2. CASE k = n + 1
      <3>1. d[j] = c[j] /\ c[j] \in Nat /\ c[j] <= i
        BY <1>5, <2>1
      <3>2. d[k] = i + 1
        BY <2>2
      <3>3. ASSUME NEW a \in Nat, NEW b, a <= i, b = i + 1
            PROVE  a < b
        BY <3>3
      <3>4. c[j] < d[k]
        BY <3>1, <3>2, <3>3
      <3> QED
        BY <3>1, <3>4
    <2>3. CASE k # n + 1
      <3>1. k \in 1..n
        BY <2>3
      <3> QED
        BY <1>6, <2>1, <3>1 DEF HoldsIn
    <2> QED
      BY <2>2, <2>3
  <1> QED
    BY <1>4, <1>6 DEF HoldsIn

LEMMA HoldsPrefix ==
  ASSUME NEW c, NEW d, NEW n \in Nat, NEW m \in Nat, NEW i, HoldsIn(c, m, i), m <= n,
         Len(d) = n + 1, \A k \in 1..n : d[k] = c[k]
  PROVE  HoldsIn(d, m, i)
  <1>1. \A k \in 1..m : k \in 1..n
    OBVIOUS
  <1>2. \A k \in 1..m : d[k] = c[k]
    BY <1>1
  <1>3. {d[k] : k \in 1..m} = {c[k] : k \in 1..m}
    BY <1>2
  <1>4. \A j, k \in 1..m : j < k => d[j] < d[k]
    BY <1>2 DEF HoldsIn
  <1> QED
    BY <1>3, <1>4 DEF HoldsIn

LEMMA HoldsHere ==
  ASSUME NEW n, NEW i
  PROVE  Holds(n, i) <=> HoldsIn(cells, n, i)
  BY DEF Holds, HoldsIn

(* What the Lexer and its copy hold after a step.                          *)
LEMMA HoldsNext ==
  ASSUME src' = src
  PROVE  /\ Holds(lines.len, cur)' <=> HoldsIn(cells', lines'.len, cur')
         /\ Holds(saved.lines.len, saved.cur)'
              <=> HoldsIn(cells', saved'.lines.len, saved'.cur)
  <1>2. \A n, i : n = lines'.len /\ i = cur' => (Holds(lines.len, cur)' <=> HoldsIn(cells', n, i))
    BY DEF Holds, HoldsIn, LineStarts, Char
  <1>3. \A n, i : n = saved'.lines.len /\ i = saved'.cur
          => (Holds(saved.lines.len, saved.cur)' <=> HoldsIn(cells', n, i))
    BY DEF Holds, HoldsIn, LineStarts, Char
  <1> QED
    BY <1>2, <1>3

-------------------------------------------------------------------------------
(* The two ways to go on in the text                                       *)

LEMMA OverClear ==
  ASSUME TypeOK, TableInv, NEW n \in 0..2, Clear(n), cur' = cur + n,
         UNCHANGED <<src, saved, table>>
  PROVE  cur' \in Positions /\ TableInv'
  <1>1. cur' \in Positions /\ LineStarts(cur') = LineStarts(cur)
    BY ClearStarts DEF TypeOK
  <1>2. lines' = lines /\ live' = live /\ cells' = cells /\ broken' = broken
        /\ grewAhead' = grewAhead /\ saved' = saved /\ src' = src
    BY DEF table
  <1>3. Holds(lines.len, cur) => Holds(lines.len, cur)'
    BY <1>1, <1>2, HoldsNext, HoldsHere DEF HoldsIn
  <1>4. Holds(saved.lines.len, saved.cur) => Holds(saved.lines.len, saved.cur)'
    BY <1>2, HoldsNext, HoldsHere
  <1>5. LinesRight'
    BY <1>2, <1>3 DEF TableInv, LinesRight
  <1>6. Copied'
    BY <1>2, <1>4 DEF TableInv, Copied
  <1> QED
    BY <1>1, <1>2, <1>5, <1>6 DEF TableInv

TableTyped ==
  /\ lines \in Tables
  /\ live \in Nat
  /\ cells \in Seq(Positions)
  /\ broken \in BOOLEAN
  /\ grewAhead \in BOOLEAN

LEMMA OverNewline ==
  ASSUME TypeOK, TableInv, Here = LF, cur' = cur + 1, Push(cur + 1),
         UNCHANGED <<src, saved>>
  PROVE  cur' \in Positions /\ TableTyped' /\ TableInv'
  <1>1. cur \in 1..Len(src) /\ cur \in Nat \ {0} /\ Len(src) \in Nat /\ Char(cur) = LF
    BY CharInText, NoZero DEF TypeOK, Positions, Here
  <1>2. cur + 1 \in Positions /\ Positions' = Positions
    BY <1>1 DEF Positions
  <1>3. CASE lines.data # live
    <2>1. broken' = TRUE /\ lines' = lines /\ live' = live /\ cells' = cells
          /\ grewAhead' = grewAhead
      BY <1>3 DEF Push
    <2>2. grewAhead
      BY <1>3 DEF TableInv, LinesRight
    <2>3. TableTyped'
      BY <1>2, <2>1 DEF TypeOK, TableTyped, Tables
    <2>4. LinesRight'
      BY <1>3, <2>1, <2>2 DEF LinesRight
    <2>5. Copied'
      BY <1>3, <2>1, <2>2 DEF TableInv, Copied
    <2> QED
      BY <1>2, <2>1, <2>3, <2>4, <2>5 DEF TableInv
  <1>4. CASE lines.data = live
    <2> DEFINE full == lines.len = lines.cap
    <2>1. /\ live' \in IF full THEN {live, live + 1} ELSE {live}
          /\ lines' = [data |-> live', len |-> lines.len + 1,
                       cap |-> IF full THEN 2 * lines.cap ELSE lines.cap]
          /\ cells' = Append(SubSeq(cells, 1, lines.len), cur + 1)
          /\ grewAhead' = (grewAhead \/ (full /\ saved # None))
          /\ broken' = broken
      BY <1>4 DEF Push
    <2>2. Holds(lines.len, cur) /\ lines.len \in 1..Len(cells) /\ lines.len \in Nat \ {0}
          /\ lines.cap \in Nat \ {0} /\ live \in Nat
      BY <1>4 DEF TableInv, LinesRight, TypeOK, Holds, Tables
    <2>3. /\ cells' \in Seq(Positions)
          /\ Len(cells') = lines.len + 1
          /\ \A k \in 1..lines.len : cells'[k] = cells[k]
          /\ cells'[lines.len + 1] = cur + 1
      BY <1>2, <2>1, <2>2, Truncated DEF TypeOK
    <2>4. live' \in Nat /\ live' >= live /\ (live' # live => full /\ live' > live)
      BY <2>1, <2>2
    <2>5. TableTyped'
      <3>1. lines' \in Tables
        BY <2>1, <2>2, <2>4 DEF Tables
      <3>2. broken' \in BOOLEAN /\ grewAhead' \in BOOLEAN
        BY <2>1 DEF TypeOK
      <3> QED
        BY <1>2, <2>3, <2>4, <3>1, <3>2 DEF TableTyped, Tables
    <2>6. HoldsIn(cells, lines.len, cur)
      BY <2>2, HoldsHere
    <2>7. HoldsIn(cells', lines.len + 1, cur + 1)
      BY <1>1, <1>2, <2>2, <2>3, <2>6, HoldsPushed DEF TypeOK
    <2>8. lines'.len = lines.len + 1 /\ lines'.data = live'
      BY <2>1
    <2>9. Holds(lines.len, cur)'
      BY <2>7, <2>8, HoldsNext
    <2>10. LinesRight'
      BY <2>1, <2>8, <2>9, <1>4 DEF TableInv, LinesRight
    <2>11. Copied'
      <3> SUFFICES ASSUME saved # None
                   PROVE  /\ saved.lines.data <= live'
                          /\ saved.lines.data # live' => grewAhead'
                          /\ saved.lines.data = live' =>
                               saved.lines.len <= lines'.len /\ Holds(saved.lines.len, saved.cur)'
        BY <2>8 DEF Copied
      <3>1. /\ saved.lines.data <= live
            /\ saved.lines.data # live => grewAhead
            /\ saved.lines.data = live =>
                 saved.lines.len <= lines.len /\ Holds(saved.lines.len, saved.cur)
        BY DEF TableInv, Copied
      <3>2. saved.lines.data \in Nat /\ saved.lines.len \in Nat
        BY DEF TypeOK, Tables
      <3>3. saved.lines.data # live' => grewAhead'
        BY <2>1, <2>4, <3>1
      <3>4. saved.lines.data = live' => live' = live
        BY <2>2, <2>4, <3>1, <3>2
      <3>5. ASSUME saved.lines.data = live'
            PROVE  saved.lines.len <= lines'.len /\ Holds(saved.lines.len, saved.cur)'
        <4>1. saved.lines.len <= lines.len /\ Holds(saved.lines.len, saved.cur)
          BY <3>1, <3>4, <3>5
        <4>2. HoldsIn(cells, saved.lines.len, saved.cur)
          BY <4>1, HoldsHere
        <4>3. HoldsIn(cells', saved.lines.len, saved.cur)
          BY <2>2, <2>3, <3>2, <4>1, <4>2, HoldsPrefix
        <4>4. Holds(saved.lines.len, saved.cur)'
          BY <4>3, HoldsNext
        <4> QED
          BY <2>2, <2>8, <3>2, <4>1, <4>4
      <3>6. saved.lines.data <= live'
        BY <2>2, <2>4, <3>1, <3>2
      <3> QED
        BY <3>3, <3>5, <3>6
    <2>12. (lines.data <= live)'
      BY <2>4, <2>8
    <2> QED
      BY <1>2, <2>5, <2>10, <2>11, <2>12 DEF TableInv
  <1> QED
    BY <1>3, <1>4

-------------------------------------------------------------------------------
(* Steps                                                                   *)

LEMMA Scanned ==
  ASSUME TypeOK, TableInv, UNCHANGED <<src, top, saved, has_peek, read>>,
         mode' \in Modes, start' \in Positions, tag' \in Tags \cup {None},
         Move \/ \E n \in 0..2 : Clear(n) /\ Skip(n)
  PROVE  TypeOK' /\ TableInv'
  <1>1. Positions' = Positions
    BY DEF Positions
  <1>2. cur \in Nat
    BY DEF TypeOK, Positions
  <1>3. ASSUME NEW n \in 0..2, Clear(n), cur' = cur + n, UNCHANGED table
        PROVE  cur' \in Positions /\ TableTyped' /\ TableInv'
    <2>1. cur' \in Positions /\ TableInv'
      BY <1>3, OverClear
    <2>2. TableTyped'
      BY <1>1, <1>3 DEF table, TableTyped, TypeOK, Tables
    <2> QED
      BY <2>1, <2>2
  <1>4. cur' \in Positions /\ TableTyped' /\ TableInv'
    <2>1. CASE \E n \in 0..2 : Clear(n) /\ Skip(n)
      BY <1>3, <2>1 DEF Skip
    <2>2. CASE Move /\ Here = Zero
      <3>1. cur' = cur + 0 /\ UNCHANGED table /\ Clear(0)
        BY <1>2, <2>2, NoZero DEF Move, Clear
      <3> QED
        BY <1>3, <3>1
    <2>3. CASE Move /\ Here \notin {LF, Zero}
      <3>1. cur' = cur + 1 /\ UNCHANGED table
        BY <2>3 DEF Move
      <3>2. Clear(1)
        BY <1>2, <2>3 DEF Clear, Here
      <3> QED
        BY <1>3, <3>1, <3>2
    <2>4. CASE Move /\ Here = LF
      <3>1. cur' = cur + 1 /\ Push(cur + 1)
        BY <2>4, NoZero DEF Move
      <3> QED
        BY <2>4, <3>1, OverNewline
    <2> QED
      BY <2>1, <2>2, <2>3, <2>4
  <1>5. top' \in Tokens' \cup {None} /\ read' \in Seq(Tokens')
        /\ saved' \in [cur : Positions', top : Tokens', lines : Tables'] \cup {None}
        /\ has_peek' \in BOOLEAN /\ src' \in Seq(Characters)
    BY <1>1 DEF TypeOK, Tokens, Tables
  <1> QED
    BY <1>1, <1>4, <1>5 DEF TypeOK, TableTyped

LEMMA ClearZero == ASSUME cur \in Positions PROVE Clear(0)
  BY DEF Clear, Positions

LEMMA ClearOne ==
  ASSUME cur \in Positions, Here \notin {LF, Zero}
  PROVE  Clear(1)
  BY DEF Clear, Positions, Here

LEMMA ClearTwo ==
  ASSUME cur \in Positions, Here \notin {LF, Zero}, After \notin {LF, Zero}
  PROVE  Clear(2)
  <1>1. \A k \in 0..(2 - 1) : k = 0 \/ k = 1
    OBVIOUS
  <1> QED
    BY <1>1 DEF Clear, Positions, Here, After

LEMMA Plain ==
  ("/" \notin {LF, Zero}) /\ ("*" \notin {LF, Zero}) /\ ("." \notin {LF, Zero})
  /\ ("0" \notin {LF, Zero}) /\ ("1" \notin {LF, Zero})
  /\ Tick \notin {LF, Zero} /\ Quote \notin {LF, Zero}
  /\ (\A c \in Letters \cup Digits \cup Octals \cup Hexes : c \notin {LF, Zero})
  BY DEF LF, Zero, Tick, Quote, Letters, Digits, Octals, Hexes

LEMMA TextTyped ==
  ASSUME TypeOK
  PROVE  Text \in Seq(Characters) /\ Here \in Characters \cup {Zero}
  <1>1. /\ src \in Seq(Characters) /\ Len(src) \in Nat
        /\ start \in 1..(Len(src) + 1) /\ cur \in 1..(Len(src) + 1)
    BY DEF TypeOK, Positions
  <1>2. Here \in Characters \cup {Zero}
    BY <1>1 DEF Here, Char
  <1>3. cur - 1 \in 0..Len(src)
    BY <1>1
  <1>4. \A m, n \in Nat : m >= 1 /\ n <= Len(src) => SubSeq(src, m, n) \in Seq(Characters)
    BY <1>1
  <1> QED
    BY <1>1, <1>2, <1>3, <1>4 DEF Text

LEMMA StepScan ==
  ASSUME TypeOK, TableInv, Scan, ~Deliver
  PROVE  TypeOK' /\ TableInv'
  <1> DEFINE Goes == Move \/ \E n \in 0..2 : Clear(n) /\ Skip(n)
  <1>1. cur \in Positions /\ start \in Positions /\ tag \in Tags \cup {None}
    BY DEF TypeOK
  <1>2. ASSUME Goes, NEW m \in Modes, In(m), NEW k \in Modes, Goto(k)
        PROVE  TypeOK' /\ TableInv'
    BY <1>1, <1>2, Scanned DEF In, Goto
  <1>3. ASSUME Goes, NEW m \in Modes, In(m), NEW t \in Tags \cup {None}, Found(t)
        PROVE  TypeOK' /\ TableInv'
    BY <1>1, <1>3, Scanned DEF In, Found, Modes
  <1>4. Skip(0) => Goes
    BY <1>1, ClearZero
  <1>5. Skip(1) /\ Here \notin {LF, Zero} => Goes
    BY <1>1, ClearOne
  <1>6. Skip(2) /\ Here \notin {LF, Zero} /\ After \notin {LF, Zero} => Goes
    BY <1>1, ClearTwo
  <1>7. CASE Blank
    <2> HIDE DEF Goes
    <2>1. Move /\ In("skip") /\ Goto("skip")
      BY <1>7 DEF Blank
    <2>2. Goes
      BY <2>1 DEF Goes
    <2> QED
      BY <1>2, <2>1, <2>2 DEF Modes
  <1>8. CASE LineComment
    <2>1. Goes
      BY <1>4, <1>8 DEF LineComment
    <2>2. (In("skip") \/ In("line")) /\ (Goto("skip") \/ Goto("line"))
      BY <1>8 DEF LineComment
    <2> HIDE DEF Goes
    <2> QED
      BY <1>2, <2>1, <2>2 DEF Modes
  <1>9. CASE BlockComment
    <2>1. Goes
      BY <1>6, <1>9, Plain DEF BlockComment
    <2>2. In("block") /\ (Goto("skip") \/ Goto("block"))
      BY <1>9 DEF BlockComment
    <2> HIDE DEF Goes
    <2> QED
      BY <1>2, <2>1, <2>2 DEF Modes
  <1>10. CASE Operator
    <2>1. In("chars")
      BY <1>10 DEF Operator
    <2>2. CASE Append(Text, Here) \in Operators
      <3>1. Skip(1) /\ Goto("chars")
        BY <1>10, <2>2 DEF Operator
      <3>2. Text \in Seq(Characters \cup {Zero}) /\ Here \in Characters \cup {Zero}
        BY TextTyped
      <3>3. Here \notin {LF, Zero}
        BY <2>2, <3>2, ExtendsOperator
      <3>4. Goes
        BY <1>5, <3>1, <3>3
      <3> HIDE DEF Goes
      <3> QED
        BY <1>2, <2>1, <3>1, <3>4 DEF Modes
    <2>3. CASE Append(Text, Here) \notin Operators
      <3>1. Skip(0) /\ \E t \in Tags \cup {None} : Found(t)
        BY <1>10, <2>3 DEF Operator, Tags
      <3>2. Goes
        BY <1>4, <3>1
      <3> HIDE DEF Goes
      <3> QED
        BY <1>3, <2>1, <3>1, <3>2 DEF Modes
    <2> QED
      BY <2>2, <2>3
  <1>11. CASE Word
    <2>1. Goes
      BY <1>4, <1>5, <1>11, Plain DEF Word
    <2>2. In("word") /\ (Goto("word") \/ \E t \in Tags \cup {None} : Found(t))
      BY <1>11 DEF Word, Tags
    <2> HIDE DEF Goes
    <2> QED
      BY <1>2, <1>3, <2>1, <2>2 DEF Modes
  <1>12. CASE Prefixed
    <2>1. Goes
      BY <1>4, <1>5, <1>12, Plain DEF Prefixed
    <2>2. \E m \in {"x", "b", "o"} : In(m) /\ (Goto(m) \/ \E t \in Tags \cup {None} : Found(t))
      BY <1>12 DEF Prefixed, Tags
    <2> HIDE DEF Goes
    <2> QED
      BY <1>2, <1>3, <2>1, <2>2 DEF Modes
  <1>13. CASE Decimal
    <2>1. Goes
      BY <1>4, <1>5, <1>13, Plain DEF Decimal
    <2>2. \E m, k \in {"decimal", "fraction"} :
            In(m) /\ (Goto(k) \/ \E t \in Tags \cup {None} : Found(t))
      BY <1>13 DEF Decimal, Tags
    <2> HIDE DEF Goes
    <2> QED
      BY <1>2, <1>3, <2>1, <2>2 DEF Modes
  <1>14. CASE String
    <2>1. Goes
      BY <1>14 DEF String
    <2>2. \E m, k \in {"string", "escape"} :
            In(m) /\ (Goto(k) \/ \E t \in Tags \cup {None} : Found(t))
      BY <1>14 DEF String, Tags
    <2> HIDE DEF Goes
    <2> QED
      BY <1>2, <1>3, <2>1, <2>2 DEF Modes
  <1>15. CASE CharLiteral
    <2>1. Goes
      BY <1>4, <1>5, <1>15, Plain DEF CharLiteral
    <2>2. \E m, k \in {"char", "value", "close"} :
            In(m) /\ (Goto(k) \/ \E t \in Tags \cup {None} : Found(t))
      BY <1>15 DEF CharLiteral, Tags
    <2> HIDE DEF Goes
    <2> QED
      BY <1>2, <1>3, <2>1, <2>2 DEF Modes
  <1>16. CASE Start
    <2>1. UNCHANGED <<src, top, saved, has_peek, read>> /\ start' = cur /\ Here \notin Spaces
      BY <1>16 DEF Start, In
    <2>2. mode' \in Modes /\ tag' \in Tags \cup {None}
      BY <1>1, <1>16 DEF Start, Modes, Tags
    <2>3. Here # LF
      BY <2>1 DEF Spaces
    <2>4. CASE Here = Zero
      <3>1. Skip(0)
        BY <1>16, <2>4 DEF Start, Zero
      <3> QED
        BY <1>1, <1>4, <2>1, <2>2, <3>1, Scanned
    <2>5. CASE Here # Zero
      <3>1. Skip(0) \/ Skip(1) \/ (Skip(2) /\ After \in {"*", "x", "b", "o"})
        BY <1>16, <2>5 DEF Start
      <3>2. \A c \in {"*", "x", "b", "o"} : c \notin {LF, Zero}
        BY DEF LF, Zero
      <3>3. Goes
        BY <1>4, <1>5, <1>6, <2>3, <2>5, <3>1, <3>2
      <3> QED
        BY <1>1, <2>1, <2>2, <3>3, Scanned
    <2> QED
      BY <2>4, <2>5
  <1> QED
    BY <1>7, <1>8, <1>9, <1>10, <1>11, <1>12, <1>13, <1>14, <1>15, <1>16 DEF Scan

(* The copy is put back: its cursor and its table belong together.         *)
LEMMA StepDeliver ==
  ASSUME TypeOK, TableInv, Deliver
  PROVE  TypeOK' /\ TableInv'
  <1>1. UNCHANGED <<src, start, tag, live, cells, broken, grewAhead, has_peek, read>>
        /\ mode' = "idle" /\ saved' = None
    BY DEF Deliver
  <1>2. Positions' = Positions /\ Tokens' = Tokens
    BY <1>1 DEF Positions, Tokens
  <1>3. Copied'
    BY <1>1 DEF Copied
  <1>4. CASE saved = None
    <2>1. /\ cur' = cur /\ lines' = lines
          /\ top' = IF tag = None THEN None ELSE [tag |-> tag, start |-> start, stop |-> cur]
      BY <1>4 DEF Deliver
    <2>2. top' \in Tokens \cup {None}
      BY <2>1 DEF TypeOK, Tokens
    <2>3. TypeOK'
      BY <1>1, <1>2, <2>1, <2>2 DEF TypeOK, Modes
    <2>4. Holds(lines.len, cur) => Holds(lines.len, cur)'
      BY <1>1, <2>1, HoldsNext, HoldsHere
    <2>5. LinesRight' /\ (lines.data <= live)'
      BY <1>1, <2>1, <2>4 DEF TableInv, LinesRight
    <2> QED
      BY <1>3, <2>3, <2>5 DEF TableInv
  <1>5. CASE saved # None
    <2>1. cur' = saved.cur /\ top' = saved.top /\ lines' = saved.lines
      BY <1>5 DEF Deliver
    <2>2. saved.cur \in Positions /\ saved.top \in Tokens /\ saved.lines \in Tables
      BY <1>5 DEF TypeOK
    <2>3. TypeOK'
      BY <1>1, <1>2, <2>1, <2>2 DEF TypeOK, Modes
    <2>4. Holds(saved.lines.len, saved.cur) => Holds(lines.len, cur)'
      BY <1>1, <2>1, HoldsNext, HoldsHere
    <2>5. LinesRight' /\ (lines.data <= live)'
      BY <1>1, <1>5, <2>1, <2>4 DEF TableInv, LinesRight, Copied
    <2> QED
      BY <1>3, <2>3, <2>5 DEF TableInv
  <1> QED
    BY <1>4, <1>5

LEMMA StepCaller ==
  ASSUME TypeOK, TableInv, Current \/ Advance \/ PeekNext
  PROVE  TypeOK' /\ TableInv'
  <1>1. /\ src' = src /\ cur' = cur /\ lines' = lines /\ live' = live /\ cells' = cells
        /\ broken' = broken /\ grewAhead' = grewAhead /\ start' = start /\ tag' = tag
    BY DEF Current, Advance, PeekNext, Goto, scan, table
  <1>2. Positions' = Positions /\ Tokens' = Tokens
    BY <1>1 DEF Positions, Tokens
  <1>3. Holds(lines.len, cur) => Holds(lines.len, cur)'
    BY <1>1, HoldsNext, HoldsHere
  <1>4. LinesRight' /\ (lines.data <= live)'
    BY <1>1, <1>3 DEF TableInv, LinesRight
  <1>5. CASE Current \/ Advance
    <2>1. saved' = saved /\ has_peek' = has_peek /\ mode' \in Modes /\ top' \in Tokens \cup {None}
          /\ read' \in Seq(Tokens)
      <3>1. CASE Current
        BY <3>1 DEF Current, Goto, TypeOK, Modes
      <3>2. CASE Advance
        <4>1. top \in Tokens /\ read' = Append(read, top) /\ read \in Seq(Tokens)
          BY <3>2 DEF Advance, TypeOK
        <4>2. read' \in Seq(Tokens)
          BY <4>1
        <4>3. saved' = saved /\ has_peek' = has_peek /\ mode' = mode /\ top' = None
          BY <3>2 DEF Advance, scan
        <4> QED
          BY <4>2, <4>3 DEF TypeOK
      <3> QED
        BY <1>5, <3>1, <3>2
    <2>2. TypeOK'
      BY <1>1, <1>2, <2>1 DEF TypeOK
    <2>3. Holds(saved.lines.len, saved.cur) => Holds(saved.lines.len, saved.cur)'
      BY <1>1, <2>1, HoldsNext, HoldsHere
    <2>4. Copied'
      BY <1>1, <2>1, <2>3 DEF TableInv, Copied
    <2> QED
      BY <1>4, <2>2, <2>4 DEF TableInv
  <1>6. CASE PeekNext
    <2>1. /\ saved' = [cur |-> cur, top |-> top, lines |-> lines]
          /\ has_peek' = TRUE /\ top' = None /\ mode' = "skip" /\ read' = read /\ top # None
      BY <1>6 DEF PeekNext, Goto
    <2>2. saved' \in [cur : Positions, top : Tokens, lines : Tables]
      BY <2>1 DEF TypeOK
    <2>3. TypeOK'
      BY <1>1, <1>2, <2>1, <2>2 DEF TypeOK, Modes
    <2>4. saved'.lines = lines /\ saved'.cur = cur
      BY <2>1
    <2>5. Holds(lines.len, cur) => Holds(saved.lines.len, saved.cur)'
      BY <1>1, <2>4, HoldsNext, HoldsHere
    <2>6. lines.len <= lines.len
      BY DEF TypeOK, Tables
    <2>7. Copied'
      BY <1>1, <2>4, <2>5, <2>6 DEF TableInv, LinesRight, Copied
    <2> QED
      BY <1>4, <2>3, <2>7 DEF TableInv
  <1> QED
    BY <1>5, <1>6

LEMMA StepTable ==
  ASSUME TypeOK, TableInv, [Next]_vars
  PROVE  TypeOK' /\ TableInv'
  <1>1. CASE Scan
    BY <1>1, StepScan, StepDeliver
  <1>2. CASE Current \/ Advance \/ PeekNext
    BY <1>2, StepCaller
  <1>3. CASE UNCHANGED vars
    <2>1. /\ src' = src /\ cur' = cur /\ lines' = lines /\ live' = live /\ cells' = cells
          /\ broken' = broken /\ grewAhead' = grewAhead /\ saved' = saved /\ mode' = mode
          /\ start' = start /\ tag' = tag /\ top' = top /\ has_peek' = has_peek /\ read' = read
      BY <1>3 DEF vars, scan, table
    <2>2. Positions' = Positions /\ Tokens' = Tokens
      BY <2>1 DEF Positions, Tokens
    <2>3. TypeOK'
      BY <2>1, <2>2 DEF TypeOK
    <2>4. Holds(lines.len, cur) => Holds(lines.len, cur)'
      BY <2>1, HoldsNext, HoldsHere
    <2>5. Holds(saved.lines.len, saved.cur) => Holds(saved.lines.len, saved.cur)'
      BY <2>1, HoldsNext, HoldsHere
    <2> QED
      BY <2>1, <2>3, <2>4, <2>5 DEF TableInv, LinesRight, Copied
  <1> QED
    BY <1>1, <1>2, <1>3 DEF Next

LEMMA InitTable == Init => TypeOK /\ TableInv
  <1> SUFFICES ASSUME Init PROVE TypeOK /\ TableInv
    OBVIOUS
  <1>1. src \in Seq(Characters) /\ Len(src) \in Nat
    BY LexerAssumption DEF Init
  <1>2. 1 \in Positions
    BY <1>1 DEF Positions
  <1>3. cells \in Seq(Positions) /\ Len(cells) = 1 /\ cells[1] = 1
    BY <1>2 DEF Init
  <1>4. lines \in Tables /\ lines.len = 1 /\ lines.data = live /\ live = 1
    BY LexerAssumption DEF Init, Tables
  <1>5. read \in Seq(Tokens)
    BY DEF Init
  <1>6. TypeOK
    <2>1. /\ cur = 1 /\ start = 1 /\ top = None /\ mode = "idle" /\ tag = None /\ live = 1
          /\ saved = None /\ has_peek = FALSE /\ broken = FALSE /\ grewAhead = FALSE
      BY DEF Init
    <2>2. mode \in Modes /\ live \in Nat
      BY <2>1 DEF Modes
    <2>3. has_peek \in BOOLEAN /\ broken \in BOOLEAN /\ grewAhead \in BOOLEAN
      BY <2>1
    <2>4. cur \in Positions /\ start \in Positions
      BY <1>2, <2>1
    <2>5. /\ top \in Tokens \cup {None} /\ tag \in Tags \cup {None}
          /\ saved \in [cur : Positions, top : Tokens, lines : Tables] \cup {None}
      BY <2>1, Zenon
    <2> QED
      BY <1>1, <1>3, <1>4, <1>5, <2>2, <2>3, <2>4, <2>5, Zenon DEF TypeOK
  <1>7. LineStarts(1) = {1}
    BY DEF LineStarts
  <1>8. Holds(1, 1)
    BY <1>3, <1>7 DEF Holds
  <1> QED
    BY <1>4, <1>6, <1>8 DEF Init, TableInv, LinesRight, Copied

(* No loop of the lexer leaves the text, however long it is and whatever    *)
(* it ends in.                                                             *)
THEOREM CursorInText == Spec => []TypeOK
  BY InitTable, StepTable, PTL DEF Spec

(* The line table is right at every moment, and only a lookahead during     *)
(* which the array was reallocated can take it away.                       *)
THEOREM LinesKept == Spec => []LinesRight
  <1>1. TableInv => LinesRight
    BY DEF TableInv
  <1> QED
    BY <1>1, InitTable, StepTable, PTL DEF Spec
===============================================================================
