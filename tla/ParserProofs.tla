---------------------------- MODULE ParserProofs ----------------------------
(***************************************************************************)
(* For every file, written with any tokens: the parser's machine keeps its *)
(* types, the C stack it needs is bounded by what it has read, and a file  *)
(* it accepts has the ends that its blocks ask for.                        *)
(*                                                                         *)
(* The bound: every procedure is given a price, in calls, which is how     *)
(* many calls it may have open at once, itself included, before it has     *)
(* consumed a token.  The invariant says of each instruction of the stack  *)
(* that the calls still allowed above it pay for it, and that each token   *)
(* consumed allows three calls more.                                       *)
(*                                                                         *)
(* The ends: an instruction is tidy at a set of tokens when, started at    *)
(* one of them, it consumes no end and not the end of the file, but        *)
(* through the blocks it opens and closes, or reports.  All of parser.c is *)
(* tidy but for the last instruction of the procedures that open a block.  *)
(* The invariant counts, on the stack, the ends still to be asked for, and *)
(* says that the parser need never be forced on.                           *)
(***************************************************************************)
EXTENDS Parser, Integers, FiniteSetTheorems, SequenceTheorems, WellFoundedInduction, TLAPS

-------------------------------------------------------------------------------
(* Sequences of instructions                                               *)

IsSeq(s) == s \in Seq({s[k] : k \in DOMAIN s})

LEMMA SeqFacts ==
  ASSUME NEW s, IsSeq(s)
  PROVE  /\ Len(s) \in Nat /\ DOMAIN s = 1..Len(s)
         /\ s # << >> => 1 \in DOMAIN s
BY DEF IsSeq

LEMMA SeqIsSeq ==
  ASSUME NEW A, NEW s \in Seq(A)
  PROVE  IsSeq(s)
BY DEF IsSeq

(* u is s followed by e.                                                   *)
Joined(s, e, u) ==
  /\ IsSeq(u) /\ Len(u) = Len(s) + Len(e)
  /\ \A k \in DOMAIN s : u[k] = s[k]
  /\ \A k \in DOMAIN e : u[Len(s) + k] = e[k]

LEMMA ConcatSeq ==
  ASSUME NEW s, IsSeq(s), NEW e, IsSeq(e)
  PROVE  Joined(s, e, s \o e)
<1> DEFINE A == {s[k] : k \in DOMAIN s} \cup {e[k] : k \in DOMAIN e}
           u == s \o e
<1>1. s \in Seq(A) /\ e \in Seq(A)
  BY DEF IsSeq
<1> HIDE DEF A
<1>2. /\ u \in Seq(A) /\ Len(u) = Len(s) + Len(e)
      /\ \A k \in 1..Len(u) : u[k] = IF k <= Len(s) THEN s[k] ELSE e[k - Len(s)]
  BY <1>1
<1>3. /\ Len(s) \in Nat /\ Len(e) \in Nat /\ DOMAIN s = 1..Len(s) /\ DOMAIN e = 1..Len(e)
      /\ DOMAIN u = 1..Len(u)
  BY <1>1, <1>2
<1> HIDE DEF u
<1>4. \A k \in DOMAIN s : u[k] = s[k]
  BY <1>2, <1>3
<1>5. ASSUME NEW k \in DOMAIN e PROVE u[Len(s) + k] = e[k]
  <2> DEFINE n == Len(s)
  <2>1. n \in Nat /\ k \in Nat /\ k >= 1 /\ n + k \in 1..Len(u) /\ ~(n + k <= n) /\ (n + k) - n = k
    BY <1>2, <1>3
  <2> QED BY <1>2, <2>1
<1>6. IsSeq(u)
  BY <1>2, SeqIsSeq
<1>7. Joined(s, e, u)
  BY <1>2, <1>4, <1>5, <1>6 DEF Joined
<1> QED BY <1>7 DEF u

LEMMA SuffixSeq ==
  ASSUME NEW s, IsSeq(s), NEW d \in 0..Len(s)
  PROVE  /\ IsSeq(SubSeq(s, d + 1, Len(s))) /\ Len(SubSeq(s, d + 1, Len(s))) = Len(s) - d
         /\ \A k \in 1..(Len(s) - d) : SubSeq(s, d + 1, Len(s))[k] = s[k + d]
<1> DEFINE A == {s[k] : k \in DOMAIN s}
           n == Len(s)
           m == d + 1
           u == SubSeq(s, m, n)
<1>1. s \in Seq(A) /\ n \in Nat /\ DOMAIN s = 1..n /\ d \in Nat /\ d <= n
  BY DEF IsSeq
<1>2. m \in Int /\ n \in Int /\ \A i \in m..n : s[i] \in A
  <2>1. \A i \in DOMAIN s : s[i] \in A
    OBVIOUS
  <2>2. \A i \in m..n : i \in 1..n
    BY <1>1
  <2> QED BY <1>1, <2>1, <2>2
<1>3. m - 1 = d /\ n - m + 1 = n - d /\ (~(m <= n) => n - d = 0)
  <2> HIDE DEF n
  <2> QED BY <1>1
<1>4. \A k \in 1..(n - m + 1) : m + k - 1 = k + d
  <2> HIDE DEF n
  <2> QED BY <1>1
<1> HIDE DEF A, m, n
<1>5. /\ u \in Seq(A) /\ Len(u) = IF m <= n THEN n - m + 1 ELSE 0
      /\ \A k \in 1..(n - m + 1) : u[k] = s[m + k - 1]
  BY <1>2, SubSeqProperties
<1> HIDE DEF u
<1>6. IsSeq(u) /\ Len(u) = n - d
  BY <1>3, <1>5, SeqIsSeq
<1>7. \A k \in 1..(n - d) : u[k] = s[k + d]
  BY <1>3, <1>4, <1>5
<1> QED BY <1>6, <1>7 DEF u, m, n

LEMMA TailSeq ==
  ASSUME NEW s, IsSeq(s), s # << >>
  PROVE  /\ IsSeq(Tail(s)) /\ Len(Tail(s)) = Len(s) - 1
         /\ \A k \in 1..(Len(s) - 1) : Tail(s)[k] = s[k + 1]
<1> DEFINE A == {s[k] : k \in DOMAIN s}
<1>1. s \in Seq(A) /\ Len(s) \in Nat /\ Len(s) >= 1 /\ DOMAIN s = 1..Len(s)
  BY DEF IsSeq
<1> HIDE DEF A
<1>2. /\ Tail(s) \in Seq(A) /\ Len(Tail(s)) = Len(s) - 1
      /\ \A k \in 1..(Len(s) - 1) : Tail(s)[k] = s[k + 1]
  BY <1>1
<1>3. IsSeq(Tail(s))
  BY <1>2, SeqIsSeq
<1> QED BY <1>2, <1>3

LEMMA NatMin ==
  ASSUME NEW S \in SUBSET Nat, S # {}
  PROVE  \E m \in S : \A k \in S : m <= k
<1>1. IsWellFoundedOn(OpToRel(<, Nat), Nat)
  BY NatLessThanWellFounded, Zenon
<1>2. PICK m \in S : \A k \in S : ~(<<k, m>> \in OpToRel(<, Nat))
  BY <1>1, WFMin, Zenon
<1>3. \A k \in S : ~(k < m)
  BY <1>2 DEF OpToRel
<1> QED BY <1>3

-------------------------------------------------------------------------------
(* Prices                                                                  *)

(* The procedures that may be called whatever the current token is, by how *)
(* many calls they may have open before a token is consumed.               *)
CostOne   == {"parser_type_base", "operation_op", "operation_atom", "parser_extern",
              "parser_operation", "parser_import", "parser_from_import",
              "parser_structer", "parser_enums"}
CostTwo   == {"parser_expr_primary", "parser_type", "parser_const", "parser_vars",
              "parser_lets", "parser_globle", "parser_ffi", "parser_traits", "parser_self"}
CostThree == {"parser_stmt"}
CostFour  == {"parser_expr"}
CostFive  == {"parser_index", "parser_atomic_op"}
Unpaid == CostOne \cup CostTwo \cup CostThree \cup CostFour \cup CostFive

Cost(p) == CASE p \in CostOne -> 1 [] p \in CostTwo -> 2 [] p \in CostThree -> 3
             [] p \in CostFour -> 4 [] OTHER -> 5

(* The procedures that are only called at a token they begin by consuming, *)
(* by how many more calls they need then than that token allows.           *)
PaidNone == {"parser_builtin_function", "parser_functions", "parser_trait_functions",
             "parser_class", "parser_module", "parser_else"}
PaidOne == {"parser_literal", "parser_function_call", "parser_method_calls",
            "parser_return", "parser_match", "parser_while", "parser_for", "parser_if",
            "parser_elif"}
Paid == PaidNone \cup PaidOne
Over(p) == IF p \in PaidNone THEN 0 ELSE 1

Starts(p) ==
  CASE p = "parser_builtin_function" -> {"Fn_Sizes"}
    [] p = "parser_literal" -> {"LeftBraces"}
    [] p = "parser_function_call" -> {"LeftParens"}
    [] p = "parser_method_calls" -> {"Dots"}
    [] p \in {"parser_functions", "parser_trait_functions"} -> {"Functions"}
    [] p = "parser_class" -> {"Classes"}
    [] p = "parser_module" -> {"Modules"}
    [] p = "parser_return" -> {"Returns"}
    [] p = "parser_match" -> {"Matchs"}
    [] p = "parser_while" -> {"Whiles"}
    [] p = "parser_for" -> {"Fors"}
    [] p = "parser_if" -> {"Ifs"}
    [] p = "parser_elif" -> {"Elifs"}
    [] p = "parser_else" -> {"Elses"}

(* Code that begins by consuming the current token.                        *)
Eats(code) ==
  \/ Len(code) > 0 /\ code[1] = Adv
  \/ Len(code) > 1 /\ code[1] = Leaf /\ code[2] = Adv

(* How many calls an instruction may open, and what it may leave, are given *)
(* by triples <<instruction, calls, what can be left>>: F knows that an     *)
(* instruction runs with n calls if it knows so of no more calls.           *)
In(F, i, n, E) == \E a \in Int, B \in SUBSET E : a <= n /\ <<i, a, B>> \in F
AllIn(F, code, n, E) == IsSeq(code) /\ \A k \in DOMAIN code : In(F, code[k], n, E)

ArmIn(F, tokens, code, n, E) ==
  \/ AllIn(F, code, n, E)
  \/ EOFs \notin tokens /\ Eats(code) /\ AllIn(F, code, n + 3, E)
  \/ \E p \in Paid : code = <<Call(p)>> /\ tokens \subseteq Starts(p) /\ Over(p) + 1 <= n

Kinds == {"advance", "report", "return", "break", "continue", "leaf", "node", "call",
          "climb", "import", "peek", "atomic", "switch", "loop", "mark", "force", "call_bp"}

(* What an instruction asks of its parts.                                  *)
Unfold(F, i, n, E) ==
  /\ i.op \in Kinds
  /\ i.op = "call" => i.of \in Unpaid /\ Cost(i.of) <= n
  /\ i.op = "call_bp" => 3 <= n
  /\ i.op = "climb" => 0 <= n
  /\ i.op = "switch" => /\ IsSeq(i.of)
                        /\ \A k \in DOMAIN i.of : ArmIn(F, i.of[k][1], i.of[k][2], n, E)
                        /\ AllIn(F, i.else, n, E)
  /\ i.op \in {"loop"} => AllIn(F, i.do, n, E \cup {"loop"})
  /\ i.op = "mark" => AllIn(F, i.do, n, E)
  /\ i.op \in {"peek", "atomic"} => AllIn(F, i.then, n, E)
  /\ i.op = "atomic" => AllIn(F, i.else, n, E)
  /\ i.op \in {"break", "continue"} => "loop" \in E
  /\ i.op = "return" => "end" \in E

Knows(F) == \A x \in F : x[2] \in Int /\ Unfold(F, x[1], x[2], x[3])

Runs(i, n, E) == \E F : Knows(F) /\ In(F, i, n, E)
AllRun(code, n, E) == IsSeq(code) /\ \A k \in DOMAIN code : Runs(code[k], n, E)

LEMMA InMore ==
  ASSUME NEW F, NEW G, F \subseteq G, NEW i, NEW n \in Int, NEW m \in Int, n <= m,
         NEW D, NEW E, D \subseteq E, In(F, i, n, D)
  PROVE  In(G, i, m, E)
<1>1. PICK a \in Int, B \in SUBSET D : a <= n /\ <<i, a, B>> \in F
  BY DEF In
<1>2. a <= m /\ B \in SUBSET E /\ <<i, a, B>> \in G
  BY <1>1
<1> QED BY <1>2 DEF In

LEMMA AllInMore ==
  ASSUME NEW F, NEW G, F \subseteq G, NEW code, NEW n \in Int, NEW m \in Int, n <= m,
         NEW D, NEW E, D \subseteq E, AllIn(F, code, n, D)
  PROVE  AllIn(G, code, m, E)
BY InMore DEF AllIn

LEMMA UnfoldMore ==
  ASSUME NEW F, NEW G, F \subseteq G, NEW i, NEW n \in Int, NEW m \in Int, n <= m,
         NEW D, NEW E, D \subseteq E, Unfold(F, i, n, D)
  PROVE  Unfold(G, i, m, E)
<1>1. ASSUME NEW code, AllIn(F, code, n, D) PROVE AllIn(G, code, m, E)
  BY <1>1, AllInMore
<1>2. ASSUME NEW code, AllIn(F, code, n, D \cup {"loop"})
      PROVE  AllIn(G, code, m, E \cup {"loop"})
  <2> DEFINE DD == D \cup {"loop"}
             EE == E \cup {"loop"}
  <2>1. DD \subseteq EE /\ AllIn(F, code, n, DD)
    BY <1>2
  <2> HIDE DEF DD, EE
  <2>2. AllIn(G, code, m, EE)
    BY <2>1, AllInMore
  <2> QED BY <2>2 DEF EE
<1>3. ASSUME NEW tokens, NEW code, ArmIn(F, tokens, code, n, D)
      PROVE  ArmIn(G, tokens, code, m, E)
  <2>1. CASE AllIn(F, code, n, D)
    BY <1>1, <2>1 DEF ArmIn
  <2>2. CASE EOFs \notin tokens /\ Eats(code) /\ AllIn(F, code, n + 3, D)
    <3>1. n + 3 \in Int /\ m + 3 \in Int /\ n + 3 <= m + 3
      OBVIOUS
    <3>2. AllIn(G, code, m + 3, E)
      BY <2>2, <3>1, AllInMore
    <3> QED BY <2>2, <3>2 DEF ArmIn
  <2>3. CASE \E p \in Paid : code = <<Call(p)>> /\ tokens \subseteq Starts(p) /\ Over(p) + 1 <= n
    <3>1. PICK p \in Paid : code = <<Call(p)>> /\ tokens \subseteq Starts(p) /\ Over(p) + 1 <= n
      BY <2>3
    <3>2. Over(p) + 1 <= m
      BY <3>1 DEF Over
    <3> QED BY <3>1, <3>2 DEF ArmIn
  <2> QED BY <1>3, <2>1, <2>2, <2>3 DEF ArmIn
<1>4. i.op = "call" => i.of \in Unpaid /\ Cost(i.of) <= m
  BY DEF Unfold, Cost
<1>5. (i.op = "call_bp" => 3 <= m) /\ (i.op = "climb" => 0 <= m)
  BY DEF Unfold
<1>6. i.op = "switch" => /\ IsSeq(i.of)
                         /\ \A k \in DOMAIN i.of : ArmIn(G, i.of[k][1], i.of[k][2], m, E)
                         /\ AllIn(G, i.else, m, E)
  BY <1>1, <1>3 DEF Unfold
<1>7. /\ i.op = "mark" => AllIn(G, i.do, m, E)
      /\ i.op \in {"peek", "atomic"} => AllIn(G, i.then, m, E)
      /\ i.op = "atomic" => AllIn(G, i.else, m, E)
  BY <1>1 DEF Unfold
<1>8. i.op \in {"loop"} => AllIn(G, i.do, m, E \cup {"loop"})
  BY <1>2 DEF Unfold
<1>9. /\ i.op \in Kinds
      /\ i.op \in {"break", "continue"} => "loop" \in E
      /\ i.op = "return" => "end" \in E
  BY DEF Unfold
<1> QED BY <1>4, <1>5, <1>6, <1>7, <1>8, <1>9 DEF Unfold

(* What an instruction that runs asks of its parts.                        *)
LEMMA RunsUnfold ==
  ASSUME NEW i, NEW n \in Int, NEW E, Runs(i, n, E)
  PROVE  \E F : Knows(F) /\ Unfold(F, i, n, E)
<1>1. PICK F : Knows(F) /\ In(F, i, n, E)
  BY DEF Runs
<1>2. PICK a \in Int, B \in SUBSET E : a <= n /\ <<i, a, B>> \in F
  BY <1>1 DEF In
<1>3. Unfold(F, i, a, B)
  BY <1>1, <1>2 DEF Knows
<1>4. Unfold(F, i, n, E)
  BY <1>2, <1>3, UnfoldMore
<1> QED BY <1>1, <1>4

LEMMA RunsMore ==
  ASSUME NEW i, NEW n \in Int, NEW m \in Int, n <= m, NEW D, NEW E, D \subseteq E,
         Runs(i, n, D)
  PROVE  Runs(i, m, E)
BY InMore DEF Runs

LEMMA AllRunMore ==
  ASSUME NEW code, NEW n \in Int, NEW m \in Int, n <= m, NEW D, NEW E, D \subseteq E,
         AllRun(code, n, D)
  PROVE  AllRun(code, m, E)
BY RunsMore DEF AllRun

LEMMA KnownRun ==
  ASSUME NEW F, Knows(F), NEW code, NEW n, NEW E, AllIn(F, code, n, E)
  PROVE  AllRun(code, n, E)
BY DEF AllIn, AllRun, Runs

(* What runs, runs by one set of triples.                                  *)
LEMMA Gathered ==
  ASSUME NEW C, \A c \in C : Runs(c[1], c[2], c[3])
  PROVE  \E F : Knows(F) /\ \A c \in C : c[2] \in Int => In(F, c[1], c[2], c[3])
<1> DEFINE w == [c \in C |-> CHOOSE F : Knows(F) /\ In(F, c[1], c[2], c[3])]
           G == UNION {w[c] : c \in C}
<1>1. ASSUME NEW c \in C
      PROVE  Knows(w[c]) /\ In(w[c], c[1], c[2], c[3]) /\ w[c] \subseteq G
  <2>1. \E F : Knows(F) /\ In(F, c[1], c[2], c[3])
    BY DEF Runs
  <2>2. w[c] = CHOOSE F : Knows(F) /\ In(F, c[1], c[2], c[3])
    OBVIOUS
  <2> HIDE DEF w
  <2>3. Knows(w[c]) /\ In(w[c], c[1], c[2], c[3])
    BY <2>1, <2>2
  <2> QED BY <2>3
<1>2. \A x \in G : \E c \in C : x \in w[c]
  OBVIOUS
<1> HIDE DEF w, G
<1>3. ASSUME NEW c \in C, c[2] \in Int PROVE In(G, c[1], c[2], c[3])
  BY <1>1, <1>3, InMore
<1>4. Knows(G)
  <2> SUFFICES ASSUME NEW x \in G PROVE x[2] \in Int /\ Unfold(G, x[1], x[2], x[3])
    BY DEF Knows
  <2>1. PICK c \in C : x \in w[c]
    BY <1>2
  <2>2. x[2] \in Int /\ Unfold(w[c], x[1], x[2], x[3])
    BY <1>1, <2>1 DEF Knows
  <2> QED BY <1>1, <2>1, <2>2, UnfoldMore
<1> QED BY <1>3, <1>4

LEMMA Adding ==
  ASSUME NEW F, Knows(F), NEW i, NEW n \in Int, NEW E, Unfold(F, i, n, E)
  PROVE  Runs(i, n, E)
<1> DEFINE x == <<i, n, E>>
           G == F \cup {x}
<1>1. F \subseteq G /\ x \in G /\ \A y \in G : y \in F \/ y = x
  OBVIOUS
<1>2. x[1] = i /\ x[2] = n /\ x[3] = E
  OBVIOUS
<1> HIDE DEF G
<1>3. In(G, i, n, E)
  BY <1>1 DEF In
<1> HIDE DEF x
<1>4. Unfold(G, i, n, E)
  BY <1>1, UnfoldMore
<1>5. ASSUME NEW y \in F PROVE y[2] \in Int /\ Unfold(G, y[1], y[2], y[3])
  <2>1. y[2] \in Int /\ Unfold(F, y[1], y[2], y[3])
    BY DEF Knows
  <2> QED BY <1>1, <2>1, UnfoldMore
<1>6. Knows(G)
  <2> SUFFICES ASSUME NEW y \in G PROVE y[2] \in Int /\ Unfold(G, y[1], y[2], y[3])
    BY DEF Knows
  <2>1. CASE y \in F
    BY <1>5, <2>1
  <2>2. CASE y = x
    BY <1>2, <1>4, <2>2
  <2> QED BY <1>1, <2>1, <2>2
<1> QED BY <1>3, <1>6 DEF Runs

(* Code made of the instructions of X that runs, runs by one set.          *)
LEMMA GatheredCode ==
  ASSUME NEW X, NEW n \in Int, NEW E
  PROVE  \E F : /\ Knows(F)
                /\ \A code : (\A k \in DOMAIN code : code[k] \in X) =>
                     /\ AllRun(code, n, E) => AllIn(F, code, n, E)
                     /\ AllRun(code, n + 3, E) => AllIn(F, code, n + 3, E)
<1> DEFINE C == {c \in X \X {n, n + 3} \X {E} : Runs(c[1], c[2], c[3])}
<1>1. \A c \in C : Runs(c[1], c[2], c[3])
  OBVIOUS
<1>2. ASSUME NEW i \in X, NEW m \in {n, n + 3}, Runs(i, m, E)
      PROVE  <<i, m, E>> \in C
  BY <1>2
<1> HIDE DEF C
<1>3. PICK F : Knows(F) /\ \A c \in C : c[2] \in Int => In(F, c[1], c[2], c[3])
  BY <1>1, Gathered
<1>4. ASSUME NEW i \in X, NEW m \in {n, n + 3}, Runs(i, m, E)
      PROVE  In(F, i, m, E)
  <2> DEFINE c == <<i, m, E>>
  <2>1. c \in C
    BY <1>2, <1>4
  <2>3. c[1] = i /\ c[2] = m /\ c[3] = E /\ m \in Int
    OBVIOUS
  <2> HIDE DEF c
  <2>2. In(F, c[1], c[2], c[3])
    BY <1>3, <2>1, <2>3
  <2> QED BY <2>2, <2>3
<1>5. ASSUME NEW code, \A k \in DOMAIN code : code[k] \in X, NEW m \in {n, n + 3},
             AllRun(code, m, E)
      PROVE  AllIn(F, code, m, E)
  BY <1>4, <1>5 DEF AllRun, AllIn
<1> QED BY <1>3, <1>5

(* ------------------------- Which instructions run ---------------------- *)

LEMMA PlainRuns ==
  ASSUME NEW n \in Int, NEW E
  PROVE  /\ Runs(Adv, n, E) /\ Runs(Err, n, E) /\ Runs(Leaf, n, E)
         /\ \A x : Runs(Node(x), n, E) /\ Runs(NoteImport(x), n, E)
         /\ \A x : Runs([op |-> "force", of |-> x], n, E)
<1> DEFINE F == {}
<1>1. Knows(F)
  BY DEF Knows
<1>2. /\ Unfold(F, Adv, n, E) /\ Unfold(F, Err, n, E) /\ Unfold(F, Leaf, n, E)
      /\ \A x : Unfold(F, Node(x), n, E)
      /\ \A x : Unfold(F, NoteImport(x), n, E)
      /\ \A x : Unfold(F, [op |-> "force", of |-> x], n, E)
  BY DEF Unfold, Kinds, Adv, Err, Leaf, Node, NoteImport
<1> HIDE DEF F
<1> QED BY <1>1, <1>2, Adding

LEMMA LeavingRuns ==
  ASSUME NEW n \in Int, NEW E
  PROVE  /\ "end" \in E => Runs(Back, n, E)
         /\ "loop" \in E => Runs(Leave, n, E)
         /\ "loop" \in E => Runs(Again, n, E)
<1> DEFINE F == {}
<1>1. Knows(F)
  BY DEF Knows
<1>2. /\ "end" \in E => Unfold(F, Back, n, E)
      /\ "loop" \in E => Unfold(F, Leave, n, E)
      /\ "loop" \in E => Unfold(F, Again, n, E)
  BY DEF Unfold, Kinds, Back, Leave, Again
<1> HIDE DEF F
<1> QED BY <1>1, <1>2, Adding

LEMMA CallRuns ==
  ASSUME NEW n \in Int, NEW E
  PROVE  /\ \A p \in Unpaid : Cost(p) <= n => Runs(Call(p), n, E)
         /\ \A x : 3 <= n => Runs([op |-> "call_bp", of |-> x], n, E)
         /\ \A x : 0 <= n => Runs(Climb(x), n, E)
<1> DEFINE F == {}
<1>1. Knows(F)
  BY DEF Knows
<1>2. /\ \A p \in Unpaid : Cost(p) <= n => Unfold(F, Call(p), n, E)
      /\ \A x : 3 <= n => Unfold(F, [op |-> "call_bp", of |-> x], n, E)
      /\ \A x : 0 <= n => Unfold(F, Climb(x), n, E)
  BY DEF Unfold, Kinds, Call, Climb
<1> HIDE DEF F
<1> QED BY <1>1, <1>2, Adding

LEMMA LoopRuns ==
  ASSUME NEW n \in Int, NEW E, NEW tokens, NEW body, AllRun(body, n, E \cup {"loop"})
  PROVE  Runs(Until(tokens, body), n, E) /\ Runs(While(tokens, body), n, E)
<1> DEFINE X == {body[k] : k \in DOMAIN body}
           B == E \cup {"loop"}
<1> HIDE DEF B
<1>1. PICK F : Knows(F) /\ AllIn(F, body, n, B)
  <2>1. \A k \in DOMAIN body : body[k] \in X
    OBVIOUS
  <2>2. AllRun(body, n, B)
    BY DEF B
  <2> HIDE DEF X
  <2>3. PICK F : /\ Knows(F)
                 /\ \A code : (\A k \in DOMAIN code : code[k] \in X) =>
                      /\ AllRun(code, n, B) => AllIn(F, code, n, B)
                      /\ AllRun(code, n + 3, B) => AllIn(F, code, n + 3, B)
    BY GatheredCode
  <2>4. AllIn(F, body, n, B)
    BY <2>1, <2>2, <2>3
  <2> QED BY <2>3, <2>4
<1>2. Unfold(F, Until(tokens, body), n, E) /\ Unfold(F, While(tokens, body), n, E)
  BY <1>1 DEF Unfold, Kinds, Until, While, B
<1> QED BY <1>1, <1>2, Adding

LEMMA MarkRuns ==
  ASSUME NEW n \in Int, NEW E, NEW body, AllRun(body, n, E)
  PROVE  Runs(Forced(body), n, E)
<1> DEFINE X == {body[k] : k \in DOMAIN body}
<1>1. \A k \in DOMAIN body : body[k] \in X
  OBVIOUS
<1> HIDE DEF X
<1>2. PICK F : /\ Knows(F)
               /\ \A code : (\A k \in DOMAIN code : code[k] \in X) =>
                    /\ AllRun(code, n, E) => AllIn(F, code, n, E)
                    /\ AllRun(code, n + 3, E) => AllIn(F, code, n + 3, E)
  BY GatheredCode
<1>3. AllIn(F, body, n, E)
  BY <1>1, <1>2
<1>4. Unfold(F, Forced(body), n, E)
  BY <1>3 DEF Unfold, Kinds, Forced
<1> QED BY <1>2, <1>4, Adding

LEMMA TestRuns ==
  ASSUME NEW n \in Int, NEW E, NEW yes, NEW no, AllRun(yes, n, E), AllRun(no, n, E)
  PROVE  Runs(IfAtomic(yes, no), n, E) /\ \A t : Runs(IfPeeked(t, yes), n, E)
<1> DEFINE X == {yes[k] : k \in DOMAIN yes} \cup {no[k] : k \in DOMAIN no}
<1>1. (\A k \in DOMAIN yes : yes[k] \in X) /\ (\A k \in DOMAIN no : no[k] \in X)
  OBVIOUS
<1> HIDE DEF X
<1>2. PICK F : /\ Knows(F)
               /\ \A code : (\A k \in DOMAIN code : code[k] \in X) =>
                    /\ AllRun(code, n, E) => AllIn(F, code, n, E)
                    /\ AllRun(code, n + 3, E) => AllIn(F, code, n + 3, E)
  BY GatheredCode
<1>3. AllIn(F, yes, n, E) /\ AllIn(F, no, n, E)
  BY <1>1, <1>2
<1>4. Unfold(F, IfAtomic(yes, no), n, E) /\ \A t : Unfold(F, IfPeeked(t, yes), n, E)
  BY <1>3 DEF Unfold, Kinds, IfAtomic, IfPeeked
<1> QED BY <1>2, <1>4, Adding

(* An arm of a switch: what follows a token it consumes may open three     *)
(* calls more, and a paid procedure may be called at its token.            *)
ArmRun(tokens, code, n, E) ==
  \/ AllRun(code, n, E)
  \/ EOFs \notin tokens /\ Eats(code) /\ AllRun(code, n + 3, E)
  \/ \E p \in Paid : code = <<Call(p)>> /\ tokens \subseteq Starts(p) /\ Over(p) + 1 <= n

GoodArm(arm, n, E) == ArmRun(arm[1], arm[2], n, E)

ArmsRun(arms, n, E) == IsSeq(arms) /\ \A k \in DOMAIN arms : GoodArm(arms[k], n, E)

LEMMA SwitchRuns ==
  ASSUME NEW n \in Int, NEW E, NEW arms, NEW default,
         ArmsRun(arms, n, E), AllRun(default, n, E)
  PROVE  Runs(Switch(arms, default), n, E)
<1> DEFINE Y == [k \in DOMAIN arms |-> {arms[k][2][l] : l \in DOMAIN arms[k][2]}]
           Z == {default[l] : l \in DOMAIN default}
           W == {Y[k] : k \in DOMAIN arms}
           X == (UNION W) \cup Z
<1>1. /\ \A k \in DOMAIN arms : \A l \in DOMAIN arms[k][2] : arms[k][2][l] \in X
      /\ \A l \in DOMAIN default : default[l] \in X
  <2>1. \A k \in DOMAIN arms : \A l \in DOMAIN arms[k][2] : arms[k][2][l] \in Y[k]
    OBVIOUS
  <2>2. \A l \in DOMAIN default : default[l] \in Z
    OBVIOUS
  <2> HIDE DEF Y, Z
  <2>3. \A k \in DOMAIN arms : Y[k] \in W
    OBVIOUS
  <2> HIDE DEF W
  <2>4. ASSUME NEW k \in DOMAIN arms, NEW l \in DOMAIN arms[k][2]
        PROVE  arms[k][2][l] \in X
    <3> DEFINE x == arms[k][2][l]
    <3>1. x \in Y[k] /\ Y[k] \in W
      BY <2>1, <2>3
    <3> HIDE DEF x
    <3>2. x \in X
      BY <3>1
    <3> QED BY <3>2 DEF x
  <2>5. \A l \in DOMAIN default : default[l] \in X
    BY <2>2
  <2> QED BY <2>4, <2>5
<1> HIDE DEF X
<1>2. PICK F : /\ Knows(F)
               /\ \A code : (\A k \in DOMAIN code : code[k] \in X) =>
                    /\ AllRun(code, n, E) => AllIn(F, code, n, E)
                    /\ AllRun(code, n + 3, E) => AllIn(F, code, n + 3, E)
  BY GatheredCode
<1>3. AllIn(F, default, n, E)
  BY <1>1, <1>2
<1>4. ASSUME NEW k \in DOMAIN arms PROVE ArmIn(F, arms[k][1], arms[k][2], n, E)
  <2> DEFINE tokens == arms[k][1]
             code == arms[k][2]
  <2>1. ArmRun(tokens, code, n, E)
    BY DEF ArmsRun, GoodArm
  <2>2. /\ AllRun(code, n, E) => AllIn(F, code, n, E)
        /\ AllRun(code, n + 3, E) => AllIn(F, code, n + 3, E)
    BY <1>1, <1>2
  <2> HIDE DEF tokens, code
  <2>3. ArmIn(F, tokens, code, n, E)
    BY <2>1, <2>2 DEF ArmRun, ArmIn
  <2> QED BY <2>3 DEF tokens, code
<1> DEFINE i == Switch(arms, default)
<1>5. i.op = "switch" /\ i.of = arms /\ i.else = default
  BY DEF Switch
<1>6. IsSeq(arms)
  BY DEF ArmsRun
<1> HIDE DEF i
<1>7. Unfold(F, i, n, E)
  BY <1>3, <1>4, <1>5, <1>6 DEF Unfold, Kinds
<1>8. Runs(i, n, E)
  BY <1>2, <1>7, Adding
<1> QED BY <1>8 DEF i

(* ----------------------------- Code that runs -------------------------- *)

LEMMA EmptyRun ==
  ASSUME NEW n, NEW E
  PROVE  AllRun(<< >>, n, E)
BY DEF AllRun, IsSeq

LEMMA RunOne ==
  ASSUME NEW n, NEW E, NEW a, Runs(a, n, E)
  PROVE  AllRun(<<a>>, n, E)
BY DEF AllRun, IsSeq

LEMMA RunTwo ==
  ASSUME NEW n, NEW E, NEW a, NEW b, Runs(a, n, E), Runs(b, n, E)
  PROVE  AllRun(<<a, b>>, n, E)
BY DEF AllRun, IsSeq

LEMMA RunThree ==
  ASSUME NEW n, NEW E, NEW a, NEW b, NEW c, Runs(a, n, E), Runs(b, n, E), Runs(c, n, E)
  PROVE  AllRun(<<a, b, c>>, n, E)
BY DEF AllRun, IsSeq

LEMMA RunFour ==
  ASSUME NEW n, NEW E, NEW a, NEW b, NEW c, NEW d,
         Runs(a, n, E), Runs(b, n, E), Runs(c, n, E), Runs(d, n, E)
  PROVE  AllRun(<<a, b, c, d>>, n, E)
BY DEF AllRun, IsSeq

LEMMA RunFive ==
  ASSUME NEW n, NEW E, NEW a, NEW b, NEW c, NEW d, NEW e,
         Runs(a, n, E), Runs(b, n, E), Runs(c, n, E), Runs(d, n, E), Runs(e, n, E)
  PROVE  AllRun(<<a, b, c, d, e>>, n, E)
BY DEF AllRun, IsSeq

LEMMA RunSix ==
  ASSUME NEW n, NEW E, NEW a, NEW b, NEW c, NEW d, NEW e, NEW f,
         Runs(a, n, E), Runs(b, n, E), Runs(c, n, E), Runs(d, n, E), Runs(e, n, E),
         Runs(f, n, E)
  PROVE  AllRun(<<a, b, c, d, e, f>>, n, E)
BY DEF AllRun, IsSeq

LEMMA RunBoth ==
  ASSUME NEW n, NEW E, NEW s, NEW t, AllRun(s, n, E), AllRun(t, n, E)
  PROVE  AllRun(s \o t, n, E)
<1>1. IsSeq(s) /\ IsSeq(t)
  BY DEF AllRun
<1> DEFINE u == s \o t
<1>2. Joined(s, t, u)
  BY <1>1, ConcatSeq
<1> HIDE DEF u
<1>4. IsSeq(u) /\ DOMAIN u = 1..(Len(s) + Len(t)) /\ Len(s) \in Nat /\ Len(t) \in Nat
      /\ DOMAIN s = 1..Len(s) /\ DOMAIN t = 1..Len(t)
  BY <1>1, <1>2, SeqFacts DEF Joined
<1>5. ASSUME NEW k \in DOMAIN u PROVE Runs(u[k], n, E)
  <2>1. CASE k <= Len(s)
    <3>1. k \in DOMAIN s /\ u[k] = s[k]
      BY <1>2, <1>4, <2>1 DEF Joined
    <3> QED BY <3>1 DEF AllRun
  <2>2. CASE ~(k <= Len(s))
    <3> DEFINE l == k - Len(s)
    <3>1. l \in DOMAIN t /\ k = Len(s) + l
      BY <1>4, <2>2
    <3> HIDE DEF l
    <3>2. u[k] = t[l]
      BY <1>2, <3>1 DEF Joined
    <3> QED BY <3>1, <3>2 DEF AllRun
  <2> QED BY <2>1, <2>2
<1>6. AllRun(u, n, E)
  BY <1>4, <1>5 DEF AllRun
<1> QED BY <1>6 DEF u

LEMMA RunSeven ==
  ASSUME NEW n, NEW E, NEW a, NEW b, NEW c, NEW d, NEW e, NEW f, NEW g,
         Runs(a, n, E), Runs(b, n, E), Runs(c, n, E), Runs(d, n, E), Runs(e, n, E),
         Runs(f, n, E), Runs(g, n, E)
  PROVE  AllRun(<<a, b, c, d, e, f, g>>, n, E)
BY DEF AllRun, IsSeq

LEMMA PlainArm ==
  ASSUME NEW n, NEW E, NEW tokens, NEW code, AllRun(code, n, E)
  PROVE  GoodArm(On(tokens, code), n, E)
BY DEF GoodArm, ArmRun, On

(* What follows the token that an arm consumes may open three calls more.  *)
LEMMA EatingArm ==
  ASSUME NEW n \in Int, NEW m \in Int, m <= n + 3, NEW E, NEW tokens, EOFs \notin tokens,
         NEW code, Eats(code), AllRun(code, m, E)
  PROVE  GoodArm(On(tokens, code), n, E)
<1>1. AllRun(code, n + 3, E)
  BY AllRunMore
<1> QED BY <1>1 DEF GoodArm, ArmRun, On

LEMMA PaidArm ==
  ASSUME NEW n, NEW E, NEW p \in Paid, Over(p) + 1 <= n
  PROVE  GoodArm(On(Starts(p), <<Call(p)>>), n, E)
BY DEF GoodArm, ArmRun, On

LEMMA EatsTuple ==
  /\ Eats(<<Adv>>) /\ Eats(<<Leaf, Adv>>)
  /\ \A a : Eats(<<Adv, a>>) /\ Eats(<<Leaf, Adv, a>>)
  /\ \A a, b : Eats(<<Adv, a, b>>)
  /\ \A a, b, c : Eats(<<Adv, a, b, c>>)
  /\ \A a, b, c, d : Eats(<<Adv, a, b, c, d>>)
BY DEF Eats

LEMMA EatsThen ==
  ASSUME NEW rest, IsSeq(rest)
  PROVE  Eats(<<Adv>> \o rest)
<1> DEFINE a == <<Adv>>
           u == a \o rest
<1>1. IsSeq(a) /\ Len(a) = 1 /\ 1 \in DOMAIN a /\ a[1] = Adv
  BY DEF IsSeq
<1> HIDE DEF a
<1>2. Joined(a, rest, u)
  BY <1>1, ConcatSeq
<1>3. Len(rest) \in Nat
  BY SeqFacts
<1> HIDE DEF u
<1>4. Len(u) > 0 /\ u[1] = Adv
  BY <1>1, <1>2, <1>3 DEF Joined
<1>5. Eats(u)
  BY <1>4 DEF Eats
<1> QED BY <1>5 DEF u, a

LEMMA ThenRun ==
  ASSUME NEW n \in Int, NEW E, NEW rest, AllRun(rest, n, E)
  PROVE  AllRun(<<Adv>> \o rest, n, E) /\ Eats(<<Adv>> \o rest)
<1>1. AllRun(<<Adv>>, n, E) /\ IsSeq(rest)
  BY PlainRuns, RunOne DEF AllRun
<1> QED BY <1>1, RunBoth, EatsThen

LEMMA WhenRuns ==
  ASSUME NEW n \in Int, NEW E, NEW tokens, NEW yes, NEW no,
         GoodArm(On(tokens, yes), n, E), AllRun(no, n, E)
  PROVE  Runs(When(tokens, yes, no), n, E)
<1>1. ArmsRun(<<On(tokens, yes)>>, n, E)
  BY DEF ArmsRun, IsSeq
<1> QED BY <1>1, SwitchRuns DEF When

(* Where the current token is consumed, or an error is reported, or neither. *)
LEMMA WantRuns ==
  ASSUME NEW n \in Int, NEW E
  PROVE  /\ \A tokens : Runs(Want(tokens), n, E) /\ Runs(Opt(tokens), n, E)
         /\ \A tokens : "end" \in E => Runs(Must(tokens), n, E)
         /\ Runs(Comma, n, E) /\ Runs(parser_ordering, n, E)
<1>1. Runs(Adv, n, E) /\ Runs(Err, n, E) /\ ("end" \in E => Runs(Back, n, E))
  BY PlainRuns, LeavingRuns
<1>2. \A t : GoodArm(On(t, <<Adv>>), n, E)
  BY <1>1, RunOne, PlainArm
<1>3. /\ AllRun(<<Err>>, n, E) /\ AllRun(<< >>, n, E)
      /\ "end" \in E => AllRun(<<Err, Back>>, n, E)
  BY <1>1, RunOne, RunTwo, EmptyRun
<1> QED BY <1>2, <1>3, WhenRuns DEF Want, Opt, Comma, Must, parser_ordering

LEMMA SyncRun ==
  ASSUME NEW n \in Int, NEW E
  PROVE  /\ AllRun(parser_sync, n, E) /\ AllRun(<<Err>> \o parser_sync, n, E)
         /\ "loop" \in E => AllRun(<<Err>> \o parser_sync \o <<Leave>>, n, E)
<1>1. \A B : AllRun(<<Adv>>, n, B)
  BY PlainRuns, RunOne
<1>2. AllRun(parser_sync, n, E)
  BY <1>1, LoopRuns, RunOne DEF parser_sync
<1>3. AllRun(<<Err>>, n, E) /\ ("loop" \in E => AllRun(<<Leave>>, n, E))
  BY PlainRuns, LeavingRuns, RunOne
<1>4. AllRun(<<Err>> \o parser_sync, n, E)
  BY <1>2, <1>3, RunBoth
<1> QED BY <1>2, <1>3, <1>4, RunBoth

LEMMA ExpectRuns ==
  ASSUME NEW n \in Int, NEW E
  PROVE  /\ \A t : Runs(parser_expect(t), n, E)
         /\ Runs(CloseParen, n, E) /\ Runs(CloseBracket, n, E) /\ Runs(CloseBlock, n, E)
<1>1. \A t : GoodArm(On({t}, <<Adv>>), n, E)
  BY PlainRuns, RunOne, PlainArm
<1>2. AllRun(<<Err>> \o parser_sync, n, E)
  BY SyncRun
<1> QED BY <1>1, <1>2, WhenRuns DEF parser_expect, CloseParen, CloseBracket, CloseBlock

(* An option: a token, and what follows it.                                *)
LEMMA OptionRuns ==
  ASSUME NEW n \in Int, NEW m \in Int, m <= n + 3, NEW E, NEW tokens, EOFs \notin tokens,
         NEW rest, AllRun(rest, m, E)
  PROVE  Runs(When(tokens, <<Adv>> \o rest, << >>), n, E)
BY ThenRun, EatingArm, EmptyRun, WhenRuns

(* ------------------------------ The procedures ------------------------- *)

LEMMA CallsRun ==
  ASSUME NEW n \in Int, NEW E
  PROVE  /\ 1 <= n => \A p \in CostOne : Runs(Call(p), n, E)
         /\ 2 <= n => \A p \in CostTwo : Runs(Call(p), n, E)
         /\ 3 <= n => Runs(Call("parser_stmt"), n, E)
         /\ 4 <= n => Runs(Call("parser_expr"), n, E)
         /\ 5 <= n => \A p \in CostFive : Runs(Call(p), n, E)
<1>1. \A p \in CostOne : p \in Unpaid /\ Cost(p) = 1
  BY DEF Unpaid, Cost, CostOne, CostTwo, CostThree, CostFour, CostFive
<1>2. \A p \in CostTwo : p \in Unpaid /\ Cost(p) = 2
  BY DEF Unpaid, Cost, CostOne, CostTwo, CostThree, CostFour, CostFive
<1>3. "parser_stmt" \in Unpaid /\ Cost("parser_stmt") = 3
  BY DEF Unpaid, Cost, CostOne, CostTwo, CostThree, CostFour, CostFive
<1>4. "parser_expr" \in Unpaid /\ Cost("parser_expr") = 4
  BY DEF Unpaid, Cost, CostOne, CostTwo, CostThree, CostFour, CostFive
<1>5. \A p \in CostFive : p \in Unpaid /\ Cost(p) = 5
  BY DEF Unpaid, Cost, CostOne, CostTwo, CostThree, CostFour, CostFive
<1> QED BY <1>1, <1>2, <1>3, <1>4, <1>5, CallRuns

(* The arms that call a paid procedure at its token.                       *)
LEMMA PaidArms ==
  ASSUME NEW n \in Int, NEW E
  PROVE  /\ 1 <= n =>
              /\ GoodArm(On({"Fn_Sizes"}, <<Call("parser_builtin_function")>>), n, E)
              /\ GoodArm(On({"Functions"}, <<Call("parser_functions")>>), n, E)
              /\ GoodArm(On({"Functions"}, <<Call("parser_trait_functions")>>), n, E)
              /\ GoodArm(On({"Classes"}, <<Call("parser_class")>>), n, E)
              /\ GoodArm(On({"Modules"}, <<Call("parser_module")>>), n, E)
              /\ GoodArm(On({"Elses"}, <<Call("parser_else")>>), n, E)
         /\ 2 <= n =>
              /\ GoodArm(On({"LeftBraces"}, <<Call("parser_literal")>>), n, E)
              /\ GoodArm(On({"LeftParens"}, <<Call("parser_function_call")>>), n, E)
              /\ GoodArm(On({"Dots"}, <<Call("parser_method_calls")>>), n, E)
              /\ GoodArm(On({"Returns"}, <<Call("parser_return")>>), n, E)
              /\ GoodArm(On({"Matchs"}, <<Call("parser_match")>>), n, E)
              /\ GoodArm(On({"Whiles"}, <<Call("parser_while")>>), n, E)
              /\ GoodArm(On({"Fors"}, <<Call("parser_for")>>), n, E)
              /\ GoodArm(On({"Ifs"}, <<Call("parser_if")>>), n, E)
              /\ GoodArm(On({"Elifs"}, <<Call("parser_elif")>>), n, E)
<1>1. /\ \A p \in PaidNone : p \in Paid /\ Over(p) = 0
      /\ \A p \in PaidOne : p \in Paid /\ Over(p) = 1
  BY DEF Paid, Over, PaidNone, PaidOne
<1>2. 1 <= n => \A p \in PaidNone : GoodArm(On(Starts(p), <<Call(p)>>), n, E)
  BY <1>1, PaidArm
<1>3. 2 <= n => \A p \in PaidOne : GoodArm(On(Starts(p), <<Call(p)>>), n, E)
  BY <1>1, PaidArm
<1>4. /\ Starts("parser_builtin_function") = {"Fn_Sizes"}
      /\ Starts("parser_functions") = {"Functions"}
      /\ Starts("parser_trait_functions") = {"Functions"}
      /\ Starts("parser_class") = {"Classes"}
      /\ Starts("parser_module") = {"Modules"}
      /\ Starts("parser_else") = {"Elses"}
  BY DEF Starts
<1>5. /\ Starts("parser_literal") = {"LeftBraces"}
      /\ Starts("parser_function_call") = {"LeftParens"}
      /\ Starts("parser_method_calls") = {"Dots"}
      /\ Starts("parser_return") = {"Returns"}
      /\ Starts("parser_match") = {"Matchs"}
      /\ Starts("parser_while") = {"Whiles"}
      /\ Starts("parser_for") = {"Fors"}
      /\ Starts("parser_if") = {"Ifs"}
      /\ Starts("parser_elif") = {"Elifs"}
  BY DEF Starts
<1>6. {"parser_builtin_function", "parser_functions", "parser_trait_functions",
       "parser_class", "parser_module", "parser_else"} \subseteq PaidNone
  BY DEF PaidNone
<1>7. {"parser_literal", "parser_function_call", "parser_method_calls", "parser_return",
       "parser_match", "parser_while", "parser_for", "parser_if", "parser_elif"}
         \subseteq PaidOne
  BY DEF PaidOne
<1>8. 1 <= n =>
              /\ GoodArm(On({"Fn_Sizes"}, <<Call("parser_builtin_function")>>), n, E)
              /\ GoodArm(On({"Functions"}, <<Call("parser_functions")>>), n, E)
              /\ GoodArm(On({"Functions"}, <<Call("parser_trait_functions")>>), n, E)
              /\ GoodArm(On({"Classes"}, <<Call("parser_class")>>), n, E)
              /\ GoodArm(On({"Modules"}, <<Call("parser_module")>>), n, E)
              /\ GoodArm(On({"Elses"}, <<Call("parser_else")>>), n, E)
  BY <1>2, <1>4, <1>6
<1>9. 2 <= n =>
              /\ GoodArm(On({"LeftBraces"}, <<Call("parser_literal")>>), n, E)
              /\ GoodArm(On({"LeftParens"}, <<Call("parser_function_call")>>), n, E)
              /\ GoodArm(On({"Dots"}, <<Call("parser_method_calls")>>), n, E)
              /\ GoodArm(On({"Returns"}, <<Call("parser_return")>>), n, E)
              /\ GoodArm(On({"Matchs"}, <<Call("parser_match")>>), n, E)
              /\ GoodArm(On({"Whiles"}, <<Call("parser_while")>>), n, E)
              /\ GoodArm(On({"Fors"}, <<Call("parser_for")>>), n, E)
              /\ GoodArm(On({"Ifs"}, <<Call("parser_if")>>), n, E)
              /\ GoodArm(On({"Elifs"}, <<Call("parser_elif")>>), n, E)
  BY <1>3, <1>5, <1>7
<1> QED BY <1>8, <1>9

LEMMA NotTheEnd ==
  /\ EOFs \notin Names /\ EOFs \notin Assigns /\ EOFs \notin Infix /\ EOFs \notin Words
BY DEF EOFs, Names, Assigns, Infix, Words

(* Lists of names, of parameters, of arguments; blocks.                    *)
LEMMA NamesRun ==
  ASSUME NEW n \in Int, NEW E
  PROVE  /\ AllRun(Bound, n, E)
         /\ Runs(GenericParams, n, E) /\ Runs(GenericArgs, n, E)
         /\ AllRun(NameList(Numbers, << >>), n, E)
<1>1. ASSUME NEW B PROVE AllRun(Bound, n, B)
  <2>1. AllRun(<<Adv, Want(Names)>>, n, B)
    BY PlainRuns, WantRuns, RunTwo
  <2>2. GoodArm(On({"Colons"}, <<Adv, Want(Names)>>), n, B)
    BY <2>1, PlainArm
  <2> QED BY <2>2, WhenRuns, EmptyRun, RunOne DEF Bound
<1>2. ASSUME NEW names, NEW bound, \A B : AllRun(bound, n, B)
      PROVE  AllRun(NameList(names, bound), n, E)
  <2> DEFINE L == E \cup {"loop"}
  <2>1. AllRun(<<Adv>>, n, L) /\ AllRun(<<Err, Adv>>, n, L)
    BY PlainRuns, RunOne, RunTwo
  <2>2. AllRun(<<Adv>> \o bound, n, L)
    BY <1>2, <2>1, RunBoth
  <2> HIDE DEF L
  <2>3. ArmsRun(<<On(names, <<Adv>> \o bound), On({"Commas"}, <<Adv>>)>>, n, L)
    <3>1. /\ GoodArm(On(names, <<Adv>> \o bound), n, L)
          /\ GoodArm(On({"Commas"}, <<Adv>>), n, L)
      BY <2>1, <2>2, PlainArm
    <3> QED BY <3>1 DEF ArmsRun, IsSeq
  <2>4. AllRun(<<Switch(<<On(names, <<Adv>> \o bound), On({"Commas"}, <<Adv>>)>>, <<Err, Adv>>)>>,
               n, L)
    BY <2>1, <2>3, SwitchRuns, RunOne
  <2> QED BY <2>4, LoopRuns, PlainRuns, ExpectRuns, RunThree DEF NameList, L
<1>3. \A B : AllRun(<< >>, n, B)
  BY EmptyRun
<1>4. /\ AllRun(NameList(Names, Bound), n, E) /\ AllRun(NameList(Names, << >>), n, E)
      /\ AllRun(NameList(Numbers, << >>), n, E)
  BY <1>1, <1>2, <1>3
<1> QED BY <1>1, <1>3, <1>4, PlainArm, WhenRuns DEF GenericParams, GenericArgs

(* A name, or an error and out of the loop.                                *)
NameOrLeave == When(Names, <<Adv>>, <<Err>> \o parser_sync \o <<Leave>>)

LEMMA NameOrLeaveRuns ==
  ASSUME NEW n \in Int, NEW E, "loop" \in E
  PROVE  Runs(NameOrLeave, n, E)
<1>1. AllRun(<<Err>> \o parser_sync \o <<Leave>>, n, E)
  BY SyncRun
<1>2. GoodArm(On(Names, <<Adv>>), n, E)
  BY PlainRuns, RunOne, PlainArm
<1> QED BY <1>1, <1>2, WhenRuns DEF NameOrLeave

LEMMA ParamsAfterRun ==
  ASSUME NEW n \in Int, 2 <= n, NEW E, NEW special, AllRun(special, n, E \cup {"loop"})
  PROVE  AllRun(ParamsAfter(special), n, E)
<1> DEFINE L == E \cup {"loop"}
           name == NameOrLeave
<1>1. "loop" \in L
  OBVIOUS
<1> HIDE DEF L
<1>2. Runs(name, n, L)
  BY <1>1, NameOrLeaveRuns
<1>3. Runs(Call("parser_type"), n, L)
  BY CallsRun DEF CostTwo
<1> HIDE DEF name
<1>4. AllRun(<<name, Want({"Colons"}), Call("parser_type"), Comma>>, n, L)
  BY <1>2, <1>3, WantRuns, RunFour
<1>5. AllRun(special \o <<name, Want({"Colons"}), Call("parser_type"), Comma>>, n, L)
  BY <1>4, RunBoth DEF L
<1> QED BY <1>5, LoopRuns, RunTwo, ExpectRuns DEF ParamsAfter, NameOrLeave, L, name

LEMMA ParamsRun ==
  ASSUME NEW n \in Int, 2 <= n, NEW E
  PROVE  AllRun(Params, n, E) /\ AllRun(MethodParams, n, E)
<1> DEFINE L == E \cup {"loop"}
<1>1. "loop" \in L
  OBVIOUS
<1> HIDE DEF L
<1>2. AllRun(<<Adv, Comma, Again>>, n, L)
  BY <1>1, PlainRuns, WantRuns, LeavingRuns, RunThree
<1>3. AllRun(<<When({"Selfs"}, <<Adv, Comma, Again>>, << >>)>>, n, L)
  BY <1>2, PlainArm, EmptyRun, WhenRuns, RunOne
<1>4. AllRun(<< >>, n, L)
  BY EmptyRun
<1> QED BY <1>3, <1>4, ParamsAfterRun DEF Params, MethodParams, L

LEMMA TypesRun ==
  ASSUME NEW n \in Int, 2 <= n, NEW E
  PROVE  AllRun(TypesUpToParen, n, E)
<1>1. \A B : AllRun(<<Call("parser_type"), Comma>>, n, B)
  BY CallsRun, WantRuns, RunTwo DEF CostTwo
<1> QED BY <1>1, LoopRuns, ExpectRuns, RunTwo DEF TypesUpToParen

LEMMA ArgsRun ==
  ASSUME NEW n \in Int, 4 <= n, NEW E
  PROVE  AllRun(PlainArgs, n, E) /\ AllRun(NamedArgs, n, E)
<1>1. \A B : AllRun(<<Call("parser_expr"), Comma>>, n, B)
  BY CallsRun, WantRuns, RunTwo
<1>2. ASSUME NEW B
      PROVE  AllRun(<<When(Names, <<IfPeeked("Colons", <<Adv, Adv>>)>>, << >>),
                      Call("parser_expr"), Comma>>, n, B)
  <2>1. AllRun(<<Adv, Adv>>, n, B) /\ AllRun(<< >>, n, B)
    BY PlainRuns, RunTwo, EmptyRun
  <2>2. AllRun(<<IfPeeked("Colons", <<Adv, Adv>>)>>, n, B)
    BY <2>1, TestRuns, RunOne
  <2>3. Runs(When(Names, <<IfPeeked("Colons", <<Adv, Adv>>)>>, << >>), n, B)
    BY <2>1, <2>2, PlainArm, WhenRuns
  <2> QED BY <2>3, CallsRun, WantRuns, RunThree
<1>3. AllRun(PlainArgs, n, E)
  BY <1>1, LoopRuns, ExpectRuns, RunTwo DEF PlainArgs
<1>4. AllRun(NamedArgs, n, E)
  BY <1>2, LoopRuns, ExpectRuns, RunTwo DEF NamedArgs
<1> QED BY <1>3, <1>4

LEMMA BlocksRun ==
  ASSUME NEW n \in Int, 3 <= n, NEW E
  PROVE  (\A ends : Runs(Block(ends), n, E)) /\ Runs(ForcedBlock, n, E)
<1>1. \A B : AllRun(<<Call("parser_stmt")>>, n, B)
  BY CallsRun, RunOne
<1>2. \A B : AllRun(<<Forced(<<Call("parser_stmt")>>)>>, n, B)
  BY <1>1, MarkRuns, RunOne
<1> QED BY <1>1, <1>2, LoopRuns DEF Block, ForcedBlock

(* Expressions.                                                            *)
LEMMA ExprRun ==
  ASSUME NEW n \in Int, 3 <= n, NEW E
  PROVE  AllRun(parser_expr, n, E)
BY CallRuns, RunOne DEF parser_expr

LEMMA IndexRun ==
  ASSUME NEW n \in Int, 4 <= n, NEW E
  PROVE  AllRun(parser_index, n, E)
BY CallsRun, ExpectRuns, RunTwo DEF parser_index

LEMMA ExprBpRun ==
  ASSUME NEW n \in Int, 2 <= n, NEW E, NEW min
  PROVE  AllRun(parser_expr_bp(min), n, E)
<1>1. Runs(Call("parser_expr_primary"), n, E) /\ Runs(Call("parser_type"), n, E)
  BY CallsRun DEF CostTwo
<1>2. AllRun(<<Adv, Call("parser_type"), Node("Ass")>>, n, E)
  BY <1>1, PlainRuns, RunThree
<1>3. Runs(When({"Ass"}, <<Adv, Call("parser_type"), Node("Ass")>>, << >>), n, E)
  BY <1>2, PlainArm, EmptyRun, WhenRuns
<1>4. Runs(Climb(min), n, E)
  BY CallRuns
<1> QED BY <1>1, <1>3, <1>4, RunThree DEF parser_expr_bp

LEMMA LiteralRun ==
  ASSUME NEW n \in Int, 4 <= n, NEW E
  PROVE  AllRun(parser_literal, n, E)
<1> DEFINE L == E \cup {"loop"}
           body == <<NameOrLeave, Want({"Equalss"}), Call("parser_expr"), Comma>>
<1>1. "loop" \in L
  OBVIOUS
<1> HIDE DEF L
<1>2. Runs(NameOrLeave, n, L) /\ Runs(Call("parser_expr"), n, L)
  BY <1>1, NameOrLeaveRuns, CallsRun
<1>3. AllRun(body, n, L)
  BY <1>2, WantRuns, RunFour
<1> HIDE DEF body
<1>4. Runs(Until({"RightBraces", EOFs}, body), n, E)
  BY <1>3, LoopRuns DEF L
<1>5. Runs(Adv, n, E)
  BY PlainRuns
<1>6. Runs(parser_expect("RightBraces"), n, E)
  BY ExpectRuns
<1> QED BY <1>4, <1>5, <1>6, RunThree DEF parser_literal, body, NameOrLeave

LEMMA CallRun ==
  ASSUME NEW n \in Int, 4 <= n, NEW E
  PROVE  /\ AllRun(parser_function_call, n, E)
         /\ AllRun(parser_method_calls, n, E)
<1>1. AllRun(NamedArgs, n, E)
  BY ArgsRun
<1>2. Runs(When({"LeftBrackets"}, NameList(Numbers, << >>), << >>), n, E)
  BY NamesRun, PlainArm, EmptyRun, WhenRuns
<1>3. AllRun(<<When({"LeftBrackets"}, NameList(Numbers, << >>), << >>),
               parser_expect("LeftParens")>>, n, E)
  BY <1>2, ExpectRuns, RunTwo
<1>4. AllRun(<<Adv>> \o NamedArgs, n, E)
  BY <1>1, ThenRun
<1>5. Runs(When({"LeftParens"}, <<Adv>> \o NamedArgs, << >>), n, E)
  BY <1>4, PlainArm, EmptyRun, WhenRuns
<1>6. AllRun(parser_method_calls, n, E)
  <2>1. Runs(Adv, n, E)
    BY PlainRuns
  <2>2. Runs(Want(Names), n, E)
    BY WantRuns
  <2>3. Runs(GenericArgs, n, E)
    BY NamesRun
  <2> QED BY <1>5, <2>1, <2>2, <2>3, RunFour DEF parser_method_calls
<1> QED BY <1>1, <1>3, <1>6, RunBoth DEF parser_function_call

LEMMA BuiltinRun ==
  ASSUME NEW n \in Int, 3 <= n, NEW E, "end" \in E
  PROVE  AllRun(parser_builtin_function, n, E)
<1>1. Runs(When({"LeftBrackets"}, <<Adv>>, <<Err, Back>>), n, E)
  BY PlainRuns, LeavingRuns, RunOne, RunTwo, PlainArm, WhenRuns
<1>2. Runs(When({"LeftParens"}, <<Adv, CloseParen>>, << >>), n, E)
  BY PlainRuns, ExpectRuns, RunTwo, EmptyRun, PlainArm, WhenRuns
<1>3. Runs(Call("parser_type"), n, E)
  BY CallsRun DEF CostTwo
<1> QED BY <1>1, <1>2, <1>3, PlainRuns, ExpectRuns, RunFive DEF parser_builtin_function

LEMMA NamePrimaryArm ==
  ASSUME NEW n \in Int, 1 <= n, NEW E
  PROVE  GoodArm(On(Names, NamePrimary), n, E)
<1> DEFINE m == n + 3
           l == m + 3
<1>0. m \in Int /\ l \in Int /\ 4 <= m /\ 7 <= l /\ m <= n + 3 /\ l <= m + 3
  OBVIOUS
<1> HIDE DEF m, l
<1> USE <1>0
<1> DEFINE index == <<Adv, When({"LeftParens"}, <<Call("parser_function_call")>>,
                                <<Call("parser_index")>>)>>
           arms == <<On({"LeftBraces"}, <<Call("parser_literal")>>),
                     On({"LeftParens"}, <<Call("parser_function_call")>>),
                     On({"Dots"}, <<Call("parser_method_calls")>>),
                     On({"LeftBrackets"}, index)>>
<1>1. AllRun(index, l, E)
  <2>1. GoodArm(On({"LeftParens"}, <<Call("parser_function_call")>>), l, E)
    BY PaidArms
  <2>2. AllRun(<<Call("parser_index")>>, l, E)
    BY CallsRun, RunOne DEF CostFive
  <2> QED BY <2>1, <2>2, WhenRuns, PlainRuns, RunTwo
<1>2. Eats(index)
  BY EatsTuple
<1> HIDE DEF index
<1>3. GoodArm(On({"LeftBrackets"}, index), m, E)
  BY <1>1, <1>2, EatingArm DEF EOFs
<1>4. ArmsRun(arms, m, E)
  BY <1>3, PaidArms DEF ArmsRun, IsSeq
<1> HIDE DEF arms
<1>5. AllRun(<<Leaf, Adv, Switch(arms, << >>)>>, m, E)
  BY <1>4, EmptyRun, SwitchRuns, PlainRuns, RunThree
<1>6. AllRun(NamePrimary, m, E) /\ Eats(NamePrimary)
  BY <1>5, EatsTuple DEF NamePrimary, arms, index
<1> QED BY <1>6, EatingArm, NotTheEnd

LEMMA SelfPrimaryArm ==
  ASSUME NEW n \in Int, 1 <= n, NEW E
  PROVE  GoodArm(On({"Selfs"}, SelfPrimary), n, E)
<1> DEFINE m == n + 3
<1>0. m \in Int /\ 4 <= m /\ m <= n + 3
  OBVIOUS
<1> HIDE DEF m
<1> USE <1>0
<1> DEFINE args == When({"LeftParens"}, <<Adv>> \o PlainArgs, << >>)
<1>1. Runs(args, m, E)
  BY ArgsRun, ThenRun, EmptyRun, PlainArm, WhenRuns
<1> HIDE DEF args
<1>2. AllRun(<<Adv, Adv, args>>, m, E)
  BY <1>1, PlainRuns, RunThree
<1>3. Runs(When({"Dots"}, <<Adv, Adv, args>>, << >>), m, E)
  BY <1>2, EmptyRun, PlainArm, WhenRuns
<1>4. AllRun(<<Leaf, Adv, When({"Dots"}, <<Adv, Adv, args>>, << >>)>>, m, E)
  BY <1>3, PlainRuns, RunThree
<1>5. AllRun(SelfPrimary, m, E) /\ Eats(SelfPrimary)
  BY <1>4, EatsTuple DEF SelfPrimary, args
<1> QED BY <1>5, EatingArm DEF EOFs

LEMMA ExprPrimaryRun ==
  ASSUME NEW n \in Int, 1 <= n, NEW E
  PROVE  AllRun(parser_expr_primary, n, E)
<1> DEFINE m == n + 3
<1>0. m \in Int /\ 4 <= m /\ m <= n + 3
  OBVIOUS
<1> HIDE DEF m
<1> USE <1>0
<1>1. ASSUME NEW t, t # EOFs PROVE GoodArm(Prefix(t), n, E)
  <2> DEFINE code == <<Adv, Call("parser_expr_primary"), Node(PrefixNode(t))>>
  <2>1. Runs(Call("parser_expr_primary"), m, E)
    BY CallsRun DEF CostTwo
  <2>2. AllRun(code, m, E) /\ Eats(code)
    BY <2>1, PlainRuns, RunThree, EatsTuple
  <2>3. EOFs \notin {t}
    BY <1>1
  <2> HIDE DEF code
  <2>4. GoodArm(On({t}, code), n, E)
    BY <2>2, <2>3, EatingArm
  <2> QED BY <2>4 DEF Prefix, code
<1>2. /\ GoodArm(Prefix("Ampersands"), n, E) /\ GoodArm(Prefix("Minuss"), n, E)
      /\ GoodArm(Prefix("Nots"), n, E) /\ GoodArm(Prefix("Tildes"), n, E)
  BY <1>1 DEF EOFs
<1>3. GoodArm(On({"LeftParens"}, <<Adv, Call("parser_expr"), CloseParen>>), n, E)
  <2>1. AllRun(<<Adv, Call("parser_expr"), CloseParen>>, m, E)
    BY PlainRuns, CallsRun, ExpectRuns, RunThree
  <2> QED BY <2>1, EatsTuple, EatingArm DEF EOFs
<1>4. /\ GoodArm(On(Literals, <<Leaf, Adv>>), n, E)
      /\ GoodArm(On({EOFs}, <<Err>>), n, E)
      /\ AllRun(<<Err, Adv>>, n, E)
  BY PlainRuns, RunOne, RunTwo, PlainArm
<1>5. GoodArm(On({"Fn_Sizes"}, <<Call("parser_builtin_function")>>), n, E)
  BY PaidArms
<1> DEFINE arms == <<Prefix("Ampersands"), Prefix("Minuss"), Prefix("Nots"), Prefix("Tildes"),
               On({"LeftParens"}, <<Adv, Call("parser_expr"), CloseParen>>),
               On(Literals, <<Leaf, Adv>>),
               On({"Selfs"}, SelfPrimary),
               On({"Fn_Sizes"}, <<Call("parser_builtin_function")>>),
               On(Names, NamePrimary),
               On({EOFs}, <<Err>>)>>
<1>6. ArmsRun(arms, n, E)
  BY <1>2, <1>3, <1>4, <1>5, NamePrimaryArm, SelfPrimaryArm DEF ArmsRun, IsSeq
<1> HIDE DEF arms
<1>7. Runs(Switch(arms, <<Err, Adv>>), n, E)
  BY <1>4, <1>6, SwitchRuns
<1> QED BY <1>7, RunOne DEF parser_expr_primary, arms

(* Types.                                                                  *)
LEMMA TypeRun ==
  ASSUME NEW n \in Int, 1 <= n, NEW E
  PROVE  AllRun(parser_type, n, E)
BY CallsRun, RunOne DEF parser_type, CostOne

LEMMA TypeBaseRun ==
  ASSUME NEW n \in Int, 0 <= n, NEW E, "end" \in E
  PROVE  AllRun(parser_type_base, n, E)
<1> DEFINE m == n + 3
<1>0. m \in Int /\ 3 <= m /\ m <= n + 3
  OBVIOUS
<1> HIDE DEF m
<1> USE <1>0
<1>1. Runs(Call("parser_type"), m, E)
  BY CallsRun DEF CostTwo
<1>2. AllRun(AtomicType, m, E) /\ Eats(AtomicType)
  <2>1. Runs(When({"LeftBrackets"}, <<Adv>>, <<Err, Back>>), m, E)
    BY PlainRuns, LeavingRuns, RunOne, RunTwo, PlainArm, WhenRuns
  <2>2. Runs(IfAtomic(<< >>, <<Err, Adv, Back>>), m, E)
    BY PlainRuns, LeavingRuns, RunThree, EmptyRun, TestRuns
  <2>3. Runs(Adv, m, E) /\ Runs(Want({"RightBrackets"}), m, E)
    BY PlainRuns, WantRuns
  <2>4. AllRun(AtomicType, m, E)
    BY <1>1, <2>1, <2>2, <2>3, RunFive DEF AtomicType
  <2> QED BY <2>4, EatsTuple DEF AtomicType
<1>3. AllRun(<<Adv>> \o TypesUpToParen, m, E) /\ Eats(<<Adv>> \o TypesUpToParen)
  BY TypesRun, ThenRun
<1>4. AllRun(FunctionType, m, E) /\ Eats(FunctionType)
  <2>1. Runs(When({"LeftParens"}, <<Adv>> \o TypesUpToParen, << >>), m, E)
    BY <1>3, EmptyRun, PlainArm, WhenRuns
  <2>2. Runs(When({"Colons"}, <<Adv, Call("parser_type")>>, << >>), m, E)
    BY <1>1, PlainRuns, RunTwo, EmptyRun, PlainArm, WhenRuns
  <2> QED BY <2>1, <2>2, PlainRuns, RunThree, EatsTuple DEF FunctionType
<1>5. /\ AllRun(<<Adv, Opt({"Stars"}), Call("parser_type")>>, m, E)
      /\ Eats(<<Adv, Opt({"Stars"}), Call("parser_type")>>)
  <2>1. Runs(Adv, m, E) /\ Runs(Opt({"Stars"}), m, E)
    BY PlainRuns, WantRuns
  <2> QED BY <1>1, <2>1, RunThree, EatsTuple
<1>6. AllRun(<<Adv>>, n, E) /\ AllRun(<<Err, Adv>>, n, E)
  BY PlainRuns, RunOne, RunTwo
<1> DEFINE plain == Numbers \cup Texts \cup Names \cup {"Floats", "Chars", "Voids", "Bools"}
           arms == <<On(plain, <<Adv>>),
               On({"Atomics"}, AtomicType),
               On({"LeftParens"}, <<Adv>> \o TypesUpToParen),
               On({"Stars"}, <<Adv, Opt({"Stars"}), Call("parser_type")>>),
               On({"Functions"}, FunctionType)>>
<1> HIDE DEF plain
<1>7. /\ GoodArm(On(plain, <<Adv>>), n, E)
      /\ GoodArm(On({"Atomics"}, AtomicType), n, E)
      /\ GoodArm(On({"LeftParens"}, <<Adv>> \o TypesUpToParen), n, E)
      /\ GoodArm(On({"Stars"}, <<Adv, Opt({"Stars"}), Call("parser_type")>>), n, E)
      /\ GoodArm(On({"Functions"}, FunctionType), n, E)
  BY <1>2, <1>3, <1>4, <1>5, <1>6, PlainArm, EatingArm DEF EOFs
<1>8. ArmsRun(arms, n, E)
  BY <1>7 DEF ArmsRun, IsSeq
<1> HIDE DEF arms
<1> QED BY <1>6, <1>8, SwitchRuns, RunOne DEF parser_type_base, arms, plain

(* Declarations.                                                           *)
LEMMA SignatureRun ==
  ASSUME NEW n \in Int, 3 <= n, NEW E
  PROVE  AllRun(Signature, n, E)
<1> DEFINE names == <<Adv, Want(Names), GenericParams, Want({"LeftParens"})>>
           result == <<When({"Colons"}, <<Adv, Call("parser_type")>>, << >>)>>
<1>1. AllRun(names, n, E)
  BY PlainRuns, WantRuns, NamesRun, RunFour
<1>2. AllRun(<<Adv, Call("parser_type")>>, n, E)
  BY PlainRuns, CallsRun, RunTwo DEF CostTwo
<1>3. AllRun(result, n, E)
  BY <1>2, PlainArm, EmptyRun, WhenRuns, RunOne
<1>4. AllRun(MethodParams, n, E)
  BY ParamsRun
<1> HIDE DEF names, result
<1>5. AllRun(names \o MethodParams \o result, n, E)
  BY <1>1, <1>3, <1>4, RunBoth
<1> QED BY <1>5 DEF Signature, names, result

LEMMA FunctionsRun ==
  ASSUME NEW n \in Int, 3 <= n, NEW E
  PROVE  /\ AllRun(parser_functions, n, E) /\ AllRun(parser_trait_functions, n, E)
         /\ AllRun(parser_module, n, E)
<1>1. AllRun(<<ForcedBlock, CloseBlock>>, n, E)
  BY BlocksRun, ExpectRuns, RunTwo
<1>2. AllRun(parser_functions, n, E)
  BY <1>1, SignatureRun, RunBoth DEF parser_functions
<1>3. AllRun(parser_trait_functions, n, E)
  BY SignatureRun DEF parser_trait_functions
<1>4. AllRun(parser_module, n, E)
  BY PlainRuns, WantRuns, BlocksRun, ExpectRuns, RunFour DEF parser_module
<1> QED BY <1>2, <1>3, <1>4

LEMMA TraitNamesRuns ==
  ASSUME NEW n \in Int, NEW E
  PROVE  Runs(TraitNames, n, E)
<1> DEFINE first == When(Names, << >>, <<Err>>)
           more == While(Names, <<Adv, Comma>>)
<1>1. Runs(first, n, E)
  BY PlainRuns, RunOne, EmptyRun, PlainArm, WhenRuns
<1>2. \A B : AllRun(<<Adv, Comma>>, n, B)
  BY PlainRuns, WantRuns, RunTwo
<1>3. Runs(more, n, E)
  BY <1>2, LoopRuns
<1> HIDE DEF first, more
<1>4. AllRun(<<Adv, first, more>>, n, E)
  BY <1>1, <1>3, PlainRuns, RunThree
<1>5. Runs(When({"Fors"}, <<Adv, first, more>>, << >>), n, E)
  BY <1>4, EmptyRun, PlainArm, WhenRuns
<1> QED BY <1>5 DEF TraitNames, first, more

LEMMA ClassPartsRun ==
  ASSUME NEW n \in Int, 3 <= n, NEW E, "loop" \in E
  PROVE  /\ AllRun(ClassField, n, E) /\ AllRun(PublicMethod, n, E)
         /\ AllRun(ClassOperation, n, E)
<1>1. AllRun(ClassField, n, E)
  <2>1. Runs(Adv, n, E) /\ Runs(Want(Names), n, E) /\ Runs(Want({"Colons"}), n, E)
    BY PlainRuns, WantRuns
  <2>2. Runs(Call("parser_type"), n, E)
    BY CallsRun DEF CostTwo
  <2> QED BY <2>1, <2>2, RunFour DEF ClassField
<1>2. AllRun(<<Err, Adv, Again>>, n, E) /\ AllRun(<<Err, Again>>, n, E)
  BY PlainRuns, LeavingRuns, RunTwo, RunThree
<1>3. GoodArm(On({"Functions"}, <<Call("parser_functions")>>), n, E)
  BY PaidArms
<1>4. Runs(When({"Functions"}, <<Call("parser_functions")>>, <<Err, Adv, Again>>), n, E)
  BY <1>2, <1>3, WhenRuns
<1>5. Runs(When({"Functions"}, <<Call("parser_functions")>>, <<Err, Again>>), n, E)
  BY <1>2, <1>3, WhenRuns
<1>6. Runs(When({"operation"}, << >>, <<Err, Adv, Again>>), n, E)
  BY <1>2, EmptyRun, PlainArm, WhenRuns
<1>7. Runs(Call("operation_op"), n, E)
  BY CallsRun DEF CostOne
<1>8. AllRun(PublicMethod, n, E)
  BY <1>4, PlainRuns, WantRuns, RunThree DEF PublicMethod
<1>9. AllRun(ClassOperation, n, E)
  BY <1>5, <1>6, <1>7, PlainRuns, RunFour DEF ClassOperation
<1> QED BY <1>1, <1>8, <1>9

LEMMA ClassRun ==
  ASSUME NEW n \in Int, 3 <= n, NEW E
  PROVE  AllRun(parser_class, n, E)
<1> DEFINE L == E \cup {"loop"}
           arms == <<On({"Vars", "Lets"}, ClassField),
                     On({"Publics"}, PublicMethod),
                     On({"Functions"}, <<Call("parser_functions")>>),
                     On({"Ats"}, ClassOperation)>>
           members == Until({"Ends", EOFs}, <<Switch(arms, <<Err, Adv>>)>>)
           params == When({"LeftParens"}, <<Adv>> \o Params, << >>)
           base == When({"Greaters"}, <<Adv, Want(Names)>>, << >>)
<1>1. "loop" \in L
  OBVIOUS
<1> HIDE DEF L
<1>2. /\ GoodArm(On({"Vars", "Lets"}, ClassField), n, L)
      /\ GoodArm(On({"Publics"}, PublicMethod), n, L)
      /\ GoodArm(On({"Ats"}, ClassOperation), n, L)
  BY <1>1, ClassPartsRun, PlainArm
<1>3. GoodArm(On({"Functions"}, <<Call("parser_functions")>>), n, L)
  BY PaidArms
<1>4. ArmsRun(arms, n, L)
  BY <1>2, <1>3 DEF ArmsRun, IsSeq
<1> HIDE DEF arms
<1>5. AllRun(<<Err, Adv>>, n, L)
  BY PlainRuns, RunTwo
<1>6. AllRun(<<Switch(arms, <<Err, Adv>>)>>, n, L)
  BY <1>4, <1>5, SwitchRuns, RunOne
<1>7. Runs(members, n, E)
  BY <1>6, LoopRuns DEF L
<1>8. Runs(params, n, E)
  BY ParamsRun, ThenRun, EmptyRun, PlainArm, WhenRuns
<1>9. AllRun(<<Adv, Want(Names)>>, n, E)
  BY PlainRuns, WantRuns, RunTwo
<1>10. Runs(base, n, E)
  BY <1>9, EmptyRun, PlainArm, WhenRuns
<1>11. Runs(Adv, n, E) /\ Runs(Want(Names), n, E)
  BY PlainRuns, WantRuns
<1>12. Runs(GenericParams, n, E) /\ Runs(TraitNames, n, E) /\ Runs(CloseBlock, n, E)
  BY NamesRun, TraitNamesRuns, ExpectRuns
<1> HIDE DEF members, params, base
<1>13. AllRun(<<Adv, Want(Names), TraitNames, GenericParams, params, TraitNames, base, members,
                CloseBlock>>, n, E)
  BY <1>7, <1>8, <1>10, <1>11, <1>12 DEF AllRun, IsSeq
<1> QED BY <1>13 DEF parser_class, members, params, base, arms

(* A declaration with a loop of members: structures, enumerations, traits. *)
LEMMA MembersRun ==
  ASSUME NEW n \in Int, NEW E, NEW i, \A B : Runs(i, n, B)
  PROVE  AllRun(<<Adv, Want(Names), GenericParams, Want({"Colons"}),
                  Until({"Ends", EOFs}, <<i>>), CloseBlock>>, n, E)
<1> DEFINE members == Until({"Ends", EOFs}, <<i>>)
<1>1. Runs(members, n, E)
  BY RunOne, LoopRuns
<1>2. Runs(Adv, n, E) /\ Runs(Want(Names), n, E) /\ Runs(Want({"Colons"}), n, E)
  BY PlainRuns, WantRuns
<1>3. Runs(GenericParams, n, E) /\ Runs(CloseBlock, n, E)
  BY NamesRun, ExpectRuns
<1> HIDE DEF members
<1>4. AllRun(<<Adv, Want(Names), GenericParams, Want({"Colons"}), members, CloseBlock>>, n, E)
  BY <1>1, <1>2, <1>3, RunSix
<1> QED BY <1>4 DEF members

LEMMA StructerRun ==
  ASSUME NEW n \in Int, 0 <= n, NEW E
  PROVE  AllRun(parser_structer, n, E)
<1> DEFINE m == n + 3
<1>0. m \in Int /\ 3 <= m /\ m <= n + 3
  OBVIOUS
<1> HIDE DEF m
<1> USE <1>0
<1> DEFINE var == <<Adv, Want(Names), Want({"Equalss"}), Call("parser_type")>>
           name == <<Adv, Want({"Equalss"}), Call("parser_type")>>
           arms == <<On({"Vars"}, var), On(Names, name)>>
<1>1. ASSUME NEW B PROVE Runs(Switch(arms, <<Err, Adv>>), n, B)
  <2>1. Runs(Adv, m, B) /\ Runs(Want(Names), m, B) /\ Runs(Want({"Equalss"}), m, B)
    BY PlainRuns, WantRuns
  <2>2. Runs(Call("parser_type"), m, B)
    BY CallsRun DEF CostTwo
  <2>3. AllRun(var, m, B) /\ AllRun(name, m, B) /\ Eats(var) /\ Eats(name)
    BY <2>1, <2>2, RunThree, RunFour, EatsTuple
  <2> HIDE DEF var, name
  <2>4. GoodArm(On({"Vars"}, var), n, B)
    BY <2>3, EatingArm DEF EOFs
  <2>5. GoodArm(On(Names, name), n, B)
    BY <2>3, EatingArm, NotTheEnd
  <2>6. ArmsRun(arms, n, B)
    BY <2>4, <2>5 DEF ArmsRun, IsSeq
  <2>7. AllRun(<<Err, Adv>>, n, B)
    BY PlainRuns, RunTwo
  <2> HIDE DEF arms
  <2> QED BY <2>6, <2>7, SwitchRuns
<1> DEFINE i == Switch(arms, <<Err, Adv>>)
<1> HIDE DEF i
<1>2. AllRun(<<Adv, Want(Names), GenericParams, Want({"Colons"}),
               Until({"Ends", EOFs}, <<i>>), CloseBlock>>, n, E)
  BY <1>1, MembersRun DEF i
<1> QED BY <1>2 DEF parser_structer, i, arms, var, name

LEMMA EnumsRun ==
  ASSUME NEW n \in Int, 0 <= n, NEW E
  PROVE  AllRun(parser_enums, n, E)
<1> DEFINE m == n + 3
<1>0. m \in Int /\ 3 <= m /\ m <= n + 3
  OBVIOUS
<1> HIDE DEF m
<1> USE <1>0
<1> DEFINE params == When({"LeftParens"}, <<Adv>> \o Params, << >>)
           arms == <<On(Names, <<Adv, params>>), On({"Commas"}, <<Adv>>)>>
<1>1. ASSUME NEW B PROVE Runs(Switch(arms, <<Err, Adv>>), n, B)
  <2>1. Runs(params, m, B)
    BY ParamsRun, ThenRun, EmptyRun, PlainArm, WhenRuns
  <2> HIDE DEF params
  <2>2. AllRun(<<Adv, params>>, m, B) /\ Eats(<<Adv, params>>)
    BY <2>1, PlainRuns, RunTwo, EatsTuple
  <2>3. GoodArm(On(Names, <<Adv, params>>), n, B)
    BY <2>2, EatingArm, NotTheEnd
  <2>4. GoodArm(On({"Commas"}, <<Adv>>), n, B)
    BY PlainRuns, RunOne, PlainArm
  <2>5. ArmsRun(arms, n, B)
    BY <2>3, <2>4 DEF ArmsRun, IsSeq
  <2>6. AllRun(<<Err, Adv>>, n, B)
    BY PlainRuns, RunTwo
  <2> HIDE DEF arms
  <2> QED BY <2>5, <2>6, SwitchRuns
<1> DEFINE i == Switch(arms, <<Err, Adv>>)
<1> HIDE DEF i
<1>2. AllRun(<<Adv, Want(Names), GenericParams, Want({"Colons"}),
               Until({"Ends", EOFs}, <<i>>), CloseBlock>>, n, E)
  BY <1>1, MembersRun DEF i
<1> QED BY <1>2 DEF parser_enums, i, arms, params

LEMMA TraitsRun ==
  ASSUME NEW n \in Int, 1 <= n, NEW E
  PROVE  AllRun(parser_traits, n, E)
<1> DEFINE arms == <<On({"Types"}, <<Adv, Want(Names)>>),
                     On({"Functions"}, <<Call("parser_trait_functions")>>)>>
<1>1. ASSUME NEW B PROVE Runs(Forced(<<Switch(arms, <<Err, Adv>>)>>), n, B)
  <2>1. AllRun(<<Adv, Want(Names)>>, n, B) /\ AllRun(<<Err, Adv>>, n, B)
    BY PlainRuns, WantRuns, RunTwo
  <2>2. GoodArm(On({"Types"}, <<Adv, Want(Names)>>), n, B)
    BY <2>1, PlainArm
  <2>3. GoodArm(On({"Functions"}, <<Call("parser_trait_functions")>>), n, B)
    BY PaidArms
  <2>4. ArmsRun(arms, n, B)
    BY <2>2, <2>3 DEF ArmsRun, IsSeq
  <2> HIDE DEF arms
  <2> QED BY <2>1, <2>4, SwitchRuns, RunOne, MarkRuns
<1> DEFINE i == Forced(<<Switch(arms, <<Err, Adv>>)>>)
<1> HIDE DEF i
<1>2. AllRun(<<Adv, Want(Names), GenericParams, Want({"Colons"}),
               Until({"Ends", EOFs}, <<i>>), CloseBlock>>, n, E)
  BY <1>1, MembersRun DEF i
<1> QED BY <1>2 DEF parser_traits, i, arms

LEMMA ExternRun ==
  ASSUME NEW n \in Int, 0 <= n, NEW E
  PROVE  AllRun(parser_extern, n, E)
<1> DEFINE m == n + 3
<1>0. m \in Int /\ 3 <= m /\ m <= n + 3
  OBVIOUS
<1> HIDE DEF m
<1> USE <1>0
<1> DEFINE params == When({"LeftParens"}, <<Adv>> \o Params, <<Err>>)
           result == When({"Colons"}, <<Adv, Call("parser_type")>>, << >>)
           i == When({"Functions"}, ExternFunction, <<Err, Adv>>)
<1>1. ASSUME NEW B PROVE AllRun(<<i>>, n, B)
  <2>1. Runs(params, m, B)
    BY ParamsRun, ThenRun, PlainRuns, RunOne, PlainArm, WhenRuns
  <2>2. AllRun(<<Adv, Call("parser_type")>>, m, B)
    BY PlainRuns, CallsRun, RunTwo DEF CostTwo
  <2>3. Runs(result, m, B)
    BY <2>2, EmptyRun, PlainArm, WhenRuns
  <2>4. Runs(Adv, m, B) /\ Runs(Want(Names), m, B)
    BY PlainRuns, WantRuns
  <2> HIDE DEF params, result
  <2>5. AllRun(<<Adv, Want(Names), params, result>>, m, B)
    BY <2>1, <2>3, <2>4, RunFour
  <2>6. AllRun(ExternFunction, m, B) /\ Eats(ExternFunction)
    BY <2>5, EatsTuple DEF ExternFunction, params, result
  <2>7. GoodArm(On({"Functions"}, ExternFunction), n, B)
    BY <2>6, EatingArm DEF EOFs
  <2>8. AllRun(<<Err, Adv>>, n, B)
    BY PlainRuns, RunTwo
  <2> QED BY <2>7, <2>8, WhenRuns, RunOne
<1> HIDE DEF i
<1> DEFINE members == Until({"Ends", EOFs}, <<i>>)
<1>2. Runs(members, n, E)
  BY <1>1, LoopRuns
<1>3. Runs(Adv, n, E) /\ Runs(Opt(Texts), n, E) /\ Runs(CloseBlock, n, E)
  BY PlainRuns, WantRuns, ExpectRuns
<1> HIDE DEF members
<1>4. AllRun(<<Adv, Opt(Texts), members, CloseBlock>>, n, E)
  BY <1>2, <1>3, RunFour
<1> QED BY <1>4 DEF parser_extern, members, i

(* Variables and constants.                                                *)
LEMMA VariablesRun ==
  ASSUME NEW n \in Int, 1 <= n, NEW E
  PROVE  /\ AllRun(parser_const, n, E) /\ AllRun(parser_vars, n, E)
         /\ AllRun(parser_lets, n, E) /\ AllRun(parser_globle, n, E)
<1> DEFINE m == n + 3
<1>0. m \in Int /\ 4 <= m /\ m <= n + 3
  OBVIOUS
<1> HIDE DEF m
<1> USE <1>0
<1>1. AllRun(<<Adv, Call("parser_type")>>, m, E) /\ AllRun(<<Adv, Call("parser_expr")>>, m, E)
  <2>1. Runs(Adv, m, E)
    BY PlainRuns
  <2>2. Runs(Call("parser_type"), m, E)
    BY CallsRun DEF CostTwo
  <2>3. Runs(Call("parser_expr"), m, E)
    BY CallsRun
  <2> QED BY <2>1, <2>2, <2>3, RunTwo
<1>2. GoodArm(On({"Colons"}, <<Adv, Call("parser_type")>>), n, E)
  BY <1>1, EatsTuple, EatingArm DEF EOFs
<1>3. GoodArm(On({"Equalss"}, <<Adv, Call("parser_expr")>>), n, E)
  BY <1>1, EatsTuple, EatingArm DEF EOFs
<1>4. AllRun(<<Err>>, n, E)
  BY PlainRuns, RunOne
<1>5. Runs(TypeAnnotation, n, E)
  BY <1>2, EmptyRun, WhenRuns DEF TypeAnnotation
<1>6. Runs(Initialiser, n, E)
  BY <1>3, <1>4, WhenRuns DEF Initialiser
<1>7. AllRun(parser_const, n, E)
  BY <1>5, <1>6, WantRuns, RunThree DEF parser_const
<1> QED BY <1>7, ThenRun DEF parser_vars, parser_lets, parser_globle

(* Annotations.                                                            *)
LEMMA AnnotationsRun ==
  ASSUME NEW n \in Int, 0 <= n, NEW E, "end" \in E
  PROVE  /\ AllRun(operation_atom, n, E) /\ AllRun(operation_op, n, E)
         /\ 1 <= n => AllRun(parser_ffi, n, E)
<1>1. Runs(Adv, n, E) /\ \A tokens : Runs(Must(tokens), n, E)
  BY PlainRuns, WantRuns
<1>2. AllRun(operation_atom, n, E)
  BY <1>1 DEF operation_atom, AllRun, IsSeq
<1>3. AllRun(operation_op, n, E)
  BY <1>1, RunFour DEF operation_op
<1>4. 1 <= n => Runs(Call("parser_extern"), n, E)
  BY CallsRun DEF CostOne
<1>5. 1 <= n => AllRun(parser_ffi, n, E)
  BY <1>1, <1>4, RunFour DEF parser_ffi
<1> QED BY <1>2, <1>3, <1>5

LEMMA OperationRun ==
  ASSUME NEW n \in Int, 0 <= n, NEW E
  PROVE  AllRun(parser_operation, n, E)
<1> DEFINE m == n + 3
<1>0. m \in Int /\ 3 <= m /\ m <= n + 3
  OBVIOUS
<1> HIDE DEF m
<1> USE <1>0
<1> DEFINE arms == <<On({"operation"}, <<Adv, Call("operation_op")>>),
                     On({"atom"}, <<Adv, Call("operation_atom")>>),
                     On({"ffi"}, <<Adv, Call("parser_ffi")>>),
                     On(Names, <<Err, Adv>>)>>
<1>1. ASSUME NEW t, t # EOFs, NEW p, Runs(Call(p), m, E)
      PROVE  GoodArm(On({t}, <<Adv, Call(p)>>), n, E)
  <2>1. AllRun(<<Adv, Call(p)>>, m, E) /\ Eats(<<Adv, Call(p)>>)
    BY <1>1, PlainRuns, RunTwo, EatsTuple
  <2>2. EOFs \notin {t}
    BY <1>1
  <2> QED BY <2>1, <2>2, EatingArm
<1>2. Runs(Call("operation_op"), m, E) /\ Runs(Call("operation_atom"), m, E)
  BY CallsRun DEF CostOne
<1>3. Runs(Call("parser_ffi"), m, E)
  BY CallsRun DEF CostTwo
<1>4. /\ GoodArm(On({"operation"}, <<Adv, Call("operation_op")>>), n, E)
      /\ GoodArm(On({"atom"}, <<Adv, Call("operation_atom")>>), n, E)
      /\ GoodArm(On({"ffi"}, <<Adv, Call("parser_ffi")>>), n, E)
  BY <1>1, <1>2, <1>3 DEF EOFs
<1>5. GoodArm(On(Names, <<Err, Adv>>), n, E)
  BY PlainRuns, RunTwo, PlainArm
<1>6. ArmsRun(arms, n, E)
  BY <1>4, <1>5 DEF ArmsRun, IsSeq
<1> HIDE DEF arms
<1>7. AllRun(<<Err>>, n, E)
  BY PlainRuns, RunOne
<1>8. AllRun(<<Adv, Switch(arms, <<Err>>)>>, n, E)
  BY <1>6, <1>7, SwitchRuns, PlainRuns, RunTwo
<1> QED BY <1>8 DEF parser_operation, arms

(* Imports.                                                                *)
LEMMA ImportsRun ==
  ASSUME NEW n \in Int, NEW E
  PROVE  AllRun(parser_import, n, E) /\ AllRun(parser_from_import, n, E)
<1>1. Runs(Adv, n, E) /\ AllRun(<<Adv>>, n, E) /\ AllRun(<<Err>>, n, E) /\ AllRun(<< >>, n, E)
  BY PlainRuns, RunOne, EmptyRun
<1>2. \A tokens : Runs(Want(tokens), n, E)
  BY WantRuns
<1>3. \A tokens : Runs(When(tokens, << >>, <<Err>>), n, E)
  BY <1>1, PlainArm, WhenRuns
<1>4. ASSUME NEW isAtomic PROVE Runs(ImportPath(isAtomic), n, E)
  <2>1. AllRun(<<NoteImport(isAtomic), Adv>>, n, E)
    BY PlainRuns, RunTwo
  <2>2. Runs(When(Texts, <<NoteImport(isAtomic), Adv>>, <<Err>>), n, E)
    BY <1>1, <2>1, PlainArm, WhenRuns
  <2>3. AllRun(<<Adv, When(Texts, <<NoteImport(isAtomic), Adv>>, <<Err>>)>>, n, E)
    BY <1>1, <2>2, RunTwo
  <2> QED BY <1>1, <2>3, PlainArm, WhenRuns DEF ImportPath
<1> DEFINE all == <<Adv, When({"Froms"}, << >>, <<Err>>), Adv, Want(Texts)>>
           arms == <<On({"Stars"}, all), On(Texts, <<Adv>>),
                     On({"Atomic"}, <<Adv, ImportPath(TRUE)>>)>>
<1>5. AllRun(all, n, E)
  BY <1>1, <1>2, <1>3, RunFour
<1> HIDE DEF all
<1>6. AllRun(<<Adv, ImportPath(TRUE)>>, n, E)
  BY <1>1, <1>4, RunTwo
<1>7. ArmsRun(arms, n, E)
  BY <1>1, <1>5, <1>6, PlainArm DEF ArmsRun, IsSeq
<1> HIDE DEF arms
<1>8. AllRun(<<Want(Names), ImportPath(FALSE)>>, n, E)
  BY <1>2, <1>4, RunTwo
<1>9. AllRun(<<Adv, Switch(arms, <<Want(Names), ImportPath(FALSE)>>)>>, n, E)
  BY <1>1, <1>7, <1>8, SwitchRuns, RunTwo
<1>10. AllRun(parser_import, n, E)
  BY <1>9 DEF parser_import, arms, all
<1>11. AllRun(parser_from_import, n, E)
  BY <1>1, <1>2, <1>3, RunFive DEF parser_from_import
<1> QED BY <1>10, <1>11

LEMMA ArmsBoth ==
  ASSUME NEW n, NEW E, NEW s, NEW t, ArmsRun(s, n, E), ArmsRun(t, n, E)
  PROVE  ArmsRun(s \o t, n, E)
<1>1. IsSeq(s) /\ IsSeq(t)
  BY DEF ArmsRun
<1> DEFINE u == s \o t
<1>2. Joined(s, t, u)
  BY <1>1, ConcatSeq
<1> HIDE DEF u
<1>4. IsSeq(u) /\ DOMAIN u = 1..(Len(s) + Len(t)) /\ Len(s) \in Nat /\ Len(t) \in Nat
      /\ DOMAIN s = 1..Len(s) /\ DOMAIN t = 1..Len(t)
  BY <1>1, <1>2, SeqFacts DEF Joined
<1>5. ASSUME NEW k \in DOMAIN u PROVE GoodArm(u[k], n, E)
  <2>1. CASE k <= Len(s)
    <3>1. k \in DOMAIN s /\ u[k] = s[k]
      BY <1>2, <1>4, <2>1 DEF Joined
    <3> QED BY <3>1 DEF ArmsRun
  <2>2. CASE ~(k <= Len(s))
    <3> DEFINE l == k - Len(s)
    <3>1. l \in DOMAIN t /\ k = Len(s) + l
      BY <1>4, <2>2
    <3> HIDE DEF l
    <3>2. u[k] = t[l]
      BY <1>2, <3>1 DEF Joined
    <3> QED BY <3>1, <3>2 DEF ArmsRun
  <2> QED BY <2>1, <2>2
<1>6. ArmsRun(u, n, E)
  BY <1>4, <1>5 DEF ArmsRun
<1> QED BY <1>6 DEF u

(* Statements.                                                             *)
LEMMA ReturnRun ==
  ASSUME NEW n \in Int, 4 <= n, NEW E
  PROVE  AllRun(parser_return, n, E)
<1>1. AllRun(<<Call("parser_expr")>>, n, E)
  BY CallsRun, RunOne
<1>2. Runs(When({"Ends", "Semicolons", EOFs}, << >>, <<Call("parser_expr")>>), n, E)
  BY <1>1, EmptyRun, PlainArm, WhenRuns
<1> QED BY <1>2, PlainRuns, RunTwo DEF parser_return

LEMMA LoopsRun ==
  ASSUME NEW n \in Int, 4 <= n, NEW E
  PROVE  AllRun(parser_while, n, E) /\ AllRun(parser_for, n, E)
<1>1. Runs(Adv, n, E) /\ \A tokens : Runs(Want(tokens), n, E)
  BY PlainRuns, WantRuns
<1>2. Runs(Call("parser_expr"), n, E)
  BY CallsRun
<1>3. \A ends : Runs(Block(ends), n, E)
  BY BlocksRun
<1>4. Runs(CloseBlock, n, E)
  BY ExpectRuns
<1>5. AllRun(parser_while, n, E)
  BY <1>1, <1>2, <1>3, <1>4, RunFive DEF parser_while
<1>6. AllRun(parser_for, n, E)
  BY <1>1, <1>2, <1>3, <1>4, RunSeven DEF parser_for
<1> QED BY <1>5, <1>6

LEMMA MatchRun ==
  ASSUME NEW n \in Int, 4 <= n, NEW E
  PROVE  AllRun(parser_match, n, E)
<1> DEFINE body == <<Adv, Call("parser_expr"), Want({"Dos"}), Block({"Cases", "Ends"})>>
           cases == While({"Cases"}, body)
<1>1. ASSUME NEW B PROVE AllRun(body, n, B)
  <2>1. Runs(Adv, n, B) /\ Runs(Want({"Dos"}), n, B)
    BY PlainRuns, WantRuns
  <2>2. Runs(Call("parser_expr"), n, B)
    BY CallsRun
  <2>3. Runs(Block({"Cases", "Ends"}), n, B)
    BY BlocksRun
  <2> QED BY <2>1, <2>2, <2>3, RunFour
<1> HIDE DEF body
<1>2. Runs(cases, n, E)
  BY <1>1, LoopRuns
<1> HIDE DEF cases
<1>3. Runs(Adv, n, E) /\ Runs(Want({"Colons"}), n, E)
  BY PlainRuns, WantRuns
<1>4. Runs(Call("parser_expr"), n, E)
  BY CallsRun
<1>5. Runs(CloseBlock, n, E)
  BY ExpectRuns
<1>6. AllRun(<<Adv, Call("parser_expr"), Want({"Colons"}), cases, CloseBlock>>, n, E)
  BY <1>2, <1>3, <1>4, <1>5, RunFive
<1> QED BY <1>6 DEF parser_match, cases, body

LEMMA IfRun ==
  ASSUME NEW n \in Int, 4 <= n, NEW E
  PROVE  AllRun(parser_if, n, E) /\ AllRun(parser_elif, n, E)
<1> DEFINE arms == <<On({"Elifs"}, <<Call("parser_elif")>>),
                     On({"Elses"}, <<Call("parser_else")>>)>>
           next == Switch(arms, << >>)
<1>1. ArmsRun(arms, n, E)
  BY PaidArms DEF ArmsRun, IsSeq
<1> HIDE DEF arms
<1>2. Runs(next, n, E)
  BY <1>1, EmptyRun, SwitchRuns
<1> HIDE DEF next
<1>3. Runs(Adv, n, E) /\ Runs(Want({"Thens"}), n, E)
  BY PlainRuns, WantRuns
<1>4. Runs(Call("parser_expr"), n, E)
  BY CallsRun
<1>5. Runs(Block({"Ends", "Elifs", "Elses"}), n, E)
  BY BlocksRun
<1>6. AllRun(<<Adv, Call("parser_expr"), Want({"Thens"}), Block({"Ends", "Elifs", "Elses"}),
               next>>, n, E)
  BY <1>2, <1>3, <1>4, <1>5, RunFive
<1>7. AllRun(Branches, n, E)
  BY <1>6 DEF Branches, next, arms
<1>8. AllRun(<<Opt({"Ends"})>>, n, E)
  BY WantRuns, RunOne
<1> QED BY <1>7, <1>8, RunBoth DEF parser_if, parser_elif

LEMMA ElseRun ==
  ASSUME NEW n \in Int, 3 <= n, NEW E
  PROVE  AllRun(parser_else, n, E)
<1>1. Runs(Adv, n, E) /\ Runs(Opt({"Thens"}), n, E)
  BY PlainRuns, WantRuns
<1>2. Runs(Block({"Ends"}), n, E)
  BY BlocksRun
<1> QED BY <1>1, <1>2, RunThree DEF parser_else

LEMMA SelfRun ==
  ASSUME NEW n \in Int, 1 <= n, NEW E, "end" \in E
  PROVE  AllRun(parser_self, n, E)
<1> DEFINE m == n + 3
<1>0. m \in Int /\ 4 <= m /\ m <= n + 3
  OBVIOUS
<1> HIDE DEF m
<1> USE <1>0
<1> DEFINE arms == <<On(Assigns, <<Adv, Call("parser_expr")>>),
                     On({"LeftParens"}, <<Adv>> \o PlainArgs)>>
           next == Switch(arms, << >>)
<1>1. Runs(Call("parser_expr"), m, E)
  BY CallsRun
<1>2. AllRun(<<Adv, Call("parser_expr")>>, m, E) /\ Eats(<<Adv, Call("parser_expr")>>)
  BY <1>1, PlainRuns, RunTwo, EatsTuple
<1>3. GoodArm(On(Assigns, <<Adv, Call("parser_expr")>>), n, E)
  BY <1>2, EatingArm, NotTheEnd
<1>4. AllRun(<<Adv>> \o PlainArgs, m, E) /\ Eats(<<Adv>> \o PlainArgs)
  BY ArgsRun, ThenRun
<1>5. GoodArm(On({"LeftParens"}, <<Adv>> \o PlainArgs), n, E)
  BY <1>4, EatingArm DEF EOFs
<1>6. ArmsRun(arms, n, E)
  BY <1>3, <1>5 DEF ArmsRun, IsSeq
<1> HIDE DEF arms
<1>7. Runs(next, n, E)
  BY <1>6, EmptyRun, SwitchRuns
<1> HIDE DEF next
<1>8. Runs(Adv, n, E) /\ Runs(Must({"Dots"}), n, E) /\ Runs(Must(Names), n, E)
  BY PlainRuns, WantRuns
<1>9. AllRun(<<Adv, Must({"Dots"}), Must(Names), next>>, n, E)
  BY <1>7, <1>8, RunFour
<1> QED BY <1>9 DEF parser_self, next, arms

LEMMA AtomicOpRun ==
  ASSUME NEW n \in Int, 4 <= n, NEW E, "end" \in E
  PROVE  AllRun(parser_atomic_op, n, E)
<1> DEFINE load == <<Adv, Must({"LeftParens"}), parser_ordering>>
           store == <<Adv, Must({"LeftParens"}), Call("parser_expr"), Comma, parser_ordering>>
           exchange == <<Adv, Must({"LeftParens"}), Call("parser_expr"), Comma,
                         Call("parser_expr"), Comma, parser_ordering, Comma, parser_ordering>>
           arms == <<On({"Load"}, load), On({"Store"}, store)>>
<1>1. /\ Runs(Adv, n, E) /\ Runs(Must({"LeftParens"}), n, E)
      /\ Runs(Comma, n, E) /\ Runs(parser_ordering, n, E)
  BY PlainRuns, WantRuns
<1>2. Runs(Call("parser_expr"), n, E)
  BY CallsRun
<1>3. AllRun(load, n, E) /\ AllRun(store, n, E)
  BY <1>1, <1>2, RunThree, RunFive
<1>4. AllRun(exchange, n, E)
  BY <1>1, <1>2 DEF AllRun, IsSeq
<1> HIDE DEF load, store, exchange
<1>5. ArmsRun(arms, n, E)
  BY <1>3, PlainArm DEF ArmsRun, IsSeq
<1> HIDE DEF arms
<1>6. Runs(Switch(arms, exchange), n, E)
  BY <1>4, <1>5, SwitchRuns
<1>7. Runs(Want({"RightParens"}), n, E)
  BY WantRuns
<1> QED BY <1>6, <1>7, RunTwo DEF parser_atomic_op, arms, load, store, exchange

LEMMA NameStatementRun ==
  ASSUME NEW n \in Int, 5 <= n, NEW E
  PROVE  AllRun(NameStatement, n, E) /\ Eats(NameStatement)
<1> DEFINE element == <<Adv, Call("parser_expr"), CloseBracket, Assignment>>
           call == When({"LeftParens"}, <<Adv>> \o NamedArgs, << >>)
           member == When(Words, <<Call("parser_atomic_op")>>, <<GenericArgs, call>>)
           arms == <<On({"Dots"}, MemberStatement),
                     On({"LeftParens"}, <<Call("parser_function_call")>>),
                     On({"LeftBrackets"}, element)>>
           next == Switch(arms, <<Assignment>>)
<1>1. Runs(Adv, n, E) /\ Runs(Opt(Names), n, E) /\ Runs(CloseBracket, n, E)
  BY PlainRuns, WantRuns, ExpectRuns
<1>2. Runs(Call("parser_expr"), n, E)
  BY CallsRun
<1>3. Runs(Assignment, n, E)
  <2>1. AllRun(<<Adv, Call("parser_expr")>>, n, E)
    BY <1>1, <1>2, RunTwo
  <2> QED BY <2>1, EmptyRun, PlainArm, WhenRuns DEF Assignment
<1>4. AllRun(element, n, E)
  BY <1>1, <1>2, <1>3, RunFour
<1>5. Runs(call, n, E)
  BY ArgsRun, ThenRun, EmptyRun, PlainArm, WhenRuns
<1> HIDE DEF call, element
<1>6. Runs(member, n, E)
  <2>1. AllRun(<<Call("parser_atomic_op")>>, n, E)
    BY CallsRun, RunOne DEF CostFive
  <2>2. AllRun(<<GenericArgs, call>>, n, E)
    BY <1>5, NamesRun, RunTwo
  <2> QED BY <2>1, <2>2, PlainArm, WhenRuns
<1> HIDE DEF member
<1>7. AllRun(<<Adv, Opt(Names), member>>, n, E)
  BY <1>1, <1>6, RunThree
<1>8. AllRun(MemberStatement, n, E)
  BY <1>7 DEF MemberStatement, member, call
<1>9. GoodArm(On({"LeftParens"}, <<Call("parser_function_call")>>), n, E)
  BY PaidArms
<1>10. ArmsRun(arms, n, E)
  BY <1>4, <1>8, <1>9, PlainArm DEF ArmsRun, IsSeq
<1>11. AllRun(<<Assignment>>, n, E)
  BY <1>3, RunOne
<1> HIDE DEF arms
<1>12. Runs(next, n, E)
  BY <1>10, <1>11, SwitchRuns
<1> HIDE DEF next
<1>13. AllRun(<<Adv, next>>, n, E) /\ Eats(<<Adv, next>>)
  BY <1>1, <1>12, RunTwo, EatsTuple
<1> QED BY <1>13 DEF NameStatement, next, arms, element

(* The declarations that may follow an unsafe, a public or nothing.        *)
LEMMA TypedRun ==
  ASSUME NEW n \in Int, 2 <= n, NEW E
  PROVE  ArmsRun(Typed, n, E) /\ ArmsRun(Top, n, E)
<1>1. /\ GoodArm(On({"Functions"}, <<Call("parser_functions")>>), n, E)
      /\ GoodArm(On({"Classes"}, <<Call("parser_class")>>), n, E)
      /\ GoodArm(On({"Modules"}, <<Call("parser_module")>>), n, E)
  BY PaidArms
<1>2. Runs(Call("parser_structer"), n, E) /\ Runs(Call("parser_enums"), n, E)
  BY CallsRun DEF CostOne
<1>3. Runs(Call("parser_traits"), n, E)
  BY CallsRun DEF CostTwo
<1>4. /\ GoodArm(On({"Structs"}, <<Call("parser_structer")>>), n, E)
      /\ GoodArm(On({"Enums"}, <<Call("parser_enums")>>), n, E)
      /\ GoodArm(On({"Traits"}, <<Call("parser_traits")>>), n, E)
  BY <1>2, <1>3, RunOne, PlainArm
<1> DEFINE more == <<On({"Classes"}, <<Call("parser_class")>>),
                     On({"Modules"}, <<Call("parser_module")>>)>>
<1>5. ArmsRun(Typed, n, E)
  BY <1>1, <1>4 DEF Typed, ArmsRun, IsSeq
<1>6. ArmsRun(more, n, E)
  BY <1>1 DEF ArmsRun, IsSeq
<1> HIDE DEF more
<1>7. ArmsRun(Typed \o more, n, E)
  BY <1>5, <1>6, ArmsBoth
<1> QED BY <1>5, <1>7 DEF Top, more

(* The declarations that follow public, unsafe and const.                  *)
LEMMA ModifiersRun ==
  ASSUME NEW n \in Int, 5 <= n, NEW E
  PROVE  /\ AllRun(PublicStatement, n, E) /\ Eats(PublicStatement)
         /\ AllRun(UnsafeStatement, n, E) /\ Eats(UnsafeStatement)
         /\ AllRun(ConstStatement, n, E) /\ Eats(ConstStatement)
<1> DEFINE lost == <<Err>> \o parser_sync
           typed == Switch(Typed, lost)
           top == Switch(Top, lost)
           public == When({"Unsafes"}, <<Adv, typed>>, <<top>>)
           arms == <<On({"Functions"}, <<Call("parser_functions")>>),
                     On({"Locals"}, <<Call("parser_globle")>>),
                     On(Names, <<Call("parser_const")>>)>>
           const == Switch(arms, lost)
<1>1. AllRun(lost, n, E)
  BY SyncRun
<1> HIDE DEF lost
<1>2. Runs(typed, n, E)
  BY <1>1, TypedRun, SwitchRuns
<1>3. Runs(top, n, E)
  BY <1>1, TypedRun, SwitchRuns
<1>4. Runs(Adv, n, E)
  BY PlainRuns
<1> HIDE DEF typed, top
<1>5. AllRun(<<Adv, typed>>, n, E) /\ AllRun(<<top>>, n, E) /\ Eats(<<Adv, typed>>)
  BY <1>2, <1>3, <1>4, RunOne, RunTwo, EatsTuple
<1>6. Runs(public, n, E)
  BY <1>5, PlainArm, WhenRuns
<1>7. GoodArm(On({"Functions"}, <<Call("parser_functions")>>), n, E)
  BY PaidArms
<1>8. Runs(Call("parser_globle"), n, E) /\ Runs(Call("parser_const"), n, E)
  BY CallsRun DEF CostTwo
<1>9. /\ GoodArm(On({"Locals"}, <<Call("parser_globle")>>), n, E)
      /\ GoodArm(On(Names, <<Call("parser_const")>>), n, E)
  BY <1>8, RunOne, PlainArm
<1>10. ArmsRun(arms, n, E)
  BY <1>7, <1>9 DEF ArmsRun, IsSeq
<1> HIDE DEF arms
<1>11. Runs(const, n, E)
  BY <1>1, <1>10, SwitchRuns
<1> HIDE DEF public, const
<1>12. /\ AllRun(<<Adv, public>>, n, E) /\ Eats(<<Adv, public>>)
       /\ AllRun(<<Adv, const>>, n, E) /\ Eats(<<Adv, const>>)
  BY <1>4, <1>6, <1>11, RunTwo, EatsTuple
<1>13. AllRun(PublicStatement, n, E) /\ Eats(PublicStatement)
  BY <1>12 DEF PublicStatement, public, typed, top, lost
<1>14. AllRun(UnsafeStatement, n, E) /\ Eats(UnsafeStatement)
  BY <1>5 DEF UnsafeStatement, typed, lost
<1>15. AllRun(ConstStatement, n, E) /\ Eats(ConstStatement)
  BY <1>12 DEF ConstStatement, const, arms, lost
<1> QED BY <1>13, <1>14, <1>15

LEMMA ArmsFifteen ==
  ASSUME NEW n, NEW E, NEW a, NEW b, NEW c, NEW d, NEW e, NEW f, NEW g, NEW h, NEW i, NEW j,
         NEW k, NEW l, NEW m, NEW o, NEW p,
         GoodArm(a, n, E), GoodArm(b, n, E), GoodArm(c, n, E), GoodArm(d, n, E),
         GoodArm(e, n, E), GoodArm(f, n, E), GoodArm(g, n, E), GoodArm(h, n, E),
         GoodArm(i, n, E), GoodArm(j, n, E), GoodArm(k, n, E), GoodArm(l, n, E),
         GoodArm(m, n, E), GoodArm(o, n, E), GoodArm(p, n, E)
  PROVE  ArmsRun(<<a, b, c, d, e, f, g, h, i, j, k, l, m, o, p>>, n, E)
BY DEF ArmsRun, IsSeq

LEMMA StmtRun ==
  ASSUME NEW n \in Int, 2 <= n, NEW E
  PROVE  AllRun(parser_stmt, n, E)
<1> DEFINE m == n + 3
<1>0. m \in Int /\ 5 <= m /\ m <= n + 3
  OBVIOUS
<1> HIDE DEF m
<1> USE <1>0
<1> DEFINE first == <<On({"Publics"}, PublicStatement),
                      On({"Unsafes"}, UnsafeStatement),
                      On({"Consts"}, ConstStatement)>>
           last == <<On({"Imports"}, <<Call("parser_import")>>),
               On({"Froms"}, <<Call("parser_from_import")>>),
               On({"Ifs"}, <<Call("parser_if")>>),
               On({"Returns"}, <<Call("parser_return")>>),
               On({"Locals"}, <<Call("parser_globle")>>),
               On({"Vars"}, <<Call("parser_vars")>>),
               On({"Lets"}, <<Call("parser_lets")>>),
               On({"Matchs"}, <<Call("parser_match")>>),
               On({"Fors"}, <<Call("parser_for")>>),
               On({"Ats"}, <<Call("parser_operation")>>),
               On({"Selfs"}, <<Call("parser_self")>>),
               On({"Whiles"}, <<Call("parser_while")>>),
               On({"Externs"}, <<Call("parser_extern")>>),
               On(Names, NameStatement),
               On({EOFs}, <<Err>>)>>
           lost == <<Err>> \o parser_sync
<1>1. /\ GoodArm(On({"Publics"}, PublicStatement), n, E)
      /\ GoodArm(On({"Unsafes"}, UnsafeStatement), n, E)
      /\ GoodArm(On({"Consts"}, ConstStatement), n, E)
  BY ModifiersRun, EatingArm DEF EOFs
<1>2. ArmsRun(first, n, E)
  BY <1>1 DEF ArmsRun, IsSeq
<1>3. /\ Runs(Call("parser_import"), n, E) /\ Runs(Call("parser_from_import"), n, E)
      /\ Runs(Call("parser_operation"), n, E) /\ Runs(Call("parser_extern"), n, E)
  BY CallsRun DEF CostOne
<1>4. /\ Runs(Call("parser_globle"), n, E) /\ Runs(Call("parser_vars"), n, E)
      /\ Runs(Call("parser_lets"), n, E) /\ Runs(Call("parser_self"), n, E)
  BY CallsRun DEF CostTwo
<1>5. /\ GoodArm(On({"Imports"}, <<Call("parser_import")>>), n, E)
      /\ GoodArm(On({"Froms"}, <<Call("parser_from_import")>>), n, E)
      /\ GoodArm(On({"Ats"}, <<Call("parser_operation")>>), n, E)
      /\ GoodArm(On({"Externs"}, <<Call("parser_extern")>>), n, E)
  BY <1>3, RunOne, PlainArm
<1>6. /\ GoodArm(On({"Locals"}, <<Call("parser_globle")>>), n, E)
      /\ GoodArm(On({"Vars"}, <<Call("parser_vars")>>), n, E)
      /\ GoodArm(On({"Lets"}, <<Call("parser_lets")>>), n, E)
      /\ GoodArm(On({"Selfs"}, <<Call("parser_self")>>), n, E)
  BY <1>4, RunOne, PlainArm
<1>7. /\ GoodArm(On({"Ifs"}, <<Call("parser_if")>>), n, E)
      /\ GoodArm(On({"Returns"}, <<Call("parser_return")>>), n, E)
      /\ GoodArm(On({"Matchs"}, <<Call("parser_match")>>), n, E)
      /\ GoodArm(On({"Fors"}, <<Call("parser_for")>>), n, E)
      /\ GoodArm(On({"Whiles"}, <<Call("parser_while")>>), n, E)
  BY PaidArms
<1>8. GoodArm(On(Names, NameStatement), n, E)
  BY NameStatementRun, EatingArm, NotTheEnd
<1>9. GoodArm(On({EOFs}, <<Err>>), n, E)
  BY PlainRuns, RunOne, PlainArm
<1>10. ArmsRun(last, n, E)
  BY <1>5, <1>6, <1>7, <1>8, <1>9, ArmsFifteen
<1>11. AllRun(lost, n, E)
  BY SyncRun
<1> HIDE DEF first, last, lost
<1> DEFINE arms == first \o Top \o last
<1>12. ArmsRun(arms, n, E)
  BY <1>2, <1>10, TypedRun, ArmsBoth
<1> HIDE DEF arms
<1>13. AllRun(<<Switch(arms, lost)>>, n, E)
  BY <1>11, <1>12, SwitchRuns, RunOne
<1> QED BY <1>13 DEF parser_stmt, arms, first, last, lost

LEMMA ParseFileRun ==
  ASSUME NEW n \in Int, 3 <= n, NEW E
  PROVE  AllRun(ParseFile, n, E)
<1>1. \A B : AllRun(<<Forced(<<Call("parser_stmt")>>)>>, n, B)
  BY CallsRun, RunOne, MarkRuns
<1> QED BY <1>1, LoopRuns, RunOne DEF ParseFile

(* Every procedure runs with its price.                                    *)
LEMMA UnpaidRun ==
  ASSUME NEW p \in Unpaid, NEW n \in Int, Cost(p) - 1 <= n, NEW E, "end" \in E
  PROVE  AllRun(Body[p], n, E)
<1>1. CASE p \in CostOne
  <2>1. 0 <= n
    BY <1>1 DEF Cost, CostOne, CostTwo, CostThree, CostFour, CostFive
  <2>2. /\ AllRun(parser_type_base, n, E) /\ AllRun(operation_op, n, E)
        /\ AllRun(operation_atom, n, E)
    BY <2>1, TypeBaseRun, AnnotationsRun
  <2>3. /\ AllRun(parser_extern, n, E) /\ AllRun(parser_operation, n, E)
        /\ AllRun(parser_import, n, E) /\ AllRun(parser_from_import, n, E)
    BY <2>1, ExternRun, OperationRun, ImportsRun
  <2>4. AllRun(parser_structer, n, E) /\ AllRun(parser_enums, n, E)
    BY <2>1, StructerRun, EnumsRun
  <2> QED BY <1>1, <2>2, <2>3, <2>4 DEF CostOne, Body
<1>2. CASE p \in CostTwo
  <2>1. 1 <= n
    BY <1>2 DEF Cost, CostOne, CostTwo, CostThree, CostFour, CostFive
  <2>2. AllRun(parser_expr_primary, n, E) /\ AllRun(parser_type, n, E)
    BY <2>1, ExprPrimaryRun, TypeRun
  <2>3. /\ AllRun(parser_const, n, E) /\ AllRun(parser_vars, n, E)
        /\ AllRun(parser_lets, n, E) /\ AllRun(parser_globle, n, E)
    BY <2>1, VariablesRun
  <2>4. AllRun(parser_ffi, n, E)
    BY <2>1, AnnotationsRun
  <2>5. AllRun(parser_traits, n, E) /\ AllRun(parser_self, n, E)
    BY <2>1, TraitsRun, SelfRun
  <2> QED BY <1>2, <2>2, <2>3, <2>4, <2>5 DEF CostTwo, Body
<1>3. CASE p \in CostThree
  <2>1. 2 <= n
    BY <1>3 DEF Cost, CostOne, CostTwo, CostThree, CostFour, CostFive
  <2> QED BY <1>3, <2>1, StmtRun DEF CostThree, Body
<1>4. CASE p \in CostFour
  <2>1. 3 <= n
    BY <1>4 DEF Cost, CostOne, CostTwo, CostThree, CostFour, CostFive
  <2> QED BY <1>4, <2>1, ExprRun DEF CostFour, Body
<1>5. CASE p \in CostFive
  <2>1. 4 <= n
    BY <1>5 DEF Cost, CostOne, CostTwo, CostThree, CostFour, CostFive
  <2> QED BY <1>5, <2>1, IndexRun, AtomicOpRun DEF CostFive, Body
<1> QED BY <1>1, <1>2, <1>3, <1>4, <1>5 DEF Unpaid

LEMMA PaidRun ==
  ASSUME NEW p \in Paid, NEW n \in Int, Over(p) + 3 <= n, NEW E, "end" \in E
  PROVE  AllRun(Body[p], n, E)
<1>1. CASE p \in PaidNone
  <2>1. 3 <= n
    BY <1>1 DEF Over
  <2>2. AllRun(parser_builtin_function, n, E) /\ AllRun(parser_else, n, E)
    BY <2>1, BuiltinRun, ElseRun
  <2>3. /\ AllRun(parser_functions, n, E) /\ AllRun(parser_trait_functions, n, E)
        /\ AllRun(parser_module, n, E)
    BY <2>1, FunctionsRun
  <2>4. AllRun(parser_class, n, E)
    BY <2>1, ClassRun
  <2> QED BY <1>1, <2>2, <2>3, <2>4 DEF PaidNone, Body
<1>2. CASE p \in PaidOne
  <2>1. 4 <= n
    BY <1>2 DEF Over, PaidNone, PaidOne
  <2>2. AllRun(parser_literal, n, E) /\ AllRun(parser_return, n, E)
    BY <2>1, LiteralRun, ReturnRun
  <2>3. AllRun(parser_function_call, n, E) /\ AllRun(parser_method_calls, n, E)
    BY <2>1, CallRun
  <2>4. /\ AllRun(parser_match, n, E) /\ AllRun(parser_while, n, E)
        /\ AllRun(parser_for, n, E)
    BY <2>1, MatchRun, LoopsRun
  <2>5. AllRun(parser_if, n, E) /\ AllRun(parser_elif, n, E)
    BY <2>1, IfRun
  <2> QED BY <1>2, <2>2, <2>3, <2>4, <2>5 DEF PaidOne, Body
<1> QED BY <1>1, <1>2 DEF Paid

-------------------------------------------------------------------------------
(* The stack                                                               *)

(* The calls open in s from its k-th instruction on, and what a break, a   *)
(* continue or a return at the k-th instruction can leave.                 *)
Ends(s, k) == {j \in DOMAIN s : k <= j /\ s[j].op = "end"}
Below(s, k) == Cardinality(Ends(s, k))
Open(s) == Below(s, 0)
Escapes(s, k) == {x \in {"loop", "end"} : \E j \in DOMAIN s : k < j /\ s[j].op = x}

(* Every instruction runs with the calls that are left above it.           *)
Fits(s, room) ==
  IsSeq(s) /\ \A k \in DOMAIN s : \/ s[k].op = "end"
                                  \/ Runs(s[k], room - Below(s, k), Escapes(s, k))

(* s is u without its first d instructions.                                *)
Dropped(u, d, s) ==
  /\ IsSeq(s) /\ IsSeq(u) /\ Len(u) = Len(s) + d
  /\ \A k \in DOMAIN s : u[k + d] = s[k]

LEMMA EndsFinite ==
  ASSUME NEW s, IsSeq(s), NEW k \in Int
  PROVE  IsFiniteSet(Ends(s, k)) /\ Below(s, k) \in Nat
<1>1. DOMAIN s = 1..Len(s) /\ Len(s) \in Nat
  BY SeqFacts
<1>2. IsFiniteSet(1..Len(s))
  BY <1>1, FS_Interval
<1>3. Ends(s, k) \subseteq 1..Len(s)
  BY <1>1 DEF Ends
<1> QED BY <1>2, <1>3, FS_Subset, FS_CardinalityType DEF Below

LEMMA EndsWithin ==
  ASSUME NEW s, IsSeq(s), NEW k \in Int, NEW m \in Int, k <= m
  PROVE  Below(s, m) <= Below(s, k)
<1>1. Ends(s, m) \subseteq Ends(s, k)
  BY SeqFacts DEF Ends
<1> QED BY <1>1, EndsFinite, FS_Subset DEF Below

LEMMA DroppedEnds ==
  ASSUME NEW u, NEW d \in Nat, NEW s, Dropped(u, d, s), NEW k \in Nat, k >= 1
  PROVE  Below(u, k + d) = Below(s, k)
<1>1. /\ IsSeq(s) /\ DOMAIN s = 1..Len(s) /\ Len(s) \in Nat
      /\ IsSeq(u) /\ DOMAIN u = 1..(Len(s) + d)
      /\ \A j \in DOMAIN s : u[j + d] = s[j]
  BY SeqFacts DEF Dropped
<1> DEFINE S == Ends(s, k)
           T == Ends(u, k + d)
           f == [j \in S |-> j + d]
<1>2. ASSUME NEW j \in S PROVE j \in Nat /\ j + d \in T
  <2>1. j \in DOMAIN s /\ k <= j /\ s[j].op = "end"
    BY DEF Ends
  <2>2. j \in Nat /\ j + d \in DOMAIN u /\ k + d <= j + d
    BY <1>1, <2>1
  <2>3. u[j + d].op = "end"
    BY <1>1, <2>1
  <2> QED BY <2>2, <2>3 DEF Ends
<1>3. ASSUME NEW i \in T PROVE \E j \in S : i = j + d
  <2>1. i \in DOMAIN u /\ k + d <= i /\ u[i].op = "end"
    BY DEF Ends
  <2> DEFINE j == i - d
  <2>2. j \in DOMAIN s /\ k <= j /\ i = j + d
    BY <1>1, <2>1
  <2> HIDE DEF j
  <2>3. s[j].op = "end"
    BY <1>1, <2>1, <2>2
  <2>4. j \in S
    BY <2>2, <2>3 DEF Ends
  <2> QED BY <2>2, <2>4
<1> HIDE DEF S, T
<1>4. f \in [S -> T] /\ \A j \in S : f[j] = j + d
  BY <1>2
<1>5. \A j, l \in S : f[j] = f[l] => j = l
  BY <1>2, <1>4
<1>6. \A i \in T : \E j \in S : f[j] = i
  BY <1>3, <1>4
<1> HIDE DEF f
<1>7. f \in Bijection(S, T)
  BY <1>4, <1>5, <1>6 DEF Bijection, Injection, IsInjective, Surjection
<1>8. IsFiniteSet(S)
  BY <1>1, EndsFinite DEF S
<1>9. Cardinality(T) = Cardinality(S)
  BY <1>7, <1>8, FS_Bijection DEF ExistsBijection
<1> QED BY <1>9 DEF S, T, Below

LEMMA DroppedEscapes ==
  ASSUME NEW u, NEW d \in Nat, NEW s, Dropped(u, d, s), NEW k \in Nat
  PROVE  Escapes(u, k + d) = Escapes(s, k)
<1>1. /\ DOMAIN s = 1..Len(s) /\ Len(s) \in Nat /\ DOMAIN u = 1..(Len(s) + d)
      /\ \A j \in DOMAIN s : u[j + d] = s[j]
  BY SeqFacts DEF Dropped
<1>2. ASSUME NEW x, NEW j \in DOMAIN s, k < j, s[j].op = x
      PROVE  \E i \in DOMAIN u : k + d < i /\ u[i].op = x
  <2> DEFINE i == j + d
  <2>1. i \in DOMAIN u /\ k + d < i
    BY <1>1, <1>2
  <2>2. u[i] = s[j]
    BY <1>1
  <2> HIDE DEF i
  <2> QED BY <1>2, <2>1, <2>2
<1>3. ASSUME NEW x, NEW i \in DOMAIN u, k + d < i, u[i].op = x
      PROVE  \E j \in DOMAIN s : k < j /\ s[j].op = x
  <2> DEFINE j == i - d
  <2>1. j \in DOMAIN s /\ k < j /\ i = j + d
    BY <1>1, <1>3
  <2> HIDE DEF j
  <2>2. u[i] = s[j]
    BY <1>1, <2>1
  <2> QED BY <1>3, <2>1, <2>2
<1> QED BY <1>2, <1>3 DEF Escapes

LEMMA OpenIsFirst ==
  ASSUME NEW s, IsSeq(s)
  PROVE  Open(s) = Below(s, 1) /\ Open(s) \in Nat
<1>1. Ends(s, 0) = Ends(s, 1)
  BY SeqFacts DEF Ends
<1> QED BY <1>1, EndsFinite DEF Open, Below

(* What is left of a stack that fits, fits.                                *)
LEMMA DroppedFits ==
  ASSUME NEW u, NEW d \in Nat, NEW s, Dropped(u, d, s), NEW room \in Int, Fits(u, room)
  PROVE  Fits(s, room) /\ Open(s) <= Open(u)
<1>1. /\ IsSeq(s) /\ IsSeq(u) /\ DOMAIN s = 1..Len(s) /\ Len(s) \in Nat
      /\ DOMAIN u = 1..(Len(s) + d) /\ \A j \in DOMAIN s : u[j + d] = s[j]
  BY SeqFacts DEF Dropped
<1>2. ASSUME NEW k \in DOMAIN s
      PROVE  s[k].op = "end" \/ Runs(s[k], room - Below(s, k), Escapes(s, k))
  <2>1. k \in Nat /\ k >= 1 /\ k + d \in DOMAIN u
    BY <1>1
  <2>2. Below(u, k + d) = Below(s, k) /\ Escapes(u, k + d) = Escapes(s, k)
    BY <2>1, DroppedEnds, DroppedEscapes
  <2>3. u[k + d].op = "end" \/ Runs(u[k + d], room - Below(u, k + d), Escapes(u, k + d))
    BY <2>1 DEF Fits
  <2> QED BY <1>1, <2>2, <2>3
<1>3. Fits(s, room)
  BY <1>1, <1>2 DEF Fits
<1>4. Below(u, 1 + d) = Below(s, 1)
  BY DroppedEnds
<1>5. Below(u, 1 + d) <= Below(u, 1)
  BY <1>1, EndsWithin
<1> QED BY <1>1, <1>3, <1>4, <1>5, OpenIsFirst

LEMMA MoreRoom ==
  ASSUME NEW s, NEW r \in Int, NEW q \in Int, r <= q, Fits(s, r)
  PROVE  Fits(s, q)
<1>1. IsSeq(s)
  BY DEF Fits
<1>2. ASSUME NEW k \in DOMAIN s, Runs(s[k], r - Below(s, k), Escapes(s, k))
      PROVE  Runs(s[k], q - Below(s, k), Escapes(s, k))
  <2>1. k \in Int
    BY <1>1, SeqFacts
  <2>2. Below(s, k) \in Nat
    BY <1>1, <2>1, EndsFinite
  <2> DEFINE a == r - Below(s, k)
             b == q - Below(s, k)
  <2>3. a \in Int /\ b \in Int /\ a <= b
    BY <2>2
  <2>4. Runs(s[k], a, Escapes(s, k))
    BY <1>2
  <2> HIDE DEF a, b
  <2>5. Runs(s[k], b, Escapes(s, k))
    BY <2>3, <2>4, RunsMore
  <2> QED BY <2>5 DEF b
<1> QED BY <1>1, <1>2 DEF Fits

(* Code that runs with the calls that are left, pushed on a stack that fits. *)
LEMMA RunsKinds ==
  ASSUME NEW i, NEW n, NEW E, Runs(i, n, E)
  PROVE  i.op \in Kinds /\ i.op # "end"
<1>1. PICK F : Knows(F) /\ In(F, i, n, E)
  BY DEF Runs
<1>2. PICK a \in Int, B \in SUBSET E : <<i, a, B>> \in F
  BY <1>1 DEF In
<1>3. Unfold(F, i, a, B)
  BY <1>1, <1>2 DEF Knows
<1>4. i.op \in Kinds
  BY <1>3 DEF Unfold
<1> QED BY <1>4 DEF Kinds

LEMMA JoinedFits ==
  ASSUME NEW rest, NEW room \in Int, Fits(rest, room), NEW code,
         AllRun(code, room - Open(rest), Escapes(rest, 0)), NEW u, Joined(code, rest, u)
  PROVE  Fits(u, room) /\ Open(u) = Open(rest)
<1> DEFINE d == Len(code)
<1>1. /\ IsSeq(code) /\ IsSeq(rest) /\ IsSeq(u) /\ d \in Nat /\ Len(rest) \in Nat
      /\ DOMAIN code = 1..d /\ DOMAIN rest = 1..Len(rest) /\ DOMAIN u = 1..(d + Len(rest))
      /\ Len(u) = d + Len(rest)
      /\ \A k \in DOMAIN code : u[k] = code[k]
      /\ \A k \in DOMAIN rest : u[d + k] = rest[k]
  BY SeqFacts DEF AllRun, Fits, Joined
<1> HIDE DEF d
<1>2. Dropped(u, d, rest)
  <2>1. \A k \in DOMAIN rest : k + d = d + k
    BY <1>1
  <2>2. Len(u) = Len(rest) + d
    BY <1>1
  <2> QED BY <1>1, <2>1, <2>2 DEF Dropped
<1>3. \A k \in DOMAIN code : u[k].op # "end"
  BY <1>1, RunsKinds DEF AllRun
<1>4. ASSUME NEW k \in 0..(d + 1) PROVE Below(u, k) = Open(rest)
  <2>1. Ends(u, k) = Ends(u, 1 + d)
    BY <1>1, <1>3 DEF Ends
  <2>2. Below(u, 1 + d) = Below(rest, 1)
    BY <1>1, <1>2, DroppedEnds
  <2> QED BY <1>1, <2>1, <2>2, OpenIsFirst DEF Below
<1>5. ASSUME NEW k \in DOMAIN code
      PROVE  Runs(u[k], room - Below(u, k), Escapes(u, k))
  <2>0. d \in Nat /\ 0 \in Nat
    BY <1>1
  <2>1. Escapes(rest, 0) = Escapes(u, 0 + d)
    BY <1>2, <2>0, DroppedEscapes
  <2>2. Escapes(rest, 0) \subseteq Escapes(u, k)
    <3>1. \A j \in DOMAIN u : 0 + d < j => k < j
      BY <1>1
    <3> QED BY <2>1, <3>1 DEF Escapes
  <2>3. Below(u, k) = Open(rest)
    BY <1>1, <1>4
  <2> DEFINE n == room - Open(rest)
  <2>4. n \in Int
    BY <1>1, OpenIsFirst
  <2>5. Runs(code[k], n, Escapes(rest, 0))
    BY DEF AllRun
  <2> HIDE DEF n
  <2>6. Runs(code[k], n, Escapes(u, k))
    BY <2>2, <2>4, <2>5, RunsMore
  <2> QED BY <1>1, <2>3, <2>6 DEF n
<1>6. ASSUME NEW k \in DOMAIN u, k \notin DOMAIN code
      PROVE  u[k].op = "end" \/ Runs(u[k], room - Below(u, k), Escapes(u, k))
  <2> DEFINE l == k - d
  <2>1. l \in DOMAIN rest /\ l \in Nat /\ l >= 1 /\ k = l + d /\ k = d + l
    BY <1>1, <1>6
  <2> HIDE DEF l
  <2>2. Below(u, k) = Below(rest, l) /\ Escapes(u, k) = Escapes(rest, l)
    BY <1>1, <1>2, <2>1, DroppedEnds, DroppedEscapes
  <2>3. rest[l].op = "end" \/ Runs(rest[l], room - Below(rest, l), Escapes(rest, l))
    BY <2>1 DEF Fits
  <2>4. u[k] = rest[l]
    BY <1>1, <2>1
  <2> QED BY <2>2, <2>3, <2>4
<1>7. Fits(u, room)
  BY <1>1, <1>5, <1>6 DEF Fits
<1>8. Below(u, 0) = Open(rest)
  BY <1>1, <1>4
<1> QED BY <1>7, <1>8 DEF Open

LEMMA PushFits ==
  ASSUME NEW rest, NEW room \in Int, Fits(rest, room), NEW code,
         AllRun(code, room - Open(rest), Escapes(rest, 0))
  PROVE  Fits(code \o rest, room) /\ Open(code \o rest) = Open(rest)
<1>1. Joined(code, rest, code \o rest)
  BY ConcatSeq DEF AllRun, Fits
<1> QED BY <1>1, JoinedFits

(* A call: the body of the procedure, its end, and what is left to do.     *)
LEMMA EndFits ==
  ASSUME NEW rest, NEW room \in Int, Fits(rest, room), NEW p
  PROVE  /\ Fits(End(p) \o rest, room) /\ Open(End(p) \o rest) = Open(rest) + 1
         /\ Escapes(End(p) \o rest, 0) = {"end"} \cup Escapes(rest, 0)
<1> DEFINE e == End(p)
           u == e \o rest
<1>1. IsSeq(e) /\ Len(e) = 1 /\ DOMAIN e = {1} /\ e[1].op = "end"
  BY DEF End, IsSeq
<1> HIDE DEF e
<1>2. Joined(e, rest, u)
  BY <1>1, ConcatSeq DEF Fits
<1> HIDE DEF u
<1>3. /\ IsSeq(rest) /\ IsSeq(u) /\ Len(rest) \in Nat /\ DOMAIN rest = 1..Len(rest)
      /\ DOMAIN u = 1..(1 + Len(rest)) /\ Len(u) = 1 + Len(rest)
      /\ u[1] = e[1] /\ \A k \in DOMAIN rest : u[1 + k] = rest[k]
  BY <1>1, <1>2, SeqFacts DEF Fits, Joined
<1>4. Dropped(u, 1, rest)
  <2>1. \A k \in DOMAIN rest : k + 1 = 1 + k
    BY <1>3
  <2> QED BY <1>3, <2>1 DEF Dropped
<1>5. Open(u) = Open(rest) + 1
  <2>1. Ends(u, 0) = Ends(u, 2) \cup {1} /\ 1 \notin Ends(u, 2)
    BY <1>1, <1>3 DEF Ends
  <2>2. IsFiniteSet(Ends(u, 2))
    BY <1>3, EndsFinite
  <2>3. Cardinality(Ends(u, 0)) = Cardinality(Ends(u, 2)) + 1
    BY <2>1, <2>2, FS_AddElement
  <2>4. Below(u, 1 + 1) = Below(rest, 1)
    BY <1>4, DroppedEnds
  <2>5. Below(u, 2) = Below(rest, 1)
    BY <2>4
  <2> QED BY <1>3, <2>3, <2>5, OpenIsFirst DEF Open, Below
<1>6. Escapes(u, 1) = Escapes(rest, 0)
  <2>1. Escapes(u, 0 + 1) = Escapes(rest, 0)
    BY <1>4, DroppedEscapes
  <2> QED BY <2>1
<1>7. Escapes(u, 0) = {"end"} \cup Escapes(u, 1)
  <2>1. \A j \in DOMAIN u : 0 < j <=> j = 1 \/ 1 < j
    BY <1>3
  <2>2. 1 \in DOMAIN u /\ u[1].op = "end"
    BY <1>1, <1>3
  <2> QED BY <2>1, <2>2 DEF Escapes
<1>8. ASSUME NEW k \in DOMAIN u
      PROVE  u[k].op = "end" \/ Runs(u[k], room - Below(u, k), Escapes(u, k))
  <2>1. CASE k = 1
    BY <1>1, <1>3, <2>1
  <2>2. CASE k # 1
    <3> DEFINE l == k - 1
    <3>1. l \in DOMAIN rest /\ l \in Nat /\ l >= 1 /\ k = l + 1 /\ k = 1 + l
      BY <1>3, <2>2
    <3> HIDE DEF l
    <3>2. Below(u, k) = Below(rest, l) /\ Escapes(u, k) = Escapes(rest, l)
      BY <1>4, <3>1, DroppedEnds, DroppedEscapes
    <3>3. rest[l].op = "end" \/ Runs(rest[l], room - Below(rest, l), Escapes(rest, l))
      BY <3>1 DEF Fits
    <3>4. u[k] = rest[l]
      BY <1>3, <3>1
    <3> QED BY <3>2, <3>3, <3>4
  <2> QED BY <2>1, <2>2
<1>9. Fits(u, room)
  BY <1>3, <1>8 DEF Fits
<1> QED BY <1>5, <1>6, <1>7, <1>9 DEF u, e

LEMMA ConcatThree ==
  ASSUME NEW s, IsSeq(s), NEW t, IsSeq(t), NEW u, IsSeq(u)
  PROVE  s \o t \o u = s \o (t \o u)
<1> DEFINE A == {s[k] : k \in DOMAIN s} \cup {t[k] : k \in DOMAIN t} \cup {u[k] : k \in DOMAIN u}
<1>1. s \in Seq(A) /\ t \in Seq(A) /\ u \in Seq(A)
  BY DEF IsSeq
<1> HIDE DEF A
<1> QED BY <1>1, ConcatAssociative

LEMMA CallFits ==
  ASSUME NEW rest, NEW room \in Int, Fits(rest, room), NEW p, NEW code, NEW n \in Int,
         n <= room - Open(rest) - 1, AllRun(code, n, {"end"})
  PROVE  /\ Fits(code \o End(p) \o rest, room)
         /\ Open(code \o End(p) \o rest) = Open(rest) + 1
<1> DEFINE u == End(p) \o rest
<1>1. /\ Fits(u, room) /\ Open(u) = Open(rest) + 1 /\ {"end"} \subseteq Escapes(u, 0)
  BY EndFits
<1>2. IsSeq(End(p)) /\ IsSeq(rest) /\ IsSeq(code)
  BY DEF End, IsSeq, Fits, AllRun
<1>3. code \o End(p) \o rest = code \o u
  BY <1>2, ConcatThree
<1> HIDE DEF u
<1> DEFINE m == room - Open(u)
<1>4. m \in Int /\ n <= m
  BY <1>1, <1>2, OpenIsFirst
<1> HIDE DEF m
<1>5. AllRun(code, m, Escapes(u, 0))
  BY <1>1, <1>4, AllRunMore
<1>6. Fits(code \o u, room) /\ Open(code \o u) = Open(u)
  BY <1>1, <1>5, PushFits DEF m
<1> QED BY <1>1, <1>3, <1>6

(* The head of a stack that fits runs with the calls that are left.        *)
LEMMA TailDropped ==
  ASSUME NEW s, IsSeq(s), s # << >>
  PROVE  /\ Dropped(s, 1, Tail(s)) /\ Head(s) = s[1] /\ 1 \in DOMAIN s /\ IsSeq(Tail(s))
         /\ DOMAIN s = 1..(Len(Tail(s)) + 1) /\ Len(Tail(s)) \in Nat
<1>1. /\ IsSeq(Tail(s)) /\ Len(Tail(s)) = Len(s) - 1
      /\ \A k \in 1..(Len(s) - 1) : Tail(s)[k] = s[k + 1]
  BY TailSeq
<1>2. Len(s) \in Nat /\ DOMAIN s = 1..Len(s) /\ 1 \in DOMAIN s
  BY SeqFacts
<1>3. Len(Tail(s)) \in Nat /\ DOMAIN Tail(s) = 1..Len(Tail(s))
  BY <1>1, SeqFacts
<1> DEFINE t == Tail(s)
<1> HIDE DEF t
<1>4. Len(s) = Len(t) + 1 /\ \A k \in DOMAIN t : s[k + 1] = t[k]
  BY <1>1, <1>2, <1>3 DEF t
<1>5. Dropped(s, 1, t)
  BY <1>1, <1>4 DEF Dropped, t
<1>6. Head(s) = s[1]
  BY DEF IsSeq
<1> QED BY <1>1, <1>2, <1>3, <1>4, <1>5, <1>6 DEF t

LEMMA TailFits ==
  ASSUME NEW s, s # << >>, NEW room \in Int, Fits(s, room)
  PROVE  Fits(Tail(s), room) /\ Open(Tail(s)) <= Open(s)
<1>1. IsSeq(s)
  BY DEF Fits
<1>2. Dropped(s, 1, Tail(s))
  BY <1>1, TailDropped
<1> QED BY <1>2, DroppedFits

LEMMA HeadRuns ==
  ASSUME NEW s, s # << >>, NEW room \in Int, Fits(s, room), Head(s).op # "end"
  PROVE  /\ Runs(Head(s), room - Open(Tail(s)), Escapes(Tail(s), 0))
         /\ Open(Tail(s)) = Open(s)
         /\ Head(s).op = "loop" => Escapes(s, 0) = Escapes(Tail(s), 0) \cup {"loop"}
<1>1. IsSeq(s)
  BY DEF Fits
<1>2. /\ Dropped(s, 1, Tail(s)) /\ Head(s) = s[1] /\ 1 \in DOMAIN s /\ IsSeq(Tail(s))
      /\ DOMAIN s = 1..(Len(Tail(s)) + 1) /\ Len(Tail(s)) \in Nat
  BY <1>1, TailDropped
<1>3. Below(s, 1 + 1) = Below(Tail(s), 1) /\ Escapes(s, 0 + 1) = Escapes(Tail(s), 0)
  <2> DEFINE r == Tail(s)
  <2>1. Dropped(s, 1, r)
    BY <1>2
  <2>2. 1 \in Nat /\ 0 \in Nat /\ 1 >= 1
    OBVIOUS
  <2> HIDE DEF r
  <2>3. Below(s, 1 + 1) = Below(r, 1)
    BY <2>1, <2>2, DroppedEnds
  <2>4. Escapes(s, 0 + 1) = Escapes(r, 0)
    BY <2>1, <2>2, DroppedEscapes
  <2> QED BY <2>3, <2>4 DEF r
<1>4. Ends(s, 1) = Ends(s, 1 + 1)
  BY <1>2 DEF Ends
<1>5. Below(s, 1) = Open(Tail(s)) /\ Open(s) = Open(Tail(s))
  BY <1>1, <1>2, <1>3, <1>4, OpenIsFirst DEF Below
<1>6. Escapes(s, 1) = Escapes(Tail(s), 0)
  <2>1. 0 + 1 = 1
    OBVIOUS
  <2> QED BY <1>3, <2>1
<1>7. Runs(s[1], room - Below(s, 1), Escapes(s, 1))
  BY <1>2 DEF Fits
<1>8. Head(s).op = "loop" => Escapes(s, 0) = Escapes(s, 1) \cup {"loop"}
  <2>1. \A j \in DOMAIN s : 0 < j <=> j = 1 \/ 1 < j
    BY <1>2
  <2> QED BY <1>2, <2>1 DEF Escapes
<1> QED BY <1>2, <1>5, <1>6, <1>7, <1>8

(* ------------------------------- The phases ---------------------------- *)

Bracketed == When({"LeftBrackets"}, NameList(Numbers, << >>), << >>)

(* The next thing done to the current token t is to consume it.            *)
Eating(s, t) ==
  \/ Eats(s)
  \/ t = "LeftParens" /\ Len(s) > 0 /\ s[1] = parser_expect("LeftParens")
  \/ t = "LeftParens" /\ Len(s) > 1 /\ s[1] = Bracketed /\ s[2] = parser_expect("LeftParens")

(* What is left to do may already count on the three calls that consuming  *)
(* the current token will allow.                                           *)
Pending(s, t, room) == t # EOFs /\ Fits(s, room + 3) /\ Eating(s, t)

(* A procedure is about to be called at the token it begins by consuming.  *)
Called(s, t, room) ==
  /\ s # << >> /\ Fits(Tail(s), room)
  /\ \E p \in Paid : /\ Head(s) = Call(p) /\ t \in Starts(p)
                     /\ Open(Tail(s)) + Over(p) + 1 <= room

Sound(s, t, room) ==
  /\ IsSeq(s) /\ Open(s) <= room
  /\ Fits(s, room) \/ Pending(s, t, room) \/ Called(s, t, room)

LEMMA FitsSound ==
  ASSUME NEW s, NEW t, NEW room, Fits(s, room), Open(s) <= room
  PROVE  Sound(s, t, room)
BY DEF Sound, Fits

LEMMA CalledHead ==
  ASSUME NEW s, NEW t, NEW room, Called(s, t, room)
  PROVE  Head(s).op = "call"
BY DEF Called, Call

LEMMA PendingHead ==
  ASSUME NEW s, IsSeq(s), s # << >>, NEW t, NEW room, Pending(s, t, room)
  PROVE  Head(s).op \in {"advance", "leaf", "switch"}
<1>1. Head(s) = s[1]
  BY TailDropped
<1>2. CASE Eats(s)
  BY <1>1, <1>2 DEF Eats, Adv, Leaf
<1>3. CASE ~Eats(s)
  <2>1. s[1] = parser_expect("LeftParens") \/ s[1] = Bracketed
    BY <1>3 DEF Pending, Eating
  <2>2. parser_expect("LeftParens").op = "switch" /\ Bracketed.op = "switch"
    BY DEF parser_expect, Bracketed, When, Switch
  <2> QED BY <1>1, <2>1, <2>2
<1> QED BY <1>2, <1>3

(* Instructions that no phase but the first can be at.                     *)
LEMMA CalmHead ==
  ASSUME NEW s, NEW t, NEW room, Sound(s, t, room), s # << >>,
         Head(s).op \notin {"advance", "leaf", "switch", "call"}
  PROVE  Fits(s, room)
BY CalledHead, PendingHead DEF Sound

LEMMA NextSound ==
  ASSUME NEW s, s # << >>, NEW t, NEW room \in Int, Fits(s, room), Open(s) <= room
  PROVE  Sound(Tail(s), t, room)
<1>1. Fits(Tail(s), room) /\ Open(Tail(s)) <= Open(s)
  BY TailFits
<1>2. Open(Tail(s)) \in Nat /\ Open(s) \in Nat
  BY <1>1, OpenIsFirst DEF Fits
<1> QED BY <1>1, <1>2, FitsSound

LEMMA RunSound ==
  ASSUME NEW rest, NEW room \in Int, Fits(rest, room), Open(rest) <= room, NEW t,
         NEW code, AllRun(code, room - Open(rest), Escapes(rest, 0))
  PROVE  Sound(code \o rest, t, room)
BY PushFits, FitsSound

(* More room, once the current token is consumed.                          *)
LEMMA RoomSound ==
  ASSUME NEW s, NEW t, NEW room \in Int, NEW more \in Int, room <= more,
         Fits(s, room), Open(s) <= room
  PROVE  Sound(s, t, more)
<1>1. Fits(s, more)
  BY MoreRoom
<1>2. Open(s) <= more
  BY OpenIsFirst DEF Fits
<1> QED BY <1>1, <1>2, FitsSound

LEMMA EatsBoth ==
  ASSUME NEW s, IsSeq(s), NEW r, IsSeq(r), NEW t
  PROVE  /\ Eats(s) => Eats(s \o r)
         /\ Eating(s, t) => Eating(s \o r, t)
<1> DEFINE u == s \o r
<1>1. Joined(s, r, u)
  BY ConcatSeq
<1> HIDE DEF u
<1>2. Len(u) = Len(s) + Len(r) /\ Len(s) \in Nat /\ Len(r) \in Nat
  BY <1>1, SeqFacts DEF Joined
<1>3. \A k \in 1..Len(s) : u[k] = s[k]
  BY <1>1, SeqFacts DEF Joined
<1>4. Len(s) > 0 => Len(u) > 0 /\ u[1] = s[1]
  BY <1>2, <1>3
<1>5. Len(s) > 1 => Len(u) > 1 /\ u[2] = s[2]
  BY <1>2, <1>3
<1>6. Len(s) > 1 => Len(s) > 0
  BY <1>2
<1>7. Eats(s) => Eats(u)
  BY <1>4, <1>5, <1>6 DEF Eats
<1>8. Eating(s, t) => Eating(u, t)
  BY <1>4, <1>5, <1>6, <1>7 DEF Eating
<1> QED BY <1>7, <1>8 DEF u

(* A procedure that is only called at its token begins by consuming it.    *)
LEMMA PaidEating ==
  ASSUME NEW p \in Paid, NEW t \in Starts(p)
  PROVE  Eating(Body[p], t) /\ t # EOFs
<1>1. /\ Eats(parser_builtin_function) /\ Eats(parser_module) /\ Eats(parser_else)
      /\ Eats(parser_literal) /\ Eats(parser_method_calls) /\ Eats(parser_return)
  BY DEF Eats, parser_builtin_function, parser_module, parser_else, parser_literal,
         parser_method_calls, parser_return
<1>2. /\ Eats(parser_class) /\ Eats(parser_match) /\ Eats(parser_while) /\ Eats(parser_for)
      /\ Eats(parser_elif)
  BY DEF Eats, parser_class, parser_match, parser_while, parser_for, parser_elif, Branches
<1>3. Eats(parser_if)
  <2>1. IsSeq(Branches) /\ IsSeq(<<Opt({"Ends"})>>) /\ Eats(Branches)
    BY DEF IsSeq, Branches, Eats
  <2> QED BY <2>1, EatsBoth DEF parser_if
<1>4. Eats(parser_trait_functions) /\ Eats(parser_functions)
  <2> DEFINE first == <<Adv, Want(Names), GenericParams, Want({"LeftParens"})>>
             last == <<When({"Colons"}, <<Adv, Call("parser_type")>>, << >>)>>
             body == <<ForcedBlock, CloseBlock>>
  <2>1. IsSeq(first) /\ IsSeq(last) /\ IsSeq(body) /\ Eats(first)
    BY DEF IsSeq, Eats
  <2> HIDE DEF first, last, body
  <2>2. AllRun(MethodParams, 2, {})
    BY ParamsRun
  <2>3. IsSeq(MethodParams)
    BY <2>2 DEF AllRun
  <2>4. IsSeq(first \o MethodParams) /\ Eats(first \o MethodParams)
    BY <2>1, <2>3, ConcatSeq, EatsBoth DEF Joined
  <2>5. IsSeq(first \o MethodParams \o last) /\ Eats(first \o MethodParams \o last)
    BY <2>1, <2>4, ConcatSeq, EatsBoth DEF Joined
  <2>6. Eats(first \o MethodParams \o last \o body)
    BY <2>1, <2>5, EatsBoth
  <2> QED BY <2>5, <2>6 DEF parser_trait_functions, parser_functions, Signature, first, last, body
<1>5. Eating(parser_function_call, "LeftParens")
  <2> DEFINE first == <<Bracketed, parser_expect("LeftParens")>>
  <2>1. IsSeq(first) /\ Eating(first, "LeftParens")
    BY DEF IsSeq, Eating
  <2>2. AllRun(NamedArgs, 4, {})
    BY ArgsRun
  <2>3. IsSeq(NamedArgs)
    BY <2>2 DEF AllRun
  <2> HIDE DEF first
  <2>4. Eating(first \o NamedArgs, "LeftParens")
    BY <2>1, <2>3, EatsBoth
  <2> QED BY <2>4 DEF parser_function_call, first, Bracketed
<1>6. CASE p = "parser_function_call"
  BY <1>5, <1>6 DEF Starts, Body, EOFs
<1>7. CASE p # "parser_function_call"
  <2>1. Eats(Body[p])
    <3>1. p \in PaidNone => Eats(Body[p])
      BY <1>1, <1>2, <1>4 DEF PaidNone, Body
    <3>2. p \in PaidOne => Eats(Body[p])
      BY <1>1, <1>2, <1>3, <1>7 DEF PaidOne, Body
    <3> QED BY <3>1, <3>2 DEF Paid
  <2>2. t # EOFs
    BY <1>7 DEF Starts, Paid, PaidNone, PaidOne, EOFs
  <2> QED BY <2>1, <2>2 DEF Eating
<1> QED BY <1>6, <1>7

LEMMA PushOne ==
  ASSUME NEW a, NEW rest, IsSeq(rest)
  PROVE  /\ IsSeq(<<a>> \o rest) /\ <<a>> \o rest # << >>
         /\ Head(<<a>> \o rest) = a /\ Tail(<<a>> \o rest) = rest
<1> DEFINE u == <<a>> \o rest
           A == {a} \cup {rest[k] : k \in DOMAIN rest}
<1>1. a \in A /\ rest \in Seq(A)
  BY DEF IsSeq
<1> HIDE DEF A
<1>2. u \in Seq(A) /\ u # << >> /\ Head(u) = a /\ Tail(u) = rest
  BY <1>1
<1> QED BY <1>2, SeqIsSeq

LEMMA EndlessOpen ==
  ASSUME NEW rest, IsSeq(rest), NEW code, IsSeq(code),
         \A k \in DOMAIN code : code[k].op # "end"
  PROVE  Open(code \o rest) = Open(rest)
<1> DEFINE d == Len(code)
           u == code \o rest
<1>0. Joined(code, rest, u)
  BY ConcatSeq
<1> HIDE DEF u
<1>1. /\ IsSeq(u) /\ d \in Nat /\ Len(rest) \in Nat
      /\ DOMAIN code = 1..d /\ DOMAIN rest = 1..Len(rest) /\ DOMAIN u = 1..(d + Len(rest))
      /\ Len(u) = d + Len(rest)
      /\ \A k \in DOMAIN code : u[k] = code[k]
      /\ \A k \in DOMAIN rest : u[d + k] = rest[k]
  BY <1>0, SeqFacts DEF Joined
<1> HIDE DEF d
<1>2. Dropped(u, d, rest)
  <2>1. \A k \in DOMAIN rest : k + d = d + k
    BY <1>1
  <2>2. Len(u) = Len(rest) + d
    BY <1>1
  <2> QED BY <1>1, <2>1, <2>2 DEF Dropped
<1>3. Ends(u, 0) = Ends(u, 1 + d)
  BY <1>1 DEF Ends
<1>4. Below(u, 1 + d) = Below(rest, 1)
  BY <1>1, <1>2, DroppedEnds
<1>5. Open(u) = Open(rest)
  BY <1>3, <1>4, OpenIsFirst DEF Open, Below
<1> QED BY <1>5 DEF u

(* ------------------------ What an instruction asks --------------------- *)

LEMMA SwitchParts ==
  ASSUME NEW i, i.op = "switch", NEW n \in Int, NEW E, Runs(i, n, E)
  PROVE  ArmsRun(i.of, n, E) /\ AllRun(i.else, n, E)
<1>1. PICK F : Knows(F) /\ Unfold(F, i, n, E)
  BY RunsUnfold
<1>2. /\ IsSeq(i.of) /\ \A k \in DOMAIN i.of : ArmIn(F, i.of[k][1], i.of[k][2], n, E)
      /\ AllIn(F, i.else, n, E)
  BY <1>1 DEF Unfold
<1>3. AllRun(i.else, n, E)
  BY <1>1, <1>2, KnownRun
<1>4. ASSUME NEW tokens, NEW code, ArmIn(F, tokens, code, n, E)
      PROVE  ArmRun(tokens, code, n, E)
  BY <1>1, <1>4, KnownRun DEF ArmIn, ArmRun
<1> QED BY <1>2, <1>3, <1>4 DEF ArmsRun, GoodArm

LEMMA OtherParts ==
  ASSUME NEW i, NEW n \in Int, NEW E, Runs(i, n, E)
  PROVE  /\ i.op = "loop" => AllRun(i.do, n, E \cup {"loop"})
         /\ i.op = "mark" => AllRun(i.do, n, E)
         /\ i.op \in {"peek", "atomic"} => AllRun(i.then, n, E)
         /\ i.op = "atomic" => AllRun(i.else, n, E)
         /\ i.op \in {"break", "continue"} => "loop" \in E
         /\ i.op = "return" => "end" \in E
         /\ i.op = "call" => i.of \in Unpaid /\ Cost(i.of) <= n
         /\ i.op = "call_bp" => 3 <= n
         /\ i.op = "climb" => 0 <= n
<1>1. PICK F : Knows(F) /\ Unfold(F, i, n, E)
  BY RunsUnfold
<1>2. \A code, B : AllIn(F, code, n, B) => AllRun(code, n, B)
  BY <1>1, KnownRun
<1>3. i.op = "loop" => AllRun(i.do, n, E \cup {"loop"})
  BY <1>1, <1>2 DEF Unfold
<1>4. i.op = "mark" => AllRun(i.do, n, E)
  BY <1>1, <1>2 DEF Unfold
<1>5. i.op \in {"peek", "atomic"} => AllRun(i.then, n, E)
  BY <1>1, <1>2 DEF Unfold
<1>6. i.op = "atomic" => AllRun(i.else, n, E)
  BY <1>1, <1>2 DEF Unfold
<1>7. /\ i.op \in {"break", "continue"} => "loop" \in E
      /\ i.op = "return" => "end" \in E
      /\ i.op = "call" => i.of \in Unpaid /\ Cost(i.of) <= n
      /\ i.op = "call_bp" => 3 <= n
      /\ i.op = "climb" => 0 <= n
  BY <1>1 DEF Unfold
<1> QED BY <1>3, <1>4, <1>5, <1>6, <1>7

(* The arm a switch takes.                                                 *)
LEMMA ArmTaken ==
  ASSUME NEW arms, IsSeq(arms), NEW default
  PROVE  \/ Arm(arms, default) = default
         \/ \E k \in DOMAIN arms : /\ tok \in arms[k][1]
                                   /\ Arm(arms, default) = arms[k][2]
<1> DEFINE hits == {k \in DOMAIN arms : tok \in arms[k][1]}
<1>1. CASE hits = {}
  BY <1>1 DEF Arm
<1>2. CASE hits # {}
  <2>1. hits \in SUBSET Nat
    BY SeqFacts
  <2> DEFINE k == CHOOSE k \in hits : \A j \in hits : k <= j
  <2>2. Arm(arms, default) = arms[k][2]
    BY <1>2 DEF Arm
  <2>3. \E m \in hits : \A j \in hits : m <= j
    <3> HIDE DEF hits
    <3> QED BY <1>2, <2>1, NatMin
  <2>4. k \in hits
    <3> HIDE DEF hits
    <3> QED BY <2>3
  <2> HIDE DEF k
  <2> QED BY <2>2, <2>4
<1> QED BY <1>1, <1>2

-------------------------------------------------------------------------------
(* The invariant                                                           *)

Room == 3 * (pos + 1)

(* What is left to do needs no more calls than the tokens read allow.      *)
StackInv == pos \in Nat /\ Sound(todo, tok, Room)

LEMMA RoomInt ==
  ASSUME pos \in Nat
  PROVE  Room \in Int /\ Room + 3 \in Int /\ Room <= Room + 3 /\ Room >= 3
BY DEF Room

LEMMA SoundStack ==
  ASSUME StackInv
  PROVE  /\ pos \in Nat /\ Room \in Int /\ IsSeq(todo) /\ Open(todo) <= Room /\ Open(todo) \in Nat
         /\ Fits(todo, Room) \/ Pending(todo, tok, Room) \/ Called(todo, tok, Room)
BY RoomInt, OpenIsFirst DEF StackInv, Sound

(* A step that consumes nothing.                                           *)
LEMMA SameSound ==
  ASSUME StackInv, NEW program, todo' = program, tok' = tok, pos' = pos,
         Sound(program, tok, Room)
  PROVE  StackInv'
<1>1. Room' = Room
  BY DEF Room
<1>2. Sound(todo', tok', Room')
  BY <1>1
<1> QED BY <1>2 DEF StackInv

LEMMA GotoSound ==
  ASSUME StackInv, NEW program, Goto(program), Sound(program, tok, Room)
  PROVE  StackInv'
BY SameSound DEF Goto, Reading

(* The head of the stack, where the calls left are those of the tokens read. *)
LEMMA CalmParts ==
  ASSUME StackInv, todo # << >>, Fits(todo, Room), Ins.op # "end"
  PROVE  /\ Runs(Ins, Room - Open(Rest), Escapes(Rest, 0)) /\ Room - Open(Rest) \in Int
         /\ IsSeq(Rest) /\ Fits(Rest, Room) /\ Open(Rest) <= Room /\ Open(Rest) = Open(todo)
         /\ Ins.op = "loop" => Escapes(todo, 0) = Escapes(Rest, 0) \cup {"loop"}
<1>1. Room \in Int /\ Open(todo) <= Room /\ Open(todo) \in Nat
  BY SoundStack
<1>2. /\ Runs(Ins, Room - Open(Rest), Escapes(Rest, 0)) /\ Open(Rest) = Open(todo)
      /\ Ins.op = "loop" => Escapes(todo, 0) = Escapes(Rest, 0) \cup {"loop"}
  BY <1>1, HeadRuns DEF Ins, Rest
<1>3. Fits(Rest, Room)
  BY <1>1, TailFits DEF Rest
<1>4. IsSeq(Rest)
  BY <1>3 DEF Fits
<1> QED BY <1>1, <1>2, <1>3, <1>4

(* Code of the head that runs with the calls left.                         *)
LEMMA CalmPush ==
  ASSUME StackInv, todo # << >>, Fits(todo, Room), Ins.op # "end", NEW code,
         AllRun(code, Room - Open(Rest), Escapes(Rest, 0))
  PROVE  Sound(code \o Rest, tok, Room)
BY CalmParts, RunSound, RoomInt DEF StackInv

LEMMA CalmNext ==
  ASSUME StackInv, todo # << >>, Fits(todo, Room)
  PROVE  Sound(Rest, tok, Room)
<1>1. Room \in Int /\ Open(todo) <= Room
  BY SoundStack
<1> QED BY <1>1, NextSound DEF Rest

(* Instructions met only where the calls left are those of the tokens read. *)
LEMMA CalmAt ==
  ASSUME StackInv, todo # << >>, Ins.op \notin {"advance", "leaf", "switch", "call"}
  PROVE  Fits(todo, Room)
BY CalmHead DEF StackInv, Ins

LEMMA ConsumeMoves ==
  ASSUME pos \in Nat, Consume
  PROVE  /\ pos' \in Nat /\ pos <= pos' /\ Room' \in Int /\ Room <= Room'
         /\ tok # EOFs => Room' = Room + 3
<1>1. pos' = IF tok = EOFs THEN pos ELSE pos + 1
  BY DEF Consume
<1> QED BY <1>1 DEF Room

LEMMA AdvanceSound ==
  ASSUME StackInv, Advance
  PROVE  StackInv'
<1>1. /\ todo # << >> /\ Ins.op = "advance" /\ Consume /\ todo' = Rest
  BY DEF Advance, At
<1>2. /\ pos' \in Nat /\ Room' \in Int /\ Room <= Room' /\ (tok # EOFs => Room' = Room + 3)
  BY <1>1, ConsumeMoves DEF StackInv
<1>3. /\ pos \in Nat /\ Room \in Int /\ IsSeq(todo) /\ Open(todo) <= Room /\ Open(todo) \in Nat
      /\ Fits(todo, Room) \/ Pending(todo, tok, Room) \/ Called(todo, tok, Room)
  BY SoundStack
<1>4. ~Called(todo, tok, Room)
  BY <1>1, CalledHead DEF Ins
<1>5. Fits(todo, Room')
  <2>1. CASE Fits(todo, Room)
    BY <1>2, <1>3, <2>1, MoreRoom
  <2>2. CASE Pending(todo, tok, Room)
    BY <1>2, <2>2 DEF Pending
  <2> QED BY <1>3, <1>4, <2>1, <2>2
<1>6. Open(todo) <= Room'
  BY <1>2, <1>3
<1>7. Sound(Rest, tok', Room')
  BY <1>1, <1>2, <1>5, <1>6, NextSound DEF Rest
<1> QED BY <1>1, <1>2, <1>7 DEF StackInv

LEMMA ReportSound ==
  ASSUME StackInv, Report
  PROVE  StackInv'
<1>1. todo # << >> /\ Ins.op = "report" /\ todo' = Rest /\ tok' = tok /\ pos' = pos
  BY DEF Report, At, Reading
<1>2. Sound(Rest, tok, Room)
  BY <1>1, CalmAt, CalmNext
<1>3. Room' = Room
  BY <1>1 DEF Room
<1> QED BY <1>1, <1>2, <1>3 DEF StackInv

LEMMA ImportNotedSound ==
  ASSUME StackInv, ImportNoted
  PROVE  StackInv'
<1>1. todo # << >> /\ Ins.op = "import" /\ todo' = Rest /\ tok' = tok /\ pos' = pos
  BY DEF ImportNoted, At, Reading
<1>2. Sound(Rest, tok, Room)
  BY <1>1, CalmAt, CalmNext
<1>3. Room' = Room
  BY <1>1 DEF Room
<1> QED BY <1>1, <1>2, <1>3 DEF StackInv

LEMMA IterateSound ==
  ASSUME StackInv, Iterate
  PROVE  StackInv'
<1>1. todo # << >> /\ Ins.op = "loop"
  BY DEF Iterate, At
<1>2. Fits(todo, Room)
  BY <1>1, CalmAt
<1>3. CASE (tok \in Ins.of) = Ins.sense
  <2>1. Goto(Ins.do \o todo)
    BY <1>3 DEF Iterate
  <2>2. /\ Runs(Ins, Room - Open(Rest), Escapes(Rest, 0)) /\ Room - Open(Rest) \in Int
        /\ Open(Rest) = Open(todo) /\ Escapes(todo, 0) = Escapes(Rest, 0) \cup {"loop"}
    BY <1>1, <1>2, CalmParts
  <2>3. AllRun(Ins.do, Room - Open(Rest), Escapes(Rest, 0) \cup {"loop"})
    BY <1>1, <2>2, OtherParts
  <2>4. AllRun(Ins.do, Room - Open(todo), Escapes(todo, 0))
    BY <2>2, <2>3
  <2>5. Sound(Ins.do \o todo, tok, Room)
    BY <1>2, <2>4, RunSound, SoundStack
  <2> QED BY <2>1, <2>5, GotoSound
<1>4. CASE (tok \in Ins.of) # Ins.sense
  <2>1. Goto(Rest)
    BY <1>4 DEF Iterate
  <2> QED BY <1>1, <1>2, <2>1, CalmNext, GotoSound
<1> QED BY <1>3, <1>4

LEMMA MarkSound ==
  ASSUME StackInv, Mark
  PROVE  StackInv'
<1> DEFINE force == <<[op |-> "force", of |-> pos]>>
<1>1. todo # << >> /\ Ins.op = "mark" /\ Goto(Ins.do \o force \o Rest)
  BY DEF Mark, At
<1>2. Fits(todo, Room)
  BY <1>1, CalmAt
<1>3. Runs(Ins, Room - Open(Rest), Escapes(Rest, 0)) /\ Room - Open(Rest) \in Int
  BY <1>1, <1>2, CalmParts
<1>4. AllRun(Ins.do, Room - Open(Rest), Escapes(Rest, 0))
  BY <1>1, <1>3, OtherParts
<1>5. AllRun(force, Room - Open(Rest), Escapes(Rest, 0))
  BY <1>3, PlainRuns, RunOne
<1> HIDE DEF force
<1>6. AllRun(Ins.do \o force, Room - Open(Rest), Escapes(Rest, 0))
  BY <1>4, <1>5, RunBoth
<1>7. Sound(Ins.do \o force \o Rest, tok, Room)
  BY <1>1, <1>2, <1>6, CalmPush
<1> QED BY <1>1, <1>7, GotoSound

LEMMA ForceOnSound ==
  ASSUME StackInv, ForceOn
  PROVE  StackInv'
<1>1. todo # << >> /\ Ins.op = "force"
  BY DEF ForceOn, At
<1>2. Fits(todo, Room)
  BY <1>1, CalmAt
<1>3. CASE pos = Ins.of
  <2>1. Consume /\ todo' = Rest
    BY <1>3 DEF ForceOn
  <2>2. pos' \in Nat /\ Room' \in Int /\ Room <= Room'
    BY <2>1, ConsumeMoves DEF StackInv
  <2>3. Room \in Int /\ Open(todo) <= Room /\ Open(todo) \in Nat
    BY SoundStack
  <2>4. Fits(todo, Room') /\ Open(todo) <= Room'
    BY <1>2, <2>2, <2>3, MoreRoom
  <2>5. Sound(Rest, tok', Room')
    BY <1>1, <2>2, <2>4, NextSound DEF Rest
  <2> QED BY <2>1, <2>2, <2>5 DEF StackInv
<1>4. CASE pos # Ins.of
  <2>1. Goto(Rest)
    BY <1>4 DEF ForceOn
  <2> QED BY <1>1, <1>2, <2>1, CalmNext, GotoSound
<1> QED BY <1>3, <1>4

LEMMA LeavingSound ==
  ASSUME StackInv, Leaving
  PROVE  StackInv'
<1>1. todo # << >> /\ Ins.op = "end" /\ Goto(Rest)
  BY DEF Leaving, At
<1> QED BY <1>1, CalmAt, CalmNext, GotoSound

LEMMA AtomicTestSound ==
  ASSUME StackInv, AtomicTest
  PROVE  StackInv'
<1> DEFINE code == IF atomic_imported THEN Ins.then ELSE Ins.else
<1>1. todo # << >> /\ Ins.op = "atomic" /\ Goto(code \o Rest)
  BY DEF AtomicTest, At
<1>2. Fits(todo, Room)
  BY <1>1, CalmAt
<1>3. Runs(Ins, Room - Open(Rest), Escapes(Rest, 0)) /\ Room - Open(Rest) \in Int
  BY <1>1, <1>2, CalmParts
<1>4. /\ AllRun(Ins.then, Room - Open(Rest), Escapes(Rest, 0))
      /\ AllRun(Ins.else, Room - Open(Rest), Escapes(Rest, 0))
  BY <1>1, <1>3, OtherParts
<1>5. AllRun(code, Room - Open(Rest), Escapes(Rest, 0))
  BY <1>4
<1> HIDE DEF code
<1> QED BY <1>1, <1>2, <1>5, CalmPush, GotoSound

LEMMA PeekTestSound ==
  ASSUME StackInv, PeekTest
  PROVE  StackInv'
<1>1. /\ todo # << >> /\ Ins.op = "peek" /\ tok' = tok /\ pos' = pos
      /\ todo' = Ins.then \o Rest \/ todo' = Rest
  BY DEF PeekTest, At
<1>2. Fits(todo, Room)
  BY <1>1, CalmAt
<1>3. Runs(Ins, Room - Open(Rest), Escapes(Rest, 0)) /\ Room - Open(Rest) \in Int
  BY <1>1, <1>2, CalmParts
<1>4. AllRun(Ins.then, Room - Open(Rest), Escapes(Rest, 0))
  BY <1>1, <1>3, OtherParts
<1>5. Sound(Ins.then \o Rest, tok, Room) /\ Sound(Rest, tok, Room)
  BY <1>1, <1>2, <1>4, CalmPush, CalmNext
<1>6. Room' = Room
  BY <1>1 DEF Room
<1> QED BY <1>1, <1>5, <1>6 DEF StackInv

(* While the operator binds: it is consumed first, and three calls more    *)
(* are enough for its operand.                                             *)
LEMMA ClimbSound ==
  ASSUME StackInv, ClimbStep
  PROVE  StackInv'
<1>1. todo # << >> /\ Ins.op = "climb"
  BY DEF ClimbStep, At
<1>2. Fits(todo, Room)
  BY <1>1, CalmAt
<1>3. CASE tok \in Infix /\ parser_precedence(tok) >= Ins.of
  <2> DEFINE code == <<Adv, [op |-> "call_bp", of |-> parser_precedence(tok) + 1], Node(tok)>>
             n == Room - Open(Rest)
             m == (Room + 3) - Open(todo)
  <2>1. Goto(code \o todo)
    BY <1>3 DEF ClimbStep
  <2>2. Runs(Ins, n, Escapes(Rest, 0)) /\ n \in Int /\ Open(Rest) = Open(todo)
    BY <1>1, <1>2, CalmParts
  <2>3. 0 <= n
    <3> HIDE DEF n
    <3> QED BY <1>1, <2>2, OtherParts
  <2>4. Room \in Int /\ Open(todo) \in Nat /\ Open(todo) <= Room
    BY SoundStack
  <2>5. m \in Int /\ 3 <= m
    BY <2>4
  <2> HIDE DEF m
  <2>6. AllRun(code, m, Escapes(todo, 0))
    BY <2>5, PlainRuns, CallRuns, RunThree
  <2>7. Fits(todo, Room + 3) /\ Room + 3 \in Int
    BY <1>2, <2>4, MoreRoom
  <2>8. Eats(code) /\ IsSeq(code)
    BY EatsTuple DEF IsSeq
  <2> HIDE DEF code
  <2>9. Fits(code \o todo, Room + 3) /\ Open(code \o todo) = Open(todo)
    BY <2>6, <2>7, PushFits DEF m
  <2>10. Eating(code \o todo, tok)
    BY <2>7, <2>8, EatsBoth DEF Eating, Fits
  <2>11. tok # EOFs
    BY <1>3, NotTheEnd
  <2>12. Sound(code \o todo, tok, Room)
    BY <2>4, <2>9, <2>10, <2>11 DEF Sound, Pending, Fits
  <2> QED BY <2>1, <2>12, GotoSound
<1>4. CASE ~(tok \in Infix /\ parser_precedence(tok) >= Ins.of)
  <2>1. Goto(Rest)
    BY <1>4 DEF ClimbStep
  <2> QED BY <1>1, <1>2, <2>1, CalmNext, GotoSound
<1> QED BY <1>3, <1>4

(* The arm taken: it runs with the calls left, or consumes the current     *)
(* token first, or calls a procedure at the token that procedure consumes. *)
LEMMA CalmBranch ==
  ASSUME StackInv, todo # << >>, Ins.op = "switch", Fits(todo, Room)
  PROVE  Sound(Arm(Ins.of, Ins.else) \o Rest, tok, Room)
<1> DEFINE n == Room - Open(Rest)
           E == Escapes(Rest, 0)
<1>1. /\ Runs(Ins, n, E) /\ n \in Int /\ IsSeq(Rest) /\ Fits(Rest, Room) /\ Open(Rest) <= Room
      /\ Room \in Int /\ Room + 3 \in Int /\ Open(Rest) \in Nat
  BY CalmParts, SoundStack, RoomInt, OpenIsFirst
<1>2. n + 3 = (Room + 3) - Open(Rest)
  BY <1>1
<1> HIDE DEF n, E
<1>3. ArmsRun(Ins.of, n, E) /\ AllRun(Ins.else, n, E)
  BY <1>1, SwitchParts
<1> DEFINE code == Arm(Ins.of, Ins.else)
<1>4. CASE code = Ins.else
  <2>1. AllRun(code, n, E)
    BY <1>3, <1>4
  <2> HIDE DEF code
  <2> QED BY <2>1, CalmPush DEF n, E, code
<1>5. CASE \E k \in DOMAIN Ins.of : tok \in Ins.of[k][1] /\ code = Ins.of[k][2]
  <2>1. PICK k \in DOMAIN Ins.of : tok \in Ins.of[k][1] /\ code = Ins.of[k][2]
    BY <1>5
  <2> HIDE DEF code
  <2> DEFINE tokens == Ins.of[k][1]
  <2>2. ArmRun(tokens, code, n, E) /\ tok \in tokens
    BY <1>3, <2>1 DEF ArmsRun, GoodArm
  <2> HIDE DEF tokens
  <2>3. CASE AllRun(code, n, E)
    BY <2>3, CalmPush DEF n, E, code
  <2>4. CASE EOFs \notin tokens /\ Eats(code) /\ AllRun(code, n + 3, E)
    <3>1. Fits(Rest, Room + 3)
      BY <1>1, MoreRoom
    <3>2. AllRun(code, (Room + 3) - Open(Rest), Escapes(Rest, 0))
      BY <1>2, <2>4 DEF E
    <3>3. Fits(code \o Rest, Room + 3) /\ Open(code \o Rest) = Open(Rest)
      BY <1>1, <3>1, <3>2, PushFits
    <3>4. Eats(code \o Rest)
      BY <1>1, <2>4, EatsBoth DEF AllRun
    <3>5. tok # EOFs
      BY <2>2, <2>4
    <3>6. Pending(code \o Rest, tok, Room)
      BY <3>3, <3>4, <3>5 DEF Pending, Eating
    <3> QED BY <1>1, <3>3, <3>6 DEF Sound, Fits, code
  <2>5. CASE \E p \in Paid : code = <<Call(p)>> /\ tokens \subseteq Starts(p) /\ Over(p) + 1 <= n
    <3>1. PICK p \in Paid : code = <<Call(p)>> /\ tokens \subseteq Starts(p) /\ Over(p) + 1 <= n
      BY <2>5
    <3> DEFINE u == code \o Rest
    <3>2. /\ IsSeq(u) /\ u # << >> /\ Head(u) = Call(p) /\ Tail(u) = Rest
      BY <1>1, <3>1, PushOne
    <3>3. Open(u) = Open(Rest)
      <4>1. IsSeq(code) /\ \A k_1 \in DOMAIN code : code[k_1].op # "end"
        BY <3>1 DEF IsSeq, Call
      <4> QED BY <1>1, <4>1, EndlessOpen
    <3> HIDE DEF u
    <3>4. Open(Rest) + Over(p) + 1 <= Room
      <4>1. Over(p) \in Int
        BY DEF Over
      <4> QED BY <1>1, <3>1, <4>1 DEF n
    <3>5. tok \in Starts(p)
      BY <2>2, <3>1
    <3>6. Called(u, tok, Room)
      BY <1>1, <3>2, <3>4, <3>5 DEF Called
    <3>7. Sound(u, tok, Room)
      BY <1>1, <3>2, <3>3, <3>6 DEF Sound
    <3> QED BY <3>7 DEF u, code
  <2> QED BY <2>2, <2>3, <2>4, <2>5 DEF ArmRun
<1>6. IsSeq(Ins.of)
  BY <1>3 DEF ArmsRun
<1> QED BY <1>4, <1>5, <1>6, ArmTaken

(* The arguments of a call: the '(' is the current token.                  *)
LEMMA PendingBranch ==
  ASSUME StackInv, todo # << >>, Ins.op = "switch", Pending(todo, tok, Room)
  PROVE  Sound(Arm(Ins.of, Ins.else) \o Rest, tok, Room)
<1>1. /\ Room \in Int /\ Room + 3 \in Int /\ IsSeq(todo) /\ Open(todo) <= Room
      /\ Open(todo) \in Nat
  BY SoundStack, RoomInt
<1>2. Fits(todo, Room + 3) /\ Eating(todo, tok) /\ tok # EOFs
  BY DEF Pending
<1>3. Ins = todo[1]
  BY <1>1, TailDropped DEF Ins
<1>4. ~Eats(todo)
  BY <1>3 DEF Eats, Adv, Leaf
<1>5. tok = "LeftParens"
  BY <1>2, <1>4 DEF Eating
<1>6. Fits(Rest, Room + 3) /\ IsSeq(Rest) /\ Open(Rest) <= Room
  <2>1. Fits(Rest, Room + 3) /\ Open(Rest) <= Open(todo)
    BY <1>1, <1>2, TailFits DEF Rest
  <2>2. Open(Rest) \in Nat
    BY <2>1, OpenIsFirst DEF Fits
  <2> QED BY <1>1, <2>1, <2>2 DEF Fits
<1>7. CASE Ins = parser_expect("LeftParens")
  <2> DEFINE sync == <<Err>> \o parser_sync
             arms == <<On({"LeftParens"}, <<Adv>>)>>
  <2>1. Ins.of = arms /\ Ins.else = sync
    BY <1>7 DEF parser_expect, When, Switch
  <2>2. IsSeq(arms) /\ DOMAIN arms = {1} /\ tok \in arms[1][1] /\ arms[1][2] = <<Adv>>
    BY <1>5 DEF On, IsSeq
  <2>3. Arm(arms, sync) = <<Adv>>
    <3> DEFINE hits == {k \in DOMAIN arms : tok \in arms[k][1]}
    <3>1. hits = {1}
      BY <2>2
    <3>2. (CHOOSE k \in hits : \A j \in hits : k <= j) = 1
      BY <3>1
    <3> QED BY <2>2, <3>1, <3>2 DEF Arm
  <2>4. AllRun(<<Adv>>, (Room + 3) - Open(Rest), Escapes(Rest, 0))
    <3>1. (Room + 3) - Open(Rest) \in Int
      BY <1>1, <1>6, OpenIsFirst
    <3> QED BY <3>1, PlainRuns, RunOne
  <2> DEFINE u == <<Adv>> \o Rest
  <2>5. Fits(u, Room + 3) /\ Open(u) = Open(Rest) /\ Eats(u)
    BY <1>1, <1>6, <2>4, PushFits, EatsThen
  <2> HIDE DEF u
  <2>6. Sound(u, tok, Room)
    BY <1>2, <1>6, <2>5 DEF Sound, Pending, Eating, Fits
  <2> QED BY <2>1, <2>3, <2>6 DEF u
<1>8. CASE Ins # parser_expect("LeftParens")
  <2>1. Ins = Bracketed /\ Len(todo) > 1 /\ todo[2] = parser_expect("LeftParens")
    BY <1>2, <1>3, <1>4, <1>8 DEF Eating
  <2> DEFINE names == NameList(Numbers, << >>)
             arms == <<On({"LeftBrackets"}, names)>>
  <2> HIDE DEF names
  <2>2. Ins.of = arms /\ Ins.else = << >>
    BY <2>1 DEF Bracketed, When, Switch, names
  <2>3. Arm(arms, << >>) = << >>
    <3> DEFINE hits == {k \in DOMAIN arms : tok \in arms[k][1]}
    <3>1. DOMAIN arms = {1} /\ tok \notin arms[1][1]
      BY <1>5 DEF On
    <3>2. hits = {}
      BY <3>1
    <3> QED BY <3>2 DEF Arm
  <2>4. << >> \o Rest = Rest
    <3> DEFINE A == {Rest[k] : k \in DOMAIN Rest}
    <3>1. Rest \in Seq(A)
      BY <1>6 DEF IsSeq
    <3> HIDE DEF A
    <3> QED BY <3>1
  <2>5. Len(Rest) > 0 /\ Rest[1] = parser_expect("LeftParens")
    <3>1. /\ Len(Rest) = Len(todo) - 1 /\ \A k \in 1..(Len(todo) - 1) : Rest[k] = todo[k + 1]
      BY <1>1, TailSeq DEF Rest
    <3>2. Len(todo) \in Nat /\ 1 \in 1..(Len(todo) - 1) /\ 1 + 1 = 2
      BY <1>1, <2>1, SeqFacts
    <3>3. Rest[1] = todo[1 + 1]
      BY <3>1, <3>2
    <3>4. Rest[1] = todo[2]
      BY <3>2, <3>3
    <3> QED BY <2>1, <3>1, <3>2, <3>4
  <2>6. Sound(Rest, tok, Room)
    BY <1>2, <1>5, <1>6, <2>5 DEF Sound, Pending, Eating
  <2> QED BY <2>2, <2>3, <2>4, <2>6
<1> QED BY <1>7, <1>8

LEMMA BranchSound ==
  ASSUME StackInv, Branch
  PROVE  StackInv'
<1>1. todo # << >> /\ Ins.op = "switch" /\ Goto(Arm(Ins.of, Ins.else) \o Rest)
  BY DEF Branch, At
<1>2. Fits(todo, Room) \/ Pending(todo, tok, Room)
  BY <1>1, SoundStack, CalledHead DEF Ins
<1>3. Sound(Arm(Ins.of, Ins.else) \o Rest, tok, Room)
  BY <1>1, <1>2, CalmBranch, PendingBranch
<1> QED BY <1>1, <1>3, GotoSound

(* A node is built, or its token noted just before it is consumed.         *)
LEMMA BuildSound ==
  ASSUME StackInv, Build
  PROVE  StackInv'
<1>1. todo # << >> /\ Ins.op \in {"leaf", "node"} /\ Goto(Rest)
  BY DEF Build, At
<1>2. /\ Room \in Int /\ Room + 3 \in Int /\ IsSeq(todo) /\ Open(todo) <= Room
      /\ Open(todo) \in Nat
      /\ Fits(todo, Room) \/ Pending(todo, tok, Room) \/ Called(todo, tok, Room)
  BY SoundStack, RoomInt
<1>3. ~Called(todo, tok, Room)
  BY <1>1, CalledHead DEF Ins
<1>4. CASE Fits(todo, Room)
  BY <1>1, <1>4, CalmNext, GotoSound
<1>5. CASE Pending(todo, tok, Room)
  <2>1. Ins = todo[1]
    BY <1>1, <1>2, TailDropped DEF Ins
  <2>2. Len(todo) > 1 /\ todo[1] = Leaf /\ todo[2] = Adv
    <3>1. /\ parser_expect("LeftParens").op = "switch" /\ Bracketed.op = "switch"
          /\ Adv.op = "advance"
      BY DEF parser_expect, Bracketed, When, Switch, Adv
    <3> QED BY <1>1, <1>5, <2>1, <3>1 DEF Pending, Eating, Eats
  <2>3. /\ Len(Rest) = Len(todo) - 1 /\ \A k \in 1..(Len(todo) - 1) : Rest[k] = todo[k + 1]
    BY <1>1, <1>2, TailSeq DEF Rest
  <2>4. Len(todo) \in Nat /\ 1 \in 1..(Len(todo) - 1) /\ 1 + 1 = 2 /\ Len(todo) - 1 > 0
    BY <1>2, <2>2, SeqFacts
  <2>5. Rest[1] = todo[1 + 1]
    BY <2>3, <2>4
  <2>6. Len(Rest) > 0 /\ Rest[1] = Adv
    BY <2>2, <2>3, <2>4, <2>5
  <2>7. Fits(Rest, Room + 3) /\ Open(Rest) <= Open(todo)
    BY <1>1, <1>2, <1>5, TailFits DEF Rest, Pending
  <2>8. Open(Rest) <= Room
    BY <1>2, <2>7, OpenIsFirst DEF Fits
  <2>9. Sound(Rest, tok, Room)
    BY <1>5, <2>6, <2>7, <2>8 DEF Sound, Pending, Eating, Eats, Fits
  <2> QED BY <1>1, <2>9, GotoSound
<1> QED BY <1>2, <1>3, <1>4, <1>5

(* A call with the calls left, and a call at the token it consumes.        *)
LEMMA EnterSound ==
  ASSUME StackInv, Enter
  PROVE  StackInv'
<1> DEFINE p == Ins.of
           body == Body[p]
           u == body \o End(p) \o Rest
<1>1. todo # << >> /\ Ins.op = "call" /\ todo' = u /\ tok' = tok /\ pos' = pos
  BY DEF Enter, At
<1>2. /\ Room \in Int /\ Room + 3 \in Int /\ IsSeq(todo) /\ Open(todo) <= Room
      /\ Open(todo) \in Nat
      /\ Fits(todo, Room) \/ Pending(todo, tok, Room) \/ Called(todo, tok, Room)
  BY SoundStack, RoomInt
<1>3. ~Pending(todo, tok, Room)
  BY <1>1, <1>2, PendingHead DEF Ins
<1>4. CASE Fits(todo, Room)
  <2> DEFINE n == Room - Open(Rest)
             c == Cost(p) - 1
  <2>1. /\ Runs(Ins, n, Escapes(Rest, 0)) /\ n \in Int /\ Fits(Rest, Room)
        /\ Open(Rest) = Open(todo)
    BY <1>1, <1>4, CalmParts
  <2>2. p \in Unpaid /\ Cost(p) <= n
    <3> HIDE DEF n
    <3> QED BY <1>1, <2>1, OtherParts
  <2>3. Cost(p) \in Nat /\ Cost(p) >= 1
    BY DEF Cost
  <2>4. c \in Int /\ Cost(p) - 1 <= c /\ c <= Room - Open(Rest) - 1 /\ Open(Rest) + 1 <= Room
    BY <1>2, <2>1, <2>2, <2>3
  <2> HIDE DEF c, p
  <2>5. AllRun(body, c, {"end"})
    BY <2>2, <2>4, UnpaidRun
  <2> HIDE DEF body
  <2>6. Fits(u, Room) /\ Open(u) = Open(Rest) + 1
    BY <1>2, <2>1, <2>4, <2>5, CallFits
  <2> HIDE DEF u
  <2>7. Sound(u, tok, Room)
    BY <2>4, <2>6, FitsSound
  <2> QED BY <1>1, <2>7, SameSound
<1>5. CASE Called(todo, tok, Room)
  <2>1. Fits(Rest, Room)
    BY <1>5 DEF Called, Rest
  <2>2. p \in Paid /\ tok \in Starts(p) /\ Open(Rest) + Over(p) + 1 <= Room
    BY <1>5 DEF Called, Rest, Ins, Call
  <2> DEFINE n == Over(p) + 3
  <2>3. Over(p) \in Nat /\ Open(Rest) \in Nat /\ IsSeq(Rest)
    BY <2>1, OpenIsFirst DEF Over, Fits
  <2>4. n \in Int /\ n <= (Room + 3) - Open(Rest) - 1 /\ Open(Rest) + 1 <= Room
    BY <1>2, <2>2, <2>3
  <2>5. Fits(Rest, Room + 3)
    BY <1>2, <2>1, MoreRoom
  <2>6. AllRun(body, n, {"end"})
    <3> HIDE DEF p
    <3>1. Over(p) + 3 <= n
      BY <2>3
    <3> HIDE DEF n
    <3> QED BY <2>2, <2>4, <3>1, PaidRun
  <2>7. Eating(body, tok) /\ tok # EOFs
    BY <2>2, PaidEating
  <2> HIDE DEF n, body
  <2>8. Fits(u, Room + 3) /\ Open(u) = Open(Rest) + 1
    BY <1>2, <2>4, <2>5, <2>6, CallFits
  <2>9. Eating(u, tok)
    <3>1. IsSeq(body) /\ IsSeq(End(p))
      BY <2>6 DEF AllRun, End, IsSeq
    <3>2. IsSeq(body \o End(p)) /\ Eating(body \o End(p), tok)
      BY <2>7, <3>1, ConcatSeq, EatsBoth DEF Joined
    <3> QED BY <2>3, <3>2, EatsBoth
  <2> HIDE DEF u
  <2>10. Sound(u, tok, Room)
    BY <2>4, <2>7, <2>8, <2>9 DEF Sound, Pending, Fits
  <2> QED BY <1>1, <2>10, SameSound
<1> QED BY <1>2, <1>3, <1>4, <1>5

LEMMA EnterBpSound ==
  ASSUME StackInv, EnterBp
  PROVE  StackInv'
<1> DEFINE body == parser_expr_bp(Ins.of)
           p == "parser_expr_bp"
           u == body \o End(p) \o Rest
           n == Room - Open(Rest)
<1>1. todo # << >> /\ Ins.op = "call_bp" /\ Goto(u)
  BY DEF EnterBp, At
<1>2. Fits(todo, Room)
  BY <1>1, CalmAt
<1>3. /\ Runs(Ins, n, Escapes(Rest, 0)) /\ n \in Int /\ Fits(Rest, Room)
      /\ Open(Rest) = Open(todo) /\ Room \in Int /\ Open(todo) \in Nat
  BY <1>1, <1>2, CalmParts, SoundStack
<1>4. 3 <= n
  <2> HIDE DEF n
  <2> QED BY <1>1, <1>3, OtherParts
<1> DEFINE c == 2
<1>5. c \in Int /\ 2 <= c /\ c <= Room - Open(Rest) - 1 /\ Open(Rest) + 1 <= Room
  BY <1>3, <1>4
<1> HIDE DEF c
<1>6. AllRun(body, c, {"end"})
  BY <1>5, ExprBpRun
<1> HIDE DEF body, p
<1>7. Fits(u, Room) /\ Open(u) = Open(Rest) + 1
  BY <1>3, <1>5, <1>6, CallFits
<1> HIDE DEF u
<1>8. Sound(u, tok, Room)
  BY <1>5, <1>7, FitsSound
<1> QED BY <1>1, <1>8, GotoSound

(* break, continue and return leave for an instruction that is there.      *)
LEMMA FirstFound ==
  ASSUME IsSeq(todo), todo # << >>, NEW op \in {"loop", "end"}, op \in Escapes(Rest, 0)
  PROVE  FirstOf(op) \in 1..Len(todo)
<1>1. /\ Dropped(todo, 1, Rest) /\ DOMAIN todo = 1..Len(todo) /\ Len(todo) \in Nat
  BY TailDropped, SeqFacts DEF Rest
<1>2. PICK j \in DOMAIN Rest : Rest[j].op = op
  BY DEF Escapes
<1>3. j + 1 \in DOMAIN todo /\ todo[j + 1] = Rest[j]
  BY <1>1, SeqFacts DEF Dropped
<1> DEFINE S == {k \in DOMAIN todo : todo[k].op = op}
<1>4. S \in SUBSET Nat /\ S # {}
  BY <1>1, <1>2, <1>3
<1>5. PICK k \in S : \A i \in S : k <= i
  <2> HIDE DEF S
  <2> QED BY <1>4, NatMin
<1>6. \A i \in 1..(k - 1) : todo[i].op # op
  BY <1>1, <1>5
<1>7. \E k_1 \in DOMAIN todo : todo[k_1].op = op /\ \A i \in 1..(k_1 - 1) : todo[i].op # op
  BY <1>5, <1>6
<1>8. FirstOf(op) \in DOMAIN todo
  BY <1>7 DEF FirstOf
<1> QED BY <1>1, <1>8

LEMMA DropSound ==
  ASSUME StackInv, Fits(todo, Room), NEW k \in 0..Len(todo)
  PROVE  Sound(DropThrough(k), tok, Room)
<1> DEFINE u == SubSeq(todo, k + 1, Len(todo))
<1>1. Room \in Int /\ IsSeq(todo) /\ Open(todo) <= Room /\ Open(todo) \in Nat
  BY SoundStack
<1>2. Len(todo) \in Nat /\ k \in Nat
  BY <1>1, SeqFacts
<1>3. IsSeq(u) /\ Len(u) = Len(todo) - k /\ \A j \in 1..(Len(todo) - k) : u[j] = todo[j + k]
  BY <1>1, SuffixSeq
<1> HIDE DEF u
<1>4. DOMAIN u = 1..(Len(todo) - k) /\ Len(todo) = Len(u) + k
  BY <1>2, <1>3, SeqFacts
<1>5. Dropped(todo, k, u)
  BY <1>1, <1>3, <1>4 DEF Dropped
<1>6. Fits(u, Room) /\ Open(u) <= Open(todo)
  BY <1>1, <1>2, <1>5, DroppedFits
<1>7. Open(u) \in Nat
  BY <1>3, OpenIsFirst
<1>8. Sound(u, tok, Room)
  BY <1>1, <1>6, <1>7, FitsSound
<1> QED BY <1>8 DEF DropThrough, u

LEMMA LeaveSound ==
  ASSUME StackInv, Break \/ Continue \/ Return
  PROVE  StackInv'
<1>1. /\ todo # << >> /\ Ins.op \in {"break", "continue", "return"}
      /\ Ins.op = "break" => Goto(DropThrough(FirstOf("loop")))
      /\ Ins.op = "continue" => Goto(DropThrough(FirstOf("loop") - 1))
      /\ Ins.op = "return" => Goto(DropThrough(FirstOf("end")))
  BY DEF Break, Continue, Return, At
<1>2. Fits(todo, Room)
  BY <1>1, CalmAt
<1>3. Runs(Ins, Room - Open(Rest), Escapes(Rest, 0)) /\ Room - Open(Rest) \in Int
  BY <1>1, <1>2, CalmParts
<1>4. /\ Ins.op \in {"break", "continue"} => "loop" \in Escapes(Rest, 0)
      /\ Ins.op = "return" => "end" \in Escapes(Rest, 0)
  BY <1>3, OtherParts
<1>5. IsSeq(todo) /\ Len(todo) \in Nat
  BY SoundStack, SeqFacts
<1>6. CASE Ins.op = "return"
  <2>1. FirstOf("end") \in 0..Len(todo)
    BY <1>1, <1>4, <1>5, <1>6, FirstFound
  <2> QED BY <1>1, <1>2, <1>6, <2>1, DropSound, GotoSound
<1>7. CASE Ins.op # "return"
  <2>1. FirstOf("loop") \in 0..Len(todo) /\ FirstOf("loop") - 1 \in 0..Len(todo)
    <3>1. FirstOf("loop") \in 1..Len(todo)
      BY <1>1, <1>4, <1>5, <1>7, FirstFound
    <3> QED BY <1>5, <3>1
  <2>2. Ins.op = "break" \/ Ins.op = "continue"
    BY <1>1, <1>7
  <2>3. CASE Ins.op = "break"
    BY <1>1, <1>2, <2>1, <2>3, DropSound, GotoSound
  <2>4. CASE Ins.op = "continue"
    <3> DEFINE k == FirstOf("loop") - 1
    <3>1. k \in 0..Len(todo) /\ Goto(DropThrough(k))
      BY <1>1, <2>1, <2>4
    <3> HIDE DEF k
    <3> QED BY <1>2, <3>1, DropSound, GotoSound
  <2> QED BY <2>2, <2>3, <2>4
<1> QED BY <1>6, <1>7

LEMMA StackInit ==
  ASSUME Init
  PROVE  StackInv
<1>1. pos = 0 /\ todo = ParseFile
  BY DEF Init
<1> DEFINE room == 3
           none == << >>
<1>2. IsSeq(none) /\ Len(none) = 0 /\ DOMAIN none = {} /\ room \in Int
  BY DEF IsSeq
<1>3. Ends(none, 0) = {} /\ Escapes(none, 0) = {}
  BY <1>2 DEF Ends, Escapes
<1>4. Open(none) = 0
  BY <1>3, FS_EmptySet DEF Open, Below
<1>5. Fits(none, room)
  BY <1>2 DEF Fits
<1> HIDE DEF none
<1>6. AllRun(ParseFile, room, {})
  BY ParseFileRun
<1> HIDE DEF room
<1>7. room - Open(none) = room
  BY <1>2, <1>4
<1>8. AllRun(ParseFile, room - Open(none), Escapes(none, 0))
  BY <1>3, <1>6, <1>7
<1>9. Joined(ParseFile, none, ParseFile)
  <2>1. IsSeq(ParseFile) /\ Len(ParseFile) \in Nat
    BY <1>6, SeqFacts DEF AllRun
  <2> QED BY <1>2, <2>1 DEF Joined
<1>10. Fits(ParseFile, room) /\ Open(ParseFile) = Open(none)
  BY <1>2, <1>5, <1>8, <1>9, JoinedFits
<1>11. Open(ParseFile) <= room
  BY <1>4, <1>10 DEF room
<1>12. Sound(ParseFile, tok, room)
  BY <1>10, <1>11, FitsSound
<1>13. Room = room
  BY <1>1 DEF Room, room
<1> QED BY <1>1, <1>12, <1>13 DEF StackInv

LEMMA StackStep ==
  ASSUME StackInv, [Next]_vars
  PROVE  StackInv'
<1>1. CASE Advance
  BY <1>1, AdvanceSound
<1>2. CASE Report
  BY <1>2, ReportSound
<1>3. CASE Branch
  BY <1>3, BranchSound
<1>4. CASE Iterate
  BY <1>4, IterateSound
<1>5. CASE Break \/ Continue \/ Return
  BY <1>5, LeaveSound
<1>6. CASE Mark
  BY <1>6, MarkSound
<1>7. CASE ForceOn
  BY <1>7, ForceOnSound
<1>8. CASE Enter
  BY <1>8, EnterSound
<1>9. CASE EnterBp
  BY <1>9, EnterBpSound
<1>10. CASE Leaving
  BY <1>10, LeavingSound
<1>11. CASE ClimbStep
  BY <1>11, ClimbSound
<1>12. CASE Build
  BY <1>12, BuildSound
<1>13. CASE PeekTest
  BY <1>13, PeekTestSound
<1>14. CASE AtomicTest
  BY <1>14, AtomicTestSound
<1>15. CASE ImportNoted
  BY <1>15, ImportNotedSound
<1>16. CASE UNCHANGED vars
  <2>1. todo' = todo /\ tok' = tok /\ pos' = pos
    BY <1>16 DEF vars
  <2> QED BY <2>1 DEF StackInv, Room
<1> QED BY <1>1, <1>2, <1>3, <1>4, <1>5, <1>6, <1>7, <1>8, <1>9, <1>10, <1>11, <1>12, <1>13,
           <1>14, <1>15, <1>16 DEF Next, Step, Finish

(* Whatever the file holds, every instruction on the parser's stack can be *)
(* paid by the calls that the tokens consumed so far allow above it        *)
(* (parser.c: every procedure either consumes a token before it comes back *)
(* to itself or is only called at the token it consumes).                  *)
THEOREM StackIsPaid == Spec => []StackInv
<1>1. Init => StackInv
  BY StackInit
<1>2. StackInv /\ [Next]_vars => StackInv'
  BY StackStep
<1> QED BY <1>1, <1>2, PTL DEF Spec

(* For every file, of any length: the recursion of the parser is at most   *)
(* three calls deep for each token consumed (the C stack of parser.c is    *)
(* bounded by what was read).                                              *)
THEOREM StackIsBounded == Spec => []DepthBounded
<1>1. StackInv => DepthBounded
  <2> SUFFICES ASSUME StackInv PROVE DepthBounded
    OBVIOUS
  <2>1. IsSeq(todo) /\ Open(todo) <= Room
    BY SoundStack
  <2>2. Ends(todo, 0) = {k \in DOMAIN todo : todo[k].op = "end"}
    BY <2>1, SeqFacts DEF Ends
  <2> QED BY <2>1, <2>2 DEF DepthBounded, Depth, Room, Open, Below
<1> QED BY <1>1, StackIsPaid, PTL

(* ------------------------------- The types ----------------------------- *)

(* The reading position: past the file's length only the end is read.      *)
ReadingInv ==
  /\ file \in Files /\ pos \in Nat /\ pos <= file.length
  /\ tok \in file.tokens \cup {EOFs}
  /\ tok # EOFs => pos < file.length
  /\ \/ ahead = << >>
     \/ \E t \in file.tokens \cup {EOFs} :
          ahead = <<t>> /\ (tok = EOFs \/ pos + 1 >= file.length => t = EOFs)
  /\ peeked \in file.tokens \cup {EOFs, None}
  /\ atomic_imported \in BOOLEAN /\ reported \in BOOLEAN

LEMMA LengthNat ==
  ASSUME file \in Files
  PROVE  file.length \in Nat /\ file.length > 0
BY ParserAssumption

LEMMA UpcomingRead ==
  ASSUME ReadingInv
  PROVE  \A t \in Upcoming : /\ t \in file.tokens \cup {EOFs}
                             /\ tok = EOFs \/ pos + 1 >= file.length => t = EOFs
<1> SUFFICES ASSUME NEW t \in Upcoming
             PROVE  /\ t \in file.tokens \cup {EOFs}
                    /\ tok = EOFs \/ pos + 1 >= file.length => t = EOFs
  OBVIOUS
<1>1. CASE ahead # << >>
  <2>1. PICK u \in file.tokens \cup {EOFs} :
          ahead = <<u>> /\ (tok = EOFs \/ pos + 1 >= file.length => u = EOFs)
    BY <1>1 DEF ReadingInv
  <2>2. t = u
    BY <1>1, <2>1 DEF Upcoming
  <2> QED BY <2>1, <2>2
<1>2. CASE ahead = << >>
  BY <1>2 DEF Upcoming
<1> QED BY <1>1, <1>2

LEMMA ReadingConsume ==
  ASSUME ReadingInv, Consume, UNCHANGED <<file, peeked>>, atomic_imported' \in BOOLEAN,
         reported' \in BOOLEAN
  PROVE  ReadingInv'
<1>1. /\ file \in Files /\ pos \in Nat /\ pos <= file.length /\ file.length \in Nat
      /\ tok # EOFs => pos < file.length
      /\ peeked \in file.tokens \cup {EOFs, None}
  BY LengthNat DEF ReadingInv
<1>2. /\ tok' \in Upcoming /\ ahead' = << >>
      /\ pos' = IF tok = EOFs THEN pos ELSE pos + 1
      /\ file' = file /\ peeked' = peeked
  BY DEF Consume
<1>3. /\ tok' \in file.tokens \cup {EOFs}
      /\ tok = EOFs \/ pos + 1 >= file.length => tok' = EOFs
  BY <1>2, UpcomingRead
<1>4. pos' \in Nat /\ pos' <= file'.length /\ (tok' # EOFs => pos' < file'.length)
  <2>1. CASE tok = EOFs
    BY <1>1, <1>2, <1>3, <2>1
  <2>2. CASE tok # EOFs
    BY <1>1, <1>2, <1>3, <2>2
  <2> QED BY <2>1, <2>2
<1> QED BY <1>1, <1>2, <1>3, <1>4 DEF ReadingInv

LEMMA ReadingSame ==
  ASSUME ReadingInv, UNCHANGED <<file, tok, pos, ahead, peeked>>, atomic_imported' \in BOOLEAN,
         reported' \in BOOLEAN
  PROVE  ReadingInv'
BY DEF ReadingInv

LEMMA ReadingGoto ==
  ASSUME ReadingInv, NEW program, Goto(program)
  PROVE  ReadingInv'
<1>1. /\ UNCHANGED <<file, tok, pos, ahead, peeked>>
      /\ atomic_imported' = atomic_imported /\ reported' = reported
  BY DEF Goto, Reading, Flags
<1>2. atomic_imported \in BOOLEAN /\ reported \in BOOLEAN
  BY DEF ReadingInv
<1> QED BY <1>1, <1>2, ReadingSame

LEMMA ReadingPeek ==
  ASSUME ReadingInv, PeekTest
  PROVE  ReadingInv'
<1>1. UNCHANGED <<file, tok, pos, atomic_imported, reported>> /\ parser_peek_next
  BY DEF PeekTest
<1>2. PICK t \in Upcoming : ahead' = <<t>> /\ peeked' = IF peeked = None THEN t ELSE peeked
  BY <1>1 DEF parser_peek_next
<1>3. /\ t \in file.tokens \cup {EOFs}
      /\ tok = EOFs \/ pos + 1 >= file.length => t = EOFs
  BY UpcomingRead
<1>4. peeked' \in file.tokens \cup {EOFs, None}
  BY <1>2, <1>3 DEF ReadingInv
<1> QED BY <1>1, <1>2, <1>3, <1>4 DEF ReadingInv

LEMMA ReadingStep ==
  ASSUME ReadingInv, [Next]_vars
  PROVE  ReadingInv'
<1>0. atomic_imported \in BOOLEAN /\ reported \in BOOLEAN
  BY DEF ReadingInv
<1>1. CASE Advance
  BY <1>0, <1>1, ReadingConsume DEF Advance, Flags
<1>2. CASE Report
  BY <1>0, <1>2, ReadingSame DEF Report, Reading
<1>3. CASE Branch
  BY <1>3, ReadingGoto DEF Branch
<1>4. CASE Iterate
  BY <1>4, ReadingGoto DEF Iterate
<1>5. CASE Break
  BY <1>5, ReadingGoto DEF Break
<1>6. CASE Continue
  BY <1>6, ReadingGoto DEF Continue
<1>7. CASE Return
  BY <1>7, ReadingGoto DEF Return
<1>8. CASE Mark
  BY <1>8, ReadingGoto DEF Mark
<1>9. CASE ForceOn
  <2>1. CASE pos = Ins.of
    BY <1>0, <1>9, <2>1, ReadingConsume DEF ForceOn, Flags
  <2>2. CASE pos # Ins.of
    BY <1>9, <2>2, ReadingGoto DEF ForceOn
  <2> QED BY <2>1, <2>2
<1>10. CASE Enter
  BY <1>0, <1>10, ReadingSame DEF Enter, Flags
<1>11. CASE EnterBp
  BY <1>11, ReadingGoto DEF EnterBp
<1>12. CASE Leaving
  BY <1>12, ReadingGoto DEF Leaving
<1>13. CASE ClimbStep
  BY <1>13, ReadingGoto DEF ClimbStep
<1>14. CASE Build
  BY <1>14, ReadingGoto DEF Build
<1>15. CASE PeekTest
  BY <1>15, ReadingPeek
<1>16. CASE AtomicTest
  BY <1>16, ReadingGoto DEF AtomicTest
<1>17. CASE ImportNoted
  <2>1. atomic_imported' \in BOOLEAN
    BY <1>0, <1>17 DEF ImportNoted
  <2> QED BY <1>0, <1>17, <2>1, ReadingSame DEF ImportNoted, Reading
<1>18. CASE UNCHANGED vars
  BY <1>0, <1>18, ReadingSame DEF vars
<1> QED BY <1>1, <1>2, <1>3, <1>4, <1>5, <1>6, <1>7, <1>8, <1>9, <1>10, <1>11, <1>12, <1>13,
           <1>14, <1>15, <1>16, <1>17, <1>18 DEF Next, Step, Finish

LEMMA FitsKinds ==
  ASSUME NEW s, NEW room, Fits(s, room), NEW k \in DOMAIN s
  PROVE  s[k].op \in Kinds \cup {"end"}
BY RunsKinds DEF Fits

(* The parser keeps its types, whatever the file: in particular the        *)
(* position never passes the end of the file, and nothing but a known      *)
(* instruction is ever on the stack.                                       *)
THEOREM ParserTypes == Spec => []TypeOK
<1>1. Init => ReadingInv
  <2> SUFFICES ASSUME Init PROVE ReadingInv
    OBVIOUS
  <2>1. file \in Files /\ tok \in file.tokens /\ ahead = << >> /\ pos = 0 /\ peeked = None
    BY DEF Init
  <2>2. atomic_imported \in BOOLEAN /\ reported \in BOOLEAN
    BY DEF Init
  <2>3. file.length \in Nat /\ file.length > 0
    BY <2>1, LengthNat
  <2>4. pos \in Nat /\ pos <= file.length /\ pos < file.length
    BY <2>1, <2>3
  <2> QED BY <2>1, <2>2, <2>4 DEF ReadingInv
<1>2. ReadingInv /\ [Next]_vars => ReadingInv'
  BY ReadingStep
<1>3. StackInv /\ ReadingInv => TypeOK
  <2> SUFFICES ASSUME StackInv, ReadingInv PROVE TypeOK
    OBVIOUS
  <2>1. Len(ahead) <= 1
    <3>1. \A t : Len(<<t>>) <= 1
      OBVIOUS
    <3>2. Len(<< >>) <= 1
      OBVIOUS
    <3> QED BY <3>1, <3>2 DEF ReadingInv
  <2>2. pos \in 0..file.length
    BY LengthNat DEF ReadingInv
  <2>3. ASSUME NEW k \in DOMAIN todo
        PROVE  todo[k].op \in Kinds \cup {"end"}
    <3>1. /\ IsSeq(todo)
          /\ Fits(todo, Room) \/ Pending(todo, tok, Room) \/ Called(todo, tok, Room)
      BY SoundStack
    <3>2. CASE Fits(todo, Room) \/ Pending(todo, tok, Room)
      BY <3>2, FitsKinds DEF Pending
    <3>3. CASE Called(todo, tok, Room)
      <4> DEFINE rest == Tail(todo)
      <4>1. todo # << >> /\ Fits(rest, Room) /\ Head(todo).op = "call"
        BY <3>3, CalledHead DEF Called
      <4>2. /\ Dropped(todo, 1, rest) /\ Head(todo) = todo[1] /\ Len(rest) \in Nat
            /\ DOMAIN todo = 1..(Len(rest) + 1)
        BY <3>1, <4>1, TailDropped
      <4> HIDE DEF rest
      <4>3. CASE k = 1
        BY <4>1, <4>2, <4>3 DEF Kinds
      <4>4. CASE k # 1
        <5> DEFINE j == k - 1
        <5>1. j \in 1..Len(rest) /\ k = j + 1
          BY <4>2, <4>4
        <5>2. j \in DOMAIN rest
          BY <4>2, <5>1, SeqFacts DEF Dropped
        <5> HIDE DEF j
        <5>3. todo[k] = rest[j]
          BY <4>2, <5>1, <5>2 DEF Dropped
        <5> QED BY <4>1, <5>2, <5>3, FitsKinds
      <4> QED BY <4>3, <4>4
    <3> QED BY <3>1, <3>2, <3>3
  <2>4. {atomic_imported, reported} \subseteq BOOLEAN
    BY DEF ReadingInv
  <2>5. \A k \in DOMAIN todo : todo[k].op \in
          {"advance", "report", "return", "break", "continue", "leaf", "node", "call", "climb",
           "import", "peek", "atomic", "switch", "loop", "mark", "force", "end", "call_bp"}
    BY <2>3 DEF Kinds
  <2> QED BY <2>1, <2>2, <2>4, <2>5 DEF ReadingInv, TypeOK
<1> QED BY <1>1, <1>2, <1>3, StackIsPaid, PTL DEF Spec

-------------------------------------------------------------------------------
(* Tidy code: no end is consumed but by those who ask for one              *)

(* The tokens that may be current while no token was skipped unread, and   *)
(* those that the checks below look for.                                   *)
Tokens == ({EOFs, "Ends", "Froms", "Imports"} \cup Names \cup UNION {f.tokens : f \in Files})
          \ Unread

(* Those that code which does not look must not consume.                   *)
Stops == {"Ends", EOFs}

(* The procedures that consume without looking, and those that look first. *)
Takers == {"parser_literal", "parser_method_calls", "parser_builtin_function",
           "parser_functions", "parser_trait_functions", "parser_class", "parser_structer",
           "parser_enums", "parser_traits", "parser_extern", "parser_module", "parser_vars",
           "parser_lets", "parser_globle", "parser_import", "parser_from_import",
           "parser_return", "parser_match", "parser_while", "parser_for", "parser_if",
           "parser_elif", "parser_else", "parser_atomic_op"}
Lookers == {"parser_expr", "parser_expr_primary", "parser_index", "parser_function_call",
            "parser_type", "parser_type_base", "parser_const", "parser_stmt"}

(* Code that begins with an error.                                         *)
Blames(code) == Len(code) > 0 /\ code[1] = Err

(* An error unless the current token is one of a set.                      *)
IsCheck(i) == \E T : T \cap Tokens # {} /\ i = When(T, << >>, <<Err>>)
Checked(i) == i.of[1][1] \cap Tokens

(* The tokens that may be current at the k-th instruction of code that is  *)
(* started at one of T.                                                    *)
Where(code, k, T) ==
  IF k = 1 THEN T
  ELSE IF IsCheck(code[k - 1]) THEN Checked(code[k - 1])
  ELSE IF k = 2 /\ code[1].op \in {"leaf", "import"} THEN T
  ELSE Tokens

(* Code whose next action is to consume the current token or to report.    *)
Starter(i) ==
  \/ i \in {Adv, Err}
  \/ i.op = "call" /\ i.of \in (Takers \ {"parser_atomic_op"}) \cup {"parser_stmt"}
Begins(code) == Len(code) > 0 /\ Starter(code[1])
Eager(code) ==
  /\ Len(code) > 0
  /\ \/ Starter(code[1])
     \/ /\ code[1].op = "switch"
        /\ \A k \in DOMAIN code[1].of :
             code[1].of[k][1] \cap Tokens # {} => Begins(code[1].of[k][2])
        /\ Begins(code[1].else)

(* Which instructions are tidy at which tokens is given by pairs.          *)
TidyIn(F, i, T) == \E S \in SUBSET Tokens : T \subseteq S /\ <<i, S>> \in F
CodeIn(F, code, T) ==
  /\ IsSeq(code)
  /\ \/ T = {} \/ Blames(code)
     \/ \A k \in DOMAIN code : TidyIn(F, code[k], Where(code, k, T))

Loops(i) == IF i.sense THEN Tokens \cap i.of ELSE Tokens \ i.of

(* What an instruction that is tidy at T asks of its parts.                *)
Asks(F, i, T) ==
  /\ i.op \in {"advance", "report", "leaf", "node", "call", "climb", "import", "peek",
               "atomic", "switch", "loop", "mark", "call_bp"}
  /\ i.op = "advance" => T \cap Stops = {}
  /\ i.op = "call" => i.of \in Lookers \/ (i.of \in Takers /\ T \cap Stops = {})
  /\ i.op = "peek" => i.of = "Colons"
  /\ i.op = "atomic" => CodeIn(F, i.then, T) /\ CodeIn(F, i.else, T)
  /\ i.op = "switch" => /\ IsSeq(i.of)
                        /\ \A k \in DOMAIN i.of : CodeIn(F, i.of[k][2], i.of[k][1] \cap Tokens)
                        /\ CodeIn(F, i.else, T)
  /\ i.op = "loop" => CodeIn(F, i.do, Loops(i))
  /\ i.op = "mark" => CodeIn(F, i.do, T) /\ Eager(i.do)

Tidies(F) == \A x \in F : x[2] \in SUBSET Tokens /\ (x[2] = {} \/ Asks(F, x[1], x[2]))

Tidy(i, T) == \E F : Tidies(F) /\ TidyIn(F, i, T)
CodeTidy(code, T) ==
  /\ IsSeq(code)
  /\ \/ T = {} \/ Blames(code)
     \/ \A k \in DOMAIN code : Tidy(code[k], Where(code, k, T))
AllTidy(code) == IsSeq(code) /\ \A k \in DOMAIN code : Tidy(code[k], Tokens)

LEMMA WhereTokens ==
  ASSUME NEW code, NEW k, NEW T \in SUBSET Tokens
  PROVE  Where(code, k, T) \in SUBSET Tokens
BY DEF Where, Checked

LEMMA WhereLess ==
  ASSUME NEW code, NEW k, NEW T, NEW S, T \subseteq S
  PROVE  Where(code, k, T) \subseteq Where(code, k, S)
BY DEF Where

LEMMA TidyInMore ==
  ASSUME NEW F, NEW G, F \subseteq G, NEW i, NEW T, NEW S, T \subseteq S, TidyIn(F, i, S)
  PROVE  TidyIn(G, i, T)
BY DEF TidyIn

LEMMA CodeInMore ==
  ASSUME NEW F, NEW G, F \subseteq G, NEW code, NEW T, NEW S, T \subseteq S, CodeIn(F, code, S)
  PROVE  CodeIn(G, code, T)
<1>1. CASE S = {} \/ Blames(code)
  BY <1>1 DEF CodeIn
<1>2. CASE \A k \in DOMAIN code : TidyIn(F, code[k], Where(code, k, S))
  <2>1. \A k \in DOMAIN code : TidyIn(G, code[k], Where(code, k, T))
    BY <1>2, WhereLess, TidyInMore
  <2> QED BY <2>1 DEF CodeIn
<1> QED BY <1>1, <1>2 DEF CodeIn

LEMMA AsksMore ==
  ASSUME NEW F, NEW G, F \subseteq G, NEW i, NEW T, NEW S, T \subseteq S, Asks(F, i, S)
  PROVE  Asks(G, i, T)
<1>1. \A code : CodeIn(F, code, S) => CodeIn(G, code, T)
  BY CodeInMore
<1>2. \A code, R : CodeIn(F, code, R) => CodeIn(G, code, R)
  BY CodeInMore
<1>3. S \cap Stops = {} => T \cap Stops = {}
  OBVIOUS
<1> QED BY <1>1, <1>2, <1>3 DEF Asks

LEMMA TidyAsks ==
  ASSUME NEW i, NEW T, Tidy(i, T), T # {}
  PROVE  \E F : Tidies(F) /\ Asks(F, i, T)
<1>1. PICK F : Tidies(F) /\ TidyIn(F, i, T)
  BY DEF Tidy
<1>2. PICK S \in SUBSET Tokens : T \subseteq S /\ <<i, S>> \in F
  BY <1>1 DEF TidyIn
<1>3. S # {} /\ (S = {} \/ Asks(F, i, S))
  BY <1>1, <1>2 DEF Tidies
<1>4. Asks(F, i, T)
  BY <1>2, <1>3, AsksMore
<1> QED BY <1>1, <1>4

LEMMA TidyMore ==
  ASSUME NEW i, NEW T, NEW S, T \subseteq S, Tidy(i, S)
  PROVE  Tidy(i, T)
BY TidyInMore DEF Tidy

LEMMA CodeTidyMore ==
  ASSUME NEW code, NEW T, NEW S, T \subseteq S, CodeTidy(code, S)
  PROVE  CodeTidy(code, T)
<1>1. CASE S = {} \/ Blames(code)
  BY <1>1 DEF CodeTidy
<1>2. CASE \A k \in DOMAIN code : Tidy(code[k], Where(code, k, S))
  <2>1. \A k \in DOMAIN code : Tidy(code[k], Where(code, k, T))
    BY <1>2, WhereLess, TidyMore
  <2> QED BY <2>1 DEF CodeTidy
<1> QED BY <1>1, <1>2 DEF CodeTidy

LEMMA KnownTidy ==
  ASSUME NEW F, Tidies(F), NEW code, NEW T, CodeIn(F, code, T)
  PROVE  CodeTidy(code, T)
BY DEF CodeIn, CodeTidy, Tidy

(* What is tidy, is tidy by one set of pairs.                              *)
LEMMA GatheredTidy ==
  ASSUME NEW C, \A c \in C : Tidy(c[1], c[2])
  PROVE  \E F : Tidies(F) /\ \A c \in C : TidyIn(F, c[1], c[2])
<1> DEFINE w == [c \in C |-> CHOOSE F : Tidies(F) /\ TidyIn(F, c[1], c[2])]
           G == UNION {w[c] : c \in C}
<1>1. ASSUME NEW c \in C
      PROVE  Tidies(w[c]) /\ TidyIn(w[c], c[1], c[2]) /\ w[c] \subseteq G
  <2>1. \E F : Tidies(F) /\ TidyIn(F, c[1], c[2])
    BY DEF Tidy
  <2>2. w[c] = CHOOSE F : Tidies(F) /\ TidyIn(F, c[1], c[2])
    OBVIOUS
  <2> HIDE DEF w
  <2>3. Tidies(w[c]) /\ TidyIn(w[c], c[1], c[2])
    BY <2>1, <2>2
  <2> QED BY <2>3
<1>2. \A x \in G : \E c \in C : x \in w[c]
  OBVIOUS
<1> HIDE DEF w, G
<1>3. ASSUME NEW c \in C PROVE TidyIn(G, c[1], c[2])
  BY <1>1, TidyInMore
<1>4. Tidies(G)
  <2> SUFFICES ASSUME NEW x \in G
               PROVE  x[2] \in SUBSET Tokens /\ (x[2] = {} \/ Asks(G, x[1], x[2]))
    BY DEF Tidies
  <2>1. PICK c \in C : x \in w[c]
    BY <1>2
  <2>2. x[2] \in SUBSET Tokens /\ (x[2] = {} \/ Asks(w[c], x[1], x[2]))
    BY <1>1, <2>1 DEF Tidies
  <2> QED BY <1>1, <2>1, <2>2, AsksMore
<1> QED BY <1>3, <1>4

LEMMA AddingTidy ==
  ASSUME NEW F, Tidies(F), NEW i, NEW T \in SUBSET Tokens, Asks(F, i, T)
  PROVE  Tidy(i, T)
<1> DEFINE x == <<i, T>>
           G == F \cup {x}
<1>1. F \subseteq G /\ x \in G /\ \A y \in G : y \in F \/ y = x
  OBVIOUS
<1>2. x[1] = i /\ x[2] = T
  OBVIOUS
<1> HIDE DEF G
<1>3. TidyIn(G, i, T)
  BY <1>1 DEF TidyIn
<1> HIDE DEF x
<1>4. Asks(G, i, T)
  BY <1>1, AsksMore
<1>5. ASSUME NEW y \in F
      PROVE  y[2] \in SUBSET Tokens /\ (y[2] = {} \/ Asks(G, y[1], y[2]))
  <2>1. y[2] \in SUBSET Tokens /\ (y[2] = {} \/ Asks(F, y[1], y[2]))
    BY DEF Tidies
  <2> QED BY <1>1, <2>1, AsksMore
<1>6. Tidies(G)
  <2> SUFFICES ASSUME NEW y \in G
               PROVE  y[2] \in SUBSET Tokens /\ (y[2] = {} \/ Asks(G, y[1], y[2]))
    BY DEF Tidies
  <2>1. CASE y \in F
    BY <1>5, <2>1
  <2>2. CASE y = x
    BY <1>2, <1>4, <2>2
  <2> QED BY <1>1, <2>1, <2>2
<1> QED BY <1>3, <1>6 DEF Tidy

(* Code made of the instructions of X that is tidy, is so by one set.      *)
LEMMA GatheredTidyCode ==
  ASSUME NEW X
  PROVE  \E F : /\ Tidies(F)
                /\ \A code : (\A k \in DOMAIN code : code[k] \in X) =>
                     \A T \in SUBSET Tokens : CodeTidy(code, T) => CodeIn(F, code, T)
<1> DEFINE C == {c \in X \X SUBSET Tokens : Tidy(c[1], c[2])}
<1>1. \A c \in C : Tidy(c[1], c[2])
  OBVIOUS
<1>2. ASSUME NEW i \in X, NEW T \in SUBSET Tokens, Tidy(i, T) PROVE <<i, T>> \in C
  BY <1>2
<1> HIDE DEF C
<1>3. PICK F : Tidies(F) /\ \A c \in C : TidyIn(F, c[1], c[2])
  BY <1>1, GatheredTidy
<1>4. ASSUME NEW i \in X, NEW T \in SUBSET Tokens, Tidy(i, T) PROVE TidyIn(F, i, T)
  <2> DEFINE c == <<i, T>>
  <2>1. c \in C
    BY <1>2, <1>4
  <2>2. c[1] = i /\ c[2] = T
    OBVIOUS
  <2> HIDE DEF c
  <2> QED BY <1>3, <2>1, <2>2
<1>5. ASSUME NEW code, \A k \in DOMAIN code : code[k] \in X, NEW T \in SUBSET Tokens,
             CodeTidy(code, T)
      PROVE  CodeIn(F, code, T)
  <2>1. CASE T = {} \/ Blames(code)
    BY <1>5, <2>1 DEF CodeTidy, CodeIn
  <2>2. CASE \A k \in DOMAIN code : Tidy(code[k], Where(code, k, T))
    <3>1. \A k \in DOMAIN code : TidyIn(F, code[k], Where(code, k, T))
      BY <1>4, <1>5, <2>2, WhereTokens
    <3> QED BY <1>5, <3>1 DEF CodeTidy, CodeIn
  <2> QED BY <1>5, <2>1, <2>2 DEF CodeTidy
<1> QED BY <1>3, <1>5

(* ------------------------- Which instructions are tidy ----------------- *)

LEMMA TidyPlain ==
  ASSUME NEW T \in SUBSET Tokens
  PROVE  /\ Tidy(Err, T) /\ Tidy(Leaf, T)
         /\ \A x : /\ Tidy(Node(x), T) /\ Tidy(NoteImport(x), T) /\ Tidy(Climb(x), T)
                   /\ Tidy([op |-> "call_bp", of |-> x], T)
         /\ \A p \in Lookers : Tidy(Call(p), T)
         /\ T \cap Stops = {} => Tidy(Adv, T) /\ \A p \in Takers : Tidy(Call(p), T)
<1> DEFINE F == {}
<1>1. Tidies(F)
  BY DEF Tidies
<1>2. /\ Asks(F, Err, T) /\ Asks(F, Leaf, T)
      /\ \A x : /\ Asks(F, Node(x), T) /\ Asks(F, NoteImport(x), T) /\ Asks(F, Climb(x), T)
                /\ Asks(F, [op |-> "call_bp", of |-> x], T)
      /\ \A p \in Lookers : Asks(F, Call(p), T)
      /\ T \cap Stops = {} => Asks(F, Adv, T) /\ \A p \in Takers : Asks(F, Call(p), T)
  BY DEF Asks, Adv, Err, Leaf, Node, NoteImport, Climb, Call
<1> HIDE DEF F
<1> QED BY <1>1, <1>2, AddingTidy

LEMMA TidyLoop ==
  ASSUME NEW T \in SUBSET Tokens, NEW tokens, NEW body
  PROVE  /\ CodeTidy(body, Tokens \ tokens) => Tidy(Until(tokens, body), T)
         /\ CodeTidy(body, Tokens \cap tokens) => Tidy(While(tokens, body), T)
<1> DEFINE X == {body[k] : k \in DOMAIN body}
<1>1. \A k \in DOMAIN body : body[k] \in X
  OBVIOUS
<1> HIDE DEF X
<1>2. PICK F : /\ Tidies(F)
               /\ \A code : (\A k \in DOMAIN code : code[k] \in X) =>
                    \A S \in SUBSET Tokens : CodeTidy(code, S) => CodeIn(F, code, S)
  BY GatheredTidyCode
<1>3. Tokens \ tokens \in SUBSET Tokens /\ Tokens \cap tokens \in SUBSET Tokens
  OBVIOUS
<1>4. /\ CodeTidy(body, Tokens \ tokens) => CodeIn(F, body, Tokens \ tokens)
      /\ CodeTidy(body, Tokens \cap tokens) => CodeIn(F, body, Tokens \cap tokens)
  BY <1>1, <1>2, <1>3
<1>5. /\ Loops(Until(tokens, body)) = Tokens \ tokens
      /\ Loops(While(tokens, body)) = Tokens \cap tokens
  BY DEF Loops, Until, While
<1>6. /\ CodeTidy(body, Tokens \ tokens) => Asks(F, Until(tokens, body), T)
      /\ CodeTidy(body, Tokens \cap tokens) => Asks(F, While(tokens, body), T)
  BY <1>4, <1>5 DEF Asks, Until, While
<1> QED BY <1>2, <1>6, AddingTidy

LEMMA TidyMark ==
  ASSUME NEW T \in SUBSET Tokens, NEW body, CodeTidy(body, T), Eager(body)
  PROVE  Tidy(Forced(body), T)
<1> DEFINE X == {body[k] : k \in DOMAIN body}
<1>1. \A k \in DOMAIN body : body[k] \in X
  OBVIOUS
<1> HIDE DEF X
<1>2. PICK F : /\ Tidies(F)
               /\ \A code : (\A k \in DOMAIN code : code[k] \in X) =>
                    \A S \in SUBSET Tokens : CodeTidy(code, S) => CodeIn(F, code, S)
  BY GatheredTidyCode
<1>3. CodeIn(F, body, T)
  BY <1>1, <1>2
<1>4. Asks(F, Forced(body), T)
  BY <1>3 DEF Asks, Forced
<1> QED BY <1>2, <1>4, AddingTidy

LEMMA TidyTest ==
  ASSUME NEW T \in SUBSET Tokens, NEW yes, NEW no, CodeTidy(yes, T), CodeTidy(no, T)
  PROVE  Tidy(IfAtomic(yes, no), T)
<1> DEFINE X == {yes[k] : k \in DOMAIN yes} \cup {no[k] : k \in DOMAIN no}
<1>1. (\A k \in DOMAIN yes : yes[k] \in X) /\ (\A k \in DOMAIN no : no[k] \in X)
  OBVIOUS
<1> HIDE DEF X
<1>2. PICK F : /\ Tidies(F)
               /\ \A code : (\A k \in DOMAIN code : code[k] \in X) =>
                    \A S \in SUBSET Tokens : CodeTidy(code, S) => CodeIn(F, code, S)
  BY GatheredTidyCode
<1>3. CodeIn(F, yes, T) /\ CodeIn(F, no, T)
  BY <1>1, <1>2
<1>4. Asks(F, IfAtomic(yes, no), T)
  BY <1>3 DEF Asks, IfAtomic
<1> QED BY <1>2, <1>4, AddingTidy

LEMMA TidyPeek ==
  ASSUME NEW T \in SUBSET Tokens, NEW yes
  PROVE  Tidy(IfPeeked("Colons", yes), T)
<1> DEFINE F == {}
<1>1. Tidies(F)
  BY DEF Tidies
<1>2. Asks(F, IfPeeked("Colons", yes), T)
  BY DEF Asks, IfPeeked
<1> HIDE DEF F
<1> QED BY <1>1, <1>2, AddingTidy

TidyArm(arm) == CodeTidy(arm[2], arm[1] \cap Tokens)
TidyArms(arms) == IsSeq(arms) /\ \A k \in DOMAIN arms : TidyArm(arms[k])

LEMMA TidySwitch ==
  ASSUME NEW T \in SUBSET Tokens, NEW arms, NEW default, TidyArms(arms), CodeTidy(default, T)
  PROVE  Tidy(Switch(arms, default), T)
<1> DEFINE Y == [k \in DOMAIN arms |-> {arms[k][2][l] : l \in DOMAIN arms[k][2]}]
           Z == {default[l] : l \in DOMAIN default}
           W == {Y[k] : k \in DOMAIN arms}
           X == (UNION W) \cup Z
<1>1. /\ \A k \in DOMAIN arms : \A l \in DOMAIN arms[k][2] : arms[k][2][l] \in X
      /\ \A l \in DOMAIN default : default[l] \in X
  <2>1. \A k \in DOMAIN arms : \A l \in DOMAIN arms[k][2] : arms[k][2][l] \in Y[k]
    OBVIOUS
  <2>2. \A l \in DOMAIN default : default[l] \in Z
    OBVIOUS
  <2> HIDE DEF Y, Z
  <2>3. \A k \in DOMAIN arms : Y[k] \in W
    OBVIOUS
  <2> HIDE DEF W
  <2>4. ASSUME NEW k \in DOMAIN arms, NEW l \in DOMAIN arms[k][2]
        PROVE  arms[k][2][l] \in X
    <3> DEFINE x == arms[k][2][l]
    <3>1. x \in Y[k] /\ Y[k] \in W
      BY <2>1, <2>3
    <3> HIDE DEF x
    <3>2. x \in X
      BY <3>1
    <3> QED BY <3>2 DEF x
  <2>5. \A l \in DOMAIN default : default[l] \in X
    BY <2>2
  <2> QED BY <2>4, <2>5
<1> HIDE DEF X
<1>2. PICK F : /\ Tidies(F)
               /\ \A code : (\A k \in DOMAIN code : code[k] \in X) =>
                    \A S \in SUBSET Tokens : CodeTidy(code, S) => CodeIn(F, code, S)
  BY GatheredTidyCode
<1>3. CodeIn(F, default, T)
  BY <1>1, <1>2
<1>4. ASSUME NEW k \in DOMAIN arms PROVE CodeIn(F, arms[k][2], arms[k][1] \cap Tokens)
  <2> DEFINE S == arms[k][1] \cap Tokens
             code == arms[k][2]
  <2>1. CodeTidy(code, S) /\ S \in SUBSET Tokens /\ (\A l \in DOMAIN code : code[l] \in X)
    BY <1>1 DEF TidyArms, TidyArm
  <2> HIDE DEF S, code
  <2>2. CodeIn(F, code, S)
    BY <1>2, <2>1
  <2> QED BY <2>2 DEF S, code
<1> DEFINE i == Switch(arms, default)
<1>5. i.op = "switch" /\ i.of = arms /\ i.else = default
  BY DEF Switch
<1>6. IsSeq(arms)
  BY DEF TidyArms
<1> HIDE DEF i
<1>7. Asks(F, i, T)
  BY <1>3, <1>4, <1>5, <1>6 DEF Asks
<1>8. Tidy(i, T)
  BY <1>2, <1>7, AddingTidy
<1> QED BY <1>8 DEF i

(* ----------------------------- Code that is tidy ----------------------- *)

LEMMA EmptyTidy == AllTidy(<< >>) /\ \A T : CodeTidy(<< >>, T)
BY DEF AllTidy, CodeTidy, IsSeq

LEMMA AnyTidy ==
  ASSUME NEW code, AllTidy(code), NEW T \in SUBSET Tokens
  PROVE  CodeTidy(code, T)
BY WhereTokens, TidyMore DEF AllTidy, CodeTidy

LEMMA NeverTidy ==
  ASSUME NEW code, IsSeq(code)
  PROVE  CodeTidy(code, {})
BY DEF CodeTidy

LEMMA BlameTidy ==
  ASSUME NEW code, IsSeq(code), Blames(code), NEW T
  PROVE  CodeTidy(code, T)
BY DEF CodeTidy

(* All but the first instruction are tidy at any token.                    *)
Later(code) == IsSeq(code) /\ \A k \in DOMAIN code : k = 1 \/ Tidy(code[k], Tokens)

LEMMA LaterTidy ==
  ASSUME NEW code, Later(code), NEW T \in SUBSET Tokens, Tidy(code[1], T)
  PROVE  CodeTidy(code, T)
<1>1. ASSUME NEW k \in DOMAIN code PROVE Tidy(code[k], Where(code, k, T))
  <2>1. CASE k = 1
    BY <2>1 DEF Where
  <2>2. CASE k # 1
    BY <2>2, WhereTokens, TidyMore DEF Later
  <2> QED BY <2>1, <2>2
<1> QED BY <1>1 DEF CodeTidy, Later

LEMMA TidyOne ==
  ASSUME NEW T \in SUBSET Tokens, NEW a, Tidy(a, T)
  PROVE  CodeTidy(<<a>>, T) /\ (Tidy(a, Tokens) => AllTidy(<<a>>))
<1>1. Later(<<a>>) /\ <<a>>[1] = a
  BY DEF Later, IsSeq
<1> QED BY <1>1, LaterTidy DEF AllTidy, IsSeq

LEMMA TidyTwo ==
  ASSUME NEW T \in SUBSET Tokens, NEW a, Tidy(a, T), NEW b, Tidy(b, Tokens)
  PROVE  CodeTidy(<<a, b>>, T) /\ (Tidy(a, Tokens) => AllTidy(<<a, b>>))
<1>1. Later(<<a, b>>) /\ <<a, b>>[1] = a
  BY DEF Later, IsSeq
<1> QED BY <1>1, LaterTidy DEF AllTidy, IsSeq

LEMMA TidyThree ==
  ASSUME NEW T \in SUBSET Tokens, NEW a, Tidy(a, T), NEW b, Tidy(b, Tokens),
         NEW c, Tidy(c, Tokens)
  PROVE  CodeTidy(<<a, b, c>>, T) /\ (Tidy(a, Tokens) => AllTidy(<<a, b, c>>))
<1>1. Later(<<a, b, c>>) /\ <<a, b, c>>[1] = a
  BY DEF Later, IsSeq
<1> QED BY <1>1, LaterTidy DEF AllTidy, IsSeq

LEMMA TidyFour ==
  ASSUME NEW T \in SUBSET Tokens, NEW a, Tidy(a, T), NEW b, Tidy(b, Tokens),
         NEW c, Tidy(c, Tokens), NEW d, Tidy(d, Tokens)
  PROVE  CodeTidy(<<a, b, c, d>>, T) /\ (Tidy(a, Tokens) => AllTidy(<<a, b, c, d>>))
<1>1. Later(<<a, b, c, d>>) /\ <<a, b, c, d>>[1] = a
  BY DEF Later, IsSeq
<1> QED BY <1>1, LaterTidy DEF AllTidy, IsSeq

LEMMA TidyFive ==
  ASSUME NEW T \in SUBSET Tokens, NEW a, Tidy(a, T), NEW b, Tidy(b, Tokens),
         NEW c, Tidy(c, Tokens), NEW d, Tidy(d, Tokens), NEW e, Tidy(e, Tokens)
  PROVE  CodeTidy(<<a, b, c, d, e>>, T) /\ (Tidy(a, Tokens) => AllTidy(<<a, b, c, d, e>>))
<1>1. Later(<<a, b, c, d, e>>) /\ <<a, b, c, d, e>>[1] = a
  BY DEF Later, IsSeq
<1> QED BY <1>1, LaterTidy DEF AllTidy, IsSeq

LEMMA TidySix ==
  ASSUME NEW T \in SUBSET Tokens, NEW a, Tidy(a, T), NEW b, Tidy(b, Tokens),
         NEW c, Tidy(c, Tokens), NEW d, Tidy(d, Tokens), NEW e, Tidy(e, Tokens),
         NEW f, Tidy(f, Tokens)
  PROVE  CodeTidy(<<a, b, c, d, e, f>>, T) /\ (Tidy(a, Tokens) => AllTidy(<<a, b, c, d, e, f>>))
<1>1. Later(<<a, b, c, d, e, f>>) /\ <<a, b, c, d, e, f>>[1] = a
  BY DEF Later, IsSeq
<1> QED BY <1>1, LaterTidy DEF AllTidy, IsSeq

(* An instruction that leaves the current token, and what needs to know it. *)
LEMMA NotedTidy ==
  ASSUME NEW T \in SUBSET Tokens, NEW a, a.op \in {"leaf", "import"}, Tidy(a, T),
         NEW b, Tidy(b, T)
  PROVE  CodeTidy(<<a, b>>, T) /\ \A c : Tidy(c, Tokens) => CodeTidy(<<a, b, c>>, T)
<1>1. ASSUME NEW code, IsSeq(code), code[1] = a, code[2] = b,
             \A k \in DOMAIN code : k \in {1, 2} \/ Tidy(code[k], Tokens)
      PROVE  CodeTidy(code, T)
  <2>1. ASSUME NEW k \in DOMAIN code PROVE Tidy(code[k], Where(code, k, T))
    <3>1. CASE k = 1
      BY <1>1, <3>1 DEF Where
    <3>2. CASE k = 2
      <4>1. ~IsCheck(a)
        BY DEF IsCheck, When, Switch
      <4>2. Where(code, 2, T) = T
        BY <1>1, <4>1 DEF Where
      <4> QED BY <1>1, <3>2, <4>2
    <3>3. CASE k \notin {1, 2}
      BY <1>1, <3>3, WhereTokens, TidyMore
    <3> QED BY <3>1, <3>2, <3>3
  <2> QED BY <1>1, <2>1 DEF CodeTidy
<1>2. /\ IsSeq(<<a, b>>) /\ <<a, b>>[1] = a /\ <<a, b>>[2] = b
      /\ \A k \in DOMAIN <<a, b>> : k \in {1, 2} \/ Tidy(<<a, b>>[k], Tokens)
  BY DEF IsSeq
<1>3. ASSUME NEW c, Tidy(c, Tokens)
      PROVE  /\ IsSeq(<<a, b, c>>) /\ <<a, b, c>>[1] = a /\ <<a, b, c>>[2] = b
             /\ \A k \in DOMAIN <<a, b, c>> : k \in {1, 2} \/ Tidy(<<a, b, c>>[k], Tokens)
  BY <1>3 DEF IsSeq
<1> QED BY <1>1, <1>2, <1>3

LEMMA AllTidyBoth ==
  ASSUME NEW s, NEW t, AllTidy(s), AllTidy(t)
  PROVE  AllTidy(s \o t)
<1>1. IsSeq(s) /\ IsSeq(t)
  BY DEF AllTidy
<1> DEFINE u == s \o t
<1>2. Joined(s, t, u)
  BY <1>1, ConcatSeq
<1> HIDE DEF u
<1>3. IsSeq(u) /\ DOMAIN u = 1..(Len(s) + Len(t)) /\ Len(s) \in Nat /\ Len(t) \in Nat
      /\ DOMAIN s = 1..Len(s) /\ DOMAIN t = 1..Len(t)
  BY <1>1, <1>2, SeqFacts DEF Joined
<1>4. ASSUME NEW k \in DOMAIN u PROVE Tidy(u[k], Tokens)
  <2>1. CASE k <= Len(s)
    <3>1. k \in DOMAIN s /\ u[k] = s[k]
      BY <1>2, <1>3, <2>1 DEF Joined
    <3> QED BY <3>1 DEF AllTidy
  <2>2. CASE ~(k <= Len(s))
    <3> DEFINE l == k - Len(s)
    <3>1. l \in DOMAIN t /\ k = Len(s) + l
      BY <1>3, <2>2
    <3> HIDE DEF l
    <3>2. u[k] = t[l]
      BY <1>2, <3>1 DEF Joined
    <3> QED BY <3>1, <3>2 DEF AllTidy
  <2> QED BY <2>1, <2>2
<1>5. AllTidy(u)
  BY <1>3, <1>4 DEF AllTidy
<1> QED BY <1>5 DEF u

(* Within its first part, code knows of the current token what that part   *)
(* does.                                                                   *)
LEMMA WhereJoined ==
  ASSUME NEW s, NEW t, NEW u, Joined(s, t, u), IsSeq(s), NEW k \in DOMAIN s, NEW T
  PROVE  Where(u, k, T) = Where(s, k, T)
<1>1. DOMAIN s = 1..Len(s) /\ Len(s) \in Nat
  BY SeqFacts
<1>2. CASE k = 1
  BY <1>2 DEF Where
<1>3. CASE k # 1
  <2>1. 1 \in DOMAIN s /\ k - 1 \in DOMAIN s
    BY <1>1, <1>3
  <2>2. u[1] = s[1] /\ u[k - 1] = s[k - 1]
    BY <2>1 DEF Joined
  <2> QED BY <2>2 DEF Where
<1> QED BY <1>2, <1>3

LEMMA BlamesJoined ==
  ASSUME NEW s, IsSeq(s), Blames(s), NEW t, IsSeq(t)
  PROVE  Blames(s \o t) /\ IsSeq(s \o t)
<1> DEFINE u == s \o t
<1>1. Joined(s, t, u)
  BY ConcatSeq
<1>2. Len(s) \in Nat /\ Len(t) \in Nat /\ 1 \in DOMAIN s
  BY SeqFacts DEF Blames
<1> HIDE DEF u
<1>3. Blames(u) /\ IsSeq(u)
  BY <1>1, <1>2 DEF Blames, Joined
<1> QED BY <1>3 DEF u

LEMMA CodeThen ==
  ASSUME NEW s, NEW T \in SUBSET Tokens, CodeTidy(s, T), NEW t, AllTidy(t)
  PROVE  CodeTidy(s \o t, T)
<1>1. IsSeq(s) /\ IsSeq(t)
  BY DEF AllTidy, CodeTidy
<1> DEFINE u == s \o t
<1>2. Joined(s, t, u)
  BY <1>1, ConcatSeq
<1>3. CASE T = {}
  BY <1>2, <1>3 DEF CodeTidy, Joined
<1>4. CASE Blames(s)
  BY <1>1, <1>4, BlamesJoined, BlameTidy
<1>5. CASE \A k \in DOMAIN s : Tidy(s[k], Where(s, k, T))
  <2> HIDE DEF u
  <2>1. IsSeq(u) /\ DOMAIN u = 1..(Len(s) + Len(t)) /\ Len(s) \in Nat /\ Len(t) \in Nat
        /\ DOMAIN s = 1..Len(s) /\ DOMAIN t = 1..Len(t)
    BY <1>1, <1>2, SeqFacts DEF Joined
  <2>2. ASSUME NEW k \in DOMAIN u PROVE Tidy(u[k], Where(u, k, T))
    <3>1. CASE k <= Len(s)
      <4>1. k \in DOMAIN s /\ u[k] = s[k]
        BY <1>2, <2>1, <3>1 DEF Joined
      <4> QED BY <1>1, <1>2, <1>5, <4>1, WhereJoined
    <3>2. CASE ~(k <= Len(s))
      <4> DEFINE l == k - Len(s)
      <4>1. l \in DOMAIN t /\ k = Len(s) + l
        BY <2>1, <3>2
      <4> HIDE DEF l
      <4>2. u[k] = t[l] /\ Tidy(t[l], Tokens)
        BY <1>2, <4>1 DEF Joined, AllTidy
      <4> QED BY <4>2, WhereTokens, TidyMore
    <3> QED BY <3>1, <3>2
  <2>3. CodeTidy(u, T)
    BY <2>1, <2>2 DEF CodeTidy
  <2> QED BY <2>3 DEF u
<1> QED BY <1>3, <1>4, <1>5 DEF CodeTidy

(* Code that consumes the current token first.                             *)
LEMMA TakeTidy ==
  ASSUME NEW T \in SUBSET Tokens, T \cap Stops = {}, NEW rest, AllTidy(rest)
  PROVE  CodeTidy(<<Adv>> \o rest, T) /\ CodeTidy(<<Adv>>, T)
BY TidyPlain, TidyOne, CodeThen

(* Sets of tokens that code may consume without looking further.           *)
LEMMA NotStops ==
  /\ Names \cap Stops = {} /\ Assigns \cap Stops = {} /\ Infix \cap Stops = {}
  /\ Words \cap Stops = {} /\ Numbers \cap Stops = {} /\ Texts \cap Stops = {}
  /\ Literals \cap Stops = {} /\ (Names \cup {"Stars"}) \cap Stops = {}
  /\ \A t : t # "Ends" /\ t # EOFs => {t} \cap Stops = {}
BY DEF Stops, EOFs, Names, Assigns, Infix, Words, Numbers, Texts, Literals

(* What may follow at the tokens of an arm.                                *)
LEMMA SeenTokens ==
  ASSUME NEW tokens
  PROVE  /\ tokens \cap Tokens \in SUBSET Tokens
         /\ tokens \cap Stops = {} => (tokens \cap Tokens) \cap Stops = {}
         /\ tokens \subseteq Unread => tokens \cap Tokens = {}
BY DEF Tokens

LEMMA ArmTidy ==
  ASSUME NEW tokens, NEW code
  PROVE  /\ CodeTidy(code, tokens \cap Tokens) => TidyArm(On(tokens, code))
         /\ AllTidy(code) => TidyArm(On(tokens, code))
         /\ IsSeq(code) /\ tokens \subseteq Unread => TidyArm(On(tokens, code))
BY SeenTokens, AnyTidy, NeverTidy DEF TidyArm, On

(* Arms that consume the current token, or call a procedure that does.     *)
LEMMA SafeArm ==
  ASSUME NEW tokens, tokens \cap Stops = {}
  PROVE  /\ Tidy(Adv, tokens \cap Tokens)
         /\ \A p \in Takers : /\ Tidy(Call(p), tokens \cap Tokens)
                              /\ TidyArm(On(tokens, <<Call(p)>>))
         /\ TidyArm(On(tokens, <<Adv>>))
         /\ \A rest : AllTidy(rest) => TidyArm(On(tokens, <<Adv>> \o rest))
BY SeenTokens, TidyPlain, TidyOne, TakeTidy, ArmTidy

LEMMA WhenTidy ==
  ASSUME NEW T \in SUBSET Tokens, NEW tokens, NEW yes, NEW no,
         TidyArm(On(tokens, yes)), CodeTidy(no, T)
  PROVE  Tidy(When(tokens, yes, no), T)
<1>1. TidyArms(<<On(tokens, yes)>>)
  BY DEF TidyArms, IsSeq
<1> QED BY <1>1, TidySwitch DEF When

LEMMA IsSeqTuple ==
  /\ IsSeq(<< >>) /\ (\A a : IsSeq(<<a>>)) /\ (\A a, b : IsSeq(<<a, b>>))
  /\ \A a, b, c : IsSeq(<<a, b, c>>)
BY DEF IsSeq

(* Code that reports first.                                                *)
LEMMA ErrTidy ==
  ASSUME NEW T
  PROVE  /\ CodeTidy(<<Err>>, T) /\ (\A a : CodeTidy(<<Err, a>>, T))
         /\ \A a, b : CodeTidy(<<Err, a, b>>, T)
         /\ CodeTidy(<<Err>> \o parser_sync, T)
         /\ CodeTidy(<<Err>> \o parser_sync \o <<Leave>>, T)
<1>1. Blames(<<Err>>) /\ (\A a : Blames(<<Err, a>>)) /\ (\A a, b : Blames(<<Err, a, b>>))
  BY DEF Blames
<1>2. IsSeq(parser_sync) /\ IsSeq(<<Err>>) /\ IsSeq(<<Leave>>)
  BY IsSeqTuple DEF parser_sync
<1>3. Blames(<<Err>> \o parser_sync) /\ IsSeq(<<Err>> \o parser_sync)
  BY <1>1, <1>2, BlamesJoined
<1>4. /\ Blames((<<Err>> \o parser_sync) \o <<Leave>>)
      /\ IsSeq((<<Err>> \o parser_sync) \o <<Leave>>)
  BY <1>2, <1>3, BlamesJoined
<1> QED BY <1>1, <1>2, <1>3, <1>4, IsSeqTuple, BlameTidy

LEMMA WantTidy ==
  ASSUME NEW T \in SUBSET Tokens
  PROVE  /\ \A tokens : tokens \cap Stops = {} =>
              Tidy(Want(tokens), T) /\ Tidy(Opt(tokens), T) /\ Tidy(Must(tokens), T)
         /\ Tidy(Comma, T) /\ Tidy(parser_ordering, T)
<1>1. ASSUME NEW tokens, tokens \cap Stops = {}
      PROVE  Tidy(Want(tokens), T) /\ Tidy(Opt(tokens), T) /\ Tidy(Must(tokens), T)
  BY <1>1, SafeArm, ErrTidy, EmptyTidy, WhenTidy DEF Want, Opt, Must
<1> QED BY <1>1, NotStops DEF Comma, parser_ordering, EOFs

LEMMA ExpectTidy ==
  ASSUME NEW T \in SUBSET Tokens
  PROVE  /\ \A t : t # "Ends" /\ t # EOFs => Tidy(parser_expect(t), T)
         /\ Tidy(CloseParen, T) /\ Tidy(CloseBracket, T)
<1>1. ASSUME NEW t, t # "Ends", t # EOFs PROVE Tidy(parser_expect(t), T)
  <2>1. {t} \cap Stops = {}
    BY <1>1, NotStops
  <2> QED BY <2>1, SafeArm, ErrTidy, WhenTidy DEF parser_expect
<1> QED BY <1>1 DEF CloseParen, CloseBracket, EOFs

(* An option: a token, and what follows it.                                *)
LEMMA OptionTidy ==
  ASSUME NEW T \in SUBSET Tokens, NEW tokens, tokens \cap Stops = {}, NEW rest, AllTidy(rest)
  PROVE  Tidy(When(tokens, <<Adv>> \o rest, << >>), T)
BY SafeArm, EmptyTidy, WhenTidy

LEMMA LookersTidy == \A p \in Lookers : Tidy(Call(p), Tokens)
BY TidyPlain

(* Every token, and those the current one is known to be among.            *)
LEMMA TokensAll ==
  Tokens \in SUBSET Tokens /\ \A S : Tokens \ S \in SUBSET Tokens /\ Tokens \cap S \in SUBSET Tokens
OBVIOUS

LEMMA AnyLoop ==
  ASSUME NEW T \in SUBSET Tokens, NEW tokens, NEW body, AllTidy(body)
  PROVE  Tidy(Until(tokens, body), T) /\ Tidy(While(tokens, body), T)
BY TokensAll, AnyTidy, TidyLoop

LEMMA NamesTidy ==
  ASSUME NEW T \in SUBSET Tokens
  PROVE  /\ AllTidy(Bound)
         /\ Tidy(GenericParams, T) /\ Tidy(GenericArgs, T)
         /\ Tidy(Bracketed, T)
<1>1. AllTidy(Bound)
  <2>1. TidyArm(On({"Colons"}, <<Adv, Want(Names)>>))
    <3>1. {"Colons"} \cap Stops = {}
      BY NotStops DEF EOFs
    <3>2. Tidy(Adv, {"Colons"} \cap Tokens) /\ Tidy(Want(Names), Tokens)
      BY <3>1, SafeArm, WantTidy, NotStops, TokensAll
    <3> QED BY <3>2, TidyTwo, ArmTidy, SeenTokens
  <2> QED BY <2>1, WhenTidy, EmptyTidy, TidyOne, TokensAll DEF Bound
<1>2. ASSUME NEW names, names \cap Stops = {}, NEW bound, AllTidy(bound)
      PROVE  TidyArm(On({"LeftBrackets"}, NameList(names, bound)))
  <2>1. TidyArms(<<On(names, <<Adv>> \o bound), On({"Commas"}, <<Adv>>)>>)
    <3>1. TidyArm(On(names, <<Adv>> \o bound)) /\ TidyArm(On({"Commas"}, <<Adv>>))
      BY <1>2, SafeArm, NotStops DEF EOFs
    <3> QED BY <3>1, IsSeqTuple DEF TidyArms
  <2>2. AllTidy(<<Switch(<<On(names, <<Adv>> \o bound), On({"Commas"}, <<Adv>>)>>, <<Err, Adv>>)>>)
    BY <2>1, ErrTidy, TidySwitch, TidyOne, TokensAll
  <2>3. {"LeftBrackets"} \cap Stops = {}
    BY NotStops DEF EOFs
  <2>4. CodeTidy(NameList(names, bound), {"LeftBrackets"} \cap Tokens)
    <3> DEFINE S == {"LeftBrackets"} \cap Tokens
               loop == Until({"RightBrackets", EOFs},
                             <<Switch(<<On(names, <<Adv>> \o bound), On({"Commas"}, <<Adv>>)>>,
                                      <<Err, Adv>>)>>)
    <3>1. Tidy(Adv, S) /\ S \in SUBSET Tokens
      BY <2>3, SafeArm, SeenTokens
    <3>2. Tidy(loop, Tokens) /\ Tidy(CloseBracket, Tokens)
      BY <2>2, AnyLoop, ExpectTidy, TokensAll
    <3> HIDE DEF S, loop
    <3>3. CodeTidy(<<Adv, loop, CloseBracket>>, S)
      BY <3>1, <3>2, TidyThree
    <3> QED BY <3>3 DEF NameList, S, loop
  <2> QED BY <2>4, ArmTidy
<1>3. /\ TidyArm(On({"LeftBrackets"}, NameList(Names, Bound)))
      /\ TidyArm(On({"LeftBrackets"}, NameList(Names, << >>)))
      /\ TidyArm(On({"LeftBrackets"}, NameList(Numbers, << >>)))
  BY <1>1, <1>2, NotStops, EmptyTidy
<1> QED BY <1>1, <1>3, WhenTidy, EmptyTidy DEF GenericParams, GenericArgs, Bracketed

LEMMA ParamsTidy == AllTidy(Params) /\ AllTidy(MethodParams)
<1>1. ASSUME NEW special, AllTidy(special) PROVE AllTidy(ParamsAfter(special))
  <2> DEFINE name == NameOrLeave
  <2>1. Tidy(name, Tokens)
    BY SafeArm, NotStops, ErrTidy, WhenTidy, TokensAll DEF NameOrLeave
  <2>2. Tidy(Want({"Colons"}), Tokens) /\ Tidy(Call("parser_type"), Tokens) /\ Tidy(Comma, Tokens)
    BY WantTidy, NotStops, LookersTidy, TokensAll DEF Lookers, EOFs
  <2> HIDE DEF name
  <2>3. AllTidy(<<name, Want({"Colons"}), Call("parser_type"), Comma>>)
    BY <2>1, <2>2, TidyFour, TokensAll
  <2>4. AllTidy(special \o <<name, Want({"Colons"}), Call("parser_type"), Comma>>)
    BY <1>1, <2>3, AllTidyBoth
  <2> QED BY <2>4, AnyLoop, ExpectTidy, TidyTwo, TokensAll DEF ParamsAfter, NameOrLeave, name
<1>2. TidyArm(On({"Selfs"}, <<Adv, Comma, Again>>))
  BY ArmTidy, IsSeqTuple DEF Unread
<1>3. AllTidy(<<When({"Selfs"}, <<Adv, Comma, Again>>, << >>)>>)
  BY <1>2, WhenTidy, EmptyTidy, TidyOne, TokensAll
<1> QED BY <1>1, <1>3, EmptyTidy DEF Params, MethodParams

LEMMA ArgsTidy == AllTidy(PlainArgs) /\ AllTidy(NamedArgs) /\ AllTidy(TypesUpToParen)
<1>1. /\ Tidy(Comma, Tokens) /\ Tidy(CloseParen, Tokens)
      /\ Tidy(Call("parser_type"), Tokens) /\ Tidy(Call("parser_expr"), Tokens)
  BY WantTidy, ExpectTidy, LookersTidy, TokensAll DEF Lookers
<1>2. AllTidy(<<Call("parser_type"), Comma>>) /\ AllTidy(<<Call("parser_expr"), Comma>>)
  BY <1>1, TidyTwo, TokensAll
<1>3. Tidy(When(Names, <<IfPeeked("Colons", <<Adv, Adv>>)>>, << >>), Tokens)
  <2>1. AllTidy(<<IfPeeked("Colons", <<Adv, Adv>>)>>)
    BY TidyPeek, TidyOne, TokensAll
  <2> QED BY <2>1, ArmTidy, WhenTidy, EmptyTidy, TokensAll
<1>4. AllTidy(<<When(Names, <<IfPeeked("Colons", <<Adv, Adv>>)>>, << >>),
                Call("parser_expr"), Comma>>)
  BY <1>1, <1>3, TidyThree, TokensAll
<1> QED BY <1>1, <1>2, <1>4, AnyLoop, TidyTwo, TokensAll DEF PlainArgs, NamedArgs, TypesUpToParen

LEMMA BlocksTidy == (\A ends : Tidy(Block(ends), Tokens)) /\ Tidy(ForcedBlock, Tokens)
<1>1. AllTidy(<<Call("parser_stmt")>>)
  BY LookersTidy, TidyOne, TokensAll DEF Lookers
<1>2. Eager(<<Call("parser_stmt")>>)
  BY DEF Eager, Starter, Call
<1>3. AllTidy(<<Forced(<<Call("parser_stmt")>>)>>)
  BY <1>1, <1>2, AnyTidy, TidyMark, TidyOne, TokensAll
<1> QED BY <1>1, <1>3, AnyLoop, TokensAll DEF Block, ForcedBlock

(* ------------------------------ The procedures ------------------------- *)

(* The current token may be consumed by code that does not look at it.     *)
Safe(S) == S \in SUBSET Tokens /\ S \cap Stops = {}

LEMMA SafeFacts ==
  ASSUME NEW S, Safe(S)
  PROVE  /\ S \in SUBSET Tokens /\ Tidy(Adv, S)
         /\ \A rest : AllTidy(rest) => CodeTidy(<<Adv>> \o rest, S)
BY TidyPlain, TakeTidy DEF Safe

LEMMA SafeTokens ==
  ASSUME NEW tokens, tokens \cap Stops = {}
  PROVE  Safe(tokens \cap Tokens)
BY DEF Safe

LEMMA SafeOne ==
  ASSUME NEW t, t # "Ends", t # EOFs
  PROVE  Safe({t} \cap Tokens) /\ {t} \cap Stops = {}
BY NotStops, SafeTokens

(* A token, then code that is tidy at any.                                 *)
LEMMA TakesTidy ==
  ASSUME NEW S, Safe(S)
  PROVE  /\ CodeTidy(<<Adv>>, S)
         /\ \A a : Tidy(a, Tokens) => CodeTidy(<<Adv, a>>, S)
         /\ \A a, b : Tidy(a, Tokens) /\ Tidy(b, Tokens) => CodeTidy(<<Adv, a, b>>, S)
         /\ \A a, b, c : Tidy(a, Tokens) /\ Tidy(b, Tokens) /\ Tidy(c, Tokens)
              => CodeTidy(<<Adv, a, b, c>>, S)
         /\ \A a, b, c, d :
              Tidy(a, Tokens) /\ Tidy(b, Tokens) /\ Tidy(c, Tokens) /\ Tidy(d, Tokens)
              => CodeTidy(<<Adv, a, b, c, d>>, S)
         /\ \A a, b, c, d, e :
              /\ Tidy(a, Tokens) /\ Tidy(b, Tokens) /\ Tidy(c, Tokens) /\ Tidy(d, Tokens)
              /\ Tidy(e, Tokens)
              => CodeTidy(<<Adv, a, b, c, d, e>>, S)
<1>1. S \in SUBSET Tokens /\ Tidy(Adv, S)
  BY SafeFacts
<1> QED BY <1>1, TidyOne, TidyTwo, TidyThree, TidyFour, TidyFive, TidySix

(* A node for the current token, or an import noted, and then the token.   *)
LEMMA LeavesTidy ==
  ASSUME NEW S, Safe(S)
  PROVE  /\ CodeTidy(<<Leaf, Adv>>, S)
         /\ \A c : Tidy(c, Tokens) => CodeTidy(<<Leaf, Adv, c>>, S)
         /\ \A x : CodeTidy(<<NoteImport(x), Adv>>, S)
<1>1. S \in SUBSET Tokens /\ Tidy(Adv, S) /\ Tidy(Leaf, S) /\ \A x : Tidy(NoteImport(x), S)
  BY SafeFacts, TidyPlain
<1>2. ASSUME NEW a, a.op \in {"leaf", "import"}, Tidy(a, S)
      PROVE  CodeTidy(<<a, Adv>>, S) /\ \A c : Tidy(c, Tokens) => CodeTidy(<<a, Adv, c>>, S)
  <2> DEFINE b == Adv
  <2>2. Tidy(b, S)
    BY <1>1
  <2> HIDE DEF b
  <2>3. CodeTidy(<<a, b>>, S) /\ \A c : Tidy(c, Tokens) => CodeTidy(<<a, b, c>>, S)
    BY <1>1, <1>2, <2>2, NotedTidy
  <2> QED BY <2>3 DEF b
<1>3. Leaf.op = "leaf" /\ \A x : NoteImport(x).op = "import"
  BY DEF Leaf, NoteImport
<1>4. ASSUME NEW x PROVE CodeTidy(<<NoteImport(x), Adv>>, S)
  <2> DEFINE a == NoteImport(x)
  <2>1. Tidy(a, S) /\ a.op = "import"
    BY <1>1, <1>3
  <2> HIDE DEF a
  <2>2. CodeTidy(<<a, Adv>>, S)
    BY <1>2, <2>1
  <2> QED BY <2>2 DEF a
<1>5. CodeTidy(<<Leaf, Adv>>, S) /\ \A c : Tidy(c, Tokens) => CodeTidy(<<Leaf, Adv, c>>, S)
  <2> DEFINE a == Leaf
  <2>1. Tidy(a, S) /\ a.op = "leaf"
    BY <1>1, <1>3
  <2> HIDE DEF a
  <2>2. CodeTidy(<<a, Adv>>, S) /\ \A c : Tidy(c, Tokens) => CodeTidy(<<a, Adv, c>>, S)
    BY <1>2, <2>1
  <2> QED BY <2>2 DEF a
<1> QED BY <1>4, <1>5

(* What follows a call with its arguments.                                 *)
LEMMA ParenArgs ==
  /\ Tidy(When({"LeftParens"}, <<Adv>> \o PlainArgs, << >>), Tokens)
  /\ Tidy(When({"LeftParens"}, <<Adv>> \o NamedArgs, << >>), Tokens)
  /\ Tidy(When({"LeftParens"}, <<Adv>> \o TypesUpToParen, << >>), Tokens)
  /\ Tidy(When({"LeftParens"}, <<Adv>> \o Params, << >>), Tokens)
<1>1. {"LeftParens"} \cap Stops = {}
  BY NotStops DEF EOFs
<1> QED BY <1>1, OptionTidy, ArgsTidy, ParamsTidy, TokensAll

(* An annotation: a token, then a type.                                    *)
LEMMA ColonType ==
  /\ \A T \in SUBSET Tokens : Tidy(When({"Colons"}, <<Adv, Call("parser_type")>>, << >>), T)
  /\ Tidy(When({"Equalss"}, <<Adv, Call("parser_expr")>>, <<Err>>), Tokens)
<1>1. Tidy(Call("parser_type"), Tokens) /\ Tidy(Call("parser_expr"), Tokens)
  BY LookersTidy DEF Lookers
<1>2. /\ TidyArm(On({"Colons"}, <<Adv, Call("parser_type")>>))
      /\ TidyArm(On({"Equalss"}, <<Adv, Call("parser_expr")>>))
  BY <1>1, SafeOne, TakesTidy, ArmTidy DEF EOFs
<1> QED BY <1>2, WhenTidy, EmptyTidy, ErrTidy, TokensAll

LEMMA ExprTidy ==
  /\ AllTidy(parser_expr)
  /\ AllTidy(parser_index)
  /\ \A m : AllTidy(parser_expr_bp(m))
<1>1. /\ Tidy(Call("parser_expr"), Tokens) /\ Tidy(Call("parser_expr_primary"), Tokens)
      /\ Tidy(Call("parser_type"), Tokens)
  BY LookersTidy DEF Lookers
<1>2. TidyArm(On({"Ass"}, <<Adv, Call("parser_type"), Node("Ass")>>))
  BY <1>1, SafeOne, TakesTidy, ArmTidy, TidyPlain, TokensAll DEF EOFs
<1>3. Tidy(When({"Ass"}, <<Adv, Call("parser_type"), Node("Ass")>>, << >>), Tokens)
  BY <1>2, WhenTidy, EmptyTidy, TokensAll
<1>4. \A m : AllTidy(parser_expr_bp(m))
  BY <1>1, <1>3, TidyPlain, TidyThree, TokensAll DEF parser_expr_bp
<1>5. AllTidy(parser_expr)
  BY TidyPlain, TidyOne, TokensAll DEF parser_expr
<1>6. AllTidy(parser_index)
  BY <1>1, ExpectTidy, TidyTwo, TokensAll DEF parser_index
<1> QED BY <1>4, <1>5, <1>6

LEMMA LiteralTidy ==
  ASSUME NEW S, Safe(S)
  PROVE  CodeTidy(parser_literal, S)
<1> DEFINE name == NameOrLeave
           loop == Until({"RightBraces", EOFs},
                         <<name, Want({"Equalss"}), Call("parser_expr"), Comma>>)
<1>1. Tidy(name, Tokens)
  BY SafeArm, NotStops, ErrTidy, WhenTidy, TokensAll DEF NameOrLeave
<1>2. Tidy(Want({"Equalss"}), Tokens) /\ Tidy(Call("parser_expr"), Tokens) /\ Tidy(Comma, Tokens)
  BY WantTidy, SafeOne, LookersTidy, TokensAll DEF Lookers, EOFs
<1> HIDE DEF name
<1>3. AllTidy(<<name, Want({"Equalss"}), Call("parser_expr"), Comma>>)
  BY <1>1, <1>2, TidyFour, TokensAll
<1>4. Tidy(loop, Tokens) /\ Tidy(parser_expect("RightBraces"), Tokens)
  BY <1>3, AnyLoop, ExpectTidy, TokensAll DEF EOFs
<1> HIDE DEF loop
<1>5. CodeTidy(<<Adv, loop, parser_expect("RightBraces")>>, S)
  BY <1>4, TakesTidy
<1> QED BY <1>5 DEF parser_literal, loop, name, NameOrLeave

LEMMA CallTidy ==
  /\ AllTidy(parser_function_call)
  /\ \A S : Safe(S) => CodeTidy(parser_method_calls, S)
<1>1. Tidy(parser_expect("LeftParens"), Tokens) /\ Tidy(Bracketed, Tokens)
  BY ExpectTidy, NamesTidy, TokensAll DEF EOFs
<1>2. AllTidy(<<Bracketed, parser_expect("LeftParens")>> \o NamedArgs)
  BY <1>1, TidyTwo, ArgsTidy, AllTidyBoth, TokensAll
<1>3. AllTidy(parser_function_call)
  BY <1>2 DEF parser_function_call, Bracketed
<1>4. ASSUME NEW S, Safe(S) PROVE CodeTidy(parser_method_calls, S)
  <2>1. Tidy(Want(Names), Tokens) /\ Tidy(GenericArgs, Tokens)
    BY WantTidy, NotStops, NamesTidy, TokensAll
  <2> QED BY <1>4, <2>1, ParenArgs, TakesTidy DEF parser_method_calls
<1> QED BY <1>3, <1>4

LEMMA BuiltinTidy ==
  ASSUME NEW S, Safe(S)
  PROVE  CodeTidy(parser_builtin_function, S)
<1>1. {"LeftBrackets"} \cap Stops = {}
  BY NotStops DEF EOFs
<1>2. Tidy(When({"LeftBrackets"}, <<Adv>>, <<Err, Back>>), Tokens)
  BY <1>1, SafeArm, ErrTidy, WhenTidy, TokensAll
<1>3. Tidy(When({"LeftParens"}, <<Adv, CloseParen>>, << >>), Tokens)
  <2>1. TidyArm(On({"LeftParens"}, <<Adv, CloseParen>>))
    BY SafeOne, TakesTidy, ArmTidy, ExpectTidy, TokensAll DEF EOFs
  <2> QED BY <2>1, WhenTidy, EmptyTidy, TokensAll
<1>4. Tidy(Call("parser_type"), Tokens) /\ Tidy(CloseBracket, Tokens)
  BY LookersTidy, ExpectTidy, TokensAll DEF Lookers
<1> QED BY <1>2, <1>3, <1>4, TakesTidy DEF parser_builtin_function

LEMMA NamePrimaryTidy == TidyArm(On(Names, NamePrimary))
<1> DEFINE S == Names \cap Tokens
           inner == When({"LeftParens"}, <<Call("parser_function_call")>>, <<Call("parser_index")>>)
           arms == <<On({"LeftBraces"}, <<Call("parser_literal")>>),
                     On({"LeftParens"}, <<Call("parser_function_call")>>),
                     On({"Dots"}, <<Call("parser_method_calls")>>),
                     On({"LeftBrackets"}, <<Adv, inner>>)>>
           switch == Switch(arms, << >>)
<1>1. AllTidy(<<Call("parser_function_call")>>) /\ AllTidy(<<Call("parser_index")>>)
  BY LookersTidy, TidyOne, TokensAll DEF Lookers
<1>2. Tidy(inner, Tokens)
  BY <1>1, ArmTidy, WhenTidy, AnyTidy, TokensAll
<1>3. /\ TidyArm(On({"LeftBraces"}, <<Call("parser_literal")>>))
      /\ TidyArm(On({"Dots"}, <<Call("parser_method_calls")>>))
  BY SafeOne, SafeArm DEF Takers, EOFs
<1> HIDE DEF inner
<1>4. /\ TidyArm(On({"LeftParens"}, <<Call("parser_function_call")>>))
      /\ TidyArm(On({"LeftBrackets"}, <<Adv, inner>>))
  BY <1>1, <1>2, SafeOne, TakesTidy, ArmTidy DEF EOFs
<1>5. TidyArms(arms)
  BY <1>3, <1>4 DEF TidyArms, IsSeq
<1> HIDE DEF arms
<1>6. Tidy(switch, Tokens)
  BY <1>5, TidySwitch, EmptyTidy, TokensAll
<1> HIDE DEF switch
<1>7. CodeTidy(<<Leaf, Adv, switch>>, S)
  BY <1>6, NotStops, SafeTokens, LeavesTidy
<1> QED BY <1>7, ArmTidy DEF NamePrimary, S, switch, arms, inner

LEMMA PrimaryTidy == AllTidy(parser_expr_primary)
<1>1. ASSUME NEW t \in {"Ampersands", "Minuss", "Nots", "Tildes"}
      PROVE  TidyArm(Prefix(t))
  <2>1. Tidy(Call("parser_expr_primary"), Tokens) /\ Tidy(Node(PrefixNode(t)), Tokens)
    BY LookersTidy, TidyPlain, TokensAll DEF Lookers
  <2>2. Safe({t} \cap Tokens)
    BY SafeOne DEF EOFs
  <2> QED BY <2>1, <2>2, TakesTidy, ArmTidy DEF Prefix
<1>2. TidyArm(On({"LeftParens"}, <<Adv, Call("parser_expr"), CloseParen>>))
  <2>1. Tidy(Call("parser_expr"), Tokens) /\ Tidy(CloseParen, Tokens)
    BY LookersTidy, ExpectTidy, TokensAll DEF Lookers
  <2> QED BY <2>1, SafeOne, TakesTidy, ArmTidy DEF EOFs
<1>3. TidyArm(On(Literals, <<Leaf, Adv>>))
  BY NotStops, SafeTokens, LeavesTidy, ArmTidy
<1>4. TidyArm(On({"Selfs"}, SelfPrimary))
  BY ArmTidy, IsSeqTuple DEF SelfPrimary, Unread
<1>5. TidyArm(On({"Fn_Sizes"}, <<Call("parser_builtin_function")>>))
  BY SafeOne, SafeArm DEF Takers, EOFs
<1>6. TidyArm(On({EOFs}, <<Err>>))
  BY ErrTidy, ArmTidy
<1> DEFINE arms == <<Prefix("Ampersands"), Prefix("Minuss"), Prefix("Nots"), Prefix("Tildes"),
                     On({"LeftParens"}, <<Adv, Call("parser_expr"), CloseParen>>),
                     On(Literals, <<Leaf, Adv>>),
                     On({"Selfs"}, SelfPrimary),
                     On({"Fn_Sizes"}, <<Call("parser_builtin_function")>>),
                     On(Names, NamePrimary),
                     On({EOFs}, <<Err>>)>>
<1>7. TidyArms(arms)
  <2> DEFINE a == Prefix("Ampersands")
             b == Prefix("Minuss")
             c == Prefix("Nots")
             d == Prefix("Tildes")
             e == On({"LeftParens"}, <<Adv, Call("parser_expr"), CloseParen>>)
             f == On(Literals, <<Leaf, Adv>>)
             g == On({"Selfs"}, SelfPrimary)
             h == On({"Fn_Sizes"}, <<Call("parser_builtin_function")>>)
             i == On(Names, NamePrimary)
             j == On({EOFs}, <<Err>>)
  <2>1. /\ TidyArm(a) /\ TidyArm(b) /\ TidyArm(c) /\ TidyArm(d) /\ TidyArm(e) /\ TidyArm(f)
        /\ TidyArm(g) /\ TidyArm(h) /\ TidyArm(i) /\ TidyArm(j)
    BY <1>1, <1>2, <1>3, <1>4, <1>5, <1>6, NamePrimaryTidy
  <2> HIDE DEF a, b, c, d, e, f, g, h, i, j
  <2>2. TidyArms(<<a, b, c, d, e, f, g, h, i, j>>)
    BY <2>1 DEF TidyArms, IsSeq
  <2> QED BY <2>2 DEF a, b, c, d, e, f, g, h, i, j
<1> HIDE DEF arms
<1>8. Tidy(Switch(arms, <<Err, Adv>>), Tokens)
  BY <1>7, TidySwitch, ErrTidy, TokensAll
<1>9. AllTidy(<<Switch(arms, <<Err, Adv>>)>>)
  BY <1>8, TidyOne, TokensAll
<1> QED BY <1>9 DEF parser_expr_primary, arms

(* Types.                                                                  *)
LEMMA TypesTidy == AllTidy(parser_type) /\ AllTidy(parser_type_base)
<1>1. /\ Tidy(Call("parser_type"), Tokens) /\ Tidy(Call("parser_type_base"), Tokens)
      /\ Tidy(Want({"RightBrackets"}), Tokens) /\ Tidy(Opt({"Stars"}), Tokens)
  BY LookersTidy, WantTidy, SafeOne, TokensAll DEF Lookers, EOFs
<1>2. AllTidy(parser_type)
  BY <1>1, TidyOne, TokensAll DEF parser_type
<1> DEFINE T == Numbers \cup Texts \cup Names \cup {"Floats", "Chars", "Voids", "Bools"}
           a == On(T, <<Adv>>)
           b == On({"Atomics"}, AtomicType)
           c == On({"LeftParens"}, <<Adv>> \o TypesUpToParen)
           d == On({"Stars"}, <<Adv, Opt({"Stars"}), Call("parser_type")>>)
           e == On({"Functions"}, FunctionType)
<1>3. TidyArm(a)
  <2>1. T \cap Stops = {}
    BY NotStops DEF EOFs, Stops
  <2> HIDE DEF T
  <2> QED BY <2>1, SafeArm
<1>4. TidyArm(b)
  <2>1. CodeTidy(<<Err, Adv, Back>>, Tokens) /\ CodeTidy(<< >>, Tokens)
    BY ErrTidy, EmptyTidy
  <2>2. Tidy(IfAtomic(<< >>, <<Err, Adv, Back>>), Tokens)
    BY <2>1, TidyTest, TokensAll
  <2>3. Tidy(When({"LeftBrackets"}, <<Adv>>, <<Err, Back>>), Tokens)
    BY SafeOne, SafeArm, ErrTidy, WhenTidy, TokensAll DEF EOFs
  <2>4. CodeTidy(AtomicType, {"Atomics"} \cap Tokens)
    BY <1>1, <2>2, <2>3, SafeOne, TakesTidy DEF AtomicType, EOFs
  <2> QED BY <2>4, ArmTidy
<1>5. TidyArm(c)
  BY SafeOne, SafeArm, ArgsTidy DEF EOFs
<1>6. TidyArm(d)
  BY <1>1, SafeOne, TakesTidy, ArmTidy DEF EOFs
<1>7. TidyArm(e)
  BY SafeOne, TakesTidy, ArmTidy, ParenArgs, ColonType, TokensAll DEF FunctionType, EOFs
<1> HIDE DEF T, a, b, c, d, e
<1>8. TidyArms(<<a, b, c, d, e>>)
  BY <1>3, <1>4, <1>5, <1>6, <1>7 DEF TidyArms, IsSeq
<1>9. AllTidy(<<Switch(<<a, b, c, d, e>>, <<Err, Adv>>)>>)
  BY <1>8, TidySwitch, ErrTidy, TidyOne, TokensAll
<1>10. AllTidy(parser_type_base)
  BY <1>9 DEF parser_type_base, T, a, b, c, d, e
<1> QED BY <1>2, <1>10

(* Declarations.                                                           *)
LEMMA SignatureTidy ==
  ASSUME NEW S, Safe(S)
  PROVE  CodeTidy(Signature, S)
<1>1. /\ Tidy(Want(Names), Tokens) /\ Tidy(GenericParams, Tokens)
      /\ Tidy(Want({"LeftParens"}), Tokens)
  BY WantTidy, SafeOne, NotStops, NamesTidy, TokensAll DEF EOFs
<1> DEFINE head == <<Adv, Want(Names), GenericParams, Want({"LeftParens"})>>
           last == <<When({"Colons"}, <<Adv, Call("parser_type")>>, << >>)>>
<1>2. CodeTidy(head, S)
  BY <1>1, TakesTidy
<1>3. AllTidy(last)
  BY ColonType, TidyOne, TokensAll
<1>4. S \in SUBSET Tokens
  BY DEF Safe
<1> HIDE DEF head, last
<1>5. CodeTidy((head \o MethodParams) \o last, S)
  BY <1>2, <1>3, <1>4, ParamsTidy, CodeThen
<1> QED BY <1>5 DEF Signature, head, last

LEMMA TraitNamesTidy == Tidy(TraitNames, Tokens)
<1>1. Tidy(When(Names, << >>, <<Err>>), Tokens)
  BY EmptyTidy, ErrTidy, ArmTidy, WhenTidy, TokensAll
<1>2. Tidy(While(Names, <<Adv, Comma>>), Tokens)
  <2>1. Safe(Tokens \cap Names)
    BY NotStops DEF Safe
  <2>2. CodeTidy(<<Adv, Comma>>, Tokens \cap Names)
    BY <2>1, TakesTidy, WantTidy, TokensAll
  <2> QED BY <2>2, TidyLoop, TokensAll
<1>3. TidyArm(On({"Fors"}, <<Adv, When(Names, << >>, <<Err>>), While(Names, <<Adv, Comma>>)>>))
  BY <1>1, <1>2, SafeOne, TakesTidy, ArmTidy DEF EOFs
<1> QED BY <1>3, WhenTidy, EmptyTidy, TokensAll DEF TraitNames

(* Tidy code that ends with instruction x.                                 *)
Ended(code, x, S) ==
  /\ IsSeq(code) /\ Len(code) > 0 /\ code[Len(code)] = x
  /\ \/ S = {} \/ Blames(code)
     \/ \A k \in DOMAIN code : k = Len(code) \/ Tidy(code[k], Where(code, k, S))

LEMMA LaterEnded ==
  ASSUME NEW S \in SUBSET Tokens, NEW code, IsSeq(code), Len(code) > 0, Tidy(code[1], S),
         \A k \in DOMAIN code : k \in {1, Len(code)} \/ Tidy(code[k], Tokens)
  PROVE  Ended(code, code[Len(code)], S)
<1>1. ASSUME NEW k \in DOMAIN code, k # Len(code) PROVE Tidy(code[k], Where(code, k, S))
  <2>1. CASE k = 1
    BY <2>1 DEF Where
  <2>2. CASE k # 1
    BY <1>1, <2>2, WhereTokens, TidyMore
  <2> QED BY <2>1, <2>2
<1> QED BY <1>1 DEF Ended

(* A token, then tidy code, then x.                                        *)
LEMMA EndsFour ==
  ASSUME NEW S, Safe(S), NEW x, NEW a, Tidy(a, Tokens), NEW b, Tidy(b, Tokens)
  PROVE  Ended(<<Adv, a, b, x>>, x, S)
<1> DEFINE z == Adv
           code == <<z, a, b, x>>
<1>1. S \in SUBSET Tokens /\ Tidy(z, S)
  BY SafeFacts
<1> HIDE DEF z
<1>2. /\ IsSeq(code) /\ Len(code) = 4 /\ code[1] = z /\ code[4] = x
      /\ \A k \in DOMAIN code : k \in {1, 4} \/ Tidy(code[k], Tokens)
  BY DEF IsSeq
<1> HIDE DEF code
<1>3. Tidy(code[1], S) /\ Len(code) > 0
  BY <1>1, <1>2
<1>4. \A k \in DOMAIN code : k \in {1, Len(code)} \/ Tidy(code[k], Tokens)
  BY <1>2
<1>5. Ended(code, code[Len(code)], S)
  BY <1>1, <1>2, <1>3, <1>4, LaterEnded
<1> QED BY <1>2, <1>5 DEF code, z

LEMMA EndsFive ==
  ASSUME NEW S, Safe(S), NEW x, NEW a, Tidy(a, Tokens), NEW b, Tidy(b, Tokens),
         NEW c, Tidy(c, Tokens)
  PROVE  Ended(<<Adv, a, b, c, x>>, x, S)
<1> DEFINE z == Adv
           code == <<z, a, b, c, x>>
<1>1. S \in SUBSET Tokens /\ Tidy(z, S)
  BY SafeFacts
<1> HIDE DEF z
<1>2. /\ IsSeq(code) /\ Len(code) = 5 /\ code[1] = z /\ code[5] = x
      /\ \A k \in DOMAIN code : k \in {1, 5} \/ Tidy(code[k], Tokens)
  BY DEF IsSeq
<1> HIDE DEF code
<1>3. Tidy(code[1], S) /\ Len(code) > 0
  BY <1>1, <1>2
<1>4. \A k \in DOMAIN code : k \in {1, Len(code)} \/ Tidy(code[k], Tokens)
  BY <1>2
<1>5. Ended(code, code[Len(code)], S)
  BY <1>1, <1>2, <1>3, <1>4, LaterEnded
<1> QED BY <1>2, <1>5 DEF code, z

LEMMA EndsSix ==
  ASSUME NEW S, Safe(S), NEW x, NEW a, Tidy(a, Tokens), NEW b, Tidy(b, Tokens),
         NEW c, Tidy(c, Tokens), NEW d, Tidy(d, Tokens)
  PROVE  Ended(<<Adv, a, b, c, d, x>>, x, S)
<1> DEFINE z == Adv
           code == <<z, a, b, c, d, x>>
<1>1. S \in SUBSET Tokens /\ Tidy(z, S)
  BY SafeFacts
<1> HIDE DEF z
<1>2. /\ IsSeq(code) /\ Len(code) = 6 /\ code[1] = z /\ code[6] = x
      /\ \A k \in DOMAIN code : k \in {1, 6} \/ Tidy(code[k], Tokens)
  BY DEF IsSeq
<1> HIDE DEF code
<1>3. Tidy(code[1], S) /\ Len(code) > 0
  BY <1>1, <1>2
<1>4. \A k \in DOMAIN code : k \in {1, Len(code)} \/ Tidy(code[k], Tokens)
  BY <1>2
<1>5. Ended(code, code[Len(code)], S)
  BY <1>1, <1>2, <1>3, <1>4, LaterEnded
<1> QED BY <1>2, <1>5 DEF code, z

LEMMA EndsSeven ==
  ASSUME NEW S, Safe(S), NEW x, NEW a, Tidy(a, Tokens), NEW b, Tidy(b, Tokens),
         NEW c, Tidy(c, Tokens), NEW d, Tidy(d, Tokens), NEW e, Tidy(e, Tokens)
  PROVE  Ended(<<Adv, a, b, c, d, e, x>>, x, S)
<1> DEFINE z == Adv
           code == <<z, a, b, c, d, e, x>>
<1>1. S \in SUBSET Tokens /\ Tidy(z, S)
  BY SafeFacts
<1> HIDE DEF z
<1>2. /\ IsSeq(code) /\ Len(code) = 7 /\ code[1] = z /\ code[7] = x
      /\ \A k \in DOMAIN code : k \in {1, 7} \/ Tidy(code[k], Tokens)
  BY DEF IsSeq
<1> HIDE DEF code
<1>3. Tidy(code[1], S) /\ Len(code) > 0
  BY <1>1, <1>2
<1>4. \A k \in DOMAIN code : k \in {1, Len(code)} \/ Tidy(code[k], Tokens)
  BY <1>2
<1>5. Ended(code, code[Len(code)], S)
  BY <1>1, <1>2, <1>3, <1>4, LaterEnded
<1> QED BY <1>2, <1>5 DEF code, z

LEMMA EndsNine ==
  ASSUME NEW S, Safe(S), NEW x, NEW a, Tidy(a, Tokens), NEW b, Tidy(b, Tokens),
         NEW c, Tidy(c, Tokens), NEW d, Tidy(d, Tokens), NEW e, Tidy(e, Tokens),
         NEW f, Tidy(f, Tokens), NEW g, Tidy(g, Tokens)
  PROVE  Ended(<<Adv, a, b, c, d, e, f, g, x>>, x, S)
<1> DEFINE z == Adv
           code == <<z, a, b, c, d, e, f, g, x>>
<1>1. S \in SUBSET Tokens /\ Tidy(z, S)
  BY SafeFacts
<1> HIDE DEF z
<1>2. /\ IsSeq(code) /\ Len(code) = 9 /\ code[1] = z /\ code[9] = x
      /\ \A k \in DOMAIN code : k \in {1, 9} \/ Tidy(code[k], Tokens)
  BY DEF IsSeq
<1> HIDE DEF code
<1>3. Tidy(code[1], S) /\ Len(code) > 0
  BY <1>1, <1>2
<1>4. \A k \in DOMAIN code : k \in {1, Len(code)} \/ Tidy(code[k], Tokens)
  BY <1>2
<1>5. Ended(code, code[Len(code)], S)
  BY <1>1, <1>2, <1>3, <1>4, LaterEnded
<1> QED BY <1>2, <1>5 DEF code, z

(* Tidy code, then code whose last instruction is x.                       *)
LEMMA EndsBoth ==
  ASSUME NEW S \in SUBSET Tokens, NEW s, CodeTidy(s, S), NEW t, IsSeq(t), Len(t) > 0,
         \A k \in DOMAIN t : k = Len(t) \/ Tidy(t[k], Tokens)
  PROVE  Ended(s \o t, t[Len(t)], S)
<1>1. IsSeq(s)
  BY DEF CodeTidy
<1> DEFINE u == s \o t
<1>2. Joined(s, t, u)
  BY <1>1, ConcatSeq
<1> HIDE DEF u
<1>3. /\ IsSeq(u) /\ DOMAIN u = 1..Len(u) /\ Len(u) = Len(s) + Len(t) /\ Len(s) \in Nat
      /\ Len(t) \in Nat /\ DOMAIN s = 1..Len(s) /\ DOMAIN t = 1..Len(t)
  BY <1>1, <1>2, SeqFacts DEF Joined
<1>4. Len(u) > 0 /\ u[Len(u)] = t[Len(t)]
  <2>1. Len(t) \in DOMAIN t
    BY <1>3
  <2> QED BY <1>2, <1>3, <2>1 DEF Joined
<1>5. CASE S = {}
  BY <1>3, <1>4, <1>5 DEF Ended, u
<1>6. CASE Blames(s)
  <2>1. Blames(u)
    BY <1>1, <1>6, BlamesJoined DEF u
  <2>2. Ended(u, t[Len(t)], S)
    BY <1>3, <1>4, <2>1 DEF Ended
  <2> QED BY <2>2 DEF u
<1>7. CASE \A k \in DOMAIN s : Tidy(s[k], Where(s, k, S))
  <2>1. ASSUME NEW k \in DOMAIN u, k # Len(u) PROVE Tidy(u[k], Where(u, k, S))
    <3>1. CASE k <= Len(s)
      <4>1. k \in DOMAIN s /\ u[k] = s[k]
        BY <1>2, <1>3, <3>1 DEF Joined
      <4> QED BY <1>1, <1>2, <1>7, <4>1, WhereJoined
    <3>2. CASE ~(k <= Len(s))
      <4> DEFINE l == k - Len(s)
      <4>1. l \in DOMAIN t /\ k = Len(s) + l /\ l # Len(t)
        BY <1>3, <2>1, <3>2
      <4> HIDE DEF l
      <4>2. u[k] = t[l] /\ Tidy(t[l], Tokens)
        BY <1>2, <4>1 DEF Joined
      <4> QED BY <4>2, WhereTokens, TidyMore
    <3> QED BY <3>1, <3>2
  <2>2. Ended(u, t[Len(t)], S)
    BY <1>3, <1>4, <2>1 DEF Ended
  <2> QED BY <2>2 DEF u
<1> QED BY <1>5, <1>6, <1>7 DEF CodeTidy

(* Functions.                                                              *)
LEMMA FunctionsTidy ==
  ASSUME NEW S, Safe(S)
  PROVE  /\ Ended(parser_functions, CloseBlock, S)
         /\ CodeTidy(parser_trait_functions, S)
<1>1. CodeTidy(Signature, S) /\ S \in SUBSET Tokens
  BY SignatureTidy DEF Safe
<1> DEFINE a == ForcedBlock
           x == CloseBlock
           t == <<a, x>>
<1>2. Tidy(a, Tokens)
  BY BlocksTidy
<1> HIDE DEF a, x
<1>3. /\ IsSeq(t) /\ Len(t) > 0 /\ t[Len(t)] = x
      /\ \A k \in DOMAIN t : k = Len(t) \/ Tidy(t[k], Tokens)
  BY <1>2 DEF IsSeq
<1> HIDE DEF t
<1>4. Ended(Signature \o t, x, S)
  BY <1>1, <1>3, EndsBoth
<1> QED BY <1>1, <1>4 DEF parser_functions, parser_trait_functions, a, x, t

(* The members of a class.                                                 *)
LEMMA MemberTidy ==
  /\ \A S : Safe(S) => CodeTidy(ClassField, S)
  /\ \A S : Safe(S) => CodeTidy(PublicMethod, S)
  /\ IsSeq(ClassOperation)
<1>1. /\ Tidy(Want(Names), Tokens) /\ Tidy(Want({"Colons"}), Tokens)
      /\ Tidy(Call("parser_type"), Tokens) /\ Tidy(Opt({"Unsafes"}), Tokens)
  BY WantTidy, SafeOne, NotStops, LookersTidy, TokensAll DEF Lookers, EOFs
<1>2. Tidy(When({"Functions"}, <<Call("parser_functions")>>, <<Err, Adv, Again>>), Tokens)
  <2>1. TidyArm(On({"Functions"}, <<Call("parser_functions")>>))
    BY SafeOne, SafeArm DEF Takers, EOFs
  <2> QED BY <2>1, ErrTidy, WhenTidy, TokensAll
<1>3. \A S : Safe(S) => CodeTidy(ClassField, S)
  BY <1>1, TakesTidy DEF ClassField
<1>4. \A S : Safe(S) => CodeTidy(PublicMethod, S)
  BY <1>1, <1>2, TakesTidy DEF PublicMethod
<1>5. IsSeq(ClassOperation)
  BY DEF ClassOperation, IsSeq
<1> QED BY <1>3, <1>4, <1>5

(* The loop over what a declaration holds: an arm or an error.             *)
LEMMA MembersTidy ==
  ASSUME NEW arms, TidyArms(arms)
  PROVE  Tidy(Until({"Ends", EOFs}, <<Switch(arms, <<Err, Adv>>)>>), Tokens)
BY TidySwitch, ErrTidy, TidyOne, AnyLoop, TokensAll

LEMMA ClassTidy ==
  ASSUME NEW S, Safe(S)
  PROVE  Ended(parser_class, CloseBlock, S)
<1> DEFINE a == On({"Vars", "Lets"}, ClassField)
           b == On({"Publics"}, PublicMethod)
           c == On({"Functions"}, <<Call("parser_functions")>>)
           d == On({"Ats"}, ClassOperation)
           params == When({"LeftParens"}, <<Adv>> \o Params, << >>)
           alias == When({"Greaters"}, <<Adv, Want(Names)>>, << >>)
           loop == Until({"Ends", EOFs}, <<Switch(<<a, b, c, d>>, <<Err, Adv>>)>>)
           x == CloseBlock
<1>1. TidyArm(a)
  <2>1. {"Vars", "Lets"} \cap Stops = {}
    BY DEF Stops, EOFs
  <2> QED BY <2>1, SafeTokens, MemberTidy, ArmTidy
<1>2. TidyArm(b) /\ TidyArm(c) /\ TidyArm(d)
  BY SafeOne, SafeArm, MemberTidy, ArmTidy DEF Takers, EOFs, Unread
<1> HIDE DEF a, b, c, d
<1>3. TidyArms(<<a, b, c, d>>)
  BY <1>1, <1>2 DEF TidyArms, IsSeq
<1>4. Tidy(loop, Tokens)
  BY <1>3, MembersTidy
<1>5. Tidy(alias, Tokens)
  <2>1. Tidy(Want(Names), Tokens)
    BY WantTidy, NotStops, TokensAll
  <2>2. TidyArm(On({"Greaters"}, <<Adv, Want(Names)>>))
    BY <2>1, SafeOne, TakesTidy, ArmTidy DEF EOFs
  <2> QED BY <2>2, WhenTidy, EmptyTidy, TokensAll
<1>6. Tidy(params, Tokens) /\ Tidy(Want(Names), Tokens) /\ Tidy(GenericParams, Tokens)
  BY ParenArgs, WantTidy, NotStops, NamesTidy, TokensAll
<1> HIDE DEF params, alias, loop, x
<1>7. Ended(<<Adv, Want(Names), TraitNames, GenericParams, params, TraitNames, alias, loop, x>>, x, S)
  BY <1>4, <1>5, <1>6, TraitNamesTidy, EndsNine
<1> QED BY <1>7 DEF parser_class, params, alias, loop, x, a, b, c, d

(* A name, its parameters and a colon, then the members.                   *)
LEMMA HeadedTidy ==
  ASSUME NEW S, Safe(S), NEW loop, Tidy(loop, Tokens)
  PROVE  Ended(<<Adv, Want(Names), GenericParams, Want({"Colons"}), loop, CloseBlock>>,
               CloseBlock, S)
<1> DEFINE x == CloseBlock
<1>1. Tidy(Want(Names), Tokens) /\ Tidy(GenericParams, Tokens) /\ Tidy(Want({"Colons"}), Tokens)
  BY WantTidy, SafeOne, NotStops, NamesTidy, TokensAll DEF EOFs
<1> HIDE DEF x
<1>2. Ended(<<Adv, Want(Names), GenericParams, Want({"Colons"}), loop, x>>, x, S)
  BY <1>1, EndsSix
<1> QED BY <1>2 DEF x

LEMMA StructerTidy ==
  ASSUME NEW S, Safe(S)
  PROVE  Ended(parser_structer, CloseBlock, S)
<1> DEFINE a == On({"Vars"}, <<Adv, Want(Names), Want({"Equalss"}), Call("parser_type")>>)
           b == On(Names, <<Adv, Want({"Equalss"}), Call("parser_type")>>)
           loop == Until({"Ends", EOFs}, <<Switch(<<a, b>>, <<Err, Adv>>)>>)
<1>1. /\ Tidy(Want(Names), Tokens) /\ Tidy(Want({"Equalss"}), Tokens)
      /\ Tidy(Call("parser_type"), Tokens)
  BY WantTidy, SafeOne, NotStops, LookersTidy, TokensAll DEF Lookers, EOFs
<1>2. TidyArm(a) /\ TidyArm(b)
  BY <1>1, SafeOne, SafeTokens, NotStops, TakesTidy, ArmTidy DEF EOFs
<1> HIDE DEF a, b
<1>3. TidyArms(<<a, b>>)
  BY <1>2 DEF TidyArms, IsSeq
<1>4. Tidy(loop, Tokens)
  BY <1>3, MembersTidy
<1> HIDE DEF loop
<1> QED BY <1>4, HeadedTidy DEF parser_structer, loop, a, b

LEMMA EnumsTidy ==
  ASSUME NEW S, Safe(S)
  PROVE  Ended(parser_enums, CloseBlock, S)
<1> DEFINE params == When({"LeftParens"}, <<Adv>> \o Params, << >>)
           a == On(Names, <<Adv, params>>)
           b == On({"Commas"}, <<Adv>>)
           loop == Until({"Ends", EOFs}, <<Switch(<<a, b>>, <<Err, Adv>>)>>)
<1>1. Tidy(params, Tokens)
  BY ParenArgs
<1> HIDE DEF params
<1>2. TidyArm(a) /\ TidyArm(b)
  BY <1>1, SafeOne, SafeArm, SafeTokens, NotStops, TakesTidy, ArmTidy DEF EOFs
<1> HIDE DEF a, b
<1>3. TidyArms(<<a, b>>)
  BY <1>2 DEF TidyArms, IsSeq
<1>4. Tidy(loop, Tokens)
  BY <1>3, MembersTidy
<1> HIDE DEF loop
<1> QED BY <1>4, HeadedTidy DEF parser_enums, loop, a, b, params

LEMMA TraitsTidy ==
  ASSUME NEW S, Safe(S)
  PROVE  Ended(parser_traits, CloseBlock, S)
<1> DEFINE a == On({"Types"}, <<Adv, Want(Names)>>)
           b == On({"Functions"}, <<Call("parser_trait_functions")>>)
           body == <<Switch(<<a, b>>, <<Err, Adv>>)>>
           loop == Until({"Ends", EOFs}, <<Forced(body)>>)
<1>1. Tidy(Want(Names), Tokens)
  BY WantTidy, NotStops, TokensAll
<1>2. TidyArm(a) /\ TidyArm(b)
  BY <1>1, SafeOne, SafeArm, TakesTidy, ArmTidy DEF Takers, EOFs
<1>3. Begins(a[2]) /\ Begins(b[2]) /\ Begins(<<Err, Adv>>)
  BY DEF Begins, Starter, On, Call, Takers, Adv
<1> HIDE DEF a, b
<1>4. TidyArms(<<a, b>>)
  BY <1>2 DEF TidyArms, IsSeq
<1>5. AllTidy(body)
  BY <1>4, TidySwitch, ErrTidy, TidyOne, TokensAll
<1>6. Eager(body)
  BY <1>3 DEF Eager, Switch
<1> HIDE DEF body
<1>7. Tidy(loop, Tokens)
  BY <1>5, <1>6, AnyTidy, TidyMark, TidyOne, AnyLoop, TokensAll
<1> HIDE DEF loop
<1> QED BY <1>7, HeadedTidy DEF parser_traits, loop, body, a, b

LEMMA ExternTidy ==
  ASSUME NEW S, Safe(S)
  PROVE  Ended(parser_extern, CloseBlock, S)
<1> DEFINE params == When({"LeftParens"}, <<Adv>> \o Params, <<Err>>)
           colon == When({"Colons"}, <<Adv, Call("parser_type")>>, << >>)
           loop == Until({"Ends", EOFs}, <<When({"Functions"}, ExternFunction, <<Err, Adv>>)>>)
           x == CloseBlock
<1>1. Tidy(params, Tokens)
  BY SafeOne, SafeArm, ParamsTidy, ErrTidy, WhenTidy, TokensAll DEF EOFs
<1>2. Tidy(colon, Tokens) /\ Tidy(Want(Names), Tokens) /\ Tidy(Opt(Texts), Tokens)
  BY ColonType, WantTidy, NotStops, TokensAll
<1> HIDE DEF params, colon
<1>3. TidyArm(On({"Functions"}, <<Adv, Want(Names), params, colon>>))
  BY <1>1, <1>2, SafeOne, TakesTidy, ArmTidy DEF EOFs
<1>4. TidyArm(On({"Functions"}, ExternFunction))
  BY <1>3 DEF ExternFunction, params, colon
<1>5. Tidy(loop, Tokens)
  BY <1>4, WhenTidy, ErrTidy, TidyOne, AnyLoop, TokensAll
<1> HIDE DEF loop, x
<1>6. Ended(<<Adv, Opt(Texts), loop, x>>, x, S)
  BY <1>2, <1>5, EndsFour
<1> QED BY <1>6 DEF parser_extern, loop, x

LEMMA ModuleTidy ==
  ASSUME NEW S, Safe(S)
  PROVE  Ended(parser_module, CloseBlock, S)
<1> DEFINE x == CloseBlock
<1>1. Tidy(Want(Names), Tokens) /\ Tidy(ForcedBlock, Tokens)
  BY WantTidy, NotStops, BlocksTidy, TokensAll
<1> HIDE DEF x
<1>2. Ended(<<Adv, Want(Names), ForcedBlock, x>>, x, S)
  BY <1>1, EndsFour
<1> QED BY <1>2 DEF parser_module, x

(* Variables.                                                              *)
LEMMA VariablesTidy ==
  /\ AllTidy(parser_const)
  /\ \A S : Safe(S) => /\ CodeTidy(parser_vars, S) /\ CodeTidy(parser_lets, S)
                       /\ CodeTidy(parser_globle, S)
<1>1. Tidy(Want(Names), Tokens) /\ Tidy(TypeAnnotation, Tokens) /\ Tidy(Initialiser, Tokens)
  BY WantTidy, NotStops, ColonType, TokensAll DEF TypeAnnotation, Initialiser
<1>2. AllTidy(parser_const)
  BY <1>1, TidyThree, TokensAll DEF parser_const
<1> QED BY <1>2, SafeFacts DEF parser_vars, parser_lets, parser_globle


(* Code that looks before it consumes: the check at j, then the token.     *)
LEMMA CheckedTidy ==
  ASSUME NEW S, Safe(S), NEW T, T \cap Stops = {}, T \cap Tokens # {}, NEW code, IsSeq(code),
         NEW j \in DOMAIN code, 1 < j, j + 1 \in DOMAIN code, code[1] = Adv,
         code[j] = When(T, << >>, <<Err>>), code[j + 1] = Adv,
         \A k \in DOMAIN code : k \in {1, j, j + 1} \/ Tidy(code[k], Tokens)
  PROVE  CodeTidy(code, S)
<1>1. S \in SUBSET Tokens /\ Tidy(Adv, S)
  BY SafeFacts
<1>2. Tidy(code[j], Tokens)
  <2>1. TidyArm(On(T, << >>))
    BY EmptyTidy, ArmTidy
  <2>2. Tidy(When(T, << >>, <<Err>>), Tokens)
    BY <2>1, ErrTidy, WhenTidy, TokensAll
  <2> QED BY <2>2
<1>3. DOMAIN code = 1..Len(code) /\ Len(code) \in Nat
  BY SeqFacts
<1>4. Where(code, j + 1, S) = T \cap Tokens
  <2>1. IsCheck(code[j])
    BY DEF IsCheck
  <2>2. Checked(code[j]) = T \cap Tokens
    BY DEF Checked, When, Switch, On
  <2>3. (j + 1) - 1 = j /\ j + 1 # 1
    BY <1>3
  <2> QED BY <2>1, <2>2, <2>3 DEF Where
<1>5. Tidy(code[j + 1], Where(code, j + 1, S))
  BY <1>4, SafeArm
<1>6. ASSUME NEW k \in DOMAIN code PROVE Tidy(code[k], Where(code, k, S))
  <2>1. CASE k = 1
    BY <1>1, <2>1 DEF Where
  <2>2. CASE k = j + 1
    BY <1>5, <2>2
  <2>3. CASE k # 1 /\ k # j + 1
    BY <1>1, <1>2, <2>3, WhereTokens, TidyMore
  <2> QED BY <2>1, <2>2, <2>3
<1> QED BY <1>6 DEF CodeTidy

(* Imports.                                                                *)
LEMMA ImportsTidy ==
  ASSUME NEW S, Safe(S)
  PROVE  CodeTidy(parser_import, S) /\ CodeTidy(parser_from_import, S)
<1>1. /\ Tidy(Want(Names), Tokens) /\ Tidy(Want(Texts), Tokens)
      /\ Tidy(Want(Names \cup {"Stars"}), Tokens)
  BY WantTidy, NotStops, TokensAll
<1>2. /\ {"Froms"} \cap Stops = {} /\ {"Froms"} \cap Tokens # {}
      /\ {"Imports"} \cap Stops = {} /\ {"Imports"} \cap Tokens # {}
  BY DEF Tokens, Stops, EOFs, Unread
<1>3. ASSUME NEW x PROVE Tidy(ImportPath(x), Tokens)
  <2>1. TidyArm(On(Texts, <<NoteImport(x), Adv>>))
    BY NotStops, SafeTokens, LeavesTidy, ArmTidy
  <2>2. Tidy(When(Texts, <<NoteImport(x), Adv>>, <<Err>>), Tokens)
    BY <2>1, WhenTidy, ErrTidy, TokensAll
  <2>3. TidyArm(On({"Froms"}, <<Adv, When(Texts, <<NoteImport(x), Adv>>, <<Err>>)>>))
    BY <2>2, SafeOne, TakesTidy, ArmTidy DEF EOFs
  <2> QED BY <2>3, WhenTidy, EmptyTidy, TokensAll DEF ImportPath
<1> DEFINE y == When({"Froms"}, << >>, <<Err>>)
           z == When({"Imports"}, << >>, <<Err>>)
           w == Want(Texts)
           v == Want(Names \cup {"Stars"})
           a == On({"Stars"}, <<Adv, y, Adv, w>>)
           b == On(Texts, <<Adv>>)
           c == On({"Atomic"}, <<Adv, ImportPath(TRUE)>>)
           d == <<Want(Names), ImportPath(FALSE)>>
<1>4. TidyArm(a)
  <2> DEFINE adv == Adv
             code == <<adv, y, adv, w>>
  <2>0. adv = Adv
    OBVIOUS
  <2>1. Tidy(w, Tokens) /\ y = When({"Froms"}, << >>, <<Err>>)
    BY <1>1
  <2> HIDE DEF y, w, adv
  <2>2. IsSeq(code)
    BY DEF IsSeq
  <2>3. code[1] = Adv /\ code[2] = y /\ code[3] = Adv /\ code[4] = w /\ DOMAIN code = 1..4
    BY <2>0
  <2> HIDE DEF code
  <2>4. \A k \in DOMAIN code : k \in {1, 2, 2 + 1} \/ Tidy(code[k], Tokens)
    BY <2>1, <2>3
  <2>5. 2 \in DOMAIN code /\ 2 + 1 \in DOMAIN code /\ 1 < 2 /\ code[2 + 1] = Adv
    BY <2>3
  <2>6. code[2] = When({"Froms"}, << >>, <<Err>>)
    BY <2>1, <2>3
  <2>7. Safe({"Stars"} \cap Tokens)
    BY SafeOne DEF EOFs
  <2>8. CodeTidy(code, {"Stars"} \cap Tokens)
    BY <1>2, <2>2, <2>3, <2>4, <2>5, <2>6, <2>7, CheckedTidy
  <2> QED BY <2>8, ArmTidy DEF code, adv
<1>5. TidyArm(b) /\ TidyArm(c)
  BY <1>3, NotStops, SafeOne, SafeArm, TakesTidy, ArmTidy DEF EOFs
<1>6. CodeTidy(d, Tokens)
  BY <1>1, <1>3, TidyTwo, TokensAll
<1> HIDE DEF a, b, c, d
<1>7. Tidy(Switch(<<a, b, c>>, d), Tokens)
  <2>1. TidyArms(<<a, b, c>>)
    BY <1>4, <1>5 DEF TidyArms, IsSeq
  <2> QED BY <2>1, <1>6, TidySwitch, TokensAll
<1>8. CodeTidy(parser_import, S)
  <2>1. CodeTidy(<<Adv, Switch(<<a, b, c>>, d)>>, S)
    BY <1>7, TakesTidy
  <2> QED BY <2>1 DEF parser_import, a, b, c, d, y, w
<1>9. CodeTidy(parser_from_import, S)
  <2> DEFINE adv == Adv
             code == <<adv, w, z, adv, v>>
  <2>0. adv = Adv
    OBVIOUS
  <2>1. Tidy(w, Tokens) /\ Tidy(v, Tokens) /\ z = When({"Imports"}, << >>, <<Err>>)
    BY <1>1
  <2> HIDE DEF z, w, v, adv
  <2>2. IsSeq(code)
    BY DEF IsSeq
  <2>3. /\ code[1] = Adv /\ code[2] = w /\ code[3] = z /\ code[4] = Adv /\ code[5] = v
        /\ DOMAIN code = 1..5
    BY <2>0
  <2> HIDE DEF code
  <2>4. \A k \in DOMAIN code : k \in {1, 3, 3 + 1} \/ Tidy(code[k], Tokens)
    BY <2>1, <2>3
  <2>5. 3 \in DOMAIN code /\ 3 + 1 \in DOMAIN code /\ 1 < 3 /\ code[3 + 1] = Adv
    BY <2>3
  <2>6. code[3] = When({"Imports"}, << >>, <<Err>>)
    BY <2>1, <2>3
  <2>7. CodeTidy(code, S)
    BY <1>2, <2>2, <2>3, <2>4, <2>5, <2>6, CheckedTidy
  <2> QED BY <2>7 DEF parser_from_import, code, adv, w, z, v
<1> QED BY <1>8, <1>9

(* Statements.                                                             *)
LEMMA ReturnTidy ==
  ASSUME NEW S, Safe(S)
  PROVE  CodeTidy(parser_return, S)
<1>1. CodeTidy(<<Call("parser_expr")>>, Tokens)
  BY LookersTidy, TidyOne, TokensAll DEF Lookers
<1>2. Tidy(When({"Ends", "Semicolons", EOFs}, << >>, <<Call("parser_expr")>>), Tokens)
  BY <1>1, EmptyTidy, ArmTidy, WhenTidy, TokensAll
<1> QED BY <1>2, TakesTidy DEF parser_return

LEMMA WordsTidy ==
  /\ \A t : t # "Ends" /\ t # EOFs => Tidy(Want({t}), Tokens)
  /\ Tidy(Call("parser_expr"), Tokens) /\ Tidy(Want(Names), Tokens)
  /\ \A ends : Tidy(Block(ends), Tokens)
BY WantTidy, SafeOne, NotStops, LookersTidy, BlocksTidy, TokensAll DEF Lookers

LEMMA LoopsTidy ==
  ASSUME NEW S, Safe(S)
  PROVE  /\ Ended(parser_while, CloseBlock, S)
         /\ Ended(parser_for, CloseBlock, S)
         /\ Ended(parser_match, CloseBlock, S)
<1> DEFINE x == CloseBlock
           cases == While({"Cases"}, <<Adv, Call("parser_expr"), Want({"Dos"}),
                                       Block({"Cases", "Ends"})>>)
<1>1. /\ Tidy(Call("parser_expr"), Tokens) /\ Tidy(Want({"Dos"}), Tokens)
      /\ Tidy(Want({"Colons"}), Tokens) /\ Tidy(Want({"Ins"}), Tokens)
      /\ Tidy(Want(Names), Tokens) /\ Tidy(Block({"Ends"}), Tokens)
      /\ Tidy(Block({"Cases", "Ends"}), Tokens)
  BY WordsTidy DEF EOFs
<1>2. Tidy(cases, Tokens)
  <2>1. Safe(Tokens \cap {"Cases"})
    BY DEF Safe, Stops, EOFs
  <2> QED BY <1>1, <2>1, TakesTidy, TidyLoop, TokensAll
<1> HIDE DEF x, cases
<1>3. Ended(<<Adv, Call("parser_expr"), Want({"Dos"}), Block({"Ends"}), x>>, x, S)
  BY <1>1, EndsFive
<1>4. Ended(<<Adv, Call("parser_expr"), Want({"Colons"}), cases, x>>, x, S)
  BY <1>1, <1>2, EndsFive
<1>5. Ended(<<Adv, Want(Names), Want({"Ins"}), Call("parser_expr"), Want({"Dos"}),
              Block({"Ends"}), x>>, x, S)
  BY <1>1, EndsSeven
<1>6. Ended(parser_while, CloseBlock, S)
  BY <1>3 DEF parser_while, x
<1>7. Ended(parser_match, CloseBlock, S)
  BY <1>4 DEF parser_match, x, cases
<1>8. Ended(parser_for, CloseBlock, S)
  BY <1>5 DEF parser_for, x
<1> QED BY <1>6, <1>7, <1>8

LEMMA IfTidy ==
  ASSUME NEW S, Safe(S)
  PROVE  /\ Ended(parser_if, Opt({"Ends"}), S)
         /\ CodeTidy(parser_elif, S) /\ CodeTidy(parser_else, S)
<1> DEFINE a == On({"Elifs"}, <<Call("parser_elif")>>)
           b == On({"Elses"}, <<Call("parser_else")>>)
           x == Opt({"Ends"})
           t == <<x>>
<1>1. /\ Tidy(Call("parser_expr"), Tokens) /\ Tidy(Want({"Thens"}), Tokens)
      /\ Tidy(Block({"Ends", "Elifs", "Elses"}), Tokens) /\ Tidy(Block({"Ends"}), Tokens)
  BY WordsTidy DEF EOFs
<1>2. Tidy(Opt({"Thens"}), Tokens)
  BY WantTidy, SafeOne, TokensAll DEF EOFs
<1>3. TidyArm(a) /\ TidyArm(b)
  BY SafeOne, SafeArm DEF Takers, EOFs
<1> HIDE DEF a, b, x
<1>4. TidyArms(<<a, b>>)
  BY <1>3 DEF TidyArms, IsSeq
<1>5. Tidy(Switch(<<a, b>>, << >>), Tokens)
  BY <1>4, TidySwitch, EmptyTidy, TokensAll
<1>6. CodeTidy(Branches, S)
  <2>1. CodeTidy(<<Adv, Call("parser_expr"), Want({"Thens"}), Block({"Ends", "Elifs", "Elses"}),
                   Switch(<<a, b>>, << >>)>>, S)
    BY <1>1, <1>5, TakesTidy
  <2> QED BY <2>1 DEF Branches, a, b
<1>7. CodeTidy(parser_else, S)
  BY <1>1, <1>2, TakesTidy DEF parser_else
<1>8. /\ IsSeq(t) /\ Len(t) > 0 /\ t[Len(t)] = x
      /\ \A k \in DOMAIN t : k = Len(t) \/ Tidy(t[k], Tokens)
  BY DEF IsSeq
<1> HIDE DEF t
<1>9. Ended(Branches \o t, x, S)
  BY <1>6, <1>8, EndsBoth DEF Safe
<1> QED BY <1>6, <1>7, <1>9 DEF parser_if, parser_elif, t, x


(* Atomic operations, after the name and the dot.                          *)
LEMMA AtomicOpTidy ==
  ASSUME NEW S, Safe(S)
  PROVE  CodeTidy(parser_atomic_op, S)
<1> DEFINE l == Must({"LeftParens"})
           e == Call("parser_expr")
           o == parser_ordering
           c == Comma
           a == On({"Load"}, <<Adv, l, o>>)
           b == On({"Store"}, <<Adv, l, e, c, o>>)
           adv == Adv
           d == <<adv, l, e, c, e, c, o, c, o>>
           r == Want({"RightParens"})
<1>1. Tidy(l, Tokens) /\ Tidy(e, Tokens) /\ Tidy(o, Tokens) /\ Tidy(c, Tokens) /\ Tidy(r, Tokens)
  BY WantTidy, SafeOne, LookersTidy, TokensAll DEF Lookers, EOFs
<1>2. S \in SUBSET Tokens /\ Tidy(adv, S)
  BY SafeFacts
<1> HIDE DEF l, e, o, c, r
<1>3. TidyArm(a) /\ TidyArm(b)
  BY <1>1, SafeOne, TakesTidy, ArmTidy DEF EOFs
<1> HIDE DEF a, b, adv
<1>4. CodeTidy(d, S)
  <2>1. IsSeq(d) /\ d[1] = adv /\ \A k \in DOMAIN d : k = 1 \/ Tidy(d[k], Tokens)
    BY <1>1 DEF IsSeq
  <2> HIDE DEF d
  <2>2. Later(d) /\ Tidy(d[1], S)
    BY <1>2, <2>1 DEF Later
  <2> QED BY <1>2, <2>2, LaterTidy
<1> HIDE DEF d
<1>5. TidyArms(<<a, b>>)
  BY <1>3 DEF TidyArms, IsSeq
<1>6. Tidy(Switch(<<a, b>>, d), S)
  BY <1>2, <1>4, <1>5, TidySwitch
<1>7. CodeTidy(<<Switch(<<a, b>>, d), r>>, S)
  BY <1>1, <1>2, <1>6, TidyTwo
<1> QED BY <1>7 DEF parser_atomic_op, a, b, d, r, adv, l, e, o, c

LEMMA NameStatementTidy ==
  ASSUME NEW S, Safe(S)
  PROVE  CodeTidy(NameStatement, S)
<1> DEFINE args == When({"LeftParens"}, <<Adv>> \o NamedArgs, << >>)
           word == When(Words, <<Call("parser_atomic_op")>>, <<GenericArgs, args>>)
           assign == Assignment
           a == On({"Dots"}, MemberStatement)
           b == On({"LeftParens"}, <<Call("parser_function_call")>>)
           c == On({"LeftBrackets"}, <<Adv, Call("parser_expr"), CloseBracket, assign>>)
           d == <<assign>>
<1>1. Tidy(args, Tokens) /\ Tidy(GenericArgs, Tokens) /\ Tidy(Opt(Names), Tokens)
  BY ParenArgs, NamesTidy, WantTidy, NotStops, TokensAll
<1>2. Tidy(Call("parser_expr"), Tokens) /\ Tidy(Call("parser_function_call"), Tokens)
      /\ Tidy(CloseBracket, Tokens)
  BY LookersTidy, ExpectTidy, TokensAll DEF Lookers
<1>3. Tidy(assign, Tokens)
  <2>1. TidyArm(On(Assigns, <<Adv, Call("parser_expr")>>))
    BY <1>2, NotStops, SafeTokens, TakesTidy, ArmTidy
  <2> QED BY <2>1, WhenTidy, EmptyTidy, TokensAll DEF Assignment
<1> HIDE DEF args, assign
<1>4. Tidy(word, Tokens)
  <2>1. TidyArm(On(Words, <<Call("parser_atomic_op")>>))
    BY NotStops, SafeArm DEF Takers
  <2>2. CodeTidy(<<GenericArgs, args>>, Tokens)
    BY <1>1, TidyTwo, TokensAll
  <2> QED BY <2>1, <2>2, WhenTidy, TokensAll
<1> HIDE DEF word
<1>5. TidyArm(a)
  <2>1. CodeTidy(<<Adv, Opt(Names), word>>, {"Dots"} \cap Tokens)
    BY <1>1, <1>4, SafeOne, TakesTidy DEF EOFs
  <2>2. CodeTidy(MemberStatement, {"Dots"} \cap Tokens)
    BY <2>1 DEF MemberStatement, word, args
  <2> QED BY <2>2, ArmTidy
<1>6. TidyArm(b)
  BY <1>2, TidyOne, ArmTidy, TokensAll
<1>7. TidyArm(c)
  BY <1>2, <1>3, SafeOne, TakesTidy, ArmTidy DEF EOFs
<1>8. CodeTidy(d, Tokens)
  BY <1>3, TidyOne, TokensAll
<1> HIDE DEF a, b, c, d
<1>9. TidyArms(<<a, b, c>>)
  BY <1>5, <1>6, <1>7 DEF TidyArms, IsSeq
<1>10. Tidy(Switch(<<a, b, c>>, d), Tokens)
  BY <1>8, <1>9, TidySwitch, TokensAll
<1>11. CodeTidy(<<Adv, Switch(<<a, b, c>>, d)>>, S)
  BY <1>10, TakesTidy
<1> QED BY <1>11 DEF NameStatement, a, b, c, d, assign

(* Arms that, when taken, consume the current token at once or report.     *)
TakingArm(arm) == TidyArm(arm) /\ (arm[1] \cap Tokens # {} => Begins(arm[2]))
TakingArms(arms) == IsSeq(arms) /\ \A k \in DOMAIN arms : TakingArm(arms[k])

LEMMA TakingIsTidy ==
  ASSUME NEW arms, TakingArms(arms)
  PROVE  TidyArms(arms)
BY DEF TakingArms, TakingArm, TidyArms

LEMMA TakingArmsBoth ==
  ASSUME NEW s, NEW t, TakingArms(s), TakingArms(t)
  PROVE  TakingArms(s \o t)
<1>1. IsSeq(s) /\ IsSeq(t)
  BY DEF TakingArms
<1> DEFINE u == s \o t
<1>2. Joined(s, t, u)
  BY <1>1, ConcatSeq
<1> HIDE DEF u
<1>3. IsSeq(u) /\ DOMAIN u = 1..(Len(s) + Len(t)) /\ Len(s) \in Nat /\ Len(t) \in Nat
      /\ DOMAIN s = 1..Len(s) /\ DOMAIN t = 1..Len(t)
  BY <1>1, <1>2, SeqFacts DEF Joined
<1>4. ASSUME NEW k \in DOMAIN u PROVE TakingArm(u[k])
  <2>1. CASE k <= Len(s)
    <3>1. k \in DOMAIN s /\ u[k] = s[k]
      BY <1>2, <1>3, <2>1 DEF Joined
    <3> QED BY <3>1 DEF TakingArms
  <2>2. CASE ~(k <= Len(s))
    <3> DEFINE l == k - Len(s)
    <3>1. l \in DOMAIN t /\ k = Len(s) + l
      BY <1>3, <2>2
    <3> HIDE DEF l
    <3>2. u[k] = t[l]
      BY <1>2, <3>1 DEF Joined
    <3> QED BY <3>1, <3>2 DEF TakingArms
  <2> QED BY <2>1, <2>2
<1>5. TakingArms(u)
  BY <1>3, <1>4 DEF TakingArms
<1> QED BY <1>5 DEF u

LEMMA CallArm ==
  ASSUME NEW t, t # "Ends", t # EOFs, NEW p \in Takers \ {"parser_atomic_op"}
  PROVE  TakingArm(On({t}, <<Call(p)>>))
<1>1. TidyArm(On({t}, <<Call(p)>>))
  BY SafeOne, SafeArm
<1>2. Begins(<<Call(p)>>)
  BY DEF Begins, Starter, Call
<1> QED BY <1>1, <1>2 DEF TakingArm, On

LEMMA TopTidy == TakingArms(Typed) /\ TakingArms(Top)
<1>1. /\ TakingArm(On({"Functions"}, <<Call("parser_functions")>>))
      /\ TakingArm(On({"Structs"}, <<Call("parser_structer")>>))
      /\ TakingArm(On({"Enums"}, <<Call("parser_enums")>>))
      /\ TakingArm(On({"Traits"}, <<Call("parser_traits")>>))
      /\ TakingArm(On({"Classes"}, <<Call("parser_class")>>))
      /\ TakingArm(On({"Modules"}, <<Call("parser_module")>>))
  BY CallArm DEF Takers, EOFs
<1> DEFINE more == <<On({"Classes"}, <<Call("parser_class")>>),
                     On({"Modules"}, <<Call("parser_module")>>)>>
<1>2. TakingArms(Typed)
  BY <1>1 DEF Typed, TakingArms, IsSeq
<1>3. TakingArms(more)
  BY <1>1 DEF TakingArms, IsSeq
<1> HIDE DEF more
<1>4. TakingArms(Typed \o more)
  BY <1>2, <1>3, TakingArmsBoth
<1> QED BY <1>2, <1>4 DEF Top, more

(* The declarations that follow public, unsafe and const.                  *)
LEMMA ModifiersTidy ==
  ASSUME NEW S, Safe(S)
  PROVE  CodeTidy(PublicStatement, S) /\ CodeTidy(UnsafeStatement, S) /\ CodeTidy(ConstStatement, S)
<1> DEFINE lost == <<Err>> \o parser_sync
           typed == Switch(Typed, lost)
           top == Switch(Top, lost)
           public == When({"Unsafes"}, <<Adv, typed>>, <<top>>)
           a == On({"Functions"}, <<Call("parser_functions")>>)
           b == On({"Locals"}, <<Call("parser_globle")>>)
           c == On(Names, <<Call("parser_const")>>)
           const == Switch(<<a, b, c>>, lost)
<1>1. CodeTidy(lost, Tokens)
  BY ErrTidy
<1> HIDE DEF lost
<1>2. Tidy(typed, Tokens) /\ Tidy(top, Tokens)
  BY <1>1, TopTidy, TakingIsTidy, TidySwitch, TokensAll
<1> HIDE DEF typed, top
<1>3. Tidy(public, Tokens)
  <2>1. TidyArm(On({"Unsafes"}, <<Adv, typed>>))
    BY <1>2, SafeOne, TakesTidy, ArmTidy DEF EOFs
  <2> QED BY <1>2, <2>1, TidyOne, WhenTidy, TokensAll
<1>4. TidyArm(a) /\ TidyArm(b)
  BY SafeOne, SafeArm DEF Takers, EOFs
<1>5. TidyArm(c)
  BY LookersTidy, TidyOne, ArmTidy, TokensAll DEF Lookers
<1> HIDE DEF a, b, c
<1>6. TidyArms(<<a, b, c>>)
  BY <1>4, <1>5 DEF TidyArms, IsSeq
<1>7. Tidy(const, Tokens)
  BY <1>1, <1>6, TidySwitch, TokensAll
<1> HIDE DEF public, const
<1>8. CodeTidy(<<Adv, public>>, S) /\ CodeTidy(<<Adv, typed>>, S) /\ CodeTidy(<<Adv, const>>, S)
  BY <1>2, <1>3, <1>7, TakesTidy
<1>9. CodeTidy(PublicStatement, S)
  BY <1>8 DEF PublicStatement, public, typed, top, lost
<1>10. CodeTidy(UnsafeStatement, S)
  BY <1>8 DEF UnsafeStatement, typed, lost
<1>11. CodeTidy(ConstStatement, S)
  BY <1>8 DEF ConstStatement, const, a, b, c, lost
<1> QED BY <1>9, <1>10, <1>11

LEMMA TakingFifteen ==
  ASSUME NEW a, NEW b, NEW c, NEW d, NEW e, NEW f, NEW g, NEW h, NEW i, NEW j, NEW k, NEW l,
         NEW m, NEW o, NEW p, TakingArm(a), TakingArm(b), TakingArm(c), TakingArm(d),
         TakingArm(e), TakingArm(f), TakingArm(g), TakingArm(h), TakingArm(i), TakingArm(j),
         TakingArm(k), TakingArm(l), TakingArm(m), TakingArm(o), TakingArm(p)
  PROVE  TakingArms(<<a, b, c, d, e, f, g, h, i, j, k, l, m, o, p>>)
BY DEF TakingArms, IsSeq

LEMMA StmtTidy == AllTidy(parser_stmt) /\ Eager(parser_stmt)
<1> DEFINE a == On({"Publics"}, PublicStatement)
           b == On({"Unsafes"}, UnsafeStatement)
           c == On({"Consts"}, ConstStatement)
           first == <<a, b, c>>
           last == <<On({"Imports"}, <<Call("parser_import")>>),
               On({"Froms"}, <<Call("parser_from_import")>>),
               On({"Ifs"}, <<Call("parser_if")>>),
               On({"Returns"}, <<Call("parser_return")>>),
               On({"Locals"}, <<Call("parser_globle")>>),
               On({"Vars"}, <<Call("parser_vars")>>),
               On({"Lets"}, <<Call("parser_lets")>>),
               On({"Matchs"}, <<Call("parser_match")>>),
               On({"Fors"}, <<Call("parser_for")>>),
               On({"Ats"}, <<Call("parser_operation")>>),
               On({"Selfs"}, <<Call("parser_self")>>),
               On({"Whiles"}, <<Call("parser_while")>>),
               On({"Externs"}, <<Call("parser_extern")>>),
               On(Names, NameStatement),
               On({EOFs}, <<Err>>)>>
           lost == <<Err>> \o parser_sync
<1>1. TakingArm(a) /\ TakingArm(b) /\ TakingArm(c)
  <2>1. TidyArm(a) /\ TidyArm(b) /\ TidyArm(c)
    BY SafeOne, ModifiersTidy, ArmTidy DEF EOFs
  <2>2. Begins(PublicStatement) /\ Begins(UnsafeStatement) /\ Begins(ConstStatement)
    BY DEF Begins, Starter, PublicStatement, UnsafeStatement, ConstStatement
  <2> QED BY <2>1, <2>2 DEF TakingArm, On
<1> HIDE DEF a, b, c
<1>2. TakingArms(first)
  BY <1>1 DEF TakingArms, IsSeq
<1>3. /\ TakingArm(On({"Imports"}, <<Call("parser_import")>>))
      /\ TakingArm(On({"Froms"}, <<Call("parser_from_import")>>))
      /\ TakingArm(On({"Ifs"}, <<Call("parser_if")>>))
      /\ TakingArm(On({"Returns"}, <<Call("parser_return")>>))
      /\ TakingArm(On({"Locals"}, <<Call("parser_globle")>>))
      /\ TakingArm(On({"Vars"}, <<Call("parser_vars")>>))
      /\ TakingArm(On({"Lets"}, <<Call("parser_lets")>>))
      /\ TakingArm(On({"Matchs"}, <<Call("parser_match")>>))
      /\ TakingArm(On({"Fors"}, <<Call("parser_for")>>))
      /\ TakingArm(On({"Whiles"}, <<Call("parser_while")>>))
      /\ TakingArm(On({"Externs"}, <<Call("parser_extern")>>))
  BY CallArm DEF Takers, EOFs
<1>4. /\ TakingArm(On({"Ats"}, <<Call("parser_operation")>>))
      /\ TakingArm(On({"Selfs"}, <<Call("parser_self")>>))
  <2>1. /\ TidyArm(On({"Ats"}, <<Call("parser_operation")>>))
        /\ TidyArm(On({"Selfs"}, <<Call("parser_self")>>))
    BY IsSeqTuple, ArmTidy DEF Unread
  <2>2. {"Ats"} \cap Tokens = {} /\ {"Selfs"} \cap Tokens = {}
    BY SeenTokens DEF Unread
  <2> QED BY <2>1, <2>2 DEF TakingArm, On
<1>5. TakingArm(On(Names, NameStatement))
  <2>1. TidyArm(On(Names, NameStatement))
    BY NotStops, SafeTokens, NameStatementTidy, ArmTidy
  <2>2. Begins(NameStatement)
    BY DEF Begins, Starter, NameStatement
  <2> QED BY <2>1, <2>2 DEF TakingArm, On
<1>6. TakingArm(On({EOFs}, <<Err>>))
  <2>1. TidyArm(On({EOFs}, <<Err>>))
    BY ErrTidy, ArmTidy
  <2>2. Begins(<<Err>>)
    BY DEF Begins, Starter
  <2> QED BY <2>1, <2>2 DEF TakingArm, On
<1>7. TakingArms(last)
  BY <1>3, <1>4, <1>5, <1>6, TakingFifteen
<1>8. CodeTidy(lost, Tokens) /\ Begins(lost)
  <2>1. Blames(lost)
    BY BlamesJoined, IsSeqTuple DEF parser_sync, Blames
  <2> QED BY <2>1, ErrTidy DEF Begins, Blames, Starter
<1> HIDE DEF first, last, lost
<1> DEFINE arms == first \o Top \o last
<1>9. TakingArms(arms)
  BY <1>2, <1>7, TopTidy, TakingArmsBoth
<1> HIDE DEF arms
<1>10. AllTidy(<<Switch(arms, lost)>>)
  BY <1>8, <1>9, TakingIsTidy, TidySwitch, TidyOne, TokensAll
<1>11. Eager(<<Switch(arms, lost)>>)
  BY <1>8, <1>9 DEF Eager, Switch, TakingArms, TakingArm
<1> QED BY <1>10, <1>11 DEF parser_stmt, arms, first, last, lost, a, b, c

LEMMA FileTidy == AllTidy(ParseFile)
<1>1. AllTidy(<<Call("parser_stmt")>>)
  BY LookersTidy, TidyOne, TokensAll DEF Lookers
<1>2. Eager(<<Call("parser_stmt")>>)
  BY DEF Eager, Starter, Call
<1>3. AllTidy(<<Forced(<<Call("parser_stmt")>>)>>)
  BY <1>1, <1>2, AnyTidy, TidyMark, TidyOne, TokensAll
<1> QED BY <1>3, AnyLoop, TidyOne, TokensAll DEF ParseFile


(* What the procedures that look first do is tidy at any token.            *)
LEMMA LookerBody ==
  ASSUME NEW p \in Lookers
  PROVE  AllTidy(Body[p]) /\ p \notin Blocks
<1>1. AllTidy(parser_expr) /\ AllTidy(parser_expr_primary) /\ AllTidy(parser_index)
  BY ExprTidy, PrimaryTidy
<1>2. AllTidy(parser_function_call) /\ AllTidy(parser_type) /\ AllTidy(parser_type_base)
  BY CallTidy, TypesTidy
<1>3. AllTidy(parser_const) /\ AllTidy(parser_stmt)
  BY VariablesTidy, StmtTidy
<1>4. p \notin Blocks
  BY DEF Lookers, Blocks
<1> QED BY <1>1, <1>2, <1>3, <1>4 DEF Lookers, Body

(* What the others do is tidy at the tokens they may consume, but for the  *)
(* end that those which open a block ask for last.                         *)
LEMMA TakerBody ==
  ASSUME NEW p \in Takers, NEW S, Safe(S)
  PROVE  /\ p \notin Blocks => CodeTidy(Body[p], S)
         /\ p \in Blocks \ {"parser_if"} => Ended(Body[p], CloseBlock, S)
         /\ p = "parser_if" => Ended(Body[p], Opt({"Ends"}), S)
<1>1. ASSUME p \notin Blocks PROVE CodeTidy(Body[p], S)
  <2>1. CodeTidy(parser_literal, S) /\ CodeTidy(parser_method_calls, S)
    BY LiteralTidy, CallTidy
  <2>2. CodeTidy(parser_builtin_function, S) /\ CodeTidy(parser_trait_functions, S)
    BY BuiltinTidy, FunctionsTidy
  <2>3. CodeTidy(parser_vars, S) /\ CodeTidy(parser_lets, S) /\ CodeTidy(parser_globle, S)
    BY VariablesTidy
  <2>4. CodeTidy(parser_import, S) /\ CodeTidy(parser_from_import, S)
    BY ImportsTidy
  <2>5. CodeTidy(parser_return, S) /\ CodeTidy(parser_atomic_op, S)
    BY ReturnTidy, AtomicOpTidy
  <2>6. CodeTidy(parser_elif, S) /\ CodeTidy(parser_else, S)
    BY IfTidy
  <2>7. p \in {"parser_literal", "parser_method_calls", "parser_builtin_function",
               "parser_trait_functions", "parser_vars", "parser_lets", "parser_globle",
               "parser_import", "parser_from_import", "parser_return", "parser_atomic_op",
               "parser_elif", "parser_else"}
    BY <1>1 DEF Takers, Blocks
  <2> QED BY <2>1, <2>2, <2>3, <2>4, <2>5, <2>6, <2>7 DEF Body
<1>2. ASSUME p \in Blocks \ {"parser_if"} PROVE Ended(Body[p], CloseBlock, S)
  <2>1. Ended(parser_functions, CloseBlock, S) /\ Ended(parser_class, CloseBlock, S)
    BY FunctionsTidy, ClassTidy
  <2>2. Ended(parser_structer, CloseBlock, S) /\ Ended(parser_enums, CloseBlock, S)
    BY StructerTidy, EnumsTidy
  <2>3. Ended(parser_traits, CloseBlock, S) /\ Ended(parser_extern, CloseBlock, S)
    BY TraitsTidy, ExternTidy
  <2>4. Ended(parser_module, CloseBlock, S)
    BY ModuleTidy
  <2>5. /\ Ended(parser_while, CloseBlock, S) /\ Ended(parser_for, CloseBlock, S)
        /\ Ended(parser_match, CloseBlock, S)
    BY LoopsTidy
  <2> QED BY <1>2, <2>1, <2>2, <2>3, <2>4, <2>5 DEF Blocks, Body
<1>3. ASSUME p = "parser_if" PROVE Ended(Body[p], Opt({"Ends"}), S)
  <2>1. Ended(parser_if, Opt({"Ends"}), S)
    BY IfTidy
  <2> QED BY <1>3, <2>1 DEF Body
<1> QED BY <1>1, <1>2, <1>3

LEMMA AdvThen ==
  ASSUME NEW s, IsSeq(s), Len(s) > 0, s[1] = Adv, NEW t, IsSeq(t)
  PROVE  Len(s \o t) > 0 /\ (s \o t)[1] = Adv /\ IsSeq(s \o t)
<1> DEFINE u == s \o t
<1>1. Joined(s, t, u)
  BY ConcatSeq
<1>2. Len(s) \in Nat /\ Len(t) \in Nat /\ 1 \in DOMAIN s
  BY SeqFacts
<1> HIDE DEF u
<1>3. Len(u) > 0 /\ u[1] = Adv /\ IsSeq(u)
  BY <1>1, <1>2 DEF Joined
<1> QED BY <1>3 DEF u

(* A call that is to consume or report does so first of all.               *)
LEMMA EagerBody ==
  ASSUME NEW p \in (Takers \ {"parser_atomic_op"}) \cup {"parser_stmt"}
  PROVE  Eager(Body[p])
<1>1. ASSUME NEW code, Len(code) > 0, code[1] = Adv PROVE Eager(code)
  BY <1>1 DEF Eager, Starter
<1>2. CASE p = "parser_stmt"
  BY <1>2, StmtTidy DEF Body
<1>3. /\ Eager(parser_structer) /\ Eager(parser_enums) /\ Eager(parser_traits)
      /\ Eager(parser_extern) /\ Eager(parser_import) /\ Eager(parser_from_import)
  BY DEF Eager, Starter, parser_structer, parser_enums, parser_traits, parser_extern,
         parser_import, parser_from_import
<1>4. /\ Eager(parser_builtin_function) /\ Eager(parser_module) /\ Eager(parser_else)
      /\ Eager(parser_literal) /\ Eager(parser_method_calls) /\ Eager(parser_return)
  BY DEF Eager, Starter, parser_builtin_function, parser_module, parser_else, parser_literal,
         parser_method_calls, parser_return
<1>5. /\ Eager(parser_class) /\ Eager(parser_match) /\ Eager(parser_while) /\ Eager(parser_for)
      /\ Eager(parser_elif)
  BY DEF Eager, Starter, parser_class, parser_match, parser_while, parser_for, parser_elif,
         Branches
<1>6. Eager(parser_if)
  <2> DEFINE t == <<Opt({"Ends"})>>
  <2>1. IsSeq(t) /\ IsSeq(Branches) /\ Len(Branches) > 0 /\ Branches[1] = Adv
    BY DEF IsSeq, Branches
  <2> HIDE DEF t
  <2>2. Len(Branches \o t) > 0 /\ (Branches \o t)[1] = Adv
    BY <2>1, AdvThen
  <2>3. Eager(Branches \o t)
    BY <1>1, <2>2
  <2> QED BY <2>3 DEF parser_if, t
<1>7. Eager(parser_trait_functions) /\ Eager(parser_functions)
  <2> DEFINE first == <<Adv, Want(Names), GenericParams, Want({"LeftParens"})>>
             last == <<When({"Colons"}, <<Adv, Call("parser_type")>>, << >>)>>
             body == <<ForcedBlock, CloseBlock>>
  <2>1. IsSeq(first) /\ IsSeq(last) /\ IsSeq(body) /\ Len(first) > 0 /\ first[1] = Adv
    BY DEF IsSeq
  <2>2. IsSeq(MethodParams)
    BY ParamsTidy DEF AllTidy
  <2> HIDE DEF first, last, body
  <2>3. /\ Len(first \o MethodParams) > 0 /\ (first \o MethodParams)[1] = Adv
        /\ IsSeq(first \o MethodParams)
    BY <2>1, <2>2, AdvThen
  <2>4. /\ Len(first \o MethodParams \o last) > 0 /\ (first \o MethodParams \o last)[1] = Adv
        /\ IsSeq(first \o MethodParams \o last)
    BY <2>1, <2>3, AdvThen
  <2>5. /\ Len(first \o MethodParams \o last \o body) > 0
        /\ (first \o MethodParams \o last \o body)[1] = Adv
    BY <2>1, <2>4, AdvThen
  <2> QED BY <1>1, <2>4, <2>5 DEF parser_trait_functions, parser_functions, Signature, first,
               last, body
<1>8. Eager(parser_vars) /\ Eager(parser_lets) /\ Eager(parser_globle)
  <2> DEFINE one == <<Adv>>
  <2>1. IsSeq(one) /\ Len(one) > 0 /\ one[1] = Adv
    BY DEF IsSeq
  <2>2. IsSeq(parser_const)
    BY VariablesTidy DEF AllTidy
  <2> HIDE DEF one
  <2>3. Len(one \o parser_const) > 0 /\ (one \o parser_const)[1] = Adv
    BY <2>1, <2>2, AdvThen
  <2>4. Eager(one \o parser_const)
    BY <1>1, <2>3
  <2> QED BY <2>4 DEF parser_vars, parser_lets, parser_globle, one
<1>9. p \in {"parser_structer", "parser_enums", "parser_traits", "parser_extern",
             "parser_import", "parser_from_import"} => Eager(Body[p])
  BY <1>3 DEF Body
<1>10. p \in {"parser_builtin_function", "parser_module", "parser_else", "parser_literal",
              "parser_method_calls", "parser_return"} => Eager(Body[p])
  BY <1>4 DEF Body
<1>11. p \in {"parser_class", "parser_match", "parser_while", "parser_for", "parser_elif"}
         => Eager(Body[p])
  BY <1>5 DEF Body
<1>12. p \in {"parser_if", "parser_trait_functions", "parser_functions", "parser_vars",
              "parser_lets", "parser_globle"} => Eager(Body[p])
  BY <1>6, <1>7, <1>8 DEF Body
<1> QED BY <1>2, <1>9, <1>10, <1>11, <1>12 DEF Takers

-------------------------------------------------------------------------------
(* The ends that are still to come                                         *)

Places(s, x) == {k \in DOMAIN s : s[k] = x}
Count(s, x) == Cardinality(Places(s, x))

LEMMA PlacesFinite ==
  ASSUME NEW s, IsSeq(s), NEW x
  PROVE  IsFiniteSet(Places(s, x)) /\ Count(s, x) \in Nat
<1>1. DOMAIN s = 1..Len(s) /\ Len(s) \in Nat
  BY SeqFacts
<1>2. IsFiniteSet(1..Len(s))
  BY <1>1, FS_Interval
<1>3. Places(s, x) \subseteq 1..Len(s)
  BY <1>1 DEF Places
<1> QED BY <1>2, <1>3, FS_Subset, FS_CardinalityType DEF Count

LEMMA CountJoined ==
  ASSUME NEW s, IsSeq(s), NEW t, IsSeq(t), NEW u, Joined(s, t, u), NEW x
  PROVE  Count(u, x) = Count(s, x) + Count(t, x)
<1> DEFINE d == Len(s)
           A == Places(s, x)
           B == Places(t, x)
           C == Places(u, x)
           D == {k \in C : k > d}
           f == [j \in B |-> d + j]
<1>1. /\ IsSeq(u) /\ d \in Nat /\ Len(t) \in Nat
      /\ DOMAIN s = 1..d /\ DOMAIN t = 1..Len(t) /\ DOMAIN u = 1..(d + Len(t))
      /\ \A k \in DOMAIN s : u[k] = s[k]
      /\ \A k \in DOMAIN t : u[d + k] = t[k]
  BY SeqFacts DEF Joined
<1> HIDE DEF d
<1>2. ASSUME NEW j \in B PROVE j \in Nat /\ d + j \in D
  <2>1. j \in DOMAIN t /\ t[j] = x
    BY DEF Places
  <2>2. j \in Nat /\ d + j \in DOMAIN u /\ d + j > d
    BY <1>1, <2>1
  <2>3. u[d + j] = x
    BY <1>1, <2>1
  <2> QED BY <2>2, <2>3 DEF Places
<1>3. ASSUME NEW i \in D PROVE \E j \in B : i = d + j
  <2>1. i \in DOMAIN u /\ u[i] = x /\ i > d
    BY DEF Places
  <2> DEFINE j == i - d
  <2>2. j \in DOMAIN t /\ i = d + j
    BY <1>1, <2>1
  <2> HIDE DEF j
  <2>3. t[j] = x
    BY <1>1, <2>1, <2>2
  <2>4. j \in B
    BY <2>2, <2>3 DEF Places
  <2> QED BY <2>2, <2>4
<1>4. C = A \cup D /\ A \cap D = {}
  <2>1. ASSUME NEW i \in A PROVE i \in C /\ i \notin D
    <3>1. i \in DOMAIN s /\ s[i] = x
      BY DEF Places
    <3>2. i \in DOMAIN u /\ ~(i > d)
      BY <1>1, <3>1
    <3> QED BY <1>1, <3>1, <3>2 DEF Places
  <2>2. ASSUME NEW i \in C, i \notin D PROVE i \in A
    <3>1. i \in DOMAIN u /\ u[i] = x /\ ~(i > d)
      BY <2>2 DEF Places
    <3>2. i \in DOMAIN s
      BY <1>1, <3>1
    <3> QED BY <1>1, <3>1, <3>2 DEF Places
  <2>3. D \subseteq C
    OBVIOUS
  <2> HIDE DEF A, C, D
  <2> QED BY <2>1, <2>2, <2>3
<1>5. IsFiniteSet(A) /\ IsFiniteSet(B) /\ IsFiniteSet(C)
  BY <1>1, PlacesFinite
<1> HIDE DEF A, B, D
<1>6. f \in [B -> D] /\ \A j \in B : f[j] = d + j
  BY <1>2
<1>7. \A j, l \in B : f[j] = f[l] => j = l
  BY <1>1, <1>2, <1>6
<1>8. \A i \in D : \E j \in B : f[j] = i
  BY <1>3, <1>6
<1> HIDE DEF f
<1>9. f \in Bijection(B, D)
  BY <1>6, <1>7, <1>8 DEF Bijection, Injection, IsInjective, Surjection
<1>10. IsFiniteSet(D) /\ Cardinality(D) = Cardinality(B)
  BY <1>5, <1>9, FS_Bijection DEF ExistsBijection
<1> HIDE DEF C
<1>11. Cardinality(C) = Cardinality(A) + Cardinality(D)
  <2>1. Cardinality(A \cap D) = 0
    BY <1>4, FS_EmptySet
  <2>2. Cardinality(A \cup D) = Cardinality(A) + Cardinality(D) - Cardinality(A \cap D)
    BY <1>5, <1>10, FS_Union
  <2>3. Cardinality(A) \in Nat /\ Cardinality(D) \in Nat
    BY <1>5, <1>10, FS_CardinalityType
  <2> QED BY <1>4, <2>1, <2>2, <2>3
<1> QED BY <1>10, <1>11 DEF Count, A, B, C

(* An end that has to come, and one that may.                              *)
MayClose == Opt({"Ends"})
Closers == {CloseBlock, MayClose}

LEMMA CloserFacts ==
  /\ CloseBlock.op = "switch" /\ CloseBlock.of = <<On({"Ends"}, <<Adv>>)>>
  /\ Blames(CloseBlock.else) /\ IsSeq(CloseBlock.else)
  /\ MayClose.op = "switch" /\ MayClose.of = <<On({"Ends"}, <<Adv>>)>> /\ MayClose.else = << >>
  /\ CloseBlock # MayClose
<1> DEFINE lost == <<Err>> \o parser_sync
<1>1. Blames(lost) /\ IsSeq(lost)
  <2>1. IsSeq(<<Err>>) /\ IsSeq(parser_sync) /\ Blames(<<Err>>)
    BY IsSeqTuple DEF parser_sync, Blames
  <2> QED BY <2>1, BlamesJoined
<1>2. lost # << >>
  BY <1>1 DEF Blames
<1> HIDE DEF lost
<1>3. /\ CloseBlock.op = "switch" /\ CloseBlock.of = <<On({"Ends"}, <<Adv>>)>>
      /\ CloseBlock.else = lost
  BY DEF CloseBlock, parser_expect, When, Switch, lost
<1>4. MayClose.op = "switch" /\ MayClose.of = <<On({"Ends"}, <<Adv>>)>> /\ MayClose.else = << >>
  BY DEF MayClose, Opt, When, Switch
<1> QED BY <1>1, <1>2, <1>3, <1>4

(* No tidy instruction is one of these, nor a mark of where to force on.   *)
LEMMA TidyOthers ==
  ASSUME NEW i, NEW T \in SUBSET Tokens, T # {}, Tidy(i, T)
  PROVE  i \notin Closers /\ i.op # "force" /\ i.op # "end"
<1>1. PICK F : Tidies(F) /\ Asks(F, i, T)
  BY TidyAsks
<1>2. i.op # "force" /\ i.op # "end"
  BY <1>1 DEF Asks
<1>3. ASSUME i \in Closers PROVE FALSE
  <2>1. i.op = "switch" /\ i.of = <<On({"Ends"}, <<Adv>>)>>
    BY <1>3, CloserFacts DEF Closers
  <2>2. \A k \in DOMAIN i.of : CodeIn(F, i.of[k][2], i.of[k][1] \cap Tokens)
    BY <1>1, <2>1 DEF Asks
  <2>3. 1 \in DOMAIN i.of /\ i.of[1][2] = <<Adv>> /\ i.of[1][1] = {"Ends"}
    BY <2>1 DEF On
  <2> DEFINE S == {"Ends"} \cap Tokens
  <2>4. S \in SUBSET Tokens /\ S # {} /\ S \cap Stops # {}
    BY DEF Tokens, Unread, Stops
  <2>5. CodeIn(F, <<Adv>>, S)
    BY <2>2, <2>3
  <2> HIDE DEF S
  <2>6. CodeTidy(<<Adv>>, S)
    BY <1>1, <2>5, KnownTidy
  <2>7. ~Blames(<<Adv>>)
    BY DEF Blames, Adv, Err
  <2>8. Tidy(Adv, S)
    <3>1. 1 \in DOMAIN <<Adv>> /\ <<Adv>>[1] = Adv
      OBVIOUS
    <3>2. Where(<<Adv>>, 1, S) = S
      BY DEF Where
    <3> QED BY <2>4, <2>6, <2>7, <3>1, <3>2 DEF CodeTidy
  <2>9. PICK G : Tidies(G) /\ Asks(G, Adv, S)
    BY <2>4, <2>8, TidyAsks
  <2> QED BY <2>4, <2>9 DEF Asks, Adv
<1> QED BY <1>2, <1>3

(* Some token is current, wherever the code is.                            *)
LEMMA WhereSome ==
  ASSUME NEW code, NEW k, NEW T, T # {}
  PROVE  Where(code, k, T) # {}
<1>1. Tokens # {}
  BY DEF Tokens, Unread, EOFs
<1>2. ASSUME NEW i, IsCheck(i) PROVE Checked(i) # {}
  BY <1>2 DEF IsCheck, Checked, When, Switch, On
<1> QED BY <1>1, <1>2 DEF Where

(* ----------------------------- Stacks in order -------------------------- *)

Fine(i, T) == Tidy(i, T) \/ i \in Closers \/ i.op \in {"end", "force"}
FineAt(s, T) == IsSeq(s) /\ \A k \in DOMAIN s : Fine(s[k], Where(s, k, T))

(* As many ends are owed as are still to come, but for those of an if.     *)
Balanced(s, o, i) ==
  /\ o \in Int /\ i \in Nat
  /\ Count(s, CloseBlock) + Count(s, MayClose) <= o
  /\ o <= Count(s, CloseBlock) + i

(* Where the parser would be forced on, it has moved on by then.           *)
Reached(s, p) == \A k \in DOMAIN s : s[k].op = "force" => s[k].of \in Nat /\ s[k].of <= p
Behind(s, p) == \A k \in DOMAIN s : s[k].op = "force" => s[k].of \in Nat /\ s[k].of < p
Moving(s, p) == Behind(s, p) \/ (Reached(s, p) /\ Eager(s))

(* Code without any of these.                                              *)
Plain(s) == \A k \in DOMAIN s : s[k].op # "force" /\ s[k] \notin Closers

LEMMA FineMore ==
  ASSUME NEW i, NEW T, NEW S, T \subseteq S, Fine(i, S)
  PROVE  Fine(i, T)
BY TidyMore DEF Fine

LEMMA FineAtMore ==
  ASSUME NEW s, NEW T, NEW S, T \subseteq S, FineAt(s, S)
  PROVE  FineAt(s, T)
BY WhereLess, FineMore DEF FineAt

LEMMA PlainTidy ==
  ASSUME NEW code, NEW T \in SUBSET Tokens, T # {}, CodeTidy(code, T), ~Blames(code)
  PROVE  FineAt(code, T) /\ Plain(code)
<1>1. IsSeq(code) /\ \A k \in DOMAIN code : Tidy(code[k], Where(code, k, T))
  BY DEF CodeTidy
<1>2. ASSUME NEW k \in DOMAIN code PROVE code[k].op # "force" /\ code[k] \notin Closers
  BY <1>1, WhereTokens, WhereSome, TidyOthers
<1> QED BY <1>1, <1>2 DEF FineAt, Fine, Plain

LEMMA PlainCount ==
  ASSUME NEW s, Plain(s), NEW x \in Closers
  PROVE  Count(s, x) = 0
<1>1. Places(s, x) = {}
  BY DEF Plain, Places
<1> QED BY <1>1, FS_EmptySet DEF Count

LEMMA CountOne ==
  ASSUME NEW a, NEW x
  PROVE  Count(<<a>>, x) = IF a = x THEN 1 ELSE 0
<1>1. Places(<<a>>, x) = IF a = x THEN {1} ELSE {}
  BY DEF Places
<1> QED BY <1>1, FS_EmptySet, FS_Singleton DEF Count

(* Beyond the code just pushed, any token may be current.                  *)
LEMMA WhereAfter ==
  ASSUME NEW s, IsSeq(s), NEW t, IsSeq(t), NEW u, Joined(s, t, u), NEW l \in DOMAIN t,
         NEW T \in SUBSET Tokens
  PROVE  Where(u, Len(s) + l, T) \subseteq Where(t, l, Tokens)
<1>1. /\ Len(s) \in Nat /\ Len(t) \in Nat /\ DOMAIN s = 1..Len(s) /\ DOMAIN t = 1..Len(t)
      /\ \A k \in DOMAIN t : u[Len(s) + k] = t[k]
  BY SeqFacts DEF Joined
<1> DEFINE k == Len(s) + l
<1>2. CASE l = 1
  BY <1>2, WhereTokens DEF Where
<1>3. CASE l # 1
  <2>1. l - 1 \in DOMAIN t /\ k - 1 = Len(s) + (l - 1) /\ k # 1
    BY <1>1, <1>3
  <2>2. u[k - 1] = t[l - 1]
    BY <1>1, <2>1
  <2>3. CASE IsCheck(t[l - 1])
    BY <1>3, <2>1, <2>2, <2>3 DEF Where
  <2>4. CASE ~IsCheck(t[l - 1])
    <3>1. Where(t, l, Tokens) = Tokens
      BY <1>3, <2>4 DEF Where
    <3> QED BY <3>1, WhereTokens
  <2> QED BY <2>3, <2>4
<1> QED BY <1>2, <1>3

LEMMA FineJoined ==
  ASSUME NEW s, NEW T \in SUBSET Tokens, FineAt(s, T), NEW t, FineAt(t, Tokens)
  PROVE  FineAt(s \o t, T)
<1>1. IsSeq(s) /\ IsSeq(t)
  BY DEF FineAt
<1> DEFINE u == s \o t
<1>2. Joined(s, t, u)
  BY <1>1, ConcatSeq
<1> HIDE DEF u
<1>3. /\ IsSeq(u) /\ DOMAIN u = 1..(Len(s) + Len(t)) /\ Len(s) \in Nat /\ Len(t) \in Nat
      /\ DOMAIN s = 1..Len(s) /\ DOMAIN t = 1..Len(t)
  BY <1>1, <1>2, SeqFacts DEF Joined
<1>4. ASSUME NEW k \in DOMAIN u PROVE Fine(u[k], Where(u, k, T))
  <2>1. CASE k <= Len(s)
    <3>1. k \in DOMAIN s /\ u[k] = s[k]
      BY <1>2, <1>3, <2>1 DEF Joined
    <3>2. Where(u, k, T) = Where(s, k, T)
      BY <1>1, <1>2, <3>1, WhereJoined
    <3> QED BY <3>1, <3>2 DEF FineAt
  <2>2. CASE ~(k <= Len(s))
    <3> DEFINE l == k - Len(s)
    <3>1. l \in DOMAIN t /\ k = Len(s) + l
      BY <1>3, <2>2
    <3> HIDE DEF l
    <3>2. u[k] = t[l] /\ Fine(t[l], Where(t, l, Tokens))
      BY <1>2, <3>1 DEF Joined, FineAt
    <3>3. Where(u, k, T) \subseteq Where(t, l, Tokens)
      BY <1>1, <1>2, <3>1, WhereAfter
    <3> QED BY <3>2, <3>3, FineMore
  <2> QED BY <2>1, <2>2
<1>5. FineAt(u, T)
  BY <1>3, <1>4 DEF FineAt
<1> QED BY <1>5 DEF u

(* Marks of where to force on are those of what was on the stack.          *)
LEMMA MarksJoined ==
  ASSUME NEW s, IsSeq(s), \A k \in DOMAIN s : s[k].op # "force", NEW t, IsSeq(t), NEW p
  PROVE  /\ Behind(t, p) => Behind(s \o t, p)
         /\ Reached(t, p) => Reached(s \o t, p)
<1> DEFINE u == s \o t
<1>2. Joined(s, t, u)
  BY ConcatSeq
<1> HIDE DEF u
<1>3. /\ IsSeq(u) /\ DOMAIN u = 1..(Len(s) + Len(t)) /\ Len(s) \in Nat /\ Len(t) \in Nat
      /\ DOMAIN s = 1..Len(s) /\ DOMAIN t = 1..Len(t)
  BY <1>2, SeqFacts DEF Joined
<1>4. ASSUME NEW k \in DOMAIN u, u[k].op = "force"
      PROVE  \E l \in DOMAIN t : u[k] = t[l]
  <2>1. CASE k <= Len(s)
    <3>1. k \in DOMAIN s /\ u[k] = s[k]
      BY <1>2, <1>3, <2>1 DEF Joined
    <3> QED BY <1>4, <3>1
  <2>2. CASE ~(k <= Len(s))
    <3> DEFINE l == k - Len(s)
    <3>1. l \in DOMAIN t /\ k = Len(s) + l
      BY <1>3, <2>2
    <3> HIDE DEF l
    <3> QED BY <1>2, <3>1 DEF Joined
  <2> QED BY <2>1, <2>2
<1>5. Behind(t, p) => Behind(u, p)
  BY <1>4 DEF Behind
<1>6. Reached(t, p) => Reached(u, p)
  BY <1>4 DEF Reached
<1> QED BY <1>5, <1>6 DEF u

LEMMA BeginsJoined ==
  ASSUME NEW s, IsSeq(s), NEW t, IsSeq(t)
  PROVE  /\ Begins(s) => Begins(s \o t)
         /\ Eager(s) => Eager(s \o t)
<1> DEFINE u == s \o t
<1>1. Joined(s, t, u)
  BY ConcatSeq
<1>2. Len(s) \in Nat /\ Len(t) \in Nat /\ DOMAIN s = 1..Len(s)
  BY SeqFacts
<1> HIDE DEF u
<1>3. Len(s) > 0 => Len(u) > 0 /\ u[1] = s[1]
  BY <1>1, <1>2 DEF Joined
<1>4. Begins(s) => Begins(u)
  BY <1>3 DEF Begins
<1>5. Eager(s) => Eager(u)
  BY <1>3 DEF Eager
<1> QED BY <1>4, <1>5 DEF u


(* What is left to do at the tokens T, with o ends owed, i of the blocks an *)
(* if, and p tokens consumed.                                              *)
Held(s, T, o, i, p) == FineAt(s, T) /\ Balanced(s, o, i) /\ Moving(s, p)

(* Tidy code is pushed.                                                    *)
LEMMA PushHeld ==
  ASSUME NEW T \in SUBSET Tokens, T # {}, NEW code, CodeTidy(code, T), NEW rest,
         FineAt(rest, Tokens), NEW o, NEW i, Balanced(rest, o, i), NEW p,
         Behind(rest, p) \/ (Reached(rest, p) /\ Eager(code))
  PROVE  Blames(code \o rest) \/ Held(code \o rest, T, o, i, p)
<1>1. IsSeq(code) /\ IsSeq(rest)
  BY DEF CodeTidy, FineAt
<1>2. CASE Blames(code)
  BY <1>1, <1>2, BlamesJoined
<1>3. CASE ~Blames(code)
  <2> DEFINE u == code \o rest
  <2>1. FineAt(code, T) /\ Plain(code)
    BY <1>3, PlainTidy
  <2>2. FineAt(u, T)
    BY <2>1, FineJoined
  <2>3. Joined(code, rest, u)
    BY <1>1, ConcatSeq
  <2>4. (Behind(rest, p) => Behind(u, p)) /\ (Reached(rest, p) => Reached(u, p))
    BY <1>1, <2>1, MarksJoined DEF Plain
  <2>5. Eager(code) => Eager(u)
    BY <1>1, BeginsJoined
  <2> HIDE DEF u
  <2>6. \A x \in Closers : Count(u, x) = Count(rest, x)
    <3> SUFFICES ASSUME NEW x \in Closers PROVE Count(u, x) = Count(rest, x)
      OBVIOUS
    <3>1. Count(u, x) = Count(code, x) + Count(rest, x) /\ Count(rest, x) \in Nat
      BY <1>1, <2>3, CountJoined, PlacesFinite
    <3>2. Count(code, x) = 0
      BY <2>1, PlainCount
    <3> QED BY <3>1, <3>2
  <2>7. Balanced(u, o, i)
    BY <2>6 DEF Balanced, Closers
  <2>8. Moving(u, p)
    BY <2>4, <2>5 DEF Moving
  <2> QED BY <2>2, <2>7, <2>8 DEF Held, u
<1> QED BY <1>2, <1>3

(* So is code that ends with an end to come.                               *)
LEMMA EndedCount ==
  ASSUME NEW T \in SUBSET Tokens, T # {}, NEW code, NEW x \in Closers, Ended(code, x, T),
         ~Blames(code)
  PROVE  /\ FineAt(code, T) /\ \A k \in DOMAIN code : code[k].op # "force"
         /\ \A y \in Closers : Count(code, y) = IF y = x THEN 1 ELSE 0
<1>1. /\ IsSeq(code) /\ Len(code) > 0 /\ code[Len(code)] = x
      /\ \A k \in DOMAIN code : k = Len(code) \/ Tidy(code[k], Where(code, k, T))
  BY DEF Ended
<1>2. DOMAIN code = 1..Len(code) /\ Len(code) \in Nat
  BY <1>1, SeqFacts
<1>3. Len(code) \in DOMAIN code
  BY <1>1, <1>2
<1>4. \A k \in DOMAIN code :
        k = Len(code) \/ (code[k] \notin Closers /\ code[k].op # "force")
  BY <1>1, WhereTokens, WhereSome, TidyOthers
<1>5. x.op # "force"
  BY CloserFacts DEF Closers
<1>6. FineAt(code, T)
  BY <1>1 DEF FineAt, Fine
<1>7. ASSUME NEW y \in Closers PROVE Count(code, y) = IF y = x THEN 1 ELSE 0
  <2>1. Places(code, y) = IF y = x THEN {Len(code)} ELSE {}
    BY <1>1, <1>3, <1>4 DEF Places
  <2> QED BY <2>1, FS_EmptySet, FS_Singleton DEF Count
<1> QED BY <1>1, <1>4, <1>5, <1>6, <1>7

LEMMA EndedHeld ==
  ASSUME NEW T \in SUBSET Tokens, T # {}, NEW code, NEW x \in Closers, Ended(code, x, T),
         NEW rest, FineAt(rest, Tokens), NEW o, NEW i, Balanced(rest, o, i), NEW p,
         Behind(rest, p) \/ (Reached(rest, p) /\ Eager(code))
  PROVE  \/ Blames(code \o rest)
         \/ Held(code \o rest, T, o + 1, IF x = CloseBlock THEN i ELSE i + 1, p)
<1>1. IsSeq(code) /\ IsSeq(rest)
  BY DEF Ended, FineAt
<1>2. CASE Blames(code)
  BY <1>1, <1>2, BlamesJoined
<1>3. CASE ~Blames(code)
  <2> DEFINE u == code \o rest
             j == IF x = CloseBlock THEN i ELSE i + 1
  <2>1. /\ FineAt(code, T) /\ \A k \in DOMAIN code : code[k].op # "force"
        /\ \A y \in Closers : Count(code, y) = IF y = x THEN 1 ELSE 0
    BY <1>3, EndedCount
  <2>2. FineAt(u, T)
    BY <2>1, FineJoined
  <2>3. Joined(code, rest, u)
    BY <1>1, ConcatSeq
  <2>4. (Behind(rest, p) => Behind(u, p)) /\ (Reached(rest, p) => Reached(u, p))
    BY <1>1, <2>1, MarksJoined
  <2>5. Eager(code) => Eager(u)
    BY <1>1, BeginsJoined
  <2> HIDE DEF u
  <2>6. \A y \in Closers : /\ Count(u, y) = Count(code, y) + Count(rest, y)
                           /\ Count(rest, y) \in Nat
    BY <1>1, <2>3, CountJoined, PlacesFinite
  <2>7. Balanced(u, o + 1, j)
    <3> DEFINE a == Count(rest, CloseBlock)
               b == Count(rest, MayClose)
               c == Count(u, CloseBlock)
               d == Count(u, MayClose)
    <3>1. a \in Nat /\ b \in Nat /\ o \in Int /\ i \in Nat /\ a + b <= o /\ o <= a + i
      BY <2>6 DEF Balanced, Closers
    <3>2. CASE x = CloseBlock
      <4>1. c = 1 + a /\ d = 0 + b /\ j = i
        BY <2>1, <2>6, <3>2, CloserFacts DEF Closers
      <4> HIDE DEF a, b, c, d, j
      <4>2. o + 1 \in Int /\ j \in Nat /\ c + d <= o + 1 /\ o + 1 <= c + j
        BY <3>1, <4>1
      <4> QED BY <4>2 DEF Balanced, c, d
    <3>3. CASE x = MayClose
      <4>1. c = 0 + a /\ d = 1 + b /\ j = i + 1
        BY <2>1, <2>6, <3>3, CloserFacts DEF Closers
      <4> HIDE DEF a, b, c, d, j
      <4>2. o + 1 \in Int /\ j \in Nat /\ c + d <= o + 1 /\ o + 1 <= c + j
        BY <3>1, <4>1
      <4> QED BY <4>2 DEF Balanced, c, d
    <3> QED BY <3>2, <3>3 DEF Closers
  <2>8. Moving(u, p)
    BY <2>4, <2>5 DEF Moving
  <2> QED BY <2>2, <2>7, <2>8 DEF Held, u
<1> QED BY <1>2, <1>3

(* The head of the stack, and what is under it.                            *)
LEMMA HeadJoined ==
  ASSUME NEW s, IsSeq(s), s # << >>
  PROVE  /\ Joined(<<s[1]>>, Tail(s), s) /\ IsSeq(<<s[1]>>) /\ IsSeq(Tail(s))
         /\ 1 \in DOMAIN s /\ Head(s) = s[1]
         /\ \A l \in DOMAIN Tail(s) : /\ l + 1 \in DOMAIN s /\ s[l + 1] = Tail(s)[l]
                                      /\ l \in Nat /\ l >= 1 /\ (l # 1 => l - 1 \in DOMAIN Tail(s))
<1> DEFINE t == Tail(s)
           h == <<s[1]>>
<1>1. /\ Dropped(s, 1, t) /\ Head(s) = s[1] /\ 1 \in DOMAIN s /\ IsSeq(t)
      /\ DOMAIN s = 1..(Len(t) + 1) /\ Len(t) \in Nat
  BY TailDropped
<1>2. Len(h) = 1 /\ DOMAIN h = {1} /\ h[1] = s[1] /\ IsSeq(h)
  BY DEF IsSeq
<1> HIDE DEF t, h
<1>3. Len(s) = Len(t) + 1 /\ \A l \in DOMAIN t : s[l + 1] = t[l]
  BY <1>1 DEF Dropped
<1>4. DOMAIN t = 1..Len(t)
  BY <1>1, SeqFacts
<1>5. \A l \in DOMAIN t : s[1 + l] = t[l]
  <2>1. \A l \in DOMAIN t : 1 + l = l + 1
    BY <1>1, <1>4
  <2> QED BY <1>3, <2>1
<1>6. Joined(h, t, s)
  <2>1. Len(s) = Len(h) + Len(t)
    BY <1>1, <1>2, <1>3
  <2>2. \A l \in DOMAIN t : s[Len(h) + l] = t[l]
    BY <1>2, <1>5
  <2> QED BY <1>2, <2>1, <2>2 DEF Joined
<1>7. \A l \in DOMAIN t : /\ l + 1 \in DOMAIN s /\ s[l + 1] = t[l]
                          /\ l \in Nat /\ l >= 1 /\ (l # 1 => l - 1 \in DOMAIN t)
  <2> SUFFICES ASSUME NEW l \in DOMAIN t
               PROVE  /\ l + 1 \in DOMAIN s
                      /\ l \in Nat /\ l >= 1 /\ (l # 1 => l - 1 \in DOMAIN t)
    BY <1>3
  <2> QED BY <1>1, <1>4
<1> QED BY <1>1, <1>2, <1>6, <1>7 DEF t, h

LEMMA CheckParts ==
  ASSUME NEW i, IsCheck(i)
  PROVE  /\ i.op = "switch" /\ i.else = <<Err>>
         /\ \E T : i.of = <<On(T, << >>)>> /\ Checked(i) = T \cap Tokens /\ T \cap Tokens # {}
<1>1. PICK T : T \cap Tokens # {} /\ i = When(T, << >>, <<Err>>)
  BY DEF IsCheck
<1>2. i.op = "switch" /\ i.of = <<On(T, << >>)>> /\ i.else = <<Err>>
  BY <1>1 DEF When, Switch
<1>3. Checked(i) = T \cap Tokens
  BY <1>2 DEF Checked, On
<1> QED BY <1>1, <1>2, <1>3

LEMMA PopFine ==
  ASSUME NEW s, s # << >>, NEW T \in SUBSET Tokens, FineAt(s, T)
  PROVE  /\ ~IsCheck(s[1]) /\ s[1].op \notin {"leaf", "import"} => FineAt(Tail(s), Tokens)
         /\ s[1].op \in {"leaf", "import"} => FineAt(Tail(s), T)
         /\ IsCheck(s[1]) /\ T \subseteq Checked(s[1]) => FineAt(Tail(s), T)
<1> DEFINE t == Tail(s)
<1>1. IsSeq(s)
  BY DEF FineAt
<1>2. IsSeq(t) /\ \A l \in DOMAIN t : /\ l + 1 \in DOMAIN s /\ s[l + 1] = t[l]
                                      /\ l \in Nat /\ l >= 1 /\ (l # 1 => l - 1 \in DOMAIN t)
  BY <1>1, HeadJoined
<1> HIDE DEF t
<1>3. ASSUME NEW R \in SUBSET Tokens,
             R \subseteq Where(s, 2, T) /\ (R = Tokens \/ R = T)
      PROVE  FineAt(t, R)
  <2>1. ASSUME NEW l \in DOMAIN t PROVE Where(t, l, R) \subseteq Where(s, l + 1, T)
    <3>1. CASE l = 1
      <4>1. Where(t, l, R) = R /\ l + 1 = 2
        BY <3>1 DEF Where
      <4> QED BY <1>3, <4>1
    <3>2. CASE l # 1
      <4>1. l - 1 \in DOMAIN t /\ (l - 1) + 1 = l /\ (l + 1) - 1 = l /\ l + 1 # 1 /\ l + 1 # 2
        BY <1>2, <3>2
      <4>2. s[(l + 1) - 1] = t[l - 1]
        BY <1>2, <4>1
      <4>3. CASE IsCheck(t[l - 1])
        BY <3>2, <4>1, <4>2, <4>3 DEF Where
      <4>4. CASE ~IsCheck(t[l - 1])
        <5>1. Where(s, l + 1, T) = Tokens
          BY <4>1, <4>2, <4>4 DEF Where
        <5> QED BY <5>1, WhereTokens
      <4> QED BY <4>3, <4>4
    <3> QED BY <3>1, <3>2
  <2>2. ASSUME NEW l \in DOMAIN t PROVE Fine(t[l], Where(t, l, R))
    <3>1. Fine(s[l + 1], Where(s, l + 1, T)) /\ s[l + 1] = t[l]
      BY <1>2 DEF FineAt
    <3> QED BY <2>1, <3>1, FineMore
  <2> QED BY <1>2, <2>2 DEF FineAt
<1>4. Where(s, 2, T) = IF IsCheck(s[1]) THEN Checked(s[1])
                       ELSE IF s[1].op \in {"leaf", "import"} THEN T ELSE Tokens
  <2>1. 2 - 1 = 1 /\ 2 # 1
    OBVIOUS
  <2> QED BY <2>1 DEF Where
<1>5. s[1].op \in {"leaf", "import"} => ~IsCheck(s[1])
  BY CheckParts
<1>6. ~IsCheck(s[1]) /\ s[1].op \notin {"leaf", "import"} => FineAt(t, Tokens)
  BY <1>3, <1>4
<1>7. s[1].op \in {"leaf", "import"} => FineAt(t, T)
  BY <1>3, <1>4, <1>5
<1>8. IsCheck(s[1]) /\ T \subseteq Checked(s[1]) => FineAt(t, T)
  BY <1>3, <1>4
<1> QED BY <1>6, <1>7, <1>8 DEF t

LEMMA PopMarks ==
  ASSUME NEW s, IsSeq(s), s # << >>, NEW p
  PROVE  /\ Behind(s, p) => Behind(Tail(s), p)
         /\ Reached(s, p) => Reached(Tail(s), p)
<1>1. \A l \in DOMAIN Tail(s) : l + 1 \in DOMAIN s /\ s[l + 1] = Tail(s)[l]
  BY HeadJoined
<1>2. Behind(s, p) => Behind(Tail(s), p)
  BY <1>1 DEF Behind
<1>3. Reached(s, p) => Reached(Tail(s), p)
  BY <1>1 DEF Reached
<1> QED BY <1>2, <1>3

LEMMA PopCount ==
  ASSUME NEW s, IsSeq(s), s # << >>, NEW x
  PROVE  /\ Count(s, x) = (IF s[1] = x THEN 1 ELSE 0) + Count(Tail(s), x)
         /\ Count(Tail(s), x) \in Nat
<1>1. Joined(<<s[1]>>, Tail(s), s) /\ IsSeq(<<s[1]>>) /\ IsSeq(Tail(s))
  BY HeadJoined
<1>2. Count(s, x) = Count(<<s[1]>>, x) + Count(Tail(s), x)
  BY <1>1, CountJoined
<1> QED BY <1>1, <1>2, CountOne, PlacesFinite

LEMMA PopBalanced ==
  ASSUME NEW s, IsSeq(s), s # << >>, NEW o, NEW i, Balanced(s, o, i)
  PROVE  /\ s[1] \notin Closers => Balanced(Tail(s), o, i)
         /\ s[1] \in Closers => Balanced(Tail(s), o - 1, i)
         /\ s[1] = MayClose => Balanced(Tail(s), o, i)
<1> DEFINE a == Count(Tail(s), CloseBlock)
           b == Count(Tail(s), MayClose)
           c == Count(s, CloseBlock)
           d == Count(s, MayClose)
<1>1. /\ c = (IF s[1] = CloseBlock THEN 1 ELSE 0) + a /\ a \in Nat
      /\ d = (IF s[1] = MayClose THEN 1 ELSE 0) + b /\ b \in Nat
  BY PopCount
<1>2. o \in Int /\ i \in Nat /\ c + d <= o /\ o <= c + i
  BY DEF Balanced
<1>3. (o \in Int /\ i \in Nat /\ a + b <= o /\ o <= a + i) => Balanced(Tail(s), o, i)
  BY DEF Balanced
<1>4. (o - 1 \in Int /\ i \in Nat /\ a + b <= o - 1 /\ o - 1 <= a + i)
         => Balanced(Tail(s), o - 1, i)
  BY DEF Balanced
<1>5. CloseBlock # MayClose
  BY CloserFacts
<1> HIDE DEF a, b, c, d
<1>6. CASE s[1] \notin Closers
  BY <1>1, <1>2, <1>3, <1>5, <1>6 DEF Closers
<1>7. CASE s[1] = CloseBlock
  BY <1>1, <1>2, <1>4, <1>5, <1>7 DEF Closers
<1>8. CASE s[1] = MayClose
  BY <1>1, <1>2, <1>3, <1>4, <1>5, <1>8 DEF Closers
<1> QED BY <1>6, <1>7, <1>8 DEF Closers

LEMMA StillMarks ==
  ASSUME NEW s, NEW p
  PROVE  /\ Moving(s, p) /\ ~Eager(s) => Behind(s, p)
         /\ p \in Nat /\ Moving(s, p) => Reached(s, p)
         /\ p \in Nat /\ Moving(s, p) => Behind(s, p + 1)
<1>1. ASSUME p \in Nat, Behind(s, p) PROVE Reached(s, p)
  BY <1>1 DEF Behind, Reached
<1>2. ASSUME p \in Nat, Reached(s, p) PROVE Behind(s, p + 1)
  BY <1>2 DEF Behind, Reached
<1> QED BY <1>1, <1>2 DEF Moving

LEMMA NotEager ==
  ASSUME NEW s, s[1].op \notin {"advance", "report", "call", "switch"}
  PROVE  ~Eager(s)
BY DEF Eager, Starter, Adv, Err


(* ------------------------------- The states ----------------------------- *)

(* Nothing was reported, and no token was skipped unread.                  *)
Watched == ~reported /\ file.tokens \cap Unread = {} /\ peeked # "Colons"

(* An end that was asked for is about to be consumed.                      *)
Closing(s, t, o, i, p) ==
  /\ IsSeq(s) /\ s # << >> /\ s[1] = Adv /\ t = "Ends"
  /\ FineAt(Tail(s), Tokens) /\ Balanced(Tail(s), o - 1, i) /\ Moving(s, p)

Orderly(s, t, o, i, p) == Blames(s) \/ Held(s, {t}, o, i, p) \/ Closing(s, t, o, i, p)

(* While the file may still be accepted, what is left to do asks for just  *)
(* the ends that are owed, and takes no other.                             *)
ClosedInv == Watched => Orderly(todo, tok, owed, ifs, pos)

LEMMA ReadTokens ==
  ASSUME NEW f \in Files, f.tokens \cap Unread = {}, NEW t \in f.tokens \cup {EOFs}
  PROVE  t \in Tokens /\ {t} \in SUBSET Tokens /\ {t} # {}
BY DEF Tokens, Unread, EOFs

LEMMA WatchedFacts ==
  ASSUME StackInv, TypeOK, Watched
  PROVE  /\ tok \in Tokens /\ {tok} \in SUBSET Tokens /\ {tok} # {}
         /\ pos \in Nat /\ IsSeq(todo)
<1>1. file \in Files /\ tok \in file.tokens \cup {EOFs} /\ file.tokens \cap Unread = {}
  BY DEF TypeOK, Watched
<1> QED BY <1>1, ReadTokens, SoundStack

(* The head of a stack in order.                                           *)
LEMMA HeadFine ==
  ASSUME NEW s, s # << >>, NEW T, FineAt(s, T)
  PROVE  Fine(s[1], T) /\ Head(s) = s[1] /\ IsSeq(s) /\ IsSeq(Tail(s))
<1>1. IsSeq(s)
  BY DEF FineAt
<1>2. 1 \in DOMAIN s /\ Head(s) = s[1] /\ IsSeq(Tail(s))
  BY <1>1, HeadJoined
<1>3. Where(s, 1, T) = T
  BY DEF Where
<1> QED BY <1>1, <1>2, <1>3 DEF FineAt

LEMMA HeadAsks ==
  ASSUME NEW i, NEW T, T # {}, Fine(i, T), i \notin Closers, i.op \notin {"end", "force"}
  PROVE  \E F : Tidies(F) /\ Asks(F, i, T)
BY TidyAsks DEF Fine

(* An instruction that neither starts nor chooses is left behind.          *)
LEMMA PopHeld ==
  ASSUME NEW s, s # << >>, NEW T \in SUBSET Tokens, NEW o, NEW i, NEW p, Held(s, T, o, i, p),
         s[1].op \notin {"advance", "report", "call", "switch"}
  PROVE  /\ Held(Tail(s), T, o, i, p) /\ Balanced(Tail(s), o, i) /\ Behind(Tail(s), p)
         /\ Behind(s, p)
         /\ s[1].op \notin {"leaf", "import"} => FineAt(Tail(s), Tokens)
<1>1. FineAt(s, T) /\ Balanced(s, o, i) /\ Moving(s, p) /\ IsSeq(s)
  BY DEF Held, FineAt
<1>2. ~IsCheck(s[1]) /\ s[1] \notin Closers
  BY CheckParts, CloserFacts DEF Closers
<1>3. s[1].op \notin {"leaf", "import"} => FineAt(Tail(s), Tokens)
  BY <1>1, <1>2, PopFine
<1>4. FineAt(Tail(s), T)
  <2>1. s[1].op \in {"leaf", "import"} => FineAt(Tail(s), T)
    BY <1>1, PopFine
  <2> QED BY <1>3, <2>1, FineAtMore
<1>5. Balanced(Tail(s), o, i)
  BY <1>1, <1>2, PopBalanced
<1>6. Behind(s, p) /\ Behind(Tail(s), p)
  BY <1>1, NotEager, StillMarks, PopMarks
<1> QED BY <1>3, <1>4, <1>5, <1>6 DEF Held, Moving

LEMMA EmptyThen ==
  ASSUME NEW s, IsSeq(s)
  PROVE  << >> \o s = s
<1> DEFINE A == {s[k] : k \in DOMAIN s}
<1>1. s \in Seq(A)
  BY DEF IsSeq
<1> HIDE DEF A
<1> QED BY <1>1

LEMMA ArmOne ==
  ASSUME NEW T, NEW yes, NEW no
  PROVE  Arm(<<On(T, yes)>>, no) = IF tok \in T THEN yes ELSE no
<1> DEFINE arms == <<On(T, yes)>>
<1>1. IsSeq(arms) /\ DOMAIN arms = {1} /\ arms[1][1] = T /\ arms[1][2] = yes
  BY DEF IsSeq, On
<1> HIDE DEF arms
<1>2. CASE tok \notin T
  <2>1. {k \in DOMAIN arms : tok \in arms[k][1]} = {}
    BY <1>1, <1>2
  <2> QED BY <1>2, <2>1 DEF Arm, arms
<1>3. CASE tok \in T
  <2>1. {k \in DOMAIN arms : tok \in arms[k][1]} = {1}
    BY <1>1, <1>3
  <2> DEFINE k == CHOOSE k \in {1} : \A j \in {1} : k <= j
  <2>2. k = 1
    <3>1. \E l \in {1} : \A j \in {1} : l <= j
      OBVIOUS
    <3> QED BY <3>1
  <2>3. Arm(arms, no) = arms[k][2]
    BY <2>1 DEF Arm
  <2> HIDE DEF k
  <2> QED BY <1>1, <1>3, <2>2, <2>3 DEF arms
<1> QED BY <1>2, <1>3

(* Code that chooses between others, of which the chosen one is tidy.      *)
LEMMA ChosenTidy ==
  ASSUME NEW i, i.op = "switch", tok \in Tokens, NEW F, Tidies(F), Asks(F, i, {tok}),
         NEW s, s[1] = i
  PROVE  CodeTidy(Arm(i.of, i.else), {tok}) /\ (Eager(s) => Eager(Arm(i.of, i.else)))
<1> DEFINE code == Arm(i.of, i.else)
<1>1. /\ IsSeq(i.of)
      /\ \A k \in DOMAIN i.of : CodeIn(F, i.of[k][2], i.of[k][1] \cap Tokens)
      /\ CodeIn(F, i.else, {tok})
  BY DEF Asks
<1>2. \A c, T : CodeIn(F, c, T) => CodeTidy(c, T)
  BY KnownTidy
<1>3. Eager(s) => /\ \A k \in DOMAIN i.of : i.of[k][1] \cap Tokens # {} => Begins(i.of[k][2])
                  /\ Begins(i.else)
  BY DEF Eager, Starter, Adv, Err
<1>4. \A c : Begins(c) => Eager(c)
  BY DEF Begins, Eager
<1>5. \/ code = i.else
      \/ \E k \in DOMAIN i.of : tok \in i.of[k][1] /\ code = i.of[k][2]
  BY <1>1, ArmTaken
<1> HIDE DEF code
<1>6. CASE code = i.else
  BY <1>1, <1>2, <1>3, <1>4, <1>6 DEF code
<1>7. CASE \E k \in DOMAIN i.of : tok \in i.of[k][1] /\ code = i.of[k][2]
  <2>1. PICK k \in DOMAIN i.of : tok \in i.of[k][1] /\ code = i.of[k][2]
    BY <1>7
  <2> DEFINE S == i.of[k][1] \cap Tokens
  <2>2. CodeTidy(code, S)
    BY <1>1, <1>2, <2>1
  <2>3. {tok} \subseteq S /\ S # {}
    BY <2>1
  <2>4. Eager(s) => Begins(code)
    BY <1>3, <2>1, <2>3
  <2> HIDE DEF S
  <2>5. CodeTidy(code, {tok})
    BY <2>2, <2>3, CodeTidyMore
  <2> QED BY <1>4, <2>4, <2>5 DEF code
<1> QED BY <1>5, <1>6, <1>7

(* ------------------------------- The steps ------------------------------ *)

LEMMA GotoClosed ==
  ASSUME NEW program, Goto(program), Watched => Orderly(program, tok, owed, ifs, pos)
  PROVE  ClosedInv'
<1>1. /\ todo' = program /\ tok' = tok /\ owed' = owed /\ ifs' = ifs /\ pos' = pos
      /\ file' = file /\ reported' = reported /\ peeked' = peeked
  BY DEF Goto, Reading, Flags
<1>2. Watched' = Watched
  BY <1>1 DEF Watched
<1>3. Orderly(program, tok, owed, ifs, pos) = Orderly(todo', tok', owed', ifs', pos')
  BY <1>1
<1> QED BY <1>2, <1>3 DEF ClosedInv

(* Only Advance and Report run on a stack that is not held.                *)
LEMMA HeldAt ==
  ASSUME StackInv, TypeOK, ClosedInv, Watched, todo # << >>, Ins.op \notin {"advance", "report"}
  PROVE  /\ Held(todo, {tok}, owed, ifs, pos) /\ Ins = todo[1] /\ Rest = Tail(todo)
         /\ FineAt(todo, {tok}) /\ Fine(todo[1], {tok}) /\ IsSeq(Rest)
<1>1. IsSeq(todo)
  BY SoundStack
<1>2. Ins = todo[1]
  BY <1>1, HeadJoined DEF Ins
<1>3. ~Blames(todo) /\ ~Closing(todo, tok, owed, ifs, pos)
  BY <1>2 DEF Blames, Closing, Adv, Err
<1>4. Held(todo, {tok}, owed, ifs, pos)
  BY <1>3 DEF ClosedInv, Orderly
<1>5. FineAt(todo, {tok})
  BY <1>4 DEF Held
<1>6. Fine(todo[1], {tok}) /\ IsSeq(Tail(todo))
  BY <1>5, HeadFine
<1> QED BY <1>2, <1>4, <1>5, <1>6 DEF Rest

LEMMA AdvanceClosed ==
  ASSUME StackInv, TypeOK, ClosedInv, TypeOK', Advance
  PROVE  ClosedInv'
<1>1. /\ todo # << >> /\ Ins.op = "advance" /\ todo' = Rest /\ file' = file
      /\ reported' = reported /\ peeked' = peeked /\ ifs' = ifs
      /\ pos' = IF tok = EOFs THEN pos ELSE pos + 1
      /\ owed' = IF tok = "Ends" THEN owed - 1 ELSE owed
  BY DEF Advance, At, Consume, Flags
<1> SUFFICES ASSUME Watched' PROVE Held(Rest, {tok'}, owed', ifs', pos')
  BY <1>1 DEF ClosedInv, Orderly
<1>2. Watched
  BY <1>1 DEF Watched
<1>3. tok \in Tokens /\ {tok} \in SUBSET Tokens /\ {tok} # {} /\ pos \in Nat /\ IsSeq(todo)
  BY <1>2, WatchedFacts
<1>4. {tok'} \in SUBSET Tokens
  <2>1. file' \in Files /\ tok' \in file'.tokens \cup {EOFs}
    BY DEF TypeOK
  <2>2. file'.tokens \cap Unread = {}
    BY DEF Watched
  <2> QED BY <2>1, <2>2, ReadTokens
<1>5. Ins = todo[1] /\ Rest = Tail(todo)
  BY <1>3, <1>1, HeadJoined DEF Ins, Rest
<1>6. ASSUME FineAt(Rest, Tokens), Balanced(Rest, owed', ifs'), tok # EOFs,
             Moving(todo, pos)
      PROVE  Held(Rest, {tok'}, owed', ifs', pos')
  <2>1. pos' = pos + 1
    BY <1>1, <1>6
  <2>2. Behind(todo, pos + 1)
    BY <1>3, <1>6, StillMarks
  <2>3. Behind(Rest, pos + 1)
    BY <1>1, <1>3, <1>5, <2>2, PopMarks
  <2>4. FineAt(Rest, {tok'})
    BY <1>4, <1>6, FineAtMore
  <2> QED BY <1>6, <2>1, <2>3, <2>4 DEF Held, Moving
<1>7. CASE Blames(todo)
  BY <1>1, <1>5, <1>7 DEF Blames, Err
<1>8. CASE Held(todo, {tok}, owed, ifs, pos)
  <2>1. FineAt(todo, {tok}) /\ Balanced(todo, owed, ifs) /\ Moving(todo, pos)
    BY <1>8 DEF Held
  <2>2. Fine(Ins, {tok})
    BY <1>1, <1>5, <2>1, HeadFine
  <2>3. Ins \notin Closers /\ ~IsCheck(Ins)
    BY <1>1, CloserFacts, CheckParts DEF Closers
  <2>4. PICK F : Asks(F, Ins, {tok})
    BY <1>1, <1>3, <2>2, <2>3, HeadAsks
  <2>5. tok # EOFs /\ tok # "Ends"
    BY <1>1, <2>4 DEF Asks, Stops
  <2>6. FineAt(Rest, Tokens)
    BY <1>1, <1>3, <1>5, <2>1, <2>3, PopFine
  <2>7. Balanced(Rest, owed, ifs)
    BY <1>1, <1>3, <1>5, <2>1, <2>3, PopBalanced
  <2> QED BY <1>1, <1>6, <2>1, <2>5, <2>6, <2>7
<1>9. CASE Closing(todo, tok, owed, ifs, pos)
  <2>1. /\ tok = "Ends" /\ FineAt(Rest, Tokens) /\ Balanced(Rest, owed - 1, ifs)
        /\ Moving(todo, pos)
    BY <1>5, <1>9 DEF Closing
  <2>2. tok # EOFs /\ owed' = owed - 1 /\ ifs' = ifs
    BY <1>1, <2>1 DEF EOFs
  <2> QED BY <1>6, <2>1, <2>2
<1> QED BY <1>2, <1>7, <1>8, <1>9 DEF ClosedInv, Orderly


LEMMA ReportClosed ==
  ASSUME Report
  PROVE  ClosedInv'
BY DEF Report, ClosedInv, Watched

LEMMA CloserNotCheck ==
  ASSUME NEW i \in Closers
  PROVE  ~IsCheck(i) /\ i.op = "switch" /\ i.of = <<On({"Ends"}, <<Adv>>)>>
<1>1. i.op = "switch" /\ i.of = <<On({"Ends"}, <<Adv>>)>>
  BY CloserFacts DEF Closers
<1>2. ASSUME IsCheck(i) PROVE FALSE
  <2>1. PICK T : i.of = <<On(T, << >>)>>
    BY <1>2, CheckParts
  <2>2. i.of[1][2] = << >> /\ i.of[1][2] = <<Adv>>
    BY <1>1, <2>1 DEF On
  <2>3. \A a : << >> # <<a>>
    OBVIOUS
  <2> QED BY <2>2, <2>3
<1> QED BY <1>1, <1>2

(* Neither an if's end that may be missing nor a check begins anything.    *)
LEMMA WaitsThen ==
  ASSUME NEW s, s[1] = MayClose \/ IsCheck(s[1])
  PROVE  ~Eager(s)
<1>1. ~Begins(<< >>)
  BY DEF Begins
<1>2. CASE s[1] = MayClose
  <2>1. s[1].op = "switch" /\ s[1].else = << >>
    BY <1>2, CloserFacts
  <2> QED BY <1>1, <2>1 DEF Eager, Starter, Adv, Err
<1>3. CASE IsCheck(s[1])
  <2>1. s[1].op = "switch"
    BY <1>3, CheckParts
  <2>2. PICK T : s[1].of = <<On(T, << >>)>> /\ T \cap Tokens # {}
    BY <1>3, CheckParts
  <2>3. 1 \in DOMAIN s[1].of /\ s[1].of[1][1] = T /\ s[1].of[1][2] = << >>
    BY <2>2 DEF On
  <2>4. ~(\A k \in DOMAIN s[1].of : s[1].of[k][1] \cap Tokens # {} => Begins(s[1].of[k][2]))
    BY <1>1, <2>2, <2>3
  <2> QED BY <2>1, <2>4 DEF Eager, Starter, Adv, Err
<1> QED BY <1>2, <1>3

(* The end that is asked for is taken, or it is missing.                   *)
LEMMA CloserHeld ==
  ASSUME NEW s, s # << >>, NEW o, NEW i, NEW p \in Nat, tok \in Tokens, Held(s, {tok}, o, i, p),
         s[1] \in Closers
  PROVE  Orderly(Arm(s[1].of, s[1].else) \o Tail(s), tok, o, i, p)
<1> DEFINE rest == Tail(s)
           code == Arm(s[1].of, s[1].else)
<1>1. FineAt(s, {tok}) /\ Balanced(s, o, i) /\ Moving(s, p) /\ IsSeq(s)
  BY DEF Held, FineAt
<1>2. ~IsCheck(s[1]) /\ s[1].op = "switch" /\ s[1].of = <<On({"Ends"}, <<Adv>>)>>
  BY CloserNotCheck
<1>3. IsSeq(rest) /\ FineAt(rest, Tokens)
  BY <1>1, <1>2, PopFine, HeadJoined
<1>4. Reached(rest, p) /\ (Behind(s, p) => Behind(rest, p))
  BY <1>1, StillMarks, PopMarks
<1>5. Balanced(rest, o - 1, i) /\ (s[1] = MayClose => Balanced(rest, o, i))
  BY <1>1, PopBalanced
<1>6. code = IF tok \in {"Ends"} THEN <<Adv>> ELSE s[1].else
  BY <1>2, ArmOne
<1> HIDE DEF rest, code
<1>7. CASE tok = "Ends"
  <2> DEFINE a == Adv
             u == <<a>> \o rest
  <2>1. IsSeq(u) /\ u # << >> /\ Head(u) = a /\ Tail(u) = rest
    BY <1>3, PushOne
  <2>2. IsSeq(<<a>>) /\ Eager(<<a>>) /\ \A k \in DOMAIN <<a>> : <<a>>[k].op # "force"
    BY IsSeqTuple DEF Eager, Starter, Adv
  <2> HIDE DEF a
  <2>3. Eager(u) /\ Reached(u, p)
    BY <1>3, <1>4, <2>2, BeginsJoined, MarksJoined
  <2> HIDE DEF u
  <2>4. u[1] = a
    BY <2>1, HeadJoined
  <2>5. Closing(u, tok, o, i, p)
    BY <1>3, <1>5, <1>7, <2>1, <2>3, <2>4 DEF Closing, Moving, a
  <2> QED BY <1>6, <1>7, <2>5 DEF Orderly, u, a, rest, code
<1>8. CASE tok # "Ends" /\ s[1] = CloseBlock
  <2>1. Blames(code) /\ IsSeq(code)
    BY <1>6, <1>8, CloserFacts
  <2> QED BY <1>3, <2>1, BlamesJoined DEF Orderly, rest, code
<1>9. CASE tok # "Ends" /\ s[1] = MayClose
  <2>1. code = << >>
    BY <1>6, <1>9, CloserFacts
  <2>2. code \o rest = rest
    BY <1>3, <2>1, EmptyThen
  <2>3. Behind(rest, p)
    BY <1>1, <1>4, <1>9, WaitsThen, StillMarks
  <2>4. FineAt(rest, {tok})
    BY <1>3, FineAtMore
  <2>5. Held(rest, {tok}, o, i, p)
    BY <1>5, <1>9, <2>3, <2>4 DEF Held, Moving
  <2> QED BY <2>2, <2>5 DEF Orderly, rest, code
<1> QED BY <1>7, <1>8, <1>9 DEF Closers, rest, code

LEMMA CheckHeld ==
  ASSUME NEW s, s # << >>, NEW o, NEW i, NEW p \in Nat, tok \in Tokens, Held(s, {tok}, o, i, p),
         IsCheck(s[1])
  PROVE  Orderly(Arm(s[1].of, s[1].else) \o Tail(s), tok, o, i, p)
<1> DEFINE rest == Tail(s)
           code == Arm(s[1].of, s[1].else)
<1>1. FineAt(s, {tok}) /\ Balanced(s, o, i) /\ Moving(s, p) /\ IsSeq(s)
  BY DEF Held, FineAt
<1>2. IsSeq(rest) /\ ({tok} \subseteq Checked(s[1]) => FineAt(rest, {tok}))
  BY <1>1, PopFine, HeadJoined
<1>3. Behind(rest, p)
  BY <1>1, WaitsThen, StillMarks, PopMarks
<1>4. s[1] \notin Closers
  BY CloserNotCheck
<1>5. Balanced(rest, o, i)
  BY <1>1, <1>4, PopBalanced
<1>6. s[1].else = <<Err>>
  BY CheckParts
<1>7. PICK T : s[1].of = <<On(T, << >>)>> /\ Checked(s[1]) = T \cap Tokens
  BY CheckParts
<1>8. code = IF tok \in T THEN << >> ELSE <<Err>>
  BY <1>6, <1>7, ArmOne
<1> HIDE DEF rest, code
<1>9. CASE tok \notin T
  <2>1. Blames(code) /\ IsSeq(code)
    BY <1>8, <1>9, IsSeqTuple DEF Blames
  <2> QED BY <1>2, <2>1, BlamesJoined DEF Orderly, rest, code
<1>10. CASE tok \in T
  <2>1. code \o rest = rest
    BY <1>2, <1>8, <1>10, EmptyThen
  <2>2. FineAt(rest, {tok})
    BY <1>2, <1>7, <1>10
  <2>3. Held(rest, {tok}, o, i, p)
    BY <1>3, <1>5, <2>2 DEF Held, Moving
  <2> QED BY <2>1, <2>3 DEF Orderly, rest, code
<1> QED BY <1>9, <1>10

LEMMA BranchClosed ==
  ASSUME StackInv, TypeOK, ClosedInv, Branch
  PROVE  ClosedInv'
<1> DEFINE code == Arm(Ins.of, Ins.else)
<1>1. todo # << >> /\ Ins.op = "switch" /\ Goto(code \o Rest)
  BY DEF Branch, At
<1> HIDE DEF code
<1>2. ASSUME Watched PROVE Orderly(code \o Rest, tok, owed, ifs, pos)
  <2>1. /\ Held(todo, {tok}, owed, ifs, pos) /\ Ins = todo[1] /\ Rest = Tail(todo)
        /\ FineAt(todo, {tok}) /\ Fine(todo[1], {tok}) /\ IsSeq(Rest)
    BY <1>1, <1>2, HeldAt
  <2>2. tok \in Tokens /\ {tok} \in SUBSET Tokens /\ {tok} # {} /\ pos \in Nat /\ IsSeq(todo)
    BY <1>2, WatchedFacts
  <2>3. CASE Ins \in Closers
    BY <1>1, <2>1, <2>2, <2>3, CloserHeld DEF code
  <2>4. CASE IsCheck(Ins)
    BY <1>1, <2>1, <2>2, <2>4, CheckHeld DEF code
  <2>5. CASE Ins \notin Closers /\ ~IsCheck(Ins)
    <3>1. PICK F : Tidies(F) /\ Asks(F, Ins, {tok})
      BY <1>1, <2>1, <2>2, <2>5, HeadAsks
    <3>2. CodeTidy(code, {tok}) /\ (Eager(todo) => Eager(code))
      BY <1>1, <2>1, <2>2, <3>1, ChosenTidy DEF code
    <3>3. FineAt(Rest, Tokens)
      BY <1>1, <2>1, <2>2, <2>5, PopFine
    <3>4. Balanced(Rest, owed, ifs)
      BY <1>1, <2>1, <2>2, <2>5, PopBalanced DEF Held
    <3>5. Behind(Rest, pos) \/ (Reached(Rest, pos) /\ Eager(code))
      BY <1>1, <2>1, <2>2, <3>2, PopMarks DEF Held, Moving
    <3> QED BY <2>2, <3>2, <3>3, <3>4, <3>5, PushHeld DEF Orderly
  <2> QED BY <2>3, <2>4, <2>5
<1> QED BY <1>1, <1>2, GotoClosed

(* What is tidy whatever the current token, is so wherever the stack says. *)
LEMMA HeadAnywhere ==
  ASSUME NEW s, s # << >>, NEW T, FineAt(s, T), s[1].op \notin {"leaf", "import"},
         NEW S \in SUBSET Tokens, Fine(s[1], S)
  PROVE  FineAt(s, S)
<1>1. IsSeq(s)
  BY DEF FineAt
<1>2. ASSUME NEW k \in DOMAIN s PROVE Fine(s[k], Where(s, k, S))
  <2>1. CASE k = 1
    BY <2>1 DEF Where
  <2>2. CASE k # 1
    <3>1. Where(s, k, S) = Where(s, k, T)
      BY <2>2 DEF Where
    <3> QED BY <3>1 DEF FineAt
  <2> QED BY <2>1, <2>2
<1> QED BY <1>1, <1>2 DEF FineAt

LEMMA IterateClosed ==
  ASSUME StackInv, TypeOK, ClosedInv, Iterate
  PROVE  ClosedInv'
<1> DEFINE code == Ins.do
<1>1. /\ todo # << >> /\ Ins.op = "loop"
      /\ Goto(IF (tok \in Ins.of) = Ins.sense THEN code \o todo ELSE Rest)
  BY DEF Iterate, At
<1> HIDE DEF code
<1>2. ASSUME Watched
      PROVE  /\ Orderly(Rest, tok, owed, ifs, pos)
             /\ (tok \in Ins.of) = Ins.sense => Orderly(code \o todo, tok, owed, ifs, pos)
  <2>1. /\ Held(todo, {tok}, owed, ifs, pos) /\ Ins = todo[1] /\ Rest = Tail(todo)
        /\ FineAt(todo, {tok}) /\ Fine(todo[1], {tok}) /\ IsSeq(Rest)
    BY <1>1, <1>2, HeldAt
  <2>2. tok \in Tokens /\ {tok} \in SUBSET Tokens /\ {tok} # {} /\ pos \in Nat /\ IsSeq(todo)
    BY <1>2, WatchedFacts
  <2>3. Held(Rest, {tok}, owed, ifs, pos) /\ Behind(todo, pos) /\ Balanced(todo, owed, ifs)
    BY <1>1, <2>1, <2>2, PopHeld DEF Held
  <2>4. Ins \notin Closers
    BY <1>1, CloserNotCheck
  <2>5. PICK F : Tidies(F) /\ Asks(F, Ins, {tok})
    BY <1>1, <2>1, <2>2, <2>4, HeadAsks
  <2>6. CodeIn(F, code, Loops(Ins)) /\ Asks(F, Ins, Tokens)
    BY <1>1, <2>5 DEF Asks, code
  <2>7. Fine(Ins, Tokens)
    BY <2>5, <2>6, AddingTidy DEF Fine
  <2>8. FineAt(todo, Tokens)
    BY <1>1, <2>1, <2>7, HeadAnywhere
  <2>9. ASSUME (tok \in Ins.of) = Ins.sense PROVE Orderly(code \o todo, tok, owed, ifs, pos)
    <3>1. {tok} \subseteq Loops(Ins)
      BY <2>2, <2>9 DEF Loops
    <3>2. CodeTidy(code, {tok})
      BY <2>5, <2>6, <3>1, KnownTidy, CodeTidyMore
    <3> QED BY <2>2, <2>3, <2>8, <3>2, PushHeld DEF Orderly
  <2> QED BY <2>3, <2>9 DEF Orderly
<1> QED BY <1>1, <1>2, GotoClosed

(* Tidy code does not leave a procedure or a loop.                         *)
LEMMA StaysHere ==
  ASSUME StackInv, TypeOK, ClosedInv, Watched, todo # << >>,
         Ins.op \in {"return", "break", "continue"}
  PROVE  FALSE
<1>1. Ins = todo[1] /\ Fine(todo[1], {tok})
  BY HeldAt
<1>2. Ins \notin Closers
  BY CloserNotCheck
<1>3. \E F : Tidies(F) /\ Asks(F, Ins, {tok})
  BY <1>1, <1>2, HeadAsks
<1> QED BY <1>3 DEF Asks

LEMMA LeavesClosed ==
  ASSUME StackInv, TypeOK, ClosedInv, Break \/ Continue \/ Return
  PROVE  ClosedInv'
<1>1. /\ todo # << >> /\ Ins.op \in {"return", "break", "continue"}
      /\ \E program : Goto(program)
  BY DEF Break, Continue, Return, At
<1>2. ~Watched
  BY <1>1, StaysHere
<1> QED BY <1>1, <1>2, GotoClosed

(* A mark of where a procedure ends or the parser is forced on is pushed.  *)
LEMMA PutMark ==
  ASSUME NEW a, a.op \in {"end", "force"}, NEW rest, FineAt(rest, Tokens),
         NEW o, NEW i, Balanced(rest, o, i), NEW p
  PROVE  /\ FineAt(<<a>> \o rest, Tokens) /\ Balanced(<<a>> \o rest, o, i)
         /\ IsSeq(<<a>> \o rest)
         /\ a.op = "end" /\ Behind(rest, p) => Behind(<<a>> \o rest, p)
         /\ a.op = "end" /\ Reached(rest, p) => Reached(<<a>> \o rest, p)
         /\ a.of = p /\ p \in Nat /\ Behind(rest, p) => Reached(<<a>> \o rest, p)
<1> DEFINE h == <<a>>
           u == h \o rest
<1>1. IsSeq(h) /\ DOMAIN h = {1} /\ h[1] = a /\ Len(h) = 1
  BY DEF IsSeq
<1>2. Joined(h, rest, u) /\ IsSeq(rest)
  BY <1>1, ConcatSeq DEF FineAt
<1>3. a \notin Closers
  BY CloserNotCheck
<1>4. \A x \in Closers : Count(u, x) = Count(rest, x)
  <2> SUFFICES ASSUME NEW x \in Closers PROVE Count(u, x) = Count(rest, x)
    OBVIOUS
  <2>1. Count(u, x) = Count(h, x) + Count(rest, x) /\ Count(rest, x) \in Nat
    BY <1>1, <1>2, CountJoined, PlacesFinite
  <2>2. Count(h, x) = 0
    BY <1>3, CountOne
  <2> QED BY <2>1, <2>2
<1>5. Balanced(u, o, i)
  BY <1>4 DEF Balanced, Closers
<1>6. FineAt(h, Tokens)
  BY <1>1 DEF FineAt, Fine
<1> HIDE DEF h
<1>7. FineAt(u, Tokens) /\ IsSeq(u)
  BY <1>2, <1>6, FineJoined DEF Joined
<1>8. /\ a.op = "end" /\ Behind(rest, p) => Behind(u, p)
      /\ a.op = "end" /\ Reached(rest, p) => Reached(u, p)
  <2>1. a.op = "end" => \A k \in DOMAIN h : h[k].op # "force"
    BY <1>1
  <2> QED BY <1>1, <1>2, <2>1, MarksJoined
<1> HIDE DEF u
<1>9. ASSUME a.of = p, p \in Nat, Behind(rest, p) PROVE Reached(u, p)
  <2>1. /\ IsSeq(u) /\ DOMAIN u = 1..(1 + Len(rest)) /\ Len(rest) \in Nat
        /\ DOMAIN rest = 1..Len(rest)
    BY <1>1, <1>2, SeqFacts DEF Joined
  <2> SUFFICES ASSUME NEW k \in DOMAIN u, u[k].op = "force"
               PROVE  u[k].of \in Nat /\ u[k].of <= p
    BY DEF Reached
  <2>2. CASE k = 1
    <3>1. u[1] = a
      BY <1>1, <1>2 DEF Joined
    <3> QED BY <1>9, <2>2, <3>1
  <2>3. CASE k # 1
    <3> DEFINE l == k - 1
    <3>1. l \in DOMAIN rest /\ k = 1 + l
      BY <2>1, <2>3
    <3> HIDE DEF l
    <3>2. u[k] = rest[l]
      BY <1>1, <1>2, <3>1 DEF Joined
    <3> QED BY <1>9, <3>1, <3>2 DEF Behind
  <2> QED BY <2>2, <2>3
<1> QED BY <1>5, <1>7, <1>8, <1>9 DEF u, h

LEMMA MarkClosed ==
  ASSUME StackInv, TypeOK, ClosedInv, Mark
  PROVE  ClosedInv'
<1> DEFINE code == Ins.do
           a == [op |-> "force", of |-> pos]
           rest == <<a>> \o Rest
<1>1. todo # << >> /\ Ins.op = "mark" /\ Goto(code \o <<a>> \o Rest)
  BY DEF Mark, At
<1>2. a.op = "force" /\ a.of = pos
  OBVIOUS
<1> HIDE DEF code, a
<1>3. ASSUME Watched PROVE Orderly(code \o <<a>> \o Rest, tok, owed, ifs, pos)
  <2>1. /\ Held(todo, {tok}, owed, ifs, pos) /\ Ins = todo[1] /\ Rest = Tail(todo)
        /\ FineAt(todo, {tok}) /\ Fine(todo[1], {tok}) /\ IsSeq(Rest)
    BY <1>1, <1>3, HeldAt
  <2>2. tok \in Tokens /\ {tok} \in SUBSET Tokens /\ {tok} # {} /\ pos \in Nat /\ IsSeq(todo)
    BY <1>3, WatchedFacts
  <2>3. Behind(Rest, pos) /\ Balanced(Rest, owed, ifs) /\ FineAt(Rest, Tokens)
    BY <1>1, <2>1, <2>2, PopHeld
  <2>4. FineAt(rest, Tokens) /\ Balanced(rest, owed, ifs) /\ Reached(rest, pos)
    BY <1>2, <2>2, <2>3, PutMark
  <2>5. Ins \notin Closers
    BY <1>1, CloserNotCheck
  <2>6. PICK F : Tidies(F) /\ Asks(F, Ins, {tok})
    BY <1>1, <2>1, <2>2, <2>5, HeadAsks
  <2>7. CodeIn(F, code, {tok}) /\ Eager(code)
    BY <1>1, <2>6 DEF Asks, code
  <2>8. CodeTidy(code, {tok})
    BY <2>6, <2>7, KnownTidy
  <2>9. code \o <<a>> \o Rest = code \o rest
    <3> DEFINE one == <<a>>
    <3>1. IsSeq(code) /\ IsSeq(one) /\ IsSeq(Rest)
      BY <2>1, <2>8, IsSeqTuple DEF CodeTidy
    <3> HIDE DEF one
    <3>2. code \o one \o Rest = code \o (one \o Rest)
      BY <3>1, ConcatThree
    <3> QED BY <3>2 DEF one
  <2> HIDE DEF rest
  <2>10. Orderly(code \o rest, tok, owed, ifs, pos)
    BY <2>2, <2>4, <2>7, <2>8, PushHeld DEF Orderly
  <2> QED BY <2>9, <2>10
<1> QED BY <1>1, <1>3, GotoClosed

(* The parser is never forced on: it has moved.                            *)
LEMMA ForceOnClosed ==
  ASSUME StackInv, TypeOK, ClosedInv, ForceOn
  PROVE  ClosedInv'
<1>1. /\ todo # << >> /\ Ins.op = "force"
      /\ \/ pos = Ins.of /\ Consume /\ UNCHANGED <<file, Flags>> /\ todo' = Rest
         \/ pos # Ins.of /\ Goto(Rest)
  BY DEF ForceOn, At
<1>2. ASSUME Watched PROVE pos # Ins.of /\ Orderly(Rest, tok, owed, ifs, pos)
  <2>1. /\ Held(todo, {tok}, owed, ifs, pos) /\ Ins = todo[1] /\ Rest = Tail(todo)
        /\ FineAt(todo, {tok}) /\ Fine(todo[1], {tok}) /\ IsSeq(Rest)
    BY <1>1, <1>2, HeldAt
  <2>2. tok \in Tokens /\ {tok} \in SUBSET Tokens /\ {tok} # {} /\ pos \in Nat /\ IsSeq(todo)
    BY <1>2, WatchedFacts
  <2>3. Behind(todo, pos) /\ Held(Rest, {tok}, owed, ifs, pos)
    BY <1>1, <2>1, <2>2, PopHeld
  <2>4. 1 \in DOMAIN todo
    BY <1>1, <2>2, HeadJoined
  <2>5. Ins.of \in Nat /\ Ins.of < pos
    BY <1>1, <2>1, <2>3, <2>4 DEF Behind
  <2> QED BY <2>2, <2>3, <2>5 DEF Orderly
<1>3. CASE pos # Ins.of /\ Goto(Rest)
  BY <1>2, <1>3, GotoClosed
<1>4. CASE pos = Ins.of /\ Consume /\ UNCHANGED <<file, Flags>> /\ todo' = Rest
  BY <1>2, <1>4 DEF ClosedInv, Watched, Flags
<1> QED BY <1>1, <1>3, <1>4

(* A call, its end pushed under what it does.                              *)
LEMMA CallUnder ==
  ASSUME NEW T \in SUBSET Tokens, NEW s, s # << >>, NEW o, NEW i, NEW p, Held(s, T, o, i, p),
         s[1].op \in {"call", "call_bp"}, NEW q, NEW rest, rest = End(q) \o Tail(s)
  PROVE  /\ FineAt(rest, Tokens) /\ Balanced(rest, o, i) /\ IsSeq(Tail(s)) /\ IsSeq(End(q))
         /\ \/ Behind(rest, p)
            \/ Reached(rest, p) /\ s[1].op = "call"
               /\ s[1].of \in (Takers \ {"parser_atomic_op"}) \cup {"parser_stmt"}
<1> DEFINE a == [op |-> "end", of |-> q]
           t == Tail(s)
<1>1. FineAt(s, T) /\ Balanced(s, o, i) /\ Moving(s, p) /\ IsSeq(s)
  BY DEF Held, FineAt
<1>2. s[1] \notin Closers /\ ~IsCheck(s[1])
  BY CloserNotCheck, CheckParts
<1>3. FineAt(t, Tokens) /\ Balanced(t, o, i) /\ IsSeq(t)
  BY <1>1, <1>2, PopFine, PopBalanced, HeadJoined
<1>4. (Behind(s, p) => Behind(t, p)) /\ (Reached(s, p) => Reached(t, p))
  BY <1>1, PopMarks
<1>5. a.op = "end" /\ End(q) = <<a>> /\ IsSeq(End(q))
  BY IsSeqTuple DEF End
<1> HIDE DEF a, t
<1>6. rest = <<a>> \o t
  BY <1>5 DEF t
<1>7. /\ FineAt(rest, Tokens) /\ Balanced(rest, o, i)
      /\ Behind(t, p) => Behind(rest, p)
      /\ Reached(t, p) => Reached(rest, p)
  <2> DEFINE u == <<a>> \o t
  <2>1. /\ FineAt(u, Tokens) /\ Balanced(u, o, i)
        /\ Behind(t, p) => Behind(u, p)
        /\ Reached(t, p) => Reached(u, p)
    BY <1>3, <1>5, PutMark
  <2>2. rest = u
    BY <1>6
  <2> HIDE DEF u
  <2> QED BY <2>1, <2>2
<1>8. Eager(s) => /\ s[1].op = "call"
                  /\ s[1].of \in (Takers \ {"parser_atomic_op"}) \cup {"parser_stmt"}
  BY DEF Eager, Starter, Adv, Err
<1> QED BY <1>1, <1>3, <1>4, <1>5, <1>7, <1>8 DEF Moving, t

LEMMA EnterClosed ==
  ASSUME StackInv, TypeOK, ClosedInv, Enter
  PROVE  ClosedInv'
<1> DEFINE p == Ins.of
           code == Body[p]
           rest == End(p) \o Rest
<1>1. /\ todo # << >> /\ Ins.op = "call" /\ todo' = code \o End(p) \o Rest
      /\ owed' = IF p \in Blocks THEN owed + 1 ELSE owed
      /\ ifs' = IF p = "parser_if" THEN ifs + 1 ELSE ifs
      /\ file' = file /\ tok' = tok /\ pos' = pos /\ reported' = reported /\ peeked' = peeked
  BY DEF Enter, At, Flags
<1> SUFFICES ASSUME Watched PROVE Orderly(todo', tok, owed', ifs', pos)
  <2>1. Watched' = Watched
    BY <1>1 DEF Watched
  <2>2. Orderly(todo', tok, owed', ifs', pos) = Orderly(todo', tok', owed', ifs', pos')
    BY <1>1
  <2> QED BY <2>1, <2>2 DEF ClosedInv
<1>2. /\ Held(todo, {tok}, owed, ifs, pos) /\ Ins = todo[1] /\ Rest = Tail(todo)
      /\ Fine(todo[1], {tok})
  BY <1>1, HeldAt
<1>3. tok \in Tokens /\ {tok} \in SUBSET Tokens /\ {tok} # {}
  BY WatchedFacts
<1>4. Ins \notin Closers
  BY <1>1, CloserNotCheck
<1>5. PICK F : Asks(F, Ins, {tok})
  BY <1>1, <1>2, <1>3, <1>4, HeadAsks
<1>6. p \in Lookers \/ (p \in Takers /\ Safe({tok}))
  BY <1>1, <1>3, <1>5 DEF Asks, Safe
<1>7. /\ FineAt(rest, Tokens) /\ Balanced(rest, owed, ifs) /\ IsSeq(Rest) /\ IsSeq(End(p))
      /\ \/ Behind(rest, pos)
         \/ Reached(rest, pos) /\ p \in (Takers \ {"parser_atomic_op"}) \cup {"parser_stmt"}
  BY <1>1, <1>2, <1>3, CallUnder
<1>8. Behind(rest, pos) \/ (Reached(rest, pos) /\ Eager(code))
  BY <1>7, EagerBody
<1>9. IsSeq(code) => todo' = code \o rest
  <2> DEFINE e == End(p)
  <2>1. IsSeq(e) /\ IsSeq(Rest)
    BY <1>7
  <2> HIDE DEF e, code
  <2>2. IsSeq(code) => code \o e \o Rest = code \o (e \o Rest)
    BY <2>1, ConcatThree
  <2> QED BY <1>1, <2>2 DEF e
<1> HIDE DEF rest
<1>10. ASSUME p \notin Blocks, CodeTidy(code, {tok}) PROVE Orderly(todo', tok, owed', ifs', pos)
  <2>1. owed' = owed /\ ifs' = ifs
    BY <1>1, <1>10 DEF Blocks
  <2>2. todo' = code \o rest
    BY <1>9, <1>10 DEF CodeTidy
  <2> HIDE DEF code, p
  <2>3. Blames(code \o rest) \/ Held(code \o rest, {tok}, owed, ifs, pos)
    BY <1>3, <1>7, <1>8, <1>10, PushHeld
  <2> QED BY <2>1, <2>2, <2>3 DEF Orderly
<1>11. ASSUME NEW x \in Closers, Ended(code, x, {tok}), p \in Blocks,
              x = CloseBlock <=> p # "parser_if"
       PROVE  Orderly(todo', tok, owed', ifs', pos)
  <2>1. owed' = owed + 1 /\ ifs' = IF x = CloseBlock THEN ifs ELSE ifs + 1
    BY <1>1, <1>11
  <2>2. todo' = code \o rest
    BY <1>9, <1>11 DEF Ended
  <2> HIDE DEF code, p
  <2>3. \/ Blames(code \o rest)
        \/ Held(code \o rest, {tok}, owed + 1, IF x = CloseBlock THEN ifs ELSE ifs + 1, pos)
    BY <1>3, <1>7, <1>8, <1>11, EndedHeld
  <2> QED BY <2>1, <2>2, <2>3 DEF Orderly
<1>12. CASE p \in Lookers
  <2>1. CodeTidy(code, {tok}) /\ p \notin Blocks
    BY <1>3, <1>12, LookerBody, AnyTidy
  <2> QED BY <1>10, <2>1
<1>13. CASE p \in Takers /\ Safe({tok})
  <2>1. /\ p \notin Blocks => CodeTidy(code, {tok})
        /\ p \in Blocks \ {"parser_if"} => Ended(code, CloseBlock, {tok})
        /\ p = "parser_if" => Ended(code, MayClose, {tok})
    BY <1>13, TakerBody DEF MayClose
  <2>2. CloseBlock \in Closers /\ MayClose \in Closers /\ CloseBlock # MayClose
    BY CloserFacts DEF Closers
  <2>3. "parser_if" \in Blocks
    BY DEF Blocks
  <2> HIDE DEF code, p
  <2> QED BY <1>10, <1>11, <2>1, <2>2, <2>3
<1> QED BY <1>6, <1>12, <1>13

LEMMA EnterBpClosed ==
  ASSUME StackInv, TypeOK, ClosedInv, EnterBp
  PROVE  ClosedInv'
<1> DEFINE code == parser_expr_bp(Ins.of)
           e == End("parser_expr_bp")
           rest == e \o Rest
<1>1. todo # << >> /\ Ins.op = "call_bp" /\ Goto(code \o e \o Rest)
  BY DEF EnterBp, At
<1>2. AllTidy(code)
  BY ExprTidy
<1> HIDE DEF code
<1>3. ASSUME Watched PROVE Orderly(code \o e \o Rest, tok, owed, ifs, pos)
  <2>1. Held(todo, {tok}, owed, ifs, pos) /\ Ins = todo[1] /\ Rest = Tail(todo)
    BY <1>1, <1>3, HeldAt
  <2>2. {tok} \in SUBSET Tokens /\ {tok} # {}
    BY <1>3, WatchedFacts
  <2>3. /\ FineAt(rest, Tokens) /\ Balanced(rest, owed, ifs) /\ IsSeq(Rest) /\ IsSeq(e)
        /\ Behind(rest, pos)
    BY <1>1, <2>1, <2>2, CallUnder
  <2>4. CodeTidy(code, {tok}) /\ IsSeq(code)
    BY <1>2, <2>2, AnyTidy DEF AllTidy
  <2> HIDE DEF e
  <2>5. code \o e \o Rest = code \o (e \o Rest)
    BY <2>3, <2>4, ConcatThree
  <2> HIDE DEF rest
  <2>6. Orderly(code \o rest, tok, owed, ifs, pos)
    BY <2>2, <2>3, <2>4, PushHeld DEF Orderly
  <2> QED BY <2>5, <2>6 DEF rest
<1> QED BY <1>1, <1>3, GotoClosed

LEMMA PassedClosed ==
  ASSUME StackInv, TypeOK, ClosedInv, Leaving \/ Build \/ ImportNoted
  PROVE  ClosedInv'
<1>1. /\ todo # << >> /\ Ins.op \in {"end", "leaf", "node", "import"} /\ todo' = Rest
      /\ tok' = tok /\ owed' = owed /\ ifs' = ifs /\ pos' = pos
      /\ file' = file /\ reported' = reported /\ peeked' = peeked
  BY DEF Leaving, Build, ImportNoted, At, Goto, Reading, Flags
<1>2. ASSUME Watched PROVE Orderly(Rest, tok, owed, ifs, pos)
  <2>1. Held(todo, {tok}, owed, ifs, pos) /\ Ins = todo[1] /\ Rest = Tail(todo)
    BY <1>1, <1>2, HeldAt
  <2>2. {tok} \in SUBSET Tokens
    BY <1>2, WatchedFacts
  <2> QED BY <1>1, <2>1, <2>2, PopHeld DEF Orderly
<1>3. Watched' = Watched
  BY <1>1 DEF Watched
<1>4. Orderly(Rest, tok, owed, ifs, pos) = Orderly(todo', tok', owed', ifs', pos')
  BY <1>1
<1> QED BY <1>2, <1>3, <1>4 DEF ClosedInv

LEMMA ClimbClosed ==
  ASSUME StackInv, TypeOK, ClosedInv, ClimbStep
  PROVE  ClosedInv'
<1> DEFINE bp == [op |-> "call_bp", of |-> parser_precedence(tok) + 1]
           code == <<Adv, bp, Node(tok)>>
<1>1. /\ todo # << >> /\ Ins.op = "climb"
      /\ \/ tok \in Infix /\ Goto(code \o todo)
         \/ Goto(Rest)
  BY DEF ClimbStep, At
<1>2. Tidy(bp, Tokens) /\ Tidy(Node(tok), Tokens)
  BY TidyPlain, TokensAll
<1> HIDE DEF bp
<1>3. ASSUME Watched
      PROVE  /\ Orderly(Rest, tok, owed, ifs, pos)
             /\ tok \in Infix => Orderly(code \o todo, tok, owed, ifs, pos)
  <2>1. /\ Held(todo, {tok}, owed, ifs, pos) /\ Ins = todo[1] /\ Rest = Tail(todo)
        /\ FineAt(todo, {tok}) /\ Fine(todo[1], {tok})
    BY <1>1, <1>3, HeldAt
  <2>2. tok \in Tokens /\ {tok} \in SUBSET Tokens /\ {tok} # {}
    BY <1>3, WatchedFacts
  <2>3. Held(Rest, {tok}, owed, ifs, pos) /\ Behind(todo, pos) /\ Balanced(todo, owed, ifs)
    BY <1>1, <2>1, <2>2, PopHeld DEF Held
  <2>4. Ins \notin Closers
    BY <1>1, CloserNotCheck
  <2>5. PICK F : Tidies(F) /\ Asks(F, Ins, {tok})
    BY <1>1, <2>1, <2>2, <2>4, HeadAsks
  <2>6. Asks(F, Ins, Tokens)
    BY <1>1, <2>5 DEF Asks
  <2>7. Fine(Ins, Tokens)
    BY <2>5, <2>6, AddingTidy DEF Fine
  <2>8. FineAt(todo, Tokens)
    BY <1>1, <2>1, <2>7, HeadAnywhere
  <2>9. ASSUME tok \in Infix PROVE Orderly(code \o todo, tok, owed, ifs, pos)
    <3>1. Safe({tok})
      BY <2>2, <2>9, NotStops DEF Safe
    <3>2. CodeTidy(code, {tok})
      BY <1>2, <3>1, TakesTidy
    <3> HIDE DEF code
    <3> QED BY <2>2, <2>3, <2>8, <3>2, PushHeld DEF Orderly
  <2> QED BY <2>3, <2>9 DEF Orderly
<1> HIDE DEF code
<1> QED BY <1>1, <1>3, GotoClosed

LEMMA AtomicTestClosed ==
  ASSUME StackInv, TypeOK, ClosedInv, AtomicTest
  PROVE  ClosedInv'
<1> DEFINE code == IF atomic_imported THEN Ins.then ELSE Ins.else
<1>1. todo # << >> /\ Ins.op = "atomic" /\ Goto(code \o Rest)
  BY DEF AtomicTest, At
<1>2. ASSUME Watched PROVE Orderly(code \o Rest, tok, owed, ifs, pos)
  <2>1. /\ Held(todo, {tok}, owed, ifs, pos) /\ Ins = todo[1] /\ Rest = Tail(todo)
        /\ Fine(todo[1], {tok})
    BY <1>1, <1>2, HeldAt
  <2>2. tok \in Tokens /\ {tok} \in SUBSET Tokens /\ {tok} # {}
    BY <1>2, WatchedFacts
  <2>3. Behind(Rest, pos) /\ Balanced(Rest, owed, ifs) /\ FineAt(Rest, Tokens)
    BY <1>1, <2>1, <2>2, PopHeld
  <2>4. Ins \notin Closers
    BY <1>1, CloserNotCheck
  <2>5. PICK F : Tidies(F) /\ Asks(F, Ins, {tok})
    BY <1>1, <2>1, <2>2, <2>4, HeadAsks
  <2>6. CodeIn(F, code, {tok})
    BY <1>1, <2>5 DEF Asks
  <2> HIDE DEF code
  <2>7. CodeTidy(code, {tok})
    BY <2>5, <2>6, KnownTidy
  <2> QED BY <2>2, <2>3, <2>7, PushHeld DEF Orderly
<1> HIDE DEF code
<1> QED BY <1>1, <1>2, GotoClosed

(* Only a kept colon makes the parser take two tokens at once.             *)
LEMMA PeekTestClosed ==
  ASSUME StackInv, TypeOK, ClosedInv, PeekTest
  PROVE  ClosedInv'
<1>1. /\ todo # << >> /\ Ins.op = "peek"
      /\ todo' = IF peeked' = Ins.of THEN Ins.then \o Rest ELSE Rest
      /\ tok' = tok /\ owed' = owed /\ ifs' = ifs /\ pos' = pos
      /\ file' = file /\ reported' = reported
      /\ peeked # None => peeked' = peeked
  BY DEF PeekTest, At, parser_peek_next
<1>2. None # "Colons"
  BY ParserAssumption
<1> SUFFICES ASSUME Watched' PROVE Orderly(todo', tok, owed, ifs, pos)
  <2>1. Orderly(todo', tok, owed, ifs, pos) = Orderly(todo', tok', owed', ifs', pos')
    BY <1>1
  <2> QED BY <2>1 DEF ClosedInv
<1>3. peeked' # "Colons" /\ Watched
  BY <1>1, <1>2 DEF Watched
<1>4. /\ Held(todo, {tok}, owed, ifs, pos) /\ Ins = todo[1] /\ Rest = Tail(todo)
      /\ Fine(todo[1], {tok})
  BY <1>1, <1>3, HeldAt
<1>5. {tok} \in SUBSET Tokens /\ {tok} # {}
  BY <1>3, WatchedFacts
<1>6. Ins \notin Closers
  BY <1>1, CloserNotCheck
<1>7. PICK F : Asks(F, Ins, {tok})
  BY <1>1, <1>4, <1>5, <1>6, HeadAsks
<1>8. Ins.of = "Colons"
  BY <1>1, <1>7 DEF Asks
<1>9. todo' = Rest
  BY <1>1, <1>3, <1>8
<1> QED BY <1>1, <1>4, <1>5, <1>9, PopHeld DEF Orderly

LEMMA ClosedInit == Init => ClosedInv
<1> SUFFICES ASSUME Init, Watched PROVE Held(ParseFile, {tok}, 0, 0, 0)
  BY DEF Init, ClosedInv, Orderly
<1>1. tok \in Tokens /\ {tok} \in SUBSET Tokens /\ {tok} # {}
  BY ReadTokens DEF Init, Watched
<1>2. ~Blames(ParseFile)
  BY DEF Blames, ParseFile, Until, Err
<1>3. FineAt(ParseFile, {tok}) /\ Plain(ParseFile)
  BY <1>1, <1>2, FileTidy, AnyTidy, PlainTidy
<1>4. Count(ParseFile, CloseBlock) = 0 /\ Count(ParseFile, MayClose) = 0
  BY <1>3, PlainCount DEF Closers
<1>5. Balanced(ParseFile, 0, 0)
  BY <1>4 DEF Balanced
<1>6. Behind(ParseFile, 0)
  BY <1>3 DEF Behind, Plain
<1> QED BY <1>3, <1>5, <1>6 DEF Held, Moving

LEMMA ClosedStep == StackInv /\ TypeOK /\ TypeOK' /\ ClosedInv /\ [Next]_vars => ClosedInv'
<1> SUFFICES ASSUME StackInv, TypeOK, TypeOK', ClosedInv, [Next]_vars PROVE ClosedInv'
  OBVIOUS
<1>1. CASE Advance
  BY <1>1, AdvanceClosed
<1>2. CASE Report
  BY <1>2, ReportClosed
<1>3. CASE Branch \/ Iterate
  BY <1>3, BranchClosed, IterateClosed
<1>4. CASE Break \/ Continue \/ Return
  BY <1>4, LeavesClosed
<1>5. CASE Mark \/ ForceOn
  BY <1>5, MarkClosed, ForceOnClosed
<1>6. CASE Enter \/ EnterBp
  BY <1>6, EnterClosed, EnterBpClosed
<1>7. CASE Leaving \/ Build \/ ImportNoted
  BY <1>7, PassedClosed
<1>8. CASE ClimbStep
  BY <1>8, ClimbClosed
<1>9. CASE PeekTest \/ AtomicTest
  BY <1>9, PeekTestClosed, AtomicTestClosed
<1>10. CASE UNCHANGED vars
  BY <1>10 DEF vars, ClosedInv, Watched
<1> QED BY <1>1, <1>2, <1>3, <1>4, <1>5, <1>6, <1>7, <1>8, <1>9, <1>10
    DEF Next, Step, Finish

LEMMA ClosedAtEnd == ClosedInv => AcceptedIsClosed
<1> SUFFICES ASSUME ClosedInv, Done, Watched PROVE 0 <= owed /\ owed <= ifs
  BY DEF AcceptedIsClosed, Watched
<1>1. Held(todo, {tok}, owed, ifs, pos)
  BY DEF ClosedInv, Orderly, Blames, Closing, Done
<1>2. \A x : Count(todo, x) = 0
  <2>1. \A x : Places(todo, x) = {}
    BY DEF Places, Done
  <2> QED BY <2>1, FS_EmptySet DEF Count
<1> QED BY <1>1, <1>2 DEF Held, Balanced

(* A file that main reads to its end without an error, and in which no     *)
(* token was skipped unread, has an end for every block that the           *)
(* procedures of parser.c opened and no other, whatever the files are      *)
(* written with and however long they are; only an if may be left open.    *)
THEOREM AcceptedFilesClosed == Spec => []AcceptedIsClosed
<1>1. Init => ClosedInv
  BY ClosedInit
<1>2. StackInv /\ TypeOK /\ TypeOK' /\ ClosedInv /\ [Next]_vars => ClosedInv'
  BY ClosedStep
<1>3. ClosedInv => AcceptedIsClosed
  BY ClosedAtEnd
<1> QED BY <1>1, <1>2, <1>3, StackIsPaid, ParserTypes, PTL DEF Spec
=============================================================================
