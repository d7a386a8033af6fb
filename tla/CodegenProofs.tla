---------------------------- MODULE CodegenProofs ----------------------------
(***************************************************************************)
(* Proof about the code generator, for every program: what a function      *)
(* loads from and stores to are the slots of its own variables, each under *)
(* the name it was made for.                                               *)
(***************************************************************************)
EXTENDS Codegen, LoweringProofs

-------------------------------------------------------------------------------
(* Parameter lists: a definition that lowering pushes has a finite one.    *)

AllListed(ss) == \A k \in DOMAIN ss : IsSeq(ss[k].params)

LoopListed(f) == AllListed(f.out) /\ AllListed(f.open)
LoopsListed == \A d \in DOMAIN loops : LoopListed(loops[d])

LEMMA NoneListed == AllListed(<< >>)
<1>1. DOMAIN << >> = {}
  OBVIOUS
<1> QED BY <1>1 DEF AllListed

LEMMA OneListed ==
  ASSUME NEW s, IsSeq(s.params)
  PROVE  AllListed(<<s>>)
BY OneSeq DEF AllListed

LEMMA MoreListed ==
  ASSUME NEW ss, IsSeq(ss), AllListed(ss), NEW tt, IsSeq(tt), AllListed(tt)
  PROVE  AllListed(ss \o tt)
BY ConcatSeq DEF AllListed

LEMMA PlainListed ==
  ASSUME NEW tag, NEW src, NEW name, NEW eid, NEW exprs, NEW blocks
  PROVE  IsSeq(IRStmt(tag, src, name, eid, exprs, blocks).params)
<1>1. IRStmt(tag, src, name, eid, exprs, blocks).params = << >>
  BY DEF IRStmt
<1> QED BY <1>1, OneSeq

LEMMA SetLoopListed ==
  ASSUME LInv, loops # << >>, LoopsListed, NEW f, SetLoop(f), LoopListed(f)
  PROVE  LoopsListed'
<1> DEFINE n == Len(loops)
<1>1. n \in DOMAIN loops /\ IsSeq(loops)
  BY RunningFacts DEF LInv, LoopsOK
<1>2. loops' = Replaced(loops, n, f)
  BY DEF SetLoop, Replaced
<1> HIDE DEF n
<1>3. /\ DOMAIN loops' = DOMAIN loops
      /\ \A k \in DOMAIN loops : loops'[k] = IF k = n THEN f ELSE loops[k]
  BY <1>1, <1>2, ReplacedSeq
<1>4. ASSUME NEW d \in DOMAIN loops PROVE LoopListed(loops'[d])
  BY <1>3 DEF LoopsListed
<1> QED BY <1>3, <1>4 DEF LoopsListed, LoopListed, AllListed

LEMMA RunningListed ==
  ASSUME LInv, loops # << >>, LoopsListed
  PROVE  LoopListed(Running) /\ IsSeq(Running.out) /\ IsSeq(Running.open)
<1>1. Len(loops) \in DOMAIN loops /\ LoopOK(T, Running)
  BY RunningFacts
<1> QED BY <1>1 DEF LoopsListed, Running, LoopOK

LEMMA PushListed ==
  ASSUME LInv, Loops, LoopsListed, NEW j, NEW irs, IsSeq(irs), AllListed(irs), PushIR(j, irs)
  PROVE  LoopsListed'
<1> DEFINE i == j + 1
           g == PushedOn(Running, i, irs)
<1>1. loops # << >>
  BY DEF Loops
<1>2. SetLoop(g)
  BY DEF PushIR, PushedOn
<1>3. LoopOK(T, Running) /\ LoopListed(Running) /\ IsSeq(Running.out)
  BY <1>1, RunningFacts, RunningListed
<1> HIDE DEF i
<1>4. g.open = Running.open /\ g.out = Running.out \o irs
  BY <1>3, PushFields
<1> HIDE DEF g
<1>5. LoopListed(g)
  BY <1>3, <1>4, MoreListed DEF LoopListed
<1> QED BY <1>1, <1>2, <1>5, SetLoopListed

(* What is pushed as one plain statement, or not at all.                   *)
LEMMA PushOneListed ==
  ASSUME LInv, Loops, LoopsListed, NEW j, NEW s, IsSeq(s.params),
         PushIR(j, <<s>>) \/ PushDef(j, <<s>>)
  PROVE  LoopsListed'
<1>1. PushIR(j, <<s>>) \/ PushIR(j, << >>)
  BY DEF PushDef
<1>2. /\ IsSeq(<<s>>) /\ AllListed(<<s>>)
      /\ IsSeq(<< >>) /\ AllListed(<< >>)
  BY OneSeq, OneListed, NoneListed
<1> QED BY <1>1, <1>2, PushListed

LEMMA ExternListed ==
  ASSUME LInv, LoopsListed, NEW j, LowerExtern(j)
  PROVE  LoopsListed'
<1> DEFINE c == Source(j).kids[1]
           funcs == Declared(c, "ExternFunc")
           ir(k) == IRStmt("Extern", j, funcs[k].name, funcs[k].eid, << >>, << >>)
           irs == [k \in DOMAIN funcs |-> ir(k)]
           none == << >>
<1>1. Loops /\ PushDef(j, irs) /\ At(j, {"Extern"}) /\ loops # << >>
  BY DEF LowerExtern, Loops
<1>2. /\ Whole(T) /\ Backward(T, j, Source(j)) /\ Source(j).tag = "Extern"
  BY <1>1, AtFacts, RunningFacts
<1>3. c \in ScopesOf(T)
  <2>1. Source(j).kids # << >> /\ Source(j).kids \in Seq(ScopesOf(T))
    BY <1>2 DEF Backward, Shape, Nesting
  <2> QED BY <2>1, OperandOne
<1> HIDE DEF c
<1>4. PICK n \in Nat : DOMAIN funcs = 1..n
  BY <1>2, <1>3, DeclaredLength
<1> HIDE DEF funcs
<1>5. \A k : IsSeq(ir(k).params)
  BY PlainListed
<1> DEFINE A == {ir(k) : k \in 1..n}
<1>6. irs \in [1..n -> A] /\ \A k \in 1..n : irs[k] = ir(k)
  BY <1>4
<1> HIDE DEF A, ir
<1>7. irs \in Seq(A) /\ DOMAIN irs = 1..n
  BY <1>6, FamilySeq
<1>8. IsSeq(irs) /\ AllListed(irs)
  BY <1>5, <1>6, <1>7, SeqIsSeq DEF AllListed
<1>9. IsSeq(none) /\ AllListed(none)
  BY OneSeq, NoneListed
<1>10. PushIR(j, irs) \/ PushIR(j, none)
  BY <1>1 DEF PushDef
<1> HIDE DEF irs, none
<1> QED BY <1>1, <1>8, <1>9, <1>10, PushListed

LEMMA StatementListed ==
  ASSUME LInv, LoopsListed, NEW j,
         \/ LowerVar(j) \/ LowerLet(j) \/ LowerType(j)
         \/ LowerReturn(j) \/ LowerExprStmt(j) \/ LowerAssign(j) \/ LowerAtomic(j)
  PROVE  LoopsListed'
<1>1. CASE LowerVar(j)
  <2>1. PICK name, eid, exprs :
          Loops /\ PushIR(j, <<IRStmt("VarDecl", j, name, eid, exprs, << >>)>>)
    BY <1>1 DEF LowerVar
  <2> QED BY <2>1, PlainListed, PushOneListed
<1>2. CASE LowerLet(j)
  <2>1. PICK tag, name, exprs :
          Loops /\ PushIR(j, <<IRStmt(tag, j, name, j, exprs, << >>)>>)
    BY <1>2 DEF LowerLet
  <2> QED BY <2>1, PlainListed, PushOneListed
<1>3. CASE LowerType(j)
  <2>1. PICK tag, name :
          Loops /\ PushDef(j, <<IRStmt(tag, j, name, j, << >>, << >>)>>)
    BY <1>3 DEF LowerType
  <2> QED BY <2>1, PlainListed, PushOneListed
<1>4. CASE LowerReturn(j) \/ LowerExprStmt(j) \/ LowerAssign(j) \/ LowerAtomic(j)
  <2>1. Loops /\ \E tag, results : PushWith(j, tag, results)
    BY <1>4 DEF LowerReturn, LowerExprStmt, LowerAssign, LowerAtomic, InBody
  <2>2. PICK tag, exprs : PushIR(j, <<IRStmt(tag, j, NoName, 0, exprs, << >>)>>)
    BY <2>1 DEF PushWith
  <2> QED BY <2>1, <2>2, PlainListed, PushOneListed
<1> QED BY <1>1, <1>2, <1>3, <1>4

LEMMA SkipListed ==
  ASSUME LInv, LoopsListed, NEW j, SkipEntry(j)
  PROVE  LoopsListed'
<1> DEFINE f == [Running EXCEPT !.i = j + 1]
<1>1. loops # << >> /\ SetLoop(f)
  BY DEF SkipEntry, Loops
<1>2. LoopOK(T, Running) /\ LoopListed(Running)
  BY <1>1, RunningFacts, RunningListed
<1>3. f.open = Running.open /\ f.out = Running.out
  <2>1. PICK reg, stmts, at, out, open :
          Running = [reg |-> reg, into |-> stmts, i |-> at, out |-> out, open |-> open]
    BY <1>2 DEF LoopOK
  <2>2. f = [reg |-> reg, into |-> stmts, i |-> j + 1, out |-> out, open |-> open]
    BY <2>1
  <2> QED BY <1>1, <2>1, <2>2
<1> HIDE DEF f
<1> QED BY <1>1, <1>2, <1>3, SetLoopListed DEF LoopListed

LEMMA OpenListed ==
  ASSUME LInv, loops # << >>, LoopsListed, NEW s, IsSeq(s.params),
         SetLoop([Running EXCEPT !.open = <<s>>])
  PROVE  LoopsListed'
<1> DEFINE open == <<s>>
           f == [Running EXCEPT !.open = open]
<1>1. LoopOK(T, Running) /\ LoopListed(Running)
  BY RunningFacts, RunningListed
<1>2. AllListed(open) /\ SetLoop(f)
  BY OneListed
<1> HIDE DEF open
<1>3. f.open = open /\ f.out = Running.out
  BY <1>1, OpenFields
<1> HIDE DEF f
<1> QED BY <1>1, <1>2, <1>3, SetLoopListed DEF LoopListed

LEMMA OpenFunctionListed ==
  ASSUME LInv, LoopsListed, NEW j, OpenFunction(j)
  PROVE  LoopsListed'
<1> DEFINE c == Source(j).kids[1]
           ps == Declared(c, "Param")
           s == [IRStmt("Function", j, Source(j).name, j, << >>, << >>) EXCEPT !.params = ps]
<1>1. /\ loops # << >> /\ At(j, {"Function"}) /\ SetLoop([Running EXCEPT !.open = <<s>>])
  BY DEF OpenFunction, Loops
<1>2. s.params = ps
  BY DEF IRStmt
<1>3. /\ Whole(T) /\ Backward(T, j, Source(j)) /\ Source(j).tag = "Function"
  BY <1>1, AtFacts, RunningFacts
<1> HIDE DEF s
<1>4. c \in ScopesOf(T)
  <2>1. Source(j).kids # << >> /\ Source(j).kids \in Seq(ScopesOf(T))
    BY <1>3 DEF Backward, Shape, Nesting
  <2> QED BY <2>1, OperandOne
<1> HIDE DEF c
<1>5. PICK n \in Nat : DOMAIN ps = 1..n
  BY <1>3, <1>4, DeclaredLength
<1>6. ps = [k \in DOMAIN ps |-> ps[k]]
  BY DEF Declared
<1> HIDE DEF ps
<1> DEFINE A == {ps[k] : k \in 1..n}
<1>7. ps \in [1..n -> A]
  BY <1>5, <1>6
<1> HIDE DEF A
<1>8. IsSeq(ps)
  BY <1>7, FamilySeq, SeqIsSeq
<1> QED BY <1>1, <1>2, <1>8, OpenListed DEF s

LEMMA OpenBlocksListed ==
  ASSUME LInv, LoopsListed, NEW j, OpenBlocks(j)
  PROVE  LoopsListed'
<1>1. PICK s : loops # << >> /\ SetLoop([Running EXCEPT !.open = <<s>>]) /\ IsSeq(s.params)
  BY PlainListed DEF OpenBlocks, InBody, Loops
<1> QED BY <1>1, OpenListed

LEMMA EnterBodyListed ==
  ASSUME LInv, LoopsListed, EnterBody
  PROVE  LoopsListed'
<1>1. PICK reg : loops' = Append(loops, Loop(reg, "stmts"))
  BY DEF EnterBody
<1> DEFINE f == Loop(reg, "stmts")
<1>2. f.open = << >> /\ f.out = << >>
  BY DEF Loop
<1>3. loops' = Append(loops, f)
  BY <1>1
<1> HIDE DEF f
<1>4. IsSeq(loops) /\ Len(loops) \in Nat /\ DOMAIN loops = 1..Len(loops)
  BY SeqFacts DEF LInv, LoopsOK
<1>5. /\ IsSeq(loops') /\ Len(loops') = Len(loops) + 1 /\ loops'[Len(loops) + 1] = f
      /\ \A d \in DOMAIN loops : loops'[d] = loops[d]
  BY <1>3, <1>4, AppendSeq
<1>6. DOMAIN loops' = DOMAIN loops \cup {Len(loops) + 1}
  BY <1>4, <1>5, SeqFacts
<1>7. LoopListed(f)
  BY <1>2, NoneListed DEF LoopListed
<1> QED BY <1>5, <1>6, <1>7 DEF LoopsListed, LoopListed, AllListed

LEMMA CloseStmtListed ==
  ASSUME LInv, LoopsListed, CloseStmt
  PROVE  LoopsListed'
<1> DEFINE s == Running.open[1]
           grown == IF s.tag = "Function" /\ Running.into = "stmts"
                    THEN Running.out ELSE Append(Running.out, s)
           past == s.src + 1
           f == Past(Running, past, << >>, grown)
<1>1. SetLoop([Running EXCEPT
                 !.i = s.src + 1, !.open = << >>,
                 !.out = IF s.tag = "Function" /\ Running.into = "stmts"
                         THEN @ ELSE Append(@, s)])
  BY DEF CloseStmt
<1>2. loops # << >> /\ Running.open # << >>
  BY DEF CloseStmt, Opened
<1>3. PICK reg, into, at, out, open :
        Running = [reg |-> reg, into |-> into, i |-> at, out |-> out, open |-> open]
  BY <1>2, RunningFacts DEF LoopOK
<1>4. SetLoop(f)
  BY <1>1, <1>3 DEF Past
<1>5. LoopListed(Running) /\ IsSeq(Running.out) /\ IsSeq(Running.open)
  BY <1>2, RunningListed
<1>6. IsSeq(s.params)
  BY <1>2, <1>5, SeqFacts DEF LoopListed, AllListed
<1> HIDE DEF s, past
<1>7. AllListed(grown)
  <2>1. CASE grown = Running.out
    BY <1>5, <2>1 DEF LoopListed
  <2>2. CASE grown = Append(Running.out, s)
    <3>1. /\ IsSeq(grown) /\ Len(grown) = Len(Running.out) + 1 /\ grown[Len(Running.out) + 1] = s
          /\ \A k \in DOMAIN Running.out : grown[k] = Running.out[k]
      BY <1>5, <2>2, AppendSeq
    <3>2. DOMAIN grown = DOMAIN Running.out \cup {Len(Running.out) + 1}
      BY <1>5, <3>1, SeqFacts
    <3> QED BY <1>5, <1>6, <3>1, <3>2 DEF LoopListed, AllListed
  <2> QED BY <2>1, <2>2
<1> HIDE DEF grown
<1>8. f = [reg |-> reg, into |-> into, i |-> past, out |-> grown, open |-> << >>]
  BY <1>3, PastFields
<1>9. f.open = << >> /\ f.out = grown
  BY <1>8
<1> HIDE DEF f
<1> QED BY <1>2, <1>4, <1>7, <1>9, NoneListed, SetLoopListed DEF LoopListed

LEMMA LeaveBodyListed ==
  ASSUME LInv, LoopsListed, LeaveBody
  PROVE  LoopsListed'
<1> DEFINE n == Len(loops) - 1
           rest == SubSeq(loops, 1, n)
           f == Blocked(loops[n], Running.out)
<1>1. /\ Len(loops) > 1
      /\ loops' = [rest EXCEPT ![n].open[1].blocks = Append(@, Running.out)]
  BY DEF LeaveBody, Seqs!Front
<1>2. /\ IsSeq(loops) /\ Len(loops) \in Nat /\ DOMAIN loops = 1..Len(loops)
      /\ \A d \in DOMAIN loops : LoopOK(T, loops[d])
      /\ \A d \in DOMAIN loops : d < Len(loops) => loops[d].open # << >>
  BY SeqFacts DEF LInv, LoopsOK
<1>3. n \in Nat /\ n < Len(loops) /\ n \in DOMAIN loops /\ n \in 1..n
  BY <1>1, <1>2
<1>4. /\ IsSeq(rest) /\ Len(rest) = n /\ DOMAIN rest = 1..n
      /\ \A d \in 1..n : rest[d] = loops[d] /\ d \in DOMAIN loops
  <2> DEFINE A == {loops[d] : d \in DOMAIN loops}
             len == Len(loops)
  <2>1. loops \in Seq(A) /\ len \in Nat /\ n = len - 1 /\ len > 1 /\ DOMAIN loops = 1..len
    BY <1>1, <1>2 DEF IsSeq
  <2> HIDE DEF A, n
  <2>2. /\ rest \in Seq(A) /\ Len(rest) = n /\ DOMAIN rest = 1..n
        /\ \A d \in 1..n : rest[d] = loops[d] /\ d \in DOMAIN loops
    BY <2>1
  <2> HIDE DEF rest
  <2> QED BY <2>2, SeqIsSeq
<1>5. loops' = Replaced(rest, n, f)
  <2>1. rest[n] = loops[n]
    BY <1>3, <1>4
  <2> HIDE DEF rest, n
  <2> QED BY <1>1, <1>3, <1>4, <2>1 DEF Replaced, Blocked
<1> HIDE DEF n
<1>6. LoopListed(f)
  <2> DEFINE g == loops[n]
  <2>1. LoopOK(T, g) /\ g.open # << >> /\ LoopListed(g)
    BY <1>2, <1>3 DEF LoopsListed
  <2>2. f = Blocked(g, Running.out)
    OBVIOUS
  <2> HIDE DEF f, g
  <2>3. /\ f.out = g.out /\ DOMAIN f.open = DOMAIN g.open
        /\ \A k \in DOMAIN g.open : f.open[k].params = g.open[k].params
    BY <2>1, <2>2, BlockFields
  <2> QED BY <2>1, <2>3 DEF LoopListed, AllListed
<1> HIDE DEF f, rest
<1>7. DOMAIN loops' = 1..n /\ \A k \in 1..n : loops'[k] = IF k = n THEN f ELSE rest[k]
  <2>1. n \in DOMAIN rest
    BY <1>3, <1>4
  <2>2. DOMAIN loops' = DOMAIN rest
    BY <1>4, <1>5, <2>1, ReplacedSeq
  <2>3. ASSUME NEW k \in DOMAIN rest PROVE loops'[k] = IF k = n THEN f ELSE rest[k]
    BY <1>5 DEF Replaced
  <2> QED BY <1>4, <2>2, <2>3
<1>8. ASSUME NEW d \in 1..n PROVE LoopListed(loops'[d])
  <2>1. LoopListed(loops[d]) /\ rest[d] = loops[d]
    BY <1>4 DEF LoopsListed
  <2> QED BY <1>6, <1>7, <2>1
<1> QED BY <1>7, <1>8 DEF LoopsListed, LoopListed, AllListed

Listed == LoopsListed /\ AllListed(module)

LEMMA LoweringLists ==
  ASSUME LInv, Listed, Lower
  PROVE  Listed'
<1>1. CASE LeaveModule
  <2>1. loops' = << >> /\ DOMAIN << >> = {} /\ module' = Running.out /\ loops # << >>
    BY <1>1 DEF LeaveModule, Loops
  <2>2. AllListed(Running.out)
    BY <2>1, RunningListed DEF Listed, LoopListed
  <2> QED BY <2>1, <2>2 DEF Listed, LoopsListed, AllListed
<1>2. CASE ~LeaveModule
  <2>1. UNCHANGED module
    BY <1>2 DEF Lower, SkipEntry, LowerVar, LowerLet, LowerType, LowerExtern, LowerReturn,
                LowerExprStmt, LowerAssign, LowerAtomic, PushWith, OpenFunction, OpenBlocks,
                EnterBody, LeaveBody, CloseStmt
  <2>2. LoopsListed'
    BY <1>2, SkipListed, StatementListed, ExternListed, OpenFunctionListed, OpenBlocksListed,
       EnterBodyListed, LeaveBodyListed, CloseStmtListed DEF Lower, Listed
  <2> QED BY <2>1, <2>2 DEF Listed, AllListed
<1> QED BY <1>1, <1>2

LEMMA ListedStep ==
  ASSUME LowerInv, Listed, [LowerNext]_allVars
  PROVE  Listed'
<1>1. CASE Lower
  BY <1>1, LoweringLists DEF LowerInv
<1>2. CASE UNCHANGED <<loops, module>>
  BY <1>2 DEF Listed, LoopsListed, LoopListed, AllListed
<1> QED BY <1>1, <1>2 DEF LowerNext, lowerVars, allVars

LEMMA InitListed == LowerInit => Listed
<1> SUFFICES ASSUME LowerInit PROVE Listed
  OBVIOUS
<1> DEFINE f == Loop(1, "defs")
<1>1. loops = <<f>> /\ module = << >>
  BY DEF LowerInit
<1>2. f.open = << >> /\ f.out = << >>
  BY DEF Loop
<1> HIDE DEF f
<1>3. LoopListed(f) /\ AllListed(module)
  BY <1>1, <1>2, NoneListed DEF LoopListed
<1> QED BY <1>1, <1>3, OneSeq DEF Listed, LoopsListed

-------------------------------------------------------------------------------
(* Names                                                                   *)

(* Entry i of t was declared under the name x.                             *)
NamesEntry(t, i, x) ==
  \E s \in ScopesOf(t) : i \in DOMAIN t.table[s].ids /\ t.table[s].ids[i].name = x

(* register_get answers with an entry of the name it was asked for.         *)
LEMMA FoundIsNamed ==
  ASSUME NEW t, Good(t), NEW r \in 0..Len(t.parent), NEW x, GetId(t, r, x) # 0
  PROVE  NamesEntry(t, GetId(t, r, x), x)
<1> DEFINE Bad == {m \in 0..Len(t.parent) :
                     GetId(t, m, x) # 0 /\ ~NamesEntry(t, GetId(t, m, x), x)}
<1>1. Len(t.parent) \in Nat
  BY GoodNumbers
<1> SUFFICES ASSUME Bad # {} PROVE FALSE
  OBVIOUS
<1>2. Bad \in SUBSET Nat
  BY <1>1
<1> HIDE DEF Bad
<1>3. PICK m \in Bad : \A k \in Bad : m <= k
  BY <1>2, NatMin
<1> USE DEF Bad
<1>4. /\ m \in 0..Len(t.parent) /\ GetId(t, m, x) # 0
      /\ ~NamesEntry(t, GetId(t, m, x), x)
  BY <1>3
<1>5. m # 0 /\ m \in ScopesOf(t)
  BY <1>1, <1>4, GetIdStep DEF ScopesOf
<1>6. CASE x \in DOMAIN t.table[m].names
  <2>1. GetId(t, m, x) = t.table[m].names[x].eid
    BY <1>4, <1>5, <1>6, GetIdStep
  <2>2. NamesEntry(t, t.table[m].names[x].eid, x)
    BY <1>5, <1>6 DEF NamesEntry, Good, NamesAgree
  <2> QED BY <1>4, <2>1, <2>2
<1>7. CASE x \notin DOMAIN t.table[m].names
  <2> DEFINE p == t.parent[m]
  <2>1. p \in Nat /\ p < m
    BY <1>5, SMTT(20) DEF Good, TablesType, ParentsOlder, ScopesOf
  <2>2. GetId(t, m, x) = GetId(t, p, x)
    BY <1>4, <1>5, <1>7, GetIdStep
  <2> HIDE DEF p
  <2>3. p \in 0..Len(t.parent) /\ ~(m <= p)
    BY <1>1, <1>4, <2>1
  <2> QED BY <1>3, <1>4, <2>2, <2>3
<1> QED BY <1>6, <1>7

(* The counter is shared, so an entry has one name.                        *)
LEMMA OneName ==
  ASSUME NEW t, Good(t), NEW i, NEW x, NEW y, NamesEntry(t, i, x), NamesEntry(t, i, y)
  PROVE  x = y
BY DEF NamesEntry, Good, IdsDisjoint

-------------------------------------------------------------------------------
(* Code                                                                    *)

(* An instruction of function f that touches memory by name touches a slot  *)
(* of f, made for the variable it names unless that was not found.         *)
InstrOK(f, i) ==
  i.op \in {"load", "store"} =>
    /\ i.slot.fn = f
    /\ i.slot.eid # 0 => i.slot.name = i.of

CodeOK(f, code) == IsSeq(code) /\ \A k \in DOMAIN code : InstrOK(f, code[k])

LEMMA NoCode == ASSUME NEW f PROVE CodeOK(f, << >>)
<1>1. DOMAIN << >> = {}
  OBVIOUS
<1> QED BY <1>1, OneSeq DEF CodeOK

LEMMA OneInstr ==
  ASSUME NEW f, NEW i, InstrOK(f, i)
  PROVE  CodeOK(f, <<i>>)
BY OneSeq DEF CodeOK

LEMMA MoreCode ==
  ASSUME NEW f, NEW a, CodeOK(f, a), NEW b, CodeOK(f, b)
  PROVE  CodeOK(f, a \o b)
BY ConcatSeq DEF CodeOK

(* The code of the arguments of a call, one after the other.               *)
LEMMA FlatCode ==
  ASSUME NEW f, NEW n \in Nat, NEW codes, DOMAIN codes = 1..n,
         codes = [k \in 1..n |-> codes[k]],
         \A k \in 1..n : CodeOK(f, codes[k])
  PROVE  CodeOK(f, Seqs!FlattenSeq(codes))
<1> DEFINE A == {i \in UNION {{codes[k][l] : l \in DOMAIN codes[k]} : k \in 1..n} : InstrOK(f, i)}
<1>1. ASSUME NEW k \in 1..n PROVE codes[k] \in Seq(A)
  <2> DEFINE c == codes[k]
  <2>1. /\ Len(c) \in Nat /\ DOMAIN c = 1..Len(c) /\ IsSeq(c)
        /\ \A l \in DOMAIN c : InstrOK(f, c[l])
    BY SeqFacts DEF CodeOK
  <2>2. \A l \in DOMAIN c : c[l] \in A
    BY <2>1
  <2>3. c = [l \in 1..Len(c) |-> c[l]]
    BY <2>1 DEF IsSeq
  <2> HIDE DEF A, c
  <2>4. c \in [1..Len(c) -> A]
    BY <2>1, <2>2, <2>3
  <2>5. c \in Seq(A)
    BY <2>1, <2>4, FamilySeq
  <2> QED BY <2>5 DEF c
<1> HIDE DEF A
<1>2. codes \in [1..n -> Seq(A)]
  BY <1>1
<1>3. codes \in Seq(Seq(A))
  BY <1>2, FamilySeq
<1> DEFINE flat == Seqs!FlattenSeq(codes)
<1>4. flat \in Seq(A)
  BY <1>3, FlattenType
<1> HIDE DEF flat
<1>5. IsSeq(flat)
  BY <1>4, SeqIsSeq
<1>6. \A k \in DOMAIN flat : flat[k] \in A
  BY <1>4
<1>7. \A i \in A : InstrOK(f, i)
  BY DEF A
<1> QED BY <1>5, <1>6, <1>7 DEF CodeOK, flat

(* What the slot table keeps under an id: a slot of the function that is    *)
(* being generated, for the variable of that id unless it was not found.   *)
SlotOK(t, f, i, s) ==
  /\ s.fn = f
  /\ s.eid # 0 => s.eid = i /\ NamesEntry(t, i, s.name)

SlotsOK == \A i \in DOMAIN slots : SlotOK(T, here.fn, i, slots[i])

(* A variable is found under its own name.                                 *)
LEMMA SlotFound ==
  ASSUME Good(T), SlotsOK, NEW r \in ScopesOf(T), NEW x, GetId(T, r, x) # 0, HasSlot(r, x)
  PROVE  InstrOK(here.fn, LoadOf(x, SlotOf(r, x))) /\ InstrOK(here.fn, StoreTo(x, SlotOf(r, x)))
<1> DEFINE i == GetId(T, r, x)
           s == slots[i]
<1>1. SlotOK(T, here.fn, i, s) /\ SlotOf(r, x) = s
  BY DEF SlotsOK, HasSlot, SlotOf
<1>2. NamesEntry(T, i, x)
  <2>1. r \in 0..Len(T.parent)
    BY GoodNumbers DEF ScopesOf
  <2> QED BY <2>1, FoundIsNamed
<1> HIDE DEF i, s
<1>3. s.eid # 0 => s.name = x
  BY <1>1, <1>2, OneName DEF SlotOK
<1> QED BY <1>1, <1>3 DEF SlotOK, InstrOK, LoadOf, StoreTo

-------------------------------------------------------------------------------
(* Expressions                                                             *)

OutcomeOK(f, o) == CodeOK(f, o.code)
GeneratedOK(f, g) == OutcomeOK(f, g.value) /\ OutcomeOK(f, g.addr)
OperandsOK(f, sub) == \A k \in DOMAIN sub : GeneratedOK(f, sub[k])

ArityOK == \A x \in DOMAIN named : named[x] \in Nat

LEMMA PlainOutcomes ==
  ASSUME NEW f
  PROVE  /\ \A u \in Undefined : OutcomeOK(f, u)
         /\ OutcomeOK(f, Crash) /\ OutcomeOK(f, NoValue) /\ OutcomeOK(f, Value(<< >>))
BY NoCode DEF Undefined, OutcomeOK, Crash, NoValue, Value

LEMMA ValueOutcome ==
  ASSUME NEW f, NEW code, CodeOK(f, code)
  PROVE  OutcomeOK(f, Value(code))
BY DEF OutcomeOK, Value

LEMMA SubFacts ==
  ASSUME NEW f, NEW sub, OperandsOK(f, sub), NEW k
  PROVE  GeneratedOK(f, Sub(sub, k))
BY PlainOutcomes DEF OperandsOK, Sub, Missing, GeneratedOK

LEMMA CallCode ==
  ASSUME NEW f, NEW sub, OperandsOK(f, sub), NEW arity \in Nat, NEW x
  PROVE  CodeOK(f, LET args == Arguments(sub, arity)
                   IN  Seqs!FlattenSeq([k \in DOMAIN args |-> args[k].code]) \o <<CallTo(x)>>)
<1> DEFINE args == Arguments(sub, arity)
           codes == [k \in 1..arity |-> args[k].code]
<1>1. DOMAIN args = 1..arity
  BY DEF Arguments
<1>2. ASSUME NEW k \in 1..arity PROVE CodeOK(f, codes[k])
  <2>1. args[k] = IF k \in DOMAIN sub THEN sub[k].value ELSE NoValue
    BY DEF Arguments
  <2> HIDE DEF args
  <2>2. OutcomeOK(f, args[k])
    BY <2>1, PlainOutcomes DEF OperandsOK, GeneratedOK
  <2> QED BY <2>2 DEF OutcomeOK
<1>3. [k \in DOMAIN args |-> args[k].code] = codes
  BY <1>1
<1> HIDE DEF args
<1>4. DOMAIN codes = 1..arity /\ codes = [k \in 1..arity |-> codes[k]]
  OBVIOUS
<1> HIDE DEF codes
<1>5. CodeOK(f, Seqs!FlattenSeq(codes))
  BY <1>2, <1>4, FlatCode
<1>6. CodeOK(f, <<CallTo(x)>>)
  BY OneInstr DEF InstrOK, CallTo
<1>7. CodeOK(f, Seqs!FlattenSeq(codes) \o <<CallTo(x)>>)
  BY <1>5, <1>6, MoreCode
<1> QED BY <1>3, <1>7 DEF args

(* codegen_expr of one node.                                               *)
LEMMA EmitNodeOK ==
  ASSUME Good(T), SlotsOK, ArityOK, NEW r \in ScopesOf(T), NEW e, NEW sub,
         OperandsOK(here.fn, sub), NEW u \in Undefined
  PROVE  OutcomeOK(here.fn, EmitNode(r, e, sub, u))
<1> DEFINE f == here.fn
           a == Sub(sub, 1).value
           b == Sub(sub, 2).value
           o == EmitNode(r, e, sub, u)
<1>1. OutcomeOK(f, a) /\ OutcomeOK(f, b) /\ OutcomeOK(f, Sub(sub, 1).addr)
  BY SubFacts DEF GeneratedOK
<1>2. CodeOK(f, a.code \o b.code)
  BY <1>1, MoreCode DEF OutcomeOK
<1>3. CASE e.tag \in {"Literal", "Zero"}
  <2>1. o = Value(<< >>)
    BY <1>3 DEF EmitNode
  <2> QED BY <2>1, PlainOutcomes
<1>4. CASE e.tag = "VarRef"
  <2>1. CASE GetId(T, r, e.name) # 0 /\ HasSlot(r, e.name)
    <3>1. o = Value(<<LoadOf(e.name, SlotOf(r, e.name))>>)
      BY <1>4, <2>1 DEF EmitNode
    <3>2. InstrOK(f, LoadOf(e.name, SlotOf(r, e.name)))
      BY <2>1, SlotFound
    <3> QED BY <3>1, <3>2, OneInstr, ValueOutcome
  <2>2. CASE ~(GetId(T, r, e.name) # 0 /\ HasSlot(r, e.name))
    <3>1. o = Crash
      BY <1>4, <2>2 DEF EmitNode
    <3> QED BY <3>1, PlainOutcomes
  <2> QED BY <2>1, <2>2
<1>5. CASE e.tag \in {"BinaryOp", "Index"}
  <2>1. o.code = a.code \o b.code
    BY <1>5 DEF EmitNode
  <2> QED BY <1>2, <2>1 DEF OutcomeOK
<1>6. CASE e.tag = "Unary"
  <2>1. o = a
    BY <1>6 DEF EmitNode
  <2> QED BY <1>1, <2>1
<1>7. CASE e.tag = "AddrOf"
  <2>1. o = Sub(sub, 1).addr
    BY <1>7 DEF EmitNode
  <2> QED BY <1>1, <2>1
<1>8. CASE e.tag = "Cast"
  <2>1. o = a \/ o = Crash
    BY <1>8 DEF EmitNode
  <2> QED BY <1>1, <2>1, PlainOutcomes
<1>9. CASE e.tag = "Call"
  <2>1. CASE e.name \notin DOMAIN named
    <3>1. o = NoValue
      BY <1>9, <2>1 DEF EmitNode
    <3> QED BY <3>1, PlainOutcomes
  <2>2. CASE e.name \in DOMAIN named
    <3> DEFINE code == LET args == Arguments(sub, named[e.name])
                       IN  Seqs!FlattenSeq([k \in DOMAIN args |-> args[k].code])
                             \o <<CallTo(e.name)>>
    <3>1. o.code = code
      BY <1>9, <2>2 DEF EmitNode
    <3>2. CodeOK(f, code)
      BY <2>2, CallCode DEF ArityOK
    <3> QED BY <3>1, <3>2 DEF OutcomeOK
  <2> QED BY <2>1, <2>2
<1>10. CASE e.tag \in {"Field", "Garbage"}
  <2>1. o = u
    BY <1>10 DEF EmitNode
  <2> QED BY <2>1, PlainOutcomes
<1>11. CASE e.tag \notin {"Literal", "Zero", "VarRef", "BinaryOp", "Index", "Unary", "AddrOf",
                          "Cast", "Call", "Field", "Garbage"}
  <2>1. o = NoValue
    BY <1>11 DEF EmitNode
  <2> QED BY <2>1, PlainOutcomes
<1> QED BY <1>3, <1>4, <1>5, <1>6, <1>7, <1>8, <1>9, <1>10, <1>11

(* codegen_expr_addr of one node.                                          *)
LEMMA TargetNodeOK ==
  ASSUME NEW f, NEW r, NEW e, NEW sub, OperandsOK(f, sub), NEW u \in Undefined
  PROVE  OutcomeOK(f, TargetNode(r, e, sub, u))
<1> DEFINE a == Sub(sub, 1).value
           b == Sub(sub, 2).value
           o == TargetNode(r, e, sub, u)
<1>1. CodeOK(f, a.code \o b.code)
  BY SubFacts, MoreCode DEF GeneratedOK, OutcomeOK
<1>2. CASE e.tag = "Index"
  <2>1. o = Value(a.code \o b.code) \/ o = Crash
    BY <1>2 DEF TargetNode
  <2> QED BY <1>1, <2>1, ValueOutcome, PlainOutcomes
<1>3. CASE e.tag # "Index"
  <2>1. o \in {Value(<< >>), NoValue, Crash, u}
    BY <1>3 DEF TargetNode
  <2> QED BY <2>1, PlainOutcomes
<1> QED BY <1>2, <1>3

(* An address that codegen_expr_addr returns for a variable is its slot.   *)
LEMMA TargetFound ==
  ASSUME NEW r, NEW e, e.tag = "VarRef", NEW sub, NEW u, TargetNode(r, e, sub, u).value
  PROVE  GetId(T, r, e.name) # 0 /\ HasSlot(r, e.name)
BY DEF TargetNode, Crash, NoValue, Value

-------------------------------------------------------------------------------
(* Trees                                                                   *)

Below(S) == UNION {{x.args[k] : k \in DOMAIN x.args} : x \in S}

(* g is the function Nodes defines for e, up to level n.                   *)
NodesTo(e, n, g) == g = [l \in 0..n |-> IF l = 0 THEN {e} ELSE Below(g[l - 1])]

LEMMA NodesToExists ==
  ASSUME NEW e, NEW n \in Nat
  PROVE  \E g : NodesTo(e, n, g)
<1> DEFINE Bad == {m \in Nat : ~ \E g : NodesTo(e, m, g)}
<1> SUFFICES ASSUME Bad # {} PROVE FALSE
  OBVIOUS
<1>1. Bad \in SUBSET Nat
  OBVIOUS
<1> HIDE DEF Bad
<1>2. PICK m \in Bad : \A k \in Bad : m <= k
  BY <1>1, NatMin
<1>3. m \in Nat /\ ~ \E g : NodesTo(e, m, g)
  BY <1>2 DEF Bad
<1>4. CASE m = 0
  <2> DEFINE g == [l \in 0..0 |-> {e}]
  <2>1. NodesTo(e, 0, g)
    BY DEF NodesTo
  <2> QED BY <1>3, <1>4, <2>1
<1>5. CASE m # 0
  <2>1. m - 1 \in Nat /\ ~(m <= m - 1)
    BY <1>3, <1>5
  <2>2. m - 1 \notin Bad
    BY <1>2, <2>1
  <2>3. PICK h : NodesTo(e, m - 1, h)
    BY <2>1, <2>2 DEF Bad
  <2> DEFINE g == [l \in 0..m |-> IF l = m THEN Below(h[m - 1]) ELSE h[l]]
  <2>4. ASSUME NEW l \in 0..m
        PROVE  g[l] = IF l = 0 THEN {e} ELSE Below(g[l - 1])
    <3>1. CASE l = m
      <4>1. g[m] = Below(h[m - 1]) /\ g[m - 1] = h[m - 1]
        BY <1>3, <1>5
      <4> HIDE DEF g
      <4> QED BY <1>5, <3>1, <4>1
    <3>2. CASE l # m
      <4>1. l \in 0..(m - 1)
        BY <1>3, <3>2
      <4>2. h[l] = IF l = 0 THEN {e} ELSE Below(h[l - 1])
        BY <2>3, <4>1 DEF NodesTo
      <4>3. g[l] = h[l] /\ (l # 0 => g[l - 1] = h[l - 1])
        BY <1>3, <3>2, <4>1
      <4> HIDE DEF g
      <4> QED BY <4>2, <4>3
    <3> QED BY <3>1, <3>2
  <2>5. g = [l \in 0..m |-> g[l]]
    OBVIOUS
  <2> HIDE DEF g
  <2>6. NodesTo(e, m, g)
    BY <2>4, <2>5 DEF NodesTo
  <2> QED BY <1>3, <2>6
<1> QED BY <1>4, <1>5

LEMMA NodesFacts ==
  ASSUME NEW e, T.next \in Nat
  PROVE  NodesTo(e, T.next, Nodes(e))
<1> DEFINE G == CHOOSE g : NodesTo(e, T.next, g)
<1>1. NodesTo(e, T.next, G)
  BY NodesToExists
<1>2. Nodes(e) = G
  BY DEF Nodes, NodesTo, Below
<1> QED BY <1>1, <1>2

(* What the node x of level l is generated from.                           *)
OperandsOf(g, l, x) ==
  [k \in {i \in DOMAIN x.args : l < T.next} |-> g[l + 1][x.args[k]]]

NodeOf(r, u, g, l, x) ==
  LET sub == OperandsOf(g, l, x)
  IN  [value |-> EmitNode(r, x, sub, u), addr |-> TargetNode(r, x, sub, u)]

(* g is the function TreeOf defines, from level m down.                    *)
TreeFrom(r, e, u, m, g) ==
  g = [l \in m..T.next |-> [x \in Nodes(e)[l] |-> NodeOf(r, u, g, l, x)]]

LEMMA SameNode ==
  ASSUME NEW r, NEW u, NEW g, NEW h, NEW l, NEW x, l < T.next => g[l + 1] = h[l + 1]
  PROVE  NodeOf(r, u, g, l, x) = NodeOf(r, u, h, l, x)
<1>1. OperandsOf(g, l, x) = OperandsOf(h, l, x)
  BY DEF OperandsOf
<1> QED BY <1>1 DEF NodeOf

LEMMA TreeFromExists ==
  ASSUME NEW r, NEW e, NEW u, T.next \in Nat, NEW m \in 0..T.next
  PROVE  \E g : TreeFrom(r, e, u, m, g)
<1> DEFINE n == T.next
           Bad == {d \in 0..n : ~ \E g : TreeFrom(r, e, u, n - d, g)}
<1>1. CASE Bad = {}
  <2>1. n - m \in 0..n /\ n - (n - m) = m
    OBVIOUS
  <2>2. n - m \notin Bad
    BY <1>1
  <2> QED BY <2>1, <2>2
<1>2. CASE Bad # {}
  <2>1. Bad \in SUBSET Nat
    OBVIOUS
  <2> HIDE DEF Bad
  <2>2. PICK d \in Bad : \A k \in Bad : d <= k
    BY <1>2, <2>1, NatMin
  <2>3. d \in 0..n /\ ~ \E g : TreeFrom(r, e, u, n - d, g)
    BY <2>2 DEF Bad
  <2> DEFINE c == n - d
  <2>4. CASE d = 0
    <3> DEFINE row == [x \in Nodes(e)[n] |-> NodeOf(r, u, << >>, n, x)]
               g == [l \in n..n |-> row]
    <3>1. \A x : NodeOf(r, u, g, n, x) = NodeOf(r, u, << >>, n, x)
      BY SameNode
    <3>2. [x \in Nodes(e)[n] |-> NodeOf(r, u, g, n, x)] = row
      BY <3>1
    <3>3. \A l \in n..n : l = n
      OBVIOUS
    <3>4. g = [l \in n..n |-> [x \in Nodes(e)[l] |-> NodeOf(r, u, g, l, x)]]
      BY <3>2, <3>3
    <3>5. TreeFrom(r, e, u, n, g)
      BY <3>4 DEF TreeFrom
    <3>6. n - d = n
      BY <2>4
    <3> QED BY <2>3, <3>5, <3>6
  <2>5. CASE d # 0
    <3>1. /\ d - 1 \in 0..n /\ ~(d <= d - 1) /\ n - (d - 1) = c + 1 /\ c \in Nat /\ c < n
      BY <2>3, <2>5
    <3>2. d - 1 \notin Bad
      BY <2>2, <3>1
    <3>3. PICK h : TreeFrom(r, e, u, c + 1, h)
      BY <3>1, <3>2 DEF Bad
    <3> HIDE DEF c
    <3> DEFINE row == [x \in Nodes(e)[c] |-> NodeOf(r, u, h, c, x)]
               g == [l \in c..n |-> IF l = c THEN row ELSE h[l]]
    <3>4. \A l \in (c + 1)..n : g[l] = h[l] /\ l # c /\ l \in c..n
      BY <3>1
    <3>5. ASSUME NEW l \in c..n
          PROVE  g[l] = [x \in Nodes(e)[l] |-> NodeOf(r, u, g, l, x)]
      <4>1. l < n => g[l + 1] = h[l + 1]
        BY <3>1, <3>4
      <4>2. g[c] = row
        BY <3>1
      <4> HIDE DEF g
      <4>3. ASSUME NEW x PROVE NodeOf(r, u, g, l, x) = NodeOf(r, u, h, l, x)
        BY <4>1, SameNode
      <4>4. CASE l = c
        BY <4>2, <4>3, <4>4
      <4>5. CASE l # c
        <5>1. l \in (c + 1)..n
          BY <3>1, <4>5
        <5>2. h[l] = [x \in Nodes(e)[l] |-> NodeOf(r, u, h, l, x)]
          BY <3>3, <5>1 DEF TreeFrom
        <5>3. g[l] = h[l]
          BY <3>4, <5>1 DEF g
        <5> QED BY <4>3, <5>2, <5>3
      <4> QED BY <4>4, <4>5
    <3>6. g = [l \in c..n |-> g[l]]
      OBVIOUS
    <3> HIDE DEF g
    <3>7. TreeFrom(r, e, u, c, g)
      BY <3>5, <3>6 DEF TreeFrom
    <3> QED BY <2>3, <3>7 DEF c
  <2> QED BY <2>4, <2>5
<1> QED BY <1>1, <1>2

(* Every node of a tree has the code of its own function.                  *)
LEMMA TreeNodesOK ==
  ASSUME Good(T), SlotsOK, ArityOK, NEW r \in ScopesOf(T), NEW e, NEW u \in Undefined,
         NEW g, TreeFrom(r, e, u, 0, g)
  PROVE  \A l \in 0..T.next : \A x \in Nodes(e)[l] : GeneratedOK(here.fn, g[l][x])
<1> DEFINE n == T.next
           f == here.fn
           Bad == {d \in 0..n : \E x \in Nodes(e)[n - d] : ~GeneratedOK(f, g[n - d][x])}
<1>0. n \in Nat
  BY DEF Good, TablesType
<1>1. CASE Bad = {}
  <2>1. ASSUME NEW l \in 0..n, NEW x \in Nodes(e)[l] PROVE GeneratedOK(f, g[l][x])
    <3>1. n - l \in 0..n /\ n - (n - l) = l
      BY <1>0
    <3>2. n - l \notin Bad
      BY <1>1
    <3> QED BY <3>1, <3>2
  <2> QED BY <2>1
<1>2. CASE Bad # {}
  <2>1. Bad \in SUBSET Nat
    BY <1>0
  <2> HIDE DEF Bad
  <2>2. PICK d \in Bad : \A k \in Bad : d <= k
    BY <1>2, <2>1, NatMin
  <2> DEFINE c == n - d
  <2>3. d \in 0..n /\ \E x \in Nodes(e)[c] : ~GeneratedOK(f, g[c][x])
    BY <2>2 DEF Bad
  <2>4. PICK x \in Nodes(e)[c] : ~GeneratedOK(f, g[c][x])
    BY <2>3
  <2>5. c \in 0..n /\ (c < n => d - 1 \in 0..n /\ ~(d <= d - 1) /\ n - (d - 1) = c + 1)
    BY <1>0, <2>3
  <2>6. c < n => \A y \in Nodes(e)[c + 1] : GeneratedOK(f, g[c + 1][y])
    <3>1. c < n => d - 1 \notin Bad
      BY <2>2, <2>5
    <3> HIDE DEF c
    <3> QED BY <2>5, <3>1 DEF Bad
  <2> HIDE DEF c
  <2> DEFINE sub == OperandsOf(g, c, x)
  <2>7. ASSUME NEW k \in DOMAIN sub PROVE GeneratedOK(f, sub[k])
    <3>1. k \in DOMAIN x.args /\ c < n /\ sub[k] = g[c + 1][x.args[k]]
      BY DEF OperandsOf
    <3>2. c + 1 \in 0..n /\ c + 1 # 0 /\ (c + 1) - 1 = c
      BY <1>0, <2>5, <3>1
    <3>3. Nodes(e)[c + 1] = Below(Nodes(e)[c])
      BY <1>0, <3>2, NodesFacts DEF NodesTo
    <3>4. x.args[k] \in Nodes(e)[c + 1]
      BY <2>4, <3>1, <3>3 DEF Below
    <3> QED BY <2>6, <3>1, <3>4
  <2>8. g[c][x] = [value |-> EmitNode(r, x, sub, u), addr |-> TargetNode(r, x, sub, u)]
    <3>1. g[c] = [y \in Nodes(e)[c] |-> NodeOf(r, u, g, c, y)]
      BY <2>5 DEF TreeFrom
    <3>2. g[c][x] = NodeOf(r, u, g, c, x)
      BY <2>4, <3>1
    <3> QED BY <3>2 DEF NodeOf
  <2> HIDE DEF sub
  <2>9. OperandsOK(f, sub)
    BY <2>7 DEF OperandsOK
  <2>10. OutcomeOK(f, EmitNode(r, x, sub, u)) /\ OutcomeOK(f, TargetNode(r, x, sub, u))
    BY <2>9, EmitNodeOK, TargetNodeOK
  <2>11. GeneratedOK(f, g[c][x])
    BY <2>8, <2>10 DEF GeneratedOK
  <2> QED BY <2>4, <2>11
<1> QED BY <1>1, <1>2

(* The code of an expression; and the address of a variable is its slot.   *)
LEMMA TreeOK ==
  ASSUME Good(T), SlotsOK, ArityOK, NEW r \in ScopesOf(T), NEW e, NEW u \in Undefined
  PROVE  /\ OutcomeOK(here.fn, Emit(r, e, u))
         /\ OutcomeOK(here.fn, Target(r, e, u))
         /\ e.tag = "VarRef" /\ Target(r, e, u).value =>
              GetId(T, r, e.name) # 0 /\ HasSlot(r, e.name)
<1> DEFINE G == CHOOSE g : TreeFrom(r, e, u, 0, g)
<1>1. T.next \in Nat /\ 0 \in 0..T.next
  BY DEF Good, TablesType
<1>2. TreeFrom(r, e, u, 0, G)
  BY <1>1, TreeFromExists
<1>3. TreeOf(r, e, u) = G[0][e]
  BY DEF TreeOf, TreeFrom, NodeOf, OperandsOf
<1> HIDE DEF G
<1>4. e \in Nodes(e)[0]
  BY <1>1, NodesFacts DEF NodesTo
<1>5. GeneratedOK(here.fn, G[0][e])
  BY <1>1, <1>2, <1>4, TreeNodesOK
<1>6. TreeOf(r, e, u).addr = TargetNode(r, e, OperandsOf(G, 0, e), u)
  <2>1. G[0] = [y \in Nodes(e)[0] |-> NodeOf(r, u, G, 0, y)]
    BY <1>1, <1>2 DEF TreeFrom
  <2>2. G[0][e] = NodeOf(r, u, G, 0, e)
    BY <1>4, <2>1
  <2>3. NodeOf(r, u, G, 0, e).addr = TargetNode(r, e, OperandsOf(G, 0, e), u)
    BY DEF NodeOf
  <2> QED BY <1>3, <2>2, <2>3
<1>7. e.tag = "VarRef" /\ TreeOf(r, e, u).addr.value =>
        GetId(T, r, e.name) # 0 /\ HasSlot(r, e.name)
  BY <1>6, TargetFound
<1> QED BY <1>3, <1>5, <1>7 DEF Emit, Target, GeneratedOK

-------------------------------------------------------------------------------
(* Functions                                                               *)

BlockOK(f, b) == b = [kind |-> b.kind, code |-> b.code] /\ CodeOK(f, b.code)

BlocksOK(f, bs) == IsSeq(bs) /\ \A b \in DOMAIN bs : BlockOK(f, bs[b])

FnOK(f, F) == F = [def |-> F.def, blocks |-> F.blocks] /\ BlocksOK(f, F.blocks)

FnsOK == IsSeq(fns) /\ \A f \in DOMAIN fns : FnOK(f, fns[f])

LEMMA NewBlock ==
  ASSUME NEW f, NEW kind, NEW code, CodeOK(f, code)
  PROVE  BlockOK(f, Block(kind, code))
BY DEF BlockOK, Block

LEMMA MoreBlocks ==
  ASSUME NEW f, NEW as, BlocksOK(f, as), NEW bs, BlocksOK(f, bs)
  PROVE  BlocksOK(f, as \o bs)
BY ConcatSeq DEF BlocksOK

LEMMA OneBlock ==
  ASSUME NEW f, NEW b, BlockOK(f, b)
  PROVE  BlocksOK(f, <<b>>)
BY OneSeq DEF BlocksOK

LEMMA ThreeBlocks ==
  ASSUME NEW f, NEW a, BlockOK(f, a), NEW b, BlockOK(f, b), NEW c, BlockOK(f, c)
  PROVE  BlocksOK(f, <<a, b, c>>)
<1>1. <<a, b, c>> = (<<a>> \o <<b>>) \o <<c>>
  OBVIOUS
<1>2. BlocksOK(f, <<a>>) /\ BlocksOK(f, <<b>>) /\ BlocksOK(f, <<c>>)
  BY OneBlock
<1> QED BY <1>1, <1>2, MoreBlocks

LEMMA LongerBlock ==
  ASSUME NEW f, NEW b, BlockOK(f, b), NEW code, CodeOK(f, code)
  PROVE  BlockOK(f, [b EXCEPT !.code = @ \o code])
<1> DEFINE more == b.code \o code
           new == [b EXCEPT !.code = more]
<1>1. CodeOK(f, more)
  BY MoreCode DEF BlockOK
<1>2. PICK kind, old : b = [kind |-> kind, code |-> old]
  BY DEF BlockOK
<1> HIDE DEF more
<1>3. new = [kind |-> kind, code |-> more]
  BY <1>2
<1>4. BlockOK(f, new)
  BY <1>1, <1>3 DEF BlockOK
<1> QED BY <1>4 DEF more

(* Code at the end of block b, if there is such a block.                   *)
LEMMA LengthenedOK ==
  ASSUME NEW f, NEW bs, BlocksOK(f, bs), NEW b, NEW code, CodeOK(f, code)
  PROVE  BlocksOK(f, Lengthened(bs, b, code))
<1>1. CASE b \in DOMAIN bs
  <2> DEFINE new == [bs[b] EXCEPT !.code = @ \o code]
  <2>1. Lengthened(bs, b, code) = Replaced(bs, b, new)
    BY DEF Lengthened, Replaced
  <2>2. BlockOK(f, bs[b])
    BY <1>1 DEF BlocksOK
  <2>5. BlockOK(f, new)
    BY <2>2, LongerBlock
  <2> HIDE DEF new
  <2>6. /\ IsSeq(Replaced(bs, b, new)) /\ DOMAIN Replaced(bs, b, new) = DOMAIN bs
        /\ \A k \in DOMAIN bs : Replaced(bs, b, new)[k] = IF k = b THEN new ELSE bs[k]
    BY <1>1, ReplacedSeq DEF BlocksOK
  <2>7. BlocksOK(f, Replaced(bs, b, new))
    BY <2>5, <2>6 DEF BlocksOK
  <2> QED BY <2>1, <2>7
<1>2. CASE b \notin DOMAIN bs
  <2>1. bs = [k \in DOMAIN bs |-> bs[k]]
    BY DEF BlocksOK, IsSeq
  <2>2. Lengthened(bs, b, code) = bs
    BY <1>2, <2>1 DEF Lengthened
  <2> QED BY <2>2
<1> QED BY <1>1, <1>2

WithBlocks(F, bs) == [F EXCEPT !.blocks = bs]

(* The function the builder is in, if any, is given other blocks.          *)
LEMMA SetBlocksOK ==
  ASSUME FnsOK, NEW n, NEW bs, n \in DOMAIN fns => BlocksOK(n, bs),
         fns' = Replaced(fns, n, WithBlocks(fns[n], bs))
  PROVE  FnsOK' /\ Len(fns') = Len(fns)
<1> DEFINE new == WithBlocks(fns[n], bs)
<1>1. CASE n \in DOMAIN fns
  <2>1. FnOK(n, fns[n])
    BY <1>1 DEF FnsOK
  <2>2. new = [def |-> fns[n].def, blocks |-> bs]
    BY <2>1 DEF FnOK, WithBlocks
  <2>3. FnOK(n, new)
    BY <1>1, <2>2 DEF FnOK
  <2> HIDE DEF new
  <2>4. /\ IsSeq(fns') /\ Len(fns') = Len(fns) /\ DOMAIN fns' = DOMAIN fns
        /\ \A k \in DOMAIN fns : fns'[k] = IF k = n THEN new ELSE fns[k]
    BY <1>1, ReplacedSeq DEF FnsOK, new
  <2>5. ASSUME NEW k \in DOMAIN fns PROVE FnOK(k, fns'[k])
    BY <2>3, <2>4 DEF FnsOK
  <2> QED BY <2>4, <2>5 DEF FnsOK
<1>2. CASE n \notin DOMAIN fns
  <2>1. fns = [k \in DOMAIN fns |-> fns[k]]
    BY DEF FnsOK, IsSeq
  <2> HIDE DEF new
  <2>2. fns' = fns
    BY <1>2, <2>1 DEF Replaced, new
  <2> QED BY <2>2 DEF FnsOK
<1> QED BY <1>1, <1>2

LEMMA AddCodeOK ==
  ASSUME FnsOK, NEW code, CodeOK(here.fn, code), AddCode(code)
  PROVE  FnsOK' /\ Len(fns') = Len(fns)
<1> DEFINE n == here.fn
           b == here.block
           bs == Lengthened(fns[n].blocks, b, code)
<1>1. fns' = Replaced(fns, n, WithBlocks(fns[n], bs))
  BY DEF AddCode, Replaced, WithBlocks
<1>2. n \in DOMAIN fns => BlocksOK(n, bs)
  BY LengthenedOK DEF FnsOK, FnOK
<1> HIDE DEF bs, n
<1> QED BY <1>1, <1>2, SetBlocksOK

LEMMA ExtendOK ==
  ASSUME FnsOK, NEW code, CodeOK(here.fn, code), NEW more, BlocksOK(here.fn, more),
         Extend(code, more)
  PROVE  FnsOK' /\ Len(fns') = Len(fns)
<1> DEFINE n == here.fn
           b == here.block
           bs == Lengthened(fns[n].blocks, b, code) \o more
<1>1. fns' = Replaced(fns, n, WithBlocks(fns[n], bs))
  BY DEF Extend, Replaced, WithBlocks
<1>2. n \in DOMAIN fns => BlocksOK(n, bs)
  BY LengthenedOK, MoreBlocks DEF FnsOK, FnOK
<1> HIDE DEF bs, n
<1> QED BY <1>1, <1>2, SetBlocksOK

-------------------------------------------------------------------------------
(* Steps                                                                   *)

(* The builder is in the last function; every slot is one of its.          *)
GenOK ==
  /\ FnsOK
  /\ here.fn = Len(fns)
  /\ SlotsOK
  /\ ArityOK
  /\ scope \in ScopesOf(T)

LEMMA StayOK ==
  ASSUME GenOK, UNCHANGED <<T, slots, named, scope>>, here'.fn = here.fn,
         FnsOK', Len(fns') = Len(fns)
  PROVE  GenOK'
BY DEF GenOK, SlotsOK, ArityOK

LEMMA SameFns == ASSUME GenOK, UNCHANGED fns PROVE FnsOK' /\ Len(fns') = Len(fns)
BY DEF GenOK, FnsOK

LEMMA CrashesOK ==
  ASSUME GenOK, UNCHANGED T, Crashes
  PROVE  GenOK'
<1>1. UNCHANGED <<fns, named, slots, scope, here>>
  BY DEF Crashes
<1> QED BY <1>1, SameFns, StayOK

(* Parameters: the slot of a name is that of the last parameter of it.     *)
LEMMA ParamSlotsOK ==
  ASSUME Good(T), NEW f, NEW ps, IsSeq(ps), NEW r \in ScopesOf(T)
  PROVE  \A i \in DOMAIN ParamSlots(f, ps, r) : SlotOK(T, f, i, ParamSlots(f, ps, r)[i])
<1> DEFINE id(k) == GetId(T, r, ps[k].name)
           Is(i, k) == id(k) = i /\ \A j \in DOMAIN ps : id(j) = i => j <= k
           last(i) == CHOOSE k \in DOMAIN ps : Is(i, k)
           ids == {id(k) : k \in DOMAIN ps} \ {0}
           n == Len(ps)
<1>1. n \in Nat /\ DOMAIN ps = 1..n
  BY SeqFacts
<1> SUFFICES ASSUME NEW i \in ids
             PROVE  SlotOK(T, f, i, Slot(f, ps[last(i)].name, ps[last(i)].src, i))
  BY DEF ParamSlots
<1>2. \E k \in DOMAIN ps : Is(i, k)
  <2> DEFINE S == {d \in 0..n : n - d \in DOMAIN ps /\ id(n - d) = i}
  <2>1. PICK k \in DOMAIN ps : id(k) = i
    OBVIOUS
  <2> HIDE DEF id
  <2>2. n - k \in S /\ S \in SUBSET Nat
    BY <1>1, <2>1
  <2>3. PICK d \in S : \A c \in S : d <= c
    BY <2>2, NatMin
  <2>4. n - d \in DOMAIN ps /\ id(n - d) = i /\ d \in 0..n
    BY <2>3
  <2>5. ASSUME NEW j \in DOMAIN ps, id(j) = i PROVE j <= n - d
    <3>1. n - j \in 0..n /\ n - (n - j) = j
      BY <1>1
    <3>2. n - j \in S
      BY <2>5, <3>1
    <3>3. d <= n - j
      BY <2>3, <3>2
    <3> QED BY <1>1, <2>4, <3>3
  <2> QED BY <2>4, <2>5
<1> DEFINE k == last(i)
<1>3. k \in DOMAIN ps /\ id(k) = i
  BY <1>2
<1> HIDE DEF k
<1>4. NamesEntry(T, i, ps[k].name)
  <2>1. r \in 0..Len(T.parent)
    BY GoodNumbers DEF ScopesOf
  <2>2. GetId(T, r, ps[k].name) = i /\ i # 0
    BY <1>3
  <2> QED BY <2>1, <2>2, FoundIsNamed
<1>5. SlotOK(T, f, i, Slot(f, ps[k].name, ps[k].src, i))
  BY <1>4 DEF SlotOK, Slot
<1> QED BY <1>5 DEF k

LEMMA ParamCodeOK ==
  ASSUME NEW f, NEW g, NEW ps, IsSeq(ps), NEW r
  PROVE  CodeOK(f, ParamCode(g, ps, r))
<1> DEFINE alloca(k) == Alloca(Slot(g, ps[k].name, ps[k].src, GetId(T, r, ps[k].name)))
           n == Len(ps)
           code == ParamCode(g, ps, r)
           A == {alloca(k) : k \in 1..n}
<1>1. n \in Nat /\ DOMAIN ps = 1..n
  BY SeqFacts
<1>2. \A i \in A : InstrOK(f, i)
  BY DEF Alloca, InstrOK
<1>3. code = [k \in 1..n |-> alloca(k)]
  BY <1>1 DEF ParamCode
<1> HIDE DEF code, alloca
<1>4. code \in [1..n -> A] /\ \A k \in 1..n : code[k] \in A
  BY <1>3
<1> HIDE DEF A
<1>5. code \in Seq(A) /\ DOMAIN code = 1..n
  BY <1>1, <1>4, FamilySeq
<1>6. IsSeq(code)
  BY <1>5, SeqIsSeq
<1> QED BY <1>2, <1>4, <1>5, <1>6 DEF CodeOK, code

LEMMA NameOK ==
  ASSUME ArityOK, NEW x, NEW arity \in Nat, Name(x, arity)
  PROVE  ArityOK'
BY DEF ArityOK, Name, Bind

LEMMA FunctionOK ==
  ASSUME GenOK, Good(T), UNCHANGED T, NEW def, NEW x, NEW ps, IsSeq(ps), NEW r \in ScopesOf(T),
         scope' = r, slots' = ParamSlots(Len(fns) + 1, ps, r), Name(x, Len(ps)),
         here' = Place(Len(fns) + 1, 1),
         fns' = Append(fns, [def |-> def,
                             blocks |-> <<Block("entry", ParamCode(Len(fns) + 1, ps, r))>>])
  PROVE  GenOK'
<1> DEFINE f == Len(fns) + 1
           bs == <<Block("entry", ParamCode(f, ps, r))>>
           F == [def |-> def, blocks |-> bs]
<1>1. BlocksOK(f, bs)
  BY ParamCodeOK, NewBlock, OneBlock
<1> HIDE DEF bs
<1>2. FnOK(f, F)
  BY <1>1 DEF FnOK
<1>3. fns' = Append(fns, F)
  BY DEF bs
<1> HIDE DEF F
<1>4. /\ IsSeq(fns') /\ Len(fns') = f /\ fns'[f] = F
      /\ \A g \in DOMAIN fns : fns'[g] = fns[g]
  BY <1>3, AppendSeq DEF GenOK, FnsOK
<1>5. DOMAIN fns' = 1..f /\ DOMAIN fns = 1..Len(fns) /\ Len(fns) \in Nat
  BY <1>4, SeqFacts DEF GenOK, FnsOK
<1>6. ASSUME NEW g \in DOMAIN fns' PROVE FnOK(g, fns'[g])
  <2>1. g = f \/ g \in DOMAIN fns
    BY <1>5
  <2> QED BY <1>2, <1>4, <2>1 DEF GenOK, FnsOK
<1>7. FnsOK'
  BY <1>4, <1>6 DEF FnsOK
<1>8. here'.fn = f
  BY DEF Place
<1>9. SlotsOK'
  BY <1>8, ParamSlotsOK DEF SlotsOK
<1>10. ArityOK'
  <2>1. Len(ps) \in Nat
    BY SeqFacts
  <2> QED BY <2>1, NameOK DEF GenOK
<1> QED BY <1>4, <1>7, <1>8, <1>9, <1>10 DEF GenOK

(* codegen_var, _let and _const: the slot is put under the id that the name *)
(* is looked up to, or, for a name that was not found, under another.      *)
LEMMA DeclareOK ==
  ASSUME GenOK, Good(T), UNCHANGED T, NEW id, NEW r \in ScopesOf(T), NEW s, NEW v,
         OutcomeOK(here.fn, v), GetId(T, r, s.name) \in {0, id}, Declare(id, r, s, v)
  PROVE  GenOK'
<1> DEFINE f == here.fn
           eid == GetId(T, r, s.name)
           slot == Slot(f, s.name, s.src, eid)
           store == IF v.value THEN <<StoreTo(s.name, slot)>> ELSE << >>
           code == v.code \o <<Alloca(slot)>> \o store
<1>1. CASE Crashes
  BY <1>1, CrashesOK
<1>2. CASE ~Crashes
  <2>1. AddCode(code) /\ slots' = Bind(slots, id, slot) /\ UNCHANGED <<named, scope, here>>
    BY <1>2 DEF Declare
  <2>2. slot.fn = f /\ slot.name = s.name /\ slot.eid = eid
    BY DEF Slot
  <2>3. eid # 0 => NamesEntry(T, eid, s.name)
    <3>1. r \in 0..Len(T.parent)
      BY GoodNumbers DEF ScopesOf
    <3> QED BY <3>1, FoundIsNamed
  <2> HIDE DEF f, eid, slot
  <2>4. SlotOK(T, f, id, slot)
    BY <2>2, <2>3 DEF SlotOK, eid
  <2>5. InstrOK(f, Alloca(slot)) /\ InstrOK(f, StoreTo(s.name, slot))
    BY <2>2 DEF InstrOK, Alloca, StoreTo
  <2>6. CodeOK(f, <<Alloca(slot)>>) /\ CodeOK(f, store)
    BY <2>5, OneInstr, NoCode
  <2>7. CodeOK(f, v.code)
    BY DEF OutcomeOK, f
  <2> HIDE DEF store
  <2>8. CodeOK(f, code)
    BY <2>6, <2>7, MoreCode
  <2> HIDE DEF code
  <2>9. FnsOK' /\ Len(fns') = Len(fns)
    BY <2>1, <2>8, AddCodeOK DEF GenOK, f
  <2>10. SlotsOK'
    <3>1. DOMAIN slots' = DOMAIN slots \cup {id}
      BY <2>1 DEF Bind
    <3>2. ASSUME NEW i \in DOMAIN slots' PROVE SlotOK(T, f, i, slots'[i])
      <4>1. slots'[i] = IF i = id THEN slot ELSE slots[i]
        BY <2>1, <3>1 DEF Bind
      <4> QED BY <2>4, <3>1, <4>1 DEF GenOK, SlotsOK, f
    <3> QED BY <2>1, <3>2 DEF SlotsOK, f
  <2> QED BY <2>1, <2>9, <2>10 DEF GenOK, ArityOK
<1> QED BY <1>1, <1>2

LEMMA EmitsOK ==
  ASSUME GenOK, UNCHANGED T, NEW v, NEW code, ~v.ok \/ CodeOK(here.fn, v.code \o code),
         Emits(v, code)
  PROVE  GenOK'
<1>1. CASE ~v.ok
  BY <1>1, CrashesOK DEF Emits
<1>2. CASE v.ok
  <2>1. AddCode(v.code \o code) /\ UNCHANGED <<named, slots, scope, here>>
    BY <1>2 DEF Emits
  <2>2. FnsOK' /\ Len(fns') = Len(fns)
    BY <1>2, <2>1, AddCodeOK DEF GenOK
  <2> QED BY <2>1, <2>2, StayOK
<1> QED BY <1>1, <1>2

(* The Register of a function's body, or the global one.                   *)
LEMMA ChildRegScope ==
  ASSUME Whole(T), 1 \in ScopesOf(T), NEW id, NEW r \in ChildReg(id), r # 0
  PROVE  r \in ScopesOf(T)
<1> DEFINE e == T.table[1].ids[id]
<1>1. CASE HasId(T, 1, id) /\ e.tag = "Function"
  <2>1. Backward(T, id, e)
    BY <1>1 DEF Whole, Formed, HasId
  <2>2. e.kids \in Seq(ScopesOf(T)) /\ e.kids # << >>
    BY <1>1, <2>1 DEF Backward, Shape, Nesting
  <2>3. r = e.kids[1]
    BY <1>1 DEF ChildReg
  <2> QED BY <2>2, <2>3, OperandOne
<1>2. CASE ~(HasId(T, 1, id) /\ e.tag = "Function")
  <2>1. r = 1
    BY <1>2 DEF ChildReg
  <2> QED BY <2>1
<1> QED BY <1>1, <1>2

LEMMA CodegenFunctionOK ==
  ASSUME GenOK, LowerInv, AllListed(module), UNCHANGED T, CodegenFunction
  PROVE  GenOK'
<1>1. Whole(T) /\ Good(T) /\ 1 \in ScopesOf(T)
  BY RootExists DEF LowerInv, LInv, WInv, Whole
<1> DEFINE d == module[The]
<1>2. PICK r \in ChildReg(EidOf(The)) :
        IF r = 0 THEN Crashes
        ELSE /\ scope' = r
             /\ slots' = ParamSlots(Len(fns) + 1, d.params, r)
             /\ fns' = Append(fns, [def |-> The,
                          blocks |-> <<Block("entry", ParamCode(Len(fns) + 1, d.params, r))>>])
             /\ Name(d.name, Len(d.params))
             /\ here' = Place(Len(fns) + 1, 1)
  BY DEF CodegenFunction
<1>3. IsSeq(d.params)
  BY DEF CodegenFunction, Definition, Defined, AllListed
<1> HIDE DEF d
<1>4. CASE r = 0
  BY <1>2, <1>4, CrashesOK
<1>5. CASE r # 0
  <2>1. r \in ScopesOf(T)
    BY <1>1, <1>5, ChildRegScope
  <2> QED BY <1>1, <1>2, <1>3, <1>5, <2>1, FunctionOK
<1> QED BY <1>4, <1>5

LEMMA CodegenTraitOK ==
  ASSUME GenOK, LowerInv, UNCHANGED T, CodegenTrait
  PROVE  GenOK'
<1>1. Good(T) /\ 1 \in ScopesOf(T)
  BY RootExists DEF LowerInv, LInv, WInv, Whole
<1>2. PICK x \in Idents, ps \in {<< >>} \cup {<<[name |-> y, src |-> 0]>> : y \in Idents} :
        /\ scope' = 1
        /\ slots' = ParamSlots(Len(fns) + 1, ps, 1)
        /\ fns' = Append(fns, [def |-> The,
                     blocks |-> <<Block("entry", ParamCode(Len(fns) + 1, ps, 1))>>])
        /\ Name(x, Len(ps))
        /\ here' = Place(Len(fns) + 1, 1)
  BY DEF CodegenTrait
<1>3. IsSeq(ps)
  BY OneSeq
<1> QED BY <1>1, <1>2, <1>3, FunctionOK

(* What makes no code and no slot.                                         *)
LEMMA NoCodeOK ==
  ASSUME GenOK, UNCHANGED T,
         CodegenNew \/ CodegenExtern \/ SkipDef \/ SkipStmt \/ Position
  PROVE  GenOK'
<1>1. CASE CodegenNew \/ SkipDef \/ SkipStmt
  <2>1. UNCHANGED <<fns, named, slots, scope, here>>
    BY <1>1 DEF CodegenNew, SkipDef, SkipStmt
  <2> QED BY <2>1, SameFns, StayOK
<1>2. CASE Position
  <2>1. UNCHANGED <<fns, named, slots, scope>> /\ here'.fn = here.fn
    BY <1>2 DEF Position, Place
  <2> QED BY <2>1, SameFns, StayOK
<1>3. CASE CodegenExtern
  <2>1. UNCHANGED <<fns, slots, scope, here>> /\ Name(module[The].name, 0)
    BY <1>3 DEF CodegenExtern
  <2>2. FnsOK'
    BY <2>1, SameFns
  <2>3. ArityOK'
    BY <2>1, NameOK DEF GenOK
  <2> QED BY <2>1, <2>2, <2>3 DEF GenOK, SlotsOK
<1> QED BY <1>1, <1>2, <1>3, Zenon

LEMMA DeclarationOK ==
  ASSUME GenOK, LowerInv, UNCHANGED T, CodegenGlobal \/ CodegenDecl
  PROVE  GenOK'
<1>1. Good(T) /\ 1 \in ScopesOf(T)
  BY RootExists DEF LowerInv, LInv, WInv, Whole
<1>2. CASE CodegenGlobal
  <2> DEFINE s == module[The]
  <2>1. PICK u \in Undefined : Declare(EidOf(The), 1, s, Emit(1, s.exprs[1], u))
    BY <1>2 DEF CodegenGlobal
  <2>2. GetId(T, 1, s.name) \in {0, EidOf(The)}
    BY DEF EidOf
  <2> HIDE DEF s
  <2>3. OutcomeOK(here.fn, Emit(1, s.exprs[1], u))
    BY <1>1, TreeOK DEF GenOK
  <2> QED BY <1>1, <2>1, <2>2, <2>3, DeclareOK
<1>3. CASE CodegenDecl
  <2> DEFINE s == The
  <2>1. PICK u \in Undefined :
          Declare(GetId(T, scope, s.name), scope, s, Emit(scope, s.exprs[1], u))
    BY <1>3 DEF CodegenDecl
  <2> HIDE DEF s
  <2>2. OutcomeOK(here.fn, Emit(scope, s.exprs[1], u)) /\ scope \in ScopesOf(T)
    BY <1>1, TreeOK DEF GenOK
  <2> QED BY <1>1, <2>1, <2>2, DeclareOK
<1> QED BY <1>2, <1>3

LEMMA ReturnOK ==
  ASSUME GenOK, LowerInv, UNCHANGED T, CodegenReturn \/ CodegenExprStmt
  PROVE  GenOK'
<1>1. PICK u \in Undefined, code \in {<<Ret(The.src)>>, << >>} :
        Emits(Emit(scope, The.exprs[1], u), code)
  BY DEF CodegenReturn, CodegenExprStmt
<1> DEFINE v == Emit(scope, The.exprs[1], u)
<1>2. OutcomeOK(here.fn, v)
  BY TreeOK DEF GenOK, LowerInv, LInv, WInv, Whole
<1>3. CodeOK(here.fn, code)
  <2>1. InstrOK(here.fn, Ret(The.src))
    BY DEF InstrOK, Ret
  <2> QED BY <2>1, OneInstr, NoCode
<1> HIDE DEF v
<1>4. CodeOK(here.fn, v.code \o code)
  BY <1>2, <1>3, MoreCode DEF OutcomeOK
<1> QED BY <1>1, <1>4, EmitsOK DEF v

(* codegen_assign stores to the slot the name on its left finds.           *)
LEMMA AssignOK ==
  ASSUME GenOK, LowerInv, UNCHANGED T, CodegenAssign
  PROVE  GenOK'
<1> DEFINE f == here.fn
           e == The.exprs[1]
           x == e.name
           store == IF e.tag = "VarRef" THEN StoreTo(x, SlotOf(scope, x)) ELSE StoreThrough
<1>1. PICK u \in Undefined :
        IF ~Target(scope, e, u).ok THEN Crashes
        ELSE Emits(Emit(scope, The.exprs[2], u),
                   Target(scope, e, u).code
                     \o (IF Target(scope, e, u).value /\ Emit(scope, The.exprs[2], u).value
                         THEN <<store>> ELSE << >>))
  BY DEF CodegenAssign
<1> DEFINE target == Target(scope, e, u)
           v == Emit(scope, The.exprs[2], u)
           tail == IF target.value /\ v.value THEN <<store>> ELSE << >>
<1>2. /\ OutcomeOK(f, target) /\ OutcomeOK(f, v)
      /\ e.tag = "VarRef" /\ target.value => GetId(T, scope, x) # 0 /\ HasSlot(scope, x)
  BY TreeOK DEF GenOK, LowerInv, LInv, WInv, Whole
<1>3. CASE ~target.ok
  BY <1>1, <1>3, CrashesOK
<1>4. CASE target.ok
  <2>1. Emits(v, target.code \o tail)
    BY <1>1, <1>4
  <2>2. target.value => InstrOK(f, store)
    <3>1. CASE e.tag = "VarRef"
      BY <1>2, <3>1, SlotFound DEF GenOK, LowerInv, LInv, WInv, Whole
    <3>2. CASE e.tag # "VarRef"
      BY <3>2 DEF InstrOK, StoreThrough
    <3> QED BY <3>1, <3>2
  <2> HIDE DEF target, v, store
  <2>3. CodeOK(f, tail)
    BY <2>2, OneInstr, NoCode
  <2> HIDE DEF tail
  <2>4. CodeOK(f, v.code \o (target.code \o tail))
    BY <1>2, <2>3, MoreCode DEF OutcomeOK
  <2> QED BY <2>1, <2>4, EmitsOK
<1> QED BY <1>3, <1>4

(* codegen_generate_if, _while and _for: new blocks, of the same function. *)
LEMMA BranchOK ==
  ASSUME GenOK, UNCHANGED T, NEW b, here' = Place(here.fn, b), UNCHANGED <<named, slots, scope>>,
         NEW code, CodeOK(here.fn, code), NEW more, BlocksOK(here.fn, more), Extend(code, more)
  PROVE  GenOK'
<1>1. FnsOK' /\ Len(fns') = Len(fns)
  BY ExtendOK DEF GenOK
<1>2. here'.fn = here.fn
  BY DEF Place
<1> QED BY <1>1, <1>2, StayOK

LEMMA BranchCode ==
  ASSUME NEW f, NEW src, NEW yes, NEW no
  PROVE  CodeOK(f, <<CondBr(src, yes, no)>>) /\ CodeOK(f, <<Br(yes)>>)
<1>1. InstrOK(f, CondBr(src, yes, no)) /\ InstrOK(f, Br(yes))
  BY DEF InstrOK, CondBr, Br
<1> QED BY <1>1, OneInstr

LEMMA CodegenIfOK ==
  ASSUME GenOK, LowerInv, UNCHANGED T, CodegenIf
  PROVE  GenOK'
<1> DEFINE n == Len(Here)
           more == <<Block("then", << >>), Block("else", << >>), Block("merge", << >>)>>
           branch == <<CondBr(The.src, n + 1, n + 2)>>
<1>1. PICK u \in Undefined :
        \/ Crashes
        \/ /\ Extend(Emit(scope, The.exprs[1], u).code \o branch, more)
           /\ here' = Place(here.fn, n + 1)
           /\ UNCHANGED <<named, slots, scope>>
  BY DEF CodegenIf
<1> DEFINE v == Emit(scope, The.exprs[1], u)
<1>2. OutcomeOK(here.fn, v)
  BY TreeOK DEF GenOK, LowerInv, LInv, WInv, Whole
<1>3. BlocksOK(here.fn, more) /\ CodeOK(here.fn, branch)
  BY NoCode, NewBlock, ThreeBlocks, BranchCode
<1> HIDE DEF v, branch
<1>4. CodeOK(here.fn, v.code \o branch)
  BY <1>2, <1>3, MoreCode DEF OutcomeOK
<1> HIDE DEF more
<1> QED BY <1>1, <1>3, <1>4, CrashesOK, BranchOK DEF v

LEMMA CodegenLoopOK ==
  ASSUME GenOK, LowerInv, UNCHANGED T, CodegenLoop
  PROVE  GenOK'
<1> DEFINE n == Len(Here)
           branch == <<CondBr(The.src, n + 2, n + 3)>>
           enter == <<Br(n + 1)>>
           cond(v) == Block("cond", v.code \o branch)
           more(v) == <<cond(v), Block("body", << >>), Block("merge", << >>)>>
<1>1. PICK u \in Undefined :
        \/ Crashes
        \/ /\ Extend(enter, more(Emit(scope, The.exprs[1], u)))
           /\ here' = Place(here.fn, n + 2)
           /\ UNCHANGED <<named, slots, scope>>
  BY DEF CodegenLoop
<1> DEFINE v == Emit(scope, The.exprs[1], u)
<1>2. OutcomeOK(here.fn, v)
  BY TreeOK DEF GenOK, LowerInv, LInv, WInv, Whole
<1>3. CodeOK(here.fn, branch) /\ CodeOK(here.fn, enter)
  BY BranchCode
<1> HIDE DEF v, branch, enter
<1>4. CodeOK(here.fn, v.code \o branch)
  BY <1>2, <1>3, MoreCode DEF OutcomeOK
<1>5. BlockOK(here.fn, cond(v))
  BY <1>4, NewBlock
<1> HIDE DEF cond
<1>6. BlocksOK(here.fn, more(v))
  BY <1>5, NoCode, NewBlock, ThreeBlocks
<1> HIDE DEF more
<1> QED BY <1>1, <1>3, <1>6, CrashesOK, BranchOK DEF v

LEMMA JoinOK ==
  ASSUME GenOK, UNCHANGED T, Join
  PROVE  GenOK'
<1>1. UNCHANGED fns \/ AddCode(<<Br(The)>>)
  BY DEF Join
<1>2. FnsOK' /\ Len(fns') = Len(fns)
  BY <1>1, SameFns, BranchCode, AddCodeOK DEF GenOK
<1>3. UNCHANGED <<named, slots, scope, here>>
  BY DEF Join
<1> QED BY <1>2, <1>3, StayOK

LEMMA GenerateOK ==
  ASSUME GenOK, LowerInv, AllListed(module), Generate
  PROVE  GenOK'
<1>1. UNCHANGED T
  BY DEF Generate, allVars
<1>2. CASE CodegenNew \/ CodegenExtern \/ SkipDef \/ SkipStmt \/ Position
  BY <1>1, <1>2, NoCodeOK
<1>3. CASE CodegenGlobal \/ CodegenDecl
  BY <1>1, <1>3, DeclarationOK
<1>4. CASE CodegenReturn \/ CodegenExprStmt
  BY <1>1, <1>4, ReturnOK
<1>5. CASE CodegenFunction
  BY <1>1, <1>5, CodegenFunctionOK
<1>6. CASE CodegenTrait
  BY <1>1, <1>6, CodegenTraitOK
<1>7. CASE CodegenAssign
  BY <1>1, <1>7, AssignOK
<1>8. CASE CodegenIf
  BY <1>1, <1>8, CodegenIfOK
<1>9. CASE CodegenLoop
  BY <1>1, <1>9, CodegenLoopOK
<1>10. CASE Join
  BY <1>1, <1>10, JoinOK
<1> QED BY <1>2, <1>3, <1>4, <1>5, <1>6, <1>7, <1>8, <1>9, <1>10, Zenon DEF Generate

-------------------------------------------------------------------------------
(* The invariant                                                           *)

(* Nothing is generated before the tables and the module are final.        *)
NothingYet == slots = << >> /\ fns = << >> /\ here = Nowhere /\ named = << >> /\ scope = 1

CodeInv ==
  /\ LowerInv
  /\ Listed
  /\ GenOK
  /\ LowerDone \/ NothingYet

LEMMA NoneSeq == DOMAIN << >> = {} /\ IsSeq(<< >>) /\ Len(<< >>) = 0
<1>1. DOMAIN << >> = {} /\ Len(<< >>) = 0
  OBVIOUS
<1> QED BY <1>1, OneSeq

LEMMA NothingOK ==
  ASSUME NothingYet, 1 \in ScopesOf(T)
  PROVE  GenOK
<1> DEFINE none == << >>
<1>1. DOMAIN none = {} /\ IsSeq(none) /\ Len(none) = 0
  BY NoneSeq
<1>2. slots = none /\ fns = none /\ named = none /\ scope = 1 /\ here.fn = 0
  BY DEF NothingYet, Nowhere
<1> HIDE DEF none
<1> QED BY <1>1, <1>2 DEF GenOK, FnsOK, SlotsOK, ArityOK

LEMMA InitCode == CodegenInit => CodeInv
<1> SUFFICES ASSUME CodegenInit PROVE CodeInv
  OBVIOUS
<1>1. LowerInv /\ Listed /\ NothingYet
  BY InitLowerInv, InitListed DEF CodegenInit, NothingYet
<1>2. 1 \in ScopesOf(T)
  BY <1>1, RootExists DEF LowerInv, LInv
<1> QED BY <1>1, <1>2, NothingOK DEF CodeInv

LEMMA CodeStep ==
  ASSUME CodeInv, [CodegenNext]_<<allVars, codeVars>>
  PROVE  CodeInv'
<1>1. CASE (Register /\ UNCHANGED <<lowerVars, codeVars>>) \/ (Lower /\ UNCHANGED codeVars)
  <2>1. LowerNext /\ UNCHANGED codeVars
    BY <1>1 DEF LowerNext
  <2>2. LowerInv' /\ Listed'
    BY <2>1, LowerInvStep, ListedStep DEF CodeInv
  <2>3. ~LowerDone
    <3>1. Lower => loops # << >>
      BY DEF Lower, SkipEntry, LowerVar, LowerLet, LowerType, LowerExtern, LowerReturn,
             LowerExprStmt, LowerAssign, LowerAtomic, OpenFunction, OpenBlocks, EnterBody,
             LeaveBody, CloseStmt, LeaveModule, InBody, Loops, Opened
    <3> QED BY <1>1, <3>1, RegisterNeedsStack DEF LowerDone, Registered
  <2>4. NothingYet'
    BY <2>1, <2>3 DEF CodeInv, NothingYet, codeVars
  <2>5. 1 \in ScopesOf(T')
    BY <2>2, RootExists DEF LowerInv, LInv, WInv, IInv, Good, TablesType, ScopesOf
  <2>6. GenOK'
    <3> DEFINE none == << >>
    <3>1. DOMAIN none = {} /\ IsSeq(none) /\ Len(none) = 0
      BY NoneSeq
    <3>2. slots' = none /\ fns' = none /\ named' = none /\ scope' = 1 /\ here'.fn = 0
      BY <2>4 DEF NothingYet, Nowhere
    <3> HIDE DEF none
    <3> QED BY <2>5, <3>1, <3>2 DEF GenOK, FnsOK, SlotsOK, ArityOK
  <2> QED BY <2>2, <2>4, <2>6 DEF CodeInv
<1>2. CASE Generate
  <2>1. UNCHANGED allVars /\ LowerDone
    BY <1>2 DEF Generate, CodegenNew, CodegenFunction, CodegenExtern, CodegenTrait, SkipDef,
                CodegenGlobal, CodegenDecl, CodegenReturn, CodegenExprStmt, CodegenAssign,
                SkipStmt, CodegenIf, CodegenLoop, Join, Position, Definition, Statement, Task
  <2>2. LowerInv' /\ Listed'
    BY <2>1, LowerInvStep, ListedStep DEF CodeInv
  <2>3. GenOK'
    BY <1>2, GenerateOK DEF CodeInv, Listed
  <2>4. LowerDone'
    BY <2>1 DEF LowerDone, Registered, allVars
  <2> QED BY <2>2, <2>3, <2>4 DEF CodeInv
<1>3. CASE UNCHANGED <<allVars, codeVars>>
  <2>1. LowerInv' /\ Listed'
    BY <1>3, LowerInvStep, ListedStep DEF CodeInv
  <2>2. GenOK'
    <3>1. UNCHANGED <<T, fns, named, slots, scope, here>>
      BY <1>3 DEF allVars, codeVars
    <3> QED BY <3>1, SameFns, StayOK DEF CodeInv
  <2>3. (LowerDone \/ NothingYet)'
    BY <1>3 DEF CodeInv, LowerDone, Registered, NothingYet, allVars, codeVars
  <2> QED BY <2>1, <2>2, <2>3 DEF CodeInv
<1> QED BY <1>1, <1>2, <1>3 DEF CodegenNext

LEMMA CodeInvSlots == CodeInv => SlotsLocal
<1> SUFFICES ASSUME CodeInv, NEW f \in DOMAIN fns, NEW b \in DOMAIN fns[f].blocks
             PROVE  \A k \in DOMAIN fns[f].blocks[b].code : InstrOK(f, fns[f].blocks[b].code[k])
  BY DEF SlotsLocal, InstrOK
<1>1. FnOK(f, fns[f])
  BY DEF CodeInv, GenOK, FnsOK
<1>2. BlockOK(f, fns[f].blocks[b])
  BY <1>1 DEF FnOK, BlocksOK
<1> QED BY <1>2 DEF BlockOK, CodeOK

(* symbol_table_clear and the second look-up of every name, for every      *)
(* program: whatever order the definitions are in, however their names     *)
(* shadow each other and whatever is read from freed buckets, a generated  *)
(* load or store is from a slot of the function it is in, made for a       *)
(* variable of the very name it was looked up for, unless that variable    *)
(* was not found.                                                          *)
THEOREM SlotsAreLocal == CodegenSpec => []SlotsLocal
<1>1. CodegenInit => CodeInv
  BY InitCode
<1>2. CodeInv /\ [CodegenNext]_<<allVars, codeVars>> => CodeInv'
  BY CodeStep
<1>3. CodeInv => SlotsLocal
  BY CodeInvSlots
<1> QED BY <1>1, <1>2, <1>3, PTL DEF CodegenSpec
=============================================================================
