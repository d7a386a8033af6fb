------------------------------- MODULE Lowering -------------------------------
(***************************************************************************)
(* The lowering pass: lower_stmt and the lower_* functions of              *)
(* src/src/ir/ir.c, run on the tables the registration pass leaves.        *)
(*                                                                         *)
(* lower_stmt is a loop over the ids of one table; a statement with a body *)
(* runs another such loop on a child table.  `loops' is the C stack of     *)
(* these loops.  The pass also WRITES the tables: the fields of a struct   *)
(* literal are registered a second time when it is lowered, so that the    *)
(* bound of every loop, the shared counter, moves while the loops run.     *)
(***************************************************************************)
EXTENDS Registrar
Seqs == INSTANCE SequencesExt

VARIABLES
  loops,   \* the running lower_stmt loops, innermost last
  module   \* the IR_Module that main receives

lowerVars == <<loops, module>>
allVars == <<T, stack, lost, loops, module>>

-------------------------------------------------------------------------------
(* lower_expr                                                              *)

Node(tag, name, eid, args) ==
  [tag |-> tag, name |-> name, eid |-> eid, args |-> args]

NullIR == Node("Null", NoName, 0, << >>)      \* a NULL IR_Expr pointer
ZeroIR == Node("Zero", NoName, 0, << >>)      \* (IR_Expr){0}
(* What comes of an entry read through a stale pointer.                     *)
GarbageIR == Node("Garbage", NoName, 0, << >>)

(* The expression, and the fields registered again on the way.             *)
Result(ir, made) == [ir |-> ir, made |-> made]

VarRef(t, r, x) == Node("VarRef", x, GetId(t, r, x), << >>)

(* The table an id was issued in.                                          *)
HomeOf(t, id) == CHOOSE r \in ScopesOf(t) : HasId(t, r, id)
EntryOf(t, id) == t.table[HomeOf(t, id)].ids[id]

PointerAlive(t, id) ==
  LET e == EntryOf(t, id) IN e.gen = t.table[HomeOf(t, id)].cap

SameBuckets(t, u, r) == u.table[r].cap = t.table[r].cap

(* An operand kept as an id: it is looked up in c.                          *)
ById(t, lower, c, id, absent) ==
  IF HasId(t, c, id) THEN lower[id][c] ELSE Result(absent, << >>)

(* One kept as a pointer into the table of entry id.                        *)
ByPointer(t, lower, id, r) ==
  LET k == EntryOf(t, id).ops[1]
  IN  IF k = 0 THEN Result(NullIR, << >>)
      ELSE IF PointerAlive(t, id) THEN lower[k][r]
      ELSE Result(GarbageIR, << >>)

LowerCall(t, lower, e, r) ==
  LET arg  == [k \in DOMAIN e.ops |-> ById(t, lower, e.kids[1], e.ops[k], ZeroIR)]
  IN  Result(Node("Call", e.ref, GetId(t, r, e.ref), [k \in DOMAIN arg |-> arg[k].ir]),
             Seqs!FlattenSeq([k \in DOMAIN arg |-> arg[k].made]))

(* The field is registered again; entry and struct are read once it is in. *)
LowerStructCall(t, id, e, r) ==
  LET field == EntryOf(t, e.ops[1]).ref
      stale == /\ ~SameBuckets(t, RegIdent(t, r, field), r)
               /\ HasId(t, r, id) \/ LocalId(t, r, e.ref) # 0
  IN  Result(IF stale THEN GarbageIR
             ELSE Node("MakeStruct", e.ref, GetId(t, r, e.ref), <<VarRef(t, r, field)>>),
             <<[reg |-> r, name |-> field]>>)

(* lower_expr(r, entry id), lower being what it returns for smaller ids.    *)
LowerExpr(t, lower, id, r) ==
  LET e == EntryOf(t, id) IN
    CASE e.tag = "Literal" -> Result(Node("Literal", NoName, 0, << >>), << >>)
      [] e.tag = "Identifier" -> Result(VarRef(t, r, e.ref), << >>)
      [] e.tag \in {"BinaryOp", "Index"} ->
           LET a == ById(t, lower, r, e.ops[1], NullIR)
               b == ById(t, lower, r, e.ops[2], NullIR)
           IN  Result(Node(e.tag, NoName, 0, <<a.ir, b.ir>>), a.made \o b.made)
      [] e.tag = "Cast" ->
           LET a == ById(t, lower, r, e.ops[1], NullIR)
           IN  Result(Node("Cast", NoName, 0, <<a.ir>>), a.made)
      [] e.tag \in {"Unary", "AddrOf", "Field"} ->
           LET a == ByPointer(t, lower, id, r)
           IN  Result(Node(e.tag, e.ref, 0, <<a.ir>>), a.made)
      [] e.tag = "Call" -> LowerCall(t, lower, e, r)
      [] e.tag = "StructCall" -> LowerStructCall(t, id, e, r)
      [] OTHER -> Result(ZeroIR, << >>)

(* Lowered(t)[id][r] is lower_expr(r, entry id).  r need not be the table   *)
(* of the entry: its operands are looked up in r all the same.  An operand *)
(* has a smaller id than the expression that keeps it.                     *)
Lowered(t) ==
  LET lower[id \in 1..(t.next - 1)] ==
        [r \in ScopesOf(t) |-> LowerExpr(t, lower, id, r)]
  IN  lower

(* register_expr, called again by the StructCall case of lower_expr.       *)
(* Mutant: the field is declared as well.                                   *)
RemakeDeclared(t, made) ==
  Seqs!FoldLeft(LAMBDA u, m :
                  Insert(u, m.reg, NewEntry("Param", m.name, NoName, << >>, << >>)),
                t, made)

Remake(t, made) ==
  LET u[n \in 0..Len(made)] ==
        IF n = 0 THEN t ELSE RegIdent(u[n - 1], made[n].reg, made[n].name)
  IN  u[Len(made)]

-------------------------------------------------------------------------------
(* lower_stmt                                                              *)

(* IR_Stmt and IR_Def.  src is the entry it was made of, which the code     *)
(* does not keep.                                                          *)
IRStmt(tag, src, name, eid, exprs, blocks) ==
  [tag |-> tag, src |-> src, name |-> name, eid |-> eid, exprs |-> exprs,
   blocks |-> blocks, params |-> << >>]

(* into: "defs" is a loop whose mod is the IR_Module of main, "stmts" one   *)
(* whose mod is a temporary that nobody reads.  i: its counter; out: what  *)
(* it has pushed; open: the statement whose body is being lowered.         *)
Loop(reg, into) ==
  [reg |-> reg, into |-> into, i |-> 0, out |-> << >>, open |-> << >>]

Running == loops[Len(loops)]
SetLoop(f) == loops' = [loops EXCEPT ![Len(loops)] = f]

(* ids in order: the kth has k - 1 before it.                              *)
Ascending(ids) ==
  [k \in 1..Cardinality(ids) |->
     CHOOSE i \in ids : Cardinality({j \in ids : j < i}) = k - 1]

(* Mutant: the table is walked in the order of its buckets.                 *)
AtBucket(j, tags) ==
  /\ j \in DOMAIN T.table[Running.reg].ids
  /\ T.table[Running.reg].ids[j].tag \in tags

(* The entry the innermost loop is at: the next id that is in its table.   *)
At(j, tags) ==
  LET ids == {k \in DOMAIN T.table[Running.reg].ids : k >= Running.i} IN
    /\ j \in ids /\ \A k \in ids : j <= k
    /\ T.table[Running.reg].ids[j].tag \in tags

Loops == Registered /\ loops # << >> /\ Running.open = << >>

Source(j) == T.table[Running.reg].ids[j]

PushIR(j, irs) == SetLoop([Running EXCEPT !.i = j + 1, !.out = @ \o irs])

(* IR_MOD_PUSH, and the statements lower_stmt takes only with stmts_out.    *)
PushDef(j, irs) == PushIR(j, IF Running.into = "defs" THEN irs ELSE << >>)

ExprTags == {"Call", "StructCall", "BinaryOp", "Index", "Cast", "Unary",
             "AddrOf", "Field", "Identifier", "Literal"}
BlockTags == {"If", "Elif", "While", "For", "Match"}
PlainTags == {"Return", "ExprStmt", "Assign", "Atomic"}
ValueTags == {"Var", "Let", "Const"}
TypeTags == {"Struct", "Enum", "Trait"}

(* Mutant: the counter is not moved past an entry without a case.          *)
SkipEntryStays(j) ==
  /\ Loops
  /\ \/ At(j, ExprTags \cup {"Param", "ExternFunc", "Module"})
     \/ Running.into = "defs" /\ At(j, BlockTags \cup PlainTags)
  /\ UNCHANGED <<T, stack, lost, loops, module>>

(* The default of the switch, and a statement of a loop without stmts_out. *)
SkipEntry(j) ==
  /\ Loops
  /\ \/ At(j, ExprTags \cup {"Param", "ExternFunc", "Module"})
     \/ Running.into = "defs" /\ At(j, BlockTags \cup PlainTags)
  /\ SetLoop([Running EXCEPT !.i = j + 1])
  /\ UNCHANGED <<T, stack, lost, module>>

(* Mutant: the declaration takes the last id issued.                        *)
LowerVarLast(j) ==
  /\ Loops /\ At(j, {"Var"})
  /\ LET id == Source(j).ops[1]
         v  == IF id = 0 THEN Result(NullIR, << >>)
               ELSE Lowered(T)[id][Running.reg]
     IN  /\ T' = Remake(T, v.made)
         /\ PushIR(j, <<IRStmt("VarDecl", j, Source(j).name, T'.next - 1, <<v.ir>>, << >>)>>)
  /\ UNCHANGED <<stack, lost, module>>

(* The entry is read after its initialiser was lowered.                    *)
LowerVar(j) ==
  /\ Loops /\ At(j, {"Var"})
  /\ LET id == Source(j).ops[1]
         v  == IF id = 0 THEN Result(NullIR, << >>)
               ELSE Lowered(T)[id][Running.reg]
     IN  /\ T' = Remake(T, v.made)
         /\ \E h \in Held(T, T', Running.reg, j) :
              PushIR(j, <<IRStmt("VarDecl", j,
                               IF h = 0 THEN NoName ELSE EntryOf(T', h).name,
                               h, <<v.ir>>, << >>)>>)
  /\ UNCHANGED <<stack, lost, module>>

(* The initialiser is reached through the entry's own pointer.              *)
LowerLet(j) ==
  /\ Loops /\ At(j, {"Let", "Const"})
  /\ LET e == Source(j)
         v == ByPointer(T, Lowered(T), j, Running.reg)
     IN  /\ T' = Remake(T, v.made)
         /\ PushIR(j, <<IRStmt(IF e.tag = "Let" THEN "LetDecl" ELSE "ConstDecl",
                           j, e.name, j, <<v.ir>>, << >>)>>)
  /\ UNCHANGED <<stack, lost, module>>

LowerType(j) ==
  /\ Loops /\ At(j, TypeTags)
  /\ LET e == Source(j)
     IN  PushDef(j, <<IRStmt(e.tag, j, e.name, j, << >>, << >>)>>)
  /\ UNCHANGED <<T, stack, lost, module>>

(* The parameters, or extern functions, a child table holds, in order, each *)
(* with the id its NAME has there.                                         *)
Declared(c, tag) ==
  LET ids == Ascending({k \in DOMAIN T.table[c].ids : T.table[c].ids[k].tag = tag})
  IN  [k \in DOMAIN ids |->
         LET x == T.table[c].ids[ids[k]].name
         IN  [name |-> x, eid |-> GetId(T, c, x), src |-> ids[k]]]

LowerExtern(j) ==
  /\ Loops /\ At(j, {"Extern"})
  /\ LET funcs == Declared(Source(j).kids[1], "ExternFunc")
     IN  PushDef(j, [k \in DOMAIN funcs |->
                       IRStmt("Extern", j, funcs[k].name, funcs[k].eid, << >>, << >>)])
  /\ UNCHANGED <<T, stack, lost, module>>

(* One expression looked up in c by the id the entry keeps.                *)
Operand(c, id, absent) == ById(T, Lowered(T), c, id, absent)

PushWith(j, tag, results) ==
  /\ T' = Remake(T, Seqs!FlattenSeq([k \in DOMAIN results |-> results[k].made]))
  /\ PushIR(j, <<IRStmt(tag, j, NoName, 0,
                      [k \in DOMAIN results |-> results[k].ir], << >>)>>)
  /\ UNCHANGED <<stack, lost, module>>

InBody(j, tag) == Loops /\ Running.into = "stmts" /\ At(j, {tag})

LowerReturn(j) ==
  /\ InBody(j, "Return")
  /\ PushWith(j, "Return", <<Operand(Running.reg, Source(j).ops[1], NullIR)>>)

LowerExprStmt(j) ==
  /\ InBody(j, "ExprStmt")
  /\ PushWith(j, "Expr", <<Operand(Running.reg, Source(j).ops[1], ZeroIR)>>)

LowerAssign(j) ==
  /\ InBody(j, "Assign")
  /\ PushWith(j, "Assign",
              [k \in 1..2 |-> Operand(Running.reg, Source(j).ops[k], NullIR)])

LowerAtomic(j) == InBody(j, "Atomic") /\ PushWith(j, "AtomicOp", << >>)

-------------------------------------------------------------------------------
(* Statements with bodies                                                  *)

(* The child tables lower_* runs lower_stmt on, in that order.  The default *)
(* of a match is not among them: its default_body_count is always 0.       *)
Bodies(e) ==
  CASE e.tag = "Function" -> <<e.kids[1]>>
    [] e.tag \in {"If", "Elif"} -> <<e.kids[2], e.kids[3]>>
    [] e.tag \in {"While", "For"} -> <<e.kids[2]>>
    [] e.tag = "Match" -> SubSeq(e.kids, 3, Len(e.kids))
    [] OTHER -> << >>

(* lower_function, up to its body.                                         *)
OpenFunction(j) ==
  /\ Loops /\ At(j, {"Function"})
  /\ SetLoop([Running EXCEPT !.open =
                <<[IRStmt("Function", j, Source(j).name, j, << >>, << >>)
                     EXCEPT !.params = Declared(Source(j).kids[1], "Param")]>>])
  /\ UNCHANGED <<T, stack, lost, module>>

(* lower_if, lower_while, lower_for, lower_match: the head expression.      *)
OpenBlocks(j) ==
  /\ \E tag \in BlockTags : InBody(j, tag)
  /\ LET e == Source(j)
         v == Operand(e.kids[1], e.ops[1], ZeroIR)
     IN  /\ T' = Remake(T, v.made)
         /\ SetLoop([Running EXCEPT !.open =
                       <<IRStmt(e.tag, j, NoName, 0, <<v.ir>>, << >>)>>])
  /\ UNCHANGED <<stack, lost, module>>

Opened == Registered /\ loops # << >> /\ Running.open # << >>

EnterBody ==
  /\ Opened
  /\ LET s == Running.open[1]
         bodies == Bodies(Source(s.src))
     IN  /\ Len(s.blocks) < Len(bodies)
         /\ loops' = Append(loops, Loop(bodies[Len(s.blocks) + 1], "stmts"))
  /\ UNCHANGED <<T, stack, lost, module>>

AtEnd == \A k \in DOMAIN T.table[Running.reg].ids : k < Running.i

LeaveBody ==
  /\ Loops /\ Len(loops) > 1 /\ AtEnd
  /\ loops' = [Seqs!Front(loops) EXCEPT
                 ![Len(loops) - 1].open[1].blocks = Append(@, Running.out)]
  /\ UNCHANGED <<T, stack, lost, module>>

CloseStmt ==
  /\ Opened
  /\ LET s == Running.open[1]
     IN  /\ Len(s.blocks) = Len(Bodies(Source(s.src)))
         /\ SetLoop([Running EXCEPT
                       !.i = s.src + 1, !.open = << >>,
                       !.out = IF s.tag = "Function" /\ Running.into = "stmts"
                               THEN @ ELSE Append(@, s)])
  /\ UNCHANGED <<T, stack, lost, module>>

LeaveModule ==
  /\ Loops /\ Len(loops) = 1 /\ AtEnd
  /\ module' = Running.out
  /\ loops' = << >>
  /\ UNCHANGED <<T, stack, lost>>

Lower ==
  \/ \E j \in 1..(T.next - 1) :
       \/ SkipEntry(j) \/ LowerVar(j) \/ LowerLet(j) \/ LowerType(j)
       \/ LowerExtern(j) \/ LowerReturn(j) \/ LowerExprStmt(j)
       \/ LowerAssign(j) \/ LowerAtomic(j) \/ OpenFunction(j) \/ OpenBlocks(j)
  \/ EnterBody \/ LeaveBody \/ CloseStmt \/ LeaveModule

LowerInit ==
  /\ Init
  /\ loops = <<Loop(1, "defs")>>
  /\ module = << >>

LowerDone == Registered /\ loops = << >>

LowerNext ==
  \/ Register /\ UNCHANGED lowerVars
  \/ Lower
  \/ LowerDone /\ UNCHANGED allVars

(* main calls lower_stmt once register_body has returned; nothing makes the *)
(* source text end.                                                        *)
LowerSpec == LowerInit /\ [][LowerNext]_allVars /\ WF_allVars(Lower)
-------------------------------------------------------------------------------
(* Properties                                                              *)

KeptTags(into) ==
  IF into = "defs" THEN {"Function"} \cup TypeTags \cup ValueTags
  ELSE BlockTags \cup PlainTags \cup ValueTags

(* The statements of a scope that belong in the output, in source order.   *)
KeptIn(t, r, into, below) ==
  {k \in DOMAIN t.table[r].ids :
     k < below /\ t.table[r].ids[k].tag \in KeptTags(into)}

StatementsOf(t, r, into, below) == Ascending(KeptIn(t, r, into, below))

(* Where they came from; an extern block makes one definition a function.  *)
Sources(irs) ==
  LET own == Ascending({k \in DOMAIN irs : irs[k].tag # "Extern"})
  IN  [k \in DOMAIN own |-> irs[own[k]].src]

BodiesWhole(t, r, s) ==
  LET bodies == Bodies(t.table[r].ids[s.src]) IN
    \A b \in DOMAIN s.blocks :
      Sources(s.blocks[b]) = StatementsOf(t, bodies[b], "stmts", t.next)

StatementWhole(t, r, s) ==
  /\ Len(s.blocks) = Len(Bodies(t.table[r].ids[s.src]))
  /\ BodiesWhole(t, r, s)

(* lower_stmt turns id order into source order: whatever the loops         *)
(* register meanwhile, each has pushed every statement of its scope that   *)
(* it has passed, once and in order, and the bodies it has pushed hold     *)
(* every statement of theirs.                                              *)
SourceOrder ==
  \A d \in DOMAIN loops :
    LET f == loops[d] IN
      /\ Sources(f.out) = StatementsOf(T, f.reg, f.into, f.i)
      /\ \A k \in DOMAIN f.out : StatementWhole(T, f.reg, f.out[k])
      /\ \A k \in DOMAIN f.open : BodiesWhole(T, f.reg, f.open[k])

FindParams(ps) ==
  \A m \in DOMAIN ps :
    \E n \in 1..m :
      /\ ps[n].name = ps[m].name
      /\ ps[m].eid = ps[n].src
      /\ \A l \in 1..(n - 1) : ps[l].name # ps[m].name

(* The names lower_function looks up in the child table after the whole    *)
(* body is registered still find parameters: no declaration of the body,   *)
(* only an earlier parameter of the same name, takes the place of one.     *)
ParamsResolve ==
  \A d \in DOMAIN loops :
    \A k \in DOMAIN loops[d].open : FindParams(loops[d].open[k].params)

(* The code generator looks every name up once more after this pass, so    *)
(* what lowering registers again must not bind a name or touch an entry,   *)
(* and must not look like a statement to a loop that has yet to pass it.   *)
ProgramKept ==
  [][Registered =>
       \A r \in ScopesOf(T) :
         /\ T'.table[r].names = T.table[r].names
         /\ \A i \in DOMAIN T'.table[r].ids :
              IF i \in DOMAIN T.table[r].ids
              THEN T'.table[r].ids[i] = T.table[r].ids[i]
              ELSE T'.table[r].ids[i].tag \in ExprTags]_allVars

(* The bound of the loops is the counter they move: they still end.        *)
LoweringEnds == Registered ~> LowerDone

Declarations == {"VarDecl", "LetDecl", "ConstDecl"}

(* A declaration declares the variable the source declares.  lower_var      *)
(* reads its entry again after an initialiser that may have registered in  *)
(* the same table: it is still that entry as long as that table has its    *)
(* first four buckets, however many fields were registered around it.      *)
DeclarationsNamed ==
  \A d \in DOMAIN loops :
    T.table[loops[d].reg].cap <= 4 =>
      \A k \in DOMAIN loops[d].out :
        LET s == loops[d].out[k] IN
          s.tag \in Declarations =>
            s.eid = s.src /\ s.name = T.table[loops[d].reg].ids[s.src].name
===============================================================================
