-------------------------------- MODULE Codegen --------------------------------
(***************************************************************************)
(* The code generator: codegen_def and codegen_stmts of                    *)
(* src/src/codegen/codegen.c with the generators of src/src/codegen/main   *)
(* and the slot table of src/src/register/symbol_table.c, run on the       *)
(* module and the tables the lowering pass leaves.                         *)
(*                                                                         *)
(* The C recursion over bodies is a list of work, todo.  LLVM is external: *)
(* a function is a sequence of blocks, a block a sequence of instructions, *)
(* of which the allocas, loads, stores, calls and terminators are kept.    *)
(* What reads through NULL ends the compiler (crashed).                    *)
(***************************************************************************)
EXTENDS Lowering, TLC

VARIABLES
  todo,     \* the definitions, statements and block ends still to generate
  fns,      \* the LLVM functions with a body, in the order they were added
  named,    \* what LLVMGetNamedFunction finds, with its number of parameters
  slots,    \* sym_table: entity id -> alloca
  scope,    \* the Register the running codegen_stmts resolves names in
  here,     \* where the builder inserts
  crashed

codeVars == <<todo, fns, named, slots, scope, here, crashed>>

-------------------------------------------------------------------------------
(* LLVM                                                                    *)

Nowhere == [fn |-> 0, block |-> 0]
Place(f, b) == [fn |-> f, block |-> b]

Block(kind, code) == [kind |-> kind, code |-> code]

(* An alloca: its function, the variable or parameter it is for, and the    *)
(* entity that name was looked up to, 0 when there was none.               *)
Slot(f, name, src, eid) == [fn |-> f, name |-> name, src |-> src, eid |-> eid]

Alloca(slot) == [op |-> "alloca", slot |-> slot]
LoadOf(x, slot) == [op |-> "load", of |-> x, slot |-> slot]
StoreTo(x, slot) == [op |-> "store", of |-> x, slot |-> slot]
StoreThrough == [op |-> "put"]   \* to the element an address points at
CallTo(f) == [op |-> "call", of |-> f]
Ret(src) == [op |-> "ret", src |-> src]
CondBr(src, yes, no) == [op |-> "condbr", src |-> src, yes |-> yes, no |-> no]
Br(b) == [op |-> "br", to |-> b]

Terminators == {"ret", "condbr", "br"}
IsTerminated(code) == code # << >> /\ Seqs!Last(code).op \in Terminators

Here == fns[here.fn].blocks
Lengthened(blocks, b, code) == [blocks EXCEPT ![b].code = @ \o code]

(* Code where the builder is, and more blocks of its function.             *)
AddCode(code) == fns' = [fns EXCEPT ![here.fn].blocks = Lengthened(@, here.block, code)]
Extend(code, blocks) ==
  fns' = [fns EXCEPT ![here.fn].blocks = Lengthened(@, here.block, code) \o blocks]

(* f with v at x.                                                          *)
Bind(f, x, v) == [y \in DOMAIN f \cup {x} |-> IF y = x THEN v ELSE f[y]]

-------------------------------------------------------------------------------
(* codegen_expr: the code it emits, and whether it returns a value or NULL *)

Value(code) == [code |-> code, value |-> TRUE, ok |-> TRUE]
NoValue == [code |-> << >>, value |-> FALSE, ok |-> TRUE]
Crash == [code |-> << >>, value |-> FALSE, ok |-> FALSE]

(* What reading a freed entry may do.                                      *)
Undefined == {NoValue, Value(<< >>), Crash}

SlotOf(r, x) == slots[GetId(T, r, x)]
HasSlot(r, x) == GetId(T, r, x) \in DOMAIN slots

(* An expression node is generated from what became of its operands:       *)
(* sub[k] is the kth as a value and as an address.  An operand that is not *)
(* there would be read through NULL.                                       *)
Missing == [value |-> Crash, addr |-> Crash]
Sub(sub, k) == IF k \in DOMAIN sub THEN sub[k] ELSE Missing

(* The arguments a call passes: no more than the function takes.           *)
Arguments(sub, arity) ==
  [k \in 1..arity |-> IF k \in DOMAIN sub THEN sub[k].value ELSE NoValue]

(* codegen_expr of the node e.  r: the Register names are looked up in; u:  *)
(* the outcome of what is undefined.  The eid that lowering stored in the  *)
(* node is not looked at.                                                   *)
EmitNode(r, e, sub, u) ==
  LET a == Sub(sub, 1).value
      b == Sub(sub, 2).value
  IN
  CASE e.tag \in {"Literal", "Zero"} -> Value(<< >>)
    [] e.tag = "VarRef" ->
         IF GetId(T, r, e.name) # 0 /\ HasSlot(r, e.name)
         THEN Value(<<LoadOf(e.name, SlotOf(r, e.name))>>) ELSE Crash
    [] e.tag = "BinaryOp" ->
         [code |-> a.code \o b.code, value |-> a.value /\ b.value, ok |-> a.ok /\ b.ok]
    [] e.tag = "Index" ->   \* NULL unless the object's type is a pointer's
         [code |-> a.code \o b.code, value |-> a.value /\ b.value /\ u.value,
          ok |-> a.ok /\ b.ok]
    [] e.tag = "Unary" -> a
    [] e.tag = "AddrOf" -> Sub(sub, 1).addr
    [] e.tag = "Cast" -> IF a.value THEN a ELSE Crash
    [] e.tag = "Call" ->
         IF e.name \notin DOMAIN named THEN NoValue
         ELSE LET args == Arguments(sub, named[e.name])
              IN  [code |-> Seqs!FlattenSeq([k \in DOMAIN args |-> args[k].code])
                              \o <<CallTo(e.name)>>,
                   value |-> TRUE,
                   ok |-> \A k \in DOMAIN args : args[k].ok]
    [] e.tag \in {"Field", "Garbage"} -> u
    [] OTHER -> NoValue

(* codegen_expr_addr: NULL for what is no variable, or has no slot.        *)
TargetNode(r, e, sub, u) ==
  CASE e.tag = "VarRef" ->
         IF GetId(T, r, e.name) = 0 THEN Crash
         ELSE IF HasSlot(r, e.name) THEN Value(<< >>) ELSE NoValue
    [] e.tag = "Index" ->
         LET a == Sub(sub, 1).value
             b == Sub(sub, 2).value
         IN  IF a.value /\ b.value THEN Value(a.code \o b.code) ELSE Crash
    [] e.tag = "Null" -> Crash
    [] e.tag = "Garbage" -> u
    [] OTHER -> NoValue

(* The nodes of e, level by level: an operand has a smaller id than the    *)
(* expression that keeps it, so there are no more levels than ids.         *)
Nodes(e) ==
  LET nodes[l \in 0..T.next] ==
        IF l = 0 THEN {e} ELSE UNION {{x.args[k] : k \in DOMAIN x.args} : x \in nodes[l - 1]}
  IN  nodes

(* The tree of e, generated from its leaves up.                            *)
TreeOf(r, e, u) ==
  LET gen[l \in 0..T.next] ==
        [x \in Nodes(e)[l] |->
           LET sub == [k \in {i \in DOMAIN x.args : l < T.next} |-> gen[l + 1][x.args[k]]]
           IN  [value |-> EmitNode(r, x, sub, u), addr |-> TargetNode(r, x, sub, u)]]
  IN  gen[0][e]

Emit(r, e, u) == TreeOf(r, e, u).value
Target(r, e, u) == TreeOf(r, e, u).addr

-------------------------------------------------------------------------------
(* Work                                                                    *)

Def(i) == [op |-> "def", of |-> i]
Stmts(body) == [k \in DOMAIN body |-> [op |-> "stmt", of |-> body[k]]]
BranchTo(b) == [op |-> "join", of |-> b]
PositionAt(b) == [op |-> "position", of |-> b]

Task(op) == LowerDone /\ ~crashed /\ todo # << >> /\ Head(todo).op = op
Rest == Tail(todo)
The == Head(todo).of

Crashes ==
  /\ crashed' = TRUE
  /\ todo' = << >>
  /\ UNCHANGED <<fns, named, slots, scope, here>>

(* codegen_new                                                             *)
CodegenNew ==
  /\ Task("module")
  /\ todo' = [i \in DOMAIN module |-> Def(i)]
  /\ UNCHANGED <<fns, named, slots, scope, here, crashed>>

-------------------------------------------------------------------------------
(* codegen_def                                                             *)

Defined(tags) == {i \in DOMAIN module : module[i].tag \in tags}
Definition(tags) == Task("def") /\ The \in Defined(tags)

(* The entity of a definition is looked up by its name once more.          *)
EidOf(i) ==
  LET id == GetId(T, 1, module[i].name) IN IF id = 0 THEN i - 1 ELSE id

(* data.function.child_reg of the entry; 0 is a wild pointer, which comes   *)
(* of reading another member of the union.                                 *)
ChildReg(id) ==
  IF ~HasId(T, 1, id) THEN {1}
  ELSE LET e == T.table[1].ids[id]
       IN  IF e.tag = "Function" THEN {e.kids[1]} ELSE {0, 1}

Name(f, arity) ==
  named' = IF f \in DOMAIN named THEN named ELSE Bind(named, f, arity)

(* The slots of the parameters ps of function f, whose names are looked up *)
(* in r.                                                                   *)
ParamSlots(f, ps, r) ==
  LET id(k) == GetId(T, r, ps[k].name)
      last(i) == CHOOSE k \in DOMAIN ps :
                   id(k) = i /\ \A j \in DOMAIN ps : id(j) = i => j <= k
  IN  [i \in {id(k) : k \in DOMAIN ps} \ {0} |->
         Slot(f, ps[last(i)].name, ps[last(i)].src, i)]

(* The argument is stored in the alloca that is made for it.               *)
ParamCode(f, ps, r) ==
  [k \in DOMAIN ps |-> Alloca(Slot(f, ps[k].name, ps[k].src, GetId(T, r, ps[k].name)))]

(* Mutant: the slots of the function before are kept.                      *)
CodegenFunctionKeeps ==
  /\ Definition({"Function"})
  /\ LET d == module[The]
         f == Len(fns) + 1
     IN  \E r \in ChildReg(EidOf(The)) :
           IF r = 0 THEN Crashes
           ELSE /\ scope' = r
                /\ slots' = ParamSlots(f, d.params, r) @@ slots
                /\ fns' = Append(fns, [def |-> The,
                                       blocks |-> <<Block("entry", ParamCode(f, d.params, r))>>])
                /\ Name(d.name, Len(d.params))
                /\ here' = Place(f, 1)
                /\ todo' = Stmts(d.blocks[1]) \o Rest
                /\ UNCHANGED crashed

(* Mutant: the body is generated with the table the function is in.        *)
CodegenFunctionOutside ==
  /\ Definition({"Function"})
  /\ LET d == module[The]
         f == Len(fns) + 1
     IN  /\ scope' = 1
         /\ slots' = ParamSlots(f, d.params, 1)
         /\ fns' = Append(fns, [def |-> The,
                                blocks |-> <<Block("entry", ParamCode(f, d.params, 1))>>])
         /\ Name(d.name, Len(d.params))
         /\ here' = Place(f, 1)
         /\ todo' = Stmts(d.blocks[1]) \o Rest
         /\ UNCHANGED crashed

CodegenFunction ==
  /\ Definition({"Function"})
  /\ LET d == module[The]
         f == Len(fns) + 1
     IN  \E r \in ChildReg(EidOf(The)) :
           IF r = 0 THEN Crashes
           ELSE /\ scope' = r
                /\ slots' = ParamSlots(f, d.params, r)
                /\ fns' = Append(fns, [def |-> The,
                                       blocks |-> <<Block("entry", ParamCode(f, d.params, r))>>])
                /\ Name(d.name, Len(d.params))
                /\ here' = Place(f, 1)
                /\ todo' = Stmts(d.blocks[1]) \o Rest
                /\ UNCHANGED crashed

CodegenExtern ==
  /\ Definition({"Extern"})
  /\ Name(module[The].name, 0)
  /\ todo' = Rest
  /\ UNCHANGED <<fns, slots, scope, here, crashed>>

(* codegen_trait: a method is generated as a function without a body whose  *)
(* entity id is its index.  Lowering keeps no methods: any single one.      *)
CodegenTrait ==
  /\ Definition({"Trait"})
  /\ \E x \in Idents, ps \in {<< >>} \cup {<<[name |-> y, src |-> 0]>> : y \in Idents} :
       LET f == Len(fns) + 1
       IN  /\ scope' = 1
           /\ slots' = ParamSlots(f, ps, 1)
           /\ fns' = Append(fns, [def |-> The, blocks |-> <<Block("entry", ParamCode(f, ps, 1))>>])
           /\ Name(x, Len(ps))
           /\ here' = Place(f, 1)
           /\ todo' = Rest
           /\ UNCHANGED crashed

(* Types, and a trait without methods: they have no code.                  *)
SkipDef ==
  /\ Definition(TypeTags)
  /\ todo' = Rest
  /\ UNCHANGED <<fns, named, slots, scope, here, crashed>>

(* codegen_generate_var, _let and _const: the variable s of entity id, with *)
(* initialiser v, looked up in r.  The builder cannot make an alloca        *)
(* nowhere.                                                                *)
Declare(id, r, s, v) ==
  LET slot == Slot(here.fn, s.name, s.src, GetId(T, r, s.name))
  IN  IF ~v.ok \/ here = Nowhere THEN Crashes
      ELSE /\ AddCode(v.code \o <<Alloca(slot)>>
                       \o (IF v.value THEN <<StoreTo(s.name, slot)>> ELSE << >>))
           /\ slots' = Bind(slots, id, slot)
           /\ todo' = Rest
           /\ UNCHANGED <<named, scope, here, crashed>>

(* A global is made wherever the builder is: in the function before it.    *)
CodegenGlobal ==
  /\ Definition(Declarations)
  /\ LET s == module[The] IN
       \E u \in Undefined : Declare(EidOf(The), 1, s, Emit(1, s.exprs[1], u))

-------------------------------------------------------------------------------
(* codegen_stmts                                                           *)

Statement(tags) == Task("stmt") /\ The.tag \in tags

(* Code that leaves the builder in its block.                              *)
Emits(v, code) ==
  IF ~v.ok THEN Crashes
  ELSE /\ AddCode(v.code \o code)
       /\ todo' = Rest
       /\ UNCHANGED <<named, slots, scope, here, crashed>>

CodegenDecl ==
  /\ Statement(Declarations)
  /\ \E u \in Undefined :
       Declare(GetId(T, scope, The.name), scope, The, Emit(scope, The.exprs[1], u))

CodegenReturn ==
  /\ Statement({"Return"})
  /\ \E u \in Undefined : Emits(Emit(scope, The.exprs[1], u), <<Ret(The.src)>>)

CodegenExprStmt ==
  /\ Statement({"Expr"})
  /\ \E u \in Undefined : Emits(Emit(scope, The.exprs[1], u), << >>)

CodegenAssign ==
  /\ Statement({"Assign"})
  /\ \E u \in Undefined :
       LET target == Target(scope, The.exprs[1], u)
           v      == Emit(scope, The.exprs[2], u)
           x      == The.exprs[1].name
           store  == IF The.exprs[1].tag = "VarRef" THEN StoreTo(x, SlotOf(scope, x))
                     ELSE StoreThrough
       IN  IF ~target.ok THEN Crashes
           ELSE Emits(v, target.code
                         \o (IF target.value /\ v.value THEN <<store>> ELSE << >>))

(* A statement codegen_stmts has no case for.                              *)
SkipStmt ==
  /\ Statement({"Match", "AtomicOp"})
  /\ todo' = Rest
  /\ UNCHANGED <<fns, named, slots, scope, here, crashed>>

(* Mutant: the builder stays in the then block.                            *)
CodegenIfStays ==
  /\ Statement({"If", "Elif"})
  /\ \E u \in Undefined :
       LET v == Emit(scope, The.exprs[1], u)
           n == Len(Here)
       IN  IF ~v.ok THEN Crashes
           ELSE /\ Extend(v.code \o <<CondBr(The.src, n + 1, n + 2)>>,
                          <<Block("then", << >>), Block("else", << >>), Block("merge", << >>)>>)
                /\ here' = Place(here.fn, n + 1)
                /\ todo' = Stmts(The.blocks[1]) \o Stmts(The.blocks[2])
                             \o <<BranchTo(n + 3), PositionAt(n + 3)>> \o Rest
                /\ UNCHANGED <<named, slots, scope, crashed>>

(* codegen_generate_if                                                     *)
CodegenIf ==
  /\ Statement({"If", "Elif"})
  /\ \E u \in Undefined :
       LET v == Emit(scope, The.exprs[1], u)
           n == Len(Here)
       IN  IF ~v.ok THEN Crashes
           ELSE /\ Extend(v.code \o <<CondBr(The.src, n + 1, n + 2)>>,
                          <<Block("then", << >>), Block("else", << >>), Block("merge", << >>)>>)
                /\ here' = Place(here.fn, n + 1)
                /\ todo' = Stmts(The.blocks[1]) \o <<BranchTo(n + 3), PositionAt(n + 2)>>
                             \o Stmts(The.blocks[2]) \o <<BranchTo(n + 3), PositionAt(n + 3)>>
                             \o Rest
                /\ UNCHANGED <<named, slots, scope, crashed>>

(* codegen_generate_while and codegen_generate_for                         *)
CodegenLoop ==
  /\ Statement({"While", "For"})
  /\ \E u \in Undefined :
       LET v == Emit(scope, The.exprs[1], u)
           n == Len(Here)
       IN  IF ~v.ok THEN Crashes
           ELSE /\ Extend(<<Br(n + 1)>>,
                          <<Block("cond", v.code \o <<CondBr(The.src, n + 2, n + 3)>>),
                            Block("body", << >>), Block("merge", << >>)>>)
                /\ here' = Place(here.fn, n + 2)
                /\ todo' = Stmts(The.blocks[1]) \o <<BranchTo(n + 1), PositionAt(n + 3)>>
                             \o Rest
                /\ UNCHANGED <<named, slots, scope, crashed>>

(* The end of a body: on to block The, unless the block has ended already. *)
Join ==
  /\ Task("join")
  /\ IF IsTerminated(Here[here.block].code) THEN UNCHANGED fns
     ELSE AddCode(<<Br(The)>>)
  /\ todo' = Rest
  /\ UNCHANGED <<named, slots, scope, here, crashed>>

Position ==
  /\ Task("position")
  /\ here' = Place(here.fn, The)
  /\ todo' = Rest
  /\ UNCHANGED <<fns, named, slots, scope, crashed>>

Generate ==
  /\ \/ CodegenNew \/ CodegenFunction \/ CodegenExtern \/ CodegenTrait \/ SkipDef \/ CodegenGlobal
     \/ CodegenDecl \/ CodegenReturn \/ CodegenExprStmt \/ CodegenAssign
     \/ SkipStmt \/ CodegenIf \/ CodegenLoop \/ Join \/ Position
  /\ UNCHANGED allVars

CodegenInit ==
  /\ LowerInit
  /\ todo = <<[op |-> "module"]>>
  /\ fns = << >>
  /\ named = << >>
  /\ slots = << >>
  /\ scope = 1
  /\ here = Nowhere
  /\ crashed = FALSE

CodegenDone == LowerDone /\ todo = << >>

CodegenNext ==
  \/ Register /\ UNCHANGED <<lowerVars, codeVars>>
  \/ Lower /\ UNCHANGED codeVars
  \/ Generate
  \/ CodegenDone /\ UNCHANGED <<allVars, codeVars>>

CodegenSpec == CodegenInit /\ [][CodegenNext]_<<allVars, codeVars>>
-------------------------------------------------------------------------------
(* Properties                                                              *)

(* symbol_table_clear, a name that is looked up again wherever it occurs,   *)
(* globals made in whatever function came before, whose ids are their      *)
(* places in the module when their names are not found: whatever order the *)
(* definitions are in and however their names shadow each other, a load or *)
(* store is from a slot of its own function, made for a variable of that   *)
(* very name, unless that variable itself was not found.                   *)
SlotsLocal ==
  \A f \in DOMAIN fns : \A b \in DOMAIN fns[f].blocks :
    LET code == fns[f].blocks[b].code IN
      \A k \in DOMAIN code :
        code[k].op \in {"load", "store"} =>
          /\ code[k].slot.fn = f
          /\ code[k].slot.eid # 0 => code[k].slot.name = code[k].of
===============================================================================
