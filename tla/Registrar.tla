------------------------------- MODULE Registrar -------------------------------
(***************************************************************************)
(* The registration pass: register_body and the register_* handlers of     *)
(* src/src/register/register.c, run over every program the bounds allow.   *)
(*                                                                         *)
(* The program is not a constant.  Each step is the handler of the next    *)
(* piece of syntax, chosen here as the parser could have produced it; a    *)
(* handler that recurses into a body is a Begin and an End step around the *)
(* steps of the body, with the C call stack kept in `stack'.               *)
(***************************************************************************)
EXTENDS RegisterTables

CONSTANTS
  Idents,     \* the identifiers that occur in the source text
  Abis,       \* the strings that name extern blocks, with their quotes
  Mangled,    \* the names mangle_name_unique tries for a class and a method
  StmtKinds,  \* the statements the program may contain
  Exprs,      \* the expressions it may contain
  MaxId,      \* no statement starts once this many ids are issued
  MaxScopes,  \* ... or this many scopes are made (an elif goes with its if)
  MaxDepth,   \* handlers open at once, register_body included
  MaxParams   \* parameters or fields of one declaration

(* The shapes of expression that register_expr treats differently: x and y *)
(* are the identifiers it mentions.  "BinaryOp" is x + y, "Chain" is       *)
(* x + y + y, "Call" is Expr_Function, whose tag is 0, "SelfCall" is       *)
(* self.x(y), "ClassCall" is x.y(y), "Make" is the struct literal x{y},     *)
(* "Unary" is -x, "AddrOf" is &x, "Cast" is x as a type, "Index" is x[y],   *)
(* "Field" is x.y and "Builtin" is a call of a built-in function.           *)
ExprShapes == [k : {"Null", "Literal", "Ident", "BinaryOp", "Chain", "Index",
                    "Call", "SelfCall", "ClassCall", "Make", "Unary", "AddrOf",
                    "Cast", "Field", "Builtin"},
               x : Idents \cup {NoName}, y : Idents \cup {NoName}]

(* A mangled name is made of two names.                                    *)
NamesCallee(e) ==
  /\ e.k \in {"SelfCall", "ClassCall"} => e.x # NoName
  /\ e.k = "ClassCall" => e.y # NoName

ASSUME ProgramAssumption ==
  /\ Idents \subseteq Names
  /\ Abis \subseteq Names \ Idents
  /\ Mangled \in [Idents -> [Idents -> Seq(Names) \ {<< >>}]]
  /\ Exprs \subseteq ExprShapes
  /\ \A e \in Exprs : NamesCallee(e)
  /\ MaxId \in Nat
  /\ MaxScopes \in Nat
  /\ MaxDepth \in Nat
  /\ MaxParams \in Nat

VARIABLES
  T,      \* the tables and their shared counter
  stack,  \* the open handlers, innermost last
  lost    \* scopes in which register_stmt met a statement it has no case for

vars == <<T, stack, lost>>

-------------------------------------------------------------------------------
(* register_expr                                                           *)

NoExpr == [k |-> "Null", x |-> NoName, y |-> NoName]

(* A parameter's default value: the parser leaves it zeroed, which is an   *)
(* Expr_Function with an empty name.                                       *)
ZeroedExpr == [k |-> "Call", x |-> NoName, y |-> NoName]

RegIdent(t, r, x) == Insert(t, r, NewEntry("Identifier", NoName, x, << >>, << >>))

RegLiteral(t, r) == Insert(t, r, NewEntry("Literal", NoName, NoName, << >>, << >>))

(* Mutant: the left operand is read after the operator was inserted.       *)
RegOperatorLate(tag, u, r, leftId, y) ==
  LET right == RegIdent(u, r, y)
      op    == Insert(right, r, NewEntry(tag, NoName, NoName, << >>, <<leftId, u.next>>))
  IN  {[op EXCEPT !.table[r].ids[right.next].ops[1] = id] : id \in Held(u, op, r, leftId)}

(* The right operand (or index) and then the operator, in the table of the *)
(* left one, which is entry leftId of the tables u.  The pointer to it is   *)
(* read once the right operand is in.                                       *)
RegOperator(tag, u, r, leftId, y) ==
  LET right == RegIdent(u, r, y)
  IN  {Insert(right, r, NewEntry(tag, NoName, NoName, << >>,
                                 <<id, u.next>>)) :
         id \in Held(u, right, r, leftId)}

RegBinary(tag, t, r, x, y) == RegOperator(tag, RegIdent(t, r, x), r, t.next, y)

RegChain(t, r, x, y) ==
  UNION {RegOperator("BinaryOp", u, r, u.next - 1, y) :
           u \in RegBinary("BinaryOp", t, r, x, y)}

(* Mutant: the child is made from the enclosing table.                      *)
RegCallOutside(t, r, x, y) ==
  LET child == MakeChild(t, r)
      c     == Len(child.parent)
      out   == IF t.parent[r] = 0 THEN r ELSE t.parent[r]
      args  == IF y = NoName THEN child ELSE RegIdent(child, out, y)
  IN  Insert(args, r, NewEntry("Call", NoName, x, <<c>>,
                               IF y = NoName THEN << >> ELSE <<t.next>>))

(* A call registers its argument in a child of its own.                    *)
RegCall(t, r, x, y) ==
  LET child == MakeChild(t, r)
      c     == Len(child.parent)
      args  == IF y = NoName THEN child ELSE RegIdent(child, c, y)
  IN  Insert(args, r, NewEntry("Call", NoName, x, <<c>>,
                               IF y = NoName THEN << >> ELSE <<t.next>>))

(* self.x(y) registers its argument in r and makes the child afterwards;   *)
(* in a method of class cls it names the first name of that method.        *)
RegSelfCall(t, r, cls, x, y) ==
  LET args  == IF y = NoName THEN t ELSE RegIdent(t, r, y)
      child == MakeChild(args, r)
      name  == IF cls = NoName THEN x ELSE Mangled[cls][x][1]
  IN  Insert(child, r, NewEntry("Call", NoName, name, <<Len(child.parent)>>,
                                IF y = NoName THEN << >> ELSE <<t.next>>))

(* x.y(y) is the call of the first name of method y of class x: not of the *)
(* name mangle_name_unique gave it.                                        *)
RegClassCall(t, r, x, y) == RegCall(t, r, Mangled[x][y][1], y)

(* The fields of a struct literal are registered beside it.  It keeps their *)
(* syntax; ops says which entry was made of it.                            *)
RegMake(t, r, x, y) ==
  Insert(RegIdent(t, r, y), r, NewEntry("StructCall", NoName, x, << >>, <<t.next>>))

(* -x and &x keep the pointer they got for x, a cast keeps its id.          *)
RegCast(t, r, x) ==
  Insert(RegIdent(t, r, x), r, NewEntry("Cast", NoName, NoName, << >>, <<t.next>>))

RegUnary(tag, t, r, x) ==
  LET operand == RegIdent(t, r, x)
  IN  Insert(operand, r,
             [NewEntry(tag, NoName, NoName, << >>, <<t.next>>)
                EXCEPT !.gen = operand.table[r].cap])

(* x.y keeps the pointer register_lookup gives for x: this table only.      *)
LocalId(t, r, x) ==
  IF x \in DOMAIN t.table[r].names THEN t.table[r].names[x].eid ELSE 0

RegField(t, r, x, y) ==
  Insert(t, r, [NewEntry("Field", NoName, y, << >>, <<LocalId(t, r, x)>>)
                  EXCEPT !.gen = t.table[r].cap])

(* The tables register_expr may leave behind.                              *)
RegExpr(t, r, cls, e) ==
  CASE e.k \in {"Null", "Builtin"}   -> {t}
    [] e.k = "Literal"              -> {RegLiteral(t, r)}
    [] e.k = "Ident"                -> {RegIdent(t, r, e.x)}
    [] e.k \in {"BinaryOp", "Index"} -> RegBinary(e.k, t, r, e.x, e.y)
    [] e.k = "Chain"                -> RegChain(t, r, e.x, e.y)
    [] e.k = "Call"                 -> {RegCall(t, r, e.x, e.y)}
    [] e.k = "SelfCall"             -> {RegSelfCall(t, r, cls, e.x, e.y)}
    [] e.k = "ClassCall"            -> {RegClassCall(t, r, e.x, e.y)}
    [] e.k = "Make"                 -> {RegMake(t, r, e.x, e.y)}
    [] e.k \in {"Unary", "AddrOf"}   -> {RegUnary(e.k, t, r, e.x)}
    [] e.k = "Cast"                 -> {RegCast(t, r, e.x)}
    [] e.k = "Field"                -> {RegField(t, r, e.x, e.y)}

(* The id of the entry it returned: the last one it inserted, 0 for NULL.  *)
ExprId(t, u) == IF u.next = t.next THEN 0 ELSE u.next - 1

-------------------------------------------------------------------------------
(* The open handlers.  reg: where the statements of the body go; out: where *)
(* the handler inserts its own entry; cls: the class_name given to the      *)
(* body; kids, ops: what that entry will keep; todo: header loops still to  *)
(* run ("P"aram, param "E"xpr, "V"ar field, extern "F"unc); full: no        *)
(* statement can follow here.                                               *)

FrameKinds == {"Root", "Function", "Method", "Class", "Trait", "TraitMethod",
               "Extern", "Module", "If", "Elif", "While", "For", "Match"}

Headers == {"P", "E", "V", "F"}

Frame(kind, reg, out, cls, name, kids, ops, todo) ==
  [kind |-> kind, reg |-> reg, out |-> out, cls |-> cls, name |-> name,
   kids |-> kids, ops |-> ops, todo |-> todo, full |-> FALSE]

Top == stack[Len(stack)]
Push(f) == stack' = Append(stack, f)
Pop == stack' = SubSeq(stack, 1, Len(stack) - 1)
SetTop(f) == stack' = [stack EXCEPT ![Len(stack)] = f]
Open(kind) == stack # << >> /\ Top.kind = kind

(* The else block of an if: the parser puts one node there, an elif or a   *)
(* Stmt_Elses.                                                             *)
InElse(f) == f.kind \in {"If", "Elif"} /\ f.reg = f.kids[3]

(* A body is being read: not a header, not between the arms of a match.    *)
AcceptsStmt(f) ==
  /\ f.todo = << >>
  /\ f.kind \notin {"Class", "Trait", "Extern"}
  /\ ~f.full
  /\ ~InElse(f)

Room == T.next <= MaxId /\ Len(T.parent) <= MaxScopes

Stmt(kind) ==
  /\ kind \in StmtKinds
  /\ stack # << >>
  /\ AcceptsStmt(Top)
  /\ Room

Deeper == Room /\ Len(stack) < MaxDepth

CompoundStmt(kind) == Stmt(kind) /\ Deeper

Init ==
  /\ T = InitTables
  /\ stack = <<Frame("Root", 1, 1, NoName, NoName, << >>, << >>, << >>)>>
  /\ lost = {}

-------------------------------------------------------------------------------
(* Statements without a body                                               *)

Leaf(kind) == Stmt(kind) /\ UNCHANGED <<stack, lost>>

RegisterStruct(x) ==
  /\ Leaf("Struct")
  /\ T' = Insert(T, Top.reg, NewEntry("Struct", x, NoName, << >>, << >>))

RegisterEnum(x) ==
  /\ Leaf("Enum")
  /\ T' = Insert(T, Top.reg, NewEntry("Enum", x, NoName, << >>, << >>))

(* The initialiser goes to a child of its own, which takes nothing else.   *)
RegisterVar(x, e) ==
  /\ Leaf("Var")
  /\ IF e.k = "Null"
     THEN T' = Insert(T, Top.reg, NewEntry("Var", x, NoName, << >>, <<0>>))
     ELSE LET child == MakeChild(T, Top.reg)
              c     == Len(child.parent)
          IN  \E t \in RegExpr(child, c, Top.cls, e) :
                T' = Insert(t, Top.reg,
                            NewEntry("Var", x, NoName, <<c>>, <<ExprId(T, t)>>))

(* let and const register their initialiser beside themselves, unless its  *)
(* tag is 0: that is the test for "no value", and also Expr_Function.      *)
LetInit(e) == IF e.k = "Call" THEN NoExpr ELSE e

RegisterLet(kind, x, e) ==
  /\ Leaf(kind)
  /\ \E t \in RegExpr(T, Top.reg, Top.cls, LetInit(e)) :
       T' = Insert(t, Top.reg,
                   [NewEntry(kind, x, NoName, << >>, <<ExprId(T, t)>>)
                      EXCEPT !.gen = t.table[Top.reg].cap])

RegisterReturn(e) ==
  /\ Leaf("Return")
  /\ \E t \in RegExpr(T, Top.reg, Top.cls, e) :
       T' = Insert(t, Top.reg,
                   NewEntry("Return", NoName, NoName, << >>, <<ExprId(T, t)>>))

RegisterExprStmt(e) ==
  /\ Leaf("ExprStmt")
  /\ \E t \in RegExpr(T, Top.reg, Top.cls, e) :
       T' = Insert(t, Top.reg,
                   NewEntry("ExprStmt", NoName, NoName, << >>, <<ExprId(T, t)>>))

(* What the parser puts left of an assignment: a name, self.x, or x[y].     *)
Targets ==
  {d \in ExprShapes : d.k = "Ident" /\ d.x \in Idents /\ d.y = NoName}
    \cup {d \in Exprs : d.k = "Index"}

(* The target, then the value, then the assignment; the target's pointer   *)
(* is read last.                                                           *)
RegisterAssign(d, e) ==
  /\ Leaf("Assign")
  /\ \E target \in RegExpr(T, Top.reg, Top.cls, d) :
       \E t \in RegExpr(target, Top.reg, Top.cls, e) :
         \E targetId \in Held(target, t, Top.reg, ExprId(T, target)) :
           T' = Insert(t, Top.reg,
                       NewEntry("Assign", NoName, NoName, << >>,
                                <<targetId, ExprId(target, t)>>))

(* One argument; the entry keeps how many there were, not which.           *)
RegisterAtomic ==
  /\ Leaf("Atomic")
  /\ T' = Insert(RegLiteral(T, Top.reg), Top.reg,
                 NewEntry("Atomic", NoName, NoName, << >>, << >>))

(* The default of register_stmt: a `local' declaration, or the whole else  *)
(* block, is passed over.                                                  *)
SkipLocal ==
  /\ Stmt("Local")
  /\ lost' = lost \cup {Top.reg}
  /\ UNCHANGED <<T, stack>>

(* Mutant: the scope around the if is dropped with its else block.         *)
SkipElseStays ==
  /\ "Else" \in StmtKinds
  /\ stack # << >> /\ InElse(Top) /\ ~Top.full
  /\ lost' = lost \cup {Top.out}
  /\ SetTop([Top EXCEPT !.full = TRUE])
  /\ UNCHANGED T

SkipElse ==
  /\ "Else" \in StmtKinds
  /\ stack # << >> /\ InElse(Top) /\ ~Top.full
  /\ lost' = lost \cup {Top.reg}
  /\ SetTop([Top EXCEPT !.full = TRUE])
  /\ UNCHANGED T

-------------------------------------------------------------------------------
(* Header loops: parameters, their default values, fields                  *)

NextHeader(h) == stack # << >> /\ Top.todo # << >> /\ Head(Top.todo) = h
HeaderDone == SetTop([Top EXCEPT !.todo = Tail(@)]) /\ UNCHANGED lost

RegisterParam(x) ==
  /\ NextHeader("P")
  /\ T' = Insert(T, Top.reg, NewEntry("Param", x, NoName, << >>, << >>))
  /\ HeaderDone

RegisterParamExpr ==
  /\ NextHeader("E")
  /\ T' \in RegExpr(T, Top.reg, NoName, ZeroedExpr)
  /\ HeaderDone

RegisterField(x) ==
  /\ NextHeader("V")
  /\ T' = Insert(T, Top.reg, NewEntry("Var", x, NoName, << >>, <<0>>))
  /\ HeaderDone

RegisterExternFunc(x) ==
  /\ NextHeader("F")
  /\ T' = Insert(T, Top.reg, NewEntry("ExternFunc", x, NoName, << >>, << >>))
  /\ HeaderDone

Params(p) == [i \in 1..p |-> "P"]
ParamExprs(p) == [i \in 1..p |-> "E"]

(* A function runs its two loops one after the other; in a class or trait  *)
(* the second loop sits inside the first.                                  *)
FunctionHeader(p) == Params(p) \o ParamExprs(p)
MethodHeader(p) ==
  [i \in 1..(p * (p + 1)) |-> IF i % (p + 1) = 1 THEN "P" ELSE "E"]

-------------------------------------------------------------------------------
(* Statements with a body.  A handler ends by inserting its own entry in   *)
(* the enclosing table.                                                    *)

(* The next child of r, and the tables once it is made.                    *)
NewScope == Len(T.parent) + 1

Enter(r, f) ==
  /\ T' = MakeChild(T, r)
  /\ Push(f)
  /\ UNCHANGED lost

(* Mutant: the entry goes into the body it describes.                      *)
CloseInside(tag) ==
  /\ T' = Insert(T, Top.reg, NewEntry(tag, Top.name, NoName, Top.kids, Top.ops))
  /\ Pop
  /\ UNCHANGED lost

(* Mutant: the entry goes into the global Register.                        *)
CloseGlobal(tag) ==
  /\ T' = Insert(T, 1, NewEntry(tag, Top.name, NoName, Top.kids, Top.ops))
  /\ Pop
  /\ UNCHANGED lost

Close(tag) ==
  /\ T' = Insert(T, Top.out, NewEntry(tag, Top.name, NoName, Top.kids, Top.ops))
  /\ Pop
  /\ UNCHANGED lost

BodyRead(kind) == Open(kind) /\ Top.todo = << >>

BeginFunction(f, p) ==
  /\ CompoundStmt("Function")
  /\ Enter(Top.reg, Frame("Function", NewScope, Top.reg, NoName, f, <<NewScope>>,
                          << >>, FunctionHeader(p)))

EndFunction == BodyRead("Function") /\ Close("Function")

(* The fields go to the enclosing table; the class itself has no entry.    *)
BeginClass(c, p) ==
  /\ CompoundStmt("Class")
  /\ Push(Frame("Class", Top.reg, Top.reg, c, c, << >>, << >>,
                [i \in 1..p |-> "V"]))
  /\ UNCHANGED <<T, lost>>

(* Mutant: only the scope of the class is searched.                        *)
IsFirstFreeHere(k, cand, r) ==
  /\ cand[k] \notin DOMAIN T.table[r].names
  /\ \A j \in 1..(k - 1) : cand[j] \in DOMAIN T.table[r].names

(* mangle_name_unique: the first candidate register_get does not find.     *)
IsFirstFree(k, cand, r) ==
  /\ GetId(T, r, cand[k]) = 0
  /\ \A j \in 1..(k - 1) : GetId(T, r, cand[j]) # 0

BeginMethod(m, p) ==
  /\ BodyRead("Class") /\ Deeper
  /\ \E k \in DOMAIN Mangled[Top.cls][m] :
       /\ IsFirstFree(k, Mangled[Top.cls][m], Top.reg)
       /\ Enter(Top.reg, Frame("Method", NewScope, Top.reg, Top.cls,
                               Mangled[Top.cls][m][k], <<NewScope>>, << >>,
                               MethodHeader(p)))

EndMethod == BodyRead("Method") /\ Close("Function")

EndClass == BodyRead("Class") /\ Pop /\ UNCHANGED <<T, lost>>

(* No entry keeps the child of a trait method, nor that of a module.       *)
BeginTrait(x) ==
  /\ CompoundStmt("Trait")
  /\ Push(Frame("Trait", Top.reg, Top.reg, NoName, x, << >>, << >>, << >>))
  /\ UNCHANGED <<T, lost>>

BeginTraitMethod(p) ==
  /\ Open("Trait") /\ Deeper
  /\ Enter(Top.reg, Frame("TraitMethod", NewScope, Top.reg, NoName, NoName,
                          << >>, << >>, MethodHeader(p)))

EndTraitMethod == BodyRead("TraitMethod") /\ Pop /\ UNCHANGED <<T, lost>>

EndTrait == Open("Trait") /\ Close("Trait")

BeginModule(x) ==
  /\ CompoundStmt("Module")
  /\ Enter(Top.reg, Frame("Module", NewScope, Top.reg, NoName, x, << >>, << >>,
                          << >>))

EndModule == Open("Module") /\ Close("Module")

(* All functions of an extern block share one child; abi, if there is one, *)
(* names the block: the token of a string, so no name an identifier has.   *)
BeginExtern(abi) ==
  /\ CompoundStmt("Extern")
  /\ Enter(Top.reg, Frame("Extern", NewScope, Top.reg, NoName, abi, <<NewScope>>,
                          << >>, << >>))

BeginExternFunc(p) ==
  /\ BodyRead("Extern") /\ Room
  /\ SetTop([Top EXCEPT !.todo = Params(p) \o <<"F">>])
  /\ UNCHANGED <<T, lost>>

EndExtern == BodyRead("Extern") /\ Close("Extern")

(* Mutant: the condition is registered beside the statement.               *)
EnterIfBeside(kind, e) ==
  LET n  == Len(T.parent)
      t3 == MakeChild(MakeChild(MakeChild(T, Top.reg), Top.reg), Top.reg)
  IN  /\ T' \in RegExpr(t3, Top.reg, Top.cls, e)
      /\ stack' = Append([stack EXCEPT ![Len(stack)].full = InElse(Top)],
                   Frame(kind, n + 2, Top.reg, Top.cls, NoName,
                         <<n + 1, n + 2, n + 3>>, <<ExprId(t3, T')>>, << >>))
      /\ UNCHANGED lost

(* Condition, then and else each get a child, before anything is read.  An *)
(* elif is the single node of an else block.                               *)
EnterIf(kind, e) ==
  LET n  == Len(T.parent)
      t3 == MakeChild(MakeChild(MakeChild(T, Top.reg), Top.reg), Top.reg)
  IN  /\ T' \in RegExpr(t3, n + 1, Top.cls, e)
      /\ stack' = Append([stack EXCEPT ![Len(stack)].full = InElse(Top)],
                   Frame(kind, n + 2, Top.reg, Top.cls, NoName,
                         <<n + 1, n + 2, n + 3>>, <<ExprId(t3, T')>>, << >>))
      /\ UNCHANGED lost

BeginIf(e) == CompoundStmt("If") /\ EnterIf("If", e)

BeginElif(e) ==
  /\ "Elif" \in StmtKinds /\ T.next <= MaxId /\ Len(stack) < MaxDepth
  /\ stack # << >> /\ InElse(Top) /\ ~Top.full
  /\ EnterIf("Elif", e)

BeginElse ==
  /\ Open("If") \/ Open("Elif")
  /\ ~InElse(Top)
  /\ SetTop([Top EXCEPT !.reg = Top.kids[3]])
  /\ UNCHANGED <<T, lost>>

EndIf == Open("If") /\ InElse(Top) /\ Close("If")
EndElif == Open("Elif") /\ InElse(Top) /\ Close("Elif")

(* The head and the body (or default) of a loop (or match).                *)
EnterBlock(kind, e, full) ==
  LET n  == Len(T.parent)
      t2 == MakeChild(MakeChild(T, Top.reg), Top.reg)
  IN  /\ CompoundStmt(kind)
      /\ T' \in RegExpr(t2, n + 1, Top.cls, e)
      /\ Push([Frame(kind, n + 2, Top.reg, Top.cls, NoName, <<n + 1, n + 2>>,
                     <<ExprId(t2, T')>>, << >>) EXCEPT !.full = full])
      /\ UNCHANGED lost

BeginWhile(e) == EnterBlock("While", e, FALSE)
EndWhile == Open("While") /\ Close("While")

(* The variable of a for is kept in the entry and bound nowhere.           *)
BeginFor(e) == EnterBlock("For", e, FALSE)
EndFor == Open("For") /\ Close("For")

(* The parser makes every arm a wildcard and never fills default_body.     *)
BeginMatch(e) == EnterBlock("Match", e, TRUE)

(* Mutant: the arms share the child of the default.                        *)
BeginArmShared ==
  /\ Open("Match") /\ Room
  /\ SetTop([Top EXCEPT !.reg = Top.kids[2], !.kids = Append(@, Top.kids[2]),
                        !.full = FALSE])
  /\ UNCHANGED <<T, lost>>

BeginArm ==
  /\ Open("Match") /\ Room
  /\ T' = MakeChild(T, Top.out)
  /\ SetTop([Top EXCEPT !.reg = NewScope, !.kids = Append(@, NewScope),
                        !.full = FALSE])
  /\ UNCHANGED lost

EndMatch == Open("Match") /\ Close("Match")

(* register_body returns.                                                  *)
EndBody == Open("Root") /\ Pop /\ UNCHANGED <<T, lost>>

Registered == stack = << >>
Terminated == Registered /\ UNCHANGED vars

-------------------------------------------------------------------------------
LeafStmt ==
  \/ \E x \in Idents : RegisterStruct(x) \/ RegisterEnum(x)
  \/ \E x \in Idents, e \in Exprs :
       \/ RegisterVar(x, e)
       \/ \E kind \in {"Let", "Const"} : RegisterLet(kind, x, e)
  \/ \E d \in Targets, e \in Exprs : RegisterAssign(d, e)
  \/ \E e \in Exprs : RegisterReturn(e) \/ RegisterExprStmt(e)
  \/ RegisterAtomic
  \/ SkipLocal
  \/ SkipElse

Header ==
  \/ \E x \in Idents :
       RegisterParam(x) \/ RegisterField(x) \/ RegisterExternFunc(x)
  \/ RegisterParamExpr

Begin ==
  \/ \E x \in Idents, p \in 0..MaxParams :
       BeginFunction(x, p) \/ BeginClass(x, p) \/ BeginMethod(x, p)
  \/ \E p \in 0..MaxParams : BeginTraitMethod(p) \/ BeginExternFunc(p)
  \/ \E x \in Idents : BeginTrait(x) \/ BeginModule(x)
  \/ \E abi \in Abis \cup {NoName} : BeginExtern(abi)
  \/ \E e \in Exprs :
       BeginIf(e) \/ BeginElif(e) \/ BeginWhile(e) \/ BeginFor(e) \/ BeginMatch(e)
  \/ BeginElse
  \/ BeginArm

End ==
  \/ EndFunction \/ EndMethod \/ EndClass \/ EndTraitMethod \/ EndTrait
  \/ EndModule \/ EndExtern \/ EndIf \/ EndElif \/ EndWhile \/ EndFor
  \/ EndMatch \/ EndBody

Register == LeafStmt \/ Header \/ Begin \/ End

Next == Register \/ Terminated

Spec == Init /\ [][Next]_vars
-------------------------------------------------------------------------------
(* Properties                                                              *)

FrameType(t) ==
  [kind : FrameKinds, reg : ScopesOf(t), out : ScopesOf(t),
   cls : Idents \cup {NoName}, name : Names \cup {NoName},
   kids : Seq(ScopesOf(t)), ops : Seq(Nat), todo : Seq(Headers), full : BOOLEAN]

FrameShape(f) ==
  /\ f.kind \in {"Class", "Method"} => f.cls \in Idents
  /\ f.kind \in {"If", "Elif"} => Len(f.kids) = 3

StackOK(s, t) ==
  /\ s \in Seq(FrameType(t))
  /\ \A i \in DOMAIN s : FrameShape(s[i])

(* The tables are well typed and every open handler works on scopes that   *)
(* exist: register_body never follows a Register it did not make.          *)
TypeOK ==
  /\ TablesType(T)
  /\ StackOK(stack, T)
  /\ lost \subseteq ScopesOf(T)

(* An id names one entry of the whole program: register_insert is the only *)
(* writer of IDCounter, whatever table it writes to.                       *)
UniqueIds == IdsDisjoint(T) /\ IdsStamped(T)

(* `if (absent > 0)': of the declarations of a name in one scope the first *)
(* is the one every later pass finds, and its two copies never differ.     *)
FirstDeclarationBinds == NamesAgree(T) /\ NamesEarliest(T)

(* What lower_stmt needs to turn id order into source order: everything a  *)
(* statement keeps in a scope of its own was registered after its earlier  *)
(* siblings and before itself.                                             *)
BodyBeforeOwner ==
  \A r \in ScopesOf(T) :
    \A j \in DOMAIN T.table[r].ids :
      \A k \in DOMAIN T.table[r].ids[j].kids :
        LET kid == T.table[r].ids[j].kids[k] IN
          /\ T.parent[kid] = r
          /\ \A n \in DOMAIN T.table[kid].ids :
               n < j /\ \A i \in DOMAIN T.table[r].ids : i < j => i < n

(* No two statements, and no two blocks of one statement, share a scope:   *)
(* the arms of a match, then and else, two methods of a class.             *)
OneOwner ==
  \A r, s \in ScopesOf(T) :
    \A i \in DOMAIN T.table[r].ids, j \in DOMAIN T.table[s].ids :
      LET a == T.table[r].ids[i].kids
          b == T.table[s].ids[j].kids
      IN  \A k \in DOMAIN a, l \in DOMAIN b :
            a[k] = b[l] => r = s /\ i = j /\ k = l

(* The register ir.c looks an operand's id up in is the one it was         *)
(* registered in: register_get_by_id does not walk to the parents.         *)
OperandsLocal ==
  \A r \in ScopesOf(T) :
    \A j \in DOMAIN T.table[r].ids :
      LET e == T.table[r].ids[j] IN
        /\ e.tag \in {"If", "Elif", "While", "For", "Match"} =>
             e.ops[1] = 0 \/ HasId(T, e.kids[1], e.ops[1])
        /\ e.tag \in {"Return", "ExprStmt"} =>
             e.ops[1] = 0 \/ HasId(T, r, e.ops[1])

(* A mangled method name stays free, from the scope of the class outwards, *)
(* until the method's own entry takes it: nothing its parameters or body   *)
(* declare gets in between.                                                *)
MethodNameFree ==
  \A i \in DOMAIN stack :
    stack[i].kind = "Method" => GetId(T, stack[i].out, stack[i].name) = 0

(* A step writes only where the innermost handler works: the scopes of     *)
(* finished bodies and of outer handlers stay as they are.                 *)
OtherScopesFrozen ==
  [][\A r \in ScopesOf(T) :
       stack = << >> \/ r \notin {Top.reg, Top.out} =>
         T'.table[r] = T.table[r]]_vars

(* Once a name is bound in a scope it is bound to that entry for good.     *)
BindingsStable ==
  [][\A r \in ScopesOf(T) : \A x \in DOMAIN T.table[r].names :
       /\ x \in DOMAIN T'.table[r].names
       /\ T'.table[r].names[x] = T.table[r].names[x]]_vars

(* What register_stmt has no case for is dropped whole: of an if that lost  *)
(* its else block every other block is as it was, the scope of the else    *)
(* stays empty, and the entry of the if names the lost scope as its third. *)
OnlyElseLost ==
  \A r \in lost :
    /\ T.table[r] = EmptyTable
    /\ \/ \E i \in DOMAIN stack : InElse(stack[i]) /\ stack[i].reg = r
       \/ \E s \in ScopesOf(T) : \E j \in DOMAIN T.table[s].ids :
            LET e == T.table[s].ids[j]
            IN  e.tag \in {"If", "Elif"} /\ e.kids[3] = r

(* An operator keeps the ids of its two operands, which are the entries    *)
(* registered just before it.  The pointer to the left one is held over    *)
(* the insert of the right one: only if that very insert makes the table   *)
(* grow, whatever expressions and declarations filled it, may it be lost.  *)
OperandsKept ==
  \A r \in ScopesOf(T) :
    \A j \in DOMAIN T.table[r].ids :
      LET e == T.table[r].ids[j] IN
        e.tag \in {"BinaryOp", "Index"} =>
          /\ e.ops[2] = j - 1
          /\ ~GrowthLoad(LoadBefore(T.table[r], j - 1)) => e.ops[1] = j - 2

(* lower_expr looks the arguments of a call up in the child the call keeps. *)
(* They are there, or (a self call) that child is empty and they are all    *)
(* beside the call: never in a scope of some other call or statement.      *)
ArgumentsLocal ==
  \A r \in ScopesOf(T) :
    \A j \in DOMAIN T.table[r].ids :
      LET e == T.table[r].ids[j]
          c == IF T.table[e.kids[1]].ids = << >> THEN r ELSE e.kids[1]
      IN  e.tag = "Call" => \A k \in DOMAIN e.ops : HasId(T, c, e.ops[k])
===============================================================================
