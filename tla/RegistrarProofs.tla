--------------------------- MODULE RegistrarProofs ---------------------------
(***************************************************************************)
(* Proofs about the registration pass for every program, every set of      *)
(* names and every bound: Registrar's type correctness, the uniqueness of  *)
(* ids, the first-declaration rule, and that no binding ever changes;      *)
(* then how the pass nests scopes: which tables a step may write, that     *)
(* every scope has one owner made after all that is in it, and that what   *)
(* an entry keeps is found where later passes look.                        *)
(***************************************************************************)
EXTENDS Registrar, RegisterTablesProofs

-------------------------------------------------------------------------------
(* Sequences of frames                                                     *)

(* A frame stays a frame when scopes are added.                            *)
LEMMA FrameGrow ==
  ASSUME NEW t, NEW u, ScopesOf(t) \subseteq ScopesOf(u), NEW f \in FrameType(t)
  PROVE  f \in FrameType(u)
<1>1. f.kids \in Seq(ScopesOf(u))
  BY DEF FrameType
<1> QED BY <1>1 DEF FrameType

LEMMA StackGrow ==
  ASSUME NEW t, NEW u, ScopesOf(t) \subseteq ScopesOf(u), NEW s, StackOK(s, t)
  PROVE  StackOK(s, u)
<1>1. \A f \in FrameType(t) : f \in FrameType(u)
  BY FrameGrow
<1> QED BY <1>1 DEF StackOK

LEMMA StackTop ==
  ASSUME NEW t, NEW s, StackOK(s, t), s # << >>
  PROVE  /\ s[Len(s)] \in FrameType(t)
         /\ FrameShape(s[Len(s)])
BY DEF StackOK

LEMMA StackPush ==
  ASSUME NEW t, NEW s, StackOK(s, t), NEW f \in FrameType(t), FrameShape(f)
  PROVE  StackOK(Append(s, f), t)
BY DEF StackOK

LEMMA StackPop ==
  ASSUME NEW t, NEW s, StackOK(s, t), s # << >>
  PROVE  StackOK(SubSeq(s, 1, Len(s) - 1), t)
BY DEF StackOK

LEMMA StackSetTop ==
  ASSUME NEW t, NEW s, StackOK(s, t), s # << >>, NEW f \in FrameType(t), FrameShape(f)
  PROVE  StackOK([s EXCEPT ![Len(s)] = f], t)
BY DEF StackOK

-------------------------------------------------------------------------------
(* Expressions                                                             *)

(* What every registration does to the tables.                             *)
Grown(t, u) == Good(u) /\ Extends(t, u) /\ ScopesOf(t) \subseteq ScopesOf(u)

(* ... and what one entry does.                                            *)
Inserted(t, u) == Grown(t, u) /\ u.next = t.next + 1 /\ ScopesOf(u) = ScopesOf(t)

LEMMA GrownTrans ==
  ASSUME NEW t, Good(t), NEW u, Grown(t, u), NEW v, Grown(u, v)
  PROVE  Grown(t, v)
BY ExtendsTrans DEF Grown

LEMMA InsertNew ==
  ASSUME NEW t, Good(t), NEW r \in ScopesOf(t), NEW tag \in Tags,
         NEW name \in Names \cup {NoName}, NEW ref \in Names \cup {NoName},
         NEW kids \in Seq(Nat), NEW ops \in Seq(Nat)
  PROVE  Inserted(t, Insert(t, r, NewEntry(tag, name, ref, kids, ops)))
<1> DEFINE e == NewEntry(tag, name, ref, kids, ops)
<1>1. e \in Entry
  BY NewEntryType
<1> HIDE DEF e
<1>2. /\ Good(Insert(t, r, e)) /\ Extends(t, Insert(t, r, e))
      /\ Insert(t, r, e).next = t.next + 1
      /\ ScopesOf(Insert(t, r, e)) = ScopesOf(t)
  BY <1>1, InsertGood
<1>3. Inserted(t, Insert(t, r, e))
  BY <1>2 DEF Grown, Inserted
<1> QED BY <1>3 DEF e

LEMMA NewScopeGrown ==
  ASSUME NEW t, Good(t), NEW r \in ScopesOf(t)
  PROVE  /\ Grown(t, MakeChild(t, r))
         /\ MakeChild(t, r).next = t.next
         /\ Len(MakeChild(t, r).parent) = Len(t.parent) + 1
         /\ Len(t.parent) + 1 \in ScopesOf(MakeChild(t, r))
BY MakeChildGood DEF Grown

(* A pointer to an entry reads some number, stale or not.                  *)
LEMMA HeldNat ==
  ASSUME NEW t, NEW u, Good(u), NEW r, NEW id \in Nat
  PROVE  Held(t, u, r, id) \subseteq Nat
BY GoodNumbers DEF Held

LEMMA ExprIdNat ==
  ASSUME NEW t, NEW u, Good(u)
  PROVE  ExprId(t, u) \in Nat
BY GoodNumbers DEF ExprId

LEMMA RegIdentGrown ==
  ASSUME NEW t, Good(t), NEW r \in ScopesOf(t), NEW x \in Idents \cup {NoName}
  PROVE  Inserted(t, RegIdent(t, r, x))
<1>1. /\ "Identifier" \in Tags /\ NoName \in Names \cup {NoName}
      /\ x \in Names \cup {NoName} /\ << >> \in Seq(Nat)
  BY ProgramAssumption DEF Tags
<1> QED BY <1>1, InsertNew DEF RegIdent

LEMMA RegLiteralGrown ==
  ASSUME NEW t, Good(t), NEW r \in ScopesOf(t)
  PROVE  Inserted(t, RegLiteral(t, r))
<1>1. /\ "Literal" \in Tags /\ NoName \in Names \cup {NoName} /\ << >> \in Seq(Nat)
  BY DEF Tags
<1> QED BY <1>1, InsertNew DEF RegLiteral

LEMMA RegOperatorGrown ==
  ASSUME NEW tag \in Tags, NEW t, Good(t), NEW r \in ScopesOf(t), NEW id \in Nat,
         NEW y \in Idents \cup {NoName}, NEW u \in RegOperator(tag, t, r, id, y)
  PROVE  Grown(t, u) /\ ScopesOf(u) = ScopesOf(t)
<1> DEFINE right == RegIdent(t, r, y)
<1>1. Grown(t, right) /\ ScopesOf(right) = ScopesOf(t) /\ Good(right)
  BY RegIdentGrown DEF Inserted, Grown
<1> HIDE DEF right
<1>2. PICK leftId \in Held(t, right, r, id) :
        u = Insert(right, r, NewEntry(tag, NoName, NoName, << >>,
                                      <<leftId, t.next>>))
  BY DEF RegOperator, right
<1>3. /\ leftId \in Nat /\ t.next \in Nat
  BY <1>1, <1>2, HeldNat, GoodNumbers
<1>4. /\ NoName \in Names \cup {NoName}
      /\ << >> \in Seq(Nat) /\ <<leftId, t.next>> \in Seq(Nat)
  BY <1>3
<1>5. r \in ScopesOf(right)
  BY <1>1
<1>6. Inserted(right, Insert(right, r, NewEntry(tag, NoName, NoName, << >>,
                                                <<leftId, t.next>>)))
  BY <1>1, <1>4, <1>5, InsertNew
<1>7. Grown(right, u) /\ ScopesOf(u) = ScopesOf(right)
  BY <1>2, <1>6 DEF Inserted
<1> QED BY <1>1, <1>7, GrownTrans

LEMMA RegBinaryGrown ==
  ASSUME NEW tag \in Tags, NEW t, Good(t), NEW r \in ScopesOf(t),
         NEW x \in Idents \cup {NoName}, NEW y \in Idents \cup {NoName},
         NEW u \in RegBinary(tag, t, r, x, y)
  PROVE  Grown(t, u) /\ ScopesOf(u) = ScopesOf(t)
<1> DEFINE left == RegIdent(t, r, x)
<1>1. Grown(t, left) /\ ScopesOf(left) = ScopesOf(t) /\ Good(left)
  BY RegIdentGrown DEF Inserted, Grown
<1>2. t.next \in Nat
  BY GoodNumbers
<1>3. u \in RegOperator(tag, left, r, t.next, y)
  BY DEF RegBinary
<1> HIDE DEF left
<1>4. Grown(left, u) /\ ScopesOf(u) = ScopesOf(left)
  BY <1>1, <1>2, <1>3, RegOperatorGrown
<1> QED BY <1>1, <1>4, GrownTrans

LEMMA RegChainGrown ==
  ASSUME NEW t, Good(t), NEW r \in ScopesOf(t), NEW x \in Idents \cup {NoName},
         NEW y \in Idents \cup {NoName}, NEW v \in RegChain(t, r, x, y)
  PROVE  Grown(t, v)
<1> "BinaryOp" \in Tags
  BY DEF Tags
<1>1. PICK u \in RegBinary("BinaryOp", t, r, x, y) :
        v \in RegOperator("BinaryOp", u, r, u.next - 1, y)
  BY DEF RegChain
<1>2. Grown(t, u) /\ ScopesOf(u) = ScopesOf(t) /\ Good(u)
  BY <1>1, RegBinaryGrown DEF Grown
<1>3. u.next - 1 \in Nat
  BY <1>2, GoodNumbers
<1>4. Grown(u, v)
  BY <1>1, <1>2, <1>3, RegOperatorGrown
<1> QED BY <1>2, <1>4, GrownTrans

LEMMA RegCallGrown ==
  ASSUME NEW t, Good(t), NEW r \in ScopesOf(t), NEW x \in Names \cup {NoName},
         NEW y \in Idents \cup {NoName}
  PROVE  Grown(t, RegCall(t, r, x, y))
<1> DEFINE child == MakeChild(t, r)
           c     == Len(child.parent)
           args  == IF y = NoName THEN child ELSE RegIdent(child, c, y)
           ops   == IF y = NoName THEN << >> ELSE <<t.next>>
<1>1. Grown(t, child) /\ Good(child) /\ c \in ScopesOf(child) /\ c \in Nat
  <2>1. /\ Grown(t, child) /\ Len(child.parent) = Len(t.parent) + 1
        /\ Len(t.parent) + 1 \in ScopesOf(child)
    BY NewScopeGrown
  <2>2. Good(child)
    BY <2>1 DEF Grown
  <2> QED BY <2>1, <2>2, GoodNumbers
<1> HIDE DEF child, c
<1>2. Grown(child, args)
  <2>1. CASE y = NoName
    BY <1>1, <2>1, ExtendsRefl DEF Grown
  <2>2. CASE y # NoName
    BY <1>1, <2>2, RegIdentGrown DEF Inserted
  <2> QED BY <2>1, <2>2
<1>3. Grown(t, args) /\ Good(args) /\ r \in ScopesOf(args)
  <2>1. Grown(t, args)
    BY <1>1, <1>2, GrownTrans
  <2> QED BY <2>1 DEF Grown
<1> HIDE DEF args
<1>4. /\ "Call" \in Tags /\ NoName \in Names \cup {NoName} /\ x \in Names \cup {NoName}
      /\ <<c>> \in Seq(Nat) /\ ops \in Seq(Nat)
  BY <1>1, GoodNumbers, ProgramAssumption DEF Tags
<1> HIDE DEF ops
<1>5. Grown(args, Insert(args, r, NewEntry("Call", NoName, x, <<c>>, ops)))
  BY <1>3, <1>4, InsertNew DEF Inserted
<1>6. RegCall(t, r, x, y) = Insert(args, r, NewEntry("Call", NoName, x, <<c>>, ops))
  BY DEF RegCall, child, c, args, ops
<1> QED BY <1>3, <1>5, <1>6, GrownTrans

(* The first name of a method is a name.                                   *)
LEMMA MangledName ==
  ASSUME NEW cls \in Idents, NEW m \in Idents
  PROVE  /\ Mangled[cls][m] \in Seq(Names)
         /\ Mangled[cls][m][1] \in Names
         /\ \A k \in DOMAIN Mangled[cls][m] : Mangled[cls][m][k] \in Names
<1>1. Mangled[cls][m] \in Seq(Names) /\ Mangled[cls][m] # << >>
  BY ProgramAssumption
<1> QED BY <1>1

LEMMA RegSelfCallGrown ==
  ASSUME NEW t, Good(t), NEW r \in ScopesOf(t), NEW cls \in Idents \cup {NoName},
         NEW x \in Idents, NEW y \in Idents \cup {NoName}
  PROVE  Grown(t, RegSelfCall(t, r, cls, x, y))
<1> DEFINE args  == IF y = NoName THEN t ELSE RegIdent(t, r, y)
           child == MakeChild(args, r)
           name  == IF cls = NoName THEN x ELSE Mangled[cls][x][1]
           ops   == IF y = NoName THEN << >> ELSE <<t.next>>
           c     == Len(child.parent)
<1>1. Grown(t, args) /\ Good(args) /\ r \in ScopesOf(args)
  <2>1. CASE y = NoName
    BY <2>1, ExtendsRefl DEF Grown
  <2>2. CASE y # NoName
    BY <2>2, RegIdentGrown DEF Inserted, Grown
  <2> QED BY <2>1, <2>2
<1> HIDE DEF args
<1>2. Grown(args, child) /\ Good(child) /\ r \in ScopesOf(child) /\ c \in Nat
  <2>1. Grown(args, child)
    BY <1>1, NewScopeGrown
  <2>2. Good(child) /\ r \in ScopesOf(child)
    BY <1>1, <2>1 DEF Grown
  <2> QED BY <2>1, <2>2, GoodNumbers
<1> HIDE DEF child, c
<1>3. /\ "Call" \in Tags /\ NoName \in Names \cup {NoName}
      /\ name \in Names \cup {NoName} /\ <<c>> \in Seq(Nat) /\ ops \in Seq(Nat)
  BY <1>2, GoodNumbers, MangledName, ProgramAssumption DEF Tags
<1> HIDE DEF ops, name
<1>4. Grown(child, Insert(child, r, NewEntry("Call", NoName, name, <<c>>, ops)))
  BY <1>2, <1>3, InsertNew DEF Inserted
<1>5. RegSelfCall(t, r, cls, x, y) =
        Insert(child, r, NewEntry("Call", NoName, name, <<c>>, ops))
  BY DEF RegSelfCall, child, c, args, ops, name
<1>6. Grown(t, child)
  BY <1>1, <1>2, GrownTrans
<1> QED BY <1>4, <1>5, <1>6, GrownTrans

LEMMA RegMakeGrown ==
  ASSUME NEW t, Good(t), NEW r \in ScopesOf(t), NEW x \in Idents \cup {NoName},
         NEW y \in Idents \cup {NoName}
  PROVE  Grown(t, RegMake(t, r, x, y))
<1> DEFINE field == RegIdent(t, r, y)
<1>1. Grown(t, field) /\ r \in ScopesOf(field) /\ Good(field)
  BY RegIdentGrown DEF Inserted, Grown
<1> HIDE DEF field
<1>2. /\ "StructCall" \in Tags /\ NoName \in Names \cup {NoName}
      /\ x \in Names \cup {NoName} /\ << >> \in Seq(Nat) /\ <<t.next>> \in Seq(Nat)
  BY GoodNumbers, ProgramAssumption DEF Tags
<1>3. Grown(field, Insert(field, r, NewEntry("StructCall", NoName, x, << >>,
                                             <<t.next>>)))
  BY <1>1, <1>2, InsertNew DEF Inserted
<1>4. RegMake(t, r, x, y) =
        Insert(field, r, NewEntry("StructCall", NoName, x, << >>, <<t.next>>))
  BY DEF RegMake, field
<1> QED BY <1>1, <1>3, <1>4, GrownTrans

(* An entry that keeps a pointer is inserted like any other.               *)
LEMMA InsertPointer ==
  ASSUME NEW t, Good(t), NEW r \in ScopesOf(t), NEW tag \in Tags,
         NEW ref \in Names \cup {NoName}, NEW id \in Nat, NEW g \in Nat
  PROVE  Grown(t, Insert(t, r, [NewEntry(tag, NoName, ref, << >>, <<id>>)
                                  EXCEPT !.gen = g]))
<1> DEFINE e == [NewEntry(tag, NoName, ref, << >>, <<id>>) EXCEPT !.gen = g]
<1>1. NewEntry(tag, NoName, ref, << >>, <<id>>) \in Entry
  <2>1. NoName \in Names \cup {NoName} /\ << >> \in Seq(Nat) /\ <<id>> \in Seq(Nat)
    OBVIOUS
  <2> QED BY <2>1, NewEntryType
<1>2. e \in Entry
  BY <1>1 DEF Entry
<1> HIDE DEF e
<1>3. Grown(t, Insert(t, r, e))
  BY <1>2, InsertGood DEF Grown
<1> QED BY <1>3 DEF e

LEMMA RegCastGrown ==
  ASSUME NEW t, Good(t), NEW r \in ScopesOf(t), NEW x \in Idents \cup {NoName}
  PROVE  Grown(t, RegCast(t, r, x))
<1> DEFINE inner == RegIdent(t, r, x)
<1>1. Grown(t, inner) /\ r \in ScopesOf(inner) /\ Good(inner)
  BY RegIdentGrown DEF Inserted, Grown
<1>2. /\ "Cast" \in Tags /\ NoName \in Names \cup {NoName}
      /\ << >> \in Seq(Nat) /\ <<t.next>> \in Seq(Nat)
  BY GoodNumbers DEF Tags
<1> HIDE DEF inner
<1>3. Grown(inner, Insert(inner, r, NewEntry("Cast", NoName, NoName, << >>, <<t.next>>)))
  BY <1>1, <1>2, InsertNew DEF Inserted
<1>4. RegCast(t, r, x) =
        Insert(inner, r, NewEntry("Cast", NoName, NoName, << >>, <<t.next>>))
  BY DEF RegCast, inner
<1> QED BY <1>1, <1>3, <1>4, GrownTrans

LEMMA RegClassCallGrown ==
  ASSUME NEW t, Good(t), NEW r \in ScopesOf(t), NEW x \in Idents, NEW y \in Idents
  PROVE  Grown(t, RegClassCall(t, r, x, y))
<1>1. Mangled[x][y] \in Seq(Names) \ {<< >>}
  BY ProgramAssumption
<1>2. Mangled[x][y][1] \in Names
  BY <1>1
<1> QED BY <1>2, RegCallGrown DEF RegClassCall

LEMMA RegUnaryGrown ==
  ASSUME NEW tag \in Tags, NEW t, Good(t), NEW r \in ScopesOf(t),
         NEW x \in Idents \cup {NoName}
  PROVE  Grown(t, RegUnary(tag, t, r, x))
<1> DEFINE operand == RegIdent(t, r, x)
           g == operand.table[r].cap
<1>1. Grown(t, operand) /\ r \in ScopesOf(operand) /\ Good(operand)
  BY RegIdentGrown DEF Inserted, Grown
<1>2. g \in Nat
  BY <1>1 DEF Good, TablesType
<1>3. t.next \in Nat /\ NoName \in Names \cup {NoName}
  BY GoodNumbers
<1> HIDE DEF operand, g
<1>4. Grown(operand, Insert(operand, r,
               [NewEntry(tag, NoName, NoName, << >>, <<t.next>>)
                  EXCEPT !.gen = g]))
  BY <1>1, <1>2, <1>3, InsertPointer
<1>5. RegUnary(tag, t, r, x) =
        Insert(operand, r, [NewEntry(tag, NoName, NoName, << >>, <<t.next>>)
                              EXCEPT !.gen = g])
  BY DEF RegUnary, operand, g
<1> QED BY <1>1, <1>4, <1>5, GrownTrans

LEMMA RegFieldGrown ==
  ASSUME NEW t, Good(t), NEW r \in ScopesOf(t), NEW x \in Idents \cup {NoName},
         NEW y \in Idents \cup {NoName}
  PROVE  Grown(t, RegField(t, r, x, y))
<1>1. LocalId(t, r, x) \in Nat /\ t.table[r].cap \in Nat
  <2>1. \A z \in DOMAIN t.table[r].names : t.table[r].names[z] \in Entry
    BY DEF Good, TablesType
  <2>2. \A z \in DOMAIN t.table[r].names : t.table[r].names[z].eid \in Nat
    BY <2>1 DEF Entry
  <2> QED BY <2>2 DEF Good, TablesType, LocalId
<1>2. "Field" \in Tags /\ y \in Names \cup {NoName}
  BY ProgramAssumption DEF Tags
<1> QED BY <1>1, <1>2, InsertPointer DEF RegField

(* register_expr, whichever of its cases runs.                             *)
LEMMA RegExprGrown ==
  ASSUME NEW t, Good(t), NEW r \in ScopesOf(t), NEW cls \in Idents \cup {NoName},
         NEW e \in ExprShapes, NamesCallee(e),
         NEW u \in RegExpr(t, r, cls, e)
  PROVE  Grown(t, u)
<1>1. /\ e.x \in Idents \cup {NoName} /\ e.y \in Idents \cup {NoName}
      /\ e.k \in {"Null", "Literal", "Ident", "BinaryOp", "Chain", "Index",
                 "Call", "SelfCall", "ClassCall", "Make", "Unary", "AddrOf",
                 "Cast", "Field", "Builtin"}
      /\ {"BinaryOp", "Index", "Unary", "AddrOf"} \subseteq Tags
  BY DEF ExprShapes, Tags
<1>2. CASE e.k \in {"Null", "Builtin"}
  BY <1>2, ExtendsRefl DEF RegExpr, Grown
<1>3. CASE e.k = "Literal"
  BY <1>3, RegLiteralGrown DEF RegExpr, Inserted
<1>4. CASE e.k = "Ident"
  BY <1>1, <1>4, RegIdentGrown DEF RegExpr, Inserted
<1>5. CASE e.k \in {"BinaryOp", "Index"}
  BY <1>1, <1>5, RegBinaryGrown DEF RegExpr
<1>6. CASE e.k = "Chain"
  BY <1>1, <1>6, RegChainGrown DEF RegExpr
<1>7. CASE e.k = "Call"
  <2>1. e.x \in Names \cup {NoName}
    BY <1>1, ProgramAssumption
  <2> QED BY <1>1, <1>7, <2>1, RegCallGrown DEF RegExpr
<1>8. CASE e.k = "SelfCall"
  BY <1>1, <1>8, RegSelfCallGrown DEF RegExpr, NamesCallee
<1>9. CASE e.k = "Make"
  BY <1>1, <1>9, RegMakeGrown DEF RegExpr
<1>10. CASE e.k \in {"Unary", "AddrOf"}
  BY <1>1, <1>10, RegUnaryGrown DEF RegExpr
<1>11. CASE e.k = "Field"
  BY <1>1, <1>11, RegFieldGrown DEF RegExpr
<1>12. CASE e.k = "ClassCall"
  <2>1. e.x \in Idents /\ e.y \in Idents
    BY <1>1, <1>12 DEF NamesCallee
  <2> QED BY <1>12, <2>1, RegClassCallGrown DEF RegExpr
<1>13. CASE e.k = "Cast"
  BY <1>1, <1>13, RegCastGrown DEF RegExpr
<1> QED BY <1>1, <1>2, <1>3, <1>4, <1>5, <1>6, <1>7, <1>8, <1>9, <1>10, <1>11,
           <1>12, <1>13

-------------------------------------------------------------------------------
(* Steps                                                                   *)

(* The inductive invariant: TypeOK alone is not inductive, because an id   *)
(* is only known to be fresh, and a name to be bound to the earliest of    *)
(* its entries, together with the rest of Good.                            *)
IInv ==
  /\ Good(T)
  /\ StackOK(stack, T)
  /\ lost \subseteq ScopesOf(T)

(* What every step of the pass does.                                       *)
StepOK ==
  /\ Grown(T, T')
  /\ StackOK(stack', T')
  /\ lost' \subseteq ScopesOf(T')

LEMMA TopFacts ==
  ASSUME IInv, stack # << >>
  PROVE  /\ Top \in FrameType(T) /\ FrameShape(Top)
         /\ Top.reg \in ScopesOf(T) /\ Top.out \in ScopesOf(T)
         /\ Top.cls \in Idents \cup {NoName} /\ Top.name \in Names \cup {NoName}
         /\ Top.kids \in Seq(ScopesOf(T)) /\ Top.ops \in Seq(Nat)
         /\ Top.todo \in Seq(Headers) /\ Top.full \in BOOLEAN
<1>1. Top \in FrameType(T) /\ FrameShape(Top)
  BY StackTop DEF IInv, Top
<1> QED BY <1>1 DEF FrameType

(* Scopes are numbers.                                                     *)
LEMMA SeqNat ==
  ASSUME NEW t, NEW s \in Seq(ScopesOf(t))
  PROVE  s \in Seq(Nat)
BY DEF ScopesOf

(* A frame that no scope is missing for.                                   *)
LEMMA NewFrame ==
  ASSUME NEW t, NEW kind \in FrameKinds, NEW reg \in ScopesOf(t),
         NEW out \in ScopesOf(t), NEW cls \in Idents \cup {NoName},
         NEW name \in Names \cup {NoName}, NEW kids \in Seq(ScopesOf(t)),
         NEW ops \in Seq(Nat), NEW todo \in Seq(Headers),
         kind \in {"Class", "Method"} => cls \in Idents,
         kind \in {"If", "Elif"} => Len(kids) = 3
  PROVE  /\ Frame(kind, reg, out, cls, name, kids, ops, todo) \in FrameType(t)
         /\ FrameShape(Frame(kind, reg, out, cls, name, kids, ops, todo))
BY DEF Frame, FrameType, FrameShape

LEMMA NoGrowth == ASSUME IInv, UNCHANGED T PROVE Grown(T, T')
BY ExtendsRefl DEF IInv, Grown

LEMMA KeepStack ==
  ASSUME IInv, Grown(T, T'), UNCHANGED <<stack, lost>>
  PROVE  StepOK
<1>1. StackOK(stack, T')
  BY StackGrow DEF IInv, Grown
<1> QED BY <1>1 DEF IInv, StepOK, Grown

LEMMA TopChanged ==
  ASSUME IInv, Grown(T, T'), stack # << >>, NEW f \in FrameType(T'), FrameShape(f),
         SetTop(f), UNCHANGED lost
  PROVE  StepOK
<1>1. StackOK(stack, T')
  BY StackGrow DEF IInv, Grown
<1>2. StackOK(stack', T')
  BY <1>1, StackSetTop DEF SetTop
<1> QED BY <1>2 DEF IInv, StepOK, Grown

LEMMA Pushed ==
  ASSUME IInv, Grown(T, T'), NEW f \in FrameType(T'), FrameShape(f),
         Push(f), UNCHANGED lost
  PROVE  StepOK
<1>1. StackOK(stack, T')
  BY StackGrow DEF IInv, Grown
<1>2. StackOK(stack', T')
  BY <1>1, StackPush DEF Push
<1> QED BY <1>2 DEF IInv, StepOK, Grown

LEMMA Popped ==
  ASSUME IInv, Grown(T, T'), stack # << >>, Pop, UNCHANGED lost
  PROVE  StepOK
<1>1. StackOK(stack, T')
  BY StackGrow DEF IInv, Grown
<1>2. StackOK(stack', T')
  BY <1>1, StackPop DEF Pop
<1> QED BY <1>2 DEF IInv, StepOK, Grown

(* A handler's own entry.                                                  *)
LEMMA Closed ==
  ASSUME IInv, stack # << >>, NEW tag \in Tags, Close(tag)
  PROVE  StepOK
<1>1. /\ Top.out \in ScopesOf(T) /\ Top.name \in Names \cup {NoName}
      /\ Top.kids \in Seq(Nat) /\ Top.ops \in Seq(Nat)
  BY TopFacts, SeqNat
<1>2. Good(T) /\ NoName \in Names \cup {NoName}
  BY DEF IInv
<1>3. Grown(T, T')
  BY <1>1, <1>2, InsertNew DEF Close, Inserted
<1> QED BY <1>3, Popped DEF Close

(* A handler that opens a body in a fresh child.                           *)
LEMMA Entered ==
  ASSUME IInv, NEW r \in ScopesOf(T), NEW f, Enter(r, f),
         ASSUME Grown(T, T'), NewScope \in ScopesOf(T')
         PROVE  f \in FrameType(T') /\ FrameShape(f)
  PROVE  StepOK
<1>1. Grown(T, T') /\ NewScope \in ScopesOf(T')
  BY NewScopeGrown DEF IInv, Enter, NewScope
<1>2. f \in FrameType(T') /\ FrameShape(f)
  BY <1>1
<1> QED BY <1>1, <1>2, Pushed DEF Enter

(* An expression of the program, registered for the innermost handler.     *)
LEMMA ProgramExprGrown ==
  ASSUME NEW t, Good(t), NEW r \in ScopesOf(t), NEW cls \in Idents \cup {NoName},
         NEW e \in Exprs \cup Targets \cup {NoExpr, ZeroedExpr},
         NEW u \in RegExpr(t, r, cls, e)
  PROVE  Grown(t, u)
<1>1. e \in ExprShapes /\ NamesCallee(e)
  BY ProgramAssumption DEF NoExpr, ZeroedExpr, ExprShapes, Targets, NamesCallee
<1> QED BY <1>1, RegExprGrown

(* An expression and then an entry that keeps it.                          *)
LEMMA ExprThenEntry ==
  ASSUME IInv, stack # << >>, NEW e \in Exprs \cup {NoExpr},
         NEW t \in RegExpr(T, Top.reg, Top.cls, e), NEW tag \in Tags,
         NEW name \in Names \cup {NoName}
  PROVE  Grown(T, Insert(t, Top.reg,
                         NewEntry(tag, name, NoName, << >>, <<ExprId(T, t)>>)))
<1>1. Good(T) /\ Top.reg \in ScopesOf(T) /\ Top.cls \in Idents \cup {NoName}
  BY TopFacts DEF IInv
<1>2. Grown(T, t) /\ Good(t) /\ Top.reg \in ScopesOf(t)
  BY <1>1, ProgramExprGrown DEF Grown
<1>3. /\ NoName \in Names \cup {NoName} /\ << >> \in Seq(Nat)
      /\ <<ExprId(T, t)>> \in Seq(Nat)
  BY <1>2, ExprIdNat
<1>4. Grown(t, Insert(t, Top.reg,
                      NewEntry(tag, name, NoName, << >>, <<ExprId(T, t)>>)))
  BY <1>2, <1>3, InsertNew DEF Inserted
<1> QED BY <1>1, <1>2, <1>4, GrownTrans

LEMMA VarStep ==
  ASSUME IInv, NEW x \in Idents, NEW e \in Exprs, RegisterVar(x, e)
  PROVE  StepOK
<1>1. stack # << >> /\ UNCHANGED <<stack, lost>>
  BY DEF RegisterVar, Leaf, Stmt
<1>2. /\ Good(T) /\ Top.reg \in ScopesOf(T) /\ Top.cls \in Idents \cup {NoName}
      /\ "Var" \in Tags /\ x \in Names \cup {NoName} /\ NoName \in Names \cup {NoName}
      /\ << >> \in Seq(Nat) /\ <<0>> \in Seq(Nat)
  BY <1>1, TopFacts, ProgramAssumption DEF IInv, Tags
<1>3. CASE e.k = "Null"
  <2>1. T' = Insert(T, Top.reg, NewEntry("Var", x, NoName, << >>, <<0>>))
    BY <1>3 DEF RegisterVar
  <2>2. Grown(T, T')
    BY <1>2, <2>1, InsertNew DEF Inserted
  <2> QED BY <1>1, <2>2, KeepStack
<1>4. CASE e.k # "Null"
  <2> DEFINE child == MakeChild(T, Top.reg)
             c     == Len(child.parent)
  <2>1. PICK t \in RegExpr(child, c, Top.cls, e) :
          T' = Insert(t, Top.reg, NewEntry("Var", x, NoName, <<c>>, <<ExprId(T, t)>>))
    BY <1>4 DEF RegisterVar
  <2>2. Grown(T, child) /\ c = Len(T.parent) + 1 /\ c \in ScopesOf(child)
    BY <1>2, NewScopeGrown
  <2>3. Good(child) /\ c \in Nat
    BY <2>2, GoodNumbers DEF Grown
  <2> HIDE DEF child, c
  <2>4. Grown(child, t)
    BY <1>2, <2>1, <2>2, <2>3, ProgramExprGrown
  <2>5. Grown(T, t)
    BY <1>2, <2>2, <2>4, GrownTrans
  <2>6. Good(t) /\ Top.reg \in ScopesOf(t)
    BY <1>2, <2>5 DEF Grown
  <2>7. <<ExprId(T, t)>> \in Seq(Nat) /\ <<c>> \in Seq(Nat)
    BY <2>3, <2>6, ExprIdNat
  <2>8. Grown(t, T')
    BY <1>2, <2>1, <2>6, <2>7, InsertNew DEF Inserted
  <2>9. Grown(T, T')
    BY <1>2, <2>5, <2>8, GrownTrans
  <2> QED BY <1>1, <2>9, KeepStack
<1> QED BY <1>3, <1>4

LEMMA LetStep ==
  ASSUME IInv, NEW kind \in {"Let", "Const"}, NEW x \in Idents, NEW e \in Exprs,
         RegisterLet(kind, x, e)
  PROVE  StepOK
<1>1. stack # << >> /\ UNCHANGED <<stack, lost>>
  BY DEF RegisterLet, Leaf, Stmt
<1>2. /\ Good(T) /\ Top.reg \in ScopesOf(T) /\ Top.cls \in Idents \cup {NoName}
      /\ kind \in Tags /\ x \in Names \cup {NoName} /\ NoName \in Names \cup {NoName}
  BY <1>1, TopFacts, ProgramAssumption DEF IInv, Tags
<1>3. PICK t \in RegExpr(T, Top.reg, Top.cls, LetInit(e)) :
        T' = Insert(t, Top.reg,
                    [NewEntry(kind, x, NoName, << >>, <<ExprId(T, t)>>)
                       EXCEPT !.gen = t.table[Top.reg].cap])
  BY DEF RegisterLet
<1>4. LetInit(e) \in Exprs \cup {NoExpr}
  BY DEF LetInit
<1>5. Grown(T, t) /\ Good(t) /\ Top.reg \in ScopesOf(t)
  BY <1>2, <1>3, <1>4, ProgramExprGrown DEF Grown
<1>6. t.table[Top.reg].cap \in Nat
  BY <1>5 DEF Good, TablesType
<1>7. <<ExprId(T, t)>> \in Seq(Nat) /\ << >> \in Seq(Nat)
  BY <1>5, ExprIdNat
<1>8. NewEntry(kind, x, NoName, << >>, <<ExprId(T, t)>>) \in Entry
  BY <1>2, <1>7, NewEntryType
<1>9. [NewEntry(kind, x, NoName, << >>, <<ExprId(T, t)>>)
         EXCEPT !.gen = t.table[Top.reg].cap] \in Entry
  BY <1>6, <1>8 DEF Entry
<1>10. Good(T') /\ Extends(t, T') /\ ScopesOf(T') = ScopesOf(t)
  BY <1>3, <1>5, <1>9, InsertGood
<1>11. Grown(T, T')
  BY <1>2, <1>5, <1>10, GrownTrans DEF Grown
<1> QED BY <1>1, <1>11, KeepStack

LEMMA AssignStep ==
  ASSUME IInv, NEW d \in Targets, NEW e \in Exprs, RegisterAssign(d, e)
  PROVE  StepOK
<1>1. stack # << >> /\ UNCHANGED <<stack, lost>>
  BY DEF RegisterAssign, Leaf, Stmt
<1>2. /\ Good(T) /\ Top.reg \in ScopesOf(T) /\ Top.cls \in Idents \cup {NoName}
      /\ "Assign" \in Tags /\ NoName \in Names \cup {NoName} /\ << >> \in Seq(Nat)
  BY <1>1, TopFacts DEF IInv, Tags
<1>a. PICK target \in RegExpr(T, Top.reg, Top.cls, d) :
        \E t \in RegExpr(target, Top.reg, Top.cls, e) :
          \E targetId \in Held(target, t, Top.reg, ExprId(T, target)) :
            T' = Insert(t, Top.reg, NewEntry("Assign", NoName, NoName, << >>,
                                             <<targetId, ExprId(target, t)>>))
  BY DEF RegisterAssign
<1>3. PICK t \in RegExpr(target, Top.reg, Top.cls, e) :
        \E targetId \in Held(target, t, Top.reg, ExprId(T, target)) :
          T' = Insert(t, Top.reg, NewEntry("Assign", NoName, NoName, << >>,
                                           <<targetId, ExprId(target, t)>>))
  BY <1>a
<1>4. Grown(T, target) /\ Good(target) /\ Top.reg \in ScopesOf(target)
  BY <1>2, ProgramExprGrown DEF Grown
<1>5. Grown(target, t) /\ Good(t) /\ Top.reg \in ScopesOf(t)
  BY <1>2, <1>3, <1>4, ProgramExprGrown DEF Grown
<1>6. PICK targetId \in Held(target, t, Top.reg, ExprId(T, target)) :
        T' = Insert(t, Top.reg, NewEntry("Assign", NoName, NoName, << >>,
                                         <<targetId, ExprId(target, t)>>))
  BY <1>3
<1>7. targetId \in Nat /\ ExprId(target, t) \in Nat
  <2>1. ExprId(T, target) \in Nat /\ ExprId(target, t) \in Nat
    BY <1>4, <1>5, ExprIdNat
  <2> QED BY <1>5, <1>6, <2>1, HeldNat
<1>8. <<targetId, ExprId(target, t)>> \in Seq(Nat)
  BY <1>7
<1>9. Grown(t, T')
  BY <1>2, <1>5, <1>6, <1>8, InsertNew DEF Inserted
<1>10. Grown(T, t)
  BY <1>2, <1>4, <1>5, GrownTrans
<1>11. Grown(T, T')
  BY <1>2, <1>9, <1>10, GrownTrans
<1> QED BY <1>1, <1>11, KeepStack

LEMMA LeafStmtStep ==
  ASSUME IInv, LeafStmt
  PROVE  StepOK
<1>1. stack # << >>
  BY DEF LeafStmt, RegisterStruct, RegisterEnum, RegisterVar, RegisterAssign,
         RegisterLet, RegisterReturn, RegisterExprStmt, RegisterAtomic, SkipLocal,
         SkipElse, Leaf, Stmt
<1>2. /\ Good(T) /\ Top.reg \in ScopesOf(T)
      /\ {"Struct", "Enum", "Return", "ExprStmt", "Atomic"} \subseteq Tags
      /\ NoName \in Names \cup {NoName} /\ Idents \subseteq Names \cup {NoName}
      /\ << >> \in Seq(Nat)
  BY <1>1, TopFacts, ProgramAssumption DEF IInv, Tags
<1>3. ASSUME NEW x \in Idents, RegisterStruct(x) PROVE StepOK
  <2>1. Grown(T, T')
    BY <1>2, <1>3, InsertNew DEF RegisterStruct, Inserted
  <2> QED BY <1>3, <2>1, KeepStack DEF RegisterStruct, Leaf
<1>4. ASSUME NEW x \in Idents, RegisterEnum(x) PROVE StepOK
  <2>1. Grown(T, T')
    BY <1>2, <1>4, InsertNew DEF RegisterEnum, Inserted
  <2> QED BY <1>4, <2>1, KeepStack DEF RegisterEnum, Leaf
<1>5. ASSUME NEW e \in Exprs, RegisterReturn(e) PROVE StepOK
  <2>1. Grown(T, T')
    BY <1>1, <1>2, <1>5, ExprThenEntry DEF RegisterReturn
  <2> QED BY <1>5, <2>1, KeepStack DEF RegisterReturn, Leaf
<1>6. ASSUME NEW e \in Exprs, RegisterExprStmt(e) PROVE StepOK
  <2>1. Grown(T, T')
    BY <1>1, <1>2, <1>6, ExprThenEntry DEF RegisterExprStmt
  <2> QED BY <1>6, <2>1, KeepStack DEF RegisterExprStmt, Leaf
<1>7. CASE RegisterAtomic
  <2> DEFINE u == RegLiteral(T, Top.reg)
  <2>1. Grown(T, u) /\ Good(u) /\ Top.reg \in ScopesOf(u)
    BY <1>2, RegLiteralGrown DEF Inserted, Grown
  <2>2. T' = Insert(u, Top.reg, NewEntry("Atomic", NoName, NoName, << >>, << >>))
    BY <1>7 DEF RegisterAtomic
  <2> HIDE DEF u
  <2>3. Grown(u, T')
    BY <1>2, <2>1, <2>2, InsertNew DEF Inserted
  <2>4. Grown(T, T')
    BY <1>2, <2>1, <2>3, GrownTrans
  <2> QED BY <1>7, <2>4, KeepStack DEF RegisterAtomic, Leaf
<1>8. CASE SkipLocal
  <2>1. Grown(T, T') /\ T' = T
    BY <1>8, NoGrowth DEF SkipLocal
  <2> QED BY <1>2, <1>8, <2>1 DEF SkipLocal, StepOK, IInv
<1>9. CASE SkipElse
  <2>1. Grown(T, T') /\ T' = T
    BY <1>9, NoGrowth DEF SkipElse
  <2> DEFINE f == [Top EXCEPT !.full = TRUE]
  <2>2. f \in FrameType(T) /\ FrameShape(f)
    BY <1>1, TopFacts DEF FrameType, FrameShape
  <2>3. StackOK(stack', T')
    BY <1>1, <1>9, <2>1, <2>2, StackSetTop DEF SkipElse, SetTop, IInv
  <2> QED BY <1>2, <1>9, <2>1, <2>3 DEF SkipElse, StepOK, IInv
<1> QED BY <1>3, <1>4, <1>5, <1>6, <1>7, <1>8, <1>9, VarStep, LetStep, AssignStep
        DEF LeafStmt

LEMMA HeaderTop ==
  ASSUME IInv, Grown(T, T'), stack # << >>, Top.todo # << >>, HeaderDone
  PROVE  StepOK
<1> DEFINE f == [Top EXCEPT !.todo = Tail(@)]
<1>1. Top \in FrameType(T') /\ FrameShape(Top)
  BY TopFacts, FrameGrow DEF Grown
<1>2. Tail(Top.todo) \in Seq(Headers)
  BY TopFacts
<1>3. f \in FrameType(T') /\ FrameShape(f)
  BY <1>1, <1>2 DEF FrameType, FrameShape
<1>4. SetTop(f) /\ UNCHANGED lost
  BY DEF HeaderDone
<1> QED BY <1>3, <1>4, TopChanged

LEMMA HeaderStep ==
  ASSUME IInv, Header
  PROVE  StepOK
<1>1. stack # << >> /\ Top.todo # << >> /\ HeaderDone
  BY DEF Header, RegisterParam, RegisterField, RegisterExternFunc,
         RegisterParamExpr, NextHeader
<1>2. /\ Good(T) /\ Top.reg \in ScopesOf(T)
      /\ {"Param", "Var", "ExternFunc"} \subseteq Tags
      /\ NoName \in Names \cup {NoName} /\ Idents \subseteq Names \cup {NoName}
      /\ << >> \in Seq(Nat) /\ <<0>> \in Seq(Nat)
  BY <1>1, TopFacts, ProgramAssumption DEF IInv, Tags
<1>3. ASSUME NEW x \in Idents, RegisterParam(x) PROVE Grown(T, T')
  BY <1>2, <1>3, InsertNew DEF RegisterParam, Inserted
<1>4. ASSUME NEW x \in Idents, RegisterField(x) PROVE Grown(T, T')
  BY <1>2, <1>4, InsertNew DEF RegisterField, Inserted
<1>5. ASSUME NEW x \in Idents, RegisterExternFunc(x) PROVE Grown(T, T')
  BY <1>2, <1>5, InsertNew DEF RegisterExternFunc, Inserted
<1>6. ASSUME RegisterParamExpr PROVE Grown(T, T')
  BY <1>2, <1>6, ProgramExprGrown DEF RegisterParamExpr
<1>7. Grown(T, T')
  BY <1>3, <1>4, <1>5, <1>6 DEF Header
<1> QED BY <1>1, <1>7, HeaderTop

LEMMA HeaderSeqs ==
  ASSUME NEW p \in Nat
  PROVE  /\ Params(p) \in Seq(Headers)
         /\ FunctionHeader(p) \in Seq(Headers)
         /\ MethodHeader(p) \in Seq(Headers)
<1>1. Params(p) \in Seq(Headers) /\ ParamExprs(p) \in Seq(Headers)
  BY DEF Params, ParamExprs, Headers
<1>2. FunctionHeader(p) \in Seq(Headers)
  BY <1>1 DEF FunctionHeader
<1>3. MethodHeader(p) \in Seq(Headers)
  <2> DEFINE n == p * (p + 1)
  <2>1. n \in Nat
    OBVIOUS
  <2> HIDE DEF n
  <2>2. [i \in 1..n |-> IF i % (p + 1) = 1 THEN "P" ELSE "E"] \in Seq(Headers)
    BY <2>1 DEF Headers
  <2> QED BY <2>2 DEF MethodHeader, n
<1> QED BY <1>1, <1>2, <1>3

(* The frames of the handlers that make one child or none.                 *)
LEMMA BeginOneStep ==
  ASSUME IInv, NEW x \in Idents, NEW p \in Nat,
         \/ BeginFunction(x, p) \/ BeginClass(x, p) \/ BeginMethod(x, p)
         \/ BeginTrait(x) \/ BeginModule(x)
  PROVE  StepOK
<1>1. stack # << >>
  BY DEF BeginFunction, BeginClass, BeginMethod, BeginTrait,
         BeginModule, CompoundStmt, Stmt, BodyRead, Open
<1>2. /\ Top.reg \in ScopesOf(T) /\ FrameShape(Top)
      /\ x \in Names \cup {NoName} /\ x \in Idents \cup {NoName}
      /\ NoName \in Names \cup {NoName} /\ NoName \in Idents \cup {NoName}
      /\ << >> \in Seq(Nat) /\ << >> \in Seq(Headers)
  BY <1>1, TopFacts, ProgramAssumption
<1>3. ASSUME Grown(T, T'), NewScope \in ScopesOf(T')
      PROVE  /\ Top.reg \in ScopesOf(T') /\ << >> \in Seq(ScopesOf(T'))
             /\ <<NewScope>> \in Seq(ScopesOf(T'))
  BY <1>2, <1>3 DEF Grown
<1>4. CASE BeginFunction(x, p)
  <2> DEFINE f == Frame("Function", NewScope, Top.reg, NoName, x, <<NewScope>>,
                        << >>, FunctionHeader(p))
  <2>1. ASSUME Grown(T, T'), NewScope \in ScopesOf(T')
        PROVE  f \in FrameType(T') /\ FrameShape(f)
    BY <1>2, <1>3, <2>1, NewFrame, HeaderSeqs DEF FrameKinds
  <2>2. Enter(Top.reg, f)
    BY <1>4 DEF BeginFunction
  <2> QED BY <1>2, <2>1, <2>2, Entered
<1>5. CASE BeginMethod(x, p)
  <2>1. PICK k \in DOMAIN Mangled[Top.cls][x] :
          Enter(Top.reg, Frame("Method", NewScope, Top.reg, Top.cls,
                               Mangled[Top.cls][x][k], <<NewScope>>, << >>,
                               MethodHeader(p)))
    BY <1>5 DEF BeginMethod
  <2>2. Top.cls \in Idents
    BY <1>2, <1>5 DEF BeginMethod, BodyRead, Open, FrameShape
  <2> DEFINE name == Mangled[Top.cls][x][k]
             f == Frame("Method", NewScope, Top.reg, Top.cls, name, <<NewScope>>,
                        << >>, MethodHeader(p))
  <2>3. name \in Names
    BY <2>1, <2>2, MangledName
  <2>4. Enter(Top.reg, f)
    BY <2>1
  <2> HIDE DEF name
  <2>5. ASSUME Grown(T, T'), NewScope \in ScopesOf(T')
        PROVE  f \in FrameType(T') /\ FrameShape(f)
    BY <1>2, <1>3, <2>2, <2>3, <2>5, NewFrame, HeaderSeqs DEF FrameKinds
  <2> QED BY <1>2, <2>4, <2>5, Entered
<1>6. CASE BeginModule(x)
  <2> DEFINE f == Frame("Module", NewScope, Top.reg, NoName, x, << >>, << >>, << >>)
  <2>1. ASSUME Grown(T, T'), NewScope \in ScopesOf(T')
        PROVE  f \in FrameType(T') /\ FrameShape(f)
    BY <1>2, <1>3, <2>1, NewFrame DEF FrameKinds
  <2>2. Enter(Top.reg, f)
    BY <1>6 DEF BeginModule
  <2> QED BY <1>2, <2>1, <2>2, Entered
<1>7. CASE BeginClass(x, p)
  <2> DEFINE fields == [i \in 1..p |-> "V"]
             f == Frame("Class", Top.reg, Top.reg, x, x, << >>, << >>, fields)
  <2>1. UNCHANGED <<T, lost>> /\ Push(f) /\ fields \in Seq(Headers)
    BY <1>7 DEF BeginClass, Headers
  <2> HIDE DEF fields
  <2>2. Grown(T, T') /\ << >> \in Seq(ScopesOf(T')) /\ Top.reg \in ScopesOf(T')
    BY <1>2, <2>1, NoGrowth
  <2>3. f \in FrameType(T') /\ FrameShape(f)
    BY <1>2, <2>1, <2>2, NewFrame DEF FrameKinds
  <2> QED BY <2>1, <2>2, <2>3, Pushed
<1>8. CASE BeginTrait(x)
  <2> DEFINE f == Frame("Trait", Top.reg, Top.reg, NoName, x, << >>, << >>, << >>)
  <2>1. UNCHANGED <<T, lost>> /\ Push(f)
    BY <1>8 DEF BeginTrait
  <2>2. Grown(T, T') /\ << >> \in Seq(ScopesOf(T')) /\ Top.reg \in ScopesOf(T')
    BY <1>2, <2>1, NoGrowth
  <2>3. f \in FrameType(T') /\ FrameShape(f)
    BY <1>2, <2>2, NewFrame DEF FrameKinds
  <2> QED BY <2>1, <2>2, <2>3, Pushed
<1> QED BY <1>4, <1>5, <1>6, <1>7, <1>7, <1>8

LEMMA ExternStep ==
  ASSUME IInv, NEW abi \in Abis \cup {NoName}, BeginExtern(abi)
  PROVE  StepOK
<1> DEFINE f == Frame("Extern", NewScope, Top.reg, NoName, abi, <<NewScope>>, << >>, << >>)
<1>1. stack # << >> /\ Enter(Top.reg, f)
  BY DEF BeginExtern, CompoundStmt, Stmt, Open
<1>2. /\ Top.reg \in ScopesOf(T) /\ abi \in Names \cup {NoName}
      /\ << >> \in Seq(Nat) /\ << >> \in Seq(Headers)
  BY <1>1, TopFacts, ProgramAssumption
<1>3. ASSUME Grown(T, T'), NewScope \in ScopesOf(T')
      PROVE  f \in FrameType(T') /\ FrameShape(f)
  <2>1. Top.reg \in ScopesOf(T') /\ <<NewScope>> \in Seq(ScopesOf(T'))
    BY <1>2, <1>3 DEF Grown
  <2> QED BY <1>2, <1>3, <2>1, NewFrame DEF FrameKinds
<1> HIDE DEF f
<1> QED BY <1>1, <1>2, <1>3, Entered

LEMMA TraitMethodStep ==
  ASSUME IInv, NEW p \in Nat, BeginTraitMethod(p)
  PROVE  StepOK
<1> DEFINE f == Frame("TraitMethod", NewScope, Top.reg, NoName, NoName, << >>,
                      << >>, MethodHeader(p))
<1>1. stack # << >> /\ Enter(Top.reg, f)
  BY DEF BeginTraitMethod, Open
<1>2. Top.reg \in ScopesOf(T)
  BY <1>1, TopFacts
<1>3. ASSUME Grown(T, T'), NewScope \in ScopesOf(T')
      PROVE  f \in FrameType(T') /\ FrameShape(f)
  <2> HIDE DEF f
  <2>1. Top.reg \in ScopesOf(T') /\ << >> \in Seq(ScopesOf(T'))
    BY <1>2, <1>3 DEF Grown
  <2>2. MethodHeader(p) \in Seq(Headers) /\ << >> \in Seq(Nat)
    BY HeaderSeqs
  <2>3. NoName \in Names \cup {NoName} /\ NoName \in Idents \cup {NoName}
    OBVIOUS
  <2> QED BY <1>3, <2>1, <2>2, <2>3, NewFrame DEF FrameKinds, f
<1> HIDE DEF f
<1> QED BY <1>1, <1>2, <1>3, Entered

(* Statements with two or three blocks, whose head is registered at once.  *)
LEMMA IfStep ==
  ASSUME IInv, stack # << >>, NEW kind \in {"If", "Elif"}, NEW e \in Exprs,
         EnterIf(kind, e)
  PROVE  StepOK
<1> DEFINE n  == Len(T.parent)
           t1 == MakeChild(T, Top.reg)
           t2 == MakeChild(t1, Top.reg)
           t3 == MakeChild(t2, Top.reg)
           ks == <<n + 1, n + 2, n + 3>>
           ops == <<ExprId(t3, T')>>
           f  == Frame(kind, n + 2, Top.reg, Top.cls, NoName, ks, ops, << >>)
           s  == [stack EXCEPT ![Len(stack)].full = InElse(Top)]
<1>1. /\ T' \in RegExpr(t3, n + 1, Top.cls, e)
      /\ stack' = Append(s, f)
      /\ UNCHANGED lost
  BY DEF EnterIf
<1>2. /\ Good(T) /\ Top.reg \in ScopesOf(T) /\ Top.cls \in Idents \cup {NoName}
      /\ NoName \in Names \cup {NoName} /\ n \in Nat
  BY TopFacts, GoodNumbers DEF IInv
<1>3. /\ Grown(T, t1) /\ Good(t1) /\ Top.reg \in ScopesOf(t1)
      /\ Len(t1.parent) = n + 1 /\ n + 1 \in ScopesOf(t1)
  BY <1>2, NewScopeGrown DEF Grown
<1> HIDE DEF t1
<1>4. /\ Grown(t1, t2) /\ Good(t2) /\ Top.reg \in ScopesOf(t2)
      /\ Len(t2.parent) = n + 2 /\ {n + 1, n + 2} \subseteq ScopesOf(t2)
  <2>1. /\ Grown(t1, t2) /\ Len(t2.parent) = Len(t1.parent) + 1
        /\ Len(t1.parent) + 1 \in ScopesOf(t2)
    BY <1>3, NewScopeGrown
  <2>2. Len(t1.parent) + 1 = n + 2
    BY <1>2, <1>3
  <2> QED BY <1>3, <2>1, <2>2 DEF Grown
<1> HIDE DEF t2
<1>5. /\ Grown(t2, t3) /\ Good(t3) /\ {n + 1, n + 2, n + 3} \subseteq ScopesOf(t3)
  <2>1. /\ Grown(t2, t3) /\ Len(t2.parent) + 1 \in ScopesOf(t3)
    BY <1>4, NewScopeGrown
  <2>2. Len(t2.parent) + 1 = n + 3
    BY <1>2, <1>4
  <2> QED BY <1>4, <2>1, <2>2 DEF Grown
<1> HIDE DEF t3
<1>6. Grown(t3, T')
  BY <1>1, <1>2, <1>5, ProgramExprGrown
<1>7. Grown(T, t2)
  BY <1>2, <1>3, <1>4, GrownTrans
<1>8. Grown(T, t3)
  BY <1>2, <1>5, <1>7, GrownTrans
<1>9. Grown(T, T') /\ Good(T')
  BY <1>2, <1>6, <1>8, GrownTrans DEF Grown
<1>10. /\ n + 2 \in ScopesOf(T') /\ Top.reg \in ScopesOf(T')
       /\ ks \in Seq(ScopesOf(T')) /\ Len(ks) = 3
       /\ ops \in Seq(Nat) /\ << >> \in Seq(Headers)
  <2>1. {n + 1, n + 2, n + 3} \subseteq ScopesOf(T') /\ Top.reg \in ScopesOf(T')
    BY <1>2, <1>5, <1>6, <1>9 DEF Grown
  <2>2. ExprId(t3, T') \in Nat
    BY <1>9, ExprIdNat
  <2> QED BY <2>1, <2>2
<1> HIDE DEF ks, ops
<1>11. f \in FrameType(T') /\ FrameShape(f)
  BY <1>2, <1>10, NewFrame, ZenonT(30) DEF FrameKinds
<1>12. StackOK(s, T')
  <2> DEFINE g == [Top EXCEPT !.full = InElse(Top)]
  <2>1. s = [stack EXCEPT ![Len(stack)] = g]
    BY DEF Top
  <2>2. Top \in FrameType(T') /\ FrameShape(Top)
    BY <1>9, TopFacts, FrameGrow DEF Grown
  <2>3. InElse(Top) \in BOOLEAN
    BY DEF InElse
  <2>4. g \in FrameType(T') /\ FrameShape(g)
    BY <2>2, <2>3 DEF FrameType, FrameShape
  <2>5. StackOK(stack, T')
    BY <1>9, StackGrow DEF IInv, Grown
  <2> HIDE DEF g
  <2> QED BY <2>1, <2>4, <2>5, StackSetTop
<1> HIDE DEF f, s
<1>13. StackOK(stack', T')
  BY <1>1, <1>11, <1>12, StackPush
<1> QED BY <1>1, <1>9, <1>13 DEF IInv, StepOK, Grown

LEMMA BlockStep ==
  ASSUME IInv, NEW kind \in {"While", "For", "Match"}, NEW e \in Exprs,
         NEW full \in BOOLEAN, EnterBlock(kind, e, full)
  PROVE  StepOK
<1> DEFINE n  == Len(T.parent)
           t1 == MakeChild(T, Top.reg)
           t2 == MakeChild(t1, Top.reg)
           ks == <<n + 1, n + 2>>
           ops == <<ExprId(t2, T')>>
           f  == Frame(kind, n + 2, Top.reg, Top.cls, NoName, ks, ops, << >>)
           g  == [f EXCEPT !.full = full]
<1>1. /\ stack # << >>
      /\ T' \in RegExpr(t2, n + 1, Top.cls, e)
      /\ Push(g)
      /\ UNCHANGED lost
  BY DEF EnterBlock, CompoundStmt, Stmt
<1>2. /\ Good(T) /\ Top.reg \in ScopesOf(T) /\ Top.cls \in Idents \cup {NoName}
      /\ NoName \in Names \cup {NoName} /\ n \in Nat
  BY <1>1, TopFacts, GoodNumbers DEF IInv
<1>3. /\ Grown(T, t1) /\ Good(t1) /\ Top.reg \in ScopesOf(t1)
      /\ Len(t1.parent) = n + 1 /\ n + 1 \in ScopesOf(t1)
  BY <1>2, NewScopeGrown DEF Grown
<1> HIDE DEF t1
<1>4. /\ Grown(t1, t2) /\ Good(t2) /\ {n + 1, n + 2} \subseteq ScopesOf(t2)
  <2>1. Grown(t1, t2) /\ Len(t1.parent) + 1 \in ScopesOf(t2)
    BY <1>3, NewScopeGrown
  <2>2. Len(t1.parent) + 1 = n + 2
    BY <1>2, <1>3
  <2> QED BY <1>3, <2>1, <2>2 DEF Grown
<1> HIDE DEF t2
<1>5. Grown(t2, T')
  BY <1>1, <1>2, <1>4, ProgramExprGrown
<1>6. Grown(T, t2)
  BY <1>2, <1>3, <1>4, GrownTrans
<1>7. Grown(T, T') /\ Good(T')
  BY <1>2, <1>5, <1>6, GrownTrans DEF Grown
<1>8. /\ n + 2 \in ScopesOf(T') /\ Top.reg \in ScopesOf(T')
      /\ ks \in Seq(ScopesOf(T')) /\ ops \in Seq(Nat) /\ << >> \in Seq(Headers)
  <2>1. {n + 1, n + 2} \subseteq ScopesOf(T') /\ Top.reg \in ScopesOf(T')
    BY <1>2, <1>4, <1>5, <1>7 DEF Grown
  <2>2. ExprId(t2, T') \in Nat
    BY <1>7, ExprIdNat
  <2> QED BY <2>1, <2>2
<1> HIDE DEF ks, ops
<1>9. f \in FrameType(T') /\ FrameShape(f)
  BY <1>2, <1>8, NewFrame, ZenonT(30) DEF FrameKinds
<1> HIDE DEF f
<1>10. g \in FrameType(T') /\ FrameShape(g)
  BY <1>9 DEF FrameType, FrameShape
<1> HIDE DEF g
<1> QED BY <1>1, <1>7, <1>10, Pushed

LEMMA BeginStep ==
  ASSUME IInv, Begin
  PROVE  StepOK
<1>1. 0..MaxParams \subseteq Nat
  BY ProgramAssumption
<1>2. ASSUME NEW p \in 0..MaxParams, BeginExternFunc(p) PROVE StepOK
  <2> DEFINE f == [Top EXCEPT !.todo = Params(p) \o <<"F">>]
  <2>1. /\ stack # << >> /\ SetTop(f) /\ UNCHANGED <<T, lost>>
    BY <1>2 DEF BeginExternFunc, BodyRead, Open
  <2>2. Params(p) \o <<"F">> \in Seq(Headers)
    BY <1>1, HeaderSeqs DEF Headers
  <2>3. Top \in FrameType(T') /\ FrameShape(Top)
    BY <2>1, TopFacts, FrameGrow
  <2>4. f \in FrameType(T') /\ FrameShape(f)
    BY <2>2, <2>3 DEF FrameType, FrameShape
  <2>5. Grown(T, T')
    BY <2>1, NoGrowth
  <2> HIDE DEF f
  <2> QED BY <2>1, <2>4, <2>5, TopChanged
<1>3. ASSUME NEW e \in Exprs, BeginIf(e) \/ BeginElif(e) PROVE StepOK
  BY <1>3, IfStep DEF BeginIf, BeginElif, CompoundStmt, Stmt
<1>4. ASSUME NEW e \in Exprs, BeginWhile(e) \/ BeginFor(e) \/ BeginMatch(e)
      PROVE  StepOK
  BY <1>4, BlockStep DEF BeginWhile, BeginFor, BeginMatch
<1>5. CASE BeginElse
  <2> DEFINE f == [Top EXCEPT !.reg = Top.kids[3]]
  <2>1. /\ stack # << >> /\ SetTop(f) /\ UNCHANGED <<T, lost>>
        /\ Top.kind \in {"If", "Elif"}
    BY <1>5 DEF BeginElse, Open
  <2>2. Top \in FrameType(T') /\ FrameShape(Top)
    BY <2>1, TopFacts, FrameGrow
  <2>3. Top.kids \in Seq(ScopesOf(T')) /\ Len(Top.kids) = 3
    BY <2>1, <2>2 DEF FrameType, FrameShape
  <2>4. Top.kids[3] \in ScopesOf(T')
    BY <2>3
  <2>5. f \in FrameType(T') /\ FrameShape(f)
    BY <2>2, <2>4 DEF FrameType, FrameShape
  <2>6. Grown(T, T')
    BY <2>1, NoGrowth
  <2> HIDE DEF f
  <2> QED BY <2>1, <2>5, <2>6, TopChanged
<1>6. CASE BeginArm
  <2> DEFINE f == [Top EXCEPT !.reg = NewScope, !.kids = Append(@, NewScope),
                              !.full = FALSE]
  <2>1. /\ stack # << >> /\ SetTop(f) /\ UNCHANGED lost
        /\ T' = MakeChild(T, Top.out) /\ Top.kind = "Match"
    BY <1>6 DEF BeginArm, Open
  <2>2. Good(T) /\ Top.out \in ScopesOf(T)
    BY <2>1, TopFacts DEF IInv
  <2>3. Grown(T, T') /\ NewScope \in ScopesOf(T')
    BY <2>1, <2>2, NewScopeGrown DEF NewScope
  <2>4. Top \in FrameType(T') /\ FrameShape(Top)
    BY <2>1, <2>3, TopFacts, FrameGrow DEF Grown
  <2>5. Append(Top.kids, NewScope) \in Seq(ScopesOf(T'))
    BY <2>3, <2>4 DEF FrameType
  <2>6. f \in FrameType(T') /\ FrameShape(f)
    BY <2>1, <2>3, <2>4, <2>5 DEF FrameType, FrameShape
  <2> HIDE DEF f
  <2> QED BY <2>1, <2>3, <2>6, TopChanged
<1>7. ASSUME NEW x \in Idents, NEW p \in 0..MaxParams,
             BeginFunction(x, p) \/ BeginClass(x, p) \/ BeginMethod(x, p)
      PROVE  StepOK
  BY <1>1, <1>7, BeginOneStep
<1>8. ASSUME NEW x \in Idents, BeginTrait(x) \/ BeginModule(x) PROVE StepOK
  BY <1>8, BeginOneStep, 0 \in Nat
<1>9. ASSUME NEW p \in 0..MaxParams, BeginTraitMethod(p) PROVE StepOK
  BY <1>1, <1>9, TraitMethodStep
<1> QED BY <1>2, <1>3, <1>4, <1>5, <1>6, <1>7, <1>8, <1>9, ExternStep DEF Begin

LEMMA EndStep ==
  ASSUME IInv, End
  PROVE  StepOK
<1>1. stack # << >>
  BY DEF End, EndFunction, EndMethod, EndClass, EndTraitMethod, EndTrait, EndModule,
         EndExtern, EndIf, EndElif, EndWhile, EndFor, EndMatch, EndBody, BodyRead, Open
<1>2. ASSUME NEW tag \in Tags, Close(tag) PROVE StepOK
  BY <1>1, <1>2, Closed
<1>3. ASSUME Pop, UNCHANGED <<T, lost>> PROVE StepOK
  BY <1>1, <1>3, NoGrowth, Popped
<1>4. \/ \E tag \in Tags : Close(tag)
      \/ Pop /\ UNCHANGED <<T, lost>>
  BY DEF End, EndFunction, EndMethod, EndClass, EndTraitMethod, EndTrait, EndModule,
         EndExtern, EndIf, EndElif, EndWhile, EndFor, EndMatch, EndBody, Tags
<1> QED BY <1>2, <1>3, <1>4

-------------------------------------------------------------------------------
(* The theorems                                                            *)

LEMMA StepPreserves ==
  ASSUME IInv, [Next]_vars
  PROVE  StepOK
<1>1. CASE UNCHANGED vars
  <2>1. Grown(T, T') /\ UNCHANGED <<stack, lost>>
    BY <1>1, NoGrowth DEF vars
  <2> QED BY <2>1, KeepStack
<1> QED BY <1>1, LeafStmtStep, HeaderStep, BeginStep, EndStep
        DEF Next, Register, Terminated

LEMMA InitIInv == Init => IInv
<1> SUFFICES ASSUME Init PROVE IInv
  OBVIOUS
<1>1. Good(T) /\ lost = {}
  BY InitGood DEF Init
<1>2. 1 \in ScopesOf(T)
  BY DEF Init, InitTables, ScopesOf
<1>3. StackOK(<< >>, T)
  BY DEF StackOK
<1> DEFINE f == Frame("Root", 1, 1, NoName, NoName, << >>, << >>, << >>)
<1>4. f \in FrameType(T) /\ FrameShape(f)
  <2>1. /\ << >> \in Seq(ScopesOf(T)) /\ << >> \in Seq(Nat) /\ << >> \in Seq(Headers)
        /\ NoName \in Names \cup {NoName} /\ NoName \in Idents \cup {NoName}
    OBVIOUS
  <2> QED BY <1>2, <2>1, NewFrame DEF FrameKinds
<1>5. stack = Append(<< >>, f)
  BY DEF Init
<1> HIDE DEF f
<1>6. StackOK(stack, T)
  BY <1>3, <1>4, <1>5, StackPush
<1> QED BY <1>1, <1>6 DEF IInv

(* IInv holds in every reachable state, for every program and bound.       *)
THEOREM Invariance == Spec => []IInv
<1>1. IInv /\ [Next]_vars => IInv'
  BY StepPreserves DEF StepOK, IInv, Grown
<1> QED BY InitIInv, <1>1, PTL DEF Spec

(* Type correctness: no handler ever works on a Register that was not made, *)
(* and no table holds a malformed entry.                                   *)
THEOREM TypeCorrect == Spec => []TypeOK
<1>1. IInv => TypeOK
  BY DEF IInv, TypeOK, Good
<1> QED BY <1>1, Invariance, PTL

(* Whatever the order and nesting of statements, the shared IDCounter never *)
(* gives two entries of the program one id, in one table or in two.        *)
THEOREM IdsUnique == Spec => []UniqueIds
<1>1. IInv => UniqueIds
  BY DEF IInv, UniqueIds, Good
<1> QED BY <1>1, Invariance, PTL

(* Of the declarations of a name in a scope, the earliest is the one bound, *)
(* and the copy under the name is the copy under the id.                   *)
THEOREM FirstBinds == Spec => []FirstDeclarationBinds
<1>1. IInv => FirstDeclarationBinds
  BY DEF IInv, FirstDeclarationBinds, Good
<1> QED BY <1>1, Invariance, PTL

(* No later statement, in this scope or any other, rebinds a name.         *)
THEOREM BindingsNeverChange == Spec => BindingsStable
<1> DEFINE A == \A r \in ScopesOf(T) : \A x \in DOMAIN T.table[r].names :
                  /\ x \in DOMAIN T'.table[r].names
                  /\ T'.table[r].names[x] = T.table[r].names[x]
<1>1. IInv /\ [Next]_vars => A
  BY StepPreserves DEF StepOK, Grown, Extends
<1>2. IInv /\ [Next]_vars => [A]_vars
  BY <1>1
<1> HIDE DEF A
<1>3. Spec => [][A]_vars
  BY <1>2, Invariance, PTL DEF Spec
<1> QED BY <1>3 DEF A, BindingsStable

-------------------------------------------------------------------------------
(* Expressions                                                             *)

(* The expression returned nothing, or its id is in the table r.           *)
Returned(t, u, r) == ExprId(t, u) = 0 \/ HasId(u, r, ExprId(t, u))

(* What registering an expression in r does.                               *)
ExprLaid(t, u, r) == Laid(t, u, r) /\ Returned(t, u, r)

LEMMA ReturnedLast ==
  ASSUME NEW t, NEW v, NEW u, NEW r, Good(u), HasId(v, r, u.next), v.next = u.next + 1
  PROVE  Returned(t, v, r)
BY GoodNumbers DEF Returned, ExprId

LEMMA LaidFree ==
  ASSUME NEW t, NEW u, NEW r \in ScopesOf(t), Free(t, r), NEW s, Laid(t, u, s)
  PROVE  /\ Sound(u) /\ Good(u) /\ r \in ScopesOf(u) /\ Free(u, r)
         /\ u.next \in Nat
BY GoodNumbers DEF Laid, Sound, Wrote, Spares

(* The entries that keep no scope: most expressions, and what declares.    *)
LeafTags == Tags \ (Blocks \cup {"Return", "ExprStmt", "Call"})

LEMMA LeafEntry ==
  ASSUME NEW tag \in LeafTags, NEW name \in Names \cup {NoName},
         NEW ref \in Names \cup {NoName}, NEW ops \in Seq(Nat)
  PROVE  /\ NewEntry(tag, name, ref, << >>, ops) \in Entry
         /\ Plain(NewEntry(tag, name, ref, << >>, ops))
<1>1. tag \in Tags /\ << >> \in Seq(Nat)
  BY DEF LeafTags
<1>2. NewEntry(tag, name, ref, << >>, ops) \in Entry
  BY <1>1, NewEntryType
<1> QED BY <1>2 DEF Plain, NewEntry, LeafTags

LEMMA PointerEntry ==
  ASSUME NEW e \in Entry, Plain(e), NEW g \in Nat
  PROVE  [e EXCEPT !.gen = g] \in Entry /\ Plain([e EXCEPT !.gen = g])
BY DEF Entry, Plain

LEMMA InsertLeaf ==
  ASSUME NEW t, Sound(t), NEW r \in ScopesOf(t), Free(t, r), NEW e \in Entry, Plain(e)
  PROVE  /\ ExprLaid(t, Insert(t, r, e), r)
         /\ Insert(t, r, e).next = t.next + 1
         /\ HasId(Insert(t, r, e), r, t.next)
         /\ ScopesOf(Insert(t, r, e)) = ScopesOf(t)
<1>1. /\ Laid(t, Insert(t, r, e), r) /\ HasId(Insert(t, r, e), r, t.next)
      /\ Insert(t, r, e).next = t.next + 1
      /\ ScopesOf(Insert(t, r, e)) = ScopesOf(t)
  BY PlainSound
<1>2. Returned(t, Insert(t, r, e), r)
  BY <1>1, ReturnedLast DEF Sound
<1> QED BY <1>1, <1>2 DEF ExprLaid

(* A leaf laid after another expression.                                   *)
LEMMA ThenLeaf ==
  ASSUME NEW t, Sound(t), NEW r \in ScopesOf(t), Free(t, r), NEW u, Laid(t, u, r),
         NEW e \in Entry, Plain(e)
  PROVE  /\ Laid(t, Insert(u, r, e), r)
         /\ \A w : Returned(w, Insert(u, r, e), r)
<1> DEFINE v == Insert(u, r, e)
<1>1. Sound(u) /\ Good(u) /\ r \in ScopesOf(u) /\ Free(u, r)
  BY LaidFree
<1>2. Laid(u, v, r) /\ HasId(v, r, u.next) /\ v.next = u.next + 1
  BY <1>1, InsertLeaf DEF ExprLaid
<1>3. u.next \in Nat
  BY <1>1, GoodNumbers
<1> HIDE DEF v
<1>4. Laid(t, v, r)
  BY <1>2, LaidTrans
<1>5. v.next - 1 = u.next
  BY <1>2, <1>3
<1>6. \A w : Returned(w, v, r)
  BY <1>2, <1>5 DEF Returned, ExprId
<1> QED BY <1>4, <1>6 DEF v

LEMMA RegIdentLaid ==
  ASSUME NEW t, Sound(t), NEW r \in ScopesOf(t), Free(t, r),
         NEW x \in Idents \cup {NoName}
  PROVE  /\ ExprLaid(t, RegIdent(t, r, x), r)
         /\ RegIdent(t, r, x).next = t.next + 1
         /\ HasId(RegIdent(t, r, x), r, t.next)
         /\ ScopesOf(RegIdent(t, r, x)) = ScopesOf(t)
<1> DEFINE e == NewEntry("Identifier", NoName, x, << >>, << >>)
<1>1. /\ "Identifier" \in LeafTags
      /\ NoName \in Names \cup {NoName} /\ x \in Names \cup {NoName}
      /\ << >> \in Seq(Nat)
  BY ProgramAssumption DEF Tags, Blocks, LeafTags
<1>2. e \in Entry /\ Plain(e)
  BY <1>1, LeafEntry
<1> HIDE DEF e
<1>3. RegIdent(t, r, x) = Insert(t, r, e)
  BY DEF RegIdent, e
<1> QED BY <1>2, <1>3, InsertLeaf

LEMMA RegLiteralLaid ==
  ASSUME NEW t, Sound(t), NEW r \in ScopesOf(t), Free(t, r)
  PROVE  ExprLaid(t, RegLiteral(t, r), r)
<1> DEFINE e == NewEntry("Literal", NoName, NoName, << >>, << >>)
<1>1. "Literal" \in LeafTags /\ NoName \in Names \cup {NoName} /\ << >> \in Seq(Nat)
  BY DEF Tags, Blocks, LeafTags
<1>2. e \in Entry /\ Plain(e)
  BY <1>1, LeafEntry
<1> HIDE DEF e
<1>3. RegLiteral(t, r) = Insert(t, r, e)
  BY DEF RegLiteral, e
<1> QED BY <1>2, <1>3, InsertLeaf

LEMMA RegOperatorLaid ==
  ASSUME NEW tag \in {"BinaryOp", "Index"}, NEW t, Sound(t), NEW r \in ScopesOf(t),
         Free(t, r), NEW id \in Nat, NEW y \in Idents \cup {NoName},
         NEW u \in RegOperator(tag, t, r, id, y)
  PROVE  Laid(t, u, r) /\ \A w : Returned(w, u, r)
<1> DEFINE right == RegIdent(t, r, y)
<1>1. Laid(t, right, r)
  BY RegIdentLaid DEF ExprLaid
<1>2. Good(right)
  BY <1>1 DEF Laid, Sound
<1> HIDE DEF right
<1>3. PICK leftId \in Held(t, right, r, id) :
        u = Insert(right, r, NewEntry(tag, NoName, NoName, << >>, <<leftId, t.next>>))
  BY DEF RegOperator, right
<1>4. leftId \in Nat /\ t.next \in Nat
  BY <1>2, <1>3, HeldNat, GoodNumbers DEF Sound
<1> DEFINE e == NewEntry(tag, NoName, NoName, << >>, <<leftId, t.next>>)
<1>5. /\ NoName \in Names \cup {NoName} /\ <<leftId, t.next>> \in Seq(Nat)
      /\ tag \in LeafTags
  BY <1>4 DEF Tags, Blocks, LeafTags
<1>6. e \in Entry /\ Plain(e)
  BY <1>5, LeafEntry
<1> HIDE DEF e
<1>7. u = Insert(right, r, e)
  BY <1>3 DEF e
<1> QED BY <1>1, <1>6, <1>7, ThenLeaf

LEMMA RegBinaryLaid ==
  ASSUME NEW tag \in {"BinaryOp", "Index"}, NEW t, Sound(t), NEW r \in ScopesOf(t),
         Free(t, r), NEW x \in Idents \cup {NoName}, NEW y \in Idents \cup {NoName},
         NEW u \in RegBinary(tag, t, r, x, y)
  PROVE  Laid(t, u, r) /\ \A w : Returned(w, u, r)
<1> DEFINE left == RegIdent(t, r, x)
<1>1. Laid(t, left, r)
  BY RegIdentLaid DEF ExprLaid
<1>2. Sound(left) /\ r \in ScopesOf(left) /\ Free(left, r)
  BY <1>1, LaidFree
<1>3. u \in RegOperator(tag, left, r, t.next, y)
  BY DEF RegBinary
<1>4. t.next \in Nat
  BY GoodNumbers DEF Sound
<1> HIDE DEF left
<1>5. Laid(left, u, r) /\ \A w : Returned(w, u, r)
  BY <1>2, <1>3, <1>4, RegOperatorLaid
<1> QED BY <1>1, <1>5, LaidTrans

LEMMA RegChainLaid ==
  ASSUME NEW t, Sound(t), NEW r \in ScopesOf(t), Free(t, r),
         NEW x \in Idents \cup {NoName}, NEW y \in Idents \cup {NoName},
         NEW v \in RegChain(t, r, x, y)
  PROVE  Laid(t, v, r) /\ \A w : Returned(w, v, r)
<1>1. PICK u \in RegBinary("BinaryOp", t, r, x, y) :
        v \in RegOperator("BinaryOp", u, r, u.next - 1, y)
  BY DEF RegChain
<1>2. Laid(t, u, r)
  BY <1>1, RegBinaryLaid
<1>3. Sound(u) /\ Good(u) /\ r \in ScopesOf(u) /\ Free(u, r)
  BY <1>2, LaidFree
<1>4. u.next - 1 \in Nat
  BY <1>3, GoodNumbers
<1>5. Laid(u, v, r) /\ \A w : Returned(w, v, r)
  BY <1>1, <1>3, <1>4, RegOperatorLaid
<1> QED BY <1>2, <1>5, LaidTrans

(* An entry that keeps scopes made after t, laid after what went before it. *)
LEMMA InsertOwner ==
  ASSUME NEW t, Sound(t), NEW r \in ScopesOf(t), Free(t, r), NEW v, Laid(t, v, r),
         NEW e \in Entry, Loose(v, e.kids, r), EntryLocal(v, r, e),
         \A k \in DOMAIN e.kids : e.kids[k] \notin ScopesOf(t)
  PROVE  /\ Laid(t, Insert(v, r, e), r)
         /\ \A w : Returned(w, Insert(v, r, e), r)
<1> DEFINE u == Insert(v, r, e)
<1>1. Sound(v) /\ Good(v) /\ r \in ScopesOf(v) /\ Free(v, r) /\ v.next \in Nat
  BY LaidFree
<1>2. /\ Sound(u) /\ Wrote(v, u, {r}) /\ u.next = v.next + 1 /\ HasId(u, r, v.next)
      /\ \A k : Free(v, k) /\ (\A i \in DOMAIN e.kids : e.kids[i] # k) => Free(u, k)
  BY <1>1, InsertSound
<1> HIDE DEF u
<1>3. Wrote(t, u, {r})
  BY <1>1, <1>2, WroteTrans DEF Laid, Sound
<1>4. Spares(t, u)
  <2> SUFFICES ASSUME NEW z \in ScopesOf(t), Free(t, z) PROVE Free(u, z)
    BY DEF Spares
  <2>1. Free(v, z)
    BY DEF Laid, Spares
  <2> QED BY <1>2, <2>1
<1>5. u.next - 1 = v.next
  <2>1. v.next \in Nat /\ u.next = v.next + 1
    BY <1>1, <1>2
  <2> QED BY <2>1
<1>6. \A w : Returned(w, u, r)
  BY <1>2, <1>5 DEF Returned, ExprId
<1> QED BY <1>2, <1>3, <1>4, <1>6 DEF Laid, u

(* The entry of a call takes a child that was made for it.                 *)
LEMMA InsertCall ==
  ASSUME NEW t, Sound(t), NEW r \in ScopesOf(t), Free(t, r), NEW v, Laid(t, v, r),
         NEW c, c \notin ScopesOf(t), Pending(v, c, r), NEW ref \in Names \cup {NoName},
         NEW ops \in Seq(Nat), NEW s, s = IF v.table[c].ids = << >> THEN r ELSE c,
         \A k \in DOMAIN ops : HasId(v, s, ops[k]),
         NEW u, u = Insert(v, r, NewEntry("Call", NoName, ref, <<c>>, ops))
  PROVE  Laid(t, u, r) /\ \A w : Returned(w, u, r)
<1> DEFINE e == NewEntry("Call", NoName, ref, <<c>>, ops)
<1>1. c \in Nat
  BY GoodNumbers DEF Pending, Laid, Sound
<1>2. e \in Entry
  <2>1. "Call" \in Tags /\ NoName \in Names \cup {NoName} /\ <<c>> \in Seq(Nat)
    BY <1>1 DEF Tags
  <2> QED BY <2>1, NewEntryType
<1>3. e.kids = <<c>> /\ e.ops = ops /\ e.tag = "Call" /\ u = Insert(v, r, e)
  BY DEF NewEntry
<1> HIDE DEF e
<1>4. Loose(v, e.kids, r)
  BY <1>3 DEF Loose
<1>5. EntryLocal(v, r, e)
  <2>1. e.kids # << >> /\ e.kids[1] = c
    BY <1>3
  <2> QED BY <1>3, <2>1 DEF EntryLocal, ArgumentScope, Blocks
<1>6. \A k \in DOMAIN e.kids : e.kids[k] \notin ScopesOf(t)
  BY <1>3
<1>7. /\ Laid(t, Insert(v, r, e), r)
      /\ \A w : Returned(w, Insert(v, r, e), r)
  BY <1>2, <1>4, <1>5, <1>6, InsertOwner
<1> QED BY <1>3, <1>7

LEMMA NewChildLaid ==
  ASSUME NEW t, Sound(t), NEW r \in ScopesOf(t), NEW s
  PROVE  Laid(t, MakeChild(t, r), s)
BY MakeChildSound DEF Laid

LEMMA RegCallLaid ==
  ASSUME NEW t, Sound(t), NEW r \in ScopesOf(t), Free(t, r),
         NEW x \in Names \cup {NoName}, NEW y \in Idents \cup {NoName}
  PROVE  /\ Laid(t, RegCall(t, r, x, y), r)
         /\ \A w : Returned(w, RegCall(t, r, x, y), r)
<1> DEFINE child == MakeChild(t, r)
           c     == Len(child.parent)
           args  == IF y = NoName THEN child ELSE RegIdent(child, c, y)
           ops   == IF y = NoName THEN << >> ELSE <<t.next>>
<1>1. /\ Laid(t, child, r) /\ Sound(child) /\ Good(child) /\ c \notin ScopesOf(t)
      /\ Pending(child, c, r) /\ child.next = t.next
      /\ c \in ScopesOf(child) /\ Free(child, c) /\ r \in ScopesOf(child)
  <2>1. c = Len(t.parent) + 1
    BY MakeChildSound
  <2>2. Laid(t, child, r)
    BY NewChildLaid
  <2>3. /\ Pending(child, c, r) /\ child.next = t.next /\ c \notin ScopesOf(t)
        /\ r \in ScopesOf(child)
    BY <2>1, MakeChildSound
  <2>4. Sound(child) /\ Good(child)
    BY <2>2 DEF Laid, Sound
  <2> HIDE DEF child, c
  <2> QED BY <2>2, <2>3, <2>4 DEF Pending
<1> HIDE DEF child, c
<1>2. t.next \in Nat /\ ops \in Seq(Nat)
  BY GoodNumbers DEF Sound
<1>3. /\ Laid(t, args, r) /\ Pending(args, c, r)
      /\ \A k \in DOMAIN ops : HasId(args, c, ops[k])
  <2>1. CASE y = NoName
    BY <1>1, <2>1
  <2>2. CASE y # NoName
    <3>1. Laid(child, args, c) /\ HasId(args, c, t.next)
      BY <1>1, <2>2, RegIdentLaid DEF ExprLaid
    <3> HIDE DEF args
    <3>2. Good(args) /\ Free(args, c) /\ Wrote(child, args, {c})
      BY <1>1, <3>1 DEF Laid, Sound, Spares
    <3>3. r # c
      BY <1>1
    <3>4. Pending(args, c, r)
      BY <1>1, <3>2, <3>3, PendingKept
    <3>5. Laid(t, args, r)
      BY <1>1, <3>1, LaidTrans
    <3>6. \A k \in DOMAIN ops : ops[k] = t.next
      BY <2>2
    <3> QED BY <3>1, <3>4, <3>5, <3>6
  <2> QED BY <2>1, <2>2
<1>4. RegCall(t, r, x, y) = Insert(args, r, NewEntry("Call", NoName, x, <<c>>, ops))
  BY DEF RegCall, child, c, args, ops
<1> HIDE DEF args, ops
<1>5. \A k \in DOMAIN ops :
        HasId(args, IF args.table[c].ids = << >> THEN r ELSE c, ops[k])
  <2> SUFFICES ASSUME NEW k \in DOMAIN ops, args.table[c].ids = << >> PROVE FALSE
    BY <1>3
  <2>1. ops[k] \in DOMAIN args.table[c].ids
    BY <1>3 DEF HasId
  <2> QED BY <2>1
<1>6. PICK s : /\ s = (IF args.table[c].ids = << >> THEN r ELSE c)
           /\ \A k \in DOMAIN ops : HasId(args, s, ops[k])
  BY <1>5
<1> QED BY <1>1, <1>2, <1>3, <1>4, <1>6, InsertCall

LEMMA RegSelfCallLaid ==
  ASSUME NEW t, Sound(t), NEW r \in ScopesOf(t), Free(t, r),
         NEW cls \in Idents \cup {NoName}, NEW x \in Idents,
         NEW y \in Idents \cup {NoName}
  PROVE  /\ Laid(t, RegSelfCall(t, r, cls, x, y), r)
         /\ \A w : Returned(w, RegSelfCall(t, r, cls, x, y), r)
<1> DEFINE args  == IF y = NoName THEN t ELSE RegIdent(t, r, y)
           child == MakeChild(args, r)
           name  == IF cls = NoName THEN x ELSE Mangled[cls][x][1]
           ops   == IF y = NoName THEN << >> ELSE <<t.next>>
           c     == Len(child.parent)
<1>1. t.next \in Nat /\ ops \in Seq(Nat)
  BY GoodNumbers DEF Sound
<1>2. /\ Laid(t, args, r) /\ \A k \in DOMAIN ops : HasId(args, r, ops[k])
      /\ ScopesOf(args) = ScopesOf(t)
  <2>1. CASE y = NoName
    BY <2>1, LaidRefl
  <2>2. CASE y # NoName
    BY <2>2, RegIdentLaid DEF ExprLaid
  <2> QED BY <2>1, <2>2
<1>3. Sound(args) /\ r \in ScopesOf(args) /\ Free(args, r)
  BY <1>2, LaidFree
<1> HIDE DEF args, ops
<1>4. /\ Laid(args, child, r) /\ Pending(child, c, r) /\ c \notin ScopesOf(args)
      /\ child.table[c] = EmptyTable
  BY <1>3, NewChildLaid, MakeChildSound
<1> HIDE DEF child, c
<1>5. Laid(t, child, r)
  BY <1>2, <1>4, LaidTrans
<1>6. child.table[c].ids = << >>
  BY <1>4 DEF EmptyTable
<1>7. \A k \in DOMAIN ops : HasId(child, r, ops[k])
  BY <1>2, <1>3, <1>4 DEF Laid, Wrote, HasId
<1>8. name \in Names \cup {NoName}
  BY MangledName, ProgramAssumption
<1> HIDE DEF name
<1>9. RegSelfCall(t, r, cls, x, y) =
        Insert(child, r, NewEntry("Call", NoName, name, <<c>>, ops))
  BY DEF RegSelfCall, child, c, args, ops, name
<1>10. c \notin ScopesOf(t)
  BY <1>2, <1>4
<1>11. PICK s : /\ s = (IF child.table[c].ids = << >> THEN r ELSE c)
           /\ \A k \in DOMAIN ops : HasId(child, s, ops[k])
  BY <1>6, <1>7
<1> QED BY <1>1, <1>4, <1>5, <1>8, <1>9, <1>10, <1>11, InsertCall

(* One identifier, then the entry that keeps it.                           *)
LEMMA IdentThenLeaf ==
  ASSUME NEW t, Sound(t), NEW r \in ScopesOf(t), Free(t, r),
         NEW x \in Idents \cup {NoName}, NEW e \in Entry, Plain(e)
  PROVE  /\ Laid(t, Insert(RegIdent(t, r, x), r, e), r)
         /\ \A w : Returned(w, Insert(RegIdent(t, r, x), r, e), r)
<1>1. Laid(t, RegIdent(t, r, x), r)
  BY RegIdentLaid DEF ExprLaid
<1> QED BY <1>1, ThenLeaf

LEMMA RegMakeLaid ==
  ASSUME NEW t, Sound(t), NEW r \in ScopesOf(t), Free(t, r),
         NEW x \in Idents \cup {NoName}, NEW y \in Idents \cup {NoName}
  PROVE  /\ Laid(t, RegMake(t, r, x, y), r)
         /\ \A w : Returned(w, RegMake(t, r, x, y), r)
<1> DEFINE e == NewEntry("StructCall", NoName, x, << >>, <<t.next>>)
<1>1. t.next \in Nat
  BY GoodNumbers DEF Sound
<1>2. /\ "StructCall" \in LeafTags /\ NoName \in Names \cup {NoName}
      /\ x \in Names \cup {NoName} /\ <<t.next>> \in Seq(Nat)
  BY <1>1, ProgramAssumption DEF Tags, Blocks, LeafTags
<1>3. e \in Entry /\ Plain(e)
  BY <1>2, LeafEntry
<1>4. RegMake(t, r, x, y) = Insert(RegIdent(t, r, y), r, e)
  BY DEF RegMake
<1> HIDE DEF e
<1> QED BY <1>3, <1>4, IdentThenLeaf

LEMMA RegCastLaid ==
  ASSUME NEW t, Sound(t), NEW r \in ScopesOf(t), Free(t, r),
         NEW x \in Idents \cup {NoName}
  PROVE  /\ Laid(t, RegCast(t, r, x), r)
         /\ \A w : Returned(w, RegCast(t, r, x), r)
<1> DEFINE e == NewEntry("Cast", NoName, NoName, << >>, <<t.next>>)
<1>1. t.next \in Nat
  BY GoodNumbers DEF Sound
<1>2. /\ "Cast" \in LeafTags /\ NoName \in Names \cup {NoName}
      /\ <<t.next>> \in Seq(Nat)
  BY <1>1 DEF Tags, Blocks, LeafTags
<1>3. e \in Entry /\ Plain(e)
  BY <1>2, LeafEntry
<1>4. RegCast(t, r, x) = Insert(RegIdent(t, r, x), r, e)
  BY DEF RegCast
<1> HIDE DEF e
<1> QED BY <1>3, <1>4, IdentThenLeaf

LEMMA RegUnaryLaid ==
  ASSUME NEW tag \in {"Unary", "AddrOf"}, NEW t, Sound(t), NEW r \in ScopesOf(t),
         Free(t, r), NEW x \in Idents \cup {NoName}
  PROVE  /\ Laid(t, RegUnary(tag, t, r, x), r)
         /\ \A w : Returned(w, RegUnary(tag, t, r, x), r)
<1> DEFINE e == NewEntry(tag, NoName, NoName, << >>, <<t.next>>)
           g == RegIdent(t, r, x).table[r].cap
<1>1. t.next \in Nat
  BY GoodNumbers DEF Sound
<1>2. g \in Nat
  <2>1. Good(RegIdent(t, r, x)) /\ ScopesOf(RegIdent(t, r, x)) = ScopesOf(t)
    BY RegIdentLaid DEF ExprLaid, Laid, Sound
  <2> QED BY <2>1 DEF Good, TablesType
<1>3. tag \in LeafTags /\ NoName \in Names \cup {NoName} /\ <<t.next>> \in Seq(Nat)
  BY <1>1 DEF Tags, Blocks, LeafTags
<1>4. e \in Entry /\ Plain(e)
  BY <1>3, LeafEntry
<1>5. RegUnary(tag, t, r, x) = Insert(RegIdent(t, r, x), r, [e EXCEPT !.gen = g])
  BY DEF RegUnary
<1> HIDE DEF e, g
<1>6. [e EXCEPT !.gen = g] \in Entry /\ Plain([e EXCEPT !.gen = g])
  BY <1>2, <1>4, PointerEntry
<1> QED BY <1>5, <1>6, IdentThenLeaf

LEMMA RegFieldLaid ==
  ASSUME NEW t, Sound(t), NEW r \in ScopesOf(t), Free(t, r),
         NEW x \in Idents \cup {NoName}, NEW y \in Idents \cup {NoName}
  PROVE  ExprLaid(t, RegField(t, r, x, y), r)
<1> DEFINE e == NewEntry("Field", NoName, y, << >>, <<LocalId(t, r, x)>>)
           g == t.table[r].cap
<1>1. LocalId(t, r, x) \in Nat /\ g \in Nat
  <2>1. TablesType(t)
    BY DEF Sound, Good
  <2>2. \A z \in DOMAIN t.table[r].names : t.table[r].names[z] \in Entry
    BY <2>1 DEF TablesType
  <2>3. \A z \in DOMAIN t.table[r].names : t.table[r].names[z].eid \in Nat
    BY <2>2 DEF Entry
  <2> QED BY <2>1, <2>3 DEF TablesType, LocalId
<1>2. /\ "Field" \in LeafTags /\ NoName \in Names \cup {NoName}
      /\ y \in Names \cup {NoName} /\ <<LocalId(t, r, x)>> \in Seq(Nat)
  BY <1>1, ProgramAssumption DEF Tags, Blocks, LeafTags
<1>3. e \in Entry /\ Plain(e)
  BY <1>2, LeafEntry
<1>4. RegField(t, r, x, y) = Insert(t, r, [e EXCEPT !.gen = g])
  BY DEF RegField
<1> HIDE DEF e, g
<1>5. [e EXCEPT !.gen = g] \in Entry /\ Plain([e EXCEPT !.gen = g])
  BY <1>1, <1>3, PointerEntry
<1> QED BY <1>4, <1>5, InsertLeaf

(* register_expr, whichever of its cases runs.                             *)
LEMMA RegExprLaid ==
  ASSUME NEW t, Sound(t), NEW r \in ScopesOf(t), Free(t, r),
         NEW cls \in Idents \cup {NoName}, NEW e \in ExprShapes, NamesCallee(e),
         NEW u \in RegExpr(t, r, cls, e)
  PROVE  ExprLaid(t, u, r)
<1>1. /\ e.x \in Idents \cup {NoName} /\ e.y \in Idents \cup {NoName}
      /\ e.k \in {"Null", "Literal", "Ident", "BinaryOp", "Chain", "Index",
                 "Call", "SelfCall", "ClassCall", "Make", "Unary", "AddrOf",
                 "Cast", "Field", "Builtin"}
  BY DEF ExprShapes
<1>2. CASE e.k \in {"Null", "Builtin"}
  <2>1. u = t
    BY <1>2 DEF RegExpr
  <2> QED BY <2>1, LaidRefl DEF ExprLaid, Returned, ExprId
<1>3. CASE e.k = "Literal"
  BY <1>3, RegLiteralLaid DEF RegExpr
<1>4. CASE e.k = "Ident"
  BY <1>1, <1>4, RegIdentLaid DEF RegExpr
<1>5. CASE e.k \in {"BinaryOp", "Index"}
  <2>1. u \in RegBinary(e.k, t, r, e.x, e.y)
    BY <1>5 DEF RegExpr
  <2> QED BY <1>1, <1>5, <2>1, RegBinaryLaid DEF ExprLaid
<1>6. CASE e.k = "Chain"
  BY <1>1, <1>6, RegChainLaid DEF RegExpr, ExprLaid
<1>7. CASE e.k = "Call"
  <2>1. e.x \in Names \cup {NoName} /\ u = RegCall(t, r, e.x, e.y)
    BY <1>1, <1>7, ProgramAssumption DEF RegExpr
  <2> QED BY <1>1, <2>1, RegCallLaid DEF ExprLaid
<1>8. CASE e.k = "SelfCall"
  <2>1. e.x \in Idents /\ u = RegSelfCall(t, r, cls, e.x, e.y)
    BY <1>1, <1>8 DEF RegExpr, NamesCallee
  <2> QED BY <1>1, <2>1, RegSelfCallLaid DEF ExprLaid
<1>9. CASE e.k = "Make"
  BY <1>1, <1>9, RegMakeLaid DEF RegExpr, ExprLaid
<1>10. CASE e.k \in {"Unary", "AddrOf"}
  <2>1. u = RegUnary(e.k, t, r, e.x)
    BY <1>10 DEF RegExpr
  <2> QED BY <1>1, <1>10, <2>1, RegUnaryLaid DEF ExprLaid
<1>11. CASE e.k = "Field"
  BY <1>1, <1>11, RegFieldLaid DEF RegExpr
<1>12. CASE e.k = "ClassCall"
  <2>1. e.x \in Idents /\ e.y \in Idents
    BY <1>1, <1>12 DEF NamesCallee
  <2>2. u = RegCall(t, r, Mangled[e.x][e.y][1], e.y)
    BY <1>12 DEF RegExpr, RegClassCall
  <2>3. Mangled[e.x][e.y][1] \in Names \cup {NoName}
    BY <2>1, MangledName
  <2> QED BY <1>1, <2>2, <2>3, RegCallLaid DEF ExprLaid
<1>13. CASE e.k = "Cast"
  BY <1>1, <1>13, RegCastLaid DEF RegExpr, ExprLaid
<1> QED BY <1>1, <1>2, <1>3, <1>4, <1>5, <1>6, <1>7, <1>8, <1>9, <1>10, <1>11,
           <1>12, <1>13

LEMMA ProgramExprLaid ==
  ASSUME NEW t, Sound(t), NEW r \in ScopesOf(t), Free(t, r),
         NEW cls \in Idents \cup {NoName},
         NEW e \in Exprs \cup Targets \cup {NoExpr, ZeroedExpr},
         NEW u \in RegExpr(t, r, cls, e)
  PROVE  ExprLaid(t, u, r)
<1>1. e \in ExprShapes /\ NamesCallee(e)
  BY ProgramAssumption DEF NoExpr, ZeroedExpr, ExprShapes, Targets, NamesCallee
<1> QED BY <1>1, RegExprLaid

-------------------------------------------------------------------------------
(* The open handlers                                                       *)

(* The scopes of a handler: it writes its own entry above its body, in a    *)
(* table nothing keeps, and the blocks it has so far are ready to be kept. *)
FrameNested(f, t) ==
  /\ f.out <= f.reg
  /\ f.kids # << >> => f.out < f.reg
  /\ Free(t, f.out) /\ Free(t, f.reg)
  /\ Loose(t, f.kids, f.out)
  /\ f.kind \in Blocks => HeadLocal(t, f.kids, f.ops)

(* An inner handler works below the body of every outer one, ...           *)
Nested(s, t) ==
  /\ \A i \in DOMAIN s : FrameNested(s[i], t)
  /\ \A i, j \in DOMAIN s : i < j => s[i].reg <= s[j].out

TreeInv == IInv /\ Sound(T) /\ Nested(stack, T)

(* What every step of the pass does to the tables and the handlers.        *)
StepNested ==
  /\ Sound(T')
  /\ Nested(stack', T')
  /\ stack # << >> => Wrote(T, T', {Top.reg, Top.out})

LEMMA TopNested ==
  ASSUME TreeInv, stack # << >>
  PROVE  /\ FrameNested(Top, T) /\ Good(T) /\ Sound(T)
         /\ Top.reg \in ScopesOf(T) /\ Top.out \in ScopesOf(T)
         /\ Free(T, Top.reg) /\ Free(T, Top.out)
         /\ Top.cls \in Idents \cup {NoName}
<1>1. Len(stack) \in DOMAIN stack
  BY DEF TreeInv, IInv, StackOK
<1>2. FrameNested(Top, T)
  BY <1>1 DEF TreeInv, Nested, Top
<1> QED BY <1>2, TopFacts DEF TreeInv, IInv, FrameNested

(* Writes elsewhere leave a handler's scopes as they were.                 *)
LEMMA FrameKept ==
  ASSUME NEW t, Good(t), NEW u, Good(u), NEW R, Wrote(t, u, R), NEW f \in FrameType(t),
         FrameNested(f, t), f.kids # << >> => f.out \notin R,
         Free(u, f.out), Free(u, f.reg),
         \A k \in DOMAIN f.kids : Free(u, f.kids[k])
  PROVE  FrameNested(f, u)
<1>1. f.out \in ScopesOf(t) /\ f.kids \in Seq(ScopesOf(t))
  BY DEF FrameType
<1>2. ASSUME NEW k \in DOMAIN f.kids PROVE Pending(u, f.kids[k], f.out)
  <2>1. f.kids # << >>
    OBVIOUS
  <2>2. Pending(t, f.kids[k], f.out)
    BY DEF FrameNested, Loose
  <2> QED BY <1>1, <2>1, <2>2, PendingKept
<1>3. Loose(u, f.kids, f.out)
  BY <1>2 DEF FrameNested, Loose
<1>4. ASSUME f.kind \in Blocks PROVE HeadLocal(u, f.kids, f.ops)
  <2>1. HeadLocal(t, f.kids, f.ops)
    BY <1>4 DEF FrameNested
  <2>2. f.kids[1] \in ScopesOf(t)
    BY <1>1, <2>1 DEF HeadLocal
  <2> QED BY <2>1, <2>2 DEF HeadLocal, HasId, Wrote
<1> QED BY <1>3, <1>4 DEF FrameNested

(* Something was laid in the body of the innermost handler, or in no scope *)
(* that was there: every handler is still well nested.                     *)
LEMMA NestedKept ==
  ASSUME TreeInv, stack # << >>, NEW r, Laid(T, T', r), r \in {Top.reg, 0}
  PROVE  Nested(stack, T')
<1>1. Good(T) /\ Good(T') /\ Wrote(T, T', {r})
  BY DEF TreeInv, IInv, Laid, Sound
<1>2. /\ stack \in Seq(FrameType(T)) /\ Len(stack) \in Nat /\ DOMAIN stack = 1..Len(stack)
      /\ Nested(stack, T)
  BY DEF TreeInv, IInv, StackOK
<1>3. ASSUME NEW i \in DOMAIN stack PROVE FrameNested(stack[i], T')
  <2> DEFINE f == stack[i]
  <2>1. f \in FrameType(T) /\ FrameNested(f, T)
    BY <1>2 DEF Nested
  <2>2. i = Len(stack) \/ f.reg <= Top.out
    BY <1>2 DEF Nested, Top
  <2>3. Top.out <= Top.reg
    BY TopNested DEF FrameNested
  <2>4. /\ f.out \in Nat /\ f.reg \in Nat /\ Top.reg \in Nat /\ Top.out \in Nat
        /\ f.out \in ScopesOf(T) /\ f.reg \in ScopesOf(T)
        /\ f.kids \in Seq(ScopesOf(T)) /\ 0 \notin ScopesOf(T)
    BY <1>1, <2>1, TopNested, GoodNumbers DEF FrameType, ScopesOf
  <2>5. i = Len(stack) => f = Top
    BY DEF Top
  <2> HIDE DEF f
  <2>6. ASSUME f.kids # << >> PROVE f.out \notin {r}
    <3>1. f.out < f.reg
      BY <2>1, <2>6 DEF FrameNested
    <3> QED BY <2>2, <2>3, <2>4, <2>5, <3>1
  <2>7. /\ Free(T', f.out) /\ Free(T', f.reg)
        /\ \A k \in DOMAIN f.kids : Free(T', f.kids[k])
    BY <2>1, <2>4 DEF FrameNested, Loose, Pending, Laid, Spares
  <2>8. FrameNested(f, T')
    BY <1>1, <2>1, <2>6, <2>7, FrameKept
  <2> QED BY <2>8 DEF f
<1> QED BY <1>2, <1>3 DEF Nested

LEMMA NestedPush ==
  ASSUME NEW t, NEW s, StackOK(s, t), Good(t), Nested(s, t), s # << >>, NEW f,
         FrameNested(f, t), f.out = s[Len(s)].reg
  PROVE  Nested(Append(s, f), t)
<1>1. /\ s \in Seq(FrameType(t)) /\ Len(s) \in Nat /\ Len(s) \in DOMAIN s
      /\ DOMAIN s = 1..Len(s)
  BY DEF StackOK
<1> DEFINE v == Append(s, f)
<1>2. /\ DOMAIN v = 1..(Len(s) + 1) /\ v[Len(s) + 1] = f
      /\ \A i \in DOMAIN s : v[i] = s[i]
  BY <1>1
<1> HIDE DEF v
<1>3. ASSUME NEW i \in DOMAIN v PROVE FrameNested(v[i], t)
  <2>1. i \in DOMAIN s \/ i = Len(s) + 1
    BY <1>1, <1>2
  <2> QED BY <1>2, <2>1 DEF Nested
<1>4. ASSUME NEW i \in DOMAIN v, NEW j \in DOMAIN v, i < j
      PROVE  v[i].reg <= v[j].out
  <2>1. i \in DOMAIN s /\ (j \in DOMAIN s \/ j = Len(s) + 1)
    BY <1>1, <1>2, <1>4
  <2>2. CASE j \in DOMAIN s
    BY <1>2, <1>4, <2>1, <2>2 DEF Nested
  <2>3. CASE j = Len(s) + 1
    <3>1. v[i] = s[i] /\ v[j].out = s[Len(s)].reg
      BY <1>2, <2>1, <2>3
    <3>2. i = Len(s) \/ s[i].reg <= s[Len(s)].out
      BY <1>1, <2>1 DEF Nested
    <3>3. s[Len(s)].out <= s[Len(s)].reg
      BY <1>1 DEF Nested, FrameNested
    <3>4. s[i].reg \in Nat /\ s[Len(s)].out \in Nat /\ s[Len(s)].reg \in Nat
      <4>1. s[i] \in FrameType(t) /\ s[Len(s)] \in FrameType(t)
        BY <1>1, <2>1
      <4>2. ScopesOf(t) \subseteq Nat
        BY GoodNumbers
      <4> QED BY <4>1, <4>2 DEF FrameType
    <3> QED BY <3>1, <3>2, <3>3, <3>4
  <2> QED BY <2>1, <2>2, <2>3
<1>5. Nested(v, t)
  BY <1>3, <1>4 DEF Nested
<1> QED BY <1>5 DEF v

LEMMA NestedSetTop ==
  ASSUME NEW t, NEW s, StackOK(s, t), Nested(s, t), s # << >>, NEW f,
         FrameNested(f, t), f.out = s[Len(s)].out
  PROVE  Nested([s EXCEPT ![Len(s)] = f], t)
<1>1. Len(s) \in Nat /\ Len(s) \in DOMAIN s /\ DOMAIN s = 1..Len(s)
  BY DEF StackOK
<1> DEFINE v == [s EXCEPT ![Len(s)] = f]
<1>2. /\ DOMAIN v = 1..Len(s) /\ v[Len(s)] = f
      /\ \A i \in DOMAIN s : i # Len(s) => v[i] = s[i]
  BY <1>1
<1> HIDE DEF v
<1>3. \A i \in DOMAIN v : FrameNested(v[i], t)
  BY <1>1, <1>2 DEF Nested
<1>4. ASSUME NEW i \in DOMAIN v, NEW j \in DOMAIN v, i < j
      PROVE  v[i].reg <= v[j].out
  <2>1. i # Len(s) /\ v[i] = s[i] /\ v[j].out = s[j].out
    BY <1>1, <1>2, <1>4
  <2> QED BY <1>1, <1>2, <1>4, <2>1 DEF Nested
<1>5. Nested(v, t)
  BY <1>3, <1>4 DEF Nested
<1> QED BY <1>5 DEF v

LEMMA NestedPop ==
  ASSUME NEW t, NEW s, StackOK(s, t), Nested(s, t), s # << >>
  PROVE  Nested(SubSeq(s, 1, Len(s) - 1), t)
<1>1. Len(s) \in Nat \ {0} /\ DOMAIN s = 1..Len(s)
  BY DEF StackOK
<1> DEFINE v == SubSeq(s, 1, Len(s) - 1)
<1>2. DOMAIN v = 1..(Len(s) - 1) /\ \A i \in DOMAIN v : v[i] = s[i]
  BY <1>1 DEF StackOK
<1>3. DOMAIN v \subseteq DOMAIN s
  BY <1>1, <1>2
<1> HIDE DEF v
<1>4. Nested(v, t)
  BY <1>2, <1>3 DEF Nested
<1> QED BY <1>4 DEF v

(* Steps that leave the stack alone, change its top, push and pop.         *)
LEMMA NestedSame ==
  ASSUME TreeInv, stack # << >>, NEW r, Laid(T, T', r), r \in {Top.reg, 0},
         stack' = stack
  PROVE  StepNested
<1>1. Nested(stack', T')
  BY NestedKept
<1>2. Wrote(T, T', {Top.reg, Top.out})
  <2>1. Wrote(T, T', {r}) /\ 0 \notin ScopesOf(T)
    BY DEF Laid, ScopesOf
  <2> QED BY <2>1 DEF Wrote
<1> QED BY <1>1, <1>2 DEF StepNested, Laid

LEMMA NestedTop ==
  ASSUME TreeInv, stack # << >>, NEW r, Laid(T, T', r), r \in {Top.reg, 0},
         NEW f, SetTop(f), FrameNested(f, T'), f.out = Top.out
  PROVE  StepNested
<1>1. Nested(stack, T')
  BY NestedKept
<1>2. StackOK(stack, T')
  BY StackGrow DEF TreeInv, IInv, Laid, Wrote
<1>3. Nested(stack', T')
  BY <1>1, <1>2, NestedSetTop DEF SetTop, Top
<1>4. Wrote(T, T', {Top.reg, Top.out})
  <2>1. Wrote(T, T', {r}) /\ 0 \notin ScopesOf(T)
    BY DEF Laid, ScopesOf
  <2> QED BY <2>1 DEF Wrote
<1> QED BY <1>3, <1>4 DEF StepNested, Laid

SameScopes(f, g) ==
  f.out = g.out /\ f.reg = g.reg /\ f.kids = g.kids /\ f.ops = g.ops /\ f.kind = g.kind

LEMMA NestedSameTop ==
  ASSUME TreeInv, stack # << >>, NEW r, Laid(T, T', r), r \in {Top.reg, 0},
         NEW f, SetTop(f), SameScopes(f, Top)
  PROVE  StepNested
<1>1. Nested(stack, T')
  BY NestedKept
<1>2. Len(stack) \in DOMAIN stack
  BY DEF TreeInv, IInv, StackOK
<1>3. FrameNested(Top, T')
  BY <1>1, <1>2 DEF Nested, Top
<1>4. FrameNested(f, T') /\ f.out = Top.out
  BY <1>3 DEF FrameNested, SameScopes
<1> QED BY <1>4, NestedTop

LEMMA NestedPopped ==
  ASSUME TreeInv, stack # << >>, UNCHANGED T, Pop
  PROVE  StepNested
<1>1. Nested(stack', T)
  BY NestedPop DEF Pop, TreeInv, IInv
<1>2. Wrote(T, T', {Top.reg, Top.out})
  BY WroteRefl DEF TreeInv, IInv
<1> QED BY <1>1, <1>2 DEF StepNested, TreeInv

(* An entry that keeps no scope, in the table of the innermost body.       *)
LEMMA TopLeaf ==
  ASSUME TreeInv, stack # << >>, NEW tag \in LeafTags, NEW name \in Names \cup {NoName},
         NEW ref \in Names \cup {NoName}, NEW ops \in Seq(Nat),
         NEW t, Laid(T, t, Top.reg)
  PROVE  Laid(T, Insert(t, Top.reg, NewEntry(tag, name, ref, << >>, ops)), Top.reg)
<1> DEFINE e == NewEntry(tag, name, ref, << >>, ops)
<1>1. e \in Entry /\ Plain(e)
  BY LeafEntry
<1> HIDE DEF e
<1>2. Laid(T, Insert(t, Top.reg, e), Top.reg)
  BY <1>1, TopNested, ThenLeaf
<1> QED BY <1>2 DEF e

LEMMA TopLeafNow ==
  ASSUME TreeInv, stack # << >>, NEW tag \in LeafTags, NEW name \in Names \cup {NoName},
         NEW ref \in Names \cup {NoName}, NEW ops \in Seq(Nat)
  PROVE  Laid(T, Insert(T, Top.reg, NewEntry(tag, name, ref, << >>, ops)), Top.reg)
BY TopLeaf, LaidRefl DEF TreeInv

(* A statement that keeps the expression registered before it.             *)
LEMMA ValueLaid ==
  ASSUME TreeInv, stack # << >>, NEW e \in Exprs, NEW tag \in {"Return", "ExprStmt"},
         NEW t \in RegExpr(T, Top.reg, Top.cls, e)
  PROVE  Laid(T, Insert(t, Top.reg,
                        NewEntry(tag, NoName, NoName, << >>, <<ExprId(T, t)>>)), Top.reg)
<1> DEFINE s == NewEntry(tag, NoName, NoName, << >>, <<ExprId(T, t)>>)
<1>1. ExprLaid(T, t, Top.reg)
  BY TopNested, ProgramExprLaid
<1>2. Good(t)
  BY <1>1 DEF ExprLaid, Laid, Sound
<1>3. /\ tag \in Tags /\ NoName \in Names \cup {NoName} /\ << >> \in Seq(Nat)
      /\ <<ExprId(T, t)>> \in Seq(Nat)
  BY <1>2, ExprIdNat DEF Tags
<1>4. s \in Entry
  BY <1>3, NewEntryType
<1>5. s.kids = << >> /\ s.ops = <<ExprId(T, t)>> /\ s.tag = tag
  BY DEF NewEntry
<1> HIDE DEF s
<1>6. Loose(t, s.kids, Top.reg)
  BY <1>5 DEF Loose
<1>7. EntryLocal(t, Top.reg, s)
  BY <1>1, <1>5 DEF EntryLocal, ExprLaid, Returned, Blocks
<1>8. Laid(T, Insert(t, Top.reg, s), Top.reg)
  BY <1>1, <1>4, <1>5, <1>6, <1>7, TopNested, InsertOwner DEF ExprLaid
<1> QED BY <1>8 DEF s

LEMMA VarLaid ==
  ASSUME TreeInv, NEW x \in Idents, NEW e \in Exprs, RegisterVar(x, e)
  PROVE  Laid(T, T', Top.reg)
<1>1. stack # << >>
  BY DEF RegisterVar, Leaf, Stmt
<1>2. /\ Sound(T) /\ Top.reg \in ScopesOf(T) /\ Free(T, Top.reg)
      /\ Top.cls \in Idents \cup {NoName}
  BY <1>1, TopNested
<1>3. "Var" \in LeafTags /\ x \in Names \cup {NoName} /\ NoName \in Names \cup {NoName}
  BY ProgramAssumption DEF Tags, Blocks, LeafTags
<1>4. CASE e.k = "Null"
  <2>1. <<0>> \in Seq(Nat)
    OBVIOUS
  <2> QED BY <1>1, <1>3, <1>4, <2>1, TopLeafNow DEF RegisterVar
<1>5. CASE e.k # "Null"
  <2> DEFINE child == MakeChild(T, Top.reg)
             c     == Len(child.parent)
  <2>1. PICK t \in RegExpr(child, c, Top.cls, e) :
          T' = Insert(t, Top.reg, NewEntry("Var", x, NoName, <<c>>, <<ExprId(T, t)>>))
    BY <1>5 DEF RegisterVar
  <2>2. /\ Laid(T, child, Top.reg) /\ c \notin ScopesOf(T) /\ Pending(child, c, Top.reg)
    BY <1>2, NewChildLaid, MakeChildSound, ZenonT(30)
  <2> HIDE DEF child, c
  <2>3. Sound(child) /\ Good(child) /\ c \in ScopesOf(child) /\ Free(child, c)
    BY <2>2 DEF Laid, Pending, Sound
  <2>4. Laid(child, t, c)
    BY <1>2, <2>1, <2>3, ProgramExprLaid DEF ExprLaid
  <2>5. Laid(T, t, Top.reg)
    BY <1>2, <2>2, <2>4, LaidTrans
  <2>6. Good(t) /\ Free(t, c) /\ Wrote(child, t, {c})
    BY <2>3, <2>4 DEF Laid, Sound, Spares
  <2>7. Top.reg # c /\ Top.reg \in ScopesOf(child)
    BY <1>2, <2>2 DEF Laid, Wrote
  <2>8. Pending(t, c, Top.reg)
    BY <2>2, <2>3, <2>6, <2>7, PendingKept
  <2> DEFINE s == NewEntry("Var", x, NoName, <<c>>, <<ExprId(T, t)>>)
  <2>9. s \in Entry
    <3>1. /\ c \in Nat /\ ExprId(T, t) \in Nat
      BY <2>3, <2>6, GoodNumbers, ExprIdNat
    <3>2. "Var" \in Tags /\ <<c>> \in Seq(Nat) /\ <<ExprId(T, t)>> \in Seq(Nat)
      BY <3>1 DEF Tags
    <3> QED BY <1>3, <3>2, NewEntryType
  <2>10. s.kids = <<c>> /\ s.tag = "Var"
    BY DEF NewEntry
  <2>11. T' = Insert(t, Top.reg, s)
    BY <2>1
  <2> HIDE DEF s
  <2>12. Loose(t, s.kids, Top.reg) /\ EntryLocal(t, Top.reg, s)
    BY <2>8, <2>10 DEF Loose, EntryLocal, Blocks
  <2>13. \A k \in DOMAIN s.kids : s.kids[k] \notin ScopesOf(T)
    BY <2>2, <2>10
  <2> QED BY <1>2, <2>5, <2>9, <2>11, <2>12, <2>13, InsertOwner
<1> QED BY <1>4, <1>5

LEMMA LetLaid ==
  ASSUME TreeInv, NEW kind \in {"Let", "Const"}, NEW x \in Idents, NEW e \in Exprs,
         RegisterLet(kind, x, e)
  PROVE  Laid(T, T', Top.reg)
<1>1. stack # << >>
  BY DEF RegisterLet, Leaf, Stmt
<1>2. /\ kind \in LeafTags /\ x \in Names \cup {NoName} /\ NoName \in Names \cup {NoName}
      /\ LetInit(e) \in Exprs \cup {NoExpr}
  BY ProgramAssumption DEF Tags, Blocks, LeafTags, LetInit
<1>3. PICK t \in RegExpr(T, Top.reg, Top.cls, LetInit(e)) :
        T' = Insert(t, Top.reg,
                    [NewEntry(kind, x, NoName, << >>, <<ExprId(T, t)>>)
                       EXCEPT !.gen = t.table[Top.reg].cap])
  BY DEF RegisterLet
<1>4. Laid(T, t, Top.reg)
  BY <1>1, <1>2, <1>3, TopNested, ProgramExprLaid DEF ExprLaid
<1>5. Good(t) /\ Top.reg \in ScopesOf(t)
  BY <1>1, <1>4, TopNested DEF Laid, Sound, Wrote
<1>6. t.table[Top.reg].cap \in Nat /\ <<ExprId(T, t)>> \in Seq(Nat)
  <2>1. t.table[Top.reg].cap \in Nat
    BY <1>5 DEF Good, TablesType
  <2>2. ExprId(T, t) \in Nat
    BY <1>5, ExprIdNat
  <2> QED BY <2>1, <2>2
<1> DEFINE s == NewEntry(kind, x, NoName, << >>, <<ExprId(T, t)>>)
           g == t.table[Top.reg].cap
<1>7. s \in Entry /\ Plain(s) /\ T' = Insert(t, Top.reg, [s EXCEPT !.gen = g])
  BY <1>2, <1>3, <1>6, LeafEntry
<1>8. g \in Nat
  BY <1>6
<1> HIDE DEF s, g
<1>9. [s EXCEPT !.gen = g] \in Entry /\ Plain([s EXCEPT !.gen = g])
  BY <1>7, <1>8, PointerEntry
<1> QED BY <1>1, <1>4, <1>7, <1>9, TopNested, ThenLeaf

LEMMA AssignLaid ==
  ASSUME TreeInv, NEW d \in Targets, NEW e \in Exprs, RegisterAssign(d, e)
  PROVE  Laid(T, T', Top.reg)
<1>1. stack # << >>
  BY DEF RegisterAssign, Leaf, Stmt
<1>2. PICK target \in RegExpr(T, Top.reg, Top.cls, d) :
        \E t \in RegExpr(target, Top.reg, Top.cls, e) :
          \E targetId \in Held(target, t, Top.reg, ExprId(T, target)) :
            T' = Insert(t, Top.reg, NewEntry("Assign", NoName, NoName, << >>,
                                             <<targetId, ExprId(target, t)>>))
  BY DEF RegisterAssign
<1>3. PICK t \in RegExpr(target, Top.reg, Top.cls, e) :
        \E targetId \in Held(target, t, Top.reg, ExprId(T, target)) :
          T' = Insert(t, Top.reg, NewEntry("Assign", NoName, NoName, << >>,
                                           <<targetId, ExprId(target, t)>>))
  BY <1>2
<1>4. PICK targetId \in Held(target, t, Top.reg, ExprId(T, target)) :
        T' = Insert(t, Top.reg, NewEntry("Assign", NoName, NoName, << >>,
                                         <<targetId, ExprId(target, t)>>))
  BY <1>3
<1>5. Laid(T, target, Top.reg)
  BY <1>1, TopNested, ProgramExprLaid DEF ExprLaid
<1>6. Sound(target) /\ Good(target) /\ Top.reg \in ScopesOf(target) /\ Free(target, Top.reg)
  BY <1>1, <1>5, TopNested, LaidFree
<1>7. Laid(target, t, Top.reg)
  BY <1>1, <1>6, TopNested, ProgramExprLaid DEF ExprLaid
<1>8. Laid(T, t, Top.reg) /\ Good(t)
  BY <1>1, <1>5, <1>7, TopNested, LaidTrans DEF Laid, Sound
<1>9. ExprId(T, target) \in Nat /\ ExprId(target, t) \in Nat
  BY <1>6, <1>8, ExprIdNat
<1>10. targetId \in Nat
  BY <1>4, <1>8, <1>9, HeldNat
<1>11. /\ <<targetId, ExprId(target, t)>> \in Seq(Nat) /\ "Assign" \in LeafTags
       /\ NoName \in Names \cup {NoName}
  BY <1>9, <1>10 DEF Tags, Blocks, LeafTags
<1> QED BY <1>1, <1>4, <1>8, <1>11, TopLeaf

(* Whatever a statement without a body registers goes to the body it is in. *)
LEMMA LeafLaid ==
  ASSUME TreeInv, LeafStmt
  PROVE  stack # << >> /\ Laid(T, T', Top.reg)
<1>1. stack # << >>
  BY DEF LeafStmt, RegisterStruct, RegisterEnum, RegisterVar, RegisterAssign,
         RegisterLet, RegisterReturn, RegisterExprStmt, RegisterAtomic, SkipLocal,
         SkipElse, Leaf, Stmt
<1>2. /\ {"Struct", "Enum", "Atomic"} \subseteq LeafTags
      /\ NoName \in Names \cup {NoName} /\ Idents \subseteq Names \cup {NoName}
      /\ << >> \in Seq(Nat)
  BY ProgramAssumption DEF Tags, Blocks, LeafTags
<1>3. ASSUME NEW x \in Idents, RegisterStruct(x) PROVE Laid(T, T', Top.reg)
  BY <1>1, <1>2, <1>3, TopLeafNow DEF RegisterStruct
<1>4. ASSUME NEW x \in Idents, RegisterEnum(x) PROVE Laid(T, T', Top.reg)
  BY <1>1, <1>2, <1>4, TopLeafNow DEF RegisterEnum
<1>5. ASSUME NEW e \in Exprs, RegisterReturn(e) PROVE Laid(T, T', Top.reg)
  BY <1>1, <1>5, ValueLaid DEF RegisterReturn
<1>6. ASSUME NEW e \in Exprs, RegisterExprStmt(e) PROVE Laid(T, T', Top.reg)
  BY <1>1, <1>6, ValueLaid DEF RegisterExprStmt
<1>7. ASSUME RegisterAtomic PROVE Laid(T, T', Top.reg)
  <2>1. Laid(T, RegLiteral(T, Top.reg), Top.reg)
    BY <1>1, TopNested, RegLiteralLaid DEF ExprLaid
  <2> QED BY <1>1, <1>2, <1>7, <2>1, TopLeaf DEF RegisterAtomic
<1>8. ASSUME SkipLocal \/ SkipElse PROVE Laid(T, T', Top.reg)
  <2>1. T' = T
    BY <1>8 DEF SkipLocal, SkipElse
  <2> QED BY <2>1, LaidRefl DEF TreeInv
<1>9. ASSUME NEW x \in Idents, NEW e \in Exprs,
             RegisterVar(x, e) \/ RegisterLet("Let", x, e) \/ RegisterLet("Const", x, e)
      PROVE  Laid(T, T', Top.reg)
  BY <1>9, VarLaid, LetLaid
<1>10. ASSUME NEW d \in Targets, NEW e \in Exprs, RegisterAssign(d, e)
       PROVE  Laid(T, T', Top.reg)
  BY <1>10, AssignLaid
<1>11. Laid(T, T', Top.reg)
  BY <1>3, <1>4, <1>5, <1>6, <1>7, <1>8, <1>9, <1>10 DEF LeafStmt
<1> QED BY <1>1, <1>11

LEMMA LeafNested ==
  ASSUME TreeInv, LeafStmt
  PROVE  StepNested
<1>1. stack # << >> /\ Laid(T, T', Top.reg)
  BY LeafLaid
<1>2. CASE SkipElse
  <2> DEFINE f == [Top EXCEPT !.full = TRUE]
  <2>1. SetTop(f)
    BY <1>2 DEF SkipElse
  <2>2. SameScopes(f, Top)
    BY <1>1, TopFacts DEF TreeInv, SameScopes, FrameType
  <2> HIDE DEF f
  <2> QED BY <1>1, <2>1, <2>2, NestedSameTop
<1>3. CASE ~SkipElse
  <2>1. stack' = stack
    BY <1>3 DEF LeafStmt, RegisterStruct, RegisterEnum, RegisterVar, RegisterAssign,
                RegisterLet, RegisterReturn, RegisterExprStmt, RegisterAtomic,
                SkipLocal, Leaf
  <2> QED BY <1>1, <2>1, NestedSame
<1> QED BY <1>2, <1>3

(* Headers: parameters, their default values, and fields.                  *)
LEMMA HeaderLaid ==
  ASSUME TreeInv, Header
  PROVE  /\ stack # << >> /\ Top.todo # << >> /\ HeaderDone
         /\ Laid(T, T', Top.reg)
<1>1. stack # << >> /\ Top.todo # << >> /\ HeaderDone
  BY DEF Header, RegisterParam, RegisterField, RegisterExternFunc,
         RegisterParamExpr, NextHeader
<1>2. /\ {"Param", "Var", "ExternFunc"} \subseteq LeafTags
      /\ NoName \in Names \cup {NoName} /\ Idents \subseteq Names \cup {NoName}
      /\ << >> \in Seq(Nat) /\ <<0>> \in Seq(Nat)
  BY ProgramAssumption DEF Tags, Blocks, LeafTags
<1>3. ASSUME NEW x \in Idents, RegisterParam(x) PROVE Laid(T, T', Top.reg)
  BY <1>1, <1>2, <1>3, TopLeafNow DEF RegisterParam
<1>4. ASSUME NEW x \in Idents, RegisterField(x) PROVE Laid(T, T', Top.reg)
  BY <1>1, <1>2, <1>4, TopLeafNow DEF RegisterField
<1>5. ASSUME NEW x \in Idents, RegisterExternFunc(x) PROVE Laid(T, T', Top.reg)
  BY <1>1, <1>2, <1>5, TopLeafNow DEF RegisterExternFunc
<1>6. ASSUME RegisterParamExpr PROVE Laid(T, T', Top.reg)
  <2>1. T' \in RegExpr(T, Top.reg, NoName, ZeroedExpr) /\ NoName \in Idents \cup {NoName}
    BY <1>6 DEF RegisterParamExpr
  <2> QED BY <1>1, <2>1, TopNested, ProgramExprLaid DEF ExprLaid
<1>7. Laid(T, T', Top.reg)
  BY <1>3, <1>4, <1>5, <1>6 DEF Header
<1> QED BY <1>1, <1>7

LEMMA HeaderNested ==
  ASSUME TreeInv, Header
  PROVE  StepNested
<1>1. /\ stack # << >> /\ Laid(T, T', Top.reg)
      /\ SetTop([Top EXCEPT !.todo = Tail(@)])
  BY HeaderLaid DEF HeaderDone
<1>2. SameScopes([Top EXCEPT !.todo = Tail(@)], Top)
  BY <1>1, TopFacts DEF TreeInv, SameScopes, FrameType
<1> QED BY <1>1, <1>2, NestedSameTop

(* A handler that opens its body in the tables below, or (a class, a trait) *)
(* where it stands.                                                        *)
LEMMA NestedPushed ==
  ASSUME TreeInv, stack # << >>, Laid(T, T', 0), NEW f, Push(f), FrameNested(f, T'),
         f.out = Top.reg
  PROVE  StepNested
<1>1. Nested(stack, T')
  BY NestedKept
<1>2. StackOK(stack, T') /\ Good(T')
  BY StackGrow DEF TreeInv, IInv, Laid, Wrote, Sound
<1>3. Nested(stack', T')
  BY <1>1, <1>2, NestedPush DEF Push, Top
<1>4. Wrote(T, T', {Top.reg, Top.out})
  <2>1. Wrote(T, T', {0}) /\ 0 \notin ScopesOf(T)
    BY DEF Laid, ScopesOf
  <2> QED BY <2>1 DEF Wrote
<1> QED BY <1>3, <1>4 DEF StepNested, Laid

(* One child of the body, kept by the entry to come or by none.            *)
LEMMA EnterNested ==
  ASSUME TreeInv, stack # << >>, NEW f, Enter(Top.reg, f), f.out = Top.reg,
         f.reg = NewScope, f.kids \in {<< >>, <<NewScope>>}, f.kind \notin Blocks
  PROVE  StepNested
<1>1. /\ Good(T) /\ Sound(T) /\ Top.reg \in ScopesOf(T) /\ Free(T, Top.reg)
  BY TopNested
<1>2. /\ T' = MakeChild(T, Top.reg) /\ Push(f)
  BY DEF Enter
<1>3. Laid(T, T', 0) /\ Pending(T', NewScope, Top.reg) /\ NewScope \notin ScopesOf(T)
  BY <1>1, <1>2, NewChildLaid, MakeChildSound DEF NewScope
<1>4. Top.reg < NewScope
  BY <1>1, GoodNumbers DEF NewScope, ScopesOf
<1>5. Free(T', Top.reg) /\ Free(T', NewScope)
  BY <1>1, <1>3 DEF Laid, Spares, Pending
<1>6. Loose(T', f.kids, f.out)
  BY <1>3 DEF Loose
<1>7. FrameNested(f, T')
  BY <1>1, <1>4, <1>5, <1>6, GoodNumbers DEF FrameNested, NewScope
<1> QED BY <1>2, <1>3, <1>7, NestedPushed

LEMMA HereNested ==
  ASSUME TreeInv, stack # << >>, UNCHANGED T, NEW f, Push(f), f.out = Top.reg,
         f.reg = Top.reg, f.kids = << >>, f.kind \notin Blocks
  PROVE  StepNested
<1>1. /\ Good(T) /\ Sound(T) /\ Top.reg \in ScopesOf(T) /\ Free(T, Top.reg)
  BY TopNested
<1>2. Laid(T, T', 0)
  BY <1>1, LaidRefl
<1>3. Loose(T', f.kids, f.out)
  BY DEF Loose
<1>4. Top.reg <= Top.reg
  BY <1>1, GoodNumbers DEF ScopesOf
<1>5. FrameNested(f, T')
  BY <1>1, <1>3, <1>4 DEF FrameNested
<1> QED BY <1>2, <1>5, NestedPushed

LEMMA BeginOneNested ==
  ASSUME TreeInv, NEW x, NEW p,
         \/ BeginFunction(x, p) \/ BeginClass(x, p) \/ BeginMethod(x, p)
         \/ BeginTrait(x) \/ BeginModule(x) \/ BeginExtern(x) \/ BeginTraitMethod(p)
  PROVE  StepNested
<1>1. stack # << >>
  BY DEF BeginFunction, BeginClass, BeginMethod, BeginTrait, BeginTraitMethod,
         BeginModule, BeginExtern, CompoundStmt, Stmt, BodyRead, Open
<1>2. \/ \E f : /\ Enter(Top.reg, f) /\ f.out = Top.reg /\ f.reg = NewScope
                /\ f.kids \in {<< >>, <<NewScope>>} /\ f.kind \notin Blocks
      \/ \E f : /\ Push(f) /\ UNCHANGED T /\ f.out = Top.reg /\ f.reg = Top.reg
                /\ f.kids = << >> /\ f.kind \notin Blocks
  <2>1. ASSUME NEW kind, kind \notin Blocks, NEW cls, NEW name, NEW kids, NEW todo,
               kids \in {<< >>, <<NewScope>>},
               Enter(Top.reg, Frame(kind, NewScope, Top.reg, cls, name, kids, << >>, todo))
        PROVE  \E f : /\ Enter(Top.reg, f) /\ f.out = Top.reg /\ f.reg = NewScope
                      /\ f.kids \in {<< >>, <<NewScope>>} /\ f.kind \notin Blocks
    <3> DEFINE f == Frame(kind, NewScope, Top.reg, cls, name, kids, << >>, todo)
    <3>1. /\ f.out = Top.reg /\ f.reg = NewScope /\ f.kids = kids /\ f.kind = kind
      BY DEF Frame
    <3>2. Enter(Top.reg, f)
      BY <2>1
    <3> HIDE DEF f
    <3> QED BY <2>1, <3>1, <3>2
  <2>2. ASSUME NEW kind, kind \notin Blocks, NEW cls, NEW name, NEW todo, UNCHANGED T,
               Push(Frame(kind, Top.reg, Top.reg, cls, name, << >>, << >>, todo))
        PROVE  \E f : /\ Push(f) /\ UNCHANGED T /\ f.out = Top.reg /\ f.reg = Top.reg
                      /\ f.kids = << >> /\ f.kind \notin Blocks
    <3> DEFINE f == Frame(kind, Top.reg, Top.reg, cls, name, << >>, << >>, todo)
    <3>1. /\ f.out = Top.reg /\ f.reg = Top.reg /\ f.kids = << >> /\ f.kind = kind
      BY DEF Frame
    <3>2. Push(f) /\ UNCHANGED T
      BY <2>2
    <3> HIDE DEF f
    <3> QED BY <2>2, <3>1, <3>2
  <2>3. {"Function", "Class", "Method", "Trait", "Module", "Extern", "TraitMethod"}
          \cap Blocks = {}
    BY DEF Blocks
  <2>4. CASE BeginFunction(x, p)
    BY <2>1, <2>3, <2>4 DEF BeginFunction
  <2>5. CASE BeginClass(x, p)
    BY <2>2, <2>3, <2>5 DEF BeginClass
  <2>6. CASE BeginMethod(x, p)
    <3>1. PICK name : Enter(Top.reg, Frame("Method", NewScope, Top.reg, Top.cls, name,
                                           <<NewScope>>, << >>, MethodHeader(p)))
      BY <2>6 DEF BeginMethod
    <3>2. "Method" \notin Blocks
      BY DEF Blocks
    <3> QED BY <2>1, <3>1, <3>2
  <2>7. CASE BeginTrait(x)
    BY <2>2, <2>3, <2>7 DEF BeginTrait
  <2>8. CASE BeginModule(x)
    <3>1. Enter(Top.reg, Frame("Module", NewScope, Top.reg, NoName, x, << >>, << >>,
                               << >>))
      BY <2>8 DEF BeginModule
    <3>2. "Module" \notin Blocks
      BY DEF Blocks
    <3> QED BY <2>1, <3>1, <3>2
  <2>9. CASE BeginExtern(x)
    BY <2>1, <2>3, <2>9 DEF BeginExtern
  <2>10. CASE BeginTraitMethod(p)
    <3>1. Enter(Top.reg, Frame("TraitMethod", NewScope, Top.reg, NoName, NoName,
                               << >>, << >>, MethodHeader(p)))
      BY <2>10 DEF BeginTraitMethod
    <3>2. "TraitMethod" \notin Blocks
      BY DEF Blocks
    <3> QED BY <2>1, <3>1, <3>2
  <2> QED BY <2>4, <2>5, <2>6, <2>7, <2>8, <2>9, <2>10
<1> QED BY <1>1, <1>2, EnterNested, HereNested

(* A child made after another one does not take its place.                 *)
LEMMA StillPending ==
  ASSUME NEW t, Sound(t), NEW r \in ScopesOf(t), NEW k, Pending(t, k, r)
  PROVE  Pending(MakeChild(t, r), k, r)
<1>1. /\ Good(t) /\ Good(MakeChild(t, r)) /\ Wrote(t, MakeChild(t, r), {})
      /\ Spares(t, MakeChild(t, r))
  BY MakeChildSound DEF Sound
<1>2. k \in ScopesOf(t) /\ Free(t, k)
  BY DEF Pending
<1> QED BY <1>1, <1>2, PendingKept DEF Spares

(* The condition of a block goes to its first child; none of them is kept. *)
LEMMA BlockExpr ==
  ASSUME NEW t, Sound(t), NEW r \in ScopesOf(t), Free(t, r),
         NEW n, n # r, Pending(t, n, r),
         NEW cls \in Idents \cup {NoName}, NEW e \in Exprs, NEW u \in RegExpr(t, n, cls, e)
  PROVE  /\ Laid(t, u, n) /\ Returned(t, u, n)
         /\ Free(u, r)
         /\ \A k : Pending(t, k, r) => Pending(u, k, r)
<1>1. n \in ScopesOf(t) /\ Free(t, n)
  BY DEF Pending
<1>2. Laid(t, u, n) /\ Returned(t, u, n)
  BY <1>1, ProgramExprLaid DEF ExprLaid
<1>3. Good(t) /\ Good(u) /\ Wrote(t, u, {n}) /\ r \notin {n}
  BY <1>2 DEF Laid, Sound
<1>4. Free(u, r)
  BY <1>2 DEF Laid, Spares
<1>5. ASSUME NEW k, Pending(t, k, r) PROVE Pending(u, k, r)
  <2>1. k \in ScopesOf(t) /\ Free(t, k)
    BY <1>5 DEF Pending
  <2>2. Free(u, k)
    BY <1>2, <2>1 DEF Laid, Spares
  <2> QED BY <1>3, <1>5, <2>2, PendingKept
<1> QED BY <1>2, <1>4, <1>5

(* The frame of a block whose condition is in.                             *)
LEMMA BlockFrame ==
  ASSUME NEW t, Good(t), NEW u, Good(u), NEW r \in ScopesOf(u), Free(u, r),
         NEW n, Returned(t, u, n), NEW f,
         f.out = r, f.reg \in ScopesOf(u), r < f.reg, Free(u, f.reg),
         Loose(u, f.kids, r), f.kids # << >>, f.kids[1] = n, f.ops = <<ExprId(t, u)>>
  PROVE  FrameNested(f, u)
<1>1. f.out <= f.reg
  BY GoodNumbers
<1>2. HeadLocal(u, f.kids, f.ops)
  BY DEF HeadLocal, Returned
<1> QED BY <1>1, <1>2 DEF FrameNested

LEMMA BlockNested ==
  ASSUME TreeInv, NEW kind, NEW e \in Exprs, NEW full, EnterBlock(kind, e, full)
  PROVE  StepNested /\ Laid(T, T', 0)
<1> DEFINE n  == Len(T.parent)
           r  == Top.reg
           t1 == MakeChild(T, r)
           t2 == MakeChild(t1, r)
           ks == <<n + 1, n + 2>>
           f  == [Frame(kind, n + 2, r, Top.cls, NoName, ks, <<ExprId(t2, T')>>, << >>)
                    EXCEPT !.full = full]
<1>1. stack # << >> /\ T' \in RegExpr(t2, n + 1, Top.cls, e) /\ Push(f)
  BY DEF EnterBlock, CompoundStmt, Stmt
<1>2. /\ Good(T) /\ Sound(T) /\ r \in ScopesOf(T) /\ Free(T, r)
      /\ Top.cls \in Idents \cup {NoName} /\ n \in Nat /\ r \in Nat /\ r < n + 1
  BY <1>1, TopNested, GoodNumbers DEF ScopesOf
<1>3. /\ f.out = r /\ f.reg = n + 2 /\ f.kids = ks /\ f.ops = <<ExprId(t2, T')>>
  BY DEF Frame
<1> HIDE DEF r, f
<1>4. /\ Laid(T, t1, 0) /\ Pending(t1, n + 1, r) /\ Len(t1.parent) = n + 1
      /\ n + 1 \notin ScopesOf(T)
  BY <1>2, NewChildLaid, MakeChildSound
<1>5. Sound(t1) /\ Free(t1, r) /\ r \in ScopesOf(t1)
  BY <1>2, <1>4 DEF Laid, Spares, Wrote
<1> HIDE DEF t1
<1>6. /\ Laid(t1, t2, 0) /\ Pending(t2, n + 1, r) /\ Pending(t2, n + 2, r)
  <2>1. (n + 1) + 1 = n + 2
    BY <1>2
  <2>2. Laid(t1, t2, 0) /\ Pending(t2, Len(t1.parent) + 1, r)
    BY <1>5, NewChildLaid, MakeChildSound
  <2>3. Pending(t2, n + 1, r)
    BY <1>4, <1>5, StillPending
  <2> QED BY <1>4, <2>1, <2>2, <2>3
<1>7. Sound(t2) /\ Good(t2) /\ Free(t2, r) /\ r \in ScopesOf(t2)
  BY <1>5, <1>6 DEF Laid, Spares, Wrote, Sound
<1> HIDE DEF t2, n
<1>8. /\ Laid(t2, T', n + 1) /\ Returned(t2, T', n + 1) /\ Free(T', r)
      /\ Pending(T', n + 1, r) /\ Pending(T', n + 2, r)
  <2>1. n + 1 # r
    BY <1>2
  <2> QED BY <1>1, <1>2, <1>6, <1>7, <2>1, BlockExpr
<1>9. Laid(T, T', 0)
  <2>1. Laid(T, t2, 0)
    BY <1>2, <1>4, <1>6, LaidTrans
  <2> QED BY <1>2, <1>4, <1>8, <2>1, LaidTrans
<1>10. Good(T') /\ r \in ScopesOf(T') /\ n + 2 \in ScopesOf(T') /\ Free(T', n + 2)
  BY <1>2, <1>8, <1>9 DEF Laid, Sound, Wrote, Pending
<1>11. Loose(T', ks, r) /\ ks # << >> /\ ks[1] = n + 1
  <2>1. \A i \in DOMAIN ks : Pending(T', ks[i], r)
    BY <1>8
  <2>2. \A i, j \in DOMAIN ks : ks[i] = ks[j] => i = j
    BY <1>2
  <2> QED BY <2>1, <2>2 DEF Loose
<1>12. r < n + 2
  BY <1>2
<1> HIDE DEF ks
<1>13. FrameNested(f, T')
  BY <1>3, <1>7, <1>8, <1>10, <1>11, <1>12, BlockFrame
<1>14. f.out = Top.reg
  BY <1>3 DEF r
<1> QED BY <1>1, <1>9, <1>13, <1>14, NestedPushed

LEMMA IfNested ==
  ASSUME TreeInv, stack # << >>, NEW kind, NEW e \in Exprs, EnterIf(kind, e)
  PROVE  /\ StepNested /\ Laid(T, T', 0)
         /\ T'.table[Len(T.parent) + 3] = EmptyTable
<1> DEFINE n  == Len(T.parent)
           r  == Top.reg
           t1 == MakeChild(T, r)
           t2 == MakeChild(t1, r)
           t3 == MakeChild(t2, r)
           ks == <<n + 1, n + 2, n + 3>>
           f  == Frame(kind, n + 2, r, Top.cls, NoName, ks, <<ExprId(t3, T')>>, << >>)
           g  == [Top EXCEPT !.full = InElse(Top)]
           s  == [stack EXCEPT ![Len(stack)] = g]
<1>1. T' \in RegExpr(t3, n + 1, Top.cls, e) /\ stack' = Append(s, f)
  BY DEF EnterIf, Top
<1>2. /\ Good(T) /\ Sound(T) /\ r \in ScopesOf(T) /\ Free(T, r)
      /\ Top.cls \in Idents \cup {NoName} /\ n \in Nat /\ r \in Nat /\ r < n + 1
  BY TopNested, GoodNumbers DEF ScopesOf
<1>3. /\ f.out = r /\ f.reg = n + 2 /\ f.kids = ks /\ f.ops = <<ExprId(t3, T')>>
  BY DEF Frame
<1> HIDE DEF r, f
<1>4. /\ Laid(T, t1, 0) /\ Pending(t1, n + 1, r) /\ Len(t1.parent) = n + 1
      /\ n + 1 \notin ScopesOf(T)
  BY <1>2, NewChildLaid, MakeChildSound
<1>5. Sound(t1) /\ Free(t1, r) /\ r \in ScopesOf(t1)
  BY <1>2, <1>4 DEF Laid, Spares, Wrote
<1> HIDE DEF t1
<1>6. /\ Laid(t1, t2, 0) /\ Pending(t2, n + 1, r) /\ Pending(t2, n + 2, r)
      /\ Len(t2.parent) = n + 2
  <2>1. (n + 1) + 1 = n + 2
    BY <1>2
  <2>2. /\ Laid(t1, t2, 0) /\ Pending(t2, Len(t1.parent) + 1, r)
        /\ Len(t2.parent) = Len(t1.parent) + 1
    BY <1>5, NewChildLaid, MakeChildSound
  <2>3. Pending(t2, n + 1, r)
    BY <1>4, <1>5, StillPending
  <2> QED BY <1>4, <2>1, <2>2, <2>3
<1>7. Sound(t2) /\ Free(t2, r) /\ r \in ScopesOf(t2)
  BY <1>5, <1>6 DEF Laid, Spares, Wrote
<1> HIDE DEF t2
<1>8. /\ Laid(t2, t3, 0) /\ Pending(t3, n + 1, r) /\ Pending(t3, n + 2, r)
      /\ Pending(t3, n + 3, r) /\ t3.table[n + 3] = EmptyTable
  <2>1. (n + 2) + 1 = n + 3
    BY <1>2
  <2>2. /\ Laid(t2, t3, 0) /\ Pending(t3, Len(t2.parent) + 1, r)
        /\ t3.table[Len(t2.parent) + 1] = EmptyTable
    BY <1>7, NewChildLaid, MakeChildSound
  <2>3. Pending(t3, n + 1, r) /\ Pending(t3, n + 2, r)
    BY <1>6, <1>7, StillPending
  <2> QED BY <1>6, <2>1, <2>2, <2>3
<1>9. Sound(t3) /\ Good(t3) /\ Free(t3, r) /\ r \in ScopesOf(t3)
  BY <1>7, <1>8 DEF Laid, Spares, Wrote, Sound
<1> HIDE DEF t3, n
<1>10. /\ Laid(t3, T', n + 1) /\ Returned(t3, T', n + 1) /\ Free(T', r)
       /\ Pending(T', n + 1, r) /\ Pending(T', n + 2, r) /\ Pending(T', n + 3, r)
  <2>1. n + 1 # r
    BY <1>2
  <2> QED BY <1>1, <1>2, <1>8, <1>9, <2>1, BlockExpr
<1>11. Laid(T, T', 0)
  <2>1. Laid(T, t2, 0)
    BY <1>2, <1>4, <1>6, LaidTrans
  <2>2. Laid(T, t3, 0)
    BY <1>2, <1>8, <2>1, LaidTrans
  <2> QED BY <1>2, <1>4, <1>10, <2>2, LaidTrans
<1>12. Good(T') /\ r \in ScopesOf(T') /\ n + 2 \in ScopesOf(T') /\ Free(T', n + 2)
  BY <1>2, <1>10, <1>11 DEF Laid, Sound, Wrote, Pending
<1>13. Loose(T', ks, r) /\ ks # << >> /\ ks[1] = n + 1
  <2>1. \A i \in DOMAIN ks : Pending(T', ks[i], r)
    BY <1>10
  <2>2. \A i, j \in DOMAIN ks : ks[i] = ks[j] => i = j
    BY <1>2
  <2> QED BY <2>1, <2>2 DEF Loose
<1>14. r < n + 2
  BY <1>2
<1> HIDE DEF ks
<1>15. FrameNested(f, T')
  BY <1>3, <1>9, <1>10, <1>12, <1>13, <1>14, BlockFrame
<1>16. Nested(stack, T') /\ StackOK(stack, T') /\ Len(stack) \in DOMAIN stack
  <2>1. StackOK(stack, T')
    BY <1>11, StackGrow DEF TreeInv, IInv, Laid, Wrote
  <2> QED BY <1>11, <2>1, NestedKept DEF StackOK
<1>17. Top \in FrameType(T') /\ FrameShape(Top) /\ FrameNested(Top, T')
  BY <1>16, StackTop DEF Nested, Top
<1>18. g \in FrameType(T') /\ FrameShape(g) /\ SameScopes(g, Top)
  BY <1>17 DEF FrameType, FrameShape, InElse, SameScopes
<1>19. FrameNested(g, T') /\ g.out = Top.out
  BY <1>17, <1>18 DEF FrameNested, SameScopes
<1> HIDE DEF g
<1>20. StackOK(s, T') /\ Nested(s, T')
  BY <1>16, <1>18, <1>19, StackSetTop, NestedSetTop DEF Top
<1>21. s # << >> /\ f.out = s[Len(s)].reg
  <2>1. Len(s) = Len(stack) /\ s[Len(s)] = g /\ s # << >>
    BY <1>16, <1>20 DEF StackOK
  <2>2. g.reg = Top.reg
    BY <1>18 DEF SameScopes
  <2> QED BY <1>3, <2>1, <2>2 DEF r
<1> HIDE DEF s
<1>22. Nested(stack', T')
  BY <1>1, <1>12, <1>15, <1>20, <1>21, NestedPush
<1>23. Wrote(T, T', {Top.reg, Top.out})
  <2>1. Wrote(T, T', {0}) /\ 0 \notin ScopesOf(T)
    BY <1>11 DEF Laid, ScopesOf
  <2> QED BY <2>1 DEF Wrote
<1>24. T'.table[n + 3] = EmptyTable
  <2>1. n + 3 \in ScopesOf(t3) /\ n + 3 # n + 1
    BY <1>2, <1>8 DEF Pending
  <2> QED BY <1>8, <1>10, <2>1 DEF Laid, Wrote
<1> QED BY <1>11, <1>22, <1>23, <1>24 DEF StepNested, Laid, n

LEMMA ElseNested ==
  ASSUME TreeInv, BeginElse
  PROVE  StepNested
<1> DEFINE f == [Top EXCEPT !.reg = Top.kids[3]]
<1>1. stack # << >> /\ Top.kind \in {"If", "Elif"} /\ UNCHANGED T /\ SetTop(f)
  BY DEF BeginElse, Open
<1>2. /\ Top \in FrameType(T) /\ FrameNested(Top, T) /\ Sound(T) /\ Good(T)
      /\ Top.kids \in Seq(ScopesOf(T)) /\ Len(Top.kids) = 3
  BY <1>1, TopNested, TopFacts DEF TreeInv, FrameShape
<1>3. Pending(T, Top.kids[3], Top.out)
  BY <1>2 DEF FrameNested, Loose
<1>4. /\ Top.kids[3] \in ScopesOf(T) /\ T.parent[Top.kids[3]] = Top.out
      /\ Free(T, Top.kids[3])
  BY <1>3 DEF Pending
<1>5. Top.out < Top.kids[3]
  BY <1>2, <1>4 DEF Good, ParentsOlder
<1>6. Top.out <= Top.kids[3]
  BY <1>2, <1>4, <1>5, GoodNumbers DEF FrameType
<1>7. /\ f.out = Top.out /\ f.reg = Top.kids[3] /\ f.kids = Top.kids
      /\ f.ops = Top.ops /\ f.kind = Top.kind
  BY <1>2 DEF FrameType
<1> HIDE DEF f
<1>8. FrameNested(f, T')
  BY <1>1, <1>2, <1>4, <1>5, <1>6, <1>7 DEF FrameNested
<1>9. Laid(T, T', 0)
  BY <1>1, <1>2, LaidRefl
<1> QED BY <1>1, <1>7, <1>8, <1>9, NestedTop

(* The scope of another arm: the entry of the match will keep it too.      *)
LEMMA ArmNested ==
  ASSUME TreeInv, BeginArm
  PROVE  StepNested
<1> DEFINE f == [Top EXCEPT !.reg = NewScope, !.kids = Append(@, NewScope), !.full = FALSE]
<1>1. /\ stack # << >> /\ Top.kind = "Match" /\ T' = MakeChild(T, Top.out) /\ SetTop(f)
  BY DEF BeginArm, Open
<1>2. /\ Top \in FrameType(T) /\ FrameNested(Top, T) /\ Sound(T) /\ Good(T)
      /\ Top.kids \in Seq(ScopesOf(T)) /\ Top.out \in ScopesOf(T) /\ Free(T, Top.out)
  BY <1>1, TopNested, TopFacts DEF TreeInv
<1>3. /\ Laid(T, T', 0) /\ Pending(T', NewScope, Top.out) /\ NewScope \notin ScopesOf(T)
  BY <1>1, <1>2, NewChildLaid, MakeChildSound DEF NewScope
<1>4. /\ f.out = Top.out /\ f.reg = NewScope /\ f.kids = Append(Top.kids, NewScope)
      /\ f.ops = Top.ops /\ f.kind = "Match"
  BY <1>1, <1>2 DEF FrameType
<1> HIDE DEF f
<1>5. ASSUME NEW i \in DOMAIN f.kids
      PROVE  \/ i \in DOMAIN Top.kids /\ f.kids[i] = Top.kids[i]
             \/ i = Len(Top.kids) + 1 /\ f.kids[i] = NewScope
  <2>1. /\ Len(Top.kids) \in Nat /\ DOMAIN Top.kids = 1..Len(Top.kids)
        /\ DOMAIN Append(Top.kids, NewScope) = 1..(Len(Top.kids) + 1)
        /\ Append(Top.kids, NewScope)[Len(Top.kids) + 1] = NewScope
        /\ \A j \in 1..Len(Top.kids) : Append(Top.kids, NewScope)[j] = Top.kids[j]
    BY <1>2
  <2>2. i \in 1..Len(Top.kids) \/ i = Len(Top.kids) + 1
    BY <1>4, <2>1
  <2>3. CASE i \in 1..Len(Top.kids)
    BY <1>4, <2>1, <2>3
  <2>4. CASE i = Len(Top.kids) + 1
    <3>1. f.kids[Len(Top.kids) + 1] = NewScope
      BY <1>4, <2>1
    <3> QED BY <2>4, <3>1
  <2> QED BY <2>2, <2>3, <2>4
<1>6. \A i \in DOMAIN Top.kids : Pending(T, Top.kids[i], Top.out)
  BY <1>2 DEF FrameNested, Loose
<1>7. \A i \in DOMAIN Top.kids : Pending(T', Top.kids[i], Top.out)
  BY <1>1, <1>2, <1>6, StillPending
<1>8. \A i \in DOMAIN Top.kids : Top.kids[i] # NewScope
  BY <1>3, <1>6 DEF Pending
<1>9. Loose(T', f.kids, f.out)
  <2>1. \A i \in DOMAIN f.kids : Pending(T', f.kids[i], f.out)
    BY <1>3, <1>4, <1>5, <1>7
  <2>2. ASSUME NEW i \in DOMAIN f.kids, NEW j \in DOMAIN f.kids, f.kids[i] = f.kids[j]
        PROVE  i = j
    <3>1. \A m, n \in DOMAIN Top.kids : Top.kids[m] = Top.kids[n] => m = n
      BY <1>2 DEF FrameNested, Loose
    <3> QED BY <1>5, <1>8, <2>2, <3>1
  <2> QED BY <2>1, <2>2 DEF Loose
<1>10. f.out < f.reg /\ f.out <= f.reg
  BY <1>2, <1>4, GoodNumbers DEF NewScope, ScopesOf
<1>11. HeadLocal(T', f.kids, f.ops)
  <2>1. HeadLocal(T, Top.kids, Top.ops)
    BY <1>1, <1>2 DEF FrameNested, Blocks
  <2>2. f.kids # << >> /\ f.kids[1] = Top.kids[1] /\ Top.kids[1] \in ScopesOf(T)
    BY <1>2, <1>4, <2>1 DEF HeadLocal
  <2> QED BY <1>3, <1>4, <2>1, <2>2 DEF HeadLocal, HasId, Laid, Wrote
<1>12. Free(T', f.out) /\ Free(T', f.reg)
  BY <1>2, <1>3, <1>4 DEF Laid, Spares, Pending
<1>13. FrameNested(f, T')
  BY <1>9, <1>10, <1>11, <1>12 DEF FrameNested
<1> QED BY <1>1, <1>3, <1>4, <1>13, NestedTop

LEMMA ExternFuncNested ==
  ASSUME TreeInv, NEW p, BeginExternFunc(p)
  PROVE  StepNested
<1> DEFINE f == [Top EXCEPT !.todo = Params(p) \o <<"F">>]
<1>1. stack # << >> /\ UNCHANGED T /\ SetTop(f)
  BY DEF BeginExternFunc, BodyRead, Open
<1>2. SameScopes(f, Top)
  BY <1>1, TopFacts DEF TreeInv, SameScopes, FrameType
<1>3. Laid(T, T', 0)
  BY <1>1, LaidRefl DEF TreeInv
<1> HIDE DEF f
<1> QED BY <1>1, <1>2, <1>3, NestedSameTop

LEMMA BeginNested ==
  ASSUME TreeInv, Begin
  PROVE  StepNested
<1>1. CASE \E x \in Idents, p \in 0..MaxParams :
             BeginFunction(x, p) \/ BeginClass(x, p) \/ BeginMethod(x, p)
  BY <1>1, BeginOneNested
<1>2. CASE \E p \in 0..MaxParams : BeginTraitMethod(p) \/ BeginExternFunc(p)
  BY <1>2, BeginOneNested, ExternFuncNested
<1>3. CASE \E x : BeginTrait(x) \/ BeginModule(x) \/ BeginExtern(x)
  BY <1>3, BeginOneNested
<1>4. CASE \E e \in Exprs : BeginWhile(e) \/ BeginFor(e) \/ BeginMatch(e)
  BY <1>4, BlockNested DEF BeginWhile, BeginFor, BeginMatch
<1>5. CASE \E e \in Exprs : BeginIf(e) \/ BeginElif(e)
  BY <1>5, IfNested DEF BeginIf, BeginElif, CompoundStmt, Stmt
<1> QED BY <1>1, <1>2, <1>3, <1>4, <1>5, ElseNested, ArmNested DEF Begin

(* A handler is done: its entry takes the scopes that were waiting for it,  *)
(* which no other handler knows of.                                        *)
LEMMA ClosedNested ==
  ASSUME TreeInv, stack # << >>, NEW tag \in Tags \ {"Return", "ExprStmt", "Call"},
         tag \in Blocks => Top.kind = tag, Close(tag)
  PROVE  StepNested
<1> DEFINE o == Top.out
           e == NewEntry(tag, Top.name, NoName, Top.kids, Top.ops)
<1>1. T' = Insert(T, o, e) /\ Pop
  BY DEF Close
<1>2. /\ Top \in FrameType(T) /\ FrameNested(Top, T) /\ Sound(T) /\ Good(T)
      /\ o \in ScopesOf(T) /\ Free(T, o)
      /\ Top.name \in Names \cup {NoName} /\ Top.kids \in Seq(ScopesOf(T))
      /\ Top.ops \in Seq(Nat) /\ Top.reg \in ScopesOf(T)
  BY TopNested, TopFacts DEF TreeInv
<1>3. e.kids = Top.kids /\ e.ops = Top.ops /\ e.tag = tag
  BY DEF NewEntry
<1>4. e \in Entry
  <2>1. Top.kids \in Seq(Nat)
    BY <1>2, SeqNat
  <2> QED BY <1>2, <2>1, NewEntryType
<1> HIDE DEF e, o
<1>5. Loose(T, e.kids, o)
  BY <1>2, <1>3 DEF FrameNested, o
<1>6. EntryLocal(T, o, e)
  BY <1>2, <1>3 DEF EntryLocal, FrameNested
<1>7. /\ Sound(T') /\ Wrote(T, T', {o}) /\ ScopesOf(T') = ScopesOf(T) /\ Good(T')
      /\ \A k : Free(T, k) /\ (\A i \in DOMAIN e.kids : e.kids[i] # k) => Free(T', k)
  BY <1>1, <1>2, <1>4, <1>5, <1>6, InsertSound DEF Sound
<1>8. \A i \in DOMAIN e.kids : T.parent[e.kids[i]] = o /\ o < e.kids[i]
  BY <1>2, <1>5 DEF Loose, Pending, Good, ParentsOlder
<1>9. /\ stack \in Seq(FrameType(T)) /\ Len(stack) \in Nat \ {0}
      /\ DOMAIN stack = 1..Len(stack) /\ Nested(stack, T)
  BY DEF TreeInv, IInv, StackOK
<1> DEFINE v == SubSeq(stack, 1, Len(stack) - 1)
<1>10. /\ DOMAIN v = 1..(Len(stack) - 1)
       /\ \A i \in DOMAIN v : v[i] = stack[i] /\ i \in DOMAIN stack /\ i < Len(stack)
  BY <1>9
<1>11. Nested(v, T)
  BY NestedPop DEF TreeInv, IInv
<1>12. stack' = v
  BY <1>1 DEF Pop
<1> HIDE DEF v
<1>13. ASSUME NEW i \in DOMAIN v PROVE FrameNested(v[i], T')
  <2> DEFINE f == v[i]
  <2>1. f \in FrameType(T) /\ FrameNested(f, T) /\ f.reg <= o
    <3>1. f = stack[i] /\ i \in DOMAIN stack /\ i < Len(stack) /\ Len(stack) \in DOMAIN stack
      BY <1>9, <1>10
    <3>2. f.reg <= stack[Len(stack)].out
      BY <1>9, <3>1 DEF Nested
    <3> QED BY <1>9, <3>1, <3>2 DEF Nested, o, Top
  <2> HIDE DEF f
  <2>2. /\ f.out \in Nat /\ f.reg \in Nat /\ o \in Nat /\ f.out <= f.reg
        /\ f.kids # << >> => f.out < f.reg
    BY <1>2, <2>1, GoodNumbers DEF FrameType, FrameNested
  <2>3. \A j \in DOMAIN e.kids : e.kids[j] \in Nat
    BY <1>2, <1>3, GoodNumbers
  <2>4. Free(T', f.out) /\ Free(T', f.reg)
    <3>1. \A j \in DOMAIN e.kids : e.kids[j] # f.out /\ e.kids[j] # f.reg
      BY <1>8, <2>1, <2>2, <2>3
    <3> QED BY <1>7, <2>1, <3>1 DEF FrameNested
  <2>5. ASSUME NEW k \in DOMAIN f.kids PROVE Free(T', f.kids[k])
    <3>1. f.kids # << >>
      OBVIOUS
    <3>2. f.out < o
      BY <2>1, <2>2, <3>1
    <3>3. T.parent[f.kids[k]] = f.out /\ Free(T, f.kids[k])
      BY <2>1 DEF FrameNested, Loose, Pending
    <3>4. \A j \in DOMAIN e.kids : e.kids[j] # f.kids[k]
      BY <1>8, <2>2, <3>2, <3>3
    <3> QED BY <1>7, <3>3, <3>4
  <2>6. f.kids # << >> => f.out \notin {o}
    BY <2>1, <2>2
  <2>7. FrameNested(f, T')
    BY <1>2, <1>7, <2>1, <2>4, <2>5, <2>6, FrameKept
  <2> QED BY <2>7 DEF f
<1>14. Nested(stack', T')
  BY <1>11, <1>12, <1>13 DEF Nested
<1>15. Wrote(T, T', {Top.reg, Top.out})
  BY <1>7 DEF Wrote, o
<1> QED BY <1>7, <1>14, <1>15 DEF StepNested

LEMMA EndOpen == ASSUME End PROVE stack # << >>
BY DEF End, EndFunction, EndMethod, EndClass, EndTraitMethod, EndTrait, EndModule,
       EndExtern, EndIf, EndElif, EndWhile, EndFor, EndMatch, EndBody, BodyRead, Open

LEMMA BeginOpen == ASSUME Begin PROVE stack # << >>
BY DEF Begin, BeginFunction, BeginClass, BeginMethod, BeginTraitMethod,
       BeginExternFunc, BeginTrait, BeginModule, BeginExtern, BeginIf, BeginElif,
       BeginWhile, BeginFor, BeginMatch, EnterBlock, BeginElse, BeginArm,
       CompoundStmt, Stmt, BodyRead, Open

LEMMA EndNested ==
  ASSUME TreeInv, End
  PROVE  StepNested
<1>1. stack # << >>
  BY EndOpen
<1>2. /\ {"Function", "Trait", "Module", "Extern", "If", "Elif", "While", "For", "Match"}
           \subseteq Tags \ {"Return", "ExprStmt", "Call"}
      /\ \A tag \in {"Function", "Trait", "Module", "Extern"} : tag \notin Blocks
  BY DEF Tags, Blocks
<1>3. CASE EndFunction \/ EndMethod
  BY <1>1, <1>2, <1>3, ClosedNested DEF EndFunction, EndMethod
<1>4. CASE EndTrait \/ EndModule \/ EndExtern
  BY <1>1, <1>2, <1>4, ClosedNested DEF EndTrait, EndModule, EndExtern
<1>5. CASE EndIf \/ EndElif
  BY <1>1, <1>2, <1>5, ClosedNested DEF EndIf, EndElif, Open
<1>6. CASE EndWhile \/ EndFor \/ EndMatch
  BY <1>1, <1>2, <1>6, ClosedNested DEF EndWhile, EndFor, EndMatch, Open
<1>7. CASE EndClass \/ EndTraitMethod \/ EndBody
  BY <1>1, <1>7, NestedPopped DEF EndClass, EndTraitMethod, EndBody
<1> QED BY <1>3, <1>4, <1>5, <1>6, <1>7 DEF End

LEMMA StepNestedAlways ==
  ASSUME TreeInv, [Next]_vars
  PROVE  StepNested
<1>1. CASE Register
  BY <1>1, LeafNested, HeaderNested, BeginNested, EndNested DEF Register
<1>2. CASE UNCHANGED vars
  <2>1. Wrote(T, T', {Top.reg, Top.out})
    BY <1>2, WroteRefl DEF vars, TreeInv, IInv
  <2> QED BY <1>2, <2>1 DEF vars, TreeInv, StepNested
<1> QED BY <1>1, <1>2 DEF Next, Terminated

LEMMA InitTreeInv == Init => TreeInv
<1> SUFFICES ASSUME Init PROVE TreeInv
  OBVIOUS
<1>1. IInv
  BY InitIInv
<1>2. ScopesOf(T) = {1} /\ DOMAIN T.table[1].ids = {}
  BY DEF Init, InitTables, ScopesOf, EmptyTable
<1>3. Tree(T) /\ Local(T) /\ \A k : Free(T, k)
  BY <1>2 DEF Tree, KidsMade, BodiesBefore, OwnedOnce, Local, Free
<1> DEFINE f == Frame("Root", 1, 1, NoName, NoName, << >>, << >>, << >>)
<1>4. /\ f.reg = 1 /\ f.out = 1 /\ f.kids = << >> /\ f.kind = "Root"
  BY DEF Frame
<1>5. stack = <<f>>
  BY DEF Init
<1> HIDE DEF f
<1>6. Loose(T, f.kids, f.out)
  BY <1>4 DEF Loose
<1>7. FrameNested(f, T)
  BY <1>3, <1>4, <1>6 DEF FrameNested, Blocks
<1>8. Nested(stack, T)
  BY <1>5, <1>7 DEF Nested
<1> QED BY <1>1, <1>3, <1>8 DEF TreeInv, Sound, IInv

(* The tree of scopes and the nesting of the handlers, in every reachable   *)
(* state of the pass and for every program and bound.                      *)
THEOREM TreeInvariance == Spec => []TreeInv
<1>1. TreeInv /\ [Next]_vars => TreeInv'
  <2> SUFFICES ASSUME TreeInv, [Next]_vars PROVE TreeInv'
    OBVIOUS
  <2>1. StepNested
    BY StepNestedAlways
  <2>2. IInv'
    BY StepPreserves DEF TreeInv, StepOK, IInv, Grown
  <2> QED BY <2>1, <2>2 DEF TreeInv, StepNested
<1> QED BY InitTreeInv, <1>1, PTL DEF Spec

(* Everything a statement keeps in a scope of its own was registered after  *)
(* its earlier siblings and before itself, so that lower_stmt's order by id *)
(* is the order of the source, however deep the program nests.             *)
THEOREM BodiesComeFirst == Spec => []BodyBeforeOwner
<1>1. TreeInv => BodyBeforeOwner
  BY DEF TreeInv, Sound, Tree, BodiesBefore, BeforeOwner, BodyBeforeOwner
<1> QED BY <1>1, TreeInvariance, PTL

(* No two statements, and no two blocks of one statement, ever share a      *)
(* scope: every Register make_child returns has at most one owner.         *)
THEOREM ScopesOwnedOnce == Spec => []OneOwner
<1>1. TreeInv => OneOwner
  BY DEF TreeInv, Sound, Tree, OwnedOnce, OneOwner
<1> QED BY <1>1, TreeInvariance, PTL

(* ir.c finds the condition of a block and the value of a statement in the  *)
(* one table it looks in, whatever the expression registered on the way.   *)
THEOREM OperandsFound == Spec => []OperandsLocal
<1>1. TreeInv => OperandsLocal
  <2> SUFFICES ASSUME Local(T) PROVE OperandsLocal
    BY DEF TreeInv, Sound
  <2> QED BY DEF Local, EntryLocal, HeadLocal, Blocks, OperandsLocal
<1> QED BY <1>1, TreeInvariance, PTL

(* The arguments of a call are in the child it keeps, or beside it if that   *)
(* child is empty, for the three ways calls are registered.                *)
THEOREM ArgumentsFound == Spec => []ArgumentsLocal
<1>1. TreeInv => ArgumentsLocal
  <2> SUFFICES ASSUME Local(T) PROVE ArgumentsLocal
    BY DEF TreeInv, Sound
  <2> QED BY DEF Local, EntryLocal, ArgumentScope, ArgumentsLocal
<1> QED BY <1>1, TreeInvariance, PTL

(* A handler writes to its body's table and its own, or to scopes it makes:  *)
(* a finished body, and the scope of an outer handler, are never touched.  *)
THEOREM OthersFrozen == Spec => OtherScopesFrozen
<1> DEFINE A == \A r \in ScopesOf(T) :
                  stack = << >> \/ r \notin {Top.reg, Top.out} =>
                    T'.table[r] = T.table[r]
<1>1. TreeInv /\ [Next]_vars => A
  <2> SUFFICES ASSUME TreeInv, [Next]_vars PROVE A
    OBVIOUS
  <2>1. CASE stack # << >>
    BY <2>1, StepNestedAlways DEF StepNested, Wrote
  <2>2. CASE stack = << >>
    <3>1. ~LeafStmt /\ ~Header /\ ~Begin /\ ~End
      BY <2>2, LeafLaid, HeaderLaid, BeginOpen, EndOpen
    <3> QED BY <3>1 DEF Next, Register, Terminated, vars
  <2> QED BY <2>1, <2>2
<1>2. TreeInv /\ [Next]_vars => [A]_vars
  BY <1>1
<1> HIDE DEF A
<1>3. Spec => [][A]_vars
  BY <1>2, TreeInvariance, PTL DEF Spec
<1> QED BY <1>3 DEF A, OtherScopesFrozen
-------------------------------------------------------------------------------
(* Names waiting for a method, and else blocks waiting for a node          *)

(* The name an open method will be declared under is free outside its body. *)
MethodNamed(f, t) ==
  f.kind = "Method" => f.out < f.reg /\ GetId(t, f.out, f.name) = 0

(* Nothing is in the else scope of an if before its one node is read.      *)
ElseWaits(f, t) ==
  f.kind \in {"If", "Elif"} =>
    /\ f.todo = << >>
    /\ ~(InElse(f) /\ f.full) => t.table[f.kids[3]] = EmptyTable

(* An inner handler works in one of the waiting scopes of an outer one only *)
(* if that is the body the outer one is reading.                           *)
Apart(s) ==
  \A i, j \in DOMAIN s : i < j =>
    \A k \in DOMAIN s[i].kids :
      s[i].kids[k] \in {s[j].reg, s[j].out} => s[i].kids[k] = s[i].reg

(* The else scope register_stmt passed over belongs to the innermost open   *)
(* if, which accepts nothing more, ...                                     *)
LostOpen(r, s) ==
  /\ s # << >>
  /\ InElse(s[Len(s)]) /\ s[Len(s)].full /\ s[Len(s)].reg = r

(* ... or to an if that is done.                                           *)
LostOwned(r, t) ==
  \E o \in ScopesOf(t) : \E j \in DOMAIN t.table[o].ids :
    /\ t.table[o].ids[j].tag \in {"If", "Elif"}
    /\ 3 \in DOMAIN t.table[o].ids[j].kids
    /\ t.table[o].ids[j].kids[3] = r

LostElse(s, t, l) ==
  \A r \in l : t.table[r] = EmptyTable /\ (LostOpen(r, s) \/ LostOwned(r, t))

Handlers(s, t, l) ==
  /\ \A i \in DOMAIN s : MethodNamed(s[i], t) /\ ElseWaits(s[i], t)
  /\ \A i \in DOMAIN s : i < Len(s) /\ InElse(s[i]) => s[i].full
  /\ Apart(s)
  /\ "Local" \notin StmtKinds => LostElse(s, t, l)

HandlerInv == TreeInv /\ Handlers(stack, T, lost)

(* The third block of an open if is a scope that waits.                    *)
LEMMA ElseScope ==
  ASSUME TreeInv, NEW i \in DOMAIN stack, stack[i].kind \in {"If", "Elif"}
  PROVE  /\ 3 \in DOMAIN stack[i].kids
         /\ stack[i].kids[3] \in ScopesOf(T)
         /\ T.parent[stack[i].kids[3]] = stack[i].out
         /\ stack[i].out < stack[i].kids[3]
         /\ stack[i].out < stack[i].reg
<1> DEFINE f == stack[i]
<1>1. f \in FrameType(T) /\ FrameShape(f) /\ FrameNested(f, T)
  BY DEF TreeInv, IInv, StackOK, Nested
<1>2. Good(T)
  BY DEF TreeInv, IInv
<1> HIDE DEF f
<1>3. Len(f.kids) = 3 /\ f.kids \in Seq(ScopesOf(T))
  BY <1>1 DEF FrameShape, FrameType, f
<1>4. 3 \in DOMAIN f.kids /\ f.kids # << >>
  BY <1>3, SMTT(20)
<1>5. Pending(T, f.kids[3], f.out)
  BY <1>1, <1>4 DEF FrameNested, Loose
<1>6. f.kids[3] \in ScopesOf(T) /\ T.parent[f.kids[3]] = f.out
  BY <1>5 DEF Pending
<1>7. f.out < f.kids[3]
  BY <1>2, <1>6 DEF Good, ParentsOlder
<1> QED BY <1>1, <1>4, <1>6, <1>7 DEF FrameNested, f

(* The handlers around the innermost one.                                  *)
LEMMA OuterKept ==
  ASSUME HandlerInv, StepNested, stack # << >>, NEW i \in DOMAIN stack, i < Len(stack)
  PROVE  MethodNamed(stack[i], T') /\ ElseWaits(stack[i], T')
<1> DEFINE f == stack[i]
<1>1. /\ Good(T) /\ Good(T') /\ Wrote(T, T', {Top.reg, Top.out})
      /\ f \in FrameType(T) /\ FrameNested(f, T)
      /\ MethodNamed(f, T) /\ ElseWaits(f, T) /\ (InElse(f) => f.full)
  BY DEF HandlerInv, Handlers, TreeInv, IInv, StackOK, Nested, StepNested, Sound
<1>2. f.out \in ScopesOf(T) /\ f.reg \in ScopesOf(T) /\ f.out \in Nat /\ f.reg \in Nat
  BY <1>1, GoodNumbers DEF FrameType
<1>3. f.reg <= Top.out /\ Top.out <= Top.reg /\ Top.out \in Nat /\ Top.reg \in Nat
  <2>1. Len(stack) \in DOMAIN stack
    BY DEF HandlerInv, TreeInv, IInv, StackOK
  <2> QED BY <1>1, <2>1, TopNested, GoodNumbers DEF HandlerInv, TreeInv, Nested, Top,
             FrameNested
<1>4. ASSUME f.kind = "Method" PROVE f.out < f.reg /\ GetId(T', f.out, f.name) = 0
  <2>1. f.out < f.reg /\ GetId(T, f.out, f.name) = 0
    BY <1>1, <1>4 DEF MethodNamed
  <2>2. \A s \in {Top.reg, Top.out} \cap ScopesOf(T) : f.out < s
    BY <1>2, <1>3, <2>1
  <2>3. GetId(T', f.out, f.name) = GetId(T, f.out, f.name)
    BY <1>1, <1>2, <2>2, GetIdKept
  <2> QED BY <2>1, <2>3
<1>5. ASSUME f.kind \in {"If", "Elif"}, ~(InElse(f) /\ f.full)
      PROVE  T'.table[f.kids[3]] = EmptyTable
  <2>1. T.table[f.kids[3]] = EmptyTable /\ ~InElse(f)
    BY <1>1, <1>5 DEF ElseWaits
  <2>2. 3 \in DOMAIN f.kids /\ f.kids[3] \in ScopesOf(T) /\ f.kids[3] # f.reg
    BY <1>5, <2>1, ElseScope DEF HandlerInv, InElse
  <2>3. f.kids[3] \notin {Top.reg, Top.out}
    <3>1. Len(stack) \in DOMAIN stack
      BY DEF HandlerInv, TreeInv, IInv, StackOK
    <3> QED BY <2>2, <3>1 DEF HandlerInv, Handlers, Apart, Top
  <2> QED BY <1>1, <2>1, <2>2, <2>3 DEF Wrote
<1> QED BY <1>1, <1>4, <1>5 DEF MethodNamed, ElseWaits

(* The innermost one, if its body was written, or new scopes only.         *)
LEMMA InnerKept ==
  ASSUME HandlerInv, stack # << >>, NEW r, r \in {Top.reg, 0}, Laid(T, T', r),
         r = 0 \/ ~InElse(Top)
  PROVE  MethodNamed(Top, T') /\ ElseWaits(Top, T')
<1>1. /\ Len(stack) \in DOMAIN stack /\ Top = stack[Len(stack)]
      /\ Good(T) /\ Good(T') /\ Wrote(T, T', {r})
  BY DEF HandlerInv, TreeInv, IInv, StackOK, Top, Laid, Sound
<1>2. /\ MethodNamed(Top, T) /\ ElseWaits(Top, T) /\ Top.out \in ScopesOf(T)
      /\ 0 \notin ScopesOf(T)
  BY <1>1, TopNested DEF HandlerInv, Handlers, ScopesOf
<1>3. ASSUME Top.kind = "Method" PROVE GetId(T', Top.out, Top.name) = 0
  <2>1. Top.out < Top.reg /\ GetId(T, Top.out, Top.name) = 0
    BY <1>2, <1>3 DEF MethodNamed
  <2>2. \A s \in {r} \cap ScopesOf(T) : Top.out < s
    BY <1>2, <2>1
  <2> QED BY <1>1, <1>2, <2>1, <2>2, GetIdKept
<1>4. ASSUME Top.kind \in {"If", "Elif"}, ~(InElse(Top) /\ Top.full)
      PROVE  T'.table[Top.kids[3]] = EmptyTable
  <2>1. T.table[Top.kids[3]] = EmptyTable
    BY <1>2, <1>4 DEF ElseWaits
  <2>2. Top.kids[3] \in ScopesOf(T)
    BY <1>1, <1>4, ElseScope DEF HandlerInv
  <2>3. Top.kids[3] # r
    BY <1>2, <1>4, <2>2 DEF InElse
  <2> QED BY <1>1, <2>1, <2>2, <2>3 DEF Wrote
<1> QED BY <1>2, <1>3, <1>4 DEF MethodNamed, ElseWaits

(* What was lost in a finished if stays so: no handler writes to a scope    *)
(* that an entry keeps.                                                    *)
LEMMA LostKept ==
  ASSUME HandlerInv, StepNested, stack # << >>, NEW r \in lost, T.table[r] = EmptyTable,
         LostOwned(r, T)
  PROVE  T'.table[r] = EmptyTable /\ LostOwned(r, T')
<1>1. r \in ScopesOf(T) /\ Wrote(T, T', {Top.reg, Top.out})
  BY DEF HandlerInv, TreeInv, IInv, StepNested
<1>2. PICK o \in ScopesOf(T) : \E j \in DOMAIN T.table[o].ids :
        /\ T.table[o].ids[j].tag \in {"If", "Elif"}
        /\ 3 \in DOMAIN T.table[o].ids[j].kids
        /\ T.table[o].ids[j].kids[3] = r
  BY DEF LostOwned
<1>3. PICK j \in DOMAIN T.table[o].ids :
        /\ T.table[o].ids[j].tag \in {"If", "Elif"}
        /\ 3 \in DOMAIN T.table[o].ids[j].kids
        /\ T.table[o].ids[j].kids[3] = r
  BY <1>2
<1>4. ~Free(T, r)
  BY <1>3 DEF Free
<1>5. r \notin {Top.reg, Top.out}
  BY <1>4, TopNested DEF HandlerInv
<1>6. o \in ScopesOf(T') /\ j \in DOMAIN T'.table[o].ids
      /\ T'.table[o].ids[j] = T.table[o].ids[j]
  BY <1>1, <1>2, <1>3 DEF Wrote
<1> QED BY <1>1, <1>3, <1>5, <1>6 DEF Wrote, LostOwned

(* f is handler g, with less of its header to come or its body closed.     *)
SameHandler(f, g) ==
  /\ SameScopes(f, g)
  /\ f.name = g.name
  /\ g.todo = << >> => f.todo = << >>
  /\ InElse(g) /\ g.full => f.full

LEMMA SameWaits ==
  ASSUME NEW f, NEW g, NEW t, SameHandler(f, g)
  PROVE  /\ MethodNamed(g, t) => MethodNamed(f, t)
         /\ ElseWaits(g, t) => ElseWaits(f, t)
         /\ InElse(f) = InElse(g)
BY DEF SameHandler, SameScopes, MethodNamed, ElseWaits, InElse
Handled == Handlers(stack', T', lost')

(* Where no else block is closed, nothing is lost that no if keeps.        *)
LEMMA LostSame ==
  ASSUME HandlerInv, StepNested, stack # << >>, ~(InElse(Top) /\ Top.full),
         lost' = lost \/ "Local" \in StmtKinds, NEW s
  PROVE  "Local" \notin StmtKinds => LostElse(s, T', lost')
<1> SUFFICES ASSUME "Local" \notin StmtKinds, NEW r \in lost
             PROVE  T'.table[r] = EmptyTable /\ (LostOpen(r, s) \/ LostOwned(r, T'))
  BY DEF LostElse
<1>1. T.table[r] = EmptyTable /\ (LostOpen(r, stack) \/ LostOwned(r, T))
  BY DEF HandlerInv, Handlers, LostElse
<1>2. ~LostOpen(r, stack)
  BY DEF LostOpen, Top
<1> QED BY <1>1, <1>2, LostKept

LEMMA HandledTop ==
  ASSUME HandlerInv, StepNested, stack # << >>, NEW f, SetTop(f),
         MethodNamed(f, T'), ElseWaits(f, T'), f.out = Top.out,
         f.reg = Top.reg
           \/ \A i \in DOMAIN stack : i < Len(stack) =>
                \A k \in DOMAIN stack[i].kids : stack[i].kids[k] # f.reg,
         "Local" \notin StmtKinds => LostElse(stack', T', lost')
  PROVE  Handled
<1>1. /\ Len(stack) \in Nat /\ Len(stack) \in DOMAIN stack /\ DOMAIN stack = 1..Len(stack)
      /\ Top = stack[Len(stack)]
  BY DEF HandlerInv, TreeInv, IInv, StackOK, Top
<1>2. /\ DOMAIN stack' = 1..Len(stack) /\ stack'[Len(stack)] = f
      /\ \A i \in DOMAIN stack : i # Len(stack) => stack'[i] = stack[i]
      /\ Len(stack') = Len(stack)
  BY <1>1 DEF SetTop, HandlerInv, TreeInv, IInv, StackOK
<1>3. ASSUME NEW i \in DOMAIN stack' PROVE MethodNamed(stack'[i], T') /\ ElseWaits(stack'[i], T')
  <2>1. CASE i = Len(stack)
    BY <1>2, <2>1
  <2>2. CASE i # Len(stack)
    <3>1. i \in DOMAIN stack /\ i < Len(stack) /\ stack'[i] = stack[i]
      BY <1>1, <1>2, <2>2
    <3> QED BY <3>1, OuterKept
  <2> QED BY <2>1, <2>2
<1>4. ASSUME NEW i \in DOMAIN stack', i < Len(stack'), InElse(stack'[i])
      PROVE  stack'[i].full
  <2>1. i \in DOMAIN stack /\ i < Len(stack) /\ stack'[i] = stack[i]
    BY <1>1, <1>2, <1>4
  <2> QED BY <1>4, <2>1 DEF HandlerInv, Handlers
<1>5. ASSUME NEW i \in DOMAIN stack', NEW j \in DOMAIN stack', i < j,
             NEW k \in DOMAIN stack'[i].kids,
             stack'[i].kids[k] \in {stack'[j].reg, stack'[j].out}
      PROVE  stack'[i].kids[k] = stack'[i].reg
  <2>1. i \in DOMAIN stack /\ j \in DOMAIN stack /\ i < Len(stack) /\ stack'[i] = stack[i]
    BY <1>1, <1>2, <1>5
  <2>2. Apart(stack)
    BY DEF HandlerInv, Handlers
  <2>3. CASE j # Len(stack)
    <3>1. stack'[j] = stack[j]
      BY <1>2, <2>1, <2>3
    <3> QED BY <1>5, <2>1, <2>2, <3>1 DEF Apart
  <2>4. CASE j = Len(stack)
    <3>1. stack'[j] = f /\ stack[j] = Top
      BY <1>1, <1>2, <2>4
    <3>2. stack[i].kids[k] \in {Top.reg, Top.out}
      BY <1>5, <2>1, <3>1
    <3> QED BY <1>5, <2>1, <2>2, <3>1, <3>2 DEF Apart
  <2> QED BY <2>3, <2>4
<1>6. Apart(stack')
  BY <1>5 DEF Apart
<1> QED BY <1>3, <1>4, <1>6 DEF Handled, Handlers

(* A step inside the body or the header of the innermost handler.          *)
LEMMA HandledSame ==
  ASSUME HandlerInv, StepNested, stack # << >>, NEW r, r \in {Top.reg, 0},
         Laid(T, T', r), ~InElse(Top), NEW f, SetTop(f), SameHandler(f, Top),
         lost' = lost \/ "Local" \in StmtKinds
  PROVE  Handled
<1>1. MethodNamed(Top, T') /\ ElseWaits(Top, T')
  BY InnerKept
<1>2. MethodNamed(f, T') /\ ElseWaits(f, T')
  BY <1>1, SameWaits
<1>3. "Local" \notin StmtKinds => LostElse(stack', T', lost')
  BY LostSame
<1>4. f.out = Top.out /\ f.reg = Top.reg
  BY DEF SameHandler, SameScopes
<1> HIDE DEF Handled
<1> QED BY <1>2, <1>3, <1>4, HandledTop

(* The stack once g is the innermost handler and f starts inside it.       *)
Onto(s, g, f) == Append([s EXCEPT ![Len(s)] = g], f)

LEMMA OntoFacts ==
  ASSUME NEW S, NEW s \in Seq(S), s # << >>, NEW g \in S, NEW f, NEW v, v = Onto(s, g, f)
  PROVE  /\ DOMAIN v = 1..(Len(s) + 1) /\ Len(v) = Len(s) + 1
         /\ v[Len(s)] = g /\ v[Len(s) + 1] = f
         /\ \A i \in DOMAIN s : i # Len(s) => v[i] = s[i]
<1> DEFINE w == [s EXCEPT ![Len(s)] = g]
<1>1. /\ w \in Seq(S) /\ Len(w) = Len(s) /\ w[Len(s)] = g /\ Len(s) \in Nat \ {0}
      /\ \A i \in DOMAIN s : i # Len(s) => w[i] = s[i]
  OBVIOUS
<1>2. v = Append(w, f)
  BY DEF Onto
<1> HIDE DEF w
<1>3. w \in Seq(S \cup {f}) /\ f \in S \cup {f}
  BY <1>1
<1>4. /\ DOMAIN v = 1..(Len(w) + 1) /\ Len(v) = Len(w) + 1 /\ v[Len(w) + 1] = f
      /\ \A i \in 1..Len(w) : v[i] = w[i]
  BY <1>2, <1>3
<1>5. DOMAIN s = 1..Len(s)
  OBVIOUS
<1> QED BY <1>1, <1>4, <1>5

(* A handler starts inside the innermost one.                              *)
LEMMA HandledPush ==
  ASSUME HandlerInv, StepNested, stack # << >>, Laid(T, T', 0),
         NEW g \in FrameType(T), SameHandler(g, Top), InElse(Top) => g.full,
         NEW f, stack' = Onto(stack, g, f),
         f.out = Top.reg, f.reg = Top.reg \/ f.reg \notin ScopesOf(T),
         MethodNamed(f, T'), ElseWaits(f, T'),
         ~(InElse(Top) /\ Top.full), lost' = lost
  PROVE  Handled
<1> DEFINE n == Len(stack)
<1>1. /\ n \in Nat /\ n \in DOMAIN stack /\ DOMAIN stack = 1..n /\ Top = stack[n]
      /\ stack \in Seq(FrameType(T)) /\ n = Len(stack)
  BY DEF HandlerInv, TreeInv, IInv, StackOK, Top
<1>2. /\ DOMAIN stack' = 1..(n + 1) /\ stack'[n] = g /\ stack'[n + 1] = f
      /\ \A i \in DOMAIN stack : i # n => stack'[i] = stack[i]
      /\ Len(stack') = n + 1
  BY <1>1, OntoFacts
<1> HIDE DEF n
<1>3. MethodNamed(g, T') /\ ElseWaits(g, T') /\ InElse(g) = InElse(Top)
  BY InnerKept, SameWaits
<1>4. ASSUME NEW i \in DOMAIN stack' PROVE MethodNamed(stack'[i], T') /\ ElseWaits(stack'[i], T')
  <2>1. CASE i = n \/ i = n + 1
    BY <1>2, <1>3, <2>1
  <2>2. CASE i # n /\ i # n + 1
    <3>1. i \in DOMAIN stack /\ i < Len(stack)
      BY <1>1, <1>2, <2>2
    <3>2. stack'[i] = stack[i]
      BY <1>2, <2>2, <3>1
    <3> QED BY <3>1, <3>2, OuterKept
  <2> QED BY <2>1, <2>2
<1>5. ASSUME NEW i \in DOMAIN stack', i < Len(stack'), InElse(stack'[i])
      PROVE  stack'[i].full
  <2>1. CASE i = n
    BY <1>2, <1>3, <1>5, <2>1
  <2>2. CASE i # n
    <3>1. i \in DOMAIN stack /\ i < Len(stack)
      BY <1>1, <1>2, <1>5, <2>2
    <3>2. stack'[i] = stack[i]
      BY <1>2, <2>2, <3>1
    <3> QED BY <1>5, <3>1, <3>2 DEF HandlerInv, Handlers
  <2> QED BY <2>1, <2>2
<1>6. /\ \A i \in DOMAIN stack : stack'[i].kids = stack[i].kids /\ stack'[i].reg = stack[i].reg
                                   /\ stack'[i].out = stack[i].out
  <2>1. g.kids = Top.kids /\ g.reg = Top.reg /\ g.out = Top.out
    BY DEF SameHandler, SameScopes
  <2> QED BY <1>1, <1>2, <2>1
<1>7. ASSUME NEW i \in DOMAIN stack, NEW j \in DOMAIN stack', i < j,
             NEW k \in DOMAIN stack[i].kids,
             stack[i].kids[k] \in {stack'[j].reg, stack'[j].out}
      PROVE  stack[i].kids[k] = stack[i].reg
  <2>1. Apart(stack)
    BY DEF HandlerInv, Handlers
  <2>2. CASE j \in DOMAIN stack
    <3>1. stack[i].kids[k] \in {stack[j].reg, stack[j].out}
      BY <1>6, <1>7, <2>2
    <3> QED BY <1>7, <2>1, <2>2, <3>1 DEF Apart
  <2>3. CASE j \notin DOMAIN stack
    <3>1. stack'[j] = f
      BY <1>1, <1>2, <2>3
    <3>2. stack[i].kids[k] \in ScopesOf(T)
      <4>1. stack[i] \in FrameType(T)
        BY <1>1
      <4>2. stack[i].kids \in Seq(ScopesOf(T))
        BY <4>1 DEF FrameType
      <4> QED BY <4>2
    <3>3. stack[i].kids[k] = Top.reg
      BY <1>7, <3>1, <3>2
    <3>4. i = n \/ i < n
      BY <1>1
    <3> QED BY <1>1, <2>1, <3>3, <3>4 DEF Apart
  <2> QED BY <2>2, <2>3
<1>8. Apart(stack')
  <2> SUFFICES ASSUME NEW i \in DOMAIN stack', NEW j \in DOMAIN stack', i < j,
                      NEW k \in DOMAIN stack'[i].kids,
                      stack'[i].kids[k] \in {stack'[j].reg, stack'[j].out}
               PROVE  stack'[i].kids[k] = stack'[i].reg
    BY DEF Apart
  <2>1. i \in DOMAIN stack
    BY <1>1, <1>2
  <2>2. stack'[i].kids = stack[i].kids /\ stack'[i].reg = stack[i].reg
    BY <1>6, <2>1
  <2> QED BY <1>7, <2>1, <2>2
<1>9. "Local" \notin StmtKinds => LostElse(stack', T', lost')
  BY LostSame
<1> QED BY <1>4, <1>5, <1>8, <1>9 DEF Handled, Handlers

(* The innermost handler is done.                                          *)
LEMMA HandledPop ==
  ASSUME HandlerInv, StepNested, stack # << >>, Pop,
         "Local" \notin StmtKinds => LostElse(stack', T', lost')
  PROVE  Handled
<1>1. Len(stack) \in Nat \ {0} /\ DOMAIN stack = 1..Len(stack)
  BY DEF HandlerInv, TreeInv, IInv, StackOK
<1>2. /\ DOMAIN stack' = 1..(Len(stack) - 1) /\ Len(stack') = Len(stack) - 1
      /\ \A i \in DOMAIN stack' : stack'[i] = stack[i]
  BY <1>1 DEF Pop, HandlerInv, TreeInv, IInv, StackOK
<1>3. \A i \in DOMAIN stack' : i \in DOMAIN stack /\ i < Len(stack)
  BY <1>1, <1>2
<1>4. \A i \in DOMAIN stack' : MethodNamed(stack'[i], T') /\ ElseWaits(stack'[i], T')
  BY <1>2, <1>3, OuterKept
<1>5. \A i \in DOMAIN stack' : InElse(stack'[i]) => stack'[i].full
  BY <1>2, <1>3 DEF HandlerInv, Handlers
<1>6. Apart(stack')
  BY <1>2, <1>3 DEF HandlerInv, Handlers, Apart
<1> QED BY <1>4, <1>5, <1>6 DEF Handled, Handlers
LEMMA SetSelf ==
  ASSUME TreeInv, stack # << >>
  PROVE  /\ [stack EXCEPT ![Len(stack)] = Top] = stack
         /\ Top \in FrameType(T) /\ SameHandler(Top, Top)
<1>1. stack \in Seq(FrameType(T))
  BY DEF TreeInv, IInv, StackOK
<1> QED BY <1>1 DEF Top, SameHandler, SameScopes

LEMMA LeafHandled ==
  ASSUME HandlerInv, StepNested, LeafStmt
  PROVE  Handled
<1>1. stack # << >> /\ Laid(T, T', Top.reg)
  BY LeafLaid DEF HandlerInv
<1>2. CASE SkipElse
  <2> DEFINE f == [Top EXCEPT !.full = TRUE]
  <2>1. /\ SetTop(f) /\ InElse(Top) /\ ~Top.full /\ lost' = lost \cup {Top.reg} /\ T' = T
    BY <1>2 DEF SkipElse
  <2>2. /\ Top \in FrameType(T) /\ Len(stack) \in DOMAIN stack /\ Top = stack[Len(stack)]
        /\ stack \in Seq(FrameType(T))
    BY <1>1, SetSelf DEF HandlerInv, TreeInv, IInv, StackOK, Top
  <2>3. SameHandler(f, Top) /\ f.full /\ InElse(f) /\ f.reg = Top.reg /\ f.out = Top.out
    BY <2>1, <2>2 DEF FrameType, SameHandler, SameScopes, InElse
  <2>4. MethodNamed(Top, T) /\ ElseWaits(Top, T)
    BY <2>2 DEF HandlerInv, Handlers
  <2>5. MethodNamed(f, T') /\ ElseWaits(f, T')
    BY <2>1, <2>3, <2>4, SameWaits
  <2> HIDE DEF f
  <2>6. stack' # << >> /\ stack'[Len(stack')] = f
    BY <2>1, <2>2 DEF SetTop
  <2>7. T.table[Top.reg] = EmptyTable
    BY <2>1, <2>4 DEF ElseWaits, InElse
  <2>8. ASSUME "Local" \notin StmtKinds, NEW r \in lost'
        PROVE  T'.table[r] = EmptyTable /\ (LostOpen(r, stack') \/ LostOwned(r, T'))
    <3>1. CASE r = Top.reg
      BY <2>1, <2>3, <2>6, <2>7, <3>1 DEF LostOpen
    <3>2. CASE r \in lost
      <4>1. T.table[r] = EmptyTable /\ (LostOpen(r, stack) \/ LostOwned(r, T))
        BY <2>8, <3>2 DEF HandlerInv, Handlers, LostElse
      <4>2. ~LostOpen(r, stack)
        BY <2>1, <2>2 DEF LostOpen
      <4> QED BY <2>1, <4>1, <4>2
    <3> QED BY <2>1, <3>1, <3>2
  <2>9. "Local" \notin StmtKinds => LostElse(stack', T', lost')
    BY <2>8 DEF LostElse
  <2> HIDE DEF Handled
  <2> QED BY <1>1, <2>1, <2>3, <2>5, <2>9, HandledTop
<1>3. CASE ~SkipElse
  <2>1. /\ stack' = stack /\ AcceptsStmt(Top)
        /\ lost' = lost \/ "Local" \in StmtKinds
    BY <1>3 DEF LeafStmt, RegisterStruct, RegisterEnum, RegisterVar, RegisterAssign,
                RegisterLet, RegisterReturn, RegisterExprStmt, RegisterAtomic,
                SkipLocal, Leaf, Stmt
  <2>2. ~InElse(Top)
    BY <2>1 DEF AcceptsStmt
  <2>3. SetTop(Top) /\ SameHandler(Top, Top)
    BY <1>1, <2>1, SetSelf DEF HandlerInv, SetTop
  <2> HIDE DEF Handled
  <2> QED BY <1>1, <2>1, <2>2, <2>3, HandledSame
<1> QED BY <1>2, <1>3

LEMMA HeaderHandled ==
  ASSUME HandlerInv, StepNested, Header
  PROVE  Handled
<1> DEFINE f == [Top EXCEPT !.todo = Tail(@)]
<1>1. stack # << >> /\ Laid(T, T', Top.reg) /\ SetTop(f) /\ lost' = lost
  BY HeaderLaid DEF HandlerInv, HeaderDone
<1>2. Top.todo # << >>
  BY DEF Header, RegisterParam, RegisterField, RegisterExternFunc, RegisterParamExpr,
         NextHeader
<1>3. ElseWaits(Top, T) /\ Top \in FrameType(T)
  <2>1. Len(stack) \in DOMAIN stack /\ Top = stack[Len(stack)]
    BY <1>1 DEF HandlerInv, TreeInv, IInv, StackOK, Top
  <2> QED BY <1>1, <2>1, SetSelf DEF HandlerInv, Handlers
<1>4. ~InElse(Top)
  BY <1>2, <1>3 DEF ElseWaits, InElse
<1>5. SameHandler(f, Top)
  BY <1>2, <1>3, <1>4 DEF FrameType, SameHandler, SameScopes
<1> HIDE DEF f
<1> QED BY <1>1, <1>4, <1>5, HandledSame

(* What HandledPush asks of a handler that is not an if, started where a    *)
(* statement or (in a class or trait) a method may stand.                  *)
LEMMA PushHandled ==
  ASSUME HandlerInv, StepNested, stack # << >>, Laid(T, T', 0), NEW f, Push(f),
         f.out = Top.reg, f.reg = Top.reg \/ f.reg \notin ScopesOf(T),
         MethodNamed(f, T'), f.kind \notin {"If", "Elif"}, ~InElse(Top), lost' = lost
  PROVE  Handled
<1>1. stack' = Onto(stack, Top, f) /\ Top \in FrameType(T) /\ SameHandler(Top, Top)
  BY SetSelf DEF HandlerInv, Push, Onto
<1>2. ElseWaits(f, T')
  BY DEF ElseWaits
<1> HIDE DEF Handled
<1> QED BY <1>1, <1>2, HandledPush

LEMMA EnterHandled ==
  ASSUME HandlerInv, StepNested, stack # << >>, NEW f, Enter(Top.reg, f),
         f.out = Top.reg, f.reg = NewScope, ~InElse(Top),
         f.kind \notin {"If", "Elif"},
         f.kind = "Method" => GetId(T, Top.reg, f.name) = 0
  PROVE  Handled
<1>1. /\ Good(T) /\ Sound(T) /\ Top.reg \in ScopesOf(T)
  BY TopNested DEF HandlerInv
<1>2. /\ T' = MakeChild(T, Top.reg) /\ Push(f) /\ lost' = lost
  BY DEF Enter
<1>3. Laid(T, T', 0) /\ NewScope \notin ScopesOf(T)
  BY <1>1, <1>2, NewChildLaid, MakeChildSound DEF NewScope
<1>4. Top.reg < NewScope
  BY <1>1, GoodNumbers DEF NewScope, ScopesOf
<1>5. GetId(T', Top.reg, f.name) = GetId(T, Top.reg, f.name)
  <2>1. \A s \in {0} \cap ScopesOf(T) : Top.reg < s
    BY DEF ScopesOf
  <2>2. Wrote(T, T', {0}) /\ Good(T')
    BY <1>3 DEF Laid, Sound
  <2> QED BY <1>1, <2>1, <2>2, GetIdKept
<1>6. MethodNamed(f, T')
  BY <1>4, <1>5 DEF MethodNamed
<1> QED BY <1>2, <1>3, <1>6, PushHandled

LEMMA HereHandled ==
  ASSUME HandlerInv, StepNested, stack # << >>, NEW f, Push(f), UNCHANGED <<T, lost>>,
         f.out = Top.reg, f.reg = Top.reg, f.kind \in {"Class", "Trait"}, ~InElse(Top)
  PROVE  Handled
<1>1. Laid(T, T', 0)
  BY LaidRefl DEF HandlerInv, TreeInv
<1>2. MethodNamed(f, T')
  BY DEF MethodNamed
<1> QED BY <1>1, <1>2, PushHandled

LEMMA BeginOneHandled ==
  ASSUME HandlerInv, StepNested, NEW x, NEW p,
         \/ BeginFunction(x, p) \/ BeginClass(x, p) \/ BeginMethod(x, p)
         \/ BeginTrait(x) \/ BeginModule(x) \/ BeginExtern(x) \/ BeginTraitMethod(p)
  PROVE  Handled
<1>1. stack # << >>
  BY DEF BeginFunction, BeginClass, BeginMethod, BeginTrait, BeginTraitMethod,
         BeginModule, BeginExtern, CompoundStmt, Stmt, BodyRead, Open
<1>2. ~InElse(Top)
  BY DEF BeginFunction, BeginClass, BeginMethod, BeginTrait, BeginTraitMethod,
         BeginModule, BeginExtern, CompoundStmt, Stmt, AcceptsStmt, BodyRead, Open,
         InElse
<1>3. ASSUME NEW kind, kind \notin {"If", "Elif", "Method"}, NEW cls, NEW name, NEW kids,
             NEW todo,
             Enter(Top.reg, Frame(kind, NewScope, Top.reg, cls, name, kids, << >>, todo))
      PROVE  Handled
  <2> DEFINE f == Frame(kind, NewScope, Top.reg, cls, name, kids, << >>, todo)
  <2>1. f.out = Top.reg /\ f.reg = NewScope /\ f.kind = kind
    BY DEF Frame
  <2>2. Enter(Top.reg, f)
    BY <1>3
  <2> HIDE DEF f, Handled
  <2> QED BY <1>1, <1>2, <1>3, <2>1, <2>2, EnterHandled
<1>4. ASSUME NEW kind \in {"Class", "Trait"}, NEW cls, NEW name, NEW todo,
             UNCHANGED <<T, lost>>,
             Push(Frame(kind, Top.reg, Top.reg, cls, name, << >>, << >>, todo))
      PROVE  Handled
  <2> DEFINE f == Frame(kind, Top.reg, Top.reg, cls, name, << >>, << >>, todo)
  <2>1. f.out = Top.reg /\ f.reg = Top.reg /\ f.kind = kind
    BY DEF Frame
  <2>2. Push(f)
    BY <1>4
  <2> HIDE DEF f, Handled
  <2> QED BY <1>1, <1>2, <1>4, <2>1, <2>2, HereHandled
<1>5. CASE BeginMethod(x, p)
  <2>1. PICK k \in DOMAIN Mangled[Top.cls][x] :
          /\ IsFirstFree(k, Mangled[Top.cls][x], Top.reg)
          /\ Enter(Top.reg, Frame("Method", NewScope, Top.reg, Top.cls,
                                  Mangled[Top.cls][x][k], <<NewScope>>, << >>,
                                  MethodHeader(p)))
    BY <1>5 DEF BeginMethod
  <2> DEFINE f == Frame("Method", NewScope, Top.reg, Top.cls, Mangled[Top.cls][x][k],
                        <<NewScope>>, << >>, MethodHeader(p))
  <2>2. /\ f.out = Top.reg /\ f.reg = NewScope /\ f.kind = "Method"
        /\ f.name = Mangled[Top.cls][x][k]
    BY DEF Frame
  <2>3. Enter(Top.reg, f)
    BY <2>1
  <2>4. GetId(T, Top.reg, f.name) = 0
    BY <2>1, <2>2 DEF IsFirstFree
  <2> HIDE DEF f, Handled
  <2> QED BY <1>1, <1>2, <2>2, <2>3, <2>4, EnterHandled
<1> HIDE DEF Handled
<1>6. CASE BeginFunction(x, p)
  BY <1>3, <1>6 DEF BeginFunction
<1>7. CASE BeginClass(x, p)
  BY <1>4, <1>7 DEF BeginClass
<1>8. CASE BeginTrait(x)
  BY <1>4, <1>8 DEF BeginTrait
<1>9. CASE BeginModule(x)
  <2>1. Enter(Top.reg, Frame("Module", NewScope, Top.reg, NoName, x, << >>, << >>,
                             << >>))
    BY <1>9 DEF BeginModule
  <2> QED BY <1>3, <2>1
<1>10. CASE BeginExtern(x)
  BY <1>3, <1>10 DEF BeginExtern
<1>11. CASE BeginTraitMethod(p)
  BY <1>3, <1>11 DEF BeginTraitMethod
<1> QED BY <1>5, <1>6, <1>7, <1>8, <1>9, <1>10, <1>11
LEMMA BlockHandled ==
  ASSUME HandlerInv, StepNested, NEW kind \in {"While", "For", "Match"},
         NEW e \in Exprs, NEW full, EnterBlock(kind, e, full)
  PROVE  Handled
<1> DEFINE n == Len(T.parent)
           ks == <<n + 1, n + 2>>
           t2 == MakeChild(MakeChild(T, Top.reg), Top.reg)
           f  == [Frame(kind, n + 2, Top.reg, Top.cls, NoName, ks, <<ExprId(t2, T')>>,
                        << >>) EXCEPT !.full = full]
<1>1. stack # << >> /\ AcceptsStmt(Top) /\ Push(f) /\ lost' = lost
  BY DEF EnterBlock, CompoundStmt, Stmt
<1>2. f.out = Top.reg /\ f.reg = n + 2 /\ f.kind = kind
  BY DEF Frame
<1>3. Laid(T, T', 0)
  BY BlockNested DEF HandlerInv
<1>4. n + 2 \notin ScopesOf(T)
  BY GoodNumbers DEF HandlerInv, TreeInv, IInv, ScopesOf
<1>5. ~InElse(Top)
  BY <1>1 DEF AcceptsStmt
<1> HIDE DEF f, n, Handled
<1>6. MethodNamed(f, T')
  BY <1>2 DEF MethodNamed
<1> QED BY <1>1, <1>2, <1>3, <1>4, <1>5, <1>6, PushHandled

LEMMA IfHandled ==
  ASSUME HandlerInv, StepNested, stack # << >>, NEW kind \in {"If", "Elif"},
         NEW e \in Exprs, EnterIf(kind, e), ~(InElse(Top) /\ Top.full)
  PROVE  Handled
<1> DEFINE n == Len(T.parent)
           ks == <<n + 1, n + 2, n + 3>>
           t3 == MakeChild(MakeChild(MakeChild(T, Top.reg), Top.reg), Top.reg)
           f  == Frame(kind, n + 2, Top.reg, Top.cls, NoName, ks, <<ExprId(t3, T')>>,
                       << >>)
           g  == [Top EXCEPT !.full = InElse(Top)]
<1>1. /\ lost' = lost
      /\ stack' = Append([stack EXCEPT ![Len(stack)].full = InElse(Top)], f)
  BY DEF EnterIf
<1>2. stack' = Onto(stack, g, f)
  BY <1>1 DEF Onto, Top
<1>3. /\ f.out = Top.reg /\ f.reg = n + 2 /\ f.kind = kind /\ f.todo = << >>
      /\ f.kids[3] = n + 3
  BY DEF Frame
<1>4. Laid(T, T', 0) /\ T'.table[n + 3] = EmptyTable
  BY IfNested DEF HandlerInv
<1>5. n + 2 \notin ScopesOf(T)
  BY GoodNumbers DEF HandlerInv, TreeInv, IInv, ScopesOf
<1>6. Top \in FrameType(T)
  BY SetSelf DEF HandlerInv
<1>7. /\ g \in FrameType(T) /\ SameHandler(g, Top) /\ (InElse(Top) => g.full)
  BY <1>6 DEF FrameType, SameHandler, SameScopes, InElse
<1> HIDE DEF f, g, n, Handled
<1>8. MethodNamed(f, T') /\ ElseWaits(f, T')
  BY <1>3, <1>4 DEF MethodNamed, ElseWaits
<1> QED BY <1>1, <1>2, <1>3, <1>4, <1>5, <1>7, <1>8, HandledPush

LEMMA ElseHandled ==
  ASSUME HandlerInv, StepNested, BeginElse
  PROVE  Handled
<1> DEFINE f == [Top EXCEPT !.reg = Top.kids[3]]
<1>1. /\ stack # << >> /\ Top.kind \in {"If", "Elif"} /\ T' = T /\ lost' = lost
      /\ SetTop(f) /\ ~InElse(Top)
  BY DEF BeginElse, Open
<1>2. /\ Top \in FrameType(T) /\ Len(stack) \in DOMAIN stack /\ Top = stack[Len(stack)]
      /\ Good(T) /\ DOMAIN stack = 1..Len(stack)
  BY <1>1, SetSelf DEF HandlerInv, TreeInv, IInv, StackOK, Top
<1>3. ElseWaits(Top, T) /\ Apart(stack)
  BY <1>2 DEF HandlerInv, Handlers
<1>4. /\ f.out = Top.out /\ f.reg = Top.kids[3] /\ f.kids = Top.kids
      /\ f.kind = Top.kind /\ f.todo = Top.todo
  BY <1>2 DEF FrameType
<1> HIDE DEF f
<1>5. MethodNamed(f, T') /\ ElseWaits(f, T')
  BY <1>1, <1>3, <1>4 DEF MethodNamed, ElseWaits
<1>6. ASSUME NEW i \in DOMAIN stack, i < Len(stack), NEW k \in DOMAIN stack[i].kids
      PROVE  stack[i].kids[k] # f.reg
  <2>1. FrameNested(stack[i], T) /\ stack[i] \in FrameType(T) /\ stack[i].reg <= Top.out
    BY <1>2, <1>6 DEF HandlerInv, TreeInv, IInv, StackOK, Nested
  <2>2. stack[i].kids # << >>
    OBVIOUS
  <2>3. stack[i].out < stack[i].reg /\ T.parent[stack[i].kids[k]] = stack[i].out
    BY <2>1, <2>2 DEF FrameNested, Loose, Pending
  <2>4. T.parent[f.reg] = Top.out
    BY <1>1, <1>2, <1>4, ElseScope DEF HandlerInv
  <2>5. stack[i].out \in Nat /\ stack[i].reg \in Nat /\ Top.out \in Nat
    BY <1>2, <2>1, GoodNumbers DEF FrameType
  <2> QED BY <2>1, <2>3, <2>4, <2>5
<1>7. "Local" \notin StmtKinds => LostElse(stack', T', lost')
  BY <1>1, LostSame
<1> HIDE DEF Handled
<1> QED BY <1>1, <1>4, <1>5, <1>6, <1>7, HandledTop

LEMMA ArmHandled ==
  ASSUME HandlerInv, StepNested, BeginArm
  PROVE  Handled
<1> DEFINE f == [Top EXCEPT !.reg = NewScope, !.kids = Append(@, NewScope), !.full = FALSE]
<1>1. /\ stack # << >> /\ Top.kind = "Match" /\ lost' = lost /\ SetTop(f)
  BY DEF BeginArm, Open
<1>2. /\ Top \in FrameType(T) /\ Good(T) /\ stack \in Seq(FrameType(T))
  BY <1>1, SetSelf DEF HandlerInv, TreeInv, IInv, StackOK
<1>3. f.out = Top.out /\ f.reg = NewScope /\ f.kind = "Match"
  BY <1>1, <1>2 DEF FrameType
<1> HIDE DEF f
<1>4. MethodNamed(f, T') /\ ElseWaits(f, T') /\ ~InElse(Top)
  BY <1>1, <1>3 DEF MethodNamed, ElseWaits, InElse
<1>5. ASSUME NEW i \in DOMAIN stack, NEW k \in DOMAIN stack[i].kids
      PROVE  stack[i].kids[k] # f.reg
  <2>1. stack[i] \in FrameType(T)
    BY <1>2
  <2>2. stack[i].kids \in Seq(ScopesOf(T))
    BY <2>1 DEF FrameType
  <2>3. NewScope \notin ScopesOf(T)
    BY <1>2, GoodNumbers DEF NewScope, ScopesOf
  <2> QED BY <1>3, <2>2, <2>3
<1>6. "Local" \notin StmtKinds => LostElse(stack', T', lost')
  BY <1>1, <1>4, LostSame
<1> HIDE DEF Handled
<1> QED BY <1>1, <1>3, <1>4, <1>5, <1>6, HandledTop

LEMMA ExternFuncHandled ==
  ASSUME HandlerInv, StepNested, NEW p, BeginExternFunc(p)
  PROVE  Handled
<1> DEFINE f == [Top EXCEPT !.todo = Params(p) \o <<"F">>]
<1>1. /\ stack # << >> /\ T' = T /\ lost' = lost /\ SetTop(f) /\ Top.kind = "Extern"
      /\ Top.todo = << >>
  BY DEF BeginExternFunc, BodyRead, Open
<1>2. Top \in FrameType(T) /\ Top.kind = "Extern"
  BY <1>1, SetSelf DEF HandlerInv
<1>3. f.out = Top.out /\ f.reg = Top.reg /\ f.kind = "Extern"
  BY <1>2 DEF FrameType
<1> HIDE DEF f
<1>4. MethodNamed(f, T') /\ ElseWaits(f, T') /\ ~InElse(Top)
  BY <1>2, <1>3 DEF MethodNamed, ElseWaits, InElse
<1>5. "Local" \notin StmtKinds => LostElse(stack', T', lost')
  BY <1>1, <1>4, LostSame
<1> HIDE DEF Handled
<1> QED BY <1>1, <1>3, <1>4, <1>5, HandledTop

LEMMA BeginHandled ==
  ASSUME HandlerInv, StepNested, Begin
  PROVE  Handled
<1>1. stack # << >>
  BY BeginOpen
<1>2. CASE \E x \in Idents, p \in 0..MaxParams :
             BeginFunction(x, p) \/ BeginClass(x, p) \/ BeginMethod(x, p)
  BY <1>2, BeginOneHandled
<1>3. CASE \E p \in 0..MaxParams : BeginTraitMethod(p) \/ BeginExternFunc(p)
  BY <1>3, BeginOneHandled, ExternFuncHandled
<1>4. CASE \E x : BeginTrait(x) \/ BeginModule(x) \/ BeginExtern(x)
  BY <1>4, BeginOneHandled
<1>5. CASE \E e \in Exprs : BeginWhile(e) \/ BeginFor(e) \/ BeginMatch(e)
  BY <1>5, BlockHandled DEF BeginWhile, BeginFor, BeginMatch
<1>6. CASE \E e \in Exprs : BeginIf(e)
  <2>1. PICK e \in Exprs : EnterIf("If", e) /\ AcceptsStmt(Top)
    BY <1>6 DEF BeginIf, CompoundStmt, Stmt
  <2>2. ~InElse(Top)
    BY <2>1 DEF AcceptsStmt
  <2> QED BY <1>1, <2>1, <2>2, IfHandled
<1>7. CASE \E e \in Exprs : BeginElif(e)
  BY <1>1, <1>7, IfHandled DEF BeginElif
<1> QED BY <1>2, <1>3, <1>4, <1>5, <1>6, <1>7, ElseHandled, ArmHandled DEF Begin

(* The entry of an if names the scope it lost.                             *)
LEMMA ClosedHandled ==
  ASSUME HandlerInv, StepNested, stack # << >>, NEW tag \in Tags, Close(tag),
         Top.kind \in {"If", "Elif"} => Top.kind = tag
  PROVE  Handled
<1> DEFINE o == Top.out
           e == NewEntry(tag, Top.name, NoName, Top.kids, Top.ops)
<1>1. T' = Insert(T, o, e) /\ Pop /\ lost' = lost
  BY DEF Close
<1>2. /\ Good(T) /\ TablesType(T) /\ o \in ScopesOf(T) /\ lost \subseteq ScopesOf(T)
      /\ Top.name \in Names \cup {NoName} /\ Top.kids \in Seq(ScopesOf(T))
      /\ Top.ops \in Seq(Nat)
      /\ Len(stack) \in DOMAIN stack /\ Top = stack[Len(stack)]
  BY TopFacts DEF HandlerInv, TreeInv, IInv, StackOK, Top, Good
<1>3. e \in Entry
  <2>1. Top.kids \in Seq(Nat)
    BY <1>2, SeqNat
  <2> QED BY <1>2, <2>1, NewEntryType
<1>4. e.kids = Top.kids /\ e.tag = tag
  BY DEF NewEntry
<1> HIDE DEF e, o
<1>5. Stamp(T, e).kids = Top.kids /\ Stamp(T, e).tag = tag
  BY <1>3, <1>4 DEF Stamp, Entry
<1>6. IsInsert(T, T', o, Stamp(T, e)) /\ Stamp(T, e).eid = T.next
  BY <1>1, <1>2, <1>3, InsertShape, StampFacts
<1>7. /\ o \in ScopesOf(T') /\ T.next \in DOMAIN T'.table[o].ids
      /\ T'.table[o].ids[T.next] = Stamp(T, e)
      /\ \A s \in ScopesOf(T) \ {o} : T'.table[s] = T.table[s]
  BY <1>2, <1>6 DEF IsInsert, InsertedKeys, ScopesOf
<1>8. ASSUME "Local" \notin StmtKinds, NEW r \in lost'
      PROVE  T'.table[r] = EmptyTable /\ (LostOpen(r, stack') \/ LostOwned(r, T'))
  <2>1. T.table[r] = EmptyTable /\ (LostOpen(r, stack) \/ LostOwned(r, T)) /\ r \in lost
    BY <1>1, <1>8 DEF HandlerInv, Handlers, LostElse
  <2>2. CASE LostOwned(r, T)
    BY <2>1, <2>2, LostKept
  <2>3. CASE LostOpen(r, stack)
    <3>1. Top.kind \in {"If", "Elif"} /\ Top.kids[3] = r /\ Top.reg = r
      BY <1>2, <2>3 DEF LostOpen, InElse
    <3>2. /\ 3 \in DOMAIN Top.kids /\ r \in ScopesOf(T) /\ Top.out < r
      BY <1>2, <3>1, ElseScope DEF HandlerInv
    <3>3. r # o
      BY <1>2, <3>2, GoodNumbers DEF o
    <3>4. T'.table[r] = EmptyTable
      BY <1>7, <2>1, <3>2, <3>3
    <3>5. LostOwned(r, T')
      BY <1>5, <1>7, <3>1, <3>2 DEF LostOwned
    <3> QED BY <3>4, <3>5
  <2> QED BY <2>1, <2>2, <2>3
<1>9. "Local" \notin StmtKinds => LostElse(stack', T', lost')
  BY <1>8 DEF LostElse
<1> HIDE DEF Handled
<1> QED BY <1>1, <1>9, HandledPop

LEMMA EndHandled ==
  ASSUME HandlerInv, StepNested, End
  PROVE  Handled
<1>1. stack # << >>
  BY EndOpen
<1>2. {"Function", "Trait", "Module", "Extern", "If", "Elif", "While", "For", "Match"}
        \subseteq Tags
  BY DEF Tags
<1> HIDE DEF Handled
<1>3. CASE EndFunction \/ EndMethod
  BY <1>1, <1>2, <1>3, ClosedHandled DEF EndFunction, EndMethod, BodyRead, Open
<1>4. CASE EndTrait \/ EndModule \/ EndExtern
  BY <1>1, <1>2, <1>4, ClosedHandled DEF EndTrait, EndModule, EndExtern, BodyRead, Open
<1>5. CASE EndIf \/ EndElif
  BY <1>1, <1>2, <1>5, ClosedHandled DEF EndIf, EndElif, Open
<1>6. CASE EndWhile \/ EndFor \/ EndMatch
  BY <1>1, <1>2, <1>6, ClosedHandled DEF EndWhile, EndFor, EndMatch, Open
<1>7. CASE EndClass \/ EndTraitMethod \/ EndBody
  <2>1. Pop /\ lost' = lost /\ ~InElse(Top)
    BY <1>7 DEF EndClass, EndTraitMethod, EndBody, BodyRead, Open, InElse
  <2>2. "Local" \notin StmtKinds => LostElse(stack', T', lost')
    BY <1>1, <2>1, LostSame
  <2> QED BY <1>1, <2>1, <2>2, HandledPop
<1> QED BY <1>3, <1>4, <1>5, <1>6, <1>7 DEF End

LEMMA InitHandlers == Init => Handlers(stack, T, lost)
<1> SUFFICES ASSUME Init PROVE Handlers(stack, T, lost)
  OBVIOUS
<1> DEFINE f == Frame("Root", 1, 1, NoName, NoName, << >>, << >>, << >>)
<1>1. stack = <<f>> /\ lost = {} /\ f.kind = "Root"
  BY DEF Init, Frame
<1> HIDE DEF f
<1>2. MethodNamed(f, T) /\ ElseWaits(f, T) /\ ~InElse(f)
  BY <1>1 DEF MethodNamed, ElseWaits, InElse
<1>3. Apart(stack) /\ LostElse(stack, T, lost)
  BY <1>1 DEF Apart, LostElse
<1> QED BY <1>1, <1>2, <1>3 DEF Handlers

(* What the open handlers rely on holds in every reachable state: a method   *)
(* names an entry nobody else has, what an if, an elif or a match waits for *)
(* is there, two open handlers never own one scope, and only a whole else   *)
(* block or a `local' declaration is passed over.                           *)
THEOREM HandlerInvariance == Spec => []HandlerInv
<1>1. TreeInv /\ Handlers(stack, T, lost) /\ [Next]_vars => Handlers(stack, T, lost)'
  <2> SUFFICES ASSUME HandlerInv, [Next]_vars PROVE Handled
    BY DEF HandlerInv, Handled, Handlers, MethodNamed, ElseWaits, Apart, LostElse,
           LostOpen, LostOwned
  <2>1. StepNested
    BY StepNestedAlways DEF HandlerInv
  <2>2. CASE Register
    BY <2>1, <2>2, LeafHandled, HeaderHandled, BeginHandled, EndHandled DEF Register
  <2>3. CASE UNCHANGED vars
    BY <2>3 DEF vars, HandlerInv, Handled
  <2> QED BY <2>2, <2>3 DEF Next, Terminated
<1>2. HandlerInv <=> TreeInv /\ Handlers(stack, T, lost)
  BY DEF HandlerInv
<1> QED BY InitHandlers, <1>1, <1>2, TreeInvariance, PTL DEF Spec

(* The name mangle_name_unique chose is still free when the method takes it: *)
(* no parameter and no statement of the body, which register_body puts in   *)
(* scopes below, can take it first.                                        *)
THEOREM MethodNamesFree == Spec => []MethodNameFree
<1>1. HandlerInv => MethodNameFree
  BY DEF HandlerInv, Handlers, MethodNamed, MethodNameFree
<1> QED BY <1>1, HandlerInvariance, PTL

(* Without a `local' declaration register_stmt passes over nothing but      *)
(* whole else blocks: their scope is empty, and is the third of its if.    *)
THEOREM OnlyElsesLost ==
  ASSUME "Local" \notin StmtKinds
  PROVE  Spec => []OnlyElseLost
<1>1. HandlerInv => OnlyElseLost
  <2> SUFFICES ASSUME HandlerInv, NEW r \in lost
               PROVE  /\ T.table[r] = EmptyTable
                      /\ \/ \E i \in DOMAIN stack : InElse(stack[i]) /\ stack[i].reg = r
                         \/ \E s \in ScopesOf(T) : \E j \in DOMAIN T.table[s].ids :
                              /\ T.table[s].ids[j].tag \in {"If", "Elif"}
                              /\ T.table[s].ids[j].kids[3] = r
    BY DEF OnlyElseLost
  <2>1. T.table[r] = EmptyTable /\ (LostOpen(r, stack) \/ LostOwned(r, T))
    BY DEF HandlerInv, Handlers, LostElse
  <2>2. ASSUME LostOpen(r, stack)
        PROVE  \E i \in DOMAIN stack : InElse(stack[i]) /\ stack[i].reg = r
    <3>1. Len(stack) \in DOMAIN stack
      BY <2>2 DEF LostOpen, HandlerInv, TreeInv, IInv, StackOK
    <3> QED BY <2>2, <3>1 DEF LostOpen
  <2>3. ASSUME LostOwned(r, T)
        PROVE  \E s \in ScopesOf(T) : \E j \in DOMAIN T.table[s].ids :
                 /\ T.table[s].ids[j].tag \in {"If", "Elif"}
                 /\ T.table[s].ids[j].kids[3] = r
    BY <2>3 DEF LostOwned
  <2> QED BY <2>1, <2>2, <2>3
<1> QED BY <1>1, HandlerInvariance, PTL

-------------------------------------------------------------------------------
(* Parameters                                                              *)

(* The handlers whose header declares parameters of one body.              *)
Callables == {"Function", "Method", "TraitMethod"}

HeadersOf(kind) ==
  IF kind \in Callables THEN {"P", "E"}
  ELSE IF kind = "Class" THEN {"V"}
  ELSE IF kind = "Extern" THEN {"P", "F"}
  ELSE {}

(* While the header is read nothing else has taken a name, ...             *)
OnlyParams(t, r) ==
  \A x \in DOMAIN t.table[r].names : t.table[r].names[x].tag = "Param"

(* ... so that a parameter's name is for good that of a parameter.         *)
Bound(t, r) ==
  \A i \in DOMAIN t.table[r].ids :
    t.table[r].ids[i].tag = "Param" =>
      LET x == t.table[r].ids[i].name
      IN  x \in DOMAIN t.table[r].names /\ t.table[r].names[x].tag = "Param"

ParamsBound(t) ==
  \A r \in ScopesOf(t) : \A j \in DOMAIN t.table[r].ids :
    t.table[r].ids[j].tag = "Function" =>
      t.table[r].ids[j].kids # << >> /\ Bound(t, t.table[r].ids[j].kids[1])

HeadOK(t, f) ==
  /\ f.todo \in Seq(HeadersOf(f.kind))
  /\ f.kind \in Callables /\ f.todo # << >> => OnlyParams(t, f.reg)
  /\ f.kind \in Callables => Bound(t, f.reg)
  /\ f.kind \in {"Function", "Method"} => f.kids = <<f.reg>>
  /\ f.kind = "Extern" => f.kids # << >>

(* Only the innermost handler can be in its header.                        *)
HeadsOK(s, t) ==
  \A i \in DOMAIN s : HeadOK(t, s[i]) /\ (i < Len(s) => s[i].todo = << >>)

-------------------------------------------------------------------------------
(* What registration marks: the entries of parameters and functions.       *)

Marked == {"Param", "Function"}

(* Every entry of u that has one of the tags was in t.                     *)
NoNew(t, u, tags) ==
  \A r \in ScopesOf(u) : \A i \in DOMAIN u.table[r].ids :
    u.table[r].ids[i].tag \in tags =>
      /\ r \in ScopesOf(t) /\ i \in DOMAIN t.table[r].ids
      /\ u.table[r].ids[i] = t.table[r].ids[i]

Unmarked(t, u) == Grown(t, u) /\ NoNew(t, u, Marked)

LEMMA UnmarkedRefl ==
  ASSUME NEW t, Good(t)
  PROVE  Unmarked(t, t)
BY ExtendsRefl DEF Unmarked, Grown, NoNew

LEMMA UnmarkedTrans ==
  ASSUME NEW t, Good(t), NEW u, Unmarked(t, u), NEW v, Unmarked(u, v)
  PROVE  Unmarked(t, v)
<1>1. Grown(t, v)
  BY GrownTrans DEF Unmarked
<1>2. NoNew(t, v, Marked)
  <2>1. NoNew(t, u, Marked) /\ NoNew(u, v, Marked)
    BY DEF Unmarked
  <2> QED BY <2>1 DEF NoNew
<1> QED BY <1>1, <1>2 DEF Unmarked

LEMMA InsertNoNew ==
  ASSUME NEW t, Good(t), NEW r \in ScopesOf(t), NEW e \in Entry, NEW tags, e.tag \notin tags
  PROVE  Grown(t, Insert(t, r, e)) /\ NoNew(t, Insert(t, r, e), tags)
<1> DEFINE u == Insert(t, r, e)
           s == Stamp(t, e)
<1>1. Grown(t, u) /\ ScopesOf(u) = ScopesOf(t)
  BY InsertGood DEF Grown
<1>2. IsInsert(t, u, r, s) /\ s.eid = t.next
  BY InsertShape, StampFacts DEF Good
<1>3. s.tag = e.tag
  BY DEF Stamp, Entry
<1> HIDE DEF u, s
<1>4. ASSUME NEW z \in ScopesOf(u), NEW i \in DOMAIN u.table[z].ids,
             u.table[z].ids[i].tag \in tags
      PROVE  i \in DOMAIN t.table[z].ids /\ u.table[z].ids[i] = t.table[z].ids[i]
  <2>1. CASE z = r
    <3>1. InsertedKeys(t.table[r], u.table[r], s)
      BY <1>2 DEF IsInsert
    <3>2. i \in DOMAIN t.table[r].ids \/ u.table[r].ids[i] = s
      BY <1>4, <2>1, <3>1 DEF InsertedKeys
    <3> QED BY <1>3, <1>4, <2>1, <3>1, <3>2 DEF InsertedKeys
  <2>2. CASE z # r
    <3>1. u.table[z] = t.table[z]
      BY <1>1, <1>2, <2>2 DEF IsInsert
    <3> QED BY <1>4, <3>1
  <2> QED BY <2>1, <2>2
<1>5. NoNew(t, u, tags)
  BY <1>1, <1>4 DEF NoNew
<1> QED BY <1>1, <1>5 DEF u

LEMMA InsertUnmarked ==
  ASSUME NEW t, Good(t), NEW r \in ScopesOf(t), NEW e \in Entry, e.tag \notin Marked
  PROVE  Unmarked(t, Insert(t, r, e))
BY InsertNoNew DEF Unmarked

LEMMA NewUnmarked ==
  ASSUME NEW t, Good(t), NEW r \in ScopesOf(t), NEW tag \in Tags \ Marked,
         NEW name \in Names \cup {NoName}, NEW ref \in Names \cup {NoName},
         NEW kids \in Seq(Nat), NEW ops \in Seq(Nat), NEW g \in Nat
  PROVE  /\ Unmarked(t, Insert(t, r, NewEntry(tag, name, ref, kids, ops)))
         /\ Unmarked(t, Insert(t, r, [NewEntry(tag, name, ref, kids, ops) EXCEPT !.gen = g]))
<1> DEFINE e == NewEntry(tag, name, ref, kids, ops)
           f == [e EXCEPT !.gen = g]
<1>1. e \in Entry /\ e.tag = tag
  BY NewEntryType DEF NewEntry
<1> HIDE DEF e
<1>2. f \in Entry /\ f.tag = tag
  BY <1>1 DEF Entry
<1> HIDE DEF f
<1>3. Unmarked(t, Insert(t, r, e)) /\ Unmarked(t, Insert(t, r, f))
  BY <1>1, <1>2, InsertUnmarked
<1> QED BY <1>3 DEF e, f

(* An entry after what was registered before it.                           *)
LEMMA ThenUnmarked ==
  ASSUME NEW t, Good(t), NEW r \in ScopesOf(t), NEW u, Unmarked(t, u),
         NEW tag \in Tags \ Marked, NEW name \in Names \cup {NoName},
         NEW ref \in Names \cup {NoName}, NEW kids \in Seq(Nat), NEW ops \in Seq(Nat)
  PROVE  Unmarked(t, Insert(u, r, NewEntry(tag, name, ref, kids, ops)))
<1>1. Good(u) /\ r \in ScopesOf(u) /\ 0 \in Nat
  BY DEF Unmarked, Grown
<1>2. Unmarked(u, Insert(u, r, NewEntry(tag, name, ref, kids, ops)))
  BY <1>1, NewUnmarked
<1> QED BY <1>2, UnmarkedTrans

LEMMA ThenPointerUnmarked ==
  ASSUME NEW t, Good(t), NEW r \in ScopesOf(t), NEW u, Unmarked(t, u),
         NEW tag \in Tags \ Marked, NEW name \in Names \cup {NoName},
         NEW ref \in Names \cup {NoName}, NEW ops \in Seq(Nat), NEW g, g = u.table[r].cap
  PROVE  Unmarked(t, Insert(u, r, [NewEntry(tag, name, ref, << >>, ops) EXCEPT !.gen = g]))
<1>1. Good(u) /\ r \in ScopesOf(u) /\ << >> \in Seq(Nat)
  BY DEF Unmarked, Grown
<1>2. g \in Nat
  BY <1>1 DEF Good, TablesType
<1>3. Unmarked(u, Insert(u, r, [NewEntry(tag, name, ref, << >>, ops) EXCEPT !.gen = g]))
  BY <1>1, <1>2, NewUnmarked
<1> QED BY <1>3, UnmarkedTrans

LEMMA ChildUnmarked ==
  ASSUME NEW t, Good(t), NEW r \in ScopesOf(t)
  PROVE  Unmarked(t, MakeChild(t, r))
<1> DEFINE u == MakeChild(t, r)
<1>1. Grown(t, u) /\ ScopesOf(u) = ScopesOf(t) \cup {Len(t.parent) + 1}
  BY MakeChildGood DEF Grown
<1>2. IsChild(t, u, r)
  BY MakeChildShape DEF Good
<1> HIDE DEF u
<1>3. ASSUME NEW z \in ScopesOf(u), NEW i \in DOMAIN u.table[z].ids
      PROVE  z \in ScopesOf(t) /\ u.table[z] = t.table[z]
  <2>1. z \in ScopesOf(t) \/ u.table[z] = EmptyTable
    BY <1>1, <1>2 DEF IsChild
  <2>2. DOMAIN EmptyTable.ids = {}
    BY DEF EmptyTable
  <2>3. z \in ScopesOf(t)
    BY <2>1, <2>2
  <2> QED BY <1>2, <2>3 DEF IsChild
<1>4. NoNew(t, u, Marked)
  BY <1>3 DEF NoNew
<1> QED BY <1>1, <1>4 DEF Unmarked, u

LEMMA RegIdentUnmarked ==
  ASSUME NEW t, Good(t), NEW r \in ScopesOf(t), NEW x \in Idents \cup {NoName}
  PROVE  Unmarked(t, RegIdent(t, r, x))
<1>1. /\ "Identifier" \in Tags \ Marked /\ NoName \in Names \cup {NoName} /\ 0 \in Nat
      /\ x \in Names \cup {NoName} /\ << >> \in Seq(Nat)
  BY ProgramAssumption DEF Tags, Marked
<1> QED BY <1>1, NewUnmarked DEF RegIdent

LEMMA RegOperatorUnmarked ==
  ASSUME NEW tag \in {"BinaryOp", "Index"}, NEW t, Good(t), NEW r \in ScopesOf(t),
         NEW id \in Nat, NEW y \in Idents \cup {NoName},
         NEW u \in RegOperator(tag, t, r, id, y)
  PROVE  Unmarked(t, u)
<1> DEFINE right == RegIdent(t, r, y)
<1>1. Unmarked(t, right)
  BY RegIdentUnmarked
<1>2. Good(right)
  BY <1>1 DEF Unmarked, Grown
<1> HIDE DEF right
<1>3. PICK leftId \in Held(t, right, r, id) :
        u = Insert(right, r, NewEntry(tag, NoName, NoName, << >>, <<leftId, t.next>>))
  BY DEF RegOperator, right
<1>4. leftId \in Nat /\ t.next \in Nat
  BY <1>2, <1>3, HeldNat, GoodNumbers
<1>5. /\ NoName \in Names \cup {NoName} /\ <<leftId, t.next>> \in Seq(Nat)
      /\ << >> \in Seq(Nat) /\ tag \in Tags \ Marked
  BY <1>4 DEF Tags, Marked
<1> QED BY <1>1, <1>3, <1>5, ThenUnmarked

LEMMA RegBinaryUnmarked ==
  ASSUME NEW tag \in {"BinaryOp", "Index"}, NEW t, Good(t), NEW r \in ScopesOf(t),
         NEW x \in Idents \cup {NoName}, NEW y \in Idents \cup {NoName},
         NEW u \in RegBinary(tag, t, r, x, y)
  PROVE  Unmarked(t, u)
<1> DEFINE left == RegIdent(t, r, x)
<1>1. Unmarked(t, left) /\ Good(left) /\ r \in ScopesOf(left) /\ t.next \in Nat
  BY RegIdentUnmarked, GoodNumbers DEF Unmarked, Grown
<1>2. u \in RegOperator(tag, left, r, t.next, y)
  BY DEF RegBinary
<1> HIDE DEF left
<1>3. Unmarked(left, u)
  BY <1>1, <1>2, RegOperatorUnmarked
<1> QED BY <1>1, <1>3, UnmarkedTrans

LEMMA RegChainUnmarked ==
  ASSUME NEW t, Good(t), NEW r \in ScopesOf(t), NEW x \in Idents \cup {NoName},
         NEW y \in Idents \cup {NoName}, NEW v \in RegChain(t, r, x, y)
  PROVE  Unmarked(t, v)
<1>1. PICK u \in RegBinary("BinaryOp", t, r, x, y) :
        v \in RegOperator("BinaryOp", u, r, u.next - 1, y)
  BY DEF RegChain
<1>2. Unmarked(t, u)
  BY <1>1, RegBinaryUnmarked
<1>3. Good(u) /\ r \in ScopesOf(u) /\ u.next - 1 \in Nat
  <2>1. Good(u) /\ r \in ScopesOf(u)
    BY <1>2 DEF Unmarked, Grown
  <2> QED BY <2>1, GoodNumbers
<1>4. Unmarked(u, v)
  BY <1>1, <1>3, RegOperatorUnmarked
<1> QED BY <1>2, <1>4, UnmarkedTrans

LEMMA RegCallUnmarked ==
  ASSUME NEW t, Good(t), NEW r \in ScopesOf(t), NEW x \in Names \cup {NoName},
         NEW y \in Idents \cup {NoName}
  PROVE  Unmarked(t, RegCall(t, r, x, y))
<1> DEFINE child == MakeChild(t, r)
           c     == Len(child.parent)
           args  == IF y = NoName THEN child ELSE RegIdent(child, c, y)
           ops   == IF y = NoName THEN << >> ELSE <<t.next>>
<1>1. Unmarked(t, child) /\ Good(child) /\ c \in ScopesOf(child) /\ c \in Nat
  <2>1. Unmarked(t, child)
    BY ChildUnmarked
  <2>2. c = Len(t.parent) + 1 /\ c \in ScopesOf(child)
    BY NewScopeGrown
  <2> HIDE DEF child, c
  <2> QED BY <2>1, <2>2, GoodNumbers DEF Unmarked, Grown
<1> HIDE DEF child, c
<1>2. Unmarked(t, args)
  <2>1. CASE y = NoName
    BY <1>1, <2>1
  <2>2. CASE y # NoName
    <3>1. Unmarked(child, args)
      BY <1>1, <2>2, RegIdentUnmarked
    <3> HIDE DEF args
    <3> QED BY <1>1, <3>1, UnmarkedTrans
  <2> QED BY <2>1, <2>2
<1>3. /\ ops \in Seq(Nat) /\ <<c>> \in Seq(Nat) /\ NoName \in Names \cup {NoName}
      /\ "Call" \in Tags \ Marked
  BY <1>1, GoodNumbers DEF Tags, Marked
<1>4. RegCall(t, r, x, y) = Insert(args, r, NewEntry("Call", NoName, x, <<c>>, ops))
  BY DEF RegCall, child, c, args, ops
<1> HIDE DEF args, ops
<1>5. Unmarked(t, Insert(args, r, NewEntry("Call", NoName, x, <<c>>, ops)))
  BY <1>2, <1>3, ThenUnmarked
<1> QED BY <1>4, <1>5

LEMMA RegSelfCallUnmarked ==
  ASSUME NEW t, Good(t), NEW r \in ScopesOf(t), NEW cls \in Idents \cup {NoName},
         NEW x \in Idents, NEW y \in Idents \cup {NoName}
  PROVE  Unmarked(t, RegSelfCall(t, r, cls, x, y))
<1> DEFINE args  == IF y = NoName THEN t ELSE RegIdent(t, r, y)
           child == MakeChild(args, r)
           c     == Len(child.parent)
           name  == IF cls = NoName THEN x ELSE Mangled[cls][x][1]
           ops   == IF y = NoName THEN << >> ELSE <<t.next>>
<1>1. Unmarked(t, args)
  BY RegIdentUnmarked, UnmarkedRefl
<1>2. Good(args) /\ r \in ScopesOf(args)
  BY <1>1 DEF Unmarked, Grown
<1>3. /\ ops \in Seq(Nat) /\ NoName \in Names \cup {NoName} /\ "Call" \in Tags \ Marked
      /\ name \in Names \cup {NoName}
  <2>1. name \in Names \cup {NoName}
    BY MangledName, ProgramAssumption
  <2> QED BY <2>1, GoodNumbers DEF Tags, Marked
<1>4. RegSelfCall(t, r, cls, x, y) =
        Insert(child, r, NewEntry("Call", NoName, name, <<c>>, ops))
  BY DEF RegSelfCall, child, c, args, ops, name
<1> HIDE DEF args, ops, name
<1>5. Unmarked(args, child) /\ c \in Nat
  <2>1. Unmarked(args, child)
    BY <1>2, ChildUnmarked
  <2> HIDE DEF child
  <2> QED BY <2>1, GoodNumbers DEF Unmarked, Grown
<1> HIDE DEF child, c
<1>6. Unmarked(t, child) /\ <<c>> \in Seq(Nat)
  BY <1>1, <1>5, UnmarkedTrans
<1>7. Unmarked(t, Insert(child, r, NewEntry("Call", NoName, name, <<c>>, ops)))
  BY <1>3, <1>6, ThenUnmarked
<1> QED BY <1>4, <1>7

LEMMA RegUnaryUnmarked ==
  ASSUME NEW tag \in Tags \ Marked, NEW t, Good(t), NEW r \in ScopesOf(t),
         NEW x \in Idents \cup {NoName}
  PROVE  Unmarked(t, RegUnary(tag, t, r, x))
<1> DEFINE operand == RegIdent(t, r, x)
           g == operand.table[r].cap
<1>1. Unmarked(t, operand)
  BY RegIdentUnmarked
<1>2. <<t.next>> \in Seq(Nat) /\ NoName \in Names \cup {NoName}
  BY GoodNumbers
<1>3. RegUnary(tag, t, r, x) =
        Insert(operand, r, [NewEntry(tag, NoName, NoName, << >>, <<t.next>>)
                              EXCEPT !.gen = g])
  BY DEF RegUnary, operand, g
<1>4. g = operand.table[r].cap
  OBVIOUS
<1> HIDE DEF operand, g
<1>5. Unmarked(t, Insert(operand, r, [NewEntry(tag, NoName, NoName, << >>, <<t.next>>)
                                        EXCEPT !.gen = g]))
  BY <1>1, <1>2, <1>4, ThenPointerUnmarked
<1> QED BY <1>3, <1>5

LEMMA RegFieldUnmarked ==
  ASSUME NEW t, Good(t), NEW r \in ScopesOf(t), NEW x \in Idents \cup {NoName},
         NEW y \in Idents \cup {NoName}
  PROVE  Unmarked(t, RegField(t, r, x, y))
<1> DEFINE id == LocalId(t, r, x)
           g == t.table[r].cap
<1>1. id \in Nat
  <2>1. \A z \in DOMAIN t.table[r].names : t.table[r].names[z] \in Entry
    BY DEF Good, TablesType
  <2>2. \A z \in DOMAIN t.table[r].names : t.table[r].names[z].eid \in Nat
    BY <2>1 DEF Entry
  <2> QED BY <2>2 DEF LocalId
<1>2. g = t.table[r].cap
  OBVIOUS
<1>3. RegField(t, r, x, y) =
        Insert(t, r, [NewEntry("Field", NoName, y, << >>, <<id>>) EXCEPT !.gen = g])
  BY DEF RegField
<1> HIDE DEF id, g
<1>4. /\ "Field" \in Tags \ Marked /\ y \in Names \cup {NoName}
      /\ NoName \in Names \cup {NoName} /\ <<id>> \in Seq(Nat)
  BY <1>1, ProgramAssumption DEF Tags, Marked
<1>5. Unmarked(t, t)
  BY UnmarkedRefl
<1>6. Unmarked(t, Insert(t, r, [NewEntry("Field", NoName, y, << >>, <<id>>)
                                  EXCEPT !.gen = g]))
  BY <1>2, <1>4, <1>5, ThenPointerUnmarked
<1> QED BY <1>3, <1>6

(* register_expr makes no parameter and no function.                       *)
LEMMA RegExprUnmarked ==
  ASSUME NEW t, Good(t), NEW r \in ScopesOf(t), NEW cls \in Idents \cup {NoName},
         NEW e \in Exprs \cup Targets \cup {NoExpr, ZeroedExpr},
         NEW u \in RegExpr(t, r, cls, e)
  PROVE  Unmarked(t, u)
<1>1. e \in ExprShapes /\ NamesCallee(e)
  BY ProgramAssumption DEF NoExpr, ZeroedExpr, ExprShapes, Targets, NamesCallee
<1>2. /\ e.x \in Idents \cup {NoName} /\ e.y \in Idents \cup {NoName}
      /\ e.k \in {"Null", "Literal", "Ident", "BinaryOp", "Chain", "Index",
                 "Call", "SelfCall", "ClassCall", "Make", "Unary", "AddrOf",
                 "Cast", "Field", "Builtin"}
      /\ Idents \subseteq Names
  BY <1>1, ProgramAssumption DEF ExprShapes
<1>3. /\ {"Literal", "Unary", "AddrOf", "Cast", "StructCall"} \subseteq Tags \ Marked
      /\ NoName \in Names \cup {NoName} /\ << >> \in Seq(Nat) /\ <<t.next>> \in Seq(Nat)
      /\ 0 \in Nat
  BY GoodNumbers DEF Tags, Marked
<1>4. CASE e.k \in {"Null", "Builtin"}
  BY <1>4, UnmarkedRefl DEF RegExpr
<1>5. CASE e.k = "Literal"
  <2>1. u = Insert(t, r, NewEntry("Literal", NoName, NoName, << >>, << >>))
    BY <1>5 DEF RegExpr, RegLiteral
  <2> QED BY <1>3, <2>1, NewUnmarked
<1>6. CASE e.k = "Ident"
  BY <1>2, <1>6, RegIdentUnmarked DEF RegExpr
<1>7. CASE e.k \in {"BinaryOp", "Index"}
  BY <1>2, <1>7, RegBinaryUnmarked DEF RegExpr
<1>8. CASE e.k = "Chain"
  BY <1>2, <1>8, RegChainUnmarked DEF RegExpr
<1>9. CASE e.k = "Call"
  BY <1>2, <1>9, RegCallUnmarked DEF RegExpr
<1>10. CASE e.k = "SelfCall"
  BY <1>1, <1>2, <1>10, RegSelfCallUnmarked DEF RegExpr, NamesCallee
<1>11. CASE e.k = "ClassCall"
  <2>1. e.x \in Idents /\ e.y \in Idents
    BY <1>1, <1>2, <1>11 DEF NamesCallee
  <2>2. Mangled[e.x][e.y][1] \in Names \cup {NoName}
    BY <2>1, MangledName
  <2>3. u = RegCall(t, r, Mangled[e.x][e.y][1], e.y)
    BY <1>11 DEF RegExpr, RegClassCall
  <2> QED BY <1>2, <2>2, <2>3, RegCallUnmarked
<1>12. CASE e.k = "Make"
  <2> DEFINE v == RegIdent(t, r, e.y)
  <2>1. Unmarked(t, v)
    BY <1>2, RegIdentUnmarked
  <2>2. u = Insert(v, r, NewEntry("StructCall", NoName, e.x, << >>, <<t.next>>))
    BY <1>12 DEF RegExpr, RegMake
  <2> HIDE DEF v
  <2>3. e.x \in Names \cup {NoName}
    BY <1>2
  <2> QED BY <1>3, <2>1, <2>2, <2>3, ThenUnmarked
<1>13. CASE e.k \in {"Unary", "AddrOf"}
  BY <1>2, <1>3, <1>13, RegUnaryUnmarked DEF RegExpr
<1>14. CASE e.k = "Cast"
  <2> DEFINE v == RegIdent(t, r, e.x)
  <2>1. Unmarked(t, v)
    BY <1>2, RegIdentUnmarked
  <2>2. u = Insert(v, r, NewEntry("Cast", NoName, NoName, << >>, <<t.next>>))
    BY <1>14 DEF RegExpr, RegCast
  <2> HIDE DEF v
  <2> QED BY <1>3, <2>1, <2>2, ThenUnmarked
<1>15. CASE e.k = "Field"
  BY <1>2, <1>15, RegFieldUnmarked DEF RegExpr
<1> QED BY <1>2, <1>4, <1>5, <1>6, <1>7, <1>8, <1>9, <1>10, <1>11, <1>12, <1>13,
           <1>14, <1>15

-------------------------------------------------------------------------------
(* Steps                                                                   *)

LEMMA LeafUnmarked ==
  ASSUME IInv, LeafStmt
  PROVE  Unmarked(T, T')
<1>1. stack # << >>
  BY DEF LeafStmt, RegisterStruct, RegisterEnum, RegisterVar, RegisterAssign,
         RegisterLet, RegisterReturn, RegisterExprStmt, RegisterAtomic, SkipLocal,
         SkipElse, Leaf, Stmt
<1>2. /\ Good(T) /\ Top.reg \in ScopesOf(T) /\ Top.cls \in Idents \cup {NoName}
      /\ {"Struct", "Enum", "Atomic", "Literal", "Return", "ExprStmt", "Var", "Let",
          "Const", "Assign"} \subseteq Tags \ Marked
      /\ NoName \in Names \cup {NoName} /\ Idents \subseteq Names \cup {NoName}
      /\ << >> \in Seq(Nat) /\ <<0>> \in Seq(Nat) /\ 0 \in Nat
  BY <1>1, TopFacts, ProgramAssumption DEF IInv, Tags, Marked
<1>3. ASSUME NEW x \in Idents, RegisterStruct(x) \/ RegisterEnum(x)
      PROVE  Unmarked(T, T')
  <2>1. PICK tag \in {"Struct", "Enum"} :
          T' = Insert(T, Top.reg, NewEntry(tag, x, NoName, << >>, << >>))
    BY <1>3 DEF RegisterStruct, RegisterEnum
  <2> QED BY <1>2, <2>1, NewUnmarked
<1>4. ASSUME NEW x \in Idents, NEW e \in Exprs, RegisterVar(x, e)
      PROVE  Unmarked(T, T')
  <2>1. CASE e.k = "Null"
    <3>1. T' = Insert(T, Top.reg, NewEntry("Var", x, NoName, << >>, <<0>>))
      BY <1>4, <2>1 DEF RegisterVar
    <3> QED BY <1>2, <3>1, NewUnmarked
  <2>2. CASE e.k # "Null"
    <3> DEFINE child == MakeChild(T, Top.reg)
               c     == Len(child.parent)
    <3>1. PICK t \in RegExpr(child, c, Top.cls, e) :
            T' = Insert(t, Top.reg, NewEntry("Var", x, NoName, <<c>>, <<ExprId(T, t)>>))
      BY <1>4, <2>2 DEF RegisterVar
    <3>2. Unmarked(T, child) /\ c \in ScopesOf(child)
      <4>1. c = Len(T.parent) + 1 /\ c \in ScopesOf(child)
        BY <1>2, NewScopeGrown
      <4> QED BY <1>2, <4>1, ChildUnmarked
    <3> HIDE DEF child, c
    <3>3. Good(child) /\ c \in Nat
      BY <3>2, GoodNumbers DEF Unmarked, Grown
    <3>4. Unmarked(child, t)
      BY <1>2, <3>1, <3>2, <3>3, RegExprUnmarked
    <3>5. Unmarked(T, t)
      BY <1>2, <3>2, <3>4, UnmarkedTrans
    <3>6. <<ExprId(T, t)>> \in Seq(Nat) /\ <<c>> \in Seq(Nat)
      BY <3>3, <3>5, ExprIdNat DEF Unmarked, Grown
    <3> QED BY <1>2, <3>1, <3>5, <3>6, ThenUnmarked
  <2> QED BY <2>1, <2>2
<1>5. ASSUME NEW kind \in {"Let", "Const"}, NEW x \in Idents, NEW e \in Exprs,
             RegisterLet(kind, x, e)
      PROVE  Unmarked(T, T')
  <2>1. PICK t \in RegExpr(T, Top.reg, Top.cls, LetInit(e)) :
          T' = Insert(t, Top.reg,
                      [NewEntry(kind, x, NoName, << >>, <<ExprId(T, t)>>)
                         EXCEPT !.gen = t.table[Top.reg].cap])
    BY <1>5 DEF RegisterLet
  <2>2. LetInit(e) \in Exprs \cup {NoExpr}
    BY DEF LetInit
  <2>3. Unmarked(T, t)
    BY <1>2, <2>1, <2>2, RegExprUnmarked
  <2>4. <<ExprId(T, t)>> \in Seq(Nat)
    BY <2>3, ExprIdNat DEF Unmarked, Grown
  <2> DEFINE g == t.table[Top.reg].cap
             ops == <<ExprId(T, t)>>
  <2>5. T' = Insert(t, Top.reg, [NewEntry(kind, x, NoName, << >>, ops) EXCEPT !.gen = g])
    BY <2>1
  <2>6. g = t.table[Top.reg].cap /\ ops \in Seq(Nat)
    BY <2>4
  <2> HIDE DEF g, ops
  <2> QED BY <1>2, <2>3, <2>5, <2>6, ThenPointerUnmarked, ZenonT(30)
<1>6. ASSUME NEW d \in Targets, NEW e \in Exprs, RegisterAssign(d, e)
      PROVE  Unmarked(T, T')
  <2>1. PICK target \in RegExpr(T, Top.reg, Top.cls, d) :
          \E t \in RegExpr(target, Top.reg, Top.cls, e) :
            \E targetId \in Held(target, t, Top.reg, ExprId(T, target)) :
              T' = Insert(t, Top.reg, NewEntry("Assign", NoName, NoName, << >>,
                                               <<targetId, ExprId(target, t)>>))
    BY <1>6 DEF RegisterAssign
  <2>2. PICK t \in RegExpr(target, Top.reg, Top.cls, e) :
          \E targetId \in Held(target, t, Top.reg, ExprId(T, target)) :
            T' = Insert(t, Top.reg, NewEntry("Assign", NoName, NoName, << >>,
                                             <<targetId, ExprId(target, t)>>))
    BY <2>1
  <2>3. PICK targetId \in Held(target, t, Top.reg, ExprId(T, target)) :
          T' = Insert(t, Top.reg, NewEntry("Assign", NoName, NoName, << >>,
                                           <<targetId, ExprId(target, t)>>))
    BY <2>2
  <2>4. Unmarked(T, target)
    BY <1>2, <2>1, RegExprUnmarked
  <2>5. Good(target) /\ Top.reg \in ScopesOf(target)
    BY <1>2, <2>4 DEF Unmarked, Grown
  <2>6. Unmarked(target, t)
    BY <1>2, <2>2, <2>5, RegExprUnmarked
  <2>7. Unmarked(T, t) /\ Good(t)
    BY <1>2, <2>4, <2>6, UnmarkedTrans DEF Unmarked, Grown
  <2>8. targetId \in Nat /\ ExprId(target, t) \in Nat
    <3>1. ExprId(T, target) \in Nat /\ ExprId(target, t) \in Nat
      BY <2>5, <2>7, ExprIdNat
    <3> QED BY <2>3, <2>7, <3>1, HeldNat
  <2> DEFINE ops == <<targetId, ExprId(target, t)>>
  <2>9. ops \in Seq(Nat)
    BY <2>8
  <2>10. T' = Insert(t, Top.reg, NewEntry("Assign", NoName, NoName, << >>, ops))
    BY <2>3
  <2> HIDE DEF ops
  <2> QED BY <1>2, <2>7, <2>9, <2>10, ThenUnmarked
<1>7. ASSUME NEW e \in Exprs, RegisterReturn(e) \/ RegisterExprStmt(e)
      PROVE  Unmarked(T, T')
  <2>1. PICK tag \in {"Return", "ExprStmt"}, t \in RegExpr(T, Top.reg, Top.cls, e) :
          T' = Insert(t, Top.reg, NewEntry(tag, NoName, NoName, << >>, <<ExprId(T, t)>>))
    BY <1>7 DEF RegisterReturn, RegisterExprStmt
  <2>2. Unmarked(T, t)
    BY <1>2, <2>1, RegExprUnmarked
  <2>3. <<ExprId(T, t)>> \in Seq(Nat)
    BY <2>2, ExprIdNat DEF Unmarked, Grown
  <2> QED BY <1>2, <2>1, <2>2, <2>3, ThenUnmarked
<1>8. CASE RegisterAtomic
  <2> DEFINE u == RegLiteral(T, Top.reg)
  <2>1. Unmarked(T, u)
    BY <1>2, NewUnmarked DEF RegLiteral
  <2>2. T' = Insert(u, Top.reg, NewEntry("Atomic", NoName, NoName, << >>, << >>))
    BY <1>8 DEF RegisterAtomic
  <2> HIDE DEF u
  <2> QED BY <1>2, <2>1, <2>2, ThenUnmarked
<1>9. CASE SkipLocal \/ SkipElse
  <2>1. T' = T
    BY <1>9 DEF SkipLocal, SkipElse
  <2> QED BY <1>2, <2>1, UnmarkedRefl
<1> QED BY <1>3, <1>4, <1>5, <1>6, <1>7, <1>8, <1>9 DEF LeafStmt

-------------------------------------------------------------------------------
(* Headers                                                                 *)

HeaderInv == TreeInv /\ ParamsBound(T) /\ HeadsOK(stack, T)

HeadsStep == ParamsBound(T') /\ HeadsOK(stack', T')

LEMMA BoundKept ==
  ASSUME NEW t, NEW u, Grown(t, u), NoNew(t, u, {"Param"}), NEW r \in ScopesOf(u),
         r \in ScopesOf(t) => Bound(t, r)
  PROVE  Bound(u, r)
<1> SUFFICES ASSUME NEW i \in DOMAIN u.table[r].ids, u.table[r].ids[i].tag = "Param",
                    NEW x, x = u.table[r].ids[i].name
             PROVE  x \in DOMAIN u.table[r].names /\ u.table[r].names[x].tag = "Param"
  BY DEF Bound
<1>1. /\ r \in ScopesOf(t) /\ i \in DOMAIN t.table[r].ids
      /\ u.table[r].ids[i] = t.table[r].ids[i]
  BY DEF NoNew
<1>2. x \in DOMAIN t.table[r].names /\ t.table[r].names[x].tag = "Param"
  BY <1>1 DEF Bound
<1> QED BY <1>1, <1>2 DEF Grown, Extends

LEMMA UnmarkedParts ==
  ASSUME NEW t, NEW u, Unmarked(t, u)
  PROVE  /\ Grown(t, u) /\ NoNew(t, u, {"Param"}) /\ NoNew(t, u, {"Function"})
         /\ Good(u) /\ ScopesOf(t) \subseteq ScopesOf(u)
BY DEF Unmarked, NoNew, Marked, Grown

(* Entries of functions keep their parameters.                             *)
LEMMA ParamsBoundKept ==
  ASSUME NEW t, Good(t), Tree(t), ParamsBound(t), NEW u, Unmarked(t, u)
  PROVE  ParamsBound(u)
<1> SUFFICES ASSUME NEW r \in ScopesOf(u), NEW j \in DOMAIN u.table[r].ids,
                    u.table[r].ids[j].tag = "Function"
             PROVE  /\ u.table[r].ids[j].kids # << >>
                    /\ Bound(u, u.table[r].ids[j].kids[1])
  BY DEF ParamsBound
<1> DEFINE e == t.table[r].ids[j]
<1>1. r \in ScopesOf(t) /\ j \in DOMAIN t.table[r].ids /\ u.table[r].ids[j] = e
  BY UnmarkedParts DEF NoNew
<1>2. e.tag = "Function"
  BY <1>1
<1>3. e.kids # << >> /\ Bound(t, e.kids[1])
  BY <1>1, <1>2 DEF ParamsBound
<1>4. e.kids[1] \in ScopesOf(t)
  <2>1. r \in ScopesOf(t) /\ j \in DOMAIN t.table[r].ids
    BY <1>1
  <2>2. 1 \in DOMAIN e.kids
    <3>1. e \in Entry
      BY <1>1 DEF Good, TablesType
    <3>2. e.kids \in Seq(Nat)
      BY <3>1 DEF Entry
    <3> HIDE DEF e
    <3> QED BY <1>3, <3>2
  <2> QED BY <2>1, <2>2 DEF Tree, KidsMade
<1> HIDE DEF e
<1>5. Bound(u, e.kids[1])
  BY <1>3, <1>4, UnmarkedParts, BoundKept
<1> QED BY <1>1, <1>3, <1>5

SameHead(f, g) ==
  f.kind = g.kind /\ f.reg = g.reg /\ f.kids = g.kids /\ f.todo = g.todo

LEMMA HeadKept ==
  ASSUME NEW t, NEW u, Grown(t, u), NoNew(t, u, {"Param"}), NEW f,
         f.reg \in ScopesOf(t), HeadOK(t, f), f.todo = << >>, NEW g, SameHead(g, f)
  PROVE  HeadOK(u, g)
<1>1. Bound(t, f.reg) => Bound(u, f.reg)
  BY BoundKept DEF Grown
<1> QED BY <1>1 DEF HeadOK, SameHead

(* Outer handlers are past their headers.                                  *)
LEMMA HeadsRest ==
  ASSUME HeaderInv, Grown(T, T'), NoNew(T, T', {"Param"}), StackOK(stack', T'),
         \A i \in DOMAIN stack' :
           \/ i \in DOMAIN stack /\ stack[i].todo = << >> /\ SameHead(stack'[i], stack[i])
           \/ i = Len(stack') /\ HeadOK(T', stack'[i])
  PROVE  HeadsOK(stack', T')
<1>1. ASSUME NEW i \in DOMAIN stack'
      PROVE  HeadOK(T', stack'[i]) /\ (i < Len(stack') => stack'[i].todo = << >>)
  <2>1. CASE i \in DOMAIN stack /\ stack[i].todo = << >> /\ SameHead(stack'[i], stack[i])
    <3>1. stack[i] \in FrameType(T)
      BY <2>1 DEF HeaderInv, TreeInv, IInv, StackOK
    <3>2. stack[i].reg \in ScopesOf(T)
      BY <3>1 DEF FrameType
    <3>3. HeadOK(T, stack[i])
      BY <2>1 DEF HeaderInv, HeadsOK
    <3>4. HeadOK(T', stack'[i])
      BY <2>1, <3>2, <3>3, HeadKept
    <3>5. stack'[i].todo = << >>
      BY <2>1 DEF SameHead
    <3> QED BY <3>4, <3>5
  <2>2. CASE i = Len(stack') /\ HeadOK(T', stack'[i])
    <3>1. Len(stack') \in Nat
      BY DEF StackOK
    <3> QED BY <2>2, <3>1
  <2> QED BY <1>1, <2>1, <2>2
<1> QED BY <1>1 DEF HeadsOK

LEMMA HeadsFrom ==
  ASSUME HeaderInv, Unmarked(T, T'), StackOK(stack', T'),
         \A i \in DOMAIN stack' :
           \/ i \in DOMAIN stack /\ stack[i].todo = << >> /\ SameHead(stack'[i], stack[i])
           \/ i = Len(stack') /\ HeadOK(T', stack'[i])
  PROVE  HeadsStep
<1>1. ParamsBound(T')
  BY ParamsBoundKept DEF HeaderInv, TreeInv, IInv, Sound
<1>2. HeadsOK(stack', T')
  BY UnmarkedParts, HeadsRest
<1> QED BY <1>1, <1>2 DEF HeadsStep

LEMMA SeqNone == \A s \in Seq({}) : s = << >>
OBVIOUS

(* A statement, or the end of one, comes after the header around it.        *)
LEMMA PastHeader ==
  ASSUME HeaderInv, LeafStmt \/ Begin \/ End
  PROVE  /\ stack # << >> /\ Len(stack) \in DOMAIN stack
         /\ \A i \in DOMAIN stack : stack[i].todo = << >> /\ HeadOK(T, stack[i])
<1>1. stack # << >>
  BY BeginOpen, EndOpen
     DEF LeafStmt, RegisterStruct, RegisterEnum, RegisterVar, RegisterAssign,
         RegisterLet, RegisterReturn, RegisterExprStmt, RegisterAtomic, SkipLocal,
         SkipElse, Leaf, Stmt
<1>2. Len(stack) \in DOMAIN stack /\ DOMAIN stack = 1..Len(stack) /\ Len(stack) \in Nat
  BY <1>1 DEF HeaderInv, TreeInv, IInv, StackOK
<1>3. HeadOK(T, Top)
  BY <1>2 DEF HeaderInv, HeadsOK, Top
<1>4. Top.todo = << >>
  <2>1. ASSUME Top.kind \in FrameKinds \ (Callables \cup {"Class", "Extern"})
        PROVE  Top.todo = << >>
    <3>1. HeadersOf(Top.kind) = {}
      BY <2>1 DEF HeadersOf
    <3> QED BY <1>3, <3>1, SeqNone DEF HeadOK
  <2>2. CASE LeafStmt
    BY <2>1, <2>2
       DEF LeafStmt, RegisterStruct, RegisterEnum, RegisterVar, RegisterAssign,
           RegisterLet, RegisterReturn, RegisterExprStmt, RegisterAtomic, SkipLocal,
           SkipElse, Leaf, Stmt, AcceptsStmt, InElse, FrameKinds, Callables
  <2>3. CASE Begin
    BY <2>1, <2>3
       DEF Begin, BeginFunction, BeginClass, BeginMethod, BeginTraitMethod,
           BeginExternFunc, BeginTrait, BeginModule, BeginExtern, BeginIf, BeginElif,
           BeginWhile, BeginFor, BeginMatch, BeginElse, BeginArm, CompoundStmt, Stmt,
           AcceptsStmt, InElse, FrameKinds, Callables, Open, BodyRead, EnterBlock
  <2>4. CASE End
    BY <2>1, <2>4
       DEF End, EndFunction, EndMethod, EndClass, EndTraitMethod, EndTrait, EndModule,
           EndExtern, EndIf, EndElif, EndWhile, EndFor, EndMatch, EndBody, BodyRead,
           Open, FrameKinds, Callables
  <2> QED BY <2>2, <2>3, <2>4
<1>5. ASSUME NEW i \in DOMAIN stack PROVE stack[i].todo = << >> /\ HeadOK(T, stack[i])
  <2>1. i = Len(stack) \/ i < Len(stack)
    BY <1>2
  <2> QED BY <1>4, <2>1 DEF HeaderInv, HeadsOK, Top
<1> QED BY <1>1, <1>2, <1>5

LEMMA LeafHeads ==
  ASSUME HeaderInv, LeafStmt, StackOK(stack', T')
  PROVE  HeadsStep
<1>1. Unmarked(T, T')
  BY LeafUnmarked DEF HeaderInv, TreeInv
<1>2. /\ Len(stack) \in DOMAIN stack
      /\ \A i \in DOMAIN stack : stack[i].todo = << >> /\ HeadOK(T, stack[i])
  BY PastHeader
<1>3. CASE stack' = stack
  <2>1. \A i \in DOMAIN stack' :
          i \in DOMAIN stack /\ stack[i].todo = << >> /\ SameHead(stack'[i], stack[i])
    BY <1>2, <1>3 DEF SameHead
  <2> QED BY <1>1, <2>1, HeadsFrom
<1>4. CASE SkipElse
  <2>1. SetTop([Top EXCEPT !.full = TRUE])
    BY <1>4 DEF SkipElse
  <2>2. /\ DOMAIN stack' = DOMAIN stack
        /\ \A i \in DOMAIN stack : SameHead(stack'[i], stack[i])
    <3>1. Top \in FrameType(T)
      BY <1>2 DEF HeaderInv, TreeInv, IInv, StackOK, Top
    <3>2. SameHead([Top EXCEPT !.full = TRUE], Top)
      BY <3>1 DEF SameHead, FrameType
    <3>3. \A i \in DOMAIN stack : SameHead(stack[i], stack[i])
      BY DEF SameHead
    <3> DEFINE g == [Top EXCEPT !.full = TRUE]
    <3>4. stack' = [stack EXCEPT ![Len(stack)] = g] /\ SameHead(g, stack[Len(stack)])
      BY <2>1, <3>2 DEF SetTop, Top
    <3> HIDE DEF g
    <3> QED BY <1>2, <3>3, <3>4
  <2>3. \A i \in DOMAIN stack' :
          i \in DOMAIN stack /\ stack[i].todo = << >> /\ SameHead(stack'[i], stack[i])
    BY <1>2, <2>2
  <2> QED BY <1>1, <2>3, HeadsFrom
<1> QED BY <1>3, <1>4
        DEF LeafStmt, RegisterStruct, RegisterEnum, RegisterVar, RegisterAssign,
            RegisterLet, RegisterReturn, RegisterExprStmt, RegisterAtomic, SkipLocal,
            Leaf

(* A handler of its own is put on the others, the one around it marked.    *)
LEMMA HeadsPush ==
  ASSUME HeaderInv, LeafStmt \/ Begin \/ End, Unmarked(T, T'), StackOK(stack', T'),
         NEW s, Len(s) = Len(stack), DOMAIN s = DOMAIN stack, s \in Seq(FrameType(T)),
         \A i \in DOMAIN stack : SameHead(s[i], stack[i]),
         NEW f, HeadOK(T', f), stack' = Append(s, f)
  PROVE  HeadsStep
<1>1. \A i \in DOMAIN stack : stack[i].todo = << >>
  BY PastHeader
<1>2. /\ Len(s) \in Nat /\ DOMAIN s = 1..Len(s) /\ Len(stack') = Len(s) + 1
      /\ DOMAIN stack' = 1..(Len(s) + 1) /\ stack'[Len(s) + 1] = f
      /\ \A i \in DOMAIN s : stack'[i] = s[i]
  OBVIOUS
<1>3. ASSUME NEW i \in DOMAIN stack'
      PROVE  \/ i \in DOMAIN stack /\ stack[i].todo = << >> /\ SameHead(stack'[i], stack[i])
             \/ i = Len(stack') /\ HeadOK(T', stack'[i])
  <2>1. i \in DOMAIN s \/ i = Len(s) + 1
    BY <1>2
  <2> QED BY <1>1, <1>2, <2>1
<1> QED BY <1>3, HeadsFrom

LEMMA HeadsPushed ==
  ASSUME HeaderInv, Begin, Unmarked(T, T'), StackOK(stack', T'), NEW f,
         HeadOK(T', f), Push(f)
  PROVE  HeadsStep
<1>1. stack \in Seq(FrameType(T)) /\ stack' = Append(stack, f)
  BY DEF HeaderInv, TreeInv, IInv, StackOK, Push
<1>2. \A i \in DOMAIN stack : SameHead(stack[i], stack[i])
  BY DEF SameHead
<1> QED BY <1>1, <1>2, HeadsPush

(* The innermost handler goes on.                                          *)
LEMMA HeadsTop ==
  ASSUME HeaderInv, stack # << >>, Unmarked(T, T'), StackOK(stack', T'), NEW f,
         HeadOK(T', f), SetTop(f)
  PROVE  HeadsStep
<1>1. stack \in Seq(FrameType(T)) /\ Len(stack) \in Nat /\ DOMAIN stack = 1..Len(stack)
  BY DEF HeaderInv, TreeInv, IInv, StackOK
<1>2. /\ DOMAIN stack' = DOMAIN stack /\ Len(stack') = Len(stack)
      /\ stack'[Len(stack)] = f
      /\ \A i \in DOMAIN stack : i # Len(stack) => stack'[i] = stack[i]
  BY <1>1 DEF SetTop
<1>3. ASSUME NEW i \in DOMAIN stack'
      PROVE  \/ i \in DOMAIN stack /\ stack[i].todo = << >> /\ SameHead(stack'[i], stack[i])
             \/ i = Len(stack') /\ HeadOK(T', stack'[i])
  <2>1. CASE i = Len(stack)
    BY <1>2, <2>1
  <2>2. CASE i # Len(stack)
    <3>1. i < Len(stack) /\ i \in DOMAIN stack
      BY <1>1, <1>2, <2>2
    <3>2. stack[i].todo = << >>
      BY <3>1 DEF HeaderInv, HeadsOK
    <3> QED BY <1>2, <2>2, <3>1, <3>2 DEF SameHead
  <2> QED BY <2>1, <2>2
<1> QED BY <1>3, HeadsFrom

LEMMA HeadsPop ==
  ASSUME HeaderInv, End, Unmarked(T, T'), StackOK(stack', T'), Pop
  PROVE  HeadsStep
<1>1. stack \in Seq(FrameType(T)) /\ \A i \in DOMAIN stack : stack[i].todo = << >>
  BY PastHeader DEF HeaderInv, TreeInv, IInv, StackOK
<1>2. \A i \in DOMAIN stack' : i \in DOMAIN stack /\ stack'[i] = stack[i]
  BY <1>1 DEF Pop
<1>3. \A i \in DOMAIN stack' :
        i \in DOMAIN stack /\ stack[i].todo = << >> /\ SameHead(stack'[i], stack[i])
  BY <1>1, <1>2 DEF SameHead
<1> QED BY <1>3, HeadsFrom

-------------------------------------------------------------------------------
(* Bodies                                                                  *)

LEMMA HeaderKinds ==
  ASSUME NEW p \in Nat
  PROVE  /\ FunctionHeader(p) \in Seq({"P", "E"})
         /\ MethodHeader(p) \in Seq({"P", "E"})
         /\ Params(p) \o <<"F">> \in Seq({"P", "F"})
         /\ [i \in 1..p |-> "V"] \in Seq({"V"})
<1>1. /\ Params(p) \in Seq({"P", "E"}) /\ ParamExprs(p) \in Seq({"P", "E"})
      /\ Params(p) \in Seq({"P", "F"}) /\ <<"F">> \in Seq({"P", "F"})
      /\ [i \in 1..p |-> "V"] \in Seq({"V"})
  BY DEF Params, ParamExprs
<1>2. p * (p + 1) \in Nat
  OBVIOUS
<1> DEFINE n == p * (p + 1)
<1> HIDE DEF n
<1>3. \A h : [i \in 1..n |-> IF i % h = 1 THEN "P" ELSE "E"] \in Seq({"P", "E"})
  BY <1>2 DEF n
<1>4. MethodHeader(p) \in Seq({"P", "E"})
  BY <1>3 DEF MethodHeader, n
<1>5. FunctionHeader(p) \in Seq({"P", "E"})
  BY <1>1 DEF FunctionHeader
<1>6. Params(p) \o <<"F">> \in Seq({"P", "F"})
  <2> DEFINE a == Params(p)
             b == <<"F">>
  <2>1. a \in Seq({"P", "F"}) /\ b \in Seq({"P", "F"})
    BY <1>1
  <2> HIDE DEF a, b
  <2>2. a \o b \in Seq({"P", "F"})
    BY <2>1
  <2> QED BY <2>2 DEF a, b
<1> QED BY <1>1, <1>4, <1>5, <1>6

(* A handler whose body is a new scope.                                    *)
LEMMA FreshHead ==
  ASSUME IInv, NEW r \in ScopesOf(T), T' = MakeChild(T, r), NEW f, f.reg = NewScope,
         f.todo \in Seq(HeadersOf(f.kind)),
         f.kind \in {"Function", "Method"} => f.kids = <<NewScope>>,
         f.kind = "Extern" => f.kids # << >>
  PROVE  HeadOK(T', f) /\ Unmarked(T, T')
<1>1. Unmarked(T, T')
  BY ChildUnmarked DEF IInv
<1>2. IsChild(T, T', r)
  BY MakeChildShape DEF IInv, Good
<1>3. T'.table[NewScope] = EmptyTable
  BY <1>2 DEF IsChild, NewScope
<1>4. DOMAIN EmptyTable.names = {} /\ DOMAIN EmptyTable.ids = {}
  BY DEF EmptyTable
<1>5. OnlyParams(T', NewScope) /\ Bound(T', NewScope)
  BY <1>3, <1>4 DEF OnlyParams, Bound
<1> QED BY <1>1, <1>5 DEF HeadOK

LEMMA EmptyHeader == \A S : << >> \in Seq(S)
OBVIOUS

LEMMA EnterHeads ==
  ASSUME HeaderInv, Begin, StackOK(stack', T'), NEW r \in ScopesOf(T),
         NEW kind, NEW out, NEW cls, NEW name, NEW kids, NEW todo,
         todo \in Seq(HeadersOf(kind)),
         kind \in {"Function", "Method"} => kids = <<NewScope>>,
         kind = "Extern" => kids # << >>,
         Enter(r, Frame(kind, NewScope, out, cls, name, kids, << >>, todo))
  PROVE  HeadsStep
<1> DEFINE f == Frame(kind, NewScope, out, cls, name, kids, << >>, todo)
<1>1. f.reg = NewScope /\ f.kind = kind /\ f.kids = kids /\ f.todo = todo
  BY DEF Frame
<1> HIDE DEF f
<1>2. T' = MakeChild(T, r) /\ Push(f)
  BY DEF Enter, f
<1>3. HeadOK(T', f) /\ Unmarked(T, T')
  BY <1>1, <1>2, FreshHead DEF HeaderInv, TreeInv
<1> QED BY <1>2, <1>3, HeadsPushed

LEMMA BlockHeadOK ==
  ASSUME NEW t, NEW f, f.kind \notin Callables \cup {"Extern"}, f.todo = << >>
  PROVE  HeadOK(t, f)
BY EmptyHeader DEF HeadOK, Callables

(* The condition is registered in the first of the fresh scopes.           *)
LEMMA ConditionUnmarked ==
  ASSUME NEW t, Good(t), NEW r \in ScopesOf(t), NEW cls \in Idents \cup {NoName},
         NEW e \in Exprs, NEW t2, t2 = MakeChild(MakeChild(t, r), r),
         NEW t3, t3 = MakeChild(t2, r), NEW c, c = Len(t.parent) + 1, NEW u
  PROVE  /\ u \in RegExpr(t2, c, cls, e) => Unmarked(t, u)
         /\ u \in RegExpr(t3, c, cls, e) => Unmarked(t, u)
<1> DEFINE t1 == MakeChild(t, r)
<1>1. Unmarked(t, t1) /\ c \in ScopesOf(t1)
  BY ChildUnmarked, NewScopeGrown
<1>2. t2 = MakeChild(t1, r)
  OBVIOUS
<1> HIDE DEF t1
<1>3. Good(t1) /\ r \in ScopesOf(t1)
  BY <1>1, UnmarkedParts
<1>4. Unmarked(t1, t2)
  BY <1>2, <1>3, ChildUnmarked
<1>5. Good(t2) /\ r \in ScopesOf(t2) /\ c \in ScopesOf(t2) /\ Unmarked(t, t2)
  BY <1>1, <1>3, <1>4, UnmarkedParts, UnmarkedTrans
<1>6. Unmarked(t2, t3)
  BY <1>5, ChildUnmarked
<1>7. Good(t3) /\ c \in ScopesOf(t3) /\ Unmarked(t, t3)
  BY <1>5, <1>6, UnmarkedParts, UnmarkedTrans
<1>8. ASSUME u \in RegExpr(t2, c, cls, e) PROVE Unmarked(t, u)
  <2>1. Unmarked(t2, u)
    BY <1>5, <1>8, RegExprUnmarked
  <2> QED BY <1>5, <2>1, UnmarkedTrans
<1>9. ASSUME u \in RegExpr(t3, c, cls, e) PROVE Unmarked(t, u)
  <2>1. Unmarked(t3, u)
    BY <1>7, <1>9, RegExprUnmarked
  <2> QED BY <1>7, <2>1, UnmarkedTrans
<1> QED BY <1>8, <1>9

LEMMA IfHeads ==
  ASSUME HeaderInv, Begin, StackOK(stack', T'), NEW kind \in {"If", "Elif"},
         NEW e \in Exprs, EnterIf(kind, e)
  PROVE  HeadsStep
<1> DEFINE n  == Len(T.parent)
           t2 == MakeChild(MakeChild(T, Top.reg), Top.reg)
           t3 == MakeChild(t2, Top.reg)
           f  == Frame(kind, n + 2, Top.reg, Top.cls, NoName, <<n + 1, n + 2, n + 3>>,
                       <<ExprId(t3, T')>>, << >>)
           g  == [Top EXCEPT !.full = InElse(Top)]
           s  == [stack EXCEPT ![Len(stack)] = g]
<1>1. T' \in RegExpr(t3, n + 1, Top.cls, e) /\ stack' = Append(s, f)
  BY DEF EnterIf, Top
<1>2. /\ IInv /\ Good(T) /\ stack # << >> /\ Len(stack) \in DOMAIN stack
      /\ stack \in Seq(FrameType(T))
  BY PastHeader DEF HeaderInv, TreeInv, IInv, StackOK
<1>3. Top.reg \in ScopesOf(T) /\ Top.cls \in Idents \cup {NoName} /\ Top \in FrameType(T)
  BY <1>2, TopFacts
<1>4. f.kind = kind /\ f.todo = << >>
  BY DEF Frame
<1>5. g \in FrameType(T) /\ SameHead(g, stack[Len(stack)])
  <2>1. InElse(Top) \in BOOLEAN
    BY DEF InElse
  <2> QED BY <1>3, <2>1 DEF FrameType, SameHead, Top
<1> HIDE DEF f, g
<1>6. HeadOK(T', f)
  BY <1>4, BlockHeadOK DEF Callables
<1>7. Unmarked(T, T')
  <2> DEFINE c == n + 1
  <2>1. t3 = MakeChild(t2, Top.reg) /\ c = Len(T.parent) + 1
    OBVIOUS
  <2>2. T' \in RegExpr(t3, c, Top.cls, e)
    BY <1>1
  <2>3. t2 = MakeChild(MakeChild(T, Top.reg), Top.reg)
    OBVIOUS
  <2> HIDE DEF t3, t2, n, c
  <2> QED BY <1>2, <1>3, <2>1, <2>2, <2>3, ConditionUnmarked
<1>8. /\ Len(s) = Len(stack) /\ DOMAIN s = DOMAIN stack /\ s \in Seq(FrameType(T))
      /\ \A i \in DOMAIN stack : SameHead(s[i], stack[i])
  <2>1. /\ Len(s) = Len(stack) /\ DOMAIN s = DOMAIN stack /\ s \in Seq(FrameType(T))
        /\ s[Len(stack)] = g /\ \A i \in DOMAIN stack : i # Len(stack) => s[i] = stack[i]
    BY <1>2, <1>5
  <2> QED BY <1>5, <2>1 DEF SameHead
<1> HIDE DEF s, n, t2, t3
<1> QED BY <1>1, <1>6, <1>7, <1>8, HeadsPush

LEMMA BlockHeads ==
  ASSUME HeaderInv, Begin, StackOK(stack', T'), NEW kind \in {"While", "For", "Match"},
         NEW e \in Exprs, NEW full, EnterBlock(kind, e, full)
  PROVE  HeadsStep
<1> DEFINE c  == Len(T.parent) + 1
           t2 == MakeChild(MakeChild(T, Top.reg), Top.reg)
           f  == Frame(kind, Len(T.parent) + 2, Top.reg, Top.cls, NoName,
                       <<c, Len(T.parent) + 2>>, <<ExprId(t2, T')>>, << >>)
           g  == [f EXCEPT !.full = full]
<1>1. T' \in RegExpr(t2, c, Top.cls, e) /\ Push(g)
  BY DEF EnterBlock
<1>2. IInv /\ Good(T) /\ stack # << >>
  BY PastHeader DEF HeaderInv, TreeInv, IInv
<1>3. Top.reg \in ScopesOf(T) /\ Top.cls \in Idents \cup {NoName}
  BY <1>2, TopFacts
<1>4. g.kind = kind /\ g.todo = << >>
  BY DEF Frame
<1>5. t2 = MakeChild(MakeChild(T, Top.reg), Top.reg) /\ c = Len(T.parent) + 1
  OBVIOUS
<1> HIDE DEF f, g, t2, c
<1>6. HeadOK(T', g)
  BY <1>4, BlockHeadOK DEF Callables
<1>7. Unmarked(T, T')
  BY <1>1, <1>2, <1>3, <1>5, ConditionUnmarked
<1> QED BY <1>1, <1>6, <1>7, HeadsPushed

LEMMA BeginHeads ==
  ASSUME HeaderInv, Begin, StackOK(stack', T')
  PROVE  HeadsStep
<1>1. /\ IInv /\ Good(T) /\ stack # << >> /\ Top.reg \in ScopesOf(T)
      /\ Top.out \in ScopesOf(T) /\ Top \in FrameType(T)
      /\ Unmarked(T, T) /\ 0..MaxParams \subseteq Nat
  BY PastHeader, TopFacts, UnmarkedRefl, ProgramAssumption DEF HeaderInv, TreeInv, IInv
<1>2. HeadOK(T, Top) /\ Top.todo = << >>
  BY PastHeader DEF Top
<1>3. ASSUME NEW x \in Idents, NEW p \in 0..MaxParams, BeginFunction(x, p)
      PROVE  HeadsStep
  <2>1. FunctionHeader(p) \in Seq(HeadersOf("Function"))
    BY <1>1, HeaderKinds DEF HeadersOf, Callables
  <2> QED BY <1>1, <1>3, <2>1, EnterHeads DEF BeginFunction
<1>4. ASSUME NEW x \in Idents, NEW p \in 0..MaxParams, BeginMethod(x, p)
      PROVE  HeadsStep
  <2>1. MethodHeader(p) \in Seq(HeadersOf("Method"))
    BY <1>1, HeaderKinds DEF HeadersOf, Callables
  <2>2. PICK k : Enter(Top.reg, Frame("Method", NewScope, Top.reg, Top.cls,
                                      Mangled[Top.cls][x][k], <<NewScope>>, << >>,
                                      MethodHeader(p)))
    BY <1>4 DEF BeginMethod
  <2> QED BY <1>1, <2>1, <2>2, EnterHeads
<1>5. ASSUME NEW p \in 0..MaxParams, BeginTraitMethod(p) PROVE HeadsStep
  <2>1. MethodHeader(p) \in Seq(HeadersOf("TraitMethod"))
    BY <1>1, HeaderKinds DEF HeadersOf, Callables
  <2> QED BY <1>1, <1>5, <2>1, EnterHeads DEF BeginTraitMethod
<1>6. ASSUME NEW x \in Idents, BeginModule(x) PROVE HeadsStep
  <2>1. << >> \in Seq(HeadersOf("Module"))
    BY EmptyHeader
  <2> QED BY <1>1, <1>6, <2>1, EnterHeads DEF BeginModule
<1>7. ASSUME NEW x \in Abis \cup {NoName}, BeginExtern(x) PROVE HeadsStep
  <2>1. << >> \in Seq(HeadersOf("Extern")) /\ <<NewScope>> # << >>
    BY EmptyHeader
  <2> QED BY <1>1, <1>7, <2>1, EnterHeads DEF BeginExtern
<1>8. ASSUME NEW x \in Idents, NEW p \in 0..MaxParams, BeginClass(x, p)
      PROVE  HeadsStep
  <2> DEFINE f == Frame("Class", Top.reg, Top.reg, x, x, << >>, << >>, [i \in 1..p |-> "V"])
  <2>1. Push(f) /\ T' = T
    BY <1>8 DEF BeginClass
  <2>2. f.kind = "Class" /\ f.todo = [i \in 1..p |-> "V"]
    BY DEF Frame
  <2> HIDE DEF f
  <2>3. HeadOK(T', f)
    BY <1>1, <2>2, HeaderKinds DEF HeadOK, HeadersOf, Callables
  <2> QED BY <1>1, <2>1, <2>3, HeadsPushed
<1>9. ASSUME NEW x \in Idents, BeginTrait(x) PROVE HeadsStep
  <2> DEFINE f == Frame("Trait", Top.reg, Top.reg, NoName, x, << >>, << >>, << >>)
  <2>1. Push(f) /\ T' = T
    BY <1>9 DEF BeginTrait
  <2>2. f.kind = "Trait" /\ f.todo = << >>
    BY DEF Frame
  <2> HIDE DEF f
  <2>3. HeadOK(T', f)
    BY <2>2, BlockHeadOK DEF Callables
  <2> QED BY <1>1, <2>1, <2>3, HeadsPushed
<1>10. ASSUME NEW p \in 0..MaxParams, BeginExternFunc(p) PROVE HeadsStep
  <2> DEFINE f == [Top EXCEPT !.todo = Params(p) \o <<"F">>]
  <2>1. SetTop(f) /\ T' = T /\ Top.kind = "Extern"
    BY <1>10 DEF BeginExternFunc, BodyRead, Open
  <2>2. f.kind = "Extern" /\ f.todo = Params(p) \o <<"F">> /\ f.kids = Top.kids
    BY <1>1, <2>1 DEF FrameType
  <2> HIDE DEF f
  <2>3. Params(p) \o <<"F">> \in Seq(HeadersOf("Extern"))
    BY <1>1, HeaderKinds DEF HeadersOf, Callables
  <2>4. HeadOK(T', f)
    BY <1>2, <2>1, <2>2, <2>3 DEF HeadOK, Callables
  <2> QED BY <1>1, <2>1, <2>4, HeadsTop
<1>11. ASSUME NEW e \in Exprs, BeginIf(e) \/ BeginElif(e) PROVE HeadsStep
  BY <1>11, IfHeads DEF BeginIf, BeginElif
<1>12. ASSUME NEW e \in Exprs, BeginWhile(e) \/ BeginFor(e) \/ BeginMatch(e)
       PROVE  HeadsStep
  BY <1>12, BlockHeads DEF BeginWhile, BeginFor, BeginMatch
<1>13. CASE BeginElse
  <2> DEFINE f == [Top EXCEPT !.reg = Top.kids[3]]
  <2>1. SetTop(f) /\ T' = T /\ Top.kind \in {"If", "Elif"}
    BY <1>13 DEF BeginElse, Open
  <2>2. f.kind = Top.kind /\ f.todo = << >>
    BY <1>1, <1>2 DEF FrameType
  <2> HIDE DEF f
  <2>3. HeadOK(T', f)
    BY <2>1, <2>2, BlockHeadOK DEF Callables
  <2> QED BY <1>1, <2>1, <2>3, HeadsTop
<1>14. CASE BeginArm
  <2> DEFINE f == [Top EXCEPT !.reg = NewScope, !.kids = Append(@, NewScope),
                              !.full = FALSE]
  <2>1. SetTop(f) /\ T' = MakeChild(T, Top.out) /\ Top.kind = "Match"
    BY <1>14 DEF BeginArm, Open
  <2>2. f.kind = Top.kind /\ f.todo = << >>
    BY <1>1, <1>2 DEF FrameType
  <2> HIDE DEF f
  <2>3. HeadOK(T', f)
    BY <2>1, <2>2, BlockHeadOK DEF Callables
  <2>4. Unmarked(T, T')
    BY <1>1, <2>1, ChildUnmarked
  <2> QED BY <1>1, <2>1, <2>3, <2>4, HeadsTop
<1> QED BY <1>3, <1>4, <1>5, <1>6, <1>7, <1>8, <1>9, <1>10, <1>11, <1>12, <1>13, <1>14
        DEF Begin

(* The entry of a function keeps the scope its parameters are in.          *)
LEMMA FunctionHeads ==
  ASSUME HeaderInv, End, StackOK(stack', T'), Close("Function"),
         Top.kind \in {"Function", "Method"}
  PROVE  HeadsStep
<1> DEFINE e == NewEntry("Function", Top.name, NoName, Top.kids, Top.ops)
           s == Stamp(T, e)
<1>1. /\ IInv /\ Good(T) /\ stack # << >> /\ Top.out \in ScopesOf(T)
      /\ Top.reg \in ScopesOf(T) /\ HeadOK(T, Top)
  BY PastHeader, TopFacts DEF HeaderInv, TreeInv, IInv, Top
<1>2. e \in Entry /\ e.tag = "Function" /\ e.kids = Top.kids
  <2>1. /\ "Function" \in Tags /\ Top.name \in Names \cup {NoName}
        /\ NoName \in Names \cup {NoName} /\ Top.kids \in Seq(Nat) /\ Top.ops \in Seq(Nat)
    BY <1>1, TopFacts, SeqNat DEF Tags
  <2>2. e \in Entry
    BY <2>1, NewEntryType
  <2> QED BY <2>2 DEF NewEntry
<1>3. T' = Insert(T, Top.out, e) /\ Pop
  BY DEF Close
<1> HIDE DEF e
<1>4. IsInsert(T, T', Top.out, s) /\ s.kids = Top.kids /\ s.eid = T.next
  <2>1. s.kids = Top.kids
    BY <1>2 DEF Stamp, Entry
  <2> QED BY <1>1, <1>2, <1>3, <2>1, InsertShape, StampFacts DEF Good
<1> HIDE DEF s
<1>5. "Function" \notin {"Param"}
  OBVIOUS
<1>6. Grown(T, T') /\ NoNew(T, T', {"Param"})
  <2>1. e.tag \notin {"Param"}
    BY <1>2, <1>5
  <2> QED BY <1>1, <1>2, <1>3, <2>1, InsertNoNew
<1>7. Top.kids = <<Top.reg>> /\ Bound(T', Top.reg)
  <2>1. Top.kids = <<Top.reg>> /\ Bound(T, Top.reg)
    BY <1>1 DEF HeadOK, Callables
  <2> QED BY <1>1, <1>6, <2>1, BoundKept DEF Grown
<1>8. ParamsBound(T')
  <2> SUFFICES ASSUME NEW r \in ScopesOf(T'), NEW j \in DOMAIN T'.table[r].ids,
                      T'.table[r].ids[j].tag = "Function"
               PROVE  /\ T'.table[r].ids[j].kids # << >>
                      /\ Bound(T', T'.table[r].ids[j].kids[1])
    BY DEF ParamsBound
  <2>1. r \in ScopesOf(T)
    BY <1>4 DEF IsInsert, ScopesOf
  <2>2. \/ j \in DOMAIN T.table[r].ids /\ T'.table[r].ids[j] = T.table[r].ids[j]
        \/ T'.table[r].ids[j] = s
    <3>1. CASE r = Top.out
      <4>1. InsertedKeys(T.table[r], T'.table[r], s)
        BY <1>4, <3>1 DEF IsInsert
      <4> QED BY <4>1 DEF InsertedKeys
    <3>2. CASE r # Top.out
      BY <1>4, <2>1, <3>2 DEF IsInsert
    <3> QED BY <3>1, <3>2
  <2>3. CASE T'.table[r].ids[j] = s
    BY <1>4, <1>7, <2>3
  <2>4. CASE j \in DOMAIN T.table[r].ids /\ T'.table[r].ids[j] = T.table[r].ids[j]
    <3> DEFINE k == T.table[r].ids[j].kids
    <3>1. k # << >> /\ Bound(T, k[1])
      BY <2>1, <2>4 DEF HeaderInv, ParamsBound
    <3>2. k \in Seq(Nat)
      <4>1. T.table[r].ids[j] \in Entry
        BY <1>1, <2>1, <2>4 DEF Good, TablesType
      <4> QED BY <4>1 DEF Entry
    <3>3. 1 \in DOMAIN k
      <4> HIDE DEF k
      <4> QED BY <3>1, <3>2
    <3>4. k[1] \in ScopesOf(T)
      BY <2>1, <2>4, <3>3 DEF HeaderInv, TreeInv, Sound, Tree, KidsMade
    <3>5. Bound(T', k[1])
      BY <1>6, <3>1, <3>4, BoundKept DEF Grown
    <3> QED BY <2>4, <3>1, <3>5
  <2> QED BY <2>2, <2>3, <2>4
<1>9. \A i \in DOMAIN stack' :
        i \in DOMAIN stack /\ stack[i].todo = << >> /\ SameHead(stack'[i], stack[i])
  <2>1. stack \in Seq(FrameType(T)) /\ \A i \in DOMAIN stack : stack[i].todo = << >>
    BY PastHeader DEF HeaderInv, TreeInv, IInv, StackOK
  <2>2. \A i \in DOMAIN stack' : i \in DOMAIN stack /\ stack'[i] = stack[i]
    BY <1>3, <2>1 DEF Pop
  <2> QED BY <2>1, <2>2 DEF SameHead
<1>10. HeadsOK(stack', T')
  BY <1>6, <1>9, HeadsRest
<1> QED BY <1>8, <1>10 DEF HeadsStep

LEMMA EndHeads ==
  ASSUME HeaderInv, End, StackOK(stack', T')
  PROVE  HeadsStep
<1>1. /\ IInv /\ Good(T) /\ stack # << >> /\ Top.out \in ScopesOf(T)
  BY PastHeader, TopFacts DEF HeaderInv, TreeInv, IInv
<1>2. ASSUME NEW tag \in Tags \ Marked, Close(tag) PROVE HeadsStep
  <2>1. /\ Top.name \in Names \cup {NoName} /\ NoName \in Names \cup {NoName}
        /\ Top.kids \in Seq(Nat) /\ Top.ops \in Seq(Nat) /\ 0 \in Nat
    BY <1>1, TopFacts, SeqNat
  <2>2. T' = Insert(T, Top.out, NewEntry(tag, Top.name, NoName, Top.kids, Top.ops)) /\ Pop
    BY <1>2 DEF Close
  <2>3. Unmarked(T, T')
    BY <1>1, <2>1, <2>2, NewUnmarked
  <2> QED BY <2>2, <2>3, HeadsPop
<1>3. ASSUME Pop, T' = T PROVE HeadsStep
  <2>1. Unmarked(T, T')
    BY <1>1, <1>3, UnmarkedRefl
  <2> QED BY <1>3, <2>1, HeadsPop
<1>4. ASSUME EndFunction \/ EndMethod PROVE HeadsStep
  BY <1>4, FunctionHeads DEF EndFunction, EndMethod, BodyRead, Open
<1>5. \/ \E tag \in Tags \ Marked : Close(tag)
      \/ Pop /\ T' = T
      \/ EndFunction \/ EndMethod
  BY DEF End, EndClass, EndTraitMethod, EndTrait, EndModule, EndExtern, EndIf, EndElif,
         EndWhile, EndFor, EndMatch, EndBody, Tags, Marked
<1> QED BY <1>2, <1>3, <1>4, <1>5

LEMMA TailHead ==
  ASSUME NEW t, NEW f \in FrameType(T), HeadOK(t, f), f.todo # << >>, NEW u, NEW g,
         g = [f EXCEPT !.todo = Tail(@)],
         f.kind \in Callables => OnlyParams(u, f.reg),
         f.kind \in Callables => Bound(u, f.reg)
  PROVE  HeadOK(u, g)
<1> DEFINE H == HeadersOf(f.kind)
<1>1. f.todo \in Seq(H) /\ f.todo # << >>
  BY DEF HeadOK
<1> HIDE DEF H
<1>2. Tail(f.todo) \in Seq(H)
  BY <1>1
<1>3. g.kind = f.kind /\ g.reg = f.reg /\ g.kids = f.kids /\ g.todo = Tail(f.todo)
  BY DEF FrameType
<1> QED BY <1>2, <1>3 DEF HeadOK, H

(* A parameter, while only parameters have taken names.                    *)
LEMMA ParamBound ==
  ASSUME NEW t, Good(t), NEW r \in ScopesOf(t), NEW x \in Names,
         NEW u, u = Insert(t, r, NewEntry("Param", x, NoName, << >>, << >>))
  PROVE  /\ Grown(t, u) /\ NoNew(t, u, {"Function"})
         /\ \A z \in ScopesOf(t) : z # r /\ Bound(t, z) => Bound(u, z)
         /\ OnlyParams(t, r) => OnlyParams(u, r)
         /\ OnlyParams(t, r) /\ Bound(t, r) => Bound(u, r)
<1> DEFINE e == NewEntry("Param", x, NoName, << >>, << >>)
           s == Stamp(t, e)
<1>1. e \in Entry /\ e.tag = "Param" /\ e.name = x
  <2>1. /\ "Param" \in Tags /\ x \in Names \cup {NoName} /\ NoName \in Names \cup {NoName}
        /\ << >> \in Seq(Nat)
    BY DEF Tags
  <2>2. e \in Entry
    BY <2>1, NewEntryType
  <2> QED BY <2>2 DEF NewEntry
<1> HIDE DEF e
<1>2. s.tag = "Param" /\ s.name = x
  BY <1>1 DEF Stamp, Entry
<1>3. u = Insert(t, r, e)
  BY DEF e
<1>4. IsInsert(t, u, r, s)
  BY <1>1, <1>3, InsertShape DEF Good
<1> HIDE DEF s
<1>5. Grown(t, u) /\ NoNew(t, u, {"Function"})
  <2>1. e.tag \notin {"Function"}
    BY <1>1
  <2> QED BY <1>1, <1>3, <2>1, InsertNoNew
<1>6. ASSUME NEW z \in ScopesOf(t), z # r, Bound(t, z) PROVE Bound(u, z)
  <2>1. u.table[z] = t.table[z]
    BY <1>4, <1>6 DEF IsInsert
  <2> QED BY <1>6, <2>1 DEF Bound
<1>7. /\ InsertedKeys(t.table[r], u.table[r], s) /\ x # NoName
  BY <1>4, NameAssumption DEF IsInsert
<1>8. ASSUME OnlyParams(t, r) PROVE OnlyParams(u, r)
  <2>1. ASSUME NEW y \in DOMAIN u.table[r].names PROVE u.table[r].names[y].tag = "Param"
    <3>1. CASE y \in DOMAIN t.table[r].names
      BY <1>7, <1>8, <3>1 DEF InsertedKeys, OnlyParams
    <3>2. CASE y \notin DOMAIN t.table[r].names
      BY <1>2, <1>7, <2>1, <3>2 DEF InsertedKeys
    <3> QED BY <3>1, <3>2
  <2> QED BY <2>1 DEF OnlyParams
<1>9. ASSUME OnlyParams(t, r), Bound(t, r) PROVE Bound(u, r)
  <2>1. OnlyParams(u, r)
    BY <1>8, <1>9
  <2>2. ASSUME NEW i \in DOMAIN u.table[r].ids, u.table[r].ids[i].tag = "Param",
               NEW y, y = u.table[r].ids[i].name
        PROVE  y \in DOMAIN u.table[r].names
    <3>1. CASE i \in DOMAIN t.table[r].ids
      <4>1. u.table[r].ids[i] = t.table[r].ids[i]
        BY <1>7, <3>1 DEF InsertedKeys
      <4>2. y \in DOMAIN t.table[r].names
        BY <1>9, <2>2, <3>1, <4>1 DEF Bound
      <4> QED BY <1>7, <4>2 DEF InsertedKeys
    <3>2. CASE i \notin DOMAIN t.table[r].ids
      <4>1. u.table[r].ids[i] = s
        BY <1>7, <2>2, <3>2 DEF InsertedKeys
      <4> QED BY <1>2, <1>7, <2>2, <4>1 DEF InsertedKeys
    <3> QED BY <3>1, <3>2
  <2> QED BY <2>1, <2>2 DEF Bound, OnlyParams
<1> QED BY <1>5, <1>6, <1>8, <1>9

(* A call takes no name.                                                   *)
LEMMA EmptyCallNames ==
  ASSUME NEW t, Good(t), NEW r \in ScopesOf(t), OnlyParams(t, r)
  PROVE  OnlyParams(RegCall(t, r, NoName, NoName), r)
<1> DEFINE child == MakeChild(t, r)
           e == NewEntry("Call", NoName, NoName, <<Len(child.parent)>>, << >>)
           u == Insert(child, r, e)
           s == Stamp(child, e)
<1>1. u = RegCall(t, r, NoName, NoName)
  BY DEF RegCall
<1>2. /\ Good(child) /\ r \in ScopesOf(child)
      /\ child.table[r] = t.table[r] /\ Len(child.parent) \in Nat
  <2>1. IsChild(t, child, r)
    BY MakeChildShape DEF Good
  <2>2. Good(child) /\ r \in ScopesOf(child)
    BY ChildUnmarked, UnmarkedParts
  <2> HIDE DEF child
  <2> QED BY <2>1, <2>2, GoodNumbers DEF IsChild
<1>3. e \in Entry /\ e.name = NoName
  <2> HIDE DEF child
  <2>1. /\ "Call" \in Tags /\ NoName \in Names \cup {NoName}
        /\ <<Len(child.parent)>> \in Seq(Nat) /\ << >> \in Seq(Nat)
    BY <1>2 DEF Tags
  <2>2. e \in Entry
    BY <2>1, NewEntryType
  <2> QED BY <2>2 DEF NewEntry
<1>4. s.name = NoName /\ IsInsert(child, u, r, s)
  <2> HIDE DEF e, child
  <2>1. s.name = NoName
    BY <1>3 DEF Stamp, Entry
  <2> QED BY <1>2, <1>3, <2>1, InsertShape DEF Good
<1> HIDE DEF child, e, u, s
<1>5. /\ DOMAIN u.table[r].names = DOMAIN t.table[r].names
      /\ \A x \in DOMAIN t.table[r].names : u.table[r].names[x] = t.table[r].names[x]
  BY <1>2, <1>4 DEF IsInsert, InsertedKeys
<1>6. OnlyParams(u, r)
  BY <1>5 DEF OnlyParams
<1> QED BY <1>1, <1>6

LEMMA HeaderTopFacts ==
  ASSUME HeaderInv, Header
  PROVE  /\ stack # << >> /\ Top.todo # << >> /\ HeadOK(T, Top) /\ Top \in FrameType(T)
         /\ Good(T) /\ Top.reg \in ScopesOf(T) /\ Free(T, Top.reg) /\ FrameNested(Top, T)
         /\ Head(Top.todo) \in HeadersOf(Top.kind)
         /\ SetTop([Top EXCEPT !.todo = Tail(@)])
<1>1. stack # << >> /\ Top.todo # << >> /\ SetTop([Top EXCEPT !.todo = Tail(@)])
  BY HeaderLaid DEF HeaderInv, HeaderDone
<1>2. Len(stack) \in DOMAIN stack
  BY <1>1 DEF HeaderInv, TreeInv, IInv, StackOK
<1>3. HeadOK(T, Top) /\ Top \in FrameType(T)
  BY <1>2 DEF HeaderInv, HeadsOK, TreeInv, IInv, StackOK, Top
<1> DEFINE H == HeadersOf(Top.kind)
<1>4. Top.todo \in Seq(H)
  BY <1>3 DEF HeadOK
<1> HIDE DEF H
<1>5. Head(Top.todo) \in H
  BY <1>1, <1>4
<1> QED BY <1>1, <1>3, <1>5, TopNested DEF HeaderInv, H

(* A header step that makes no parameter.                                  *)
LEMMA OtherHeader ==
  ASSUME HeaderInv, Header, StackOK(stack', T'), Unmarked(T, T'),
         Top.kind \in Callables => OnlyParams(T', Top.reg)
  PROVE  HeadsStep
<1> DEFINE g == [Top EXCEPT !.todo = Tail(@)]
<1>1. /\ stack # << >> /\ Top.todo # << >> /\ HeadOK(T, Top) /\ Top \in FrameType(T)
      /\ SetTop(g)
  BY HeaderTopFacts
<1>2. Top.kind \in Callables => Bound(T', Top.reg)
  <2>1. Top.reg \in ScopesOf(T') /\ Grown(T, T') /\ NoNew(T, T', {"Param"})
    BY HeaderTopFacts, UnmarkedParts
  <2>2. Top.kind \in Callables => Bound(T, Top.reg)
    BY <1>1 DEF HeadOK
  <2> QED BY <2>1, <2>2, BoundKept
<1>3. g = [Top EXCEPT !.todo = Tail(@)]
  OBVIOUS
<1> HIDE DEF g
<1>4. HeadOK(T', g)
  BY <1>1, <1>2, <1>3, TailHead
<1> QED BY <1>1, <1>4, HeadsTop

LEMMA ParamKept ==
  ASSUME HeaderInv, NEW x \in Idents, RegisterParam(x), Header, StackOK(stack', T')
  PROVE  HeadsStep
<1> DEFINE g == [Top EXCEPT !.todo = Tail(@)]
<1>1. /\ stack # << >> /\ Top.todo # << >> /\ HeadOK(T, Top) /\ Top \in FrameType(T)
      /\ Good(T) /\ Top.reg \in ScopesOf(T) /\ Free(T, Top.reg) /\ FrameNested(Top, T)
      /\ SetTop(g)
  BY HeaderTopFacts
<1>2. /\ T' = Insert(T, Top.reg, NewEntry("Param", x, NoName, << >>, << >>))
      /\ x \in Names
  BY ProgramAssumption DEF RegisterParam
<1>3. /\ Grown(T, T') /\ NoNew(T, T', {"Function"})
      /\ \A z \in ScopesOf(T) : z # Top.reg /\ Bound(T, z) => Bound(T', z)
      /\ OnlyParams(T, Top.reg) => OnlyParams(T', Top.reg)
      /\ OnlyParams(T, Top.reg) /\ Bound(T, Top.reg) => Bound(T', Top.reg)
  BY <1>1, <1>2, ParamBound
<1>4. Top.kind \in Callables \cup {"Extern"}
  <2>1. Head(Top.todo) = "P"
    BY DEF RegisterParam, NextHeader
  <2> QED BY <2>1, HeaderTopFacts DEF HeadersOf
<1>5. Top.kind \in Callables => OnlyParams(T', Top.reg) /\ Bound(T', Top.reg)
  BY <1>1, <1>3 DEF HeadOK
<1>6. ParamsBound(T')
  <2> SUFFICES ASSUME NEW r \in ScopesOf(T'), NEW j \in DOMAIN T'.table[r].ids,
                      T'.table[r].ids[j].tag = "Function"
               PROVE  /\ T'.table[r].ids[j].kids # << >>
                      /\ Bound(T', T'.table[r].ids[j].kids[1])
    BY DEF ParamsBound
  <2> DEFINE k == T.table[r].ids[j].kids
  <2>1. /\ r \in ScopesOf(T) /\ j \in DOMAIN T.table[r].ids
        /\ T'.table[r].ids[j] = T.table[r].ids[j]
    BY <1>3 DEF NoNew
  <2>2. k # << >> /\ Bound(T, k[1])
    BY <2>1 DEF HeaderInv, ParamsBound
  <2>3. k \in Seq(Nat)
    <3>1. T.table[r].ids[j] \in Entry
      BY <1>1, <2>1 DEF Good, TablesType
    <3> QED BY <3>1 DEF Entry
  <2>4. 1 \in DOMAIN k
    <3> HIDE DEF k
    <3> QED BY <2>2, <2>3
  <2>5. k[1] \in ScopesOf(T)
    BY <2>1, <2>4 DEF HeaderInv, TreeInv, Sound, Tree, KidsMade
  <2>6. k[1] # Top.reg
    BY <1>1, <2>1, <2>4 DEF Free
  <2> QED BY <1>3, <2>1, <2>2, <2>5, <2>6
<1>7. g = [Top EXCEPT !.todo = Tail(@)]
  OBVIOUS
<1> HIDE DEF g
<1>8. HeadOK(T', g)
  BY <1>1, <1>5, <1>7, TailHead
<1>9. /\ stack \in Seq(FrameType(T)) /\ Len(stack) \in Nat /\ DOMAIN stack = 1..Len(stack)
  BY DEF HeaderInv, TreeInv, IInv, StackOK
<1>10. /\ DOMAIN stack' = DOMAIN stack /\ Len(stack') = Len(stack)
       /\ stack'[Len(stack)] = g
       /\ \A i \in DOMAIN stack : i # Len(stack) => stack'[i] = stack[i]
  BY <1>1, <1>9 DEF SetTop
<1>11. ASSUME NEW i \in DOMAIN stack, i < Len(stack)
       PROVE  stack[i].todo = << >> /\ HeadOK(T', stack[i])
  <2> DEFINE f == stack[i]
  <2>1. f.todo = << >> /\ HeadOK(T, f)
    BY <1>11 DEF HeaderInv, HeadsOK
  <2>2. f \in FrameType(T)
    BY <1>9
  <2>3. f.reg \in ScopesOf(T)
    BY <2>2 DEF FrameType
  <2>4. f.kind \in Callables => Bound(T, f.reg)
    BY <2>1 DEF HeadOK
  <2>5. CASE f.reg # Top.reg
    <3>1. f.kind \in Callables => Bound(T', f.reg)
      BY <1>3, <2>3, <2>4, <2>5
    <3> HIDE DEF f
    <3> QED BY <2>1, <3>1 DEF HeadOK, f
  <2>6. CASE f.reg = Top.reg
    <3>1. Top.kind # "Extern"
      <4>1. SUFFICES ASSUME Top.kind = "Extern" PROVE FALSE
        OBVIOUS
      <4>2. Top.out < Top.reg
        BY <1>1, <4>1 DEF HeadOK, FrameNested
      <4>3. f.reg <= Top.out
        BY <1>9, <1>11 DEF HeaderInv, TreeInv, Nested, Top
      <4>4. f.reg \in Nat /\ Top.reg \in Nat /\ Top.out \in Nat
        BY <1>1, <2>3, TopNested, GoodNumbers DEF HeaderInv, ScopesOf
      <4> HIDE DEF f
      <4> QED BY <2>6, <4>2, <4>3, <4>4
    <3>2. Bound(T', f.reg)
      BY <1>4, <1>5, <2>6, <3>1
    <3> HIDE DEF f
    <3> QED BY <2>1, <3>2 DEF HeadOK, f
  <2> QED BY <2>1, <2>5, <2>6
<1>12. HeadsOK(stack', T')
  <2> SUFFICES ASSUME NEW i \in DOMAIN stack'
               PROVE  HeadOK(T', stack'[i]) /\ (i < Len(stack') => stack'[i].todo = << >>)
    BY DEF HeadsOK
  <2>1. CASE i = Len(stack)
    BY <1>8, <1>9, <1>10, <2>1
  <2>2. CASE i # Len(stack)
    <3>1. i \in DOMAIN stack /\ i < Len(stack) /\ stack'[i] = stack[i]
      BY <1>9, <1>10, <2>2
    <3> QED BY <1>11, <3>1
  <2> QED BY <2>1, <2>2
<1> QED BY <1>6, <1>12 DEF HeadsStep

LEMMA HeaderHeads ==
  ASSUME HeaderInv, Header, StackOK(stack', T')
  PROVE  HeadsStep
<1>1. /\ stack # << >> /\ HeadOK(T, Top) /\ Good(T) /\ Top.reg \in ScopesOf(T)
      /\ Head(Top.todo) \in HeadersOf(Top.kind) /\ Top.todo # << >>
  BY HeaderTopFacts
<1>2. /\ {"Var", "ExternFunc"} \subseteq Tags \ Marked
      /\ NoName \in Names \cup {NoName} /\ Idents \subseteq Names \cup {NoName}
      /\ NoName \in Idents \cup {NoName}
      /\ << >> \in Seq(Nat) /\ <<0>> \in Seq(Nat) /\ 0 \in Nat
  BY ProgramAssumption DEF Tags, Marked
<1>3. ASSUME NEW x \in Idents, RegisterParam(x) PROVE HeadsStep
  BY <1>3, ParamKept
<1>4. ASSUME NEW x \in Idents, RegisterField(x) PROVE HeadsStep
  <2>1. Unmarked(T, T')
    BY <1>1, <1>2, <1>4, NewUnmarked DEF RegisterField
  <2>2. Top.kind \notin Callables
    BY <1>1, <1>4 DEF RegisterField, NextHeader, HeadersOf
  <2> QED BY <2>1, <2>2, OtherHeader
<1>5. ASSUME NEW x \in Idents, RegisterExternFunc(x) PROVE HeadsStep
  <2>1. Unmarked(T, T')
    BY <1>1, <1>2, <1>5, NewUnmarked DEF RegisterExternFunc
  <2>2. Top.kind \notin Callables
    BY <1>1, <1>5 DEF RegisterExternFunc, NextHeader, HeadersOf
  <2> QED BY <2>1, <2>2, OtherHeader
<1>6. ASSUME RegisterParamExpr PROVE HeadsStep
  <2>1. T' \in RegExpr(T, Top.reg, NoName, ZeroedExpr)
    BY <1>6 DEF RegisterParamExpr
  <2>2. Unmarked(T, T')
    BY <1>1, <1>2, <2>1, RegExprUnmarked
  <2>3. T' = RegCall(T, Top.reg, NoName, NoName)
    BY <2>1 DEF RegExpr, ZeroedExpr
  <2>4. Top.kind \in Callables => OnlyParams(T, Top.reg)
    BY <1>1 DEF HeadOK
  <2>5. Top.kind \in Callables => OnlyParams(T', Top.reg)
    BY <1>1, <2>3, <2>4, EmptyCallNames
  <2> QED BY <2>2, <2>5, OtherHeader
<1> QED BY <1>3, <1>4, <1>5, <1>6 DEF Header

LEMMA InitHeaderInv == Init => HeaderInv
<1> SUFFICES ASSUME Init PROVE ParamsBound(T) /\ HeadsOK(stack, T)
  BY InitTreeInv DEF HeaderInv
<1>1. ScopesOf(T) = {1} /\ DOMAIN T.table[1].ids = {}
  BY DEF Init, InitTables, ScopesOf, EmptyTable
<1> DEFINE f == Frame("Root", 1, 1, NoName, NoName, << >>, << >>, << >>)
<1>2. f.kind = "Root" /\ f.todo = << >> /\ stack = <<f>>
  BY DEF Frame, Init
<1> HIDE DEF f
<1>3. HeadOK(T, f)
  BY <1>2, BlockHeadOK DEF Callables
<1> QED BY <1>1, <1>2, <1>3 DEF ParamsBound, HeadsOK

LEMMA HeaderInvStep ==
  ASSUME HeaderInv, [Next]_vars
  PROVE  HeaderInv'
<1>1. TreeInv'
  BY StepNestedAlways, StepPreserves
     DEF HeaderInv, TreeInv, StepNested, StepOK, IInv, Grown
<1>2. StackOK(stack', T')
  BY StepPreserves DEF HeaderInv, TreeInv, StepOK
<1>3. HeadsStep
  <2>1. CASE Register
    BY <1>2, <2>1, LeafHeads, HeaderHeads, BeginHeads, EndHeads DEF Register
  <2>2. CASE UNCHANGED vars
    BY <2>2 DEF vars, HeaderInv, HeadsStep
  <2> QED BY <2>1, <2>2 DEF Next, Terminated
<1> QED BY <1>1, <1>3 DEF HeaderInv, HeadsStep, ParamsBound, HeadsOK

(* The parameters of a function, in every reachable state: while its header *)
(* is read only parameters take names in its scope, so that the name of a   *)
(* parameter there is that of a parameter, whatever the body declares.     *)
THEOREM HeadersInvariance == Spec => []HeaderInv
<1>1. HeaderInv /\ [Next]_vars => HeaderInv'
  BY HeaderInvStep
<1> QED BY InitHeaderInv, <1>1, PTL DEF Spec
=============================================================================
