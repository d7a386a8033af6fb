---------------------------- MODULE LoweringProofs ----------------------------
(***************************************************************************)
(* Proofs about the lowering pass, for every program: what it writes to    *)
(* the tables while its loops run over them, what becomes of the           *)
(* declarations it reads on both sides of that write, that the statements  *)
(* come out in source order, and that parameters are still found by name.  *)
(***************************************************************************)
EXTENDS Lowering, OperandProofs

-------------------------------------------------------------------------------
(* Entries                                                                 *)

LEMMA HomeFacts ==
  ASSUME NEW t, Whole(t), NEW id \in 1..(t.next - 1)
  PROVE  /\ HomeOf(t, id) \in ScopesOf(t)
         /\ EntryOf(t, id) \in Entry
         /\ Backward(t, id, EntryOf(t, id))
<1> DEFINE home == HomeOf(t, id)
<1>1. \E r \in ScopesOf(t) : HasId(t, r, id)
  BY DEF Whole, Issued
<1>2. home \in ScopesOf(t) /\ HasId(t, home, id)
  BY <1>1 DEF HomeOf
<1>3. EntryOf(t, id) = t.table[home].ids[id]
  BY DEF EntryOf
<1> HIDE DEF home
<1>4. t.table[home].ids[id] \in Entry
  BY <1>2 DEF Whole, Good, TablesType, HasId
<1>5. Backward(t, id, t.table[home].ids[id])
  BY <1>2 DEF Whole, Formed, HasId
<1> QED BY <1>2, <1>3, <1>4, <1>5 DEF home

LEMMA EntryHere ==
  ASSUME NEW t, Whole(t), NEW r \in ScopesOf(t), NEW id \in DOMAIN t.table[r].ids
  PROVE  id \in 1..(t.next - 1) /\ HomeOf(t, id) = r /\ EntryOf(t, id) = t.table[r].ids[id]
<1>1. id \in 1..(t.next - 1)
  BY DEF Whole, Good, TablesType
<1>2. HomeOf(t, id) = r
  <2>1. \A s \in ScopesOf(t) : HasId(t, s, id) => s = r
    BY DEF Whole, Good, IdsDisjoint, HasId
  <2>2. HasId(t, r, id)
    BY DEF HasId
  <2> QED BY <2>1, <2>2 DEF HomeOf
<1> QED BY <1>1, <1>2 DEF EntryOf

-------------------------------------------------------------------------------
(* Sequences laid end to end                                               *)

(* h is FlattenSeq's function for s, up to m.                              *)
FlatTo(s, m, h) == h = [i \in 1..m |-> IF i = 1 THEN s[i] ELSE h[i - 1] \o s[i]]

LEMMA FlatExists ==
  ASSUME NEW s, NEW n \in Nat
  PROVE  \E h : FlatTo(s, n, h)
<1> DEFINE Bad == {m \in Nat : ~ \E h : FlatTo(s, m, h)}
<1> SUFFICES ASSUME Bad # {} PROVE FALSE
  OBVIOUS
<1>0. Bad \in SUBSET Nat
  OBVIOUS
<1> HIDE DEF Bad
<1>1. PICK m \in Bad : \A k \in Bad : m <= k
  BY <1>0, NatMin
<1> USE DEF Bad
<1>2. CASE m = 0
  <2> DEFINE g == [i \in 1..0 |-> s[i]]
  <2>1. FlatTo(s, 0, g)
    BY DEF FlatTo
  <2> QED BY <1>1, <1>2, <2>1
<1>3. CASE m # 0
  <2>1. m \in Nat /\ m - 1 \in Nat /\ m - 1 \notin Bad
    BY <1>1, <1>3
  <2>2. PICK h : FlatTo(s, m - 1, h)
    BY <2>1
  <2> DEFINE last == IF m = 1 THEN s[m] ELSE h[m - 1] \o s[m]
             g == [i \in 1..m |-> IF i = m THEN last ELSE h[i]]
  <2>3. \A i \in 1..(m - 1) : g[i] = h[i]
    BY <2>1
  <2>4. g[m] = last
    BY <2>1, <1>3
  <2>5. g = [i \in 1..m |-> g[i]]
    OBVIOUS
  <2> HIDE DEF g
  <2>6. ASSUME NEW i \in 1..m
        PROVE  g[i] = IF i = 1 THEN s[i] ELSE g[i - 1] \o s[i]
    <3>1. CASE i = m
      <4>1. CASE m = 1
        BY <2>4, <3>1, <4>1
      <4>2. CASE m # 1
        <5>1. m - 1 \in 1..(m - 1)
          BY <2>1, <1>3, <4>2
        <5> QED BY <2>3, <2>4, <3>1, <4>2, <5>1
      <4> QED BY <4>1, <4>2
    <3>2. CASE i # m
      <4>1. i \in 1..(m - 1) /\ (i # 1 => i - 1 \in 1..(m - 1))
        BY <2>1, <3>2
      <4>2. h[i] = IF i = 1 THEN s[i] ELSE h[i - 1] \o s[i]
        BY <2>2, <4>1 DEF FlatTo
      <4> QED BY <2>3, <4>1, <4>2
    <3> QED BY <3>1, <3>2
  <2>7. FlatTo(s, m, g)
    BY <2>5, <2>6 DEF FlatTo
  <2> QED BY <1>1, <2>7
<1> QED BY <1>2, <1>3

LEMMA FlatTyped ==
  ASSUME NEW A, NEW s \in Seq(Seq(A)), NEW n \in Nat, n <= Len(s), NEW h, FlatTo(s, n, h),
         NEW k \in 1..n
  PROVE  h[k] \in Seq(A)
<1> DEFINE Bad == {i \in 1..n : h[i] \notin Seq(A)}
<1> SUFFICES ASSUME Bad # {} PROVE FALSE
  OBVIOUS
<1>0. Bad \in SUBSET Nat
  OBVIOUS
<1> HIDE DEF Bad
<1>1. PICK i \in Bad : \A j \in Bad : i <= j
  BY <1>0, NatMin
<1> USE DEF Bad
<1>2. i \in 1..n /\ h[i] = IF i = 1 THEN s[i] ELSE h[i - 1] \o s[i]
  BY <1>1 DEF FlatTo
<1>3. s[i] \in Seq(A)
  BY <1>2
<1>4. CASE i = 1
  BY <1>1, <1>2, <1>3, <1>4
<1>5. CASE i # 1
  <2>1. i - 1 \in 1..n /\ ~(i <= i - 1)
    BY <1>2, <1>5
  <2>2. h[i - 1] \in Seq(A)
    BY <1>1, <2>1
  <2>3. h[i - 1] \o s[i] \in Seq(A)
    BY <1>3, <2>2
  <2> QED BY <1>1, <1>2, <1>5, <2>3
<1> QED BY <1>4, <1>5

LEMMA FlattenType ==
  ASSUME NEW A, NEW s \in Seq(Seq(A))
  PROVE  Seqs!FlattenSeq(s) \in Seq(A)
<1>1. CASE Len(s) = 0
  <2>1. s = << >>
    BY <1>1
  <2> QED BY <1>1, <2>1 DEF Seqs!FlattenSeq
<1>2. CASE Len(s) # 0
  <2> DEFINE n == Len(s)
             flat == CHOOSE h : FlatTo(s, n, h)
  <2>1. n \in Nat /\ n \in 1..n
    BY <1>2
  <2>2. FlatTo(s, n, flat)
    BY <2>1, FlatExists
  <2>3. Seqs!FlattenSeq(s) = flat[n]
    BY <1>2 DEF Seqs!FlattenSeq, FlatTo
  <2> HIDE DEF flat
  <2>4. flat[n] \in Seq(A)
    BY <2>1, <2>2, FlatTyped
  <2> QED BY <2>3, <2>4
<1> QED BY <1>1, <1>2

-------------------------------------------------------------------------------
(* lower_expr                                                              *)

LEMMA FamilySeq ==
  ASSUME NEW n \in Nat, NEW A, NEW u \in [1..n -> A]
  PROVE  u \in Seq(A)
OBVIOUS

(* The operands an entry of one or of two operands names.                  *)
LEMMA OperandPair ==
  ASSUME NEW B, NEW ops \in Seq(B), Len(ops) = 2
  PROVE  ops[1] \in B /\ ops[2] \in B
OBVIOUS

LEMMA OperandOne ==
  ASSUME NEW B, NEW ops \in Seq(B), ops # << >>
  PROVE  ops[1] \in B
OBVIOUS

(* What an expression may register again: some name in some table.         *)
Fields(t) == [reg : ScopesOf(t), name : Names \cup {NoName}]

(* f and g are the same lower_expr for the entries before id.              *)
Agree(t, f, g, id) ==
  \A i \in 1..(id - 1) : \A r \in ScopesOf(t) : f[i][r] = g[i][r]

Makes(t, f, id) ==
  \A i \in 1..(id - 1) : \A r \in ScopesOf(t) : f[i][r].made \in Seq(Fields(t))

(* An operand was registered before: only that much of lower_expr is used. *)
LEMMA ByIdAgree ==
  ASSUME NEW t, Whole(t), NEW c \in ScopesOf(t), NEW id \in Nat, NEW k \in 0..(id - 1),
         NEW absent, NEW f, NEW g, Agree(t, f, g, id)
  PROVE  ById(t, f, c, k, absent) = ById(t, g, c, k, absent)
<1>1. HasId(t, c, k) => k # 0
  BY DEF HasId, Whole, Good, TablesType
<1> QED BY <1>1 DEF ById, Agree

LEMMA ByIdMakes ==
  ASSUME NEW t, Whole(t), NEW c \in ScopesOf(t), NEW id \in Nat, NEW k \in 0..(id - 1),
         NEW absent, NEW f, Makes(t, f, id)
  PROVE  ById(t, f, c, k, absent).made \in Seq(Fields(t))
<1>1. HasId(t, c, k) => k # 0
  BY DEF HasId, Whole, Good, TablesType
<1> QED BY <1>1 DEF ById, Makes, Result

LEMMA ByPointerAgree ==
  ASSUME NEW t, Whole(t), NEW r \in ScopesOf(t), NEW id \in 1..(t.next - 1),
         EntryOf(t, id).ops # << >>, NEW f, NEW g, Agree(t, f, g, id)
  PROVE  ByPointer(t, f, id, r) = ByPointer(t, g, id, r)
<1>1. EntryOf(t, id).ops \in Seq(0..(id - 1))
  BY HomeFacts DEF Backward
<1>2. EntryOf(t, id).ops[1] \in 0..(id - 1)
  BY <1>1
<1> QED BY <1>2 DEF ByPointer, Agree

LEMMA ByPointerMakes ==
  ASSUME NEW t, Whole(t), NEW r \in ScopesOf(t), NEW id \in 1..(t.next - 1),
         EntryOf(t, id).ops # << >>, NEW f, Makes(t, f, id)
  PROVE  ByPointer(t, f, id, r).made \in Seq(Fields(t))
<1>1. EntryOf(t, id).ops \in Seq(0..(id - 1))
  BY HomeFacts DEF Backward
<1>2. EntryOf(t, id).ops[1] \in 0..(id - 1)
  BY <1>1
<1> QED BY <1>2 DEF ByPointer, Makes, Result

LEMMA CallAgree ==
  ASSUME NEW t, Whole(t), NEW r \in ScopesOf(t), NEW id \in Nat, NEW e,
         e.ops \in Seq(0..(id - 1)), e.kids[1] \in ScopesOf(t),
         NEW f, NEW g, Agree(t, f, g, id)
  PROVE  LowerCall(t, f, e, r) = LowerCall(t, g, e, r)
<1>1. ASSUME NEW k \in DOMAIN e.ops
      PROVE  ById(t, f, e.kids[1], e.ops[k], ZeroIR) = ById(t, g, e.kids[1], e.ops[k], ZeroIR)
  <2>1. e.ops[k] \in 0..(id - 1)
    OBVIOUS
  <2> QED BY <2>1, ByIdAgree
<1> QED BY <1>1 DEF LowerCall

LEMMA CallMakes ==
  ASSUME NEW t, Whole(t), NEW r \in ScopesOf(t), NEW id \in Nat, NEW e,
         e.ops \in Seq(0..(id - 1)), e.kids[1] \in ScopesOf(t),
         NEW f, Makes(t, f, id)
  PROVE  LowerCall(t, f, e, r).made \in Seq(Fields(t))
<1> DEFINE arg == [k \in DOMAIN e.ops |-> ById(t, f, e.kids[1], e.ops[k], ZeroIR)]
           made == [k \in DOMAIN arg |-> arg[k].made]
<1>1. ASSUME NEW k \in DOMAIN e.ops PROVE arg[k].made \in Seq(Fields(t))
  <2>1. e.ops[k] \in 0..(id - 1)
    OBVIOUS
  <2> QED BY <2>1, ByIdMakes
<1> DEFINE n == Len(e.ops)
           A == Seq(Fields(t))
<1>2. n \in Nat /\ DOMAIN e.ops = 1..n /\ made = [k \in 1..n |-> arg[k].made]
  OBVIOUS
<1>3. made \in Seq(Seq(Fields(t)))
  <2>1. \A k \in 1..n : arg[k].made \in A
    BY <1>1, <1>2
  <2> HIDE DEF arg, n, A, made
  <2>2. made \in [1..n -> A]
    BY <1>2, <2>1
  <2>3. made \in Seq(A)
    BY <1>2, <2>2, FamilySeq
  <2> QED BY <2>3 DEF A
<1>4. LowerCall(t, f, e, r).made = Seqs!FlattenSeq(made)
  BY DEF LowerCall, Result
<1> HIDE DEF made
<1> QED BY <1>3, <1>4, FlattenType

LEMMA StructCallMakes ==
  ASSUME NEW t, Whole(t), NEW r \in ScopesOf(t), NEW id \in 1..(t.next - 1),
         EntryOf(t, id).tag = "StructCall"
  PROVE  LowerStructCall(t, id, EntryOf(t, id), r).made \in Seq(Fields(t))
<1> DEFINE e == EntryOf(t, id)
           o == e.ops[1]
           field == EntryOf(t, o).ref
<1>1. e.ops \in Seq(0..(id - 1)) /\ e.ops # << >> /\ o # 0
  BY HomeFacts DEF Backward, Shape, Single
<1>2. o \in 0..(id - 1)
  BY <1>1
<1>3. o \in 1..(t.next - 1)
  BY <1>1, <1>2, GoodNumbers DEF Whole
<1>4. LowerStructCall(t, id, e, r).made = <<[reg |-> r, name |-> field]>>
  BY DEF LowerStructCall, Result
<1> HIDE DEF e, o
<1>5. field \in Names \cup {NoName}
  BY <1>3, HomeFacts DEF Entry
<1> HIDE DEF field
<1>6. [reg |-> r, name |-> field] \in Fields(t)
  BY <1>5 DEF Fields
<1> QED BY <1>4, <1>6 DEF e

(* One step of lower_expr only depends on it for earlier entries, ...      *)
LEMMA LowerExprAgree ==
  ASSUME NEW t, Whole(t), NEW r \in ScopesOf(t), NEW id \in 1..(t.next - 1),
         NEW f, NEW g, Agree(t, f, g, id)
  PROVE  LowerExpr(t, f, id, r) = LowerExpr(t, g, id, r)
<1> DEFINE e == EntryOf(t, id)
<1>1. /\ e.kids \in Seq(ScopesOf(t)) /\ e.ops \in Seq(0..(id - 1))
      /\ Shape(e.tag, e.kids, e.ops)
  BY HomeFacts DEF Backward
<1>2. CASE e.tag \in {"BinaryOp", "Index"}
  <2>1. e.ops[1] \in 0..(id - 1) /\ e.ops[2] \in 0..(id - 1)
    <3>1. Len(e.ops) = 2
      BY <1>1, <1>2 DEF Shape, Double, Operators
    <3> HIDE DEF e
    <3> QED BY <1>1, <3>1, OperandPair
  <2> DEFINE k == e.ops[1]
             l == e.ops[2]
  <2>2. k \in 0..(id - 1) /\ l \in 0..(id - 1) /\ id \in Nat
    BY <2>1
  <2> HIDE DEF k, l
  <2>3. ById(t, f, r, k, NullIR) = ById(t, g, r, k, NullIR)
    BY <2>2, ByIdAgree
  <2>4. ById(t, f, r, l, NullIR) = ById(t, g, r, l, NullIR)
    BY <2>2, ByIdAgree
  <2> QED BY <1>2, <2>3, <2>4 DEF LowerExpr, k, l
<1>3. CASE e.tag = "Cast"
  <2>1. e.ops[1] \in 0..(id - 1)
    <3>1. e.ops # << >>
      BY <1>1, <1>3 DEF Shape, Single
    <3> HIDE DEF e
    <3> QED BY <1>1, <3>1, OperandOne
  <2>2. ById(t, f, r, e.ops[1], NullIR) = ById(t, g, r, e.ops[1], NullIR)
    BY <2>1, ByIdAgree
  <2> QED BY <1>3, <2>2 DEF LowerExpr
<1>4. CASE e.tag \in {"Unary", "AddrOf", "Field"}
  <2>1. e.ops # << >>
    BY <1>1, <1>4 DEF Shape, Single
  <2>2. ByPointer(t, f, id, r) = ByPointer(t, g, id, r)
    BY <2>1, ByPointerAgree
  <2> QED BY <1>4, <2>2 DEF LowerExpr
<1>5. CASE e.tag = "Call"
  <2>1. e.kids[1] \in ScopesOf(t)
    BY <1>1, <1>5 DEF Shape, Nesting
  <2> HIDE DEF e
  <2>2. LowerCall(t, f, e, r) = LowerCall(t, g, e, r)
    BY <1>1, <2>1, CallAgree
  <2> QED BY <1>5, <2>2 DEF LowerExpr, e
<1>6. CASE e.tag \notin {"BinaryOp", "Index", "Cast", "Unary", "AddrOf", "Field", "Call"}
  BY <1>6 DEF LowerExpr
<1> QED BY <1>2, <1>3, <1>4, <1>5, <1>6

(* ... and registers again what it may if they do.                         *)
LEMMA LowerExprMakes ==
  ASSUME NEW t, Whole(t), NEW r \in ScopesOf(t), NEW id \in 1..(t.next - 1),
         NEW f, Makes(t, f, id)
  PROVE  LowerExpr(t, f, id, r).made \in Seq(Fields(t))
<1> DEFINE e == EntryOf(t, id)
           v == LowerExpr(t, f, id, r)
<1>1. /\ e.kids \in Seq(ScopesOf(t)) /\ e.ops \in Seq(0..(id - 1))
      /\ Shape(e.tag, e.kids, e.ops)
  BY HomeFacts DEF Backward
<1>2. CASE e.tag \in {"BinaryOp", "Index"}
  <2> DEFINE a == ById(t, f, r, e.ops[1], NullIR)
             b == ById(t, f, r, e.ops[2], NullIR)
  <2>1. e.ops[1] \in 0..(id - 1) /\ e.ops[2] \in 0..(id - 1)
    <3>1. Len(e.ops) = 2
      BY <1>1, <1>2 DEF Shape, Double, Operators
    <3> HIDE DEF e
    <3> QED BY <1>1, <3>1, OperandPair
  <2>2. a.made \in Seq(Fields(t)) /\ b.made \in Seq(Fields(t))
    BY <2>1, ByIdMakes
  <2>3. v.made = a.made \o b.made
    BY <1>2 DEF LowerExpr, Result
  <2> HIDE DEF a, b
  <2> QED BY <2>2, <2>3
<1>3. CASE e.tag = "Cast"
  <2>1. e.ops[1] \in 0..(id - 1)
    <3>1. e.ops # << >>
      BY <1>1, <1>3 DEF Shape, Single
    <3> HIDE DEF e
    <3> QED BY <1>1, <3>1, OperandOne
  <2>2. ById(t, f, r, e.ops[1], NullIR).made \in Seq(Fields(t))
    BY <2>1, ByIdMakes
  <2> QED BY <1>3, <2>2 DEF LowerExpr, Result
<1>4. CASE e.tag \in {"Unary", "AddrOf", "Field"}
  <2>1. e.ops # << >>
    BY <1>1, <1>4 DEF Shape, Single
  <2>2. ByPointer(t, f, id, r).made \in Seq(Fields(t))
    BY <2>1, ByPointerMakes
  <2> QED BY <1>4, <2>2 DEF LowerExpr, Result
<1>5. CASE e.tag = "Call"
  <2>1. e.kids[1] \in ScopesOf(t)
    BY <1>1, <1>5 DEF Shape, Nesting
  <2>2. v = LowerCall(t, f, e, r)
    BY <1>5 DEF LowerExpr
  <2> HIDE DEF e
  <2> QED BY <1>1, <2>1, <2>2, CallMakes
<1>6. CASE e.tag = "StructCall"
  <2>1. v = LowerStructCall(t, id, e, r)
    BY <1>6 DEF LowerExpr
  <2> QED BY <1>6, <2>1, StructCallMakes
<1>7. CASE e.tag \notin {"BinaryOp", "Index", "Cast", "Unary", "AddrOf", "Field", "Call",
                        "StructCall"}
  <2>1. v.made = << >>
    BY <1>7 DEF LowerExpr, Result
  <2> QED BY <2>1
<1> QED BY <1>2, <1>3, <1>4, <1>5, <1>6, <1>7

(* h is lower_expr for the entries up to m.                                *)
LoweredTo(t, m, h) ==
  h = [id \in 1..m |-> [r \in ScopesOf(t) |-> LowerExpr(t, h, id, r)]]

LEMMA LoweredExists ==
  ASSUME NEW t, Whole(t), NEW n \in Nat, n <= t.next - 1
  PROVE  \E h : LoweredTo(t, n, h)
<1> DEFINE Bad == {m \in 0..n : ~ \E h : LoweredTo(t, m, h)}
<1> SUFFICES ASSUME Bad # {} PROVE FALSE
  OBVIOUS
<1>0. Bad \in SUBSET Nat
  OBVIOUS
<1> HIDE DEF Bad
<1>1. PICK m \in Bad : \A k \in Bad : m <= k
  BY <1>0, NatMin
<1> USE DEF Bad
<1>2. CASE m = 0
  <2> DEFINE g == [i \in 1..0 |-> [r \in ScopesOf(t) |-> 0]]
  <2>1. LoweredTo(t, 0, g)
    BY DEF LoweredTo
  <2> QED BY <1>1, <1>2, <2>1
<1>3. CASE m # 0
  <2>1. m \in Nat /\ m - 1 \in 0..n /\ m - 1 \notin Bad /\ m \in 1..(t.next - 1)
    BY <1>1, <1>3, GoodNumbers DEF Whole
  <2>2. PICK h : LoweredTo(t, m - 1, h)
    BY <2>1
  <2> DEFINE Row(f, i) == [r \in ScopesOf(t) |-> LowerExpr(t, f, i, r)]
             g == [i \in 1..m |-> IF i = m THEN Row(h, m) ELSE h[i]]
  <2>3. /\ g[m] = Row(h, m)
        /\ \A i \in 1..(m - 1) : g[i] = h[i]
        /\ g = [i \in 1..m |-> g[i]]
    BY <2>1
  <2> HIDE DEF g
  <2>4. ASSUME NEW i \in 1..m PROVE g[i] = Row(g, i)
    <3>1. i \in 1..(t.next - 1) /\ Agree(t, h, g, i)
      <4>1. t.next \in Nat /\ i \in Nat /\ i <= m
        BY <2>1, GoodNumbers DEF Whole
      <4>2. i \in 1..(t.next - 1)
        BY <2>1, <4>1
      <4>3. \A j \in 1..(i - 1) : j \in 1..(m - 1)
        BY <2>1, <4>1
      <4> QED BY <2>3, <4>2, <4>3 DEF Agree
    <3>2. Row(h, i) = Row(g, i)
      BY <3>1, LowerExprAgree
    <3>3. CASE i = m
      BY <2>3, <3>2, <3>3
    <3>4. CASE i # m
      <4>1. i \in 1..(m - 1)
        BY <2>1, <3>4
      <4>2. h[i] = Row(h, i)
        BY <2>2, <4>1 DEF LoweredTo
      <4> QED BY <2>3, <3>2, <4>1, <4>2
    <3> QED BY <3>3, <3>4
  <2>5. LoweredTo(t, m, g)
    BY <2>3, <2>4 DEF LoweredTo
  <2> QED BY <1>1, <2>5
<1> QED BY <1>2, <1>3

(* lower_expr returns, and registers again only what it may.               *)
LEMMA LoweredMakes ==
  ASSUME NEW t, Whole(t), NEW id \in 1..(t.next - 1), NEW r \in ScopesOf(t)
  PROVE  Lowered(t)[id][r].made \in Seq(Fields(t))
<1> DEFINE n == t.next - 1
           f == CHOOSE h : LoweredTo(t, n, h)
<1>1. n \in Nat /\ n <= t.next - 1
  BY GoodNumbers DEF Whole
<1>2. LoweredTo(t, n, f)
  BY <1>1, LoweredExists
<1>3. Lowered(t) = f
  BY DEF Lowered, LoweredTo
<1> HIDE DEF f
<1>4. ASSUME NEW i \in 1..n, NEW s \in ScopesOf(t)
      PROVE  f[i][s] = LowerExpr(t, f, i, s)
  <2> HIDE DEF n
  <2>1. f[i] = [c \in ScopesOf(t) |-> LowerExpr(t, f, i, c)]
    BY <1>2 DEF LoweredTo
  <2> QED BY <2>1
<1> DEFINE Bad == {i \in 1..n : \E s \in ScopesOf(t) : f[i][s].made \notin Seq(Fields(t))}
<1>5. ASSUME Bad # {} PROVE FALSE
  <2>1. Bad \in SUBSET Nat
    OBVIOUS
  <2> HIDE DEF Bad
  <2>2. PICK i \in Bad : \A j \in Bad : i <= j
    BY <1>5, <2>1, NatMin
  <2> USE DEF Bad
  <2>3. i \in 1..n /\ \A j \in 1..(i - 1) : j \in 1..n /\ ~(i <= j)
    BY <1>1, <2>2
  <2>4. Makes(t, f, i)
    BY <2>2, <2>3 DEF Makes
  <2>5. \A s \in ScopesOf(t) : LowerExpr(t, f, i, s).made \in Seq(Fields(t))
    BY <2>3, <2>4, LowerExprMakes
  <2> QED BY <1>4, <2>2, <2>3, <2>5
<1> QED BY <1>3, <1>5

-------------------------------------------------------------------------------
(* Registering again                                                       *)

(* u is t with names used once more: nothing is declared, nothing changed. *)
Uses(t, u) ==
  /\ Whole(u)
  /\ ScopesOf(u) = ScopesOf(t)
  /\ t.next <= u.next
  /\ \A r \in ScopesOf(t) :
       /\ u.table[r].names = t.table[r].names
       /\ t.table[r].cap <= u.table[r].cap
       /\ DOMAIN t.table[r].ids \subseteq DOMAIN u.table[r].ids
       /\ \A i \in DOMAIN t.table[r].ids : u.table[r].ids[i] = t.table[r].ids[i]
       /\ \A i \in DOMAIN u.table[r].ids \ DOMAIN t.table[r].ids :
            u.table[r].ids[i].tag = "Identifier"

LEMMA UsesRefl ==
  ASSUME NEW t, Whole(t)
  PROVE  Uses(t, t)
<1>1. t.next \in Nat /\ \A r \in ScopesOf(t) : t.table[r].cap \in Nat
  BY GoodNumbers DEF Whole, Good, TablesType
<1> QED BY <1>1 DEF Uses

LEMMA UsesTrans ==
  ASSUME NEW t, Whole(t), NEW u, Uses(t, u), NEW v, Uses(u, v)
  PROVE  Uses(t, v)
<1>1. /\ t.next \in Nat /\ u.next \in Nat /\ v.next \in Nat
      /\ t.next <= u.next /\ u.next <= v.next
  BY GoodNumbers DEF Whole, Uses
<1>2. \A r \in ScopesOf(t) :
        /\ t.table[r].cap \in Nat /\ u.table[r].cap \in Nat /\ v.table[r].cap \in Nat
        /\ t.table[r].cap <= u.table[r].cap /\ u.table[r].cap <= v.table[r].cap
  BY DEF Uses, Whole, Good, TablesType
<1>3. ASSUME NEW r \in ScopesOf(t)
      PROVE  /\ v.table[r].names = t.table[r].names
             /\ DOMAIN t.table[r].ids \subseteq DOMAIN v.table[r].ids
             /\ \A i \in DOMAIN t.table[r].ids : v.table[r].ids[i] = t.table[r].ids[i]
             /\ \A i \in DOMAIN v.table[r].ids \ DOMAIN t.table[r].ids :
                  v.table[r].ids[i].tag = "Identifier"
  BY DEF Uses
<1>4. t.next <= v.next
  BY <1>1
<1>5. \A r \in ScopesOf(t) : t.table[r].cap <= v.table[r].cap
  BY <1>2
<1> QED BY <1>3, <1>4, <1>5 DEF Uses

LEMMA RegIdentUses ==
  ASSUME NEW t, Whole(t), NEW r \in ScopesOf(t), NEW x \in Names \cup {NoName}
  PROVE  Uses(t, RegIdent(t, r, x))
<1> DEFINE e0 == NewEntry("Identifier", NoName, x, << >>, << >>)
           e  == Stamp(t, e0)
           u  == Insert(t, r, e0)
<1>1. /\ "Identifier" \in Bare /\ "Identifier" \in Tags /\ NoName \in Names \cup {NoName}
      /\ << >> \in Seq(Nat)
  BY DEF Bare, Tags, Single, Double, Nesting, Operators, Blocks
<1>2. Whole(u) /\ t.next <= u.next
  BY <1>1, BareKeeps DEF Keeps
<1>3. e0 \in Entry
  BY <1>1, NewEntryType
<1>4. ScopesOf(u) = ScopesOf(t) /\ TablesType(t)
  BY <1>3, InsertGood DEF Whole, Good
<1>5. IsInsert(t, u, r, e) /\ e \in Entry /\ e.eid = t.next
  BY <1>3, <1>4, InsertShape, StampFacts
<1>6. e.tag = "Identifier" /\ e.name = NoName
  BY DEF Stamp, NewEntry
<1>7. u.table[r] = PutId(t.table[r], e)
  <2>1. r \in DOMAIN t.table
    BY <1>4 DEF TablesType
  <2> QED BY <1>6, <2>1 DEF Insert, PutBoth
<1> HIDE DEF u, e
<1>8. u.table[r].names = t.table[r].names /\ u.table[r].cap = Grow(t.table[r].cap, Load(t.table[r]))
  BY <1>7 DEF PutId
<1>9. t.table[r].cap \in Nat /\ Load(t.table[r]) \in Nat
  BY <1>4, LoadNat DEF TablesType, Whole, Counted
<1>10. t.table[r].cap <= u.table[r].cap
  BY <1>8, <1>9 DEF Grow
<1>11. \A s \in ScopesOf(t) \ {r} : u.table[s] = t.table[s] /\ t.table[s].cap \in Nat
  BY <1>4, <1>5 DEF IsInsert, TablesType
<1>12. /\ DOMAIN u.table[r].ids = DOMAIN t.table[r].ids \cup {t.next}
       /\ u.table[r].ids[t.next] = e
       /\ \A i \in DOMAIN t.table[r].ids : u.table[r].ids[i] = t.table[r].ids[i]
  BY <1>5 DEF IsInsert, InsertedKeys
<1>13. Uses(t, u)
  BY <1>2, <1>4, <1>6, <1>8, <1>10, <1>11, <1>12 DEF Uses
<1> QED BY <1>13 DEF u, RegIdent

(* h is Remake's function up to m.                                         *)
RemadeTo(t, made, m, h) ==
  h = [n \in 0..m |->
         IF n = 0 THEN t ELSE RegIdent(h[n - 1], made[n].reg, made[n].name)]

LEMMA RemadeExists ==
  ASSUME NEW t, NEW made, NEW n \in Nat
  PROVE  \E h : RemadeTo(t, made, n, h)
<1> DEFINE Bad == {m \in Nat : ~ \E h : RemadeTo(t, made, m, h)}
<1> SUFFICES ASSUME Bad # {} PROVE FALSE
  OBVIOUS
<1>0. Bad \in SUBSET Nat
  OBVIOUS
<1> HIDE DEF Bad
<1>1. PICK m \in Bad : \A k \in Bad : m <= k
  BY <1>0, NatMin
<1> USE DEF Bad
<1>2. CASE m = 0
  <2> DEFINE g == [i \in 0..0 |-> t]
  <2>1. RemadeTo(t, made, 0, g)
    BY DEF RemadeTo
  <2> QED BY <1>1, <1>2, <2>1
<1>3. CASE m # 0
  <2>1. m \in Nat /\ m - 1 \in Nat /\ m - 1 \notin Bad
    BY <1>1, <1>3
  <2>2. PICK h : RemadeTo(t, made, m - 1, h)
    BY <2>1
  <2> DEFINE last == RegIdent(h[m - 1], made[m].reg, made[m].name)
             g == [i \in 0..m |-> IF i = m THEN last ELSE h[i]]
  <2>3. \A i \in 0..(m - 1) : g[i] = h[i]
    BY <2>1
  <2>4. g[m] = last
    BY <2>1
  <2>5. g = [i \in 0..m |-> g[i]]
    OBVIOUS
  <2> HIDE DEF g
  <2>6. ASSUME NEW i \in 0..m
        PROVE  g[i] = IF i = 0 THEN t ELSE RegIdent(g[i - 1], made[i].reg, made[i].name)
    <3>1. CASE i = m
      <4>1. m - 1 \in 0..(m - 1)
        BY <2>1
      <4> QED BY <1>3, <2>3, <2>4, <3>1, <4>1
    <3>2. CASE i # m
      <4>1. i \in 0..(m - 1) /\ (i # 0 => i - 1 \in 0..(m - 1))
        BY <2>1, <3>2
      <4>2. h[i] = IF i = 0 THEN t ELSE RegIdent(h[i - 1], made[i].reg, made[i].name)
        BY <2>2, <4>1 DEF RemadeTo
      <4> QED BY <2>3, <4>1, <4>2
    <3> QED BY <3>1, <3>2
  <2>7. RemadeTo(t, made, m, g)
    BY <2>5, <2>6 DEF RemadeTo
  <2> QED BY <1>1, <2>7
<1> QED BY <1>2, <1>3

LEMMA RemakeUses ==
  ASSUME NEW t, Whole(t), NEW made \in Seq(Fields(t))
  PROVE  Uses(t, Remake(t, made))
<1> DEFINE n == Len(made)
           f == CHOOSE h : RemadeTo(t, made, n, h)
<1>1. n \in Nat /\ \A i \in 1..n : made[i] \in Fields(t)
  OBVIOUS
<1>2. RemadeTo(t, made, n, f)
  BY <1>1, RemadeExists
<1>3. Remake(t, made) = f[n]
  BY DEF Remake, RemadeTo
<1> HIDE DEF f, n
<1>4. \A i \in 0..n :
        f[i] = IF i = 0 THEN t ELSE RegIdent(f[i - 1], made[i].reg, made[i].name)
  BY <1>2 DEF RemadeTo
<1> DEFINE Bad == {i \in 0..n : ~Uses(t, f[i])}
<1>5. ASSUME Bad # {} PROVE FALSE
  <2>1. Bad \in SUBSET Nat
    BY <1>1
  <2> HIDE DEF Bad
  <2>2. PICK i \in Bad : \A j \in Bad : i <= j
    BY <1>5, <2>1, NatMin
  <2> USE DEF Bad
  <2>3. CASE i = 0
    BY <1>4, <2>2, <2>3, UsesRefl
  <2>4. CASE i # 0
    <3>1. i \in 1..n /\ i - 1 \in 0..n /\ ~(i <= i - 1)
      BY <1>1, <2>2, <2>4
    <3> DEFINE u == f[i - 1]
               r == made[i].reg
               x == made[i].name
    <3>2. Uses(t, u) /\ f[i] = RegIdent(u, r, x)
      BY <1>4, <2>2, <2>4, <3>1
    <3>3. r \in ScopesOf(t) /\ x \in Names \cup {NoName}
      BY <1>1, <3>1 DEF Fields
    <3> HIDE DEF u, r, x
    <3>4. Uses(u, f[i])
      <4>1. Whole(u) /\ r \in ScopesOf(u)
        BY <3>2, <3>3 DEF Uses
      <4> QED BY <3>2, <3>3, <4>1, RegIdentUses
    <3>5. Uses(t, f[i])
      BY <3>2, <3>4, UsesTrans
    <3> QED BY <2>2, <3>5
  <2> QED BY <2>3, <2>4
<1>6. n \in 0..n
  BY <1>1
<1> QED BY <1>3, <1>5, <1>6

-------------------------------------------------------------------------------
(* The invariant of the loops                                              *)

IsSeq(s) == s \in Seq({s[k] : k \in DOMAIN s})

(* While its table has its first four buckets, a declaration is the entry  *)
(* it was made of.                                                         *)
Named(t, r, s) ==
  t.table[r].cap <= 4 /\ s.tag \in Declarations =>
    s.eid = s.src /\ s.name = t.table[r].ids[s.src].name

PushedOK(t, r, s) == s.src \in DOMAIN t.table[r].ids /\ Named(t, r, s)

OpenOK(t, r, s) ==
  /\ s = [tag |-> s.tag, src |-> s.src, name |-> s.name, eid |-> s.eid,
          exprs |-> s.exprs, blocks |-> s.blocks, params |-> s.params]
  /\ s.tag \in BlockTags \cup {"Function"}
  /\ s.src \in DOMAIN t.table[r].ids
  /\ IsSeq(s.blocks)

(* A loop runs on a scope that exists, and everything it has pushed or is  *)
(* working on came from that scope.                                        *)
LoopOK(t, f) ==
  /\ f = [reg |-> f.reg, into |-> f.into, i |-> f.i, out |-> f.out, open |-> f.open]
  /\ f.reg \in ScopesOf(t)
  /\ IsSeq(f.out) /\ IsSeq(f.open)
  /\ \A k \in DOMAIN f.out : PushedOK(t, f.reg, f.out[k])
  /\ \A k \in DOMAIN f.open : OpenOK(t, f.reg, f.open[k])

LoopsOK(t, ls) ==
  /\ IsSeq(ls)
  /\ \A d \in DOMAIN ls : LoopOK(t, ls[d])
  /\ \A d \in DOMAIN ls : d < Len(ls) => ls[d].open # << >>

LInv == WInv /\ LoopsOK(T, loops)

(* Using a name again does not disturb a loop.                             *)
LEMMA LoopKept ==
  ASSUME NEW t, Whole(t), NEW u, Uses(t, u), NEW f, LoopOK(t, f)
  PROVE  LoopOK(u, f)
<1> DEFINE r == f.reg
<1>1. /\ r \in ScopesOf(t) /\ r \in ScopesOf(u)
      /\ DOMAIN t.table[r].ids \subseteq DOMAIN u.table[r].ids
      /\ \A i \in DOMAIN t.table[r].ids : u.table[r].ids[i] = t.table[r].ids[i]
      /\ t.table[r].cap \in Nat /\ u.table[r].cap \in Nat
      /\ t.table[r].cap <= u.table[r].cap
  BY DEF LoopOK, Uses, Whole, Good, TablesType
<1>2. u.table[r].cap <= 4 => t.table[r].cap <= 4
  BY <1>1
<1>3. ASSUME NEW k \in DOMAIN f.out PROVE PushedOK(u, r, f.out[k])
  <2>1. PushedOK(t, r, f.out[k])
    BY DEF LoopOK
  <2> QED BY <1>1, <1>2, <2>1 DEF PushedOK, Named
<1>4. ASSUME NEW k \in DOMAIN f.open PROVE OpenOK(u, r, f.open[k])
  <2>1. OpenOK(t, r, f.open[k])
    BY DEF LoopOK
  <2> QED BY <1>1, <2>1 DEF OpenOK
<1> QED BY <1>1, <1>3, <1>4 DEF LoopOK

LEMMA SeqFacts ==
  ASSUME NEW s, IsSeq(s)
  PROVE  /\ Len(s) \in Nat /\ DOMAIN s = 1..Len(s)
         /\ s # << >> => Len(s) \in DOMAIN s /\ 1 \in DOMAIN s
BY DEF IsSeq

LEMMA SeqIsSeq ==
  ASSUME NEW A, NEW s \in Seq(A)
  PROVE  IsSeq(s)
BY DEF IsSeq

LEMMA AppendSeq ==
  ASSUME NEW s, IsSeq(s), NEW e
  PROVE  /\ IsSeq(Append(s, e))
         /\ Len(Append(s, e)) = Len(s) + 1
         /\ Append(s, e)[Len(s) + 1] = e
         /\ \A k \in DOMAIN s : Append(s, e)[k] = s[k]
<1> DEFINE A == {s[k] : k \in DOMAIN s} \cup {e}
           u == Append(s, e)
<1>1. s \in Seq(A) /\ e \in A
  BY DEF IsSeq
<1> HIDE DEF A
<1>2. /\ u \in Seq(A) /\ Len(u) = Len(s) + 1 /\ u[Len(s) + 1] = e
      /\ \A k \in DOMAIN s : u[k] = s[k]
  BY <1>1
<1> HIDE DEF u
<1>3. IsSeq(u)
  BY <1>2 DEF IsSeq
<1> QED BY <1>2, <1>3 DEF u

LEMMA ConcatSeq ==
  ASSUME NEW s, IsSeq(s), NEW e, IsSeq(e)
  PROVE  /\ IsSeq(s \o e)
         /\ \A k \in DOMAIN (s \o e) :
              \/ k \in DOMAIN s /\ (s \o e)[k] = s[k]
              \/ \E l \in DOMAIN e : (s \o e)[k] = e[l]
<1> DEFINE A == {s[k] : k \in DOMAIN s} \cup {e[k] : k \in DOMAIN e}
           u == s \o e
<1>1. s \in Seq(A) /\ e \in Seq(A)
  BY DEF IsSeq
<1> HIDE DEF A
<1>2. /\ u \in Seq(A) /\ Len(u) = Len(s) + Len(e)
      /\ \A k \in 1..Len(u) : u[k] = IF k <= Len(s) THEN s[k] ELSE e[k - Len(s)]
  BY <1>1
<1>3. /\ Len(s) \in Nat /\ Len(e) \in Nat /\ DOMAIN s = 1..Len(s) /\ DOMAIN e = 1..Len(e)
      /\ DOMAIN u = 1..Len(u)
  BY <1>1, <1>2
<1> HIDE DEF u
<1>4. ASSUME NEW k \in DOMAIN u
      PROVE  \/ k \in DOMAIN s /\ u[k] = s[k]
             \/ \E l \in DOMAIN e : u[k] = e[l]
  <2>1. CASE k <= Len(s)
    BY <1>2, <1>3, <2>1
  <2>2. CASE ~(k <= Len(s))
    <3>1. k - Len(s) \in DOMAIN e
      BY <1>2, <1>3, <2>2
    <3> QED BY <1>2, <1>3, <2>2, <3>1
  <2> QED BY <2>1, <2>2
<1>5. IsSeq(u)
  BY <1>2, SeqIsSeq
<1>6. /\ IsSeq(u)
      /\ \A k \in DOMAIN u : \/ k \in DOMAIN s /\ u[k] = s[k]
                             \/ \E l \in DOMAIN e : u[k] = e[l]
  BY <1>4, <1>5
<1> QED BY <1>6, Zenon DEF u

Replaced(s, i, e) == [s EXCEPT ![i] = e]

LEMMA ReplacedSeq ==
  ASSUME NEW s, IsSeq(s), NEW i \in DOMAIN s, NEW e
  PROVE  /\ IsSeq(Replaced(s, i, e)) /\ Len(Replaced(s, i, e)) = Len(s)
         /\ DOMAIN Replaced(s, i, e) = DOMAIN s
         /\ \A k \in DOMAIN s : Replaced(s, i, e)[k] = IF k = i THEN e ELSE s[k]
<1> DEFINE A == {s[k] : k \in DOMAIN s} \cup {e}
           u == Replaced(s, i, e)
<1>1. s \in Seq(A) /\ e \in A
  BY DEF IsSeq
<1> HIDE DEF A
<1>2. /\ u \in Seq(A) /\ Len(u) = Len(s)
      /\ \A k \in DOMAIN s : u[k] = IF k = i THEN e ELSE s[k]
  BY <1>1 DEF Replaced
<1>3. IsSeq(u) /\ DOMAIN u = DOMAIN s
  BY <1>1, <1>2, SeqIsSeq
<1> QED BY <1>2, <1>3

-------------------------------------------------------------------------------
(* Steps                                                                   *)

LEMMA RunningFacts ==
  ASSUME LInv, loops # << >>
  PROVE  /\ Whole(T)
         /\ Len(loops) \in DOMAIN loops
         /\ LoopOK(T, Running)
         /\ Running.reg \in ScopesOf(T)
<1>1. Len(loops) \in DOMAIN loops
  BY SeqFacts DEF LInv, LoopsOK
<1>2. LoopOK(T, Running)
  BY <1>1 DEF LInv, LoopsOK, Running
<1> QED BY <1>1, <1>2 DEF LInv, WInv, LoopOK

(* Lowering leaves a registered program registered.                        *)
LEMMA ProgramWhole ==
  ASSUME WInv, Registered, UNCHANGED <<stack, lost>>, Uses(T, T')
  PROVE  WInv'
<1>1. stack = << >> /\ stack' = << >> /\ Whole(T') /\ ScopesOf(T') = ScopesOf(T)
  BY DEF Registered, Uses
<1>2. IInv'
  BY <1>1 DEF WInv, IInv, StackOK, Whole
<1>3. FramesReady(stack', T')
  BY <1>1 DEF FramesReady
<1> QED BY <1>1, <1>2, <1>3 DEF WInv

LEMMA SetLoopOK ==
  ASSUME LInv, loops # << >>, Uses(T, T'), NEW f, LoopOK(T', f), SetLoop(f)
  PROVE  LoopsOK(T', loops')
<1> DEFINE n == Len(loops)
<1>1. n \in DOMAIN loops /\ IsSeq(loops) /\ Whole(T)
  BY RunningFacts DEF LInv, LoopsOK
<1>2. loops' = Replaced(loops, n, f)
  BY DEF SetLoop, Replaced
<1> HIDE DEF n
<1>5. /\ IsSeq(loops') /\ Len(loops') = Len(loops) /\ DOMAIN loops' = DOMAIN loops
      /\ \A k \in DOMAIN loops : loops'[k] = IF k = n THEN f ELSE loops[k]
  BY <1>1, <1>2, ReplacedSeq
<1>3. ASSUME NEW d \in DOMAIN loops PROVE LoopOK(T', loops'[d])
  <2>1. LoopOK(T, loops[d])
    BY DEF LInv, LoopsOK
  <2> QED BY <1>1, <1>5, <2>1, LoopKept
<1>4. ASSUME NEW d \in DOMAIN loops, d < Len(loops) PROVE loops'[d].open # << >>
  <2>1. d # n /\ loops[d].open # << >>
    BY <1>1, <1>4, SeqFacts DEF LInv, LoopsOK, n
  <2> QED BY <1>5, <2>1
<1> QED BY <1>3, <1>4, <1>5 DEF LoopsOK

(* A loop that pushes statements made of its entry j.                      *)
LEMMA PushLoopOK ==
  ASSUME NEW t, NEW f, LoopOK(t, f), NEW i, NEW irs, IsSeq(irs),
         \A k \in DOMAIN irs : PushedOK(t, f.reg, irs[k])
  PROVE  LoopOK(t, [f EXCEPT !.i = i, !.out = @ \o irs])
<1> DEFINE g == [f EXCEPT !.i = i, !.out = @ \o irs]
<1>1. PICK reg, into, at, out, open :
        f = [reg |-> reg, into |-> into, i |-> at, out |-> out, open |-> open]
  BY DEF LoopOK
<1> DEFINE x == f.out \o irs
<1>2. g = [reg |-> reg, into |-> into, i |-> i, out |-> x, open |-> open]
  <2>1. g = [f EXCEPT !.i = i, !.out = x]
    BY <1>1
  <2> HIDE DEF x, g
  <2> QED BY <1>1, <2>1
<1>3. /\ g = [reg |-> g.reg, into |-> g.into, i |-> g.i, out |-> g.out, open |-> g.open]
      /\ g.reg = f.reg /\ g.out = f.out \o irs /\ g.open = f.open
  BY <1>1, <1>2
<1> HIDE DEF g
<1>4. IsSeq(g.out) /\ \A k \in DOMAIN g.out : PushedOK(t, g.reg, g.out[k])
  <2>1. IsSeq(f.out) /\ \A k \in DOMAIN f.out : PushedOK(t, f.reg, f.out[k])
    BY DEF LoopOK
  <2> QED BY <1>3, <2>1, ConcatSeq
<1>5. LoopOK(t, g)
  BY <1>3, <1>4 DEF LoopOK
<1> QED BY <1>5 DEF g

LEMMA AtFacts ==
  ASSUME LInv, loops # << >>, NEW j, NEW tags, At(j, tags)
  PROVE  /\ j \in DOMAIN T.table[Running.reg].ids
         /\ j \in 1..(T.next - 1)
         /\ Source(j) = T.table[Running.reg].ids[j]
         /\ Source(j) = EntryOf(T, j)
         /\ Source(j).tag \in tags
         /\ Backward(T, j, Source(j))
<1>1. j \in DOMAIN T.table[Running.reg].ids /\ Source(j).tag \in tags
  BY DEF At, Source
<1>2. j \in 1..(T.next - 1) /\ EntryOf(T, j) = T.table[Running.reg].ids[j]
  BY <1>1, RunningFacts, EntryHere
<1> QED BY <1>1, <1>2, RunningFacts, HomeFacts DEF Source

LEMMA OperandMakes ==
  ASSUME NEW c \in ScopesOf(T), Whole(T), NEW id, NEW absent
  PROVE  Operand(c, id, absent).made \in Seq(Fields(T))
<1>1. CASE HasId(T, c, id)
  <2>1. id \in 1..(T.next - 1)
    BY <1>1 DEF HasId, Whole, Good, TablesType
  <2> QED BY <1>1, <2>1, LoweredMakes DEF Operand, ById
<1>2. CASE ~HasId(T, c, id)
  BY <1>2 DEF Operand, ById, Result
<1> QED BY <1>1, <1>2

(* What a lowering step does to the tables and to the loops.               *)
LowerOK == Uses(T, T') /\ LoopsOK(T', loops')

LEMMA PushIROK ==
  ASSUME LInv, loops # << >>, Uses(T, T'), NEW j, NEW irs, IsSeq(irs), PushIR(j, irs),
         \A k \in DOMAIN irs : PushedOK(T', Running.reg, irs[k])
  PROVE  LowerOK
<1>1. LoopOK(T', Running)
  BY RunningFacts, LoopKept
<1>2. LoopOK(T', [Running EXCEPT !.i = j + 1, !.out = @ \o irs])
  BY <1>1, PushLoopOK
<1> QED BY <1>2, SetLoopOK DEF PushIR, LowerOK

LEMMA SameTables ==
  ASSUME LInv, UNCHANGED T
  PROVE  Uses(T, T')
BY UsesRefl DEF LInv, WInv

LEMMA OneSeq ==
  ASSUME NEW s
  PROVE  /\ IsSeq(<<s>>) /\ IsSeq(<< >>)
         /\ DOMAIN <<s>> = {1} /\ <<s>>[1] = s
<1>1. <<s>> \in Seq({s}) /\ << >> \in Seq({s})
  OBVIOUS
<1>2. IsSeq(<<s>>) /\ IsSeq(<< >>)
  BY <1>1, SeqIsSeq
<1>3. DOMAIN <<s>> = {1} /\ <<s>>[1] = s
  OBVIOUS
<1> QED BY <1>2, <1>3

LEMMA IRStmtFields ==
  ASSUME NEW tag, NEW src, NEW name, NEW eid, NEW exprs, NEW blocks
  PROVE  /\ IRStmt(tag, src, name, eid, exprs, blocks).tag = tag
         /\ IRStmt(tag, src, name, eid, exprs, blocks).src = src
         /\ IRStmt(tag, src, name, eid, exprs, blocks).name = name
         /\ IRStmt(tag, src, name, eid, exprs, blocks).eid = eid
         /\ IRStmt(tag, src, name, eid, exprs, blocks).blocks = blocks
BY DEF IRStmt

(* One statement made of entry j is pushed.                                *)
LEMMA PushOneOK ==
  ASSUME LInv, loops # << >>, Uses(T, T'), NEW j, j \in DOMAIN T.table[Running.reg].ids,
         NEW s, s.src = j, Named(T', Running.reg, s), PushIR(j, <<s>>)
  PROVE  LowerOK
<1>1. j \in DOMAIN T'.table[Running.reg].ids
  BY RunningFacts DEF Uses
<1>2. PushedOK(T', Running.reg, s)
  BY <1>1 DEF PushedOK
<1>3. \A k \in DOMAIN <<s>> : PushedOK(T', Running.reg, <<s>>[k])
  BY <1>2, OneSeq
<1> QED BY <1>3, OneSeq, PushIROK

LEMMA SkipEntryOK ==
  ASSUME LInv, NEW j, SkipEntry(j)
  PROVE  LowerOK
<1> DEFINE f == [Running EXCEPT !.i = j + 1]
<1>1. loops # << >> /\ UNCHANGED T /\ SetLoop(f)
  BY DEF SkipEntry, Loops
<1>2. LoopOK(T, Running) /\ Uses(T, T')
  BY <1>1, RunningFacts, SameTables
<1>3. PICK reg, into, at, out, open :
        Running = [reg |-> reg, into |-> into, i |-> at, out |-> out, open |-> open]
  BY <1>2 DEF LoopOK
<1>4. f = [reg |-> reg, into |-> into, i |-> j + 1, out |-> out, open |-> open]
  BY <1>3
<1>5. /\ f = [reg |-> f.reg, into |-> f.into, i |-> f.i, out |-> f.out, open |-> f.open]
      /\ f.reg = Running.reg /\ f.out = Running.out /\ f.open = Running.open
  BY <1>3, <1>4
<1> HIDE DEF f
<1>6. LoopOK(T', f)
  BY <1>1, <1>2, <1>5 DEF LoopOK
<1> QED BY <1>1, <1>2, <1>6, SetLoopOK DEF LowerOK

(* An entry keeps the tables it is in at four buckets or more.             *)
LEMMA FourBuckets ==
  ASSUME NEW t, Whole(t), NEW r \in ScopesOf(t), NEW j \in DOMAIN t.table[r].ids
  PROVE  4 <= t.table[r].cap
<1>1. Filled(t.table[r])
  BY DEF Whole, Counted
<1>2. Load(t.table[r]) # 0
  BY <1>1, LoadNat
<1>3. PICK n \in Nat : t.table[r].cap = 4 * Doubled[n]
  BY <1>1, <1>2 DEF Filled, Fits
<1>4. Doubled[n] \in Nat /\ n < Doubled[n]
  BY DoubledLarge
<1> DEFINE d == Doubled[n]
<1>5. d \in Nat /\ 0 < d /\ t.table[r].cap = 4 * d
  BY <1>3, <1>4
<1> HIDE DEF d
<1> QED BY <1>5

(* Let the initialiser register what it will: the pointer to the entry     *)
(* still holds while its table has four buckets.                           *)
LEMMA LowerVarOK ==
  ASSUME LInv, NEW j, LowerVar(j)
  PROVE  LowerOK
<1> DEFINE id == Source(j).ops[1]
           r  == Running.reg
           v  == IF id = 0 THEN Result(NullIR, << >>) ELSE Lowered(T)[id][r]
           name(h) == IF h = 0 THEN NoName ELSE EntryOf(T', h).name
           ir(h) == IRStmt("VarDecl", j, name(h), h, <<v.ir>>, << >>)
<1>1. loops # << >> /\ At(j, {"Var"})
  BY DEF LowerVar, Loops
<1>2. PICK h \in Held(T, T', r, j) : T' = Remake(T, v.made) /\ PushIR(j, <<ir(h)>>)
  BY DEF LowerVar
<1>3. /\ Whole(T) /\ r \in ScopesOf(T) /\ j \in DOMAIN T.table[r].ids
      /\ j \in 1..(T.next - 1) /\ Backward(T, j, Source(j)) /\ Source(j).tag = "Var"
  BY <1>1, RunningFacts, AtFacts
<1>4. v.made \in Seq(Fields(T))
  <2>1. id \in 0..(j - 1)
    BY <1>3 DEF Backward, Shape, Single
  <2>2. T.next \in Nat /\ j \in Nat /\ j <= T.next - 1
    BY <1>3, GoodNumbers DEF Whole
  <2>3. CASE id = 0
    BY <2>3 DEF Result
  <2>4. CASE id # 0
    <3>1. id \in 1..(T.next - 1)
      BY <2>1, <2>2, <2>4
    <3> QED BY <1>3, <2>4, <3>1, LoweredMakes
  <2> QED BY <2>3, <2>4
<1> HIDE DEF v, r, id
<1>5. Uses(T, T')
  BY <1>2, <1>3, <1>4, RemakeUses
<1>6. T'.table[r].cap <= 4 => h = j
  <2>1. /\ 4 <= T.table[r].cap /\ T.table[r].cap <= T'.table[r].cap
        /\ T.table[r].cap \in Nat /\ T'.table[r].cap \in Nat
    BY <1>3, <1>5, FourBuckets DEF Uses, Whole, Good, TablesType
  <2> QED BY <1>2, <2>1 DEF Held
<1>7. EntryOf(T', j) = T'.table[r].ids[j]
  BY <1>3, <1>5, EntryHere DEF Uses
<1> DEFINE s == ir(h)
<1>8. s.src = j /\ s.eid = h /\ s.name = name(h)
  BY IRStmtFields
<1>9. Named(T', r, s)
  <2> SUFFICES ASSUME T'.table[r].cap <= 4
               PROVE  s.eid = s.src /\ s.name = T'.table[r].ids[s.src].name
    BY DEF Named
  <2>1. h = j /\ j # 0
    BY <1>3, <1>6
  <2> HIDE DEF ir
  <2> QED BY <1>7, <1>8, <2>1
<1> HIDE DEF s
<1>10. PushIR(j, <<s>>)
  BY <1>2 DEF s
<1> QED BY <1>1, <1>3, <1>5, <1>8, <1>9, <1>10, PushOneOK DEF r

LEMMA LowerLetOK ==
  ASSUME LInv, NEW j, LowerLet(j)
  PROVE  LowerOK
<1> DEFINE e == Source(j)
           r == Running.reg
           v == ByPointer(T, Lowered(T), j, r)
           s == IRStmt(IF e.tag = "Let" THEN "LetDecl" ELSE "ConstDecl", j, e.name, j, <<v.ir>>, << >>)
<1>1. loops # << >> /\ At(j, {"Let", "Const"}) /\ T' = Remake(T, v.made) /\ PushIR(j, <<s>>)
  BY DEF LowerLet, Loops
<1>2. /\ Whole(T) /\ r \in ScopesOf(T) /\ j \in DOMAIN T.table[r].ids
      /\ j \in 1..(T.next - 1) /\ Backward(T, j, e) /\ e.tag \in {"Let", "Const"}
      /\ e = EntryOf(T, j) /\ e = T.table[r].ids[j]
  BY <1>1, RunningFacts, AtFacts
<1>3. s.src = j /\ s.eid = j /\ s.name = e.name
  BY IRStmtFields
<1> HIDE DEF e, s, r
<1>4. v.made \in Seq(Fields(T))
  <2> DEFINE k == EntryOf(T, j).ops[1]
  <2>1. k \in 0..(j - 1)
    <3>1. e.ops \in Seq(0..(j - 1)) /\ e.ops # << >>
      BY <1>2 DEF Backward, Shape, Single
    <3> QED BY <1>2, <3>1, OperandOne
  <2>2. T.next \in Nat /\ j \in Nat /\ j <= T.next - 1
    BY <1>2, GoodNumbers DEF Whole
  <2>3. CASE k = 0
    BY <2>3 DEF Result, ByPointer
  <2>4. CASE k # 0
    <3>1. k \in 1..(T.next - 1)
      BY <2>1, <2>2, <2>4
    <3>2. Lowered(T)[k][r].made \in Seq(Fields(T))
      BY <1>2, <3>1, LoweredMakes
    <3> QED BY <2>4, <3>2 DEF Result, ByPointer
  <2> QED BY <2>3, <2>4
<1> HIDE DEF v
<1>5. Uses(T, T')
  BY <1>1, <1>2, <1>4, RemakeUses
<1>6. Named(T', r, s)
  BY <1>2, <1>3, <1>5 DEF Named, Uses
<1> QED BY <1>1, <1>2, <1>3, <1>5, <1>6, PushOneOK DEF r

(* A statement of another kind is pushed only into "defs", or not at all.  *)
LEMMA PushDefOK ==
  ASSUME LInv, loops # << >>, UNCHANGED T, NEW j, NEW irs, IsSeq(irs), PushDef(j, irs),
         \A k \in DOMAIN irs : PushedOK(T, Running.reg, irs[k])
  PROVE  LowerOK
<1>1. Uses(T, T')
  BY SameTables
<1>2. PICK pushed : pushed \in {irs, << >>} /\ PushIR(j, pushed)
  BY DEF PushDef
<1>3. IsSeq(pushed) /\ \A k \in DOMAIN pushed : PushedOK(T', Running.reg, pushed[k])
  <2>1. CASE pushed = irs
    BY <2>1
  <2>2. CASE pushed = << >>
    <3>1. DOMAIN << >> = {}
      OBVIOUS
    <3>2. \A k \in DOMAIN pushed : PushedOK(T', Running.reg, pushed[k])
      BY <2>2, <3>1
    <3> QED BY <2>2, <3>2, OneSeq
  <2> QED BY <1>2, <2>1, <2>2
<1> QED BY <1>1, <1>2, <1>3, PushIROK

LEMMA LowerTypeOK ==
  ASSUME LInv, NEW j, LowerType(j)
  PROVE  LowerOK
<1> DEFINE s == IRStmt(Source(j).tag, j, Source(j).name, j, << >>, << >>)
<1>1. loops # << >> /\ At(j, TypeTags) /\ UNCHANGED T /\ PushDef(j, <<s>>)
  BY DEF LowerType, Loops
<1>2. j \in DOMAIN T.table[Running.reg].ids /\ Source(j) = T.table[Running.reg].ids[j]
  BY <1>1, AtFacts
<1>3. s.src = j /\ s.eid = j /\ s.name = Source(j).name
  BY IRStmtFields
<1> HIDE DEF s
<1>4. PushedOK(T, Running.reg, s)
  BY <1>2, <1>3 DEF PushedOK, Named
<1>5. \A k \in DOMAIN <<s>> : PushedOK(T, Running.reg, <<s>>[k])
  BY <1>4, OneSeq
<1> QED BY <1>1, <1>5, OneSeq, PushDefOK

LEMMA AscendingLength ==
  ASSUME NEW ids, IsFiniteSet(ids)
  PROVE  Cardinality(ids) \in Nat /\ DOMAIN Ascending(ids) = 1..Cardinality(ids)
BY FS_CardinalityType DEF Ascending

LEMMA DeclaredLength ==
  ASSUME Whole(T), NEW c \in ScopesOf(T), NEW tag
  PROVE  \E n \in Nat : DOMAIN Declared(c, tag) = 1..n
<1> DEFINE ids == {k \in DOMAIN T.table[c].ids : T.table[c].ids[k].tag = tag}
<1>1. IsFiniteSet(DOMAIN T.table[c].ids)
  BY DEF Whole, Counted, Filled
<1>2. IsFiniteSet(ids)
  BY <1>1, FS_Subset
<1>3. DOMAIN Declared(c, tag) = DOMAIN Ascending(ids)
  BY DEF Declared
<1> HIDE DEF ids
<1> QED BY <1>2, <1>3, AscendingLength

LEMMA LowerExternOK ==
  ASSUME LInv, NEW j, LowerExtern(j)
  PROVE  LowerOK
<1> DEFINE c == Source(j).kids[1]
           funcs == Declared(c, "ExternFunc")
           ir(k) == IRStmt("Extern", j, funcs[k].name, funcs[k].eid, << >>, << >>)
           irs == [k \in DOMAIN funcs |-> ir(k)]
<1>1. loops # << >> /\ At(j, {"Extern"}) /\ UNCHANGED T /\ PushDef(j, irs)
  BY DEF LowerExtern, Loops
<1>2. /\ Whole(T) /\ j \in DOMAIN T.table[Running.reg].ids
      /\ Backward(T, j, Source(j)) /\ Source(j).tag = "Extern"
  BY <1>1, RunningFacts, AtFacts
<1>3. c \in ScopesOf(T)
  BY <1>2 DEF Backward, Shape, Nesting
<1> HIDE DEF c
<1>4. PICK n \in Nat : DOMAIN funcs = 1..n
  BY <1>2, <1>3, DeclaredLength
<1>5. \A k \in DOMAIN funcs : ir(k).src = j /\ ir(k).tag = "Extern"
  BY IRStmtFields
<1> HIDE DEF funcs, ir
<1>6. IsSeq(irs)
  <2>1. irs \in Seq({ir(k) : k \in 1..n})
    BY <1>4
  <2> HIDE DEF irs
  <2> QED BY <2>1, SeqIsSeq
<1>7. ASSUME NEW k \in DOMAIN irs PROVE PushedOK(T, Running.reg, irs[k])
  <2>1. irs[k] = ir(k) /\ k \in DOMAIN funcs
    OBVIOUS
  <2> HIDE DEF irs
  <2> QED BY <1>2, <1>5, <2>1 DEF PushedOK, Named, Declarations
<1> HIDE DEF irs
<1> QED BY <1>1, <1>6, <1>7, PushDefOK

(* A statement that lowers some operands first.                            *)
LEMMA PushWithOK ==
  ASSUME LInv, loops # << >>, NEW j, j \in DOMAIN T.table[Running.reg].ids,
         NEW tag, tag \notin Declarations, NEW results, NEW n \in Nat, DOMAIN results = 1..n,
         \A k \in 1..n : results[k].made \in Seq(Fields(T)),
         PushWith(j, tag, results)
  PROVE  LowerOK
<1> DEFINE made == [k \in DOMAIN results |-> results[k].made]
           s == IRStmt(tag, j, NoName, 0, [k \in DOMAIN results |-> results[k].ir], << >>)
<1>1. T' = Remake(T, Seqs!FlattenSeq(made)) /\ PushIR(j, <<s>>)
  BY DEF PushWith
<1>2. s.src = j /\ s.tag = tag
  BY IRStmtFields
<1>3. made \in Seq(Seq(Fields(T)))
  <2> DEFINE A == Seq(Fields(T))
  <2> HIDE DEF A
  <2>1. made \in [1..n -> A]
    BY DEF A
  <2> HIDE DEF made
  <2>2. made \in Seq(A)
    BY <2>1
  <2> QED BY <2>2 DEF A
<1> HIDE DEF made, s
<1>4. Seqs!FlattenSeq(made) \in Seq(Fields(T)) /\ Whole(T)
  BY <1>3, FlattenType, RunningFacts
<1>5. Uses(T, T')
  BY <1>1, <1>4, RemakeUses
<1>6. Named(T', Running.reg, s)
  BY <1>2 DEF Named
<1> QED BY <1>1, <1>2, <1>5, <1>6, PushOneOK

LEMMA PlainOK ==
  ASSUME LInv, NEW j, LowerReturn(j) \/ LowerExprStmt(j) \/ LowerAssign(j) \/ LowerAtomic(j)
  PROVE  LowerOK
<1>1. loops # << >> /\ \E tag : At(j, {tag})
  BY DEF LowerReturn, LowerExprStmt, LowerAssign, LowerAtomic, InBody, Loops
<1>2. /\ Whole(T) /\ Running.reg \in ScopesOf(T) /\ j \in DOMAIN T.table[Running.reg].ids
  BY <1>1, RunningFacts, AtFacts
<1>3. \A id, absent : Operand(Running.reg, id, absent).made \in Seq(Fields(T))
  BY <1>2, OperandMakes
<1>4. {"Return", "Expr", "Assign", "AtomicOp"} \cap Declarations = {}
  BY DEF Declarations
<1>5. ASSUME NEW id, NEW absent, NEW tag \in {"Return", "Expr"},
             PushWith(j, tag, <<Operand(Running.reg, id, absent)>>)
      PROVE  LowerOK
  <2> DEFINE results == <<Operand(Running.reg, id, absent)>>
  <2>1. /\ DOMAIN results = 1..1
        /\ \A k \in 1..1 : results[k] = Operand(Running.reg, id, absent)
    OBVIOUS
  <2>2. PushWith(j, tag, results)
    BY <1>5
  <2> HIDE DEF results
  <2>3. \A k \in 1..1 : results[k].made \in Seq(Fields(T))
    BY <1>3, <2>1
  <2> QED BY <1>1, <1>2, <1>4, <2>1, <2>2, <2>3, PushWithOK
<1>6. CASE LowerReturn(j) \/ LowerExprStmt(j)
  BY <1>5, <1>6 DEF LowerReturn, LowerExprStmt
<1>7. CASE LowerAssign(j)
  <2> DEFINE ops == Source(j).ops
             results == [k \in 1..2 |-> Operand(Running.reg, ops[k], NullIR)]
  <2>1. PushWith(j, "Assign", results)
    BY <1>7 DEF LowerAssign
  <2>2. DOMAIN results = 1..2 /\ \A k \in 1..2 : results[k].made \in Seq(Fields(T))
    BY <1>3
  <2> HIDE DEF results
  <2> QED BY <1>1, <1>2, <1>4, <2>1, <2>2, PushWithOK
<1>8. CASE LowerAtomic(j)
  <2> DEFINE results == << >>
  <2>1. PushWith(j, "AtomicOp", results) /\ DOMAIN results = 1..0
    BY <1>8 DEF LowerAtomic
  <2>2. \A k \in 1..0 : results[k].made \in Seq(Fields(T))
    OBVIOUS
  <2> HIDE DEF results
  <2> QED BY <1>1, <1>2, <1>4, <2>1, <2>2, PushWithOK
<1> QED BY <1>6, <1>7, <1>8

(* A statement with bodies is begun.                                       *)
LEMMA OpenLoopOK ==
  ASSUME NEW t, NEW f, LoopOK(t, f), NEW s, OpenOK(t, f.reg, s)
  PROVE  LoopOK(t, [f EXCEPT !.open = <<s>>])
<1> DEFINE g == [f EXCEPT !.open = <<s>>]
<1>1. PICK reg, into, at, out, open :
        f = [reg |-> reg, into |-> into, i |-> at, out |-> out, open |-> open]
  BY DEF LoopOK
<1>2. g = [reg |-> reg, into |-> into, i |-> at, out |-> out, open |-> <<s>>]
  BY <1>1
<1>3. /\ g = [reg |-> g.reg, into |-> g.into, i |-> g.i, out |-> g.out, open |-> g.open]
      /\ g.reg = f.reg /\ g.out = f.out /\ g.open = <<s>>
  BY <1>1, <1>2
<1> HIDE DEF g
<1>4. IsSeq(g.open) /\ \A k \in DOMAIN g.open : OpenOK(t, g.reg, g.open[k])
  BY <1>3, OneSeq
<1>5. LoopOK(t, g)
  BY <1>3, <1>4 DEF LoopOK
<1> QED BY <1>5 DEF g

LEMMA OpenStmtOK ==
  ASSUME LInv, loops # << >>, Uses(T, T'), NEW s,
         s.tag \in BlockTags \cup {"Function"}, s.src \in DOMAIN T.table[Running.reg].ids,
         s.blocks = << >>,
         s = [tag |-> s.tag, src |-> s.src, name |-> s.name, eid |-> s.eid,
              exprs |-> s.exprs, blocks |-> s.blocks, params |-> s.params],
         SetLoop([Running EXCEPT !.open = <<s>>])
  PROVE  LowerOK
<1>1. LoopOK(T', Running)
  BY RunningFacts, LoopKept
<1>2. s.src \in DOMAIN T'.table[Running.reg].ids
  BY RunningFacts DEF Uses
<1>3. OpenOK(T', Running.reg, s)
  BY <1>2, OneSeq DEF OpenOK
<1>4. LoopOK(T', [Running EXCEPT !.open = <<s>>])
  BY <1>1, <1>3, OpenLoopOK
<1> QED BY <1>4, SetLoopOK DEF LowerOK

LEMMA OpenFunctionOK ==
  ASSUME LInv, NEW j, OpenFunction(j)
  PROVE  LowerOK
<1> DEFINE ps == Declared(Source(j).kids[1], "Param")
           s == [IRStmt("Function", j, Source(j).name, j, << >>, << >>) EXCEPT !.params = ps]
<1>1. /\ loops # << >> /\ At(j, {"Function"}) /\ UNCHANGED T
      /\ SetLoop([Running EXCEPT !.open = <<s>>])
  BY DEF OpenFunction, Loops
<1>2. j \in DOMAIN T.table[Running.reg].ids /\ Uses(T, T')
  BY <1>1, AtFacts, SameTables
<1>3. s = [tag |-> "Function", src |-> j, name |-> Source(j).name, eid |-> j,
           exprs |-> << >>, blocks |-> << >>, params |-> ps]
  BY DEF IRStmt
<1>4. /\ s.tag \in BlockTags \cup {"Function"} /\ s.src = j /\ s.blocks = << >>
      /\ s = [tag |-> s.tag, src |-> s.src, name |-> s.name, eid |-> s.eid,
              exprs |-> s.exprs, blocks |-> s.blocks, params |-> s.params]
  BY <1>3
<1> HIDE DEF s
<1> QED BY <1>1, <1>2, <1>4, OpenStmtOK

LEMMA OpenBlocksOK ==
  ASSUME LInv, NEW j, OpenBlocks(j)
  PROVE  LowerOK
<1> DEFINE e == Source(j)
           v == Operand(e.kids[1], e.ops[1], ZeroIR)
           s == IRStmt(e.tag, j, NoName, 0, <<v.ir>>, << >>)
<1>1. /\ loops # << >> /\ \E tag \in BlockTags : At(j, {tag})
      /\ T' = Remake(T, v.made) /\ SetLoop([Running EXCEPT !.open = <<s>>])
  BY DEF OpenBlocks, InBody, Loops
<1>2. /\ Whole(T) /\ j \in DOMAIN T.table[Running.reg].ids /\ e.tag \in BlockTags
      /\ Backward(T, j, e)
  BY <1>1, RunningFacts, AtFacts
<1>3. s = [tag |-> e.tag, src |-> j, name |-> NoName, eid |-> 0, exprs |-> <<v.ir>>,
           blocks |-> << >>, params |-> << >>]
  BY DEF IRStmt
<1>4. /\ s.tag = e.tag /\ s.src = j /\ s.blocks = << >>
      /\ s = [tag |-> s.tag, src |-> s.src, name |-> s.name, eid |-> s.eid,
              exprs |-> s.exprs, blocks |-> s.blocks, params |-> s.params]
  BY <1>3
<1> HIDE DEF s, e
<1>5. e.kids[1] \in ScopesOf(T)
  BY <1>2 DEF Backward, Shape, BlockTags
<1>6. v.made \in Seq(Fields(T))
  BY <1>2, <1>5, OperandMakes
<1> HIDE DEF v
<1>7. Uses(T, T')
  BY <1>1, <1>2, <1>6, RemakeUses
<1> QED BY <1>1, <1>2, <1>4, <1>7, OpenStmtOK

(* The scope of the next body: lower_* only runs on scopes of its entry.   *)
LEMMA BodiesExist ==
  ASSUME NEW t, NEW j, NEW e, Backward(t, j, e), NEW n \in Nat, n < Len(Bodies(e))
  PROVE  Bodies(e)[n + 1] \in ScopesOf(t)
<1> DEFINE kids == e.kids
<1>1. kids \in Seq(ScopesOf(t)) /\ Len(kids) \in Nat
  BY DEF Backward
<1>2. CASE e.tag = "Function"
  <2>1. Bodies(e) = <<kids[1]>> /\ kids # << >>
    BY <1>2 DEF Bodies, Backward, Shape, Nesting
  <2> HIDE DEF kids
  <2>2. kids[1] \in ScopesOf(t) /\ n = 0
    BY <1>1, <2>1
  <2> QED BY <2>1, <2>2
<1>3. CASE e.tag \in {"If", "Elif"}
  <2>1. Bodies(e) = <<kids[2], kids[3]>> /\ Len(kids) = 3
    BY <1>3 DEF Bodies, Backward, Shape
  <2> HIDE DEF kids
  <2>2. kids[2] \in ScopesOf(t) /\ kids[3] \in ScopesOf(t) /\ n \in {0, 1}
    BY <1>1, <2>1
  <2> QED BY <2>1, <2>2
<1>4. CASE e.tag \in {"While", "For"}
  <2>1. Bodies(e) = <<kids[2]>> /\ Len(kids) >= 2
    BY <1>4 DEF Bodies, Backward, Shape
  <2> HIDE DEF kids
  <2>2. kids[2] \in ScopesOf(t) /\ n = 0
    BY <1>1, <2>1
  <2> QED BY <2>1, <2>2
<1>5. CASE e.tag = "Match"
  <2>1. Bodies(e) = SubSeq(kids, 3, Len(kids)) /\ Len(kids) >= 2
    BY <1>5 DEF Bodies, Backward, Shape
  <2> HIDE DEF kids
  <2>2. Len(Bodies(e)) = Len(kids) - 2
    BY <1>1, <2>1
  <2>3. n + 3 \in 1..Len(kids) /\ Bodies(e)[n + 1] = kids[n + 3]
    BY <1>1, <2>1, <2>2
  <2> QED BY <1>1, <2>3
<1>6. CASE e.tag \notin {"Function", "If", "Elif", "While", "For", "Match"}
  <2>1. Bodies(e) = << >>
    BY <1>6 DEF Bodies
  <2> QED BY <2>1
<1> QED BY <1>2, <1>3, <1>4, <1>5, <1>6

LEMMA OpenedFacts ==
  ASSUME LInv, Opened
  PROVE  /\ loops # << >> /\ 1 \in DOMAIN Running.open
         /\ OpenOK(T, Running.reg, Running.open[1])
         /\ Source(Running.open[1].src) = T.table[Running.reg].ids[Running.open[1].src]
         /\ Backward(T, Running.open[1].src, Source(Running.open[1].src))
<1>1. loops # << >> /\ Running.open # << >>
  BY DEF Opened
<1>2. LoopOK(T, Running) /\ Whole(T)
  BY <1>1, RunningFacts
<1>3. 1 \in DOMAIN Running.open
  BY <1>1, <1>2, SeqFacts DEF LoopOK
<1>4. OpenOK(T, Running.reg, Running.open[1]) /\ Running.reg \in ScopesOf(T)
  BY <1>2, <1>3 DEF LoopOK
<1> QED BY <1>1, <1>2, <1>3, <1>4 DEF OpenOK, Source, Whole, Formed

LEMMA EnterBodyOK ==
  ASSUME LInv, EnterBody
  PROVE  LowerOK
<1> DEFINE s == Running.open[1]
           bodies == Bodies(Source(s.src))
           reg == bodies[Len(s.blocks) + 1]
           f == Loop(reg, "stmts")
<1>1. /\ Opened /\ UNCHANGED T /\ Len(s.blocks) < Len(bodies)
      /\ loops' = Append(loops, f)
  BY DEF EnterBody
<1>2. /\ loops # << >> /\ OpenOK(T, Running.reg, s) /\ Backward(T, s.src, Source(s.src))
      /\ Running.open # << >>
  BY <1>1, OpenedFacts DEF Opened
<1>3. Len(s.blocks) \in Nat
  BY <1>2, SeqFacts DEF OpenOK
<1> HIDE DEF s
<1>4. reg \in ScopesOf(T)
  BY <1>1, <1>2, <1>3, BodiesExist
<1> HIDE DEF reg
<1>5. /\ f = [reg |-> reg, into |-> "stmts", i |-> 0, out |-> << >>, open |-> << >>]
  BY DEF Loop
<1>6. /\ f = [reg |-> f.reg, into |-> f.into, i |-> f.i, out |-> f.out, open |-> f.open]
      /\ f.reg = reg /\ f.out = << >> /\ f.open = << >> /\ DOMAIN << >> = {}
  BY <1>5
<1> HIDE DEF f
<1>7. LoopOK(T, f)
  BY <1>4, <1>6, OneSeq DEF LoopOK
<1>8. /\ IsSeq(loops) /\ Len(loops) \in Nat /\ DOMAIN loops = 1..Len(loops)
      /\ \A d \in DOMAIN loops : LoopOK(T, loops[d])
      /\ \A d \in DOMAIN loops : loops[d].open # << >>
  <2>1. IsSeq(loops) /\ Len(loops) \in Nat /\ DOMAIN loops = 1..Len(loops)
    BY SeqFacts DEF LInv, LoopsOK
  <2>2. ASSUME NEW d \in DOMAIN loops PROVE loops[d].open # << >>
    <3>1. CASE d = Len(loops)
      BY <1>2, <3>1 DEF Running
    <3>2. CASE d # Len(loops)
      BY <2>1, <3>2 DEF LInv, LoopsOK
    <3> QED BY <3>1, <3>2
  <2> QED BY <2>1, <2>2 DEF LInv, LoopsOK
<1>9. /\ IsSeq(loops') /\ Len(loops') = Len(loops) + 1 /\ loops'[Len(loops) + 1] = f
      /\ \A d \in DOMAIN loops : loops'[d] = loops[d]
  BY <1>1, <1>8, AppendSeq
<1>10. DOMAIN loops' = DOMAIN loops \cup {Len(loops) + 1}
  BY <1>8, <1>9, SeqFacts
<1>11. \A d \in DOMAIN loops' : LoopOK(T', loops'[d])
  BY <1>1, <1>7, <1>8, <1>9, <1>10
<1>12. \A d \in DOMAIN loops' : d < Len(loops') => loops'[d].open # << >>
  BY <1>8, <1>9, <1>10
<1> QED BY <1>1, <1>9, <1>11, <1>12, SameTables DEF LowerOK, LoopsOK

(* The loop that has pushed its statement.                                 *)
Past(g, x, y, z) == [g EXCEPT !.i = x, !.open = y, !.out = z]

LEMMA PastFields ==
  ASSUME NEW g, NEW reg, NEW into, NEW at, NEW out, NEW open,
         g = [reg |-> reg, into |-> into, i |-> at, out |-> out, open |-> open],
         NEW x, NEW y, NEW z
  PROVE  Past(g, x, y, z) = [reg |-> reg, into |-> into, i |-> x, out |-> z, open |-> y]
<1> DEFINE a == [g EXCEPT !.i = x]
           b == [a EXCEPT !.open = y]
           c == [b EXCEPT !.out = z]
<1>1. a = [reg |-> reg, into |-> into, i |-> x, out |-> out, open |-> open]
  OBVIOUS
<1>2. Past(g, x, y, z) = c
  BY DEF Past
<1> HIDE DEF a
<1>3. b = [reg |-> reg, into |-> into, i |-> x, out |-> out, open |-> y]
  BY <1>1
<1> HIDE DEF b
<1>4. c = [reg |-> reg, into |-> into, i |-> x, out |-> z, open |-> y]
  BY <1>3
<1> HIDE DEF c
<1> QED BY <1>2, <1>4

LEMMA CloseStmtOK ==
  ASSUME LInv, CloseStmt
  PROVE  LowerOK
<1> DEFINE s == Running.open[1]
           grown == IF s.tag = "Function" /\ Running.into = "stmts"
                    THEN Running.out ELSE Append(Running.out, s)
           past == s.src + 1
           f == Past(Running, past, << >>, grown)
<1>1. Opened /\ UNCHANGED T
  BY DEF CloseStmt
<1>2. SetLoop([Running EXCEPT
                 !.i = s.src + 1, !.open = << >>,
                 !.out = IF s.tag = "Function" /\ Running.into = "stmts"
                         THEN @ ELSE Append(@, s)])
  BY DEF CloseStmt
<1>3. loops # << >> /\ OpenOK(T, Running.reg, s)
  BY <1>1, OpenedFacts
<1>4. LoopOK(T, Running)
  BY <1>3, RunningFacts
<1>5. PICK reg, into, at, out, open :
        Running = [reg |-> reg, into |-> into, i |-> at, out |-> out, open |-> open]
  BY <1>4 DEF LoopOK
<1>6. SetLoop(f)
  BY <1>2, <1>5 DEF Past
<1> HIDE DEF s, grown, past
<1>7. f = [reg |-> reg, into |-> into, i |-> past, out |-> grown, open |-> << >>]
  BY <1>5, PastFields
<1>8. /\ f = [reg |-> f.reg, into |-> f.into, i |-> f.i, out |-> f.out, open |-> f.open]
      /\ f.reg = Running.reg /\ f.out = grown /\ f.open = << >> /\ DOMAIN << >> = {}
  BY <1>5, <1>7
<1> HIDE DEF f
<1>9. PushedOK(T, Running.reg, s)
  BY <1>3 DEF OpenOK, PushedOK, Named, Declarations, BlockTags
<1>10. /\ IsSeq(Running.out)
       /\ \A k \in DOMAIN Running.out : PushedOK(T, Running.reg, Running.out[k])
  BY <1>4 DEF LoopOK
<1>11. IsSeq(grown) /\ \A k \in DOMAIN grown : PushedOK(T, Running.reg, grown[k])
  <2>1. CASE grown = Running.out
    BY <1>10, <2>1
  <2>2. CASE grown = Append(Running.out, s)
    <3> DEFINE out2 == Append(Running.out, s)
               n == Len(Running.out)
    <3>1. /\ IsSeq(out2) /\ Len(out2) = n + 1 /\ out2[n + 1] = s
          /\ \A k \in DOMAIN Running.out : out2[k] = Running.out[k]
      BY <1>10, AppendSeq
    <3>2. n \in Nat /\ DOMAIN Running.out = 1..n
      BY <1>10, SeqFacts
    <3> HIDE DEF out2, n
    <3>3. DOMAIN out2 = 1..(n + 1)
      BY <3>1, SeqFacts
    <3>4. \A k \in DOMAIN out2 : k \in DOMAIN Running.out \/ k = n + 1
      BY <3>2, <3>3
    <3>5. \A k \in DOMAIN out2 : PushedOK(T, Running.reg, out2[k])
      BY <1>9, <1>10, <3>1, <3>4
    <3> QED BY <2>2, <3>1, <3>5 DEF out2
  <2> QED BY <2>1, <2>2 DEF grown
<1>12. LoopOK(T', f)
  BY <1>1, <1>4, <1>8, <1>11, OneSeq DEF LoopOK
<1> QED BY <1>1, <1>3, <1>6, <1>12, SameTables, SetLoopOK DEF LowerOK

(* A body ends: what its loop has pushed becomes a block of the statement. *)
LEMMA BlockLoopOK ==
  ASSUME NEW t, NEW f, LoopOK(t, f), f.open # << >>, NEW block
  PROVE  /\ LoopOK(t, [f EXCEPT !.open[1].blocks = Append(@, block)])
         /\ [f EXCEPT !.open[1].blocks = Append(@, block)].open # << >>
<1> DEFINE s == f.open[1]
           blocks == Append(s.blocks, block)
           u == [s EXCEPT !.blocks = blocks]
           opened == Replaced(f.open, 1, u)
           g == [f EXCEPT !.open = opened]
<1>1. PICK reg, into, at, out, open :
        f = [reg |-> reg, into |-> into, i |-> at, out |-> out, open |-> open]
  BY DEF LoopOK
<1>2. IsSeq(f.open) /\ 1 \in DOMAIN f.open
  BY SeqFacts DEF LoopOK
<1>3. OpenOK(t, f.reg, s)
  BY <1>2 DEF LoopOK
<1>4. PICK tag, src, name, eid, exprs, blks, params :
        s = [tag |-> tag, src |-> src, name |-> name, eid |-> eid, exprs |-> exprs,
             blocks |-> blks, params |-> params]
  BY <1>3 DEF OpenOK
<1>5. [f EXCEPT !.open[1].blocks = Append(@, block)] = g
  BY <1>1, <1>2, <1>4 DEF Replaced
<1>6. IsSeq(blocks)
  BY <1>3, AppendSeq DEF OpenOK
<1> HIDE DEF s, blocks
<1>7. u = [tag |-> tag, src |-> src, name |-> name, eid |-> eid, exprs |-> exprs,
           blocks |-> blocks, params |-> params]
  BY <1>4
<1>8. /\ u = [tag |-> u.tag, src |-> u.src, name |-> u.name, eid |-> u.eid,
              exprs |-> u.exprs, blocks |-> u.blocks, params |-> u.params]
      /\ u.tag = s.tag /\ u.src = s.src /\ u.blocks = blocks
  BY <1>4, <1>7
<1> HIDE DEF u
<1>9. OpenOK(t, f.reg, u)
  BY <1>3, <1>6, <1>8 DEF OpenOK
<1>10. /\ IsSeq(opened) /\ DOMAIN opened = DOMAIN f.open
       /\ \A k \in DOMAIN f.open : opened[k] = IF k = 1 THEN u ELSE f.open[k]
  BY <1>2, ReplacedSeq
<1> HIDE DEF opened
<1>11. g = [reg |-> reg, into |-> into, i |-> at, out |-> out, open |-> opened]
  BY <1>1
<1>12. /\ g = [reg |-> g.reg, into |-> g.into, i |-> g.i, out |-> g.out, open |-> g.open]
       /\ g.reg = f.reg /\ g.out = f.out /\ g.open = opened
  BY <1>1, <1>11
<1> HIDE DEF g
<1>13. \A k \in DOMAIN opened : OpenOK(t, f.reg, opened[k])
  BY <1>9, <1>10 DEF LoopOK
<1>14. LoopOK(t, g)
  BY <1>10, <1>12, <1>13 DEF LoopOK
<1>15. opened # << >>
  <2>1. 1 \in DOMAIN opened
    BY <1>2, <1>10
  <2>2. DOMAIN << >> = {}
    OBVIOUS
  <2> QED BY <2>1, <2>2
<1> QED BY <1>5, <1>12, <1>14, <1>15

LEMMA LeaveBodyOK ==
  ASSUME LInv, LeaveBody
  PROVE  LowerOK
<1> DEFINE n == Len(loops) - 1
           rest == SubSeq(loops, 1, n)
           f == [loops[n] EXCEPT !.open[1].blocks = Append(@, Running.out)]
<1>1. /\ Loops /\ Len(loops) > 1 /\ UNCHANGED T
      /\ loops' = [rest EXCEPT ![n].open[1].blocks = Append(@, Running.out)]
  BY DEF LeaveBody, Seqs!Front
<1>2. /\ IsSeq(loops) /\ Len(loops) \in Nat /\ DOMAIN loops = 1..Len(loops)
      /\ \A d \in DOMAIN loops : LoopOK(T, loops[d])
      /\ \A d \in DOMAIN loops : d < Len(loops) => loops[d].open # << >>
  BY SeqFacts DEF LInv, LoopsOK
<1>3. /\ n \in Nat /\ n < Len(loops) /\ n \in DOMAIN loops /\ n \in 1..n
  BY <1>1, <1>2
<1>4. /\ IsSeq(rest) /\ Len(rest) = n /\ DOMAIN rest = 1..n
      /\ \A d \in 1..n : rest[d] = loops[d] /\ d \in DOMAIN loops
  <2> DEFINE A == {loops[d] : d \in DOMAIN loops}
             len == Len(loops)
  <2>1. loops \in Seq(A) /\ len \in Nat /\ n = len - 1 /\ len > 1 /\ DOMAIN loops = 1..len
    BY <1>1, <1>2 DEF IsSeq
  <2> HIDE DEF A, n
  <2>2. /\ rest \in Seq(A) /\ Len(rest) = n /\ DOMAIN rest = 1..n
        /\ \A d \in 1..n : rest[d] = loops[d] /\ d \in DOMAIN loops
    BY <2>1
  <2> HIDE DEF rest
  <2> QED BY <2>2, SeqIsSeq
<1>5. loops' = Replaced(rest, n, f)
  <2>1. rest[n] = loops[n]
    BY <1>3, <1>4
  <2> HIDE DEF rest, n
  <2> QED BY <1>1, <1>3, <1>4, <2>1 DEF Replaced
<1>6. LoopOK(T, f) /\ f.open # << >>
  <2> HIDE DEF n
  <2> QED BY <1>2, <1>3, BlockLoopOK
<1> HIDE DEF f, rest, n
<1>7. /\ IsSeq(loops') /\ Len(loops') = n /\ DOMAIN loops' = 1..n
      /\ \A k \in 1..n : loops'[k] = IF k = n THEN f ELSE rest[k]
  BY <1>3, <1>4, <1>5, ReplacedSeq
<1>8. ASSUME NEW d \in 1..n PROVE LoopOK(T, loops'[d]) /\ loops'[d].open # << >>
  <2>1. CASE d = n
    BY <1>6, <1>7, <2>1
  <2>2. CASE d # n
    <3>1. loops'[d] = loops[d] /\ d \in DOMAIN loops /\ d < Len(loops)
      BY <1>2, <1>3, <1>4, <1>7, <2>2
    <3> QED BY <1>2, <3>1
  <2> QED BY <2>1, <2>2
<1>9. LoopsOK(T', loops')
  BY <1>1, <1>7, <1>8 DEF LoopsOK
<1> QED BY <1>1, <1>9, SameTables DEF LowerOK

LEMMA LowerStep ==
  ASSUME LInv, Lower
  PROVE  LowerOK /\ Registered /\ UNCHANGED <<stack, lost>>
<1>1. ASSUME NEW j \in 1..(T.next - 1),
             \/ SkipEntry(j) \/ LowerVar(j) \/ LowerLet(j) \/ LowerType(j)
             \/ LowerExtern(j) \/ LowerReturn(j) \/ LowerExprStmt(j)
             \/ LowerAssign(j) \/ LowerAtomic(j) \/ OpenFunction(j) \/ OpenBlocks(j)
      PROVE  LowerOK /\ Registered /\ UNCHANGED <<stack, lost>>
  <2>1. LowerOK
    BY <1>1, SkipEntryOK, LowerVarOK, LowerLetOK, LowerTypeOK, LowerExternOK, PlainOK,
       OpenFunctionOK, OpenBlocksOK
  <2>2. Registered /\ UNCHANGED <<stack, lost>>
    BY <1>1 DEF SkipEntry, LowerVar, LowerLet, LowerType, LowerExtern, LowerReturn,
                LowerExprStmt, LowerAssign, LowerAtomic, OpenFunction, OpenBlocks,
                InBody, Loops, PushWith
  <2> QED BY <2>1, <2>2
<1>2. CASE EnterBody
  BY <1>2, EnterBodyOK DEF EnterBody, Opened
<1>3. CASE LeaveBody
  BY <1>3, LeaveBodyOK DEF LeaveBody, Loops
<1>4. CASE CloseStmt
  BY <1>4, CloseStmtOK DEF CloseStmt, Opened
<1>5. CASE LeaveModule
  <2>1. UNCHANGED T /\ loops' = << >> /\ Registered /\ UNCHANGED <<stack, lost>>
    BY <1>5 DEF LeaveModule, Loops
  <2>2. DOMAIN << >> = {}
    OBVIOUS
  <2>3. LoopsOK(T', << >>)
    BY <2>2, OneSeq DEF LoopsOK
  <2> QED BY <2>1, <2>3, SameTables DEF LowerOK
<1> QED BY <1>1, <1>2, <1>3, <1>4, <1>5 DEF Lower

-------------------------------------------------------------------------------
(* The specification                                                       *)

(* Until register_body has returned, the only loop is the one of main.      *)
LowerInv ==
  /\ LInv
  /\ stack # << >> => loops = <<Loop(1, "defs")>>

LEMMA RootLoop ==
  ASSUME NEW t, 1 \in ScopesOf(t)
  PROVE  LoopsOK(t, <<Loop(1, "defs")>>)
<1> DEFINE f == Loop(1, "defs")
<1>1. f = [reg |-> 1, into |-> "defs", i |-> 0, out |-> << >>, open |-> << >>]
  BY DEF Loop
<1>2. /\ f = [reg |-> f.reg, into |-> f.into, i |-> f.i, out |-> f.out, open |-> f.open]
      /\ f.reg = 1 /\ f.out = << >> /\ f.open = << >> /\ DOMAIN << >> = {}
  BY <1>1
<1> HIDE DEF f
<1>3. LoopOK(t, f)
  BY <1>2, OneSeq DEF LoopOK
<1> DEFINE w == <<f>>
<1>4. IsSeq(w) /\ DOMAIN w = {1} /\ w[1] = f /\ Len(w) = 1
  BY OneSeq
<1> HIDE DEF w
<1>5. LoopsOK(t, w)
  BY <1>3, <1>4 DEF LoopsOK
<1> QED BY <1>5 DEF w, f

LEMMA RegisterNeedsStack == ASSUME Register PROVE stack # << >>
<1>1. CASE LeafStmt
  BY <1>1 DEF LeafStmt, RegisterStruct, RegisterEnum, RegisterVar, RegisterAssign,
              RegisterLet, RegisterReturn, RegisterExprStmt, RegisterAtomic, SkipLocal,
              SkipElse, Leaf, Stmt
<1>2. CASE Header
  BY <1>2 DEF Header, RegisterParam, RegisterField, RegisterExternFunc,
              RegisterParamExpr, NextHeader
<1>3. CASE Begin
  BY <1>3 DEF Begin, BeginFunction, BeginClass, BeginMethod, BeginTrait, BeginTraitMethod,
              BeginModule, BeginExtern, BeginExternFunc, BeginIf, BeginElif, BeginWhile,
              BeginFor, BeginMatch, BeginElse, BeginArm, EnterBlock, CompoundStmt, Stmt,
              BodyRead, Open
<1>4. CASE End
  BY <1>4 DEF End, EndFunction, EndMethod, EndClass, EndTraitMethod, EndTrait, EndModule,
              EndExtern, EndIf, EndElif, EndWhile, EndFor, EndMatch, EndBody, BodyRead, Open
<1> QED BY <1>1, <1>2, <1>3, <1>4 DEF Register

LEMMA RootExists == ASSUME WInv PROVE 1 \in ScopesOf(T)
BY DEF WInv, IInv, Good, TablesType, ScopesOf

LEMMA WInvStep ==
  ASSUME WInv, [Next]_vars
  PROVE  WInv'
BY WholeStep, StepPreserves DEF WInv, StepOK, IInv, Grown, Keeps

LEMMA RegisteringKeeps ==
  ASSUME LowerInv, Register, UNCHANGED lowerVars
  PROVE  LowerInv'
<1>1. loops = <<Loop(1, "defs")>> /\ loops' = loops /\ WInv
  BY RegisterNeedsStack DEF LowerInv, LInv, lowerVars
<1>2. WInv'
  BY <1>1, WInvStep DEF Next
<1>3. 1 \in ScopesOf(T')
  <2>1. 1 \in ScopesOf(T)
    BY <1>1, RootExists
  <2> QED BY <1>1, <2>1, WholeStep DEF Next, Keeps
<1>4. LoopsOK(T', loops')
  BY <1>1, <1>3, RootLoop
<1> QED BY <1>1, <1>2, <1>4 DEF LowerInv, LInv

LEMMA LoweringKeeps ==
  ASSUME LowerInv, Lower
  PROVE  LowerInv'
<1>1. LowerOK /\ stack = << >> /\ UNCHANGED <<stack, lost>>
  BY LowerStep DEF LowerInv, Registered
<1>2. Whole(T') /\ ScopesOf(T') = ScopesOf(T) /\ LoopsOK(T', loops')
  BY <1>1 DEF LowerOK, Uses
<1>3. IInv'
  BY <1>1, <1>2 DEF LowerInv, LInv, WInv, IInv, StackOK, Whole
<1>4. FramesReady(stack', T')
  <2>1. DOMAIN << >> = {}
    OBVIOUS
  <2> QED BY <1>1, <2>1 DEF FramesReady
<1> QED BY <1>1, <1>2, <1>3, <1>4 DEF LowerInv, LInv, WInv

LEMMA LowerInvStep ==
  ASSUME LowerInv, [LowerNext]_allVars
  PROVE  LowerInv'
<1>1. CASE UNCHANGED allVars
  <2>1. UNCHANGED <<T, stack, lost, loops>>
    BY <1>1 DEF allVars
  <2>2. WInv'
    BY <2>1, WInvStep DEF LowerInv, LInv, vars
  <2> QED BY <2>1, <2>2 DEF LowerInv, LInv
<1> QED BY <1>1, RegisteringKeeps, LoweringKeeps DEF LowerNext

LEMMA InitLowerInv == LowerInit => LowerInv
<1> SUFFICES ASSUME LowerInit PROVE LowerInv
  OBVIOUS
<1>1. WInv
  BY InitIInv, InitWhole DEF LowerInit, WInv
<1>2. LoopsOK(T, loops)
  BY <1>1, RootExists, RootLoop DEF LowerInit
<1> QED BY <1>1, <1>2 DEF LowerInv, LInv, LowerInit

(* In every reachable state every lower_stmt loop runs on a table that was  *)
(* made, and what it has pushed or is working on came from that table: the *)
(* invariants of the registration pass, carried through a pass that        *)
(* registers names itself.                                                 *)
THEOREM LoopsInvariance == LowerSpec => []LowerInv
<1>1. LowerInv /\ [LowerNext]_allVars => LowerInv'
  BY LowerInvStep
<1> QED BY <1>1, InitLowerInv, PTL DEF LowerSpec

(* The lowering pass only uses names again: whatever the StructCall case of *)
(* lower_expr registers, no name is rebound, no entry is touched, and what *)
(* is added is an expression, which no loop takes for a statement.         *)
THEOREM ProgramIsKept == LowerSpec => ProgramKept
<1> DEFINE A == Registered =>
                  \A r \in ScopesOf(T) :
                    /\ T'.table[r].names = T.table[r].names
                    /\ \A i \in DOMAIN T'.table[r].ids :
                         IF i \in DOMAIN T.table[r].ids
                         THEN T'.table[r].ids[i] = T.table[r].ids[i]
                         ELSE T'.table[r].ids[i].tag \in ExprTags
<1>1. LowerInv /\ [LowerNext]_allVars => [A]_allVars
  <2> SUFFICES ASSUME LowerInv, LowerNext, Registered PROVE A
    BY DEF A
  <2>1. LowerOK \/ UNCHANGED T
    BY LowerStep, RegisterNeedsStack DEF LowerInv, LowerNext, Registered, allVars
  <2>2. CASE LowerOK
    <3>1. "Identifier" \in ExprTags
      BY DEF ExprTags
    <3> QED BY <2>2, <3>1 DEF LowerOK, Uses
  <2>3. CASE UNCHANGED T
    BY <2>3
  <2> QED BY <2>1, <2>2, <2>3
<1>2. [][A]_allVars => ProgramKept
  BY PTL DEF ProgramKept
<1> QED BY <1>1, <1>2, LoopsInvariance, PTL DEF LowerSpec

(* lower_var takes the entry it reads again for the entry it started from:  *)
(* as long as the table has its first four buckets it is, so a declaration *)
(* declares the variable the source declares.                              *)
THEOREM DeclarationsAreNamed == LowerSpec => []DeclarationsNamed
<1>1. LowerInv => DeclarationsNamed
  BY DEF LowerInv, LInv, LoopsOK, LoopOK, PushedOK, Named, DeclarationsNamed
<1> QED BY <1>1, LoopsInvariance, PTL

-------------------------------------------------------------------------------
(* Sets in order                                                           *)

(* How many come before it.                                                *)
Rank(ids, i) == Cardinality({j \in ids : j < i})

LEMMA Bounded ==
  ASSUME NEW b \in Nat, NEW ids \in SUBSET (0..b)
  PROVE  IsFiniteSet(ids) /\ Cardinality(ids) \in Nat /\ ids \subseteq Nat
<1>1. IsFiniteSet(0..b)
  BY FS_Interval
<1>2. IsFiniteSet(ids)
  BY <1>1, FS_Subset
<1>3. Cardinality(ids) \in Nat
  BY <1>2, FS_CardinalityType
<1>4. ids \subseteq Nat
  OBVIOUS
<1> QED BY <1>2, <1>3, <1>4

LEMMA RankLess ==
  ASSUME NEW b \in Nat, NEW ids \in SUBSET (0..b), NEW i \in ids
  PROVE  /\ Rank(ids, i) \in Nat /\ Rank(ids, i) < Cardinality(ids)
         /\ \A j \in ids : j < i => Rank(ids, j) < Rank(ids, i)
<1> DEFINE under(k) == {j \in ids : j < k}
<1>1. /\ IsFiniteSet(ids) /\ Cardinality(ids) \in Nat /\ ids \subseteq Nat
  BY Bounded
<1>2. \A k : under(k) \in SUBSET (0..b) /\ under(k) \in SUBSET ids
  OBVIOUS
<1>3. \A k : IsFiniteSet(under(k)) /\ Rank(ids, k) = Cardinality(under(k)) /\ Rank(ids, k) \in Nat
  BY <1>2, Bounded DEF Rank
<1>4. Rank(ids, i) < Cardinality(ids)
  <2>1. i \in Nat /\ ~(i < i)
    BY <1>1
  <2>2. under(i) # ids
    BY <2>1
  <2> HIDE DEF under
  <2>3. /\ Cardinality(under(i)) <= Cardinality(ids)
        /\ Cardinality(under(i)) # Cardinality(ids)
    BY <1>1, <1>2, <2>2, FS_Subset
  <2> QED BY <1>1, <1>3, <2>3
<1>5. ASSUME NEW j \in ids, j < i PROVE Rank(ids, j) < Rank(ids, i)
  <2>1. ASSUME NEW l \in under(j) PROVE l \in under(i)
    <3>1. l \in Nat /\ j \in Nat /\ i \in Nat /\ l \in ids /\ l < j
      BY <1>1
    <3> QED BY <1>5, <3>1
  <2>2. j \in Nat /\ ~(j < j)
    BY <1>1
  <2>3. j \in under(i) /\ j \notin under(j)
    BY <1>5, <2>2
  <2> HIDE DEF under
  <2>4. under(j) \in SUBSET under(i) /\ under(j) # under(i)
    BY <2>1, <2>3
  <2>5. /\ Cardinality(under(j)) <= Cardinality(under(i))
        /\ Cardinality(under(j)) # Cardinality(under(i))
    BY <1>3, <2>4, FS_Subset
  <2> QED BY <1>3, <2>5
<1> QED BY <1>3, <1>4, <1>5

(* Every place is taken.                                                   *)
LEMMA NthExists ==
  ASSUME NEW b \in Nat, NEW ids \in SUBSET (0..b), NEW k \in 1..Cardinality(ids)
  PROVE  \E i \in ids : Rank(ids, i) = k - 1
<1> DEFINE Full(c) == \A s \in SUBSET (0..c) : \A n \in 1..Cardinality(s) :
                        \E i \in s : Rank(s, i) = n - 1
           Bad == {c \in Nat : ~Full(c)}
<1>1. SUFFICES ASSUME Bad # {} PROVE FALSE
  OBVIOUS
<1>0. Bad \in SUBSET Nat
  OBVIOUS
<1> HIDE DEF Bad
<1>2. PICK c \in Bad : \A m \in Bad : c <= m
  BY <1>0, <1>1, NatMin
<1> USE DEF Bad
<1>3. PICK s \in SUBSET (0..c) : \E n \in 1..Cardinality(s) : \A i \in s : Rank(s, i) # n - 1
  BY <1>2
<1>13. PICK n \in 1..Cardinality(s) : \A i \in s : Rank(s, i) # n - 1
  BY <1>3
<1>4. c \in Nat /\ (c > 0 => Full(c - 1))
  <2>1. c \in Nat
    BY <1>2
  <2>2. ASSUME c > 0, ~Full(c - 1) PROVE FALSE
    <3> HIDE DEF Full
    <3>1. c - 1 \in Nat /\ ~(c <= c - 1)
      BY <2>1, <2>2
    <3>2. c - 1 \in Bad
      BY <2>2, <3>1
    <3> HIDE DEF Bad
    <3> QED BY <1>2, <3>1, <3>2
  <2> HIDE DEF Full, Bad
  <2> QED BY <2>1, <2>2
<1> HIDE DEF Bad
<1> DEFINE rest == s \ {c}
<1>5. IsFiniteSet(s) /\ Cardinality(s) \in Nat /\ s \subseteq Nat
  BY <1>4, Bounded
<1>6. Cardinality(rest) = IF c \in s THEN Cardinality(s) - 1 ELSE Cardinality(s)
  BY <1>5, FS_RemoveElement
<1>7. n \in 1..Cardinality(rest)
  <2> SUFFICES ASSUME n \notin 1..Cardinality(rest) PROVE FALSE
    OBVIOUS
  <2>1. c \in s /\ n = Cardinality(s)
    BY <1>13, <1>5, <1>6
  <2>2. rest = {j \in s : j < c}
    <3>1. \A j \in s : j \in Nat /\ j <= c
      BY <1>4
    <3>2. \A j \in s : j # c <=> j < c
      BY <1>4, <3>1
    <3> QED BY <3>2
  <2>3. Rank(s, c) = n - 1
    BY <1>6, <2>1, <2>2 DEF Rank
  <2> QED BY <1>13, <1>5, <2>1, <2>3
<1>8. c > 0
  <2> SUFFICES ASSUME c = 0 PROVE FALSE
    BY <1>4
  <2>1. rest = {}
    BY <1>4
  <2>2. Cardinality(rest) = 0
    BY <2>1, FS_EmptySet
  <2> QED BY <1>7, <2>2
<1>9. rest \in SUBSET (0..(c - 1))
  BY <1>4
<1>10. PICK i \in rest : Rank(rest, i) = n - 1
  BY <1>4, <1>7, <1>8, <1>9
<1>11. {j \in rest : j < i} = {j \in s : j < i}
  BY <1>4, <1>10
<1>12. Rank(s, i) = n - 1
  BY <1>10, <1>11 DEF Rank
<1> QED BY <1>13, <1>10, <1>12

LEMMA AscendingFunction ==
  ASSUME NEW ids
  PROVE  Ascending(ids) = [k \in 1..Cardinality(ids) |-> Ascending(ids)[k]]
<1> DEFINE nth(k) == CHOOSE i \in ids : Cardinality({j \in ids : j < i}) = k - 1
<1>1. Ascending(ids) = [k \in 1..Cardinality(ids) |-> nth(k)]
  BY DEF Ascending
<1> HIDE DEF nth
<1> QED BY <1>1

LEMMA AscendingFacts ==
  ASSUME NEW b \in Nat, NEW ids \in SUBSET (0..b)
  PROVE  /\ Cardinality(ids) \in Nat
         /\ DOMAIN Ascending(ids) = 1..Cardinality(ids)
         /\ \A k \in 1..Cardinality(ids) :
              Ascending(ids)[k] \in ids /\ Rank(ids, Ascending(ids)[k]) = k - 1
         /\ \A i \in ids : /\ Rank(ids, i) + 1 \in 1..Cardinality(ids)
                           /\ Ascending(ids)[Rank(ids, i) + 1] = i
<1>1. Cardinality(ids) \in Nat /\ ids \subseteq Nat
  BY Bounded
<1>2. DOMAIN Ascending(ids) = 1..Cardinality(ids)
  BY DEF Ascending
<1>3. ASSUME NEW k \in 1..Cardinality(ids)
      PROVE  Ascending(ids)[k] \in ids /\ Rank(ids, Ascending(ids)[k]) = k - 1
  <2>1. Ascending(ids)[k] = CHOOSE i \in ids : Rank(ids, i) = k - 1
    BY DEF Ascending, Rank
  <2>2. \E i \in ids : Rank(ids, i) = k - 1
    BY NthExists
  <2> QED BY <2>1, <2>2
<1>4. ASSUME NEW i \in ids
      PROVE  /\ Rank(ids, i) + 1 \in 1..Cardinality(ids)
             /\ Ascending(ids)[Rank(ids, i) + 1] = i
  <2> DEFINE k == Rank(ids, i) + 1
             j == Ascending(ids)[k]
  <2>1. Rank(ids, i) \in Nat /\ k \in 1..Cardinality(ids)
    BY <1>1, RankLess
  <2>2. j \in ids /\ Rank(ids, j) = Rank(ids, i)
    BY <1>3, <2>1
  <2> HIDE DEF j
  <2>3. ~(j < i) /\ ~(i < j)
    <3>1. j < i => Rank(ids, j) < Rank(ids, i)
      BY <2>2, RankLess
    <3>2. i < j => Rank(ids, i) < Rank(ids, j)
      BY <2>2, RankLess
    <3> QED BY <2>1, <2>2, <3>1, <3>2
  <2>4. j = i
    BY <1>1, <2>2, <2>3
  <2> QED BY <2>1, <2>4 DEF j
<1> QED BY <1>1, <1>2, <1>3, <1>4

(* One that is larger than all the others comes last.                       *)
LEMMA AscendingMore ==
  ASSUME NEW b \in Nat, NEW ids \in SUBSET (0..b), NEW j \in Nat, \A i \in ids : i < j
  PROVE  /\ Cardinality(ids \cup {j}) = Cardinality(ids) + 1
         /\ Ascending(ids \cup {j})[Cardinality(ids) + 1] = j
         /\ \A k \in 1..Cardinality(ids) : Ascending(ids \cup {j})[k] = Ascending(ids)[k]
<1> DEFINE more == ids \cup {j}
           n == Cardinality(ids)
           c == IF b < j THEN j ELSE b
<1>1. c \in Nat /\ more \in SUBSET (0..c)
  OBVIOUS
<1>2. IsFiniteSet(ids) /\ n \in Nat /\ ids \subseteq Nat /\ j \notin ids
  <2>1. ~(j < j)
    OBVIOUS
  <2> QED BY <2>1, Bounded
<1>3. Cardinality(more) = n + 1
  BY <1>2, FS_AddElement
<1> HIDE DEF c
<1>4. \A i \in more : Ascending(more)[Rank(more, i) + 1] = i
  BY <1>1, AscendingFacts
<1>5. Rank(more, j) = n
  <2>0. ~(j < j)
    OBVIOUS
  <2>1. {i \in more : i < j} = ids
    BY <2>0
  <2> QED BY <2>1 DEF Rank
<1>6. ASSUME NEW k \in 1..n PROVE Ascending(more)[k] = Ascending(ids)[k]
  <2> DEFINE i == Ascending(ids)[k]
  <2>1. i \in ids /\ Rank(ids, i) = k - 1
    BY AscendingFacts
  <2> HIDE DEF i
  <2>2. {l \in more : l < i} = {l \in ids : l < i}
    BY <1>2, <2>1
  <2>3. Rank(more, i) = k - 1
    BY <2>1, <2>2 DEF Rank
  <2>4. Rank(more, i) + 1 = k /\ i \in more
    BY <1>2, <2>1, <2>3
  <2> QED BY <1>4, <2>4 DEF i
<1> QED BY <1>3, <1>4, <1>5, <1>6

LEMMA ConcatHead ==
  ASSUME NEW s, IsSeq(s), NEW e, IsSeq(e)
  PROVE  DOMAIN s \subseteq DOMAIN (s \o e) /\ \A k \in DOMAIN s : (s \o e)[k] = s[k]
<1> DEFINE A == {s[k] : k \in DOMAIN s} \cup {e[k] : k \in DOMAIN e}
           u == s \o e
<1>1. s \in Seq(A) /\ e \in Seq(A)
  BY DEF IsSeq
<1> HIDE DEF A
<1>2. /\ u \in Seq(A) /\ Len(u) = Len(s) + Len(e)
      /\ \A k \in 1..Len(u) : u[k] = IF k <= Len(s) THEN s[k] ELSE e[k - Len(s)]
      /\ Len(s) \in Nat /\ Len(e) \in Nat /\ DOMAIN s = 1..Len(s) /\ DOMAIN u = 1..Len(u)
  BY <1>1
<1> HIDE DEF u
<1>3. DOMAIN s \subseteq DOMAIN u /\ \A k \in DOMAIN s : k \in 1..Len(u) /\ k <= Len(s)
  BY <1>2
<1>4. DOMAIN s \subseteq DOMAIN u /\ \A k \in DOMAIN s : u[k] = s[k]
  BY <1>2, <1>3
<1> QED BY <1>4 DEF u

LEMMA ConcatOne ==
  ASSUME NEW s, IsSeq(s), NEW x
  PROVE  s \o <<x>> = Append(s, x)
<1> DEFINE A == {s[k] : k \in DOMAIN s} \cup {x}
<1>1. s \in Seq(A) /\ x \in A
  BY DEF IsSeq
<1> HIDE DEF A
<1> QED BY <1>1

-------------------------------------------------------------------------------
(* Where the pushed statements came from                                   *)

Owns(irs) == {k \in DOMAIN irs : irs[k].tag # "Extern"}

LEMMA OwnFacts ==
  ASSUME NEW irs, IsSeq(irs)
  PROVE  /\ Owns(irs) \in SUBSET (0..Len(irs)) /\ Len(irs) \in Nat
         /\ Owns(irs) \subseteq DOMAIN irs
         /\ Cardinality(Owns(irs)) \in Nat
         /\ Sources(irs) = [k \in 1..Cardinality(Owns(irs)) |-> irs[Ascending(Owns(irs))[k]].src]
         /\ \A k \in 1..Cardinality(Owns(irs)) : Ascending(Owns(irs))[k] \in Owns(irs)
<1>1. Len(irs) \in Nat /\ DOMAIN irs = 1..Len(irs)
  BY SeqFacts
<1>2. Owns(irs) \in SUBSET (0..Len(irs)) /\ Owns(irs) \subseteq DOMAIN irs
  BY <1>1 DEF Owns
<1>3. /\ Cardinality(Owns(irs)) \in Nat
      /\ DOMAIN Ascending(Owns(irs)) = 1..Cardinality(Owns(irs))
      /\ \A k \in 1..Cardinality(Owns(irs)) : Ascending(Owns(irs))[k] \in Owns(irs)
  BY <1>1, <1>2, AscendingFacts
<1>4. Sources(irs) = [k \in DOMAIN Ascending(Owns(irs)) |-> irs[Ascending(Owns(irs))[k]].src]
  BY DEF Sources, Owns
<1> QED BY <1>1, <1>2, <1>3, <1>4

(* The definitions of an extern block are not counted.                     *)
LEMMA SourcesSame ==
  ASSUME NEW s, IsSeq(s), NEW e, IsSeq(e), \A l \in DOMAIN e : e[l].tag = "Extern"
  PROVE  Sources(s \o e) = Sources(s)
<1> DEFINE u == s \o e
<1>1. /\ IsSeq(u) /\ DOMAIN s \subseteq DOMAIN u /\ \A k \in DOMAIN s : u[k] = s[k]
      /\ \A k \in DOMAIN u : k \in DOMAIN s \/ \E l \in DOMAIN e : u[k] = e[l]
  <2>1. DOMAIN s \subseteq DOMAIN u /\ \A k \in DOMAIN s : u[k] = s[k]
    BY ConcatHead
  <2>2. /\ IsSeq(u)
        /\ \A k \in DOMAIN u : \/ k \in DOMAIN s /\ u[k] = s[k]
                               \/ \E l \in DOMAIN e : u[k] = e[l]
    <3> SUFFICES ASSUME NEW k \in DOMAIN u
                 PROVE  IsSeq(u) /\ ((k \in DOMAIN s /\ u[k] = s[k]) \/ \E l \in DOMAIN e : u[k] = e[l])
      BY ConcatSeq
    <3> QED BY ConcatSeq
  <2> HIDE DEF u
  <2> QED BY <2>1, <2>2
<1> HIDE DEF u
<1>2. Owns(u) = Owns(s)
  BY <1>1 DEF Owns
<1>3. \A k \in 1..Cardinality(Owns(s)) : u[Ascending(Owns(s))[k]] = s[Ascending(Owns(s))[k]]
  BY <1>1, OwnFacts
<1>4. Sources(u) = Sources(s)
  <2> DEFINE n == Cardinality(Owns(s))
             a == Ascending(Owns(s))
  <2>1. Sources(s) = [k \in 1..n |-> s[a[k]].src]
    BY OwnFacts
  <2>2. Sources(u) = [k \in 1..n |-> u[a[k]].src]
    BY <1>1, <1>2, OwnFacts
  <2>3. \A k \in 1..n : u[a[k]] = s[a[k]]
    BY <1>3
  <2> HIDE DEF n, a
  <2> QED BY <2>1, <2>2, <2>3
<1> QED BY <1>4 DEF u

(* Any other statement comes last.                                         *)
LEMMA SourcesMore ==
  ASSUME NEW s, IsSeq(s), NEW x, x.tag # "Extern",
         NEW b \in Nat, NEW ids \in SUBSET (0..b), Sources(s) = Ascending(ids),
         x.src \in Nat, \A i \in ids : i < x.src
  PROVE  Sources(Append(s, x)) = Ascending(ids \cup {x.src})
<1> DEFINE u == Append(s, x)
           n == Len(s)
           m == Cardinality(Owns(s))
           j == x.src
<1>1. /\ IsSeq(u) /\ Len(u) = n + 1 /\ u[n + 1] = x /\ \A k \in DOMAIN s : u[k] = s[k]
  BY AppendSeq
<1>2. n \in Nat /\ DOMAIN s = 1..n /\ DOMAIN u = 1..(n + 1)
  BY <1>1, SeqFacts
<1> HIDE DEF u, n
<1>3. Owns(u) = Owns(s) \cup {n + 1}
  <2>1. DOMAIN u = DOMAIN s \cup {n + 1}
    BY <1>2
  <2>2. \A k \in DOMAIN s : u[k].tag = s[k].tag
    BY <1>1
  <2>3. u[n + 1].tag # "Extern"
    BY <1>1
  <2> QED BY <2>1, <2>2, <2>3 DEF Owns
<1>4. /\ Owns(s) \in SUBSET (0..n) /\ m \in Nat
      /\ \A i \in Owns(s) : i \in DOMAIN s /\ i < n + 1
  BY <1>2, OwnFacts DEF n
<1>5. /\ Cardinality(Owns(u)) = m + 1 /\ Ascending(Owns(u))[m + 1] = n + 1
      /\ \A k \in 1..m : Ascending(Owns(u))[k] = Ascending(Owns(s))[k]
  <2> DEFINE own == Owns(s)
  <2>1. own \in SUBSET (0..n) /\ n + 1 \in Nat /\ \A i \in own : i < n + 1
    BY <1>2, <1>4
  <2> HIDE DEF own
  <2>2. /\ Cardinality(own \cup {n + 1}) = Cardinality(own) + 1
        /\ Ascending(own \cup {n + 1})[Cardinality(own) + 1] = n + 1
        /\ \A k \in 1..Cardinality(own) : Ascending(own \cup {n + 1})[k] = Ascending(own)[k]
    BY <1>2, <2>1, AscendingMore
  <2> QED BY <1>3, <2>2 DEF own
<1>6. Sources(u) = [k \in 1..(m + 1) |-> u[Ascending(Owns(u))[k]].src]
  BY <1>1, <1>5, OwnFacts
<1>7. /\ Sources(s) = [k \in 1..m |-> s[Ascending(Owns(s))[k]].src]
      /\ \A k \in 1..m : Ascending(Owns(s))[k] \in DOMAIN s
  BY <1>4, OwnFacts
<1> HIDE DEF m, j
<1>8. Cardinality(ids) = m
  <2>1. DOMAIN Sources(s) = 1..m
    BY <1>7
  <2>2. Cardinality(ids) \in Nat /\ DOMAIN Ascending(ids) = 1..Cardinality(ids)
    BY AscendingFacts
  <2>3. 1..m = 1..Cardinality(ids)
    BY <2>1, <2>2
  <2> QED BY <1>4, <2>2, <2>3
<1>9. /\ Cardinality(ids \cup {j}) = m + 1 /\ Ascending(ids \cup {j})[m + 1] = j
      /\ \A k \in 1..m : Ascending(ids \cup {j})[k] = Ascending(ids)[k]
  BY <1>8, AscendingMore DEF j
<1>10. \A k \in 1..m : Sources(u)[k] = Ascending(ids)[k]
  <2> SUFFICES ASSUME NEW k \in 1..m PROVE Sources(u)[k] = Ascending(ids)[k]
    OBVIOUS
  <2>1. k \in 1..(m + 1)
    BY <1>4
  <2>2. Sources(u)[k] = u[Ascending(Owns(s))[k]].src
    BY <1>5, <1>6, <2>1
  <2>3. Sources(s)[k] = s[Ascending(Owns(s))[k]].src
    BY <1>7
  <2> QED BY <1>1, <1>7, <2>2, <2>3
<1>11. Sources(u)[m + 1] = j
  <2>1. m + 1 \in 1..(m + 1)
    BY <1>4
  <2> QED BY <1>1, <1>5, <1>6, <2>1 DEF j
<1>12. Ascending(ids \cup {j}) = [k \in 1..(m + 1) |-> Ascending(ids \cup {j})[k]]
  BY <1>9, AscendingFunction
<1>13. Sources(u) = [k \in 1..(m + 1) |-> Sources(u)[k]]
  BY <1>6
<1>14. \A k \in 1..(m + 1) : Sources(u)[k] = Ascending(ids \cup {j})[k]
  <2>1. \A k \in 1..(m + 1) : k \in 1..m \/ k = m + 1
    BY <1>4
  <2> QED BY <1>9, <1>10, <1>11, <2>1
<1>15. Sources(u) = Ascending(ids \cup {j})
  BY <1>12, <1>13, <1>14
<1> QED BY <1>15 DEF u, j

LEMMA SourcesNone == Sources(<< >>) = Ascending({})
<1>1. IsSeq(<< >>) /\ DOMAIN << >> = {}
  <2>1. DOMAIN << >> = {}
    OBVIOUS
  <2> QED BY <2>1, OneSeq
<1>2. Owns(<< >>) = {} /\ Cardinality({}) = 0
  BY <1>1, FS_EmptySet DEF Owns
<1>3. Sources(<< >>) = [k \in 1..0 |-> << >>[Ascending({})[k]].src]
  BY <1>1, <1>2, OwnFacts
<1>4. Ascending({}) = [k \in 1..0 |-> Ascending({})[k]]
  BY <1>2, AscendingFunction
<1> QED BY <1>3, <1>4

-------------------------------------------------------------------------------
(* The invariant of source order                                           *)

(* What a loop has pushed ...                                              *)
OutWhole(t, f, s) == IsSeq(s.blocks) /\ StatementWhole(t, f.reg, s)

(* ... and what it is working on: the next statement of its scope that     *)
(* belongs in the output.                                                  *)
OpenWhole(t, f, s) ==
  /\ s.tag = t.table[f.reg].ids[s.src].tag
  /\ s.tag \in BlockTags => f.into = "stmts"
  /\ KeptIn(t, f.reg, f.into, s.src) = KeptIn(t, f.reg, f.into, f.i)
  /\ Len(s.blocks) <= Len(Bodies(t.table[f.reg].ids[s.src]))
  /\ BodiesWhole(t, f.reg, s)

LoopWhole(t, f) ==
  /\ f.into \in {"defs", "stmts"} /\ f.i \in Nat
  /\ Sources(f.out) = StatementsOf(t, f.reg, f.into, f.i)
  /\ \A k \in DOMAIN f.out : OutWhole(t, f, f.out[k])
  /\ \A k \in DOMAIN f.open : OpenWhole(t, f, f.open[k])

(* Loop g runs on the next body of what f is working on.                   *)
NextBody(t, f, g) ==
  /\ Len(f.open[1].blocks) < Len(Bodies(t.table[f.reg].ids[f.open[1].src]))
  /\ g.reg = Bodies(t.table[f.reg].ids[f.open[1].src])[Len(f.open[1].blocks) + 1]
  /\ g.into = "stmts"

LoopsWhole(t, ls) ==
  /\ \A d \in DOMAIN ls : LoopWhole(t, ls[d])
  /\ \A d \in DOMAIN ls : d < Len(ls) => NextBody(t, ls[d], ls[d + 1])

OrderInv == LowerInv /\ LoopsWhole(T, loops)

LEMMA IdsBelow ==
  ASSUME NEW t, Whole(t), NEW r \in ScopesOf(t)
  PROVE  /\ t.next \in Nat
         /\ \A j \in DOMAIN t.table[r].ids : j \in Nat /\ j < t.next
<1>1. t.next \in Nat /\ DOMAIN t.table[r].ids \subseteq 1..(t.next - 1)
  BY DEF Whole, Good, TablesType
<1> QED BY <1>1

LEMMA KeptBound ==
  ASSUME NEW t, Whole(t), NEW r \in ScopesOf(t), NEW into, NEW b
  PROVE  KeptIn(t, r, into, b) \in SUBSET (0..t.next) /\ t.next \in Nat
<1>1. \A j \in DOMAIN t.table[r].ids : j \in 0..t.next
  BY IdsBelow
<1> QED BY <1>1, IdsBelow DEF KeptIn

(* Names used again are not statements.                                    *)
LEMMA KeptSame ==
  ASSUME NEW t, Whole(t), NEW u, Uses(t, u), NEW r \in ScopesOf(t),
         NEW into \in {"defs", "stmts"}
  PROVE  /\ \A b : KeptIn(u, r, into, b) = KeptIn(t, r, into, b)
         /\ KeptIn(u, r, into, u.next) = KeptIn(t, r, into, t.next)
<1>1. "Identifier" \notin KeptTags(into)
  BY DEF KeptTags, TypeTags, ValueTags, BlockTags, PlainTags
<1> DEFINE before == t.table[r].ids
           after == u.table[r].ids
<1>2. /\ DOMAIN before \subseteq DOMAIN after
      /\ \A i \in DOMAIN before : after[i] = before[i]
      /\ \A i \in DOMAIN after \ DOMAIN before : after[i].tag = "Identifier"
  BY DEF Uses
<1>3. /\ \A j \in DOMAIN before : j < t.next
      /\ \A j \in DOMAIN after : j < u.next
  BY IdsBelow DEF Uses
<1> HIDE DEF before, after
<1>4. \A i : i \in DOMAIN after /\ after[i].tag \in KeptTags(into)
               <=> i \in DOMAIN before /\ before[i].tag \in KeptTags(into)
  BY <1>1, <1>2
<1>5. /\ \A b : KeptIn(t, r, into, b)
                  = {k \in DOMAIN before : k < b /\ before[k].tag \in KeptTags(into)}
      /\ \A b : KeptIn(u, r, into, b)
                  = {k \in DOMAIN after : k < b /\ after[k].tag \in KeptTags(into)}
  BY DEF KeptIn, before, after
<1>6. ASSUME NEW b PROVE KeptIn(u, r, into, b) = KeptIn(t, r, into, b)
  BY <1>4, <1>5
<1>7. KeptIn(u, r, into, u.next) = KeptIn(t, r, into, t.next)
  <2>1. \A i \in DOMAIN before : before[i].tag \in KeptTags(into) => i < u.next
    BY <1>2, <1>3
  <2> QED BY <1>3, <1>4, <1>5, <2>1
<1> QED BY <1>6, <1>7

LEMMA BodiesLength ==
  ASSUME NEW t, NEW j, NEW e, Backward(t, j, e)
  PROVE  Len(Bodies(e)) \in Nat
<1> DEFINE kids == e.kids
<1>1. kids \in Seq(ScopesOf(t)) /\ Len(kids) \in Nat
  BY DEF Backward
<1>2. CASE e.tag = "Match"
  <2>1. Bodies(e) = SubSeq(kids, 3, Len(kids)) /\ Len(kids) >= 2
    BY <1>2 DEF Bodies, Backward, Shape
  <2> HIDE DEF kids
  <2> QED BY <1>1, <2>1
<1>3. CASE e.tag # "Match"
  BY <1>3 DEF Bodies
<1> QED BY <1>2, <1>3

LEMMA NoBodies ==
  ASSUME NEW e, e.tag \notin BlockTags \cup {"Function"}
  PROVE  Bodies(e) = << >>
BY DEF Bodies, BlockTags

LEMMA BodiesKept ==
  ASSUME NEW t, Whole(t), NEW u, Uses(t, u), NEW r \in ScopesOf(t), NEW s,
         s.src \in DOMAIN t.table[r].ids, IsSeq(s.blocks),
         Len(s.blocks) <= Len(Bodies(t.table[r].ids[s.src])), BodiesWhole(t, r, s)
  PROVE  BodiesWhole(u, r, s)
<1> DEFINE e == t.table[r].ids[s.src]
           bodies == Bodies(e)
<1>1. u.table[r].ids[s.src] = e /\ Backward(t, s.src, e)
  BY DEF Uses, Whole, Formed
<1> HIDE DEF e
<1>2. Len(bodies) \in Nat /\ Len(s.blocks) <= Len(bodies)
  BY <1>1, BodiesLength DEF e
<1>3. \A b \in DOMAIN s.blocks :
        Sources(s.blocks[b]) = StatementsOf(t, bodies[b], "stmts", t.next)
  BY DEF BodiesWhole, e
<1>4. ASSUME NEW b \in DOMAIN s.blocks
      PROVE  Sources(s.blocks[b]) = StatementsOf(u, bodies[b], "stmts", u.next)
  <2>1. b \in 1..Len(s.blocks) /\ Len(s.blocks) \in Nat
    BY SeqFacts
  <2> DEFINE n == b - 1
  <2>2. n \in Nat /\ n < Len(bodies) /\ n + 1 = b
    BY <1>2, <2>1
  <2> HIDE DEF n
  <2>3. bodies[b] \in ScopesOf(t)
    BY <1>1, <2>2, BodiesExist
  <2> HIDE DEF bodies
  <2>4. KeptIn(u, bodies[b], "stmts", u.next) = KeptIn(t, bodies[b], "stmts", t.next)
    BY <2>3, KeptSame
  <2> QED BY <1>3, <2>4 DEF StatementsOf
<1> QED BY <1>1, <1>4 DEF BodiesWhole

LEMMA OutKept ==
  ASSUME NEW t, Whole(t), NEW u, Uses(t, u), NEW f, f.reg \in ScopesOf(t), NEW s,
         s.src \in DOMAIN t.table[f.reg].ids, OutWhole(t, f, s)
  PROVE  OutWhole(u, f, s)
<1>1. u.table[f.reg].ids[s.src] = t.table[f.reg].ids[s.src]
  BY DEF Uses
<1>2. /\ IsSeq(s.blocks) /\ Len(s.blocks) = Len(Bodies(t.table[f.reg].ids[s.src]))
      /\ BodiesWhole(t, f.reg, s)
  BY DEF OutWhole, StatementWhole
<1>3. Len(s.blocks) <= Len(Bodies(t.table[f.reg].ids[s.src]))
  BY <1>2, SeqFacts
<1>4. BodiesWhole(u, f.reg, s)
  BY <1>2, <1>3, BodiesKept
<1> QED BY <1>1, <1>2, <1>4 DEF OutWhole, StatementWhole

LEMMA OpenKept ==
  ASSUME NEW t, Whole(t), NEW u, Uses(t, u), NEW f, f.reg \in ScopesOf(t),
         f.into \in {"defs", "stmts"}, NEW s, OpenOK(t, f.reg, s), OpenWhole(t, f, s)
  PROVE  OpenWhole(u, f, s)
<1>1. /\ s.src \in DOMAIN t.table[f.reg].ids /\ IsSeq(s.blocks)
      /\ u.table[f.reg].ids[s.src] = t.table[f.reg].ids[s.src]
  BY DEF Uses, OpenOK
<1>2. BodiesWhole(u, f.reg, s)
  BY <1>1, BodiesKept DEF OpenWhole
<1>3. KeptIn(u, f.reg, f.into, s.src) = KeptIn(u, f.reg, f.into, f.i)
  BY KeptSame DEF OpenWhole
<1> QED BY <1>1, <1>2, <1>3 DEF OpenWhole

LEMMA LoopWholeKept ==
  ASSUME NEW t, Whole(t), NEW u, Uses(t, u), NEW f, LoopOK(t, f), LoopWhole(t, f)
  PROVE  LoopWhole(u, f)
<1>1. f.reg \in ScopesOf(t) /\ f.into \in {"defs", "stmts"}
  BY DEF LoopOK, LoopWhole
<1>2. Sources(f.out) = StatementsOf(u, f.reg, f.into, f.i)
  <2>1. KeptIn(u, f.reg, f.into, f.i) = KeptIn(t, f.reg, f.into, f.i)
    BY <1>1, KeptSame
  <2> QED BY <2>1 DEF LoopWhole, StatementsOf
<1>3. ASSUME NEW k \in DOMAIN f.out PROVE OutWhole(u, f, f.out[k])
  <2>1. OutWhole(t, f, f.out[k]) /\ f.out[k].src \in DOMAIN t.table[f.reg].ids
    BY DEF LoopWhole, LoopOK, PushedOK
  <2> QED BY <1>1, <2>1, OutKept
<1>4. ASSUME NEW k \in DOMAIN f.open PROVE OpenWhole(u, f, f.open[k])
  <2>1. OpenWhole(t, f, f.open[k]) /\ OpenOK(t, f.reg, f.open[k])
    BY DEF LoopWhole, LoopOK
  <2> QED BY <1>1, <2>1, OpenKept
<1> QED BY <1>2, <1>3, <1>4 DEF LoopWhole

LEMMA NextBodyKept ==
  ASSUME NEW t, NEW u, Uses(t, u), NEW f, LoopOK(t, f), f.open # << >>, NEW g,
         NextBody(t, f, g)
  PROVE  NextBody(u, f, g)
<1>1. 1 \in DOMAIN f.open
  BY SeqFacts DEF LoopOK
<1>2. u.table[f.reg].ids[f.open[1].src] = t.table[f.reg].ids[f.open[1].src]
  BY <1>1 DEF LoopOK, OpenOK, Uses
<1> QED BY <1>2 DEF NextBody

LEMMA NextKept ==
  ASSUME NEW t, Whole(t), NEW r \in ScopesOf(t), NEW into, NEW i, NEW j,
         j \in DOMAIN t.table[r].ids, KeptIn(t, r, into, j) = KeptIn(t, r, into, i)
  PROVE  /\ j \in Nat /\ \A k \in KeptIn(t, r, into, i) : k < j
         /\ t.table[r].ids[j].tag \in KeptTags(into) =>
              KeptIn(t, r, into, j + 1) = KeptIn(t, r, into, i) \cup {j}
         /\ t.table[r].ids[j].tag \notin KeptTags(into) =>
              KeptIn(t, r, into, j + 1) = KeptIn(t, r, into, i)
<1>1. \A k \in DOMAIN t.table[r].ids : k \in Nat
  BY IdsBelow
<1>2. \A k \in DOMAIN t.table[r].ids : k < j + 1 <=> k < j \/ k = j
  BY <1>1
<1>3. \A k \in KeptIn(t, r, into, i) : k < j
  BY DEF KeptIn
<1> QED BY <1>1, <1>2, <1>3 DEF KeptIn

LEMMA AtKept ==
  ASSUME LInv, loops # << >>, Running.i \in Nat, NEW j, NEW tags, At(j, tags), NEW into
  PROVE  KeptIn(T, Running.reg, into, j) = KeptIn(T, Running.reg, into, Running.i)
<1> DEFINE ids == T.table[Running.reg].ids
           i == Running.i
<1>1. /\ j \in DOMAIN ids /\ j >= i
      /\ \A k \in DOMAIN ids : k >= i => j <= k
  BY DEF At
<1>2. \A k \in DOMAIN ids : k \in Nat
  BY RunningFacts, IdsBelow
<1>3. KeptIn(T, Running.reg, into, j) = {k \in DOMAIN ids : k < j /\ ids[k].tag \in KeptTags(into)}
  BY DEF KeptIn
<1>4. KeptIn(T, Running.reg, into, i) = {k \in DOMAIN ids : k < i /\ ids[k].tag \in KeptTags(into)}
  BY DEF KeptIn
<1> HIDE DEF ids, i
<1>5. i \in Nat
  BY DEF i
<1>6. \A k \in DOMAIN ids : k < j <=> k < i
  BY <1>1, <1>2, <1>5
<1>7. KeptIn(T, Running.reg, into, j) = KeptIn(T, Running.reg, into, i)
  BY <1>3, <1>4, <1>6
<1> QED BY <1>7 DEF i

LEMMA RunningWhole ==
  ASSUME LInv, LoopsWhole(T, loops), loops # << >>
  PROVE  LoopWhole(T, Running) /\ Running.into \in {"defs", "stmts"} /\ Running.i \in Nat
<1>1. LoopWhole(T, Running)
  BY RunningFacts DEF LoopsWhole, Running
<1> QED BY <1>1 DEF LoopWhole

LEMMA SetLoopWhole ==
  ASSUME LInv, LoopsWhole(T, loops), loops # << >>, Uses(T, T'), NEW f,
         f.reg = Running.reg, f.into = Running.into, LoopWhole(T', f), SetLoop(f)
  PROVE  LoopsWhole(T', loops')
<1> DEFINE n == Len(loops)
<1>1. /\ n \in DOMAIN loops /\ IsSeq(loops) /\ Whole(T) /\ n \in Nat /\ DOMAIN loops = 1..n
      /\ \A d \in DOMAIN loops : LoopOK(T, loops[d])
      /\ \A d \in DOMAIN loops : d < n => loops[d].open # << >>
  BY RunningFacts, SeqFacts DEF LInv, LoopsOK
<1>2. loops' = Replaced(loops, n, f) /\ loops[n] = Running
  BY DEF SetLoop, Replaced, Running
<1>3. /\ \A d \in DOMAIN loops : LoopWhole(T, loops[d])
      /\ \A d \in DOMAIN loops : d < n => NextBody(T, loops[d], loops[d + 1])
  BY DEF LoopsWhole
<1>8. Len(loops) = n
  OBVIOUS
<1> HIDE DEF n
<1>9. /\ Len(loops') = Len(loops) /\ DOMAIN loops' = DOMAIN loops
      /\ \A k \in DOMAIN loops : loops'[k] = IF k = n THEN f ELSE loops[k]
  <2>1. IsSeq(loops) /\ n \in DOMAIN loops /\ loops' = Replaced(loops, n, f)
    BY <1>1, <1>2
  <2> QED BY <2>1, ReplacedSeq
<1>4. Len(loops') = n /\ DOMAIN loops' = DOMAIN loops
  BY <1>8, <1>9
<1>5. \A k \in DOMAIN loops : loops'[k] = IF k = n THEN f ELSE loops[k]
  BY <1>9
<1>6. ASSUME NEW d \in DOMAIN loops PROVE LoopWhole(T', loops'[d])
  <2>1. CASE d = n
    BY <1>5, <2>1
  <2>2. CASE d # n
    <3>1. loops'[d] = loops[d] /\ LoopOK(T, loops[d]) /\ LoopWhole(T, loops[d])
      BY <1>1, <1>3, <1>5, <2>2
    <3>2. LoopWhole(T', loops[d])
      BY <1>1, <3>1, LoopWholeKept
    <3> QED BY <3>1, <3>2
  <2> QED BY <2>1, <2>2
<1>7. ASSUME NEW d \in DOMAIN loops, d < n PROVE NextBody(T', loops'[d], loops'[d + 1])
  <2>1. d # n /\ d + 1 \in DOMAIN loops
    BY <1>1, <1>7
  <2>2. loops'[d] = loops[d]
    BY <1>5, <2>1
  <2>3. NextBody(T', loops[d], loops[d + 1])
    BY <1>1, <1>3, <1>7, NextBodyKept
  <2>4. loops'[d + 1].reg = loops[d + 1].reg /\ loops'[d + 1].into = loops[d + 1].into
    BY <1>2, <1>5, <2>1
  <2> QED BY <2>2, <2>3, <2>4 DEF NextBody
<1> QED BY <1>4, <1>6, <1>7 DEF LoopsWhole

(* The running loop has passed entry j.                                    *)
LEMMA AdvancedWhole ==
  ASSUME LInv, LoopsWhole(T, loops), loops # << >>, Uses(T, T'), NEW j, j \in Nat, NEW g,
         g.reg = Running.reg, g.into = Running.into, g.i = j + 1, g.open = << >>,
         Sources(g.out) = Ascending(KeptIn(T, Running.reg, Running.into, j + 1)),
         \A k \in DOMAIN g.out : OutWhole(T', Running, g.out[k]),
         SetLoop(g)
  PROVE  LoopsWhole(T', loops')
<1>1. Running.into \in {"defs", "stmts"} /\ Running.reg \in ScopesOf(T) /\ Whole(T)
  BY RunningWhole, RunningFacts
<1>2. KeptIn(T', Running.reg, Running.into, j + 1) = KeptIn(T, Running.reg, Running.into, j + 1)
  BY <1>1, KeptSame
<1>3. Sources(g.out) = StatementsOf(T', g.reg, g.into, g.i)
  BY <1>2 DEF StatementsOf
<1>4. \A k \in DOMAIN g.out : OutWhole(T', g, g.out[k])
  BY DEF OutWhole
<1>5. DOMAIN << >> = {}
  OBVIOUS
<1>6. g.i \in Nat
  OBVIOUS
<1>7. LoopWhole(T', g)
  BY <1>1, <1>3, <1>4, <1>5, <1>6 DEF LoopWhole
<1> QED BY <1>7, SetLoopWhole

(* What it has pushed before stays whole.                                  *)
LEMMA RunningOut ==
  ASSUME LInv, LoopsWhole(T, loops), loops # << >>, Uses(T, T')
  PROVE  /\ IsSeq(Running.out)
         /\ \A k \in DOMAIN Running.out : OutWhole(T', Running, Running.out[k])
         /\ Sources(Running.out) = Ascending(KeptIn(T, Running.reg, Running.into, Running.i))
<1>1. /\ LoopOK(T, Running) /\ LoopWhole(T, Running) /\ Whole(T)
      /\ Running.reg \in ScopesOf(T)
  BY RunningFacts, RunningWhole
<1>2. ASSUME NEW k \in DOMAIN Running.out PROVE OutWhole(T', Running, Running.out[k])
  <2>1. /\ OutWhole(T, Running, Running.out[k])
        /\ Running.out[k].src \in DOMAIN T.table[Running.reg].ids
    BY <1>1 DEF LoopWhole, LoopOK, PushedOK
  <2> QED BY <1>1, <2>1, OutKept
<1> QED BY <1>1, <1>2 DEF LoopOK, LoopWhole, StatementsOf

PushedOn(f, i, irs) == [f EXCEPT !.i = i, !.out = @ \o irs]

LEMMA PushFields ==
  ASSUME NEW t, NEW f, LoopOK(t, f), NEW i, NEW irs
  PROVE  /\ PushedOn(f, i, irs).reg = f.reg /\ PushedOn(f, i, irs).into = f.into
         /\ PushedOn(f, i, irs).i = i /\ PushedOn(f, i, irs).out = f.out \o irs
         /\ PushedOn(f, i, irs).open = f.open
<1> DEFINE g == PushedOn(f, i, irs)
<1>1. PICK reg, into, at, out, open :
        f = [reg |-> reg, into |-> into, i |-> at, out |-> out, open |-> open]
  BY DEF LoopOK
<1> DEFINE x == f.out \o irs
<1>2. g = [reg |-> reg, into |-> into, i |-> i, out |-> x, open |-> open]
  <2>1. g = [f EXCEPT !.i = i, !.out = x]
    BY <1>1 DEF PushedOn
  <2> HIDE DEF x, g
  <2> QED BY <1>1, <2>1
<1> QED BY <1>1, <1>2

(* Entry j is pushed as irs.                                               *)
LEMMA PushIRWhole ==
  ASSUME LInv, LoopsWhole(T, loops), Loops, Uses(T, T'), NEW j, j \in Nat, NEW irs, IsSeq(irs),
         Sources(Running.out \o irs) = Ascending(KeptIn(T, Running.reg, Running.into, j + 1)),
         \A k \in DOMAIN irs : OutWhole(T', Running, irs[k]),
         PushIR(j, irs)
  PROVE  LoopsWhole(T', loops')
<1> DEFINE g == [Running EXCEPT !.i = j + 1, !.out = @ \o irs]
<1>1. loops # << >> /\ Running.open = << >> /\ SetLoop(g)
  BY DEF Loops, PushIR
<1>2. LoopOK(T, Running)
  BY <1>1, RunningFacts
<1>3. /\ g.reg = Running.reg /\ g.into = Running.into /\ g.i = j + 1
      /\ g.out = Running.out \o irs /\ g.open = << >>
  <2> DEFINE i == j + 1
  <2>1. g = PushedOn(Running, i, irs)
    BY DEF PushedOn
  <2> HIDE DEF g, i
  <2>2. /\ g.reg = Running.reg /\ g.into = Running.into /\ g.i = i
        /\ g.out = Running.out \o irs /\ g.open = Running.open
    BY <1>2, <2>1, PushFields
  <2> QED BY <1>1, <2>2 DEF i
<1> HIDE DEF g
<1>4. \A k \in DOMAIN g.out : OutWhole(T', Running, g.out[k])
  <2>1. IsSeq(Running.out) /\ \A k \in DOMAIN Running.out : OutWhole(T', Running, Running.out[k])
    BY <1>1, RunningOut
  <2> QED BY <1>3, <2>1, ConcatSeq
<1> QED BY <1>1, <1>3, <1>4, AdvancedWhole

(* A statement without bodies.                                             *)
LEMMA BareWhole ==
  ASSUME LInv, loops # << >>, Uses(T, T'), NEW j, j \in DOMAIN T.table[Running.reg].ids,
         T.table[Running.reg].ids[j].tag \notin BlockTags \cup {"Function"},
         NEW s, s.src = j, s.blocks = << >>
  PROVE  OutWhole(T', Running, s)
<1>1. T'.table[Running.reg].ids[j] = T.table[Running.reg].ids[j]
  BY RunningFacts DEF Uses
<1>2. Bodies(T'.table[Running.reg].ids[s.src]) = << >>
  BY <1>1, NoBodies
<1>3. DOMAIN << >> = {}
  OBVIOUS
<1>4. BodiesWhole(T', Running.reg, s)
  BY <1>3 DEF BodiesWhole
<1> QED BY <1>2, <1>4, OneSeq DEF OutWhole, StatementWhole

(* It is one that the output keeps ...                                     *)
LEMMA PushOneWhole ==
  ASSUME LInv, LoopsWhole(T, loops), Loops, Uses(T, T'), NEW j, NEW tags, At(j, tags),
         tags \subseteq KeptTags(Running.into),
         tags \cap (BlockTags \cup {"Function"}) = {},
         NEW s, s.src = j, s.tag # "Extern", s.blocks = << >>, PushIR(j, <<s>>)
  PROVE  LoopsWhole(T', loops')
<1> DEFINE r == Running.reg
           into == Running.into
           kept == KeptIn(T, r, into, Running.i)
<1>1. loops # << >>
  BY DEF Loops
<1>2. /\ Whole(T) /\ r \in ScopesOf(T) /\ j \in DOMAIN T.table[r].ids /\ T.table[r].ids[j].tag \in tags
      /\ Running.i \in Nat
  BY <1>1, RunningFacts, RunningWhole, AtFacts
<1>3. /\ j \in Nat /\ (\A k \in kept : k < j) /\ KeptIn(T, r, into, j + 1) = kept \cup {j}
  <2>1. KeptIn(T, r, into, j) = kept
    BY <1>1, <1>2, AtKept
  <2>2. T.table[r].ids[j].tag \in KeptTags(into)
    BY <1>2
  <2> HIDE DEF r, into
  <2> QED BY <1>2, <2>1, <2>2, NextKept
<1>4. kept \in SUBSET (0..T.next) /\ T.next \in Nat
  BY <1>2, KeptBound
<1>5. IsSeq(Running.out) /\ Sources(Running.out) = Ascending(kept)
  BY <1>1, RunningOut
<1>6. OutWhole(T', Running, s)
  BY <1>1, <1>2, BareWhole
<1> HIDE DEF kept, r, into
<1>7. Sources(Running.out \o <<s>>) = Ascending(KeptIn(T, r, into, j + 1))
  <2> DEFINE out == Running.out
  <2>1. IsSeq(out) /\ Sources(out) = Ascending(kept) /\ s.src \in Nat /\ \A k \in kept : k < s.src
    BY <1>3, <1>5
  <2> HIDE DEF out
  <2>2. Sources(Append(out, s)) = Ascending(kept \cup {s.src})
    BY <1>4, <2>1, SourcesMore
  <2>3. out \o <<s>> = Append(out, s)
    BY <2>1, ConcatOne
  <2> QED BY <1>3, <2>2, <2>3 DEF out
<1>8. \A k \in DOMAIN <<s>> : OutWhole(T', Running, <<s>>[k])
  BY <1>6, OneSeq
<1> DEFINE irs == <<s>>
<1>9. IsSeq(irs) /\ PushIR(j, irs)
  BY OneSeq
<1> HIDE DEF irs
<1> QED BY <1>3, <1>7, <1>8, <1>9, PushIRWhole DEF irs, r, into

(* ... or one that it does not: nothing but extern functions is pushed.    *)
LEMMA PushNoneWhole ==
  ASSUME LInv, LoopsWhole(T, loops), Loops, Uses(T, T'), NEW j, NEW tags, At(j, tags),
         tags \cap KeptTags(Running.into) = {},
         NEW irs, IsSeq(irs), \A k \in DOMAIN irs : irs[k].tag = "Extern",
         \A k \in DOMAIN irs : OutWhole(T', Running, irs[k]),
         PushIR(j, irs)
  PROVE  LoopsWhole(T', loops')
<1> DEFINE r == Running.reg
           into == Running.into
           kept == KeptIn(T, r, into, Running.i)
<1>1. loops # << >>
  BY DEF Loops
<1>2. /\ Whole(T) /\ r \in ScopesOf(T) /\ j \in DOMAIN T.table[r].ids /\ T.table[r].ids[j].tag \in tags
      /\ Running.i \in Nat
  BY <1>1, RunningFacts, RunningWhole, AtFacts
<1>3. j \in Nat /\ KeptIn(T, r, into, j + 1) = kept
  <2>1. KeptIn(T, r, into, j) = kept
    BY <1>1, <1>2, AtKept
  <2> QED BY <1>2, <2>1, NextKept
<1>4. IsSeq(Running.out) /\ Sources(Running.out) = Ascending(kept)
  BY <1>1, RunningOut
<1> HIDE DEF kept
<1>5. Sources(Running.out \o irs) = Ascending(KeptIn(T, r, into, j + 1))
  BY <1>3, <1>4, SourcesSame
<1> QED BY <1>3, <1>5, PushIRWhole

LEMMA SkipEntryWhole ==
  ASSUME LInv, LoopsWhole(T, loops), NEW j, SkipEntry(j)
  PROVE  LoopsWhole(T', loops')
<1> DEFINE f == [Running EXCEPT !.i = j + 1]
           r == Running.reg
           into == Running.into
<1>1. Loops /\ loops # << >> /\ UNCHANGED T /\ SetLoop(f)
  BY DEF SkipEntry, Loops
<1>2. /\ LoopOK(T, Running) /\ Uses(T, T') /\ Running.open = << >>
      /\ Running.i \in Nat /\ into \in {"defs", "stmts"}
  BY <1>1, RunningFacts, SameTables, RunningWhole DEF Loops
<1>3. PICK tags : At(j, tags) /\ tags \cap KeptTags(into) = {}
  <2>1. CASE At(j, ExprTags \cup {"Param", "ExternFunc", "Module"})
    <3>1. (ExprTags \cup {"Param", "ExternFunc", "Module"}) \cap KeptTags(into) = {}
      BY DEF KeptTags, ExprTags, TypeTags, ValueTags, BlockTags, PlainTags
    <3> QED BY <2>1, <3>1
  <2>2. CASE into = "defs" /\ At(j, BlockTags \cup PlainTags)
    <3>1. (BlockTags \cup PlainTags) \cap KeptTags("defs") = {}
      BY DEF KeptTags, TypeTags, ValueTags, BlockTags, PlainTags
    <3> QED BY <2>2, <3>1
  <2> QED BY <2>1, <2>2 DEF SkipEntry
<1>4. /\ Whole(T) /\ r \in ScopesOf(T) /\ j \in DOMAIN T.table[r].ids
      /\ T.table[r].ids[j].tag \notin KeptTags(into)
  BY <1>1, <1>3, RunningFacts, AtFacts
<1>5. j \in Nat /\ KeptIn(T, r, into, j + 1) = KeptIn(T, r, into, Running.i)
  <2>1. KeptIn(T, r, into, j) = KeptIn(T, r, into, Running.i)
    BY <1>1, <1>2, <1>3, AtKept
  <2> HIDE DEF r, into
  <2> QED BY <1>4, <2>1, NextKept
<1>6. /\ f.reg = r /\ f.into = into /\ f.i = j + 1 /\ f.out = Running.out /\ f.open = << >>
  <2>1. PICK reg, stmts, at, out, open :
          Running = [reg |-> reg, into |-> stmts, i |-> at, out |-> out, open |-> open]
    BY <1>2 DEF LoopOK
  <2>2. f = [reg |-> reg, into |-> stmts, i |-> j + 1, out |-> out, open |-> open]
    BY <2>1
  <2> QED BY <1>2, <2>1, <2>2
<1> HIDE DEF f
<1>7. /\ Sources(f.out) = Ascending(KeptIn(T, r, into, j + 1))
      /\ \A k \in DOMAIN f.out : OutWhole(T', Running, f.out[k])
  BY <1>1, <1>2, <1>5, <1>6, RunningOut
<1> QED BY <1>1, <1>2, <1>5, <1>6, <1>7, AdvancedWhole

LEMMA LowerVarWhole ==
  ASSUME LInv, LoopsWhole(T, loops), NEW j, LowerVar(j)
  PROVE  LoopsWhole(T', loops')
<1>1. Loops /\ At(j, {"Var"}) /\ loops # << >> /\ Uses(T, T')
  BY LowerVarOK DEF LowerVar, Loops, LowerOK
<1>2. PICK name, eid, exprs : PushIR(j, <<IRStmt("VarDecl", j, name, eid, exprs, << >>)>>)
  BY DEF LowerVar
<1> DEFINE s == IRStmt("VarDecl", j, name, eid, exprs, << >>)
<1>3. s.src = j /\ s.tag # "Extern" /\ s.blocks = << >> /\ PushIR(j, <<s>>)
  BY <1>2, IRStmtFields
<1> HIDE DEF s
<1>4. {"Var"} \subseteq KeptTags(Running.into) /\ {"Var"} \cap (BlockTags \cup {"Function"}) = {}
  BY DEF KeptTags, ValueTags, BlockTags
<1> QED BY <1>1, <1>3, <1>4, PushOneWhole

LEMMA LowerLetWhole ==
  ASSUME LInv, LoopsWhole(T, loops), NEW j, LowerLet(j)
  PROVE  LoopsWhole(T', loops')
<1>1. Loops /\ At(j, {"Let", "Const"}) /\ loops # << >> /\ Uses(T, T')
  BY LowerLetOK DEF LowerLet, Loops, LowerOK
<1>2. PICK tag, name, exprs :
        /\ tag \in {"LetDecl", "ConstDecl"}
        /\ PushIR(j, <<IRStmt(tag, j, name, j, exprs, << >>)>>)
  <2> DEFINE e == Source(j)
             v == ByPointer(T, Lowered(T), j, Running.reg)
             tag == IF e.tag = "Let" THEN "LetDecl" ELSE "ConstDecl"
  <2>1. PushIR(j, <<IRStmt(tag, j, e.name, j, <<v.ir>>, << >>)>>)
    BY DEF LowerLet
  <2>2. tag \in {"LetDecl", "ConstDecl"}
    OBVIOUS
  <2> HIDE DEF tag, v, e
  <2> QED BY <2>1, <2>2
<1> DEFINE s == IRStmt(tag, j, name, j, exprs, << >>)
<1>3. s.src = j /\ s.tag # "Extern" /\ s.blocks = << >> /\ PushIR(j, <<s>>)
  BY <1>2, IRStmtFields
<1> HIDE DEF s
<1>4. /\ {"Let", "Const"} \subseteq KeptTags(Running.into)
      /\ {"Let", "Const"} \cap (BlockTags \cup {"Function"}) = {}
  BY DEF KeptTags, ValueTags, BlockTags
<1> QED BY <1>1, <1>3, <1>4, PushOneWhole

LEMMA LowerTypeWhole ==
  ASSUME LInv, LoopsWhole(T, loops), NEW j, LowerType(j)
  PROVE  LoopsWhole(T', loops')
<1> DEFINE s == IRStmt(Source(j).tag, j, Source(j).name, j, << >>, << >>)
<1>1. /\ Loops /\ At(j, TypeTags) /\ loops # << >> /\ Uses(T, T') /\ PushDef(j, <<s>>)
  BY LowerTypeOK DEF LowerType, Loops, LowerOK
<1>2. Source(j).tag \in TypeTags /\ Running.into \in {"defs", "stmts"}
  BY <1>1, AtFacts, RunningWhole
<1>3. s.src = j /\ s.tag # "Extern" /\ s.blocks = << >>
  BY <1>2, IRStmtFields DEF TypeTags
<1> HIDE DEF s
<1>4. CASE Running.into = "defs"
  <2>1. TypeTags \subseteq KeptTags(Running.into) /\ TypeTags \cap (BlockTags \cup {"Function"}) = {}
    BY <1>4 DEF KeptTags, TypeTags, BlockTags
  <2> QED BY <1>1, <1>3, <1>4, <2>1, PushOneWhole DEF PushDef
<1>5. CASE Running.into = "stmts"
  <2>1. TypeTags \cap KeptTags(Running.into) = {}
    BY <1>5 DEF KeptTags, TypeTags, ValueTags, BlockTags, PlainTags
  <2>2. PushIR(j, << >>)
    BY <1>1, <1>5 DEF PushDef
  <2>3. DOMAIN << >> = {}
    OBVIOUS
  <2> DEFINE irs == << >>
  <2>4. IsSeq(irs) /\ PushIR(j, irs) /\ DOMAIN irs = {}
    BY <2>2, <2>3, OneSeq
  <2> HIDE DEF irs
  <2> QED BY <1>1, <2>1, <2>4, PushNoneWhole
<1> QED BY <1>2, <1>4, <1>5

LEMMA LowerExternWhole ==
  ASSUME LInv, LoopsWhole(T, loops), NEW j, LowerExtern(j)
  PROVE  LoopsWhole(T', loops')
<1> DEFINE c == Source(j).kids[1]
           funcs == Declared(c, "ExternFunc")
           ir(k) == IRStmt("Extern", j, funcs[k].name, funcs[k].eid, << >>, << >>)
           irs == [k \in DOMAIN funcs |-> ir(k)]
           none == << >>
<1>1. Loops /\ loops # << >> /\ At(j, {"Extern"}) /\ Uses(T, T') /\ PushDef(j, irs)
  BY LowerExternOK DEF LowerExtern, Loops, LowerOK
<1>2. /\ Whole(T) /\ j \in DOMAIN T.table[Running.reg].ids
      /\ T.table[Running.reg].ids[j].tag = "Extern"
      /\ Backward(T, j, Source(j)) /\ Source(j).tag = "Extern"
  BY <1>1, RunningFacts, AtFacts
<1>3. c \in ScopesOf(T)
  BY <1>2 DEF Backward, Shape, Nesting
<1> HIDE DEF c
<1>4. PICK n \in Nat : DOMAIN funcs = 1..n
  BY <1>2, <1>3, DeclaredLength
<1>5. \A k \in DOMAIN funcs : ir(k).src = j /\ ir(k).tag = "Extern" /\ ir(k).blocks = << >>
  BY IRStmtFields
<1> HIDE DEF funcs, ir
<1>6. IsSeq(irs)
  <2>1. irs \in Seq({ir(k) : k \in 1..n})
    BY <1>4
  <2> HIDE DEF irs
  <2> QED BY <2>1, SeqIsSeq
<1>7. "Extern" \notin BlockTags \cup {"Function"}
  BY DEF BlockTags
<1>8. ASSUME NEW k \in DOMAIN irs PROVE irs[k].tag = "Extern" /\ OutWhole(T', Running, irs[k])
  <2>1. irs[k] = ir(k) /\ k \in DOMAIN funcs
    OBVIOUS
  <2> DEFINE s == irs[k]
  <2>2. s.src = j /\ s.tag = "Extern" /\ s.blocks = << >>
    BY <1>5, <2>1
  <2> HIDE DEF irs, s
  <2>3. OutWhole(T', Running, s)
    BY <1>1, <1>2, <1>7, <2>2, BareWhole
  <2> QED BY <2>2, <2>3 DEF s
<1>9. DOMAIN none = {} /\ IsSeq(none) /\ (PushIR(j, irs) \/ PushIR(j, none))
  <2>1. DOMAIN << >> = {}
    OBVIOUS
  <2> HIDE DEF irs
  <2> QED BY <1>1, <2>1, OneSeq DEF PushDef
<1>10. {"Extern"} \cap KeptTags(Running.into) = {}
  BY DEF KeptTags, TypeTags, ValueTags, BlockTags, PlainTags
<1> HIDE DEF irs, none
<1> QED BY <1>1, <1>6, <1>8, <1>9, <1>10, PushNoneWhole

LEMMA PlainWhole ==
  ASSUME LInv, LoopsWhole(T, loops), NEW j,
         LowerReturn(j) \/ LowerExprStmt(j) \/ LowerAssign(j) \/ LowerAtomic(j)
  PROVE  LoopsWhole(T', loops')
<1>1. PICK tag \in PlainTags : InBody(j, tag)
  BY DEF LowerReturn, LowerExprStmt, LowerAssign, LowerAtomic, PlainTags
<1>2. /\ Loops /\ loops # << >> /\ Running.into = "stmts" /\ At(j, {tag}) /\ Uses(T, T')
  BY <1>1, PlainOK DEF InBody, Loops, LowerOK
<1>3. PICK out \in {"Return", "Expr", "Assign", "AtomicOp"} : \E results : PushWith(j, out, results)
  BY DEF LowerReturn, LowerExprStmt, LowerAssign, LowerAtomic
<1>4. PICK results : PushWith(j, out, results)
  BY <1>3
<1> DEFINE s == IRStmt(out, j, NoName, 0, [k \in DOMAIN results |-> results[k].ir], << >>)
<1>5. s.src = j /\ s.tag # "Extern" /\ s.blocks = << >> /\ PushIR(j, <<s>>)
  BY <1>4, IRStmtFields DEF PushWith
<1> HIDE DEF s
<1>6. {tag} \subseteq KeptTags(Running.into) /\ {tag} \cap (BlockTags \cup {"Function"}) = {}
  BY <1>2 DEF KeptTags, PlainTags, BlockTags
<1> QED BY <1>2, <1>5, <1>6, PushOneWhole

(* A statement with bodies is begun, and none of them has been lowered.     *)
LEMMA OpenFields ==
  ASSUME NEW t, NEW f, LoopOK(t, f), NEW open
  PROVE  /\ [f EXCEPT !.open = open].reg = f.reg /\ [f EXCEPT !.open = open].into = f.into
         /\ [f EXCEPT !.open = open].i = f.i /\ [f EXCEPT !.open = open].out = f.out
         /\ [f EXCEPT !.open = open].open = open
<1>1. PICK reg, into, at, out, old :
        f = [reg |-> reg, into |-> into, i |-> at, out |-> out, open |-> old]
  BY DEF LoopOK
<1> QED BY <1>1

LEMMA OpenStmtWhole ==
  ASSUME LInv, LoopsWhole(T, loops), Loops, Uses(T, T'), NEW j, NEW tags, At(j, tags),
         NEW s, s.src = j, s.blocks = << >>, s.tag = Source(j).tag,
         s.tag \in BlockTags => Running.into = "stmts",
         SetLoop([Running EXCEPT !.open = <<s>>])
  PROVE  LoopsWhole(T', loops')
<1> DEFINE g == [Running EXCEPT !.open = <<s>>]
           r == Running.reg
           into == Running.into
<1>1. loops # << >> /\ SetLoop(g)
  BY DEF Loops
<1>2. /\ LoopOK(T, Running) /\ LoopWhole(T, Running) /\ Running.i \in Nat
      /\ into \in {"defs", "stmts"} /\ Whole(T) /\ r \in ScopesOf(T)
  BY <1>1, RunningFacts, RunningWhole
<1>3. g.reg = r /\ g.into = into /\ g.i = Running.i /\ g.out = Running.out /\ g.open = <<s>>
  <2> DEFINE open == <<s>>
  <2> HIDE DEF open
  <2>1. /\ [Running EXCEPT !.open = open].reg = r /\ [Running EXCEPT !.open = open].into = into
        /\ [Running EXCEPT !.open = open].i = Running.i
        /\ [Running EXCEPT !.open = open].out = Running.out
        /\ [Running EXCEPT !.open = open].open = open
    BY <1>2, OpenFields
  <2> QED BY <2>1 DEF open
<1> HIDE DEF g
<1>4. /\ j \in DOMAIN T.table[r].ids /\ s.tag = T.table[r].ids[j].tag
      /\ T'.table[r].ids[j] = T.table[r].ids[j] /\ Backward(T, j, T.table[r].ids[j])
  <2>1. j \in DOMAIN T.table[r].ids /\ s.tag = T.table[r].ids[j].tag
        /\ Backward(T, j, T.table[r].ids[j])
    BY <1>1, AtFacts
  <2> QED BY <1>2, <2>1 DEF Uses
<1>5. KeptIn(T', r, into, j) = KeptIn(T', r, into, Running.i)
  <2>1. KeptIn(T, r, into, j) = KeptIn(T, r, into, Running.i)
    BY <1>1, <1>2, AtKept
  <2> QED BY <1>2, <2>1, KeptSame
<1>6. OpenWhole(T', g, s)
  <2>1. Len(s.blocks) <= Len(Bodies(T'.table[r].ids[j]))
    <3>1. Len(Bodies(T'.table[r].ids[j])) \in Nat
      BY <1>4, BodiesLength
    <3>2. Len(s.blocks) = 0
      OBVIOUS
    <3> QED BY <3>1, <3>2
  <2>2. DOMAIN << >> = {}
    OBVIOUS
  <2>3. BodiesWhole(T', r, s)
    BY <2>2 DEF BodiesWhole
  <2> QED BY <1>3, <1>4, <1>5, <2>1, <2>3 DEF OpenWhole
<1>7. LoopWhole(T', Running)
  BY <1>2, LoopWholeKept
<1>8. \A k \in DOMAIN g.open : OpenWhole(T', g, g.open[k])
  BY <1>3, <1>6, OneSeq
<1>9. LoopWhole(T', g)
  <2>1. \A k \in DOMAIN g.out : OutWhole(T', g, g.out[k])
    BY <1>3, <1>7 DEF LoopWhole, OutWhole
  <2> QED BY <1>3, <1>7, <1>8, <2>1 DEF LoopWhole
<1> QED BY <1>1, <1>3, <1>9, SetLoopWhole

LEMMA OpenFunctionWhole ==
  ASSUME LInv, LoopsWhole(T, loops), NEW j, OpenFunction(j)
  PROVE  LoopsWhole(T', loops')
<1> DEFINE ps == Declared(Source(j).kids[1], "Param")
           s == [IRStmt("Function", j, Source(j).name, j, << >>, << >>) EXCEPT !.params = ps]
<1>1. /\ Loops /\ loops # << >> /\ At(j, {"Function"}) /\ Uses(T, T')
      /\ SetLoop([Running EXCEPT !.open = <<s>>])
  BY OpenFunctionOK DEF OpenFunction, Loops, LowerOK
<1>2. s = [tag |-> "Function", src |-> j, name |-> Source(j).name, eid |-> j,
           exprs |-> << >>, blocks |-> << >>, params |-> ps]
  BY DEF IRStmt
<1>3. s.tag = "Function" /\ s.src = j /\ s.blocks = << >>
  BY <1>2
<1> HIDE DEF s
<1>4. Source(j).tag = "Function" /\ "Function" \notin BlockTags
  BY <1>1, AtFacts DEF BlockTags
<1> QED BY <1>1, <1>3, <1>4, OpenStmtWhole

LEMMA OpenBlocksWhole ==
  ASSUME LInv, LoopsWhole(T, loops), NEW j, OpenBlocks(j)
  PROVE  LoopsWhole(T', loops')
<1> DEFINE e == Source(j)
           v == Operand(e.kids[1], e.ops[1], ZeroIR)
           s == IRStmt(e.tag, j, NoName, 0, <<v.ir>>, << >>)
<1>1. PICK tag \in BlockTags : InBody(j, tag)
  BY DEF OpenBlocks
<1>2. /\ Loops /\ loops # << >> /\ At(j, {tag}) /\ Running.into = "stmts" /\ Uses(T, T')
      /\ SetLoop([Running EXCEPT !.open = <<s>>])
  BY <1>1, OpenBlocksOK DEF OpenBlocks, InBody, Loops, LowerOK
<1>3. s.tag = Source(j).tag /\ s.src = j /\ s.blocks = << >>
  BY IRStmtFields
<1> HIDE DEF s
<1> QED BY <1>2, <1>3, OpenStmtWhole

(* A loop that has not begun.                                              *)
LEMMA FreshWhole ==
  ASSUME NEW t, Whole(t), NEW r \in ScopesOf(t), NEW into \in {"defs", "stmts"}
  PROVE  LoopWhole(t, Loop(r, into))
<1> DEFINE f == Loop(r, into)
<1>1. f.reg = r /\ f.into = into /\ f.i = 0 /\ f.out = << >> /\ f.open = << >>
  BY DEF Loop
<1> HIDE DEF f
<1>2. KeptIn(t, r, into, 0) = {}
  <2>1. \A k \in DOMAIN t.table[r].ids : k \in Nat /\ ~(k < 0)
    BY IdsBelow
  <2> QED BY <2>1 DEF KeptIn
<1>3. Sources(f.out) = StatementsOf(t, r, into, f.i)
  BY <1>1, <1>2, SourcesNone DEF StatementsOf
<1>4. DOMAIN << >> = {}
  OBVIOUS
<1>5. LoopWhole(t, f)
  BY <1>1, <1>3, <1>4 DEF LoopWhole
<1> QED BY <1>5 DEF f

LEMMA EnterBodyWhole ==
  ASSUME LInv, LoopsWhole(T, loops), EnterBody
  PROVE  LoopsWhole(T', loops')
<1> DEFINE s == Running.open[1]
           bodies == Bodies(Source(s.src))
           reg == bodies[Len(s.blocks) + 1]
           f == Loop(reg, "stmts")
           n == Len(loops)
<1>1. /\ Opened /\ UNCHANGED T /\ Len(s.blocks) < Len(bodies)
      /\ loops' = Append(loops, f)
  BY DEF EnterBody
<1>2. /\ loops # << >> /\ OpenOK(T, Running.reg, s) /\ Backward(T, s.src, Source(s.src))
      /\ Source(s.src) = T.table[Running.reg].ids[s.src]
  BY <1>1, OpenedFacts
<1>3. Len(s.blocks) \in Nat /\ Whole(T)
  BY <1>2, SeqFacts, RunningFacts DEF OpenOK
<1>4. NextBody(T, Running, f)
  <2>1. f.reg = reg /\ f.into = "stmts"
    BY DEF Loop
  <2> QED BY <1>1, <1>2, <2>1 DEF NextBody
<1> HIDE DEF s
<1>5. reg \in ScopesOf(T)
  BY <1>1, <1>2, <1>3, BodiesExist
<1> HIDE DEF reg
<1>6. LoopWhole(T, f)
  BY <1>3, <1>5, FreshWhole
<1>7. /\ IsSeq(loops) /\ n \in Nat /\ DOMAIN loops = 1..n /\ loops[n] = Running
      /\ \A d \in DOMAIN loops : LoopWhole(T, loops[d])
      /\ \A d \in DOMAIN loops : d < n => NextBody(T, loops[d], loops[d + 1])
  BY SeqFacts DEF LInv, LoopsOK, LoopsWhole, Running
<1> HIDE DEF f
<1>8. /\ IsSeq(loops') /\ Len(loops') = n + 1 /\ loops'[n + 1] = f
      /\ \A d \in DOMAIN loops : loops'[d] = loops[d]
  BY <1>1, <1>7, AppendSeq
<1> HIDE DEF n
<1>9. DOMAIN loops' = 1..(n + 1)
  BY <1>8, SeqFacts
<1>10. \A d \in 1..(n + 1) : d \in 1..n \/ d = n + 1
  BY <1>7
<1>11. \A d \in DOMAIN loops' : LoopWhole(T', loops'[d])
  BY <1>1, <1>6, <1>7, <1>8, <1>9, <1>10
<1>12. ASSUME NEW d \in DOMAIN loops', d < Len(loops')
       PROVE  NextBody(T', loops'[d], loops'[d + 1])
  <2>1. d \in 1..n /\ d \in DOMAIN loops
    BY <1>7, <1>8, <1>9, <1>12
  <2>2. CASE d = n
    BY <1>1, <1>4, <1>7, <1>8, <2>1, <2>2
  <2>3. CASE d # n
    <3>1. d + 1 \in DOMAIN loops /\ d < n
      BY <1>7, <2>1, <2>3
    <3> QED BY <1>1, <1>7, <1>8, <2>1, <3>1
  <2> QED BY <2>2, <2>3
<1> QED BY <1>11, <1>12 DEF LoopsWhole

LEMMA ClosedKept ==
  ASSUME NEW t, Whole(t), NEW f, f.reg \in ScopesOf(t), NEW s, OpenOK(t, f.reg, s),
         OpenWhole(t, f, s)
  PROVE  /\ s.src \in Nat /\ \A k \in KeptIn(t, f.reg, f.into, f.i) : k < s.src
         /\ s.tag \in KeptTags(f.into) =>
              KeptIn(t, f.reg, f.into, s.src + 1) = KeptIn(t, f.reg, f.into, f.i) \cup {s.src}
         /\ s.tag \notin KeptTags(f.into) =>
              KeptIn(t, f.reg, f.into, s.src + 1) = KeptIn(t, f.reg, f.into, f.i)
<1> DEFINE j == s.src
           r == f.reg
           into == f.into
           i == f.i
<1>1. /\ r \in ScopesOf(t) /\ j \in DOMAIN t.table[r].ids /\ t.table[r].ids[j].tag = s.tag
      /\ KeptIn(t, r, into, j) = KeptIn(t, r, into, i)
  BY DEF OpenOK, OpenWhole
<1> HIDE DEF j, r, into, i
<1>2. j \in Nat /\ \A k \in KeptIn(t, r, into, i) : k < j
  BY <1>1, NextKept
<1>3. t.table[r].ids[j].tag \in KeptTags(into) =>
        KeptIn(t, r, into, j + 1) = KeptIn(t, r, into, i) \cup {j}
  BY <1>1, NextKept
<1>4. t.table[r].ids[j].tag \notin KeptTags(into) =>
        KeptIn(t, r, into, j + 1) = KeptIn(t, r, into, i)
  BY <1>1, NextKept
<1> QED BY <1>1, <1>2, <1>3, <1>4 DEF j, r, into, i

LEMMA CloseStmtWhole ==
  ASSUME LInv, LoopsWhole(T, loops), CloseStmt
  PROVE  LoopsWhole(T', loops')
<1> DEFINE s == Running.open[1]
           nested == s.tag = "Function" /\ Running.into = "stmts"
           grown == IF nested THEN Running.out ELSE Append(Running.out, s)
           past == s.src + 1
           f == Past(Running, past, << >>, grown)
           r == Running.reg
           into == Running.into
           kept == KeptIn(T, r, into, Running.i)
<1>1. Opened /\ UNCHANGED T /\ Len(s.blocks) = Len(Bodies(Source(s.src)))
  BY DEF CloseStmt
<1>2. SetLoop([Running EXCEPT
                 !.i = s.src + 1, !.open = << >>,
                 !.out = IF s.tag = "Function" /\ Running.into = "stmts"
                         THEN @ ELSE Append(@, s)])
  BY DEF CloseStmt
<1>3. /\ loops # << >> /\ OpenOK(T, r, s) /\ 1 \in DOMAIN Running.open
      /\ Source(s.src) = T.table[r].ids[s.src]
  BY <1>1, OpenedFacts
<1>4. /\ LoopOK(T, Running) /\ LoopWhole(T, Running) /\ Whole(T) /\ r \in ScopesOf(T)
      /\ into \in {"defs", "stmts"} /\ Running.i \in Nat /\ Uses(T, T')
  BY <1>1, <1>3, RunningFacts, RunningWhole, SameTables
<1>5. PICK reg, stmts, at, out, open :
        Running = [reg |-> reg, into |-> stmts, i |-> at, out |-> out, open |-> open]
  BY <1>4 DEF LoopOK
<1>6. SetLoop(f)
  BY <1>2, <1>5 DEF Past
<1>7. OpenWhole(T, Running, s)
  BY <1>3, <1>4 DEF LoopWhole
<1>8. /\ s.tag = T.table[r].ids[s.src].tag
      /\ s.tag \in BlockTags => into = "stmts"
      /\ s.tag \in BlockTags \cup {"Function"} /\ s.src \in DOMAIN T.table[r].ids
      /\ KeptIn(T, r, into, s.src) = kept
  BY <1>3, <1>7 DEF OpenWhole, OpenOK
<1>9. OutWhole(T', Running, s)
  BY <1>1, <1>3, <1>7 DEF OpenWhole, OpenOK, OutWhole, StatementWhole
<1> HIDE DEF s, grown, nested
<1>13. /\ s.src \in Nat /\ (\A k \in kept : k < s.src)
       /\ s.tag \in KeptTags(into) => KeptIn(T, r, into, past) = kept \cup {s.src}
       /\ s.tag \notin KeptTags(into) => KeptIn(T, r, into, past) = kept
  BY <1>3, <1>4, <1>7, ClosedKept
<1> HIDE DEF past
<1>10. f = [reg |-> reg, into |-> stmts, i |-> past, out |-> grown, open |-> << >>]
  BY <1>5, PastFields
<1>11. f.reg = r /\ f.into = into /\ f.i = past /\ f.out = grown /\ f.open = << >>
  BY <1>5, <1>10
<1> HIDE DEF f
<1>12. /\ IsSeq(Running.out) /\ Sources(Running.out) = Ascending(kept)
       /\ \A k \in DOMAIN Running.out : OutWhole(T', Running, Running.out[k])
  BY <1>3, <1>4, RunningOut
<1>14. kept \in SUBSET (0..T.next) /\ T.next \in Nat
  BY <1>4, KeptBound
<1> HIDE DEF kept, r, into
<1>15. /\ Sources(grown) = Ascending(KeptIn(T, r, into, past))
       /\ \A k \in DOMAIN grown : OutWhole(T', Running, grown[k])
  <2>1. CASE nested
    <3>1. s.tag \notin KeptTags(into)
      BY <2>1 DEF nested, into, KeptTags, ValueTags, BlockTags, PlainTags
    <3> QED BY <1>12, <1>13, <2>1, <3>1 DEF grown
  <2>2. CASE ~nested
    <3>1. s.tag \in KeptTags(into) /\ s.tag # "Extern"
      BY <1>4, <1>8, <2>2 DEF nested, into, KeptTags, BlockTags
    <3> DEFINE old == Running.out
               more == Append(old, s)
    <3>2. IsSeq(old) /\ Sources(old) = Ascending(kept)
      BY <1>12
    <3>3. \A k \in DOMAIN old : OutWhole(T', Running, old[k])
      BY <1>12
    <3> HIDE DEF old
    <3>4. Sources(more) = Ascending(kept \cup {s.src})
      BY <1>13, <1>14, <3>1, <3>2, SourcesMore
    <3>5. /\ IsSeq(more) /\ Len(more) = Len(old) + 1 /\ more[Len(old) + 1] = s
          /\ \A k \in DOMAIN old : more[k] = old[k]
      BY <3>2, AppendSeq
    <3>6. Len(old) \in Nat /\ DOMAIN old = 1..Len(old)
      BY <3>2, SeqFacts
    <3> HIDE DEF more
    <3>7. DOMAIN more = 1..(Len(old) + 1)
      BY <3>5, SeqFacts
    <3>8. \A k \in DOMAIN more : k \in DOMAIN old \/ k = Len(old) + 1
      BY <3>6, <3>7
    <3>9. \A k \in DOMAIN more : OutWhole(T', Running, more[k])
      BY <1>9, <3>3, <3>5, <3>8
    <3>10. grown = more
      BY <2>2 DEF grown, more, old
    <3> QED BY <1>13, <3>1, <3>4, <3>9, <3>10
  <2> QED BY <2>1, <2>2
<1> QED BY <1>3, <1>4, <1>6, <1>11, <1>13, <1>15, AdvancedWhole DEF past, r, into

Blocked(f, block) == [f EXCEPT !.open[1].blocks = Append(@, block)]

LEMMA BlockFields ==
  ASSUME NEW t, NEW f, LoopOK(t, f), f.open # << >>, NEW block
  PROVE  /\ Blocked(f, block).reg = f.reg /\ Blocked(f, block).into = f.into
         /\ Blocked(f, block).i = f.i /\ Blocked(f, block).out = f.out
         /\ DOMAIN Blocked(f, block).open = DOMAIN f.open /\ 1 \in DOMAIN f.open
         /\ \A k \in DOMAIN f.open : k # 1 => Blocked(f, block).open[k] = f.open[k]
         /\ Blocked(f, block).open[1].tag = f.open[1].tag
         /\ Blocked(f, block).open[1].src = f.open[1].src
         /\ Blocked(f, block).open[1].params = f.open[1].params
         /\ Blocked(f, block).open[1].blocks = Append(f.open[1].blocks, block)
<1> DEFINE s == f.open[1]
           blocks == Append(s.blocks, block)
           u == [s EXCEPT !.blocks = blocks]
           opened == Replaced(f.open, 1, u)
           g == [f EXCEPT !.open = opened]
<1>1. PICK reg, into, at, out, open :
        f = [reg |-> reg, into |-> into, i |-> at, out |-> out, open |-> open]
  BY DEF LoopOK
<1>2. IsSeq(f.open) /\ 1 \in DOMAIN f.open
  BY SeqFacts DEF LoopOK
<1>3. OpenOK(t, f.reg, s)
  BY <1>2 DEF LoopOK
<1>4. PICK tag, src, name, eid, exprs, blks, params :
        s = [tag |-> tag, src |-> src, name |-> name, eid |-> eid, exprs |-> exprs,
             blocks |-> blks, params |-> params]
  BY <1>3 DEF OpenOK
<1>5. Blocked(f, block) = g
  BY <1>1, <1>2, <1>4 DEF Replaced, Blocked
<1> HIDE DEF s, blocks
<1>6. u = [tag |-> tag, src |-> src, name |-> name, eid |-> eid, exprs |-> exprs,
           blocks |-> blocks, params |-> params]
  BY <1>4
<1>7. u.tag = s.tag /\ u.src = s.src /\ u.blocks = blocks /\ u.params = s.params
  BY <1>4, <1>6
<1> HIDE DEF u
<1>8. /\ DOMAIN opened = DOMAIN f.open
      /\ \A k \in DOMAIN f.open : opened[k] = IF k = 1 THEN u ELSE f.open[k]
  BY <1>2, ReplacedSeq
<1> HIDE DEF opened
<1>9. g = [reg |-> reg, into |-> into, i |-> at, out |-> out, open |-> opened]
  BY <1>1
<1>10. g.reg = f.reg /\ g.into = f.into /\ g.i = f.i /\ g.out = f.out /\ g.open = opened
  BY <1>1, <1>9
<1> HIDE DEF g
<1>11. opened[1] = u
  BY <1>2, <1>8
<1> QED BY <1>2, <1>5, <1>7, <1>8, <1>10, <1>11 DEF s, blocks

(* The statement of f has one more block: all that loop f' pushed.          *)
LEMMA BodyWhole ==
  ASSUME NEW t, Whole(t), NEW f, LoopOK(t, f), LoopWhole(t, f), f.open # << >>,
         NEW g, LoopWhole(t, g), NextBody(t, f, g),
         KeptIn(t, g.reg, "stmts", g.i) = KeptIn(t, g.reg, "stmts", t.next),
         NEW h, h = Blocked(f, g.out)
  PROVE  LoopWhole(t, h)
<1> DEFINE s == f.open[1]
           u == h.open[1]
           bodies == Bodies(t.table[f.reg].ids[s.src])
           n == Len(s.blocks)
<1>1. /\ h.reg = f.reg /\ h.into = f.into /\ h.i = f.i /\ h.out = f.out
      /\ DOMAIN h.open = DOMAIN f.open /\ 1 \in DOMAIN f.open
      /\ \A k \in DOMAIN f.open : k # 1 => h.open[k] = f.open[k]
      /\ u.tag = s.tag /\ u.src = s.src /\ u.blocks = Append(s.blocks, g.out)
  <2>1. /\ h.reg = f.reg /\ h.into = f.into /\ h.i = f.i /\ h.out = f.out
        /\ DOMAIN h.open = DOMAIN f.open /\ 1 \in DOMAIN f.open
        /\ \A k \in DOMAIN f.open : k # 1 => h.open[k] = f.open[k]
    BY BlockFields
  <2>2. h.open[1].tag = f.open[1].tag /\ h.open[1].src = f.open[1].src
    BY BlockFields
  <2>3. h.open[1].blocks = Append(f.open[1].blocks, g.out)
    BY BlockFields, SMTT(30)
  <2> QED BY <2>1, <2>2, <2>3
<1>2. OpenOK(t, f.reg, s) /\ OpenWhole(t, f, s)
  BY <1>1 DEF LoopOK, LoopWhole
<1>3. IsSeq(s.blocks) /\ n \in Nat /\ DOMAIN s.blocks = 1..n
  BY <1>2, SeqFacts DEF OpenOK
<1>4. /\ n < Len(bodies) /\ g.reg = bodies[n + 1] /\ g.into = "stmts"
  BY DEF NextBody
<1>5. Len(bodies) \in Nat
  <2>1. Backward(t, s.src, t.table[f.reg].ids[s.src])
    BY <1>2 DEF OpenOK, LoopOK, Whole, Formed
  <2> QED BY <2>1, BodiesLength
<1>6. Sources(g.out) = StatementsOf(t, bodies[n + 1], "stmts", t.next)
  BY <1>4 DEF LoopWhole, StatementsOf
<1>7. \A b \in DOMAIN s.blocks :
        Sources(s.blocks[b]) = StatementsOf(t, bodies[b], "stmts", t.next)
  BY <1>2 DEF OpenWhole, BodiesWhole
<1>8. /\ s.tag = t.table[f.reg].ids[s.src].tag
      /\ s.tag \in BlockTags => f.into = "stmts"
      /\ KeptIn(t, f.reg, f.into, s.src) = KeptIn(t, f.reg, f.into, f.i)
  BY <1>2 DEF OpenWhole
<1> HIDE DEF u
<1>9. /\ IsSeq(u.blocks) /\ Len(u.blocks) = n + 1 /\ u.blocks[n + 1] = g.out
      /\ \A b \in DOMAIN s.blocks : u.blocks[b] = s.blocks[b]
  BY <1>1, <1>3, AppendSeq
<1>10. DOMAIN u.blocks = 1..(n + 1)
  BY <1>9, SeqFacts
<1> HIDE DEF n
<1>11. ASSUME NEW b \in DOMAIN u.blocks
       PROVE  Sources(u.blocks[b]) = StatementsOf(t, bodies[b], "stmts", t.next)
  <2>1. b \in DOMAIN s.blocks \/ b = n + 1
    BY <1>3, <1>10
  <2>2. CASE b \in DOMAIN s.blocks
    BY <1>7, <1>9, <2>2
  <2>3. CASE b = n + 1
    BY <1>6, <1>9, <2>3
  <2> QED BY <2>1, <2>2, <2>3
<1>12. bodies = Bodies(t.table[f.reg].ids[u.src])
  BY <1>1
<1> HIDE DEF bodies
<1>13. BodiesWhole(t, f.reg, u)
  BY <1>11, <1>12 DEF BodiesWhole
<1>14. Len(u.blocks) <= Len(bodies)
  BY <1>3, <1>4, <1>5, <1>9
<1> HIDE DEF s
<1>15. OpenWhole(t, h, u)
  BY <1>1, <1>8, <1>12, <1>13, <1>14 DEF OpenWhole
<1>16. ASSUME NEW k \in DOMAIN h.open PROVE OpenWhole(t, h, h.open[k])
  <2>1. CASE k = 1
    BY <1>15, <2>1 DEF u
  <2>2. CASE k # 1
    <3>1. OpenWhole(t, f, f.open[k]) /\ h.open[k] = f.open[k]
      BY <1>1, <2>2 DEF LoopWhole
    <3> QED BY <1>1, <3>1 DEF OpenWhole
  <2> QED BY <2>1, <2>2
<1> QED BY <1>1, <1>16 DEF LoopWhole, OutWhole

LEMMA LeaveBodyWhole ==
  ASSUME LInv, LoopsWhole(T, loops), LeaveBody
  PROVE  LoopsWhole(T', loops')
<1> DEFINE n == Len(loops) - 1
           rest == SubSeq(loops, 1, n)
           f == Blocked(loops[n], Running.out)
<1>1. /\ Loops /\ Len(loops) > 1 /\ UNCHANGED T /\ AtEnd
      /\ loops' = [rest EXCEPT ![n].open[1].blocks = Append(@, Running.out)]
  BY DEF LeaveBody, Seqs!Front
<1>2. /\ IsSeq(loops) /\ Len(loops) \in Nat /\ DOMAIN loops = 1..Len(loops)
      /\ \A d \in DOMAIN loops : LoopOK(T, loops[d])
      /\ \A d \in DOMAIN loops : d < Len(loops) => loops[d].open # << >>
      /\ \A d \in DOMAIN loops : LoopWhole(T, loops[d])
      /\ \A d \in DOMAIN loops : d < Len(loops) => NextBody(T, loops[d], loops[d + 1])
  BY SeqFacts DEF LInv, LoopsOK, LoopsWhole
<1>3. /\ n \in Nat /\ n < Len(loops) /\ n \in DOMAIN loops /\ n \in 1..n /\ n + 1 = Len(loops)
  BY <1>1, <1>2
<1>4. /\ IsSeq(rest) /\ Len(rest) = n /\ DOMAIN rest = 1..n
      /\ \A d \in 1..n : rest[d] = loops[d] /\ d \in DOMAIN loops
  <2> DEFINE A == {loops[d] : d \in DOMAIN loops}
             len == Len(loops)
  <2>1. loops \in Seq(A) /\ len \in Nat /\ n = len - 1 /\ len > 1 /\ DOMAIN loops = 1..len
    BY <1>1, <1>2 DEF IsSeq
  <2> HIDE DEF A, n
  <2>2. /\ rest \in Seq(A) /\ Len(rest) = n /\ DOMAIN rest = 1..n
        /\ \A d \in 1..n : rest[d] = loops[d] /\ d \in DOMAIN loops
    BY <2>1
  <2> HIDE DEF rest
  <2> QED BY <2>2, SeqIsSeq
<1>5. loops' = Replaced(rest, n, f)
  <2>1. rest[n] = loops[n]
    BY <1>3, <1>4
  <2> HIDE DEF rest, n
  <2> QED BY <1>1, <1>3, <1>4, <2>1 DEF Replaced, Blocked
<1>6. loops # << >> /\ Whole(T) /\ Running = loops[n + 1] /\ Running.reg \in ScopesOf(T)
  BY <1>1, <1>3, RunningFacts DEF Loops, Running
<1>7. KeptIn(T, Running.reg, "stmts", Running.i) = KeptIn(T, Running.reg, "stmts", T.next)
  <2>1. \A k \in DOMAIN T.table[Running.reg].ids : k < Running.i /\ k < T.next
    BY <1>1, <1>6, IdsBelow DEF AtEnd
  <2> QED BY <2>1 DEF KeptIn
<1> HIDE DEF n
<1>8. LoopWhole(T, f)
  <2> DEFINE g == loops[n]
  <2>1. /\ LoopOK(T, g) /\ LoopWhole(T, g) /\ g.open # << >>
        /\ NextBody(T, g, Running) /\ LoopWhole(T, Running)
    BY <1>2, <1>3, <1>6
  <2>2. f = Blocked(g, Running.out)
    OBVIOUS
  <2> HIDE DEF f, g
  <2> QED BY <1>6, <1>7, <2>1, <2>2, BodyWhole
<1>9. f.reg = loops[n].reg /\ f.into = loops[n].into
  BY <1>2, <1>3, BlockFields
<1> HIDE DEF f, rest
<1>10. /\ IsSeq(loops') /\ Len(loops') = n /\ DOMAIN loops' = 1..n
       /\ \A k \in 1..n : loops'[k] = IF k = n THEN f ELSE rest[k]
  <2>1. n \in DOMAIN rest
    BY <1>3, <1>4
  <2>2. IsSeq(loops') /\ Len(loops') = Len(rest) /\ DOMAIN loops' = DOMAIN rest
    BY <1>4, <1>5, <2>1, ReplacedSeq
  <2>3. ASSUME NEW k \in DOMAIN rest PROVE loops'[k] = IF k = n THEN f ELSE rest[k]
    BY <1>5 DEF Replaced
  <2> QED BY <1>4, <2>2, <2>3
<1>12. ASSUME NEW d \in 1..n PROVE LoopWhole(T, loops'[d])
  BY <1>2, <1>4, <1>8, <1>10
<1>13. ASSUME NEW d \in 1..n, d < n PROVE NextBody(T, loops'[d], loops'[d + 1])
  <2>1. d \in DOMAIN loops /\ d < Len(loops) /\ d + 1 \in 1..n /\ d # n
    BY <1>2, <1>3, <1>13
  <2>2. NextBody(T, loops[d], loops[d + 1]) /\ loops'[d] = loops[d]
    BY <1>2, <1>4, <1>10, <2>1
  <2>3. loops'[d + 1].reg = loops[d + 1].reg /\ loops'[d + 1].into = loops[d + 1].into
    BY <1>4, <1>9, <1>10, <2>1
  <2> QED BY <2>2, <2>3 DEF NextBody
<1> QED BY <1>1, <1>10, <1>12, <1>13 DEF LoopsWhole

LEMMA LoweringWhole ==
  ASSUME LInv, LoopsWhole(T, loops), Lower
  PROVE  LoopsWhole(T', loops')
<1>1. CASE LeaveModule
  <2>1. loops' = << >> /\ DOMAIN << >> = {}
    BY <1>1 DEF LeaveModule
  <2> QED BY <2>1 DEF LoopsWhole
<1> QED BY <1>1, SkipEntryWhole, LowerVarWhole, LowerLetWhole, LowerTypeWhole, LowerExternWhole,
           PlainWhole, OpenFunctionWhole, OpenBlocksWhole, EnterBodyWhole, LeaveBodyWhole,
           CloseStmtWhole DEF Lower

(* Until the pass begins, nothing has been lowered.                        *)
LEMMA WaitingWhole ==
  ASSUME NEW t, Whole(t), 1 \in ScopesOf(t)
  PROVE  LoopsWhole(t, <<Loop(1, "defs")>>)
<1>1. LoopWhole(t, Loop(1, "defs"))
  BY FreshWhole
<1> DEFINE ls == <<Loop(1, "defs")>>
<1>2. DOMAIN ls = {1} /\ Len(ls) = 1 /\ ls[1] = Loop(1, "defs")
  BY OneSeq
<1> HIDE DEF ls
<1>3. LoopsWhole(t, ls)
  BY <1>1, <1>2 DEF LoopsWhole
<1> QED BY <1>3 DEF ls

LEMMA OrderInvStep ==
  ASSUME OrderInv, [LowerNext]_allVars
  PROVE  OrderInv'
<1>1. LowerInv'
  BY LowerInvStep DEF OrderInv
<1>2. CASE Register /\ UNCHANGED lowerVars
  <2>1. loops' = <<Loop(1, "defs")>> /\ Whole(T')
    BY <1>1, <1>2, RegisterNeedsStack DEF OrderInv, LowerInv, LInv, WInv, lowerVars
  <2>2. 1 \in ScopesOf(T')
    BY <1>1 DEF LowerInv, LInv, WInv, IInv, Good, TablesType, ScopesOf
  <2> QED BY <1>1, <2>1, <2>2, WaitingWhole DEF OrderInv
<1>3. CASE Lower
  BY <1>1, <1>3, LoweringWhole DEF OrderInv, LowerInv
<1>4. CASE UNCHANGED allVars
  BY <1>1, <1>4 DEF OrderInv, allVars
<1> QED BY <1>2, <1>3, <1>4 DEF LowerNext

(* lower_stmt turns id order into source order: each loop has pushed every *)
(* statement of its scope that it has passed, once and in order, and every *)
(* body it has pushed holds every statement of its own scope, whatever the *)
(* fields that lower_expr registered while the loops ran.                  *)
THEOREM StatementsInOrder == LowerSpec => []SourceOrder
<1>1. LowerInit => OrderInv
  BY InitLowerInv, RootExists, WaitingWhole DEF OrderInv, LowerInit, LowerInv, LInv, WInv
<1>2. OrderInv /\ [LowerNext]_allVars => OrderInv'
  BY OrderInvStep
<1>3. OrderInv => SourceOrder
  BY DEF OrderInv, LoopsWhole, LoopWhole, OutWhole, OpenWhole, SourceOrder
<1> QED BY <1>1, <1>2, <1>3, PTL DEF LowerSpec

-------------------------------------------------------------------------------
(* The parameters of a function                                            *)

LEMMA UsesBound ==
  ASSUME NEW t, NEW u, Uses(t, u), NEW r \in ScopesOf(t), Bound(t, r)
  PROVE  Bound(u, r)
<1> SUFFICES ASSUME NEW i \in DOMAIN u.table[r].ids, u.table[r].ids[i].tag = "Param",
                    NEW x, x = u.table[r].ids[i].name
             PROVE  x \in DOMAIN u.table[r].names /\ u.table[r].names[x].tag = "Param"
  BY DEF Bound
<1>1. i \in DOMAIN t.table[r].ids /\ u.table[r].ids[i] = t.table[r].ids[i]
  BY DEF Uses
<1>2. u.table[r].names = t.table[r].names
  BY DEF Uses
<1> QED BY <1>1, <1>2 DEF Bound

LEMMA UsesParams ==
  ASSUME NEW t, Whole(t), NEW u, Uses(t, u), ParamsBound(t)
  PROVE  ParamsBound(u)
<1> SUFFICES ASSUME NEW r \in ScopesOf(u), NEW j \in DOMAIN u.table[r].ids,
                    u.table[r].ids[j].tag = "Function"
             PROVE  /\ u.table[r].ids[j].kids # << >>
                    /\ Bound(u, u.table[r].ids[j].kids[1])
  BY DEF ParamsBound
<1> DEFINE e == t.table[r].ids[j]
<1>1. r \in ScopesOf(t) /\ j \in DOMAIN t.table[r].ids /\ u.table[r].ids[j] = e
  BY DEF Uses
<1>2. e.tag = "Function"
  BY <1>1
<1>3. e.kids # << >> /\ Bound(t, e.kids[1])
  BY <1>1, <1>2 DEF ParamsBound
<1>4. e.kids \in Seq(ScopesOf(t))
  BY <1>1 DEF Whole, Formed, Backward
<1> HIDE DEF e
<1>5. e.kids[1] \in ScopesOf(t)
  BY <1>3, <1>4
<1>6. Bound(u, e.kids[1])
  BY <1>3, <1>5, UsesBound
<1> QED BY <1>1, <1>3, <1>6

LEMMA RankOrder ==
  ASSUME NEW b \in Nat, NEW ids \in SUBSET (0..b), NEW i \in ids, NEW j \in ids, i <= j
  PROVE  /\ i \in Nat /\ j \in Nat /\ Rank(ids, i) \in Nat /\ Rank(ids, j) \in Nat
         /\ Rank(ids, i) <= Rank(ids, j)
<1>1. i \in Nat /\ j \in Nat
  OBVIOUS
<1>2. Rank(ids, i) \in Nat /\ Rank(ids, j) \in Nat
  BY RankLess
<1>3. i < j => Rank(ids, i) < Rank(ids, j)
  BY RankLess
<1>4. i = j \/ i < j
  BY <1>1
<1> QED BY <1>1, <1>2, <1>3, <1>4

(* Of the parameters of one name, get by name finds the first.             *)
LEMMA DeclaredFound ==
  ASSUME Whole(T), NEW c \in ScopesOf(T), Bound(T, c)
  PROVE  FindParams(Declared(c, "Param"))
<1> DEFINE tab == T.table[c]
           S == {k \in DOMAIN tab.ids : tab.ids[k].tag = "Param"}
           asc == Ascending(S)
           ps == Declared(c, "Param")
           n == Cardinality(S)
<1>1. S \in SUBSET (0..T.next) /\ T.next \in Nat
  <2>1. T.next \in Nat /\ \A j \in DOMAIN tab.ids : j \in Nat /\ j < T.next
    BY IdsBelow
  <2> QED BY <2>1
<1>2. /\ n \in Nat /\ DOMAIN asc = 1..n
      /\ \A k \in 1..n : asc[k] \in S /\ Rank(S, asc[k]) = k - 1
      /\ \A i \in S : Rank(S, i) + 1 \in 1..n /\ asc[Rank(S, i) + 1] = i
  <2> HIDE DEF S
  <2> QED BY <1>1, AscendingFacts
<1>3. /\ DOMAIN ps = 1..n
      /\ \A k \in 1..n : /\ ps[k].name = tab.ids[asc[k]].name
                         /\ ps[k].src = asc[k]
                         /\ ps[k].eid = GetId(T, c, ps[k].name)
  <2>1. ps = [k \in DOMAIN asc |->
                [name |-> tab.ids[asc[k]].name, eid |-> GetId(T, c, tab.ids[asc[k]].name),
                 src |-> asc[k]]]
    BY DEF Declared
  <2> HIDE DEF asc, ps, tab
  <2> QED BY <1>2, <2>1
<1>4. Good(T) /\ c \in 0..Len(T.parent) /\ c # 0
  BY GoodNumbers DEF Whole, ScopesOf
<1>5. /\ \A x \in DOMAIN tab.names :
           /\ x # NoName /\ tab.names[x].name = x
           /\ tab.names[x].eid \in DOMAIN tab.ids
           /\ tab.ids[tab.names[x].eid] = tab.names[x]
      /\ \A i \in DOMAIN tab.ids : tab.ids[i].name # NoName =>
           tab.ids[i].name \in DOMAIN tab.names /\ tab.names[tab.ids[i].name].eid <= i
  <2>1. DOMAIN tab.names \subseteq Names
    BY <1>4 DEF Good, TablesType
  <2> QED BY <1>4, <2>1, NameAssumption DEF Good, NamesAgree, NamesEarliest
<1>6. \A x : GetId(T, c, x) = IF x \in DOMAIN tab.names THEN tab.names[x].eid
                              ELSE GetId(T, T.parent[c], x)
  BY <1>4, GetIdStep
<1>8. \A i \in S : i \in DOMAIN tab.ids /\ tab.ids[i].tag = "Param" /\ i \in Nat
  BY <1>1
<1>9. \A i \in DOMAIN tab.ids : tab.ids[i].tag = "Param" => i \in S
  OBVIOUS
<1>10. \A i \in S : /\ tab.ids[i].name \in DOMAIN tab.names
                    /\ tab.names[tab.ids[i].name].tag = "Param"
  BY <1>8 DEF Bound
<1> HIDE DEF S, asc, ps, tab, n
<1>7. ASSUME NEW m \in 1..n
      PROVE  \E k \in 1..m :
               /\ ps[k].name = ps[m].name
               /\ ps[m].eid = ps[k].src
               /\ \A l \in 1..(k - 1) : ps[l].name # ps[m].name
  <2>1. PICK i : i = asc[m]
    OBVIOUS
  <2>2. PICK x : x = tab.ids[i].name
    OBVIOUS
  <2>3. PICK first : first = tab.names[x].eid
    OBVIOUS
  <2>4. PICK k : k = Rank(S, first) + 1
    OBVIOUS
  <2>5. i \in S /\ Rank(S, i) = m - 1
    BY <1>2, <2>1
  <2>6. x \in DOMAIN tab.names /\ tab.names[x].tag = "Param" /\ x # NoName
    BY <1>5, <1>10, <2>2, <2>5
  <2>7. first \in DOMAIN tab.ids /\ tab.ids[first] = tab.names[x] /\ tab.names[x].name = x
    BY <1>5, <2>3, <2>6
  <2>8. first \in S /\ tab.ids[first].name = x
    BY <1>9, <2>6, <2>7
  <2>9. \A j \in DOMAIN tab.ids : tab.ids[j].name = x => first <= j
    BY <1>5, <2>3, <2>6
  <2>10. first <= i
    BY <1>8, <2>2, <2>5, <2>9
  <2>11. Rank(S, first) \in Nat /\ Rank(S, first) <= m - 1
    BY <1>1, <2>5, <2>8, <2>10, RankOrder
  <2>12. k \in 1..m /\ k \in 1..n /\ asc[k] = first
    BY <1>2, <2>4, <2>8, <2>11
  <2>13. ps[k].name = x /\ ps[k].src = first /\ ps[m].name = x
    BY <1>3, <2>1, <2>2, <2>8, <2>12
  <2>14. ps[m].eid = first
    <3>1. ps[m].eid = GetId(T, c, x)
      BY <1>3, <2>13
    <3> QED BY <1>6, <2>3, <2>6, <3>1
  <2>15. ASSUME NEW l \in 1..(k - 1) PROVE ps[l].name # x
    <3>1. l \in 1..n /\ l \in Nat /\ l < k
      BY <1>2, <2>12
    <3>2. asc[l] \in S /\ Rank(S, asc[l]) = l - 1 /\ ps[l].name = tab.ids[asc[l]].name
      BY <1>2, <1>3, <3>1
    <3> SUFFICES ASSUME tab.ids[asc[l]].name = x PROVE FALSE
      BY <3>2
    <3>3. first <= asc[l]
      BY <1>8, <2>9, <3>2
    <3>4. Rank(S, first) <= l - 1
      <4>1. Rank(S, first) <= Rank(S, asc[l])
        BY <1>1, <2>8, <3>2, <3>3, RankOrder
      <4> QED BY <3>2, <4>1
    <3> QED BY <2>4, <2>11, <3>1, <3>4
  <2> QED BY <2>12, <2>13, <2>14, <2>15
<1> QED BY <1>3, <1>7 DEF FindParams, ps

(* The parameters of the statement a loop is working on.                   *)
OpenFound(f) == \A k \in DOMAIN f.open : FindParams(f.open[k].params)

LEMMA NoneOpen == ASSUME NEW f, f.open = << >> PROVE OpenFound(f)
<1>1. DOMAIN << >> = {}
  OBVIOUS
<1> QED BY <1>1 DEF OpenFound

LEMMA NoParams == FindParams(<< >>)
<1>1. DOMAIN << >> = {}
  OBVIOUS
<1> QED BY <1>1 DEF FindParams

LEMMA SetLoopFound ==
  ASSUME LInv, loops # << >>, ParamsResolve, NEW f, SetLoop(f), OpenFound(f)
  PROVE  ParamsResolve'
<1> DEFINE n == Len(loops)
<1>1. n \in DOMAIN loops /\ IsSeq(loops)
  BY RunningFacts DEF LInv, LoopsOK
<1>2. loops' = Replaced(loops, n, f)
  BY DEF SetLoop, Replaced
<1> HIDE DEF n
<1>3. /\ DOMAIN loops' = DOMAIN loops
      /\ \A k \in DOMAIN loops : loops'[k] = IF k = n THEN f ELSE loops[k]
  BY <1>1, <1>2, ReplacedSeq
<1>4. ASSUME NEW d \in DOMAIN loops PROVE OpenFound(loops'[d])
  <2>1. CASE d = n
    BY <1>3, <2>1
  <2>2. CASE d # n
    BY <1>3, <2>2 DEF ParamsResolve, OpenFound
  <2> QED BY <2>1, <2>2
<1> QED BY <1>3, <1>4 DEF ParamsResolve, OpenFound

LEMMA PushFound ==
  ASSUME LInv, Loops, ParamsResolve, NEW j, NEW irs, PushIR(j, irs)
  PROVE  ParamsResolve'
<1> DEFINE i == j + 1
           g == PushedOn(Running, i, irs)
<1>1. loops # << >> /\ Running.open = << >>
  BY DEF Loops
<1>2. SetLoop(g)
  BY DEF PushIR, PushedOn
<1>3. LoopOK(T, Running)
  BY <1>1, RunningFacts
<1> HIDE DEF i
<1>4. g.open = << >>
  BY <1>1, <1>3, PushFields
<1> HIDE DEF g
<1> QED BY <1>1, <1>2, <1>4, NoneOpen, SetLoopFound

LEMMA PlainFound ==
  ASSUME LInv, ParamsResolve, NEW j,
         \/ LowerVar(j) \/ LowerLet(j) \/ LowerType(j) \/ LowerExtern(j)
         \/ LowerReturn(j) \/ LowerExprStmt(j) \/ LowerAssign(j) \/ LowerAtomic(j)
  PROVE  ParamsResolve'
<1>1. CASE LowerVar(j)
  BY <1>1, PushFound DEF LowerVar
<1>2. CASE LowerLet(j)
  BY <1>2, PushFound DEF LowerLet
<1>3. CASE LowerType(j)
  BY <1>3, PushFound DEF LowerType, PushDef
<1>4. CASE LowerExtern(j)
  BY <1>4, PushFound DEF LowerExtern, PushDef
<1>5. CASE LowerReturn(j) \/ LowerExprStmt(j) \/ LowerAssign(j) \/ LowerAtomic(j)
  <2>1. Loops /\ \E tag, results : PushWith(j, tag, results)
    BY <1>5 DEF LowerReturn, LowerExprStmt, LowerAssign, LowerAtomic, InBody
  <2> QED BY <2>1, PushFound DEF PushWith
<1> QED BY <1>1, <1>2, <1>3, <1>4, <1>5

LEMMA SkipEntryFound ==
  ASSUME LInv, ParamsResolve, NEW j, SkipEntry(j)
  PROVE  ParamsResolve'
<1> DEFINE f == [Running EXCEPT !.i = j + 1]
<1>1. loops # << >> /\ Running.open = << >> /\ SetLoop(f)
  BY DEF SkipEntry, Loops
<1>2. LoopOK(T, Running)
  BY <1>1, RunningFacts
<1>3. f.open = << >>
  <2>1. PICK reg, stmts, at, out, open :
          Running = [reg |-> reg, into |-> stmts, i |-> at, out |-> out, open |-> open]
    BY <1>2 DEF LoopOK
  <2>2. f = [reg |-> reg, into |-> stmts, i |-> j + 1, out |-> out, open |-> open]
    BY <2>1
  <2> QED BY <1>1, <2>1, <2>2
<1> HIDE DEF f
<1> QED BY <1>1, <1>3, NoneOpen, SetLoopFound

LEMMA OpenStmtFound ==
  ASSUME LInv, loops # << >>, ParamsResolve, NEW s, FindParams(s.params),
         SetLoop([Running EXCEPT !.open = <<s>>])
  PROVE  ParamsResolve'
<1> DEFINE f == [Running EXCEPT !.open = <<s>>]
<1>1. LoopOK(T, Running)
  BY RunningFacts
<1>2. f.open = <<s>>
  BY <1>1, OpenFields
<1>3. SetLoop(f)
  OBVIOUS
<1> HIDE DEF f
<1>4. OpenFound(f)
  BY <1>2, OneSeq DEF OpenFound
<1> QED BY <1>3, <1>4, SetLoopFound

(* lower_function looks its parameters up once the body is registered.     *)
LEMMA OpenFunctionFound ==
  ASSUME LInv, ParamsBound(T), ParamsResolve, NEW j, OpenFunction(j)
  PROVE  ParamsResolve'
<1> DEFINE c == Source(j).kids[1]
           ps == Declared(c, "Param")
           s == [IRStmt("Function", j, Source(j).name, j, << >>, << >>) EXCEPT !.params = ps]
<1>1. /\ loops # << >> /\ At(j, {"Function"}) /\ SetLoop([Running EXCEPT !.open = <<s>>])
  BY DEF OpenFunction, Loops
<1>2. s.params = ps
  BY DEF IRStmt
<1>3. /\ j \in DOMAIN T.table[Running.reg].ids /\ Running.reg \in ScopesOf(T)
      /\ Source(j) = T.table[Running.reg].ids[j] /\ Source(j).tag = "Function"
      /\ Backward(T, j, Source(j)) /\ Whole(T)
  BY <1>1, AtFacts, RunningFacts
<1> HIDE DEF s, ps
<1>4. Source(j).kids # << >> /\ Bound(T, c) /\ Source(j).kids \in Seq(ScopesOf(T))
  BY <1>3 DEF ParamsBound, Backward
<1>5. c \in ScopesOf(T)
  <2>1. PICK kids : kids = Source(j).kids
    OBVIOUS
  <2> QED BY <1>4, <2>1
<1> HIDE DEF c
<1>6. FindParams(ps)
  BY <1>3, <1>4, <1>5, DeclaredFound DEF ps
<1> QED BY <1>1, <1>2, <1>6, OpenStmtFound DEF s

LEMMA OpenBlocksFound ==
  ASSUME LInv, ParamsResolve, NEW j, OpenBlocks(j)
  PROVE  ParamsResolve'
<1> DEFINE e == Source(j)
           v == Operand(e.kids[1], e.ops[1], ZeroIR)
           s == IRStmt(e.tag, j, NoName, 0, <<v.ir>>, << >>)
<1>1. loops # << >> /\ SetLoop([Running EXCEPT !.open = <<s>>])
  BY DEF OpenBlocks, InBody, Loops
<1>2. s.params = << >>
  BY DEF IRStmt
<1> HIDE DEF s
<1> QED BY <1>1, <1>2, NoParams, OpenStmtFound

LEMMA EnterBodyFound ==
  ASSUME LInv, ParamsResolve, EnterBody
  PROVE  ParamsResolve'
<1>1. PICK reg : loops' = Append(loops, Loop(reg, "stmts"))
  BY DEF EnterBody
<1> DEFINE f == Loop(reg, "stmts")
<1>2. f.open = << >>
  BY DEF Loop
<1>3. loops' = Append(loops, f)
  BY <1>1
<1> HIDE DEF f
<1>4. IsSeq(loops) /\ Len(loops) \in Nat /\ DOMAIN loops = 1..Len(loops)
  BY SeqFacts DEF LInv, LoopsOK
<1>5. /\ IsSeq(loops') /\ Len(loops') = Len(loops) + 1 /\ loops'[Len(loops) + 1] = f
      /\ \A d \in DOMAIN loops : loops'[d] = loops[d]
  BY <1>3, <1>4, AppendSeq
<1>6. DOMAIN loops' = DOMAIN loops \cup {Len(loops) + 1}
  BY <1>4, <1>5, SeqFacts
<1>7. OpenFound(f)
  BY <1>2, NoneOpen
<1> QED BY <1>5, <1>6, <1>7 DEF ParamsResolve, OpenFound

LEMMA CloseStmtFound ==
  ASSUME LInv, ParamsResolve, CloseStmt
  PROVE  ParamsResolve'
<1> DEFINE s == Running.open[1]
           grown == IF s.tag = "Function" /\ Running.into = "stmts"
                    THEN Running.out ELSE Append(Running.out, s)
           past == s.src + 1
           f == Past(Running, past, << >>, grown)
<1>1. SetLoop([Running EXCEPT
                 !.i = s.src + 1, !.open = << >>,
                 !.out = IF s.tag = "Function" /\ Running.into = "stmts"
                         THEN @ ELSE Append(@, s)])
  BY DEF CloseStmt
<1>2. loops # << >>
  BY DEF CloseStmt, Opened
<1>3. PICK reg, into, at, out, open :
        Running = [reg |-> reg, into |-> into, i |-> at, out |-> out, open |-> open]
  BY <1>2, RunningFacts DEF LoopOK
<1>4. SetLoop(f)
  BY <1>1, <1>3 DEF Past
<1> HIDE DEF s, grown, past
<1>5. f = [reg |-> reg, into |-> into, i |-> past, out |-> grown, open |-> << >>]
  BY <1>3, PastFields
<1>6. f.open = << >>
  BY <1>5
<1> HIDE DEF f
<1> QED BY <1>2, <1>4, <1>6, NoneOpen, SetLoopFound

LEMMA LeaveBodyFound ==
  ASSUME LInv, ParamsResolve, LeaveBody
  PROVE  ParamsResolve'
<1> DEFINE n == Len(loops) - 1
           rest == SubSeq(loops, 1, n)
           f == Blocked(loops[n], Running.out)
<1>1. /\ Len(loops) > 1
      /\ loops' = [rest EXCEPT ![n].open[1].blocks = Append(@, Running.out)]
  BY DEF LeaveBody, Seqs!Front
<1>2. /\ IsSeq(loops) /\ Len(loops) \in Nat /\ DOMAIN loops = 1..Len(loops)
      /\ \A d \in DOMAIN loops : LoopOK(T, loops[d])
      /\ \A d \in DOMAIN loops : d < Len(loops) => loops[d].open # << >>
  BY SeqFacts DEF LInv, LoopsOK
<1>3. n \in Nat /\ n < Len(loops) /\ n \in DOMAIN loops /\ n \in 1..n
  BY <1>1, <1>2
<1>4. /\ IsSeq(rest) /\ Len(rest) = n /\ DOMAIN rest = 1..n
      /\ \A d \in 1..n : rest[d] = loops[d] /\ d \in DOMAIN loops
  <2> DEFINE A == {loops[d] : d \in DOMAIN loops}
             len == Len(loops)
  <2>1. loops \in Seq(A) /\ len \in Nat /\ n = len - 1 /\ len > 1 /\ DOMAIN loops = 1..len
    BY <1>1, <1>2 DEF IsSeq
  <2> HIDE DEF A, n
  <2>2. /\ rest \in Seq(A) /\ Len(rest) = n /\ DOMAIN rest = 1..n
        /\ \A d \in 1..n : rest[d] = loops[d] /\ d \in DOMAIN loops
    BY <2>1
  <2> HIDE DEF rest
  <2> QED BY <2>2, SeqIsSeq
<1>5. loops' = Replaced(rest, n, f)
  <2>1. rest[n] = loops[n]
    BY <1>3, <1>4
  <2> HIDE DEF rest, n
  <2> QED BY <1>1, <1>3, <1>4, <2>1 DEF Replaced, Blocked
<1> HIDE DEF n
<1>6. OpenFound(f)
  <2> DEFINE g == loops[n]
  <2>1. LoopOK(T, g) /\ g.open # << >> /\ OpenFound(g)
    BY <1>2, <1>3 DEF ParamsResolve, OpenFound
  <2>2. f = Blocked(g, Running.out)
    OBVIOUS
  <2> HIDE DEF f, g
  <2>3. /\ DOMAIN f.open = DOMAIN g.open
        /\ \A k \in DOMAIN g.open : f.open[k].params = g.open[k].params
    BY <2>1, <2>2, BlockFields
  <2> QED BY <2>1, <2>3 DEF OpenFound
<1> HIDE DEF f, rest
<1>7. DOMAIN loops' = 1..n /\ \A k \in 1..n : loops'[k] = IF k = n THEN f ELSE rest[k]
  <2>1. n \in DOMAIN rest
    BY <1>3, <1>4
  <2>2. DOMAIN loops' = DOMAIN rest
    BY <1>4, <1>5, <2>1, ReplacedSeq
  <2>3. ASSUME NEW k \in DOMAIN rest PROVE loops'[k] = IF k = n THEN f ELSE rest[k]
    BY <1>5 DEF Replaced
  <2> QED BY <1>4, <2>2, <2>3
<1>8. ASSUME NEW d \in 1..n PROVE OpenFound(loops'[d])
  <2>1. OpenFound(loops[d]) /\ rest[d] = loops[d]
    BY <1>4 DEF ParamsResolve, OpenFound
  <2> QED BY <1>6, <1>7, <2>1
<1> QED BY <1>7, <1>8 DEF ParamsResolve, OpenFound

LEMMA LoweringFinds ==
  ASSUME LInv, ParamsBound(T), ParamsResolve, Lower
  PROVE  ParamsResolve'
<1>1. CASE LeaveModule
  <2>1. loops' = << >> /\ DOMAIN << >> = {}
    BY <1>1 DEF LeaveModule
  <2> QED BY <2>1 DEF ParamsResolve
<1> QED BY <1>1, SkipEntryFound, PlainFound, OpenFunctionFound, OpenBlocksFound,
           EnterBodyFound, LeaveBodyFound, CloseStmtFound DEF Lower

(* Until register_body has returned, the headers are read as they must be; *)
(* what they leave bound stays bound while the pass runs.                  *)
ParamInv ==
  /\ LowerInv
  /\ ParamsBound(T)
  /\ stack # << >> => HeaderInv
  /\ ParamsResolve

LEMMA MainLoopFinds ==
  ASSUME NEW ls, ls = <<Loop(1, "defs")>>
  PROVE  \A d \in DOMAIN ls : OpenFound(ls[d])
<1> DEFINE f == Loop(1, "defs")
<1>1. f.open = << >>
  BY DEF Loop
<1>2. ls = <<f>>
  OBVIOUS
<1> HIDE DEF f
<1>3. DOMAIN ls = {1} /\ ls[1] = f
  BY <1>2, OneSeq
<1> QED BY <1>1, <1>3, NoneOpen

LEMMA ParamInvStep ==
  ASSUME ParamInv, [LowerNext]_allVars
  PROVE  ParamInv'
<1>1. LowerInv'
  BY LowerInvStep DEF ParamInv
<1>2. CASE Register /\ UNCHANGED lowerVars
  <2>1. HeaderInv'
    BY <1>2, RegisterNeedsStack, HeaderInvStep DEF ParamInv, Next
  <2>2. ParamsResolve'
    BY <1>2 DEF ParamInv, ParamsResolve, lowerVars
  <2> QED BY <1>1, <2>1, <2>2 DEF ParamInv, HeaderInv
<1>3. CASE Lower
  <2>1. LInv /\ Whole(T)
    BY DEF ParamInv, LowerInv, LInv, WInv
  <2>2. Uses(T, T') /\ stack' = << >>
    BY <1>3, <2>1, LowerStep DEF LowerOK, Registered
  <2>3. ParamsBound(T')
    BY <2>1, <2>2, UsesParams DEF ParamInv
  <2>4. ParamsResolve'
    BY <1>3, <2>1, LoweringFinds DEF ParamInv
  <2> QED BY <1>1, <2>2, <2>3, <2>4 DEF ParamInv
<1>4. CASE UNCHANGED allVars
  <2>1. UNCHANGED <<T, stack, lost, loops>>
    BY <1>4 DEF allVars
  <2>2. stack' # << >> => HeaderInv'
    BY <2>1, HeaderInvStep DEF ParamInv, vars
  <2>3. ParamsBound(T') /\ ParamsResolve'
    BY <2>1 DEF ParamInv, ParamsResolve
  <2> QED BY <1>1, <2>2, <2>3 DEF ParamInv
<1> QED BY <1>2, <1>3, <1>4 DEF LowerNext

(* The names lower_function looks up in the child table, once the whole    *)
(* body is registered, still find parameters: no declaration of the body,  *)
(* only an earlier parameter of the same name, takes the place of one.     *)
THEOREM ParamsFound == LowerSpec => []ParamsResolve
<1>1. LowerInit => ParamInv
  <2> SUFFICES ASSUME LowerInit PROVE ParamInv
    OBVIOUS
  <2>1. LowerInv /\ HeaderInv
    BY InitLowerInv, InitHeaderInv DEF LowerInit
  <2>2. loops = <<Loop(1, "defs")>>
    BY DEF LowerInit
  <2>3. ParamsResolve
    BY <2>2, MainLoopFinds DEF ParamsResolve, OpenFound
  <2> QED BY <2>1, <2>3 DEF ParamInv, HeaderInv
<1>2. ParamInv /\ [LowerNext]_allVars => ParamInv'
  BY ParamInvStep
<1>3. ParamInv => ParamsResolve
  BY DEF ParamInv
<1> QED BY <1>1, <1>2, <1>3, PTL DEF LowerSpec
===============================================================================
