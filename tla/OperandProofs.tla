----------------------------- MODULE OperandProofs -----------------------------
(***************************************************************************)
(* Proof that an operator keeps its operands, for every program: its       *)
(* pointer to the left one is only lost when the insert of the right one   *)
(* is at a load where khashl reallocates.  The loads and bucket counts of  *)
(* all tables are part of the invariant.                                   *)
(***************************************************************************)
EXTENDS RegistrarProofs, FiniteSetTheorems

-------------------------------------------------------------------------------
(* Bucket counts                                                           *)

(* h is Doubled up to n.                                                   *)
DoubledTo(n, h) == h = [i \in 0..n |-> IF i = 0 THEN 1 ELSE 2 * h[i - 1]]

LEMMA DoubledToExists ==
  ASSUME NEW n \in Nat
  PROVE  \E h : DoubledTo(n, h)
<1> DEFINE Bad == {m \in Nat : ~ \E h : DoubledTo(m, h)}
<1> SUFFICES ASSUME Bad # {} PROVE FALSE
  OBVIOUS
<1>0. Bad \in SUBSET Nat
  OBVIOUS
<1> HIDE DEF Bad
<1>1. PICK m \in Bad : \A k \in Bad : m <= k
  BY <1>0, NatMin
<1> USE DEF Bad
<1>2. CASE m = 0
  <2> DEFINE g == [i \in 0..0 |-> 1]
  <2>1. DoubledTo(0, g)
    BY DEF DoubledTo
  <2> QED BY <1>1, <1>2, <2>1
<1>3. CASE m # 0
  <2>1. m \in Nat /\ m - 1 \in Nat /\ m - 1 \notin Bad
    BY <1>1, <1>3
  <2>2. PICK h : DoubledTo(m - 1, h)
    BY <2>1
  <2> DEFINE g == [i \in 0..m |-> IF i = m THEN 2 * h[m - 1] ELSE h[i]]
  <2>3. \A i \in 0..(m - 1) : g[i] = h[i]
    BY <2>1
  <2>4. g[m] = 2 * h[m - 1]
    BY <2>1
  <2>5. g = [i \in 0..m |-> g[i]]
    OBVIOUS
  <2> HIDE DEF g
  <2>6. ASSUME NEW i \in 0..m
        PROVE  g[i] = IF i = 0 THEN 1 ELSE 2 * g[i - 1]
    <3>1. CASE i = m
      <4>1. m - 1 \in 0..(m - 1)
        BY <2>1
      <4> QED BY <1>3, <2>3, <2>4, <3>1, <4>1
    <3>2. CASE i # m
      <4>1. i \in 0..(m - 1) /\ (i # 0 => i - 1 \in 0..(m - 1))
        BY <2>1, <3>2
      <4>2. h[i] = IF i = 0 THEN 1 ELSE 2 * h[i - 1]
        BY <2>2, <4>1 DEF DoubledTo
      <4> QED BY <2>3, <4>1, <4>2
    <3> QED BY <3>1, <3>2
  <2>7. DoubledTo(m, g)
    BY <2>5, <2>6 DEF DoubledTo
  <2> QED BY <1>1, <2>7
<1> QED BY <1>2, <1>3

LEMMA DoubledToAgree ==
  ASSUME NEW n \in Nat, NEW m \in Nat, NEW g, NEW h, DoubledTo(n, g), DoubledTo(m, h),
         NEW k \in Nat, k <= n, k <= m
  PROVE  g[k] = h[k]
<1> DEFINE Bad == {i \in 0..k : g[i] # h[i]}
<1> SUFFICES ASSUME Bad # {} PROVE FALSE
  OBVIOUS
<1>0. Bad \in SUBSET Nat
  OBVIOUS
<1> HIDE DEF Bad
<1>1. PICK i \in Bad : \A j \in Bad : i <= j
  BY <1>0, NatMin
<1> USE DEF Bad
<1>2. i \in 0..n /\ i \in 0..m /\ i \in 0..k /\ g[i] # h[i]
  BY <1>1
<1>3. /\ g[i] = IF i = 0 THEN 1 ELSE 2 * g[i - 1]
      /\ h[i] = IF i = 0 THEN 1 ELSE 2 * h[i - 1]
  BY <1>2 DEF DoubledTo
<1>4. i # 0
  BY <1>2, <1>3
<1>5. i - 1 \in 0..k /\ ~(i <= i - 1)
  BY <1>2, <1>4
<1>6. i - 1 \notin Bad
  BY <1>1, <1>5
<1>7. g[i - 1] = h[i - 1]
  BY <1>5, <1>6
<1> QED BY <1>2, <1>3, <1>4, <1>7

LEMMA DoubledStep ==
  /\ Doubled[0] = 1
  /\ \A n \in Nat : Doubled[n + 1] = 2 * Doubled[n]
<1> DEFINE To(n) == CHOOSE h : DoubledTo(n, h)
           F == [n \in Nat |-> To(n)[n]]
           Rec(f) == f = [n \in Nat |-> IF n = 0 THEN 1 ELSE 2 * f[n - 1]]
<1>1. \A n \in Nat : DoubledTo(n, To(n))
  BY DoubledToExists
<1> HIDE DEF To
<1>2. ASSUME NEW n \in Nat
      PROVE  F[n] = IF n = 0 THEN 1 ELSE 2 * F[n - 1]
  <2>1. To(n)[n] = IF n = 0 THEN 1 ELSE 2 * To(n)[n - 1]
    <3>1. DoubledTo(n, To(n)) /\ n \in 0..n
      BY <1>1
    <3> DEFINE h == To(n)
    <3> HIDE DEF h
    <3>2. h[n] = IF n = 0 THEN 1 ELSE 2 * h[n - 1]
      BY <3>1 DEF DoubledTo, h
    <3> QED BY <3>2 DEF h
  <2>2. CASE n = 0
    BY <2>1, <2>2
  <2>3. CASE n # 0
    <3>1. n - 1 \in Nat /\ n - 1 <= n
      BY <2>3
    <3>2. To(n)[n - 1] = To(n - 1)[n - 1]
      BY <1>1, <3>1, DoubledToAgree
    <3> QED BY <2>1, <2>3, <3>1, <3>2
  <2> QED BY <2>2, <2>3
<1>3. Rec(F)
  <2>1. F = [n \in Nat |-> F[n]]
    OBVIOUS
  <2> HIDE DEF F
  <2> QED BY <1>2, <2>1
<1>4. Doubled = CHOOSE f : Rec(f)
  BY DEF Doubled
<1> HIDE DEF F
<1>5. Rec(Doubled)
  <2> HIDE DEF Rec
  <2> QED BY <1>3, <1>4
<1>6. \A n \in Nat : Doubled[n] = IF n = 0 THEN 1 ELSE 2 * Doubled[n - 1]
  BY <1>5
<1> QED BY <1>6

LEMMA DoubledLarge ==
  \A n \in Nat : Doubled[n] \in Nat /\ n < Doubled[n]
<1> DEFINE Bad == {n \in Nat : ~(Doubled[n] \in Nat /\ n < Doubled[n])}
<1> SUFFICES ASSUME Bad # {} PROVE FALSE
  OBVIOUS
<1>0. Bad \in SUBSET Nat
  OBVIOUS
<1> HIDE DEF Bad
<1>1. PICK m \in Bad : \A k \in Bad : m <= k
  BY <1>0, NatMin
<1> USE DEF Bad
<1>2. m # 0
  BY <1>1, DoubledStep
<1>3. m \in Nat /\ m - 1 \in Nat /\ m - 1 \notin Bad /\ m = (m - 1) + 1
  BY <1>1, <1>2
<1>4. Doubled[m - 1] \in Nat /\ m - 1 < Doubled[m - 1]
  BY <1>3
<1>5. Doubled[m] = 2 * Doubled[m - 1]
  BY <1>3, DoubledStep
<1> QED BY <1>1, <1>3, <1>4, <1>5

-------------------------------------------------------------------------------
(* Loads                                                                   *)

(* A table of cap buckets can hold load keys: at most three quarters.      *)
Fits(cap, load) ==
  \/ cap = 0 /\ load = 0
  \/ \E n \in Nat : cap = 4 * Doubled[n] /\ load <= 3 * Doubled[n]

Filled(tab) ==
  /\ IsFiniteSet(DOMAIN tab.names)
  /\ IsFiniteSet(DOMAIN tab.ids)
  /\ Fits(tab.cap, Load(tab))

(* A put leaves room for one key more, ...                                 *)
LEMMA GrowFits ==
  ASSUME NEW cap, NEW load \in Nat, Fits(cap, load), NEW l \in Nat, l <= load + 1
  PROVE  Fits(Grow(cap, load), l)
<1>1. CASE cap = 0 /\ load = 0
  <2>1. Grow(cap, load) = 4 * Doubled[0] /\ l <= 3 * Doubled[0]
    BY <1>1, DoubledStep DEF Grow
  <2> QED BY <2>1 DEF Fits
<1>2. CASE ~(cap = 0 /\ load = 0)
  <2>1. PICK n \in Nat : cap = 4 * Doubled[n] /\ load <= 3 * Doubled[n]
    BY <1>2 DEF Fits
  <2> DEFINE d == Doubled[n]
  <2>2. d \in Nat /\ 0 < d /\ cap = 4 * d /\ load <= 3 * d
    BY <2>1, DoubledLarge
  <2>3. Doubled[n + 1] = 2 * d /\ n + 1 \in Nat
    BY DoubledStep
  <2> HIDE DEF d
  <2>4. (cap \div 2) + (cap \div 4) = 3 * d
    BY <2>2
  <2>5. CASE load < 3 * d
    <3>1. Grow(cap, load) = cap /\ l <= 3 * d
      BY <2>2, <2>4, <2>5 DEF Grow
    <3> QED BY <2>2, <3>1 DEF Fits, d
  <2>6. CASE ~(load < 3 * d)
    <3>1. Grow(cap, load) = 4 * Doubled[n + 1] /\ l <= 3 * Doubled[n + 1]
      BY <2>2, <2>3, <2>4, <2>6 DEF Grow
    <3> QED BY <2>3, <3>1 DEF Fits
  <2> QED BY <2>5, <2>6
<1> QED BY <1>1, <1>2

(* ... and reallocates at certain loads only.                              *)
LEMMA GrowMoves ==
  ASSUME NEW cap, NEW load \in Nat, Fits(cap, load), load # 0, ~GrowthLoad(load)
  PROVE  Grow(cap, load) = cap
<1>1. PICK n \in Nat : cap = 4 * Doubled[n] /\ load <= 3 * Doubled[n]
  BY DEF Fits
<1> DEFINE d == Doubled[n]
<1>2. d \in Nat /\ n < d /\ cap = 4 * d /\ load <= 3 * d
  BY <1>1, DoubledLarge
<1>3. load # 3 * d
  <2> SUFFICES ASSUME load = 3 * d PROVE FALSE
    OBVIOUS
  <2>1. n \in 0..load
    BY <1>2
  <2> QED BY <2>1 DEF GrowthLoad
<1> HIDE DEF d
<1>4. (cap \div 2) + (cap \div 4) = 3 * d
  BY <1>2
<1> QED BY <1>2, <1>3, <1>4 DEF Grow

LEMMA LoadNat ==
  ASSUME NEW tab, Filled(tab)
  PROVE  /\ Cardinality(DOMAIN tab.names) \in Nat
         /\ Cardinality(DOMAIN tab.ids) \in Nat
         /\ Load(tab) \in Nat
         /\ DOMAIN tab.ids # {} => Load(tab) # 0
<1>1. /\ Cardinality(DOMAIN tab.names) \in Nat
      /\ Cardinality(DOMAIN tab.ids) \in Nat
  BY FS_CardinalityType DEF Filled
<1>2. DOMAIN tab.ids # {} => Cardinality(DOMAIN tab.ids) # 0
  BY FS_EmptySet DEF Filled
<1> QED BY <1>1, <1>2 DEF Load

LEMMA OneMore ==
  ASSUME NEW S, IsFiniteSet(S), NEW x
  PROVE  /\ IsFiniteSet(S \cup {x})
         /\ Cardinality(S \cup {x}) \in Nat
         /\ Cardinality(S \cup {x}) <= Cardinality(S) + 1
<1>1. IsFiniteSet(S \cup {x}) /\ Cardinality(S) \in Nat
  BY FS_AddElement, FS_CardinalityType
<1>2. Cardinality(S \cup {x}) = IF x \in S THEN Cardinality(S) ELSE Cardinality(S) + 1
  BY FS_AddElement
<1> QED BY <1>1, <1>2

LEMMA PutNameFilled ==
  ASSUME NEW tab, Filled(tab), NEW e
  PROVE  Filled(PutName(tab, e))
<1> DEFINE new == PutName(tab, e)
<1>1. /\ DOMAIN new.names = DOMAIN tab.names \cup {e.name}
      /\ new.ids = tab.ids
      /\ new.cap = Grow(tab.cap, Load(tab))
  BY DEF PutName, PutIfAbsent
<1> HIDE DEF new
<1>2. /\ IsFiniteSet(DOMAIN tab.names \cup {e.name})
      /\ Cardinality(DOMAIN tab.names \cup {e.name}) \in Nat
      /\ Cardinality(DOMAIN tab.names \cup {e.name}) <= Cardinality(DOMAIN tab.names) + 1
  BY OneMore DEF Filled
<1>3. Load(new) \in Nat /\ Load(new) <= Load(tab) + 1
  BY <1>1, <1>2, LoadNat DEF Load
<1>4. Fits(new.cap, Load(new))
  BY <1>1, <1>3, LoadNat, GrowFits DEF Filled
<1>5. Filled(new)
  BY <1>1, <1>2, <1>4 DEF Filled
<1> QED BY <1>5 DEF new

LEMMA PutIdFilled ==
  ASSUME NEW tab, Filled(tab), NEW e
  PROVE  Filled(PutId(tab, e))
<1> DEFINE new == PutId(tab, e)
<1>1. /\ DOMAIN new.ids = DOMAIN tab.ids \cup {e.eid}
      /\ new.names = tab.names
      /\ new.cap = Grow(tab.cap, Load(tab))
  BY DEF PutId, PutIfAbsent
<1> HIDE DEF new
<1>2. /\ IsFiniteSet(DOMAIN tab.ids \cup {e.eid})
      /\ Cardinality(DOMAIN tab.ids \cup {e.eid}) \in Nat
      /\ Cardinality(DOMAIN tab.ids \cup {e.eid}) <= Cardinality(DOMAIN tab.ids) + 1
  BY OneMore DEF Filled
<1>3. Load(new) \in Nat /\ Load(new) <= Load(tab) + 1
  BY <1>1, <1>2, LoadNat DEF Load
<1>4. Fits(new.cap, Load(new))
  BY <1>1, <1>3, LoadNat, GrowFits DEF Filled
<1>5. Filled(new)
  BY <1>1, <1>2, <1>4 DEF Filled
<1> QED BY <1>5 DEF new

-------------------------------------------------------------------------------
(* The invariant                                                           *)

Operators == {"BinaryOp", "Index"}

(* Entry j of a table, which is an operator, keeps its operands.           *)
OperandKept(tab, j, e) ==
  e.tag \in Operators =>
    /\ e.ops[2] = j - 1
    /\ ~GrowthLoad(LoadBefore(tab, j - 1)) => e.ops[1] = j - 2

Kept(t) ==
  \A r \in ScopesOf(t) : \A j \in DOMAIN t.table[r].ids :
    OperandKept(t.table[r], j, t.table[r].ids[j])

Counted(t) == \A r \in ScopesOf(t) : Filled(t.table[r])

(* How many ids and scopes the entries keep that a later pass looks into.  *)
Single == {"Cast", "Unary", "AddrOf", "Field", "StructCall", "Var", "Let", "Const",
           "Return", "ExprStmt"} \cup Blocks
Double == {"Assign"} \cup Operators
Nesting == {"Call", "Function", "Extern"}

Shape(tag, kids, ops) ==
  /\ tag \in Single => ops # << >>
  /\ tag \in Double => Len(ops) = 2
  /\ tag \in Nesting => kids # << >>
  /\ tag \in {"If", "Elif"} => Len(kids) = 3
  /\ tag \in {"While", "For", "Match"} => Len(kids) >= 2
  /\ tag = "StructCall" => ops[1] # 0

(* Entry n keeps ids issued before its own, or 0.                          *)
Backward(t, n, e) ==
  /\ e.kids \in Seq(ScopesOf(t))
  /\ e.ops \in Seq(0..(n - 1))
  /\ Shape(e.tag, e.kids, e.ops)

Formed(t) ==
  \A r \in ScopesOf(t) : \A j \in DOMAIN t.table[r].ids :
    Backward(t, j, t.table[r].ids[j])

(* Every id the counter has passed is an entry of some table.               *)
Issued(t) == \A i \in 1..(t.next - 1) : \E r \in ScopesOf(t) : HasId(t, r, i)

Whole(t) == Good(t) /\ Counted(t) /\ Kept(t) /\ Formed(t) /\ Issued(t)

(* What was there before an old entry does not change.                     *)
LEMMA LoadBeforeKept ==
  ASSUME NEW t, Good(t), NEW r \in ScopesOf(t), NEW u, NEW e \in Entry, e.eid = t.next,
         IsInsert(t, u, r, e), NEW j \in Nat, j <= t.next
  PROVE  LoadBefore(u.table[r], j) = LoadBefore(t.table[r], j)
<1> DEFINE old == t.table[r]
           new == u.table[r]
<1>1. /\ DOMAIN new.ids = DOMAIN old.ids \cup {t.next}
      /\ DOMAIN new.names = DOMAIN old.names \cup ({e.name} \ {NoName})
      /\ \A x \in DOMAIN old.names : new.names[x] = old.names[x]
      /\ e.name # NoName /\ e.name \notin DOMAIN old.names => new.names[e.name] = e
  BY DEF IsInsert, InsertedKeys
<1>2. t.next \in Nat
  BY GoodNumbers
<1> HIDE DEF old, new
<1>3. {i \in DOMAIN new.ids : i < j} = {i \in DOMAIN old.ids : i < j}
  BY <1>1, <1>2
<1>4. {x \in DOMAIN new.names : new.names[x].eid < j}
        = {x \in DOMAIN old.names : old.names[x].eid < j}
  <2>1. \A x \in DOMAIN new.names :
          \/ x \in DOMAIN old.names
          \/ x \notin DOMAIN old.names /\ new.names[x].eid = t.next
    BY <1>1
  <2>2. DOMAIN old.names \subseteq DOMAIN new.names
    BY <1>1
  <2> QED BY <1>1, <1>2, <2>1, <2>2
<1>5. LoadBefore(new, j) = LoadBefore(old, j)
  BY <1>3, <1>4 DEF LoadBefore
<1> QED BY <1>5 DEF old, new

(* Everything in a table was there before the next entry.                  *)
LEMMA LoadBeforeNext ==
  ASSUME NEW t, Good(t), NEW r \in ScopesOf(t), Filled(t.table[r])
  PROVE  LoadBefore(t.table[r], t.next) = Load(t.table[r])
<1> DEFINE tab == t.table[r]
<1>1. /\ t.next \in Nat
      /\ \A i \in DOMAIN tab.ids : i \in Nat /\ i < t.next
      /\ \A x \in DOMAIN tab.names : tab.names[x].eid \in DOMAIN tab.ids
  BY DEF Good, TablesType, NamesAgree
<1>2. Cardinality(DOMAIN tab.names) \in Nat /\ Cardinality(DOMAIN tab.ids) \in Nat
  BY LoadNat
<1> HIDE DEF tab
<1>3. {i \in DOMAIN tab.ids : i < t.next} = DOMAIN tab.ids
  BY <1>1
<1>4. {x \in DOMAIN tab.names : tab.names[x].eid < t.next} = DOMAIN tab.names
  BY <1>1
<1>5. LoadBefore(tab, t.next) = Load(tab)
  <2> DEFINE n == t.next
             I == {i \in DOMAIN tab.ids : i < n}
             X == {x \in DOMAIN tab.names : tab.names[x].eid < n}
  <2>1. LoadBefore(tab, n) = Cardinality(I) + Cardinality(X)
    BY DEF LoadBefore
  <2>2. I = DOMAIN tab.ids /\ X = DOMAIN tab.names
    BY <1>3, <1>4
  <2> HIDE DEF I, X, n
  <2>3. LoadBefore(tab, n) = Cardinality(DOMAIN tab.ids) + Cardinality(DOMAIN tab.names)
    BY <2>1, <2>2
  <2>4. LoadBefore(tab, n) = Load(tab)
    BY <1>2, <2>3 DEF Load
  <2> QED BY <2>4 DEF n
<1> QED BY <1>5 DEF tab

LEMMA InsertFilled ==
  ASSUME NEW t, Good(t), Counted(t), NEW r \in ScopesOf(t), NEW entry \in Entry
  PROVE  Counted(Insert(t, r, entry))
<1> DEFINE e == Stamp(t, entry)
           u == Insert(t, r, entry)
<1>1. DOMAIN t.table = ScopesOf(t) /\ ScopesOf(u) = ScopesOf(t)
  BY InsertGood DEF Good, TablesType
<1>2. /\ u.table[r] = PutBoth(t.table[r], e)
      /\ \A s \in ScopesOf(t) \ {r} : u.table[s] = t.table[s]
  BY <1>1 DEF Insert
<1> HIDE DEF u, e
<1>3. Filled(PutBoth(t.table[r], e))
  <2>1. Filled(t.table[r])
    BY DEF Counted
  <2>2. CASE e.name = NoName
    BY <2>1, <2>2, PutIdFilled DEF PutBoth
  <2>3. CASE e.name # NoName
    <3>1. Filled(PutName(t.table[r], e))
      BY <2>1, PutNameFilled
    <3> QED BY <2>3, <3>1, PutIdFilled DEF PutBoth
  <2> QED BY <2>2, <2>3
<1>4. Counted(u)
  BY <1>1, <1>2, <1>3 DEF Counted
<1> QED BY <1>4 DEF u

(* An insert keeps all this if it is right about the operands of its entry. *)
LEMMA InsertWhole ==
  ASSUME NEW t, Whole(t), NEW r \in ScopesOf(t), NEW entry \in Entry,
         OperandKept(t.table[r], t.next, entry), Backward(t, t.next, entry)
  PROVE  /\ Whole(Insert(t, r, entry))
         /\ ScopesOf(Insert(t, r, entry)) = ScopesOf(t)
         /\ Insert(t, r, entry).next = t.next + 1
         /\ t.next \in DOMAIN Insert(t, r, entry).table[r].ids
<1> DEFINE e == Stamp(t, entry)
           u == Insert(t, r, entry)
<1>1. Good(t) /\ TablesType(t) /\ Kept(t) /\ Counted(t) /\ Formed(t) /\ Issued(t)
  BY DEF Whole, Good
<1>2. e \in Entry /\ e.eid = t.next /\ IsInsert(t, u, r, e)
  BY <1>1, StampFacts, InsertShape
<1>3. e.tag = entry.tag /\ e.ops = entry.ops /\ e.kids = entry.kids
  BY DEF Stamp, Entry
<1>4. Good(u) /\ u.next = t.next + 1 /\ ScopesOf(u) = ScopesOf(t)
  BY <1>1, InsertGood
<1>5. Counted(u)
  BY <1>1, InsertFilled
<1> HIDE DEF u, e
<1>6. /\ \A s \in ScopesOf(t) \ {r} : u.table[s] = t.table[s]
      /\ DOMAIN u.table[r].ids = DOMAIN t.table[r].ids \cup {t.next}
      /\ u.table[r].ids[t.next] = e
      /\ \A i \in DOMAIN t.table[r].ids : u.table[r].ids[i] = t.table[r].ids[i]
  BY <1>2 DEF IsInsert, InsertedKeys
<1>7. /\ t.next \in Nat \ {0}
      /\ \A i \in DOMAIN t.table[r].ids : i \in Nat \ {0} /\ i < t.next
  BY <1>1 DEF TablesType
<1>8. \A j \in 1..t.next : LoadBefore(u.table[r], j - 1) = LoadBefore(t.table[r], j - 1)
  BY <1>1, <1>2, <1>7, LoadBeforeKept
<1>9. OperandKept(u.table[r], t.next, e)
  <2>1. LoadBefore(u.table[r], t.next - 1) = LoadBefore(t.table[r], t.next - 1)
    BY <1>7, <1>8
  <2> QED BY <1>3, <2>1 DEF OperandKept
<1>10. ASSUME NEW j \in DOMAIN t.table[r].ids
       PROVE  OperandKept(u.table[r], j, u.table[r].ids[j])
  <2>1. LoadBefore(u.table[r], j - 1) = LoadBefore(t.table[r], j - 1)
    BY <1>7, <1>8
  <2>2. OperandKept(t.table[r], j, t.table[r].ids[j])
    BY <1>1 DEF Kept
  <2>3. u.table[r].ids[j] = t.table[r].ids[j]
    BY <1>6
  <2> QED BY <2>1, <2>2, <2>3 DEF OperandKept
<1>11. Kept(u)
  <2> SUFFICES ASSUME NEW s \in ScopesOf(t), NEW j \in DOMAIN u.table[s].ids
               PROVE  OperandKept(u.table[s], j, u.table[s].ids[j])
    BY <1>4 DEF Kept
  <2>1. CASE s # r
    BY <1>1, <1>6, <2>1 DEF Kept
  <2>2. CASE s = r
    BY <1>6, <1>9, <1>10, <2>2
  <2> QED BY <2>1, <2>2
<1>12. Formed(u)
  <2> SUFFICES ASSUME NEW s \in ScopesOf(t), NEW j \in DOMAIN u.table[s].ids
               PROVE  Backward(u, j, u.table[s].ids[j])
    BY <1>4 DEF Formed
  <2>1. Backward(u, t.next, e)
    BY <1>3, <1>4 DEF Backward
  <2>2. ASSUME j \in DOMAIN t.table[s].ids, u.table[s].ids[j] = t.table[s].ids[j]
        PROVE  Backward(u, j, u.table[s].ids[j])
    <3>1. Backward(t, j, t.table[s].ids[j])
      BY <1>1, <2>2 DEF Formed
    <3> QED BY <1>4, <2>2, <3>1 DEF Backward
  <2> QED BY <1>6, <2>1, <2>2
<1>13. Issued(u)
  <2> SUFFICES ASSUME NEW i \in 1..(u.next - 1)
               PROVE  \E s \in ScopesOf(t) : HasId(u, s, i)
    BY <1>4 DEF Issued
  <2>1. CASE i = t.next
    BY <1>6, <2>1 DEF HasId
  <2>2. CASE i # t.next
    <3>1. i \in 1..(t.next - 1)
      BY <1>4, <1>7, <2>2
    <3>2. PICK s \in ScopesOf(t) : HasId(t, s, i)
      BY <1>1, <3>1 DEF Issued
    <3> QED BY <1>6, <3>2 DEF HasId
  <2> QED BY <2>1, <2>2
<1>14. Whole(u)
  BY <1>4, <1>5, <1>11, <1>12, <1>13 DEF Whole
<1> QED BY <1>4, <1>6, <1>14 DEF u

LEMMA ChildWhole ==
  ASSUME NEW t, Whole(t), NEW r \in ScopesOf(t)
  PROVE  /\ Whole(MakeChild(t, r))
         /\ MakeChild(t, r).next = t.next
         /\ Len(MakeChild(t, r).parent) = Len(t.parent) + 1
         /\ ScopesOf(MakeChild(t, r)) = ScopesOf(t) \cup {Len(t.parent) + 1}
<1> DEFINE u == MakeChild(t, r)
           c == Len(t.parent) + 1
<1>1. Good(t) /\ TablesType(t)
  BY DEF Whole, Good
<1>2. IsChild(t, u, r)
  BY <1>1, MakeChildShape
<1>3. Good(u) /\ Len(u.parent) = c /\ ScopesOf(u) = ScopesOf(t) \cup {c}
  BY <1>1, MakeChildGood
<1>4. /\ \A s \in ScopesOf(t) : u.table[s] = t.table[s]
      /\ u.table[c] = EmptyTable
  BY <1>2 DEF IsChild
<1>5. DOMAIN EmptyTable.ids = {} /\ DOMAIN EmptyTable.names = {} /\ EmptyTable.cap = 0
  BY DEF EmptyTable
<1> HIDE DEF u, c
<1>6. Filled(EmptyTable)
  BY <1>5, FS_EmptySet DEF Filled, Fits, Load
<1>7. Counted(u)
  BY <1>3, <1>4, <1>6 DEF Counted, Whole
<1>8. Kept(u)
  BY <1>3, <1>4, <1>5 DEF Kept, Whole
<1>9. Formed(u)
  <2> SUFFICES ASSUME NEW s \in ScopesOf(u), NEW j \in DOMAIN u.table[s].ids
               PROVE  Backward(u, j, u.table[s].ids[j])
    BY DEF Formed
  <2>1. s \in ScopesOf(t) /\ u.table[s] = t.table[s]
    BY <1>3, <1>4, <1>5
  <2>2. Backward(t, j, t.table[s].ids[j])
    BY <2>1 DEF Whole, Formed
  <2>3. ScopesOf(t) \subseteq ScopesOf(u)
    BY <1>3
  <2>4. t.table[s].ids[j].kids \in Seq(ScopesOf(u))
    BY <2>2, <2>3 DEF Backward
  <2> QED BY <2>1, <2>2, <2>4 DEF Backward
<1>10. u.next = t.next
  BY DEF MakeChild, u
<1>11. Issued(u)
  BY <1>3, <1>4, <1>10 DEF Issued, Whole, HasId
<1> QED BY <1>3, <1>7, <1>8, <1>9, <1>10, <1>11 DEF Whole, u, c
-------------------------------------------------------------------------------
(* Expressions                                                             *)

(* An entry of another kind is always right.                               *)
LEMMA InsertOther ==
  ASSUME NEW t, Whole(t), NEW r \in ScopesOf(t), NEW entry \in Entry,
         entry.tag \notin Operators, Backward(t, t.next, entry)
  PROVE  /\ Whole(Insert(t, r, entry))
         /\ ScopesOf(Insert(t, r, entry)) = ScopesOf(t)
         /\ Insert(t, r, entry).next = t.next + 1
         /\ t.next \in DOMAIN Insert(t, r, entry).table[r].ids
<1>1. OperandKept(t.table[r], t.next, entry)
  BY DEF OperandKept
<1> QED BY <1>1, InsertWhole

(* What registering something does to whole tables.                        *)
Keeps(t, u) == Whole(u) /\ ScopesOf(t) \subseteq ScopesOf(u) /\ t.next <= u.next

(* Most entries keep nothing a later pass relies on, or one id.            *)
Bare == Tags \ (Single \cup Double \cup Nesting)

LEMMA BareShape ==
  ASSUME NEW tag \in Bare, NEW kids, NEW ops
  PROVE  Shape(tag, kids, ops) /\ tag \in Tags \ Operators
BY DEF Bare, Shape, Single, Double, Blocks

LEMMA SingleShape ==
  ASSUME NEW tag \in Single \ Blocks, NEW kids, NEW id,
         tag # "StructCall" \/ id # 0
  PROVE  Shape(tag, kids, <<id>>) /\ tag \in Tags \ Operators
BY DEF Shape, Single, Double, Nesting, Blocks, Operators, Tags

LEMMA BackwardNat ==
  ASSUME NEW t, NEW kids \in Seq(ScopesOf(t)), NEW n \in Nat,
         NEW ops \in Seq(0..(n - 1))
  PROVE  kids \in Seq(Nat) /\ ops \in Seq(Nat)
BY DEF ScopesOf

LEMMA ExprIdBelow ==
  ASSUME NEW t, NEW u, Good(u)
  PROVE  ExprId(t, u) \in 0..(u.next - 1)
BY GoodNumbers DEF ExprId

LEMMA NewWhole ==
  ASSUME NEW t, Whole(t), NEW r \in ScopesOf(t), NEW tag \in Tags \ Operators,
         NEW name \in Names \cup {NoName}, NEW ref \in Names \cup {NoName},
         NEW kids \in Seq(ScopesOf(t)), NEW ops \in Seq(0..(t.next - 1)),
         Shape(tag, kids, ops)
  PROVE  /\ Whole(Insert(t, r, NewEntry(tag, name, ref, kids, ops)))
         /\ ScopesOf(Insert(t, r, NewEntry(tag, name, ref, kids, ops))) = ScopesOf(t)
         /\ Insert(t, r, NewEntry(tag, name, ref, kids, ops)).next = t.next + 1
         /\ t.next \in DOMAIN Insert(t, r, NewEntry(tag, name, ref, kids, ops)).table[r].ids
<1> DEFINE e == NewEntry(tag, name, ref, kids, ops)
<1>0. kids \in Seq(Nat) /\ ops \in Seq(Nat)
  BY BackwardNat, GoodNumbers DEF Whole
<1>1. e \in Entry
  BY <1>0, NewEntryType
<1>2. e.tag = tag /\ Backward(t, t.next, e)
  BY DEF NewEntry, Backward
<1> HIDE DEF e
<1>3. /\ Whole(Insert(t, r, e))
      /\ ScopesOf(Insert(t, r, e)) = ScopesOf(t)
      /\ Insert(t, r, e).next = t.next + 1
      /\ t.next \in DOMAIN Insert(t, r, e).table[r].ids
  BY <1>1, <1>2, InsertOther
<1> QED BY <1>3 DEF e

LEMMA NewKeeps ==
  ASSUME NEW t, Whole(t), NEW r \in ScopesOf(t), NEW tag \in Tags \ Operators,
         NEW name \in Names \cup {NoName}, NEW ref \in Names \cup {NoName},
         NEW kids \in Seq(ScopesOf(t)), NEW ops \in Seq(0..(t.next - 1)),
         Shape(tag, kids, ops)
  PROVE  Keeps(t, Insert(t, r, NewEntry(tag, name, ref, kids, ops)))
<1> DEFINE e == NewEntry(tag, name, ref, kids, ops)
<1>1. t.next \in Nat
  BY GoodNumbers DEF Whole
<1>2. kids \in Seq(Nat) /\ ops \in Seq(Nat)
  BY <1>1, BackwardNat
<1>3. e \in Entry
  BY <1>2, NewEntryType
<1>4. e.tag = tag /\ Backward(t, t.next, e)
  BY DEF NewEntry, Backward
<1> HIDE DEF e
<1>5. /\ Whole(Insert(t, r, e)) /\ ScopesOf(Insert(t, r, e)) = ScopesOf(t)
      /\ Insert(t, r, e).next = t.next + 1
  BY <1>3, <1>4, InsertOther
<1>6. Keeps(t, Insert(t, r, e))
  BY <1>1, <1>5 DEF Keeps
<1> QED BY <1>6 DEF e

LEMMA BareKeeps ==
  ASSUME NEW t, Whole(t), NEW r \in ScopesOf(t), NEW tag \in Bare,
         NEW name \in Names \cup {NoName}, NEW ref \in Names \cup {NoName}
  PROVE  Keeps(t, Insert(t, r, NewEntry(tag, name, ref, << >>, << >>)))
<1>1. << >> \in Seq(ScopesOf(t)) /\ << >> \in Seq(0..(t.next - 1))
  OBVIOUS
<1> QED BY <1>1, BareShape, NewKeeps

LEMMA SingleKeeps ==
  ASSUME NEW t, Whole(t), NEW r \in ScopesOf(t), NEW tag \in Single \ Blocks,
         NEW name \in Names \cup {NoName}, NEW ref \in Names \cup {NoName},
         NEW kids \in Seq(ScopesOf(t)), NEW id \in 0..(t.next - 1),
         tag # "StructCall" \/ id # 0
  PROVE  Keeps(t, Insert(t, r, NewEntry(tag, name, ref, kids, <<id>>)))
<1>1. <<id>> \in Seq(0..(t.next - 1))
  OBVIOUS
<1>2. Shape(tag, kids, <<id>>) /\ tag \in Tags \ Operators
  BY SingleShape
<1> QED BY <1>1, <1>2, NewKeeps

LEMMA KeepsTrans ==
  ASSUME NEW t, Whole(t), NEW u, Keeps(t, u), NEW v, Keeps(u, v)
  PROVE  Keeps(t, v)
<1>1. t.next \in Nat /\ u.next \in Nat /\ v.next \in Nat
  BY GoodNumbers DEF Keeps, Whole
<1> QED BY <1>1 DEF Keeps

LEMMA ChildKeeps ==
  ASSUME NEW t, Whole(t), NEW r \in ScopesOf(t)
  PROVE  /\ Keeps(t, MakeChild(t, r)) /\ Whole(MakeChild(t, r))
         /\ Len(MakeChild(t, r).parent) \in ScopesOf(MakeChild(t, r))
<1>1. t.next \in Nat
  BY GoodNumbers DEF Whole
<1> QED BY <1>1, ChildWhole DEF Keeps

(* ... nor does it matter that it keeps a pointer.                         *)
LEMMA PointerKeeps ==
  ASSUME NEW t, Whole(t), NEW r \in ScopesOf(t), NEW tag \in Single \ Blocks,
         NEW name \in Names \cup {NoName}, NEW ref \in Names \cup {NoName},
         NEW id \in 0..(t.next - 1), NEW g \in Nat, tag # "StructCall"
  PROVE  Keeps(t, Insert(t, r, [NewEntry(tag, name, ref, << >>, <<id>>) EXCEPT !.gen = g]))
<1> DEFINE e == [NewEntry(tag, name, ref, << >>, <<id>>) EXCEPT !.gen = g]
           u == Insert(t, r, e)
<1>1. /\ << >> \in Seq(ScopesOf(t)) /\ << >> \in Seq(Nat)
      /\ <<id>> \in Seq(0..(t.next - 1)) /\ <<id>> \in Seq(Nat)
      /\ Shape(tag, << >>, <<id>>) /\ tag \in Tags \ Operators
  BY SingleShape
<1>2. NewEntry(tag, name, ref, << >>, <<id>>) \in Entry
  BY <1>1, NewEntryType
<1>3. e \in Entry /\ e.tag = tag /\ e.kids = << >> /\ e.ops = <<id>>
  BY <1>2 DEF Entry, NewEntry
<1> HIDE DEF e
<1>4. Backward(t, t.next, e)
  BY <1>1, <1>3 DEF Backward
<1>5. Whole(u) /\ ScopesOf(u) = ScopesOf(t) /\ u.next = t.next + 1
  BY <1>1, <1>3, <1>4, InsertOther
<1>6. t.next \in Nat
  BY GoodNumbers DEF Whole
<1> HIDE DEF u
<1>7. Keeps(t, u)
  BY <1>5, <1>6 DEF Keeps
<1> QED BY <1>7 DEF u, e

LEMMA RegIdentWhole ==
  ASSUME NEW t, Whole(t), NEW r \in ScopesOf(t), NEW x \in Idents \cup {NoName}
  PROVE  /\ Whole(RegIdent(t, r, x))
         /\ ScopesOf(RegIdent(t, r, x)) = ScopesOf(t)
         /\ RegIdent(t, r, x).next = t.next + 1
         /\ t.next \in DOMAIN RegIdent(t, r, x).table[r].ids
<1>1. /\ "Identifier" \in Bare /\ NoName \in Names \cup {NoName}
      /\ x \in Names \cup {NoName}
      /\ << >> \in Seq(ScopesOf(t)) /\ << >> \in Seq(0..(t.next - 1))
  BY ProgramAssumption DEF Tags, Bare, Single, Double, Nesting, Operators, Blocks
<1>2. Shape("Identifier", << >>, << >>) /\ "Identifier" \in Tags \ Operators
  BY <1>1, BareShape
<1> QED BY <1>1, <1>2, NewWhole DEF RegIdent

LEMMA RegIdentKeeps ==
  ASSUME NEW t, Whole(t), NEW r \in ScopesOf(t), NEW x \in Idents \cup {NoName}
  PROVE  Keeps(t, RegIdent(t, r, x))
<1>1. t.next \in Nat
  BY GoodNumbers DEF Whole
<1> QED BY <1>1, RegIdentWhole DEF Keeps

(* Held over the insert of the right operand, the pointer to the left one   *)
(* reads its entry unless that insert made the table grow.                 *)
LEMMA RegOperatorWhole ==
  ASSUME NEW tag \in Operators, NEW t, Whole(t), NEW r \in ScopesOf(t), NEW id \in Nat,
         id = t.next - 1, id \in DOMAIN t.table[r].ids,
         NEW y \in Idents \cup {NoName}, NEW u \in RegOperator(tag, t, r, id, y)
  PROVE  /\ Whole(u) /\ ScopesOf(u) = ScopesOf(t) /\ t.next <= u.next
         /\ u.next \in Nat /\ u.next - 1 \in DOMAIN u.table[r].ids
<1> DEFINE right == RegIdent(t, r, y)
           entry == NewEntry("Identifier", NoName, y, << >>, << >>)
<1>1. Good(t) /\ TablesType(t) /\ Filled(t.table[r]) /\ t.next \in Nat
  BY GoodNumbers DEF Whole, Good, Counted
<1>2. /\ Whole(right) /\ ScopesOf(right) = ScopesOf(t) /\ right.next = t.next + 1
      /\ Good(right)
  BY RegIdentWhole DEF Whole
<1>3. entry \in Entry
  <2>1. /\ "Identifier" \in Tags /\ NoName \in Names \cup {NoName}
        /\ y \in Names \cup {NoName} /\ << >> \in Seq(Nat)
    BY ProgramAssumption DEF Tags
  <2> QED BY <2>1, NewEntryType
<1>4. /\ Stamp(t, entry) \in Entry /\ Stamp(t, entry).eid = t.next
      /\ IsInsert(t, right, r, Stamp(t, entry))
  BY <1>1, <1>3, StampFacts, InsertShape DEF RegIdent
<1>5. right.table[r].cap = Grow(t.table[r].cap, Load(t.table[r]))
  <2>1. Stamp(t, entry).name = NoName
    BY DEF Stamp, NewEntry
  <2>2. DOMAIN t.table = ScopesOf(t)
    BY <1>1 DEF TablesType
  <2>3. right.table[r] = PutId(t.table[r], Stamp(t, entry))
    BY <2>1, <2>2 DEF RegIdent, Insert, PutBoth
  <2> QED BY <2>3 DEF PutId
<1> HIDE DEF right, entry
<1>6. PICK leftId \in Held(t, right, r, id) :
        u = Insert(right, r, NewEntry(tag, NoName, NoName, << >>, <<leftId, t.next>>))
  BY DEF RegOperator, right
<1> DEFINE op == NewEntry(tag, NoName, NoName, << >>, <<leftId, t.next>>)
<1>7. op \in Entry /\ op.ops = <<leftId, t.next>> /\ Backward(right, right.next, op)
  <2>1. leftId \in 0..(right.next - 1) /\ t.next \in 0..(right.next - 1)
    BY <1>1, <1>2, <1>6 DEF Held
  <2>2. /\ NoName \in Names \cup {NoName} /\ tag \in Tags
        /\ << >> \in Seq(Nat) /\ <<leftId, t.next>> \in Seq(Nat)
    BY <1>1, <2>1 DEF Operators, Tags
  <2>3. << >> \in Seq(ScopesOf(right)) /\ <<leftId, t.next>> \in Seq(0..(right.next - 1))
    BY <2>1
  <2>4. Shape(tag, << >>, <<leftId, t.next>>)
    BY DEF Shape, Single, Double, Nesting, Operators, Blocks
  <2>5. op.tag = tag /\ op.kids = << >> /\ op.ops = <<leftId, t.next>>
    BY DEF NewEntry
  <2>6. op \in Entry
    BY <2>2, NewEntryType
  <2> QED BY <2>3, <2>4, <2>5, <2>6 DEF Backward
<1>8. LoadBefore(right.table[r], t.next) = Load(t.table[r])
  BY <1>1, <1>4, LoadBeforeKept, LoadBeforeNext
<1>9. ASSUME ~GrowthLoad(Load(t.table[r])) PROVE leftId = id
  <2>1. Load(t.table[r]) \in Nat /\ Load(t.table[r]) # 0
    BY <1>1, LoadNat
  <2>2. right.table[r].cap = t.table[r].cap
    BY <1>1, <1>5, <1>9, <2>1, GrowMoves DEF Filled
  <2> QED BY <1>6, <2>2 DEF Held
<1>10. OperandKept(right.table[r], right.next, op)
  <2>1. right.next - 1 = t.next /\ right.next - 2 = id
    BY <1>1, <1>2
  <2>2. op.ops[2] = t.next /\ op.ops[1] = leftId
    BY <1>7
  <2> HIDE DEF op
  <2> QED BY <1>8, <1>9, <2>1, <2>2 DEF OperandKept
<1>11. u = Insert(right, r, op)
  BY <1>6
<1> HIDE DEF op
<1>12. /\ Whole(u) /\ ScopesOf(u) = ScopesOf(right) /\ u.next = right.next + 1
       /\ right.next \in DOMAIN u.table[r].ids
  BY <1>2, <1>7, <1>10, <1>11, InsertWhole
<1>13. u.next \in Nat /\ u.next - 1 = right.next /\ t.next <= u.next
  BY <1>1, <1>2, <1>12
<1> QED BY <1>2, <1>12, <1>13

LEMMA RegBinaryWhole ==
  ASSUME NEW tag \in Operators, NEW t, Whole(t), NEW r \in ScopesOf(t),
         NEW x \in Idents \cup {NoName}, NEW y \in Idents \cup {NoName},
         NEW u \in RegBinary(tag, t, r, x, y)
  PROVE  /\ Whole(u) /\ ScopesOf(u) = ScopesOf(t) /\ t.next <= u.next
         /\ u.next \in Nat /\ u.next - 1 \in DOMAIN u.table[r].ids
<1> DEFINE left == RegIdent(t, r, x)
<1>1. /\ Whole(left) /\ ScopesOf(left) = ScopesOf(t) /\ left.next = t.next + 1
      /\ t.next \in DOMAIN left.table[r].ids
  BY RegIdentWhole
<1>2. t.next \in Nat
  BY GoodNumbers DEF Whole
<1>3. u \in RegOperator(tag, left, r, t.next, y)
  BY DEF RegBinary
<1> HIDE DEF left
<1>4. t.next = left.next - 1
  BY <1>1, <1>2
<1>5. /\ Whole(u) /\ ScopesOf(u) = ScopesOf(left) /\ left.next <= u.next
      /\ u.next \in Nat /\ u.next - 1 \in DOMAIN u.table[r].ids
  BY <1>1, <1>2, <1>3, <1>4, RegOperatorWhole
<1> QED BY <1>1, <1>2, <1>5

LEMMA RegChainWhole ==
  ASSUME NEW t, Whole(t), NEW r \in ScopesOf(t), NEW x \in Idents \cup {NoName},
         NEW y \in Idents \cup {NoName}, NEW v \in RegChain(t, r, x, y)
  PROVE  Keeps(t, v)
<1> "BinaryOp" \in Operators
  BY DEF Operators
<1>1. PICK u \in RegBinary("BinaryOp", t, r, x, y) :
        v \in RegOperator("BinaryOp", u, r, u.next - 1, y)
  BY DEF RegChain
<1>2. /\ Whole(u) /\ ScopesOf(u) = ScopesOf(t) /\ t.next <= u.next
      /\ u.next \in Nat /\ u.next - 1 \in DOMAIN u.table[r].ids
  BY <1>1, RegBinaryWhole
<1>3. u.next - 1 \in Nat
  BY <1>2 DEF Whole, Good, TablesType
<1> DEFINE id == u.next - 1
<1>4. id \in Nat /\ id = u.next - 1 /\ id \in DOMAIN u.table[r].ids
      /\ v \in RegOperator("BinaryOp", u, r, id, y)
  BY <1>1, <1>2, <1>3
<1> HIDE DEF id
<1>5. Whole(v) /\ ScopesOf(v) = ScopesOf(u) /\ u.next <= v.next /\ v.next \in Nat
  BY <1>2, <1>4, RegOperatorWhole
<1>6. t.next \in Nat
  BY GoodNumbers DEF Whole
<1> QED BY <1>2, <1>5, <1>6 DEF Keeps
LEMMA CallKeeps ==
  ASSUME NEW t, Whole(t), NEW r \in ScopesOf(t), NEW ref \in Names \cup {NoName},
         NEW c \in ScopesOf(t), NEW ops \in Seq(0..(t.next - 1))
  PROVE  Keeps(t, Insert(t, r, NewEntry("Call", NoName, ref, <<c>>, ops)))
<1>1. /\ "Call" \in Tags \ Operators /\ NoName \in Names \cup {NoName}
      /\ <<c>> \in Seq(ScopesOf(t))
  BY DEF Tags, Operators
<1>2. Shape("Call", <<c>>, ops)
  BY DEF Shape, Single, Double, Nesting, Operators, Blocks
<1> QED BY <1>1, <1>2, NewKeeps

(* The arguments of a call so far: none, or the one just registered.       *)
LEMMA Argument ==
  ASSUME NEW t, Whole(t), NEW u, Whole(u), NEW y,
         u.next = IF y = NoName THEN t.next ELSE t.next + 1
  PROVE  /\ (IF y = NoName THEN << >> ELSE <<t.next>>) \in Seq(0..(u.next - 1))
         /\ t.next <= u.next
<1>1. t.next \in Nat /\ u.next \in Nat
  BY GoodNumbers DEF Whole
<1>2. CASE y = NoName
  BY <1>1, <1>2
<1>3. CASE y # NoName
  <2>1. t.next \in 0..(u.next - 1)
    BY <1>1, <1>3
  <2>2. <<t.next>> \in Seq(0..(u.next - 1))
    BY <2>1
  <2> QED BY <1>1, <1>3, <2>2
<1> QED BY <1>2, <1>3

LEMMA RegCallWhole ==
  ASSUME NEW t, Whole(t), NEW r \in ScopesOf(t), NEW x \in Names \cup {NoName},
         NEW y \in Idents \cup {NoName}
  PROVE  Keeps(t, RegCall(t, r, x, y))
<1> DEFINE child == MakeChild(t, r)
           c     == Len(child.parent)
           args  == IF y = NoName THEN child ELSE RegIdent(child, c, y)
           ops   == IF y = NoName THEN << >> ELSE <<t.next>>
<1>1. /\ Whole(child) /\ c = Len(t.parent) + 1 /\ child.next = t.next
      /\ ScopesOf(child) = ScopesOf(t) \cup {Len(t.parent) + 1}
  BY ChildWhole
<1>2. c \in ScopesOf(child)
  BY <1>1
<1> HIDE DEF child, c
<1>3. /\ Whole(args) /\ ScopesOf(args) = ScopesOf(child)
      /\ args.next = IF y = NoName THEN t.next ELSE t.next + 1
  BY <1>1, <1>2, RegIdentWhole
<1> HIDE DEF args
<1>4. r \in ScopesOf(args) /\ ScopesOf(t) \subseteq ScopesOf(args) /\ c \in ScopesOf(args)
  BY <1>1, <1>2, <1>3
<1>5. ops \in Seq(0..(args.next - 1)) /\ t.next <= args.next
  BY <1>3, Argument
<1> HIDE DEF ops
<1>6. Keeps(args, Insert(args, r, NewEntry("Call", NoName, x, <<c>>, ops)))
  BY <1>3, <1>4, <1>5, CallKeeps
<1>7. RegCall(t, r, x, y) = Insert(args, r, NewEntry("Call", NoName, x, <<c>>, ops))
  BY DEF RegCall, child, c, args, ops
<1>8. Keeps(t, args)
  BY <1>3, <1>4, <1>5 DEF Keeps
<1> DEFINE v == RegCall(t, r, x, y)
<1>9. Keeps(args, v)
  BY <1>6, <1>7
<1> HIDE DEF v
<1>10. Keeps(t, v)
  BY <1>8, <1>9, KeepsTrans
<1> QED BY <1>10 DEF v

LEMMA RegSelfCallWhole ==
  ASSUME NEW t, Whole(t), NEW r \in ScopesOf(t), NEW cls \in Idents \cup {NoName},
         NEW x \in Idents, NEW y \in Idents \cup {NoName}
  PROVE  Keeps(t, RegSelfCall(t, r, cls, x, y))
<1> DEFINE args  == IF y = NoName THEN t ELSE RegIdent(t, r, y)
           child == MakeChild(args, r)
           name  == IF cls = NoName THEN x ELSE Mangled[cls][x][1]
           ops   == IF y = NoName THEN << >> ELSE <<t.next>>
           c     == Len(child.parent)
<1>1. /\ Whole(args) /\ ScopesOf(args) = ScopesOf(t)
      /\ args.next = IF y = NoName THEN t.next ELSE t.next + 1
  BY RegIdentWhole
<1> HIDE DEF args
<1>2. /\ Whole(child) /\ ScopesOf(args) \subseteq ScopesOf(child)
      /\ child.next = args.next /\ c \in ScopesOf(child)
  <2>1. /\ Whole(child) /\ child.next = args.next /\ c = Len(args.parent) + 1
        /\ ScopesOf(child) = ScopesOf(args) \cup {Len(args.parent) + 1}
    BY <1>1, ChildWhole
  <2> QED BY <2>1
<1> HIDE DEF child, c
<1>3. ops \in Seq(0..(child.next - 1)) /\ t.next <= child.next
  BY <1>1, <1>2, Argument
<1>4. name \in Names \cup {NoName}
  BY MangledName, ProgramAssumption
<1>5. r \in ScopesOf(child)
  BY <1>1, <1>2
<1> HIDE DEF ops, name
<1>6. Keeps(child, Insert(child, r, NewEntry("Call", NoName, name, <<c>>, ops)))
  BY <1>2, <1>3, <1>4, <1>5, CallKeeps
<1>7. RegSelfCall(t, r, cls, x, y) =
        Insert(child, r, NewEntry("Call", NoName, name, <<c>>, ops))
  BY DEF RegSelfCall, child, c, args, ops, name
<1>8. Keeps(t, child)
  BY <1>1, <1>2, <1>3 DEF Keeps
<1> DEFINE v == RegSelfCall(t, r, cls, x, y)
<1>9. Keeps(child, v)
  BY <1>6, <1>7
<1> HIDE DEF v
<1>10. Keeps(t, v)
  BY <1>8, <1>9, KeepsTrans
<1> QED BY <1>10 DEF v

(* A name, then an entry that keeps it.                                    *)
LEMMA OperandThenEntry ==
  ASSUME NEW t, Whole(t), NEW r \in ScopesOf(t), NEW x \in Idents \cup {NoName},
         NEW tag \in Single \ Blocks, NEW ref \in Names \cup {NoName}
  PROVE  Keeps(t, Insert(RegIdent(t, r, x), r,
                         NewEntry(tag, NoName, ref, << >>, <<t.next>>)))
<1> DEFINE u == RegIdent(t, r, x)
           v == Insert(u, r, NewEntry(tag, NoName, ref, << >>, <<t.next>>))
<1>1. Whole(u) /\ ScopesOf(u) = ScopesOf(t) /\ u.next = t.next + 1 /\ Keeps(t, u)
  BY RegIdentWhole, RegIdentKeeps
<1>2. /\ << >> \in Seq(ScopesOf(u)) /\ t.next \in 0..(u.next - 1) /\ t.next # 0
      /\ NoName \in Names \cup {NoName}
  BY <1>1, GoodNumbers DEF Whole
<1> HIDE DEF u
<1>3. Keeps(u, v)
  BY <1>1, <1>2, SingleKeeps
<1> HIDE DEF v
<1>4. Keeps(t, v)
  BY <1>1, <1>3, KeepsTrans
<1> QED BY <1>4 DEF u, v

LEMMA RegUnaryWhole ==
  ASSUME NEW tag \in {"Unary", "AddrOf"}, NEW t, Whole(t), NEW r \in ScopesOf(t),
         NEW x \in Idents \cup {NoName}
  PROVE  Keeps(t, RegUnary(tag, t, r, x))
<1> DEFINE u == RegIdent(t, r, x)
           g == u.table[r].cap
           v == RegUnary(tag, t, r, x)
<1>1. Whole(u) /\ ScopesOf(u) = ScopesOf(t) /\ u.next = t.next + 1 /\ Keeps(t, u)
  BY RegIdentWhole, RegIdentKeeps
<1>2. /\ t.next \in 0..(u.next - 1) /\ NoName \in Names \cup {NoName}
      /\ tag \in Single \ Blocks /\ tag # "StructCall"
  BY <1>1, GoodNumbers DEF Whole, Single, Blocks
<1>3. g \in Nat
  BY <1>1 DEF Whole, Good, TablesType
<1>4. v = Insert(u, r, [NewEntry(tag, NoName, NoName, << >>, <<t.next>>) EXCEPT !.gen = g])
  BY DEF RegUnary
<1> HIDE DEF u, g, v
<1>5. Keeps(u, v)
  BY <1>1, <1>2, <1>3, <1>4, PointerKeeps
<1>6. Keeps(t, v)
  BY <1>1, <1>5, KeepsTrans
<1> QED BY <1>6 DEF v

LEMMA RegFieldWhole ==
  ASSUME NEW t, Whole(t), NEW r \in ScopesOf(t), NEW x \in Idents \cup {NoName},
         NEW y \in Idents \cup {NoName}
  PROVE  Keeps(t, RegField(t, r, x, y))
<1> DEFINE id == LocalId(t, r, x)
           g  == t.table[r].cap
<1>1. id \in 0..(t.next - 1) /\ g \in Nat
  <2>1. TablesType(t) /\ NamesAgree(t) /\ t.next \in Nat \ {0}
    BY GoodNumbers DEF Whole, Good
  <2>2. DOMAIN t.table[r].ids \subseteq 1..(t.next - 1)
    BY <2>1 DEF TablesType
  <2>3. \A z \in DOMAIN t.table[r].names : t.table[r].names[z].eid \in DOMAIN t.table[r].ids
    BY <2>1 DEF NamesAgree
  <2>4. \A z \in DOMAIN t.table[r].names : t.table[r].names[z].eid \in 0..(t.next - 1)
    BY <2>1, <2>2, <2>3
  <2> QED BY <2>1, <2>4 DEF TablesType, LocalId
<1> HIDE DEF id, g
<1>2. /\ "Field" \in Single \ Blocks /\ y \in Names \cup {NoName}
      /\ NoName \in Names \cup {NoName}
  BY ProgramAssumption DEF Single, Blocks
<1>3. Keeps(t, Insert(t, r, [NewEntry("Field", NoName, y, << >>, <<id>>)
                               EXCEPT !.gen = g]))
  BY <1>1, <1>2, PointerKeeps
<1>4. RegField(t, r, x, y) =
        Insert(t, r, [NewEntry("Field", NoName, y, << >>, <<id>>) EXCEPT !.gen = g])
  BY DEF RegField, id, g
<1> QED BY <1>3, <1>4

(* register_expr, whichever of its cases runs.                             *)
LEMMA RegExprWhole ==
  ASSUME NEW t, Whole(t), NEW r \in ScopesOf(t), NEW cls \in Idents \cup {NoName},
         NEW e \in Exprs \cup Targets \cup {NoExpr, ZeroedExpr},
         NEW u \in RegExpr(t, r, cls, e)
  PROVE  Keeps(t, u)
<1>1. e \in ExprShapes /\ NamesCallee(e)
  BY ProgramAssumption DEF NoExpr, ZeroedExpr, ExprShapes, Targets, NamesCallee
<1>2. /\ e.x \in Idents \cup {NoName} /\ e.y \in Idents \cup {NoName}
      /\ e.x \in Names \cup {NoName}
      /\ e.k \in {"Null", "Literal", "Ident", "BinaryOp", "Chain", "Index",
                 "Call", "SelfCall", "ClassCall", "Make", "Unary", "AddrOf",
                 "Cast", "Field", "Builtin"}
      /\ {"BinaryOp", "Index"} \subseteq Operators
      /\ {"Unary", "AddrOf", "Cast", "StructCall"} \subseteq Single \ Blocks
      /\ "Literal" \in Bare /\ NoName \in Names \cup {NoName} /\ t.next \in Nat
  BY <1>1, ProgramAssumption, GoodNumbers
     DEF ExprShapes, Tags, Operators, Single, Double, Nesting, Bare, Blocks, Whole
<1>3. CASE e.k \in {"Null", "Builtin"}
  BY <1>2, <1>3 DEF RegExpr, Keeps
<1>4. CASE e.k = "Literal"
  <2>1. u = RegLiteral(t, r)
    BY <1>4 DEF RegExpr
  <2> QED BY <1>2, <2>1, BareKeeps DEF RegLiteral
<1>5. CASE e.k = "Ident"
  BY <1>2, <1>5, RegIdentKeeps DEF RegExpr
<1>6. CASE e.k \in {"BinaryOp", "Index"}
  <2>1. PICK tag \in Operators, x \in Idents \cup {NoName}, y \in Idents \cup {NoName} :
          u \in RegBinary(tag, t, r, x, y)
    BY <1>2, <1>6 DEF RegExpr
  <2>2. Whole(u) /\ ScopesOf(u) = ScopesOf(t) /\ t.next <= u.next
    BY <2>1, RegBinaryWhole
  <2> QED BY <2>2 DEF Keeps
<1>7. CASE e.k = "Chain"
  BY <1>2, <1>7, RegChainWhole DEF RegExpr
<1>8. CASE e.k = "Call"
  BY <1>2, <1>8, RegCallWhole DEF RegExpr
<1>9. CASE e.k = "SelfCall"
  BY <1>1, <1>2, <1>9, RegSelfCallWhole DEF RegExpr, NamesCallee
<1>10. CASE e.k = "ClassCall"
  <2>1. e.x \in Idents /\ e.y \in Idents
    BY <1>1, <1>2, <1>10 DEF NamesCallee
  <2>2. Mangled[e.x][e.y][1] \in Names
    BY <2>1, MangledName
  <2>3. u = RegCall(t, r, Mangled[e.x][e.y][1], e.y)
    BY <1>10 DEF RegExpr, RegClassCall
  <2> QED BY <1>2, <2>2, <2>3, RegCallWhole
<1>11. CASE e.k = "Make"
  <2>1. u = RegMake(t, r, e.x, e.y)
    BY <1>11 DEF RegExpr
  <2> QED BY <1>2, <2>1, OperandThenEntry DEF RegMake
<1>12. CASE e.k \in {"Unary", "AddrOf"}
  BY <1>2, <1>12, RegUnaryWhole DEF RegExpr
<1>13. CASE e.k = "Cast"
  <2>1. u = RegCast(t, r, e.x)
    BY <1>13 DEF RegExpr
  <2> QED BY <1>2, <2>1, OperandThenEntry DEF RegCast
<1>14. CASE e.k = "Field"
  BY <1>2, <1>14, RegFieldWhole DEF RegExpr
<1> QED BY <1>2, <1>3, <1>4, <1>5, <1>6, <1>7, <1>8, <1>9, <1>10, <1>11, <1>12,
           <1>13, <1>14
-------------------------------------------------------------------------------
(* Steps                                                                   *)

(* A handler will insert an entry of its own kind, or a method a function:  *)
(* it has what that must keep.                                             *)
Closing(kind) == IF kind = "Method" THEN "Function" ELSE kind

Ready(t, f) ==
  /\ f.ops \in Seq(0..(t.next - 1))
  /\ Shape(Closing(f.kind), f.kids, f.ops)

FramesReady(s, t) == \A i \in DOMAIN s : Ready(t, s[i])

WInv == IInv /\ Whole(T) /\ FramesReady(stack, T)

LEMMA LeafWhole ==
  ASSUME WInv, LeafStmt
  PROVE  Keeps(T, T')
<1>1. stack # << >>
  BY DEF LeafStmt, RegisterStruct, RegisterEnum, RegisterVar, RegisterAssign,
         RegisterLet, RegisterReturn, RegisterExprStmt, RegisterAtomic, SkipLocal,
         SkipElse, Leaf, Stmt
<1>2. /\ IInv /\ Whole(T) /\ Top.reg \in ScopesOf(T) /\ Top.cls \in Idents \cup {NoName}
      /\ {"Struct", "Enum", "Atomic", "Literal"} \subseteq Bare
      /\ {"Return", "ExprStmt", "Var", "Let", "Const"} \subseteq Single \ Blocks
      /\ NoName \in Names \cup {NoName} /\ Idents \subseteq Names \cup {NoName}
      /\ T.next \in Nat \ {0}
  BY <1>1, TopFacts, ProgramAssumption, GoodNumbers
     DEF WInv, Whole, Tags, Bare, Single, Double, Nesting, Operators, Blocks
<1>3. ASSUME NEW x \in Idents, RegisterStruct(x) \/ RegisterEnum(x) PROVE Keeps(T, T')
  <2>1. PICK tag \in {"Struct", "Enum"} :
          T' = Insert(T, Top.reg, NewEntry(tag, x, NoName, << >>, << >>))
    BY <1>3 DEF RegisterStruct, RegisterEnum
  <2> QED BY <1>2, <2>1, BareKeeps
<1>4. ASSUME NEW x \in Idents, NEW e \in Exprs, RegisterVar(x, e) PROVE Keeps(T, T')
  <2>1. CASE e.k = "Null"
    <3>1. T' = Insert(T, Top.reg, NewEntry("Var", x, NoName, << >>, <<0>>))
      BY <1>4, <2>1 DEF RegisterVar
    <3>2. 0 \in 0..(T.next - 1) /\ << >> \in Seq(ScopesOf(T))
      BY <1>2
    <3> QED BY <1>2, <3>1, <3>2, SingleKeeps
  <2>2. CASE e.k # "Null"
    <3> DEFINE child == MakeChild(T, Top.reg)
               c     == Len(child.parent)
    <3>1. PICK t \in RegExpr(child, c, Top.cls, e) :
            T' = Insert(t, Top.reg, NewEntry("Var", x, NoName, <<c>>, <<ExprId(T, t)>>))
      BY <1>4, <2>2 DEF RegisterVar
    <3>2. Keeps(T, child) /\ Whole(child) /\ c \in ScopesOf(child)
      BY <1>2, ChildKeeps
    <3> HIDE DEF child, c
    <3>3. Keeps(child, t)
      BY <1>2, <3>1, <3>2, RegExprWhole
    <3>4. Keeps(T, t)
      BY <1>2, <3>2, <3>3, KeepsTrans
    <3>5. Whole(t) /\ Good(t) /\ Top.reg \in ScopesOf(t) /\ c \in ScopesOf(t)
      BY <1>2, <3>2, <3>3, <3>4 DEF Keeps, Whole
    <3>6. ExprId(T, t) \in 0..(t.next - 1) /\ <<c>> \in Seq(ScopesOf(t))
      BY <3>5, ExprIdBelow
    <3>7. Keeps(t, T')
      BY <1>2, <3>1, <3>5, <3>6, SingleKeeps
    <3> QED BY <1>2, <3>4, <3>7, KeepsTrans
  <2> QED BY <2>1, <2>2
<1>5. ASSUME NEW kind \in {"Let", "Const"}, NEW x \in Idents, NEW e \in Exprs,
             RegisterLet(kind, x, e)
      PROVE  Keeps(T, T')
  <2>1. PICK t \in RegExpr(T, Top.reg, Top.cls, LetInit(e)) :
          T' = Insert(t, Top.reg,
                      [NewEntry(kind, x, NoName, << >>, <<ExprId(T, t)>>)
                         EXCEPT !.gen = t.table[Top.reg].cap])
    BY <1>5 DEF RegisterLet
  <2>2. LetInit(e) \in Exprs \cup {NoExpr}
    BY DEF LetInit
  <2>3. Keeps(T, t)
    BY <1>2, <2>1, <2>2, RegExprWhole
  <2>4. Whole(t) /\ Good(t) /\ Top.reg \in ScopesOf(t)
    BY <1>2, <2>3 DEF Keeps, Whole
  <2> DEFINE g == t.table[Top.reg].cap
             id == ExprId(T, t)
  <2>5. g \in Nat
    BY <2>4 DEF Good, TablesType
  <2>6. id \in 0..(t.next - 1)
    BY <2>4, ExprIdBelow
  <2>7. T' = Insert(t, Top.reg, [NewEntry(kind, x, NoName, << >>, <<id>>) EXCEPT !.gen = g])
    BY <2>1
  <2> HIDE DEF g, id
  <2>8. Keeps(t, T')
    BY <1>2, <2>4, <2>5, <2>6, <2>7, PointerKeeps
  <2> QED BY <1>2, <2>3, <2>8, KeepsTrans
<1>6. ASSUME NEW d \in Targets, NEW e \in Exprs, RegisterAssign(d, e) PROVE Keeps(T, T')
  <2>1. PICK target \in RegExpr(T, Top.reg, Top.cls, d) :
          \E t \in RegExpr(target, Top.reg, Top.cls, e) :
            \E targetId \in Held(target, t, Top.reg, ExprId(T, target)) :
              T' = Insert(t, Top.reg, NewEntry("Assign", NoName, NoName, << >>,
                                               <<targetId, ExprId(target, t)>>))
    BY <1>6 DEF RegisterAssign
  <2>2. PICK t \in RegExpr(target, Top.reg, Top.cls, e) :
          \E targetId \in Held(target, t, Top.reg, ExprId(T, target)) :
            T' = Insert(t, Top.reg, NewEntry("Assign", NoName, NoName, << >>,
                                             <<targetId, ExprId(target, t)>>))
    BY <2>1
  <2>3. Keeps(T, target)
    BY <1>2, RegExprWhole
  <2>4. Whole(target) /\ Top.reg \in ScopesOf(target)
    BY <1>2, <2>3 DEF Keeps
  <2>5. Keeps(target, t)
    BY <1>2, <2>2, <2>4, RegExprWhole
  <2>6. Whole(t) /\ Top.reg \in ScopesOf(t) /\ target.next <= t.next
    BY <2>4, <2>5 DEF Keeps
  <2>7. PICK targetId \in Held(target, t, Top.reg, ExprId(T, target)) :
          T' = Insert(t, Top.reg, NewEntry("Assign", NoName, NoName, << >>,
                                           <<targetId, ExprId(target, t)>>))
    BY <2>2
  <2>8. targetId \in 0..(t.next - 1) /\ ExprId(target, t) \in 0..(t.next - 1)
    <3>1. Good(t) /\ Good(target) /\ t.next \in Nat /\ target.next \in Nat
      BY <2>4, <2>6, GoodNumbers DEF Whole
    <3>2. ExprId(T, target) \in 0..(target.next - 1) /\ ExprId(target, t) \in 0..(t.next - 1)
      BY <3>1, ExprIdBelow
    <3> HIDE DEF ExprId
    <3> QED BY <2>6, <2>7, <3>1, <3>2 DEF Held
  <2> DEFINE id == ExprId(target, t)
  <2>9. /\ <<targetId, id>> \in Seq(0..(t.next - 1)) /\ << >> \in Seq(ScopesOf(t))
        /\ "Assign" \in Tags \ Operators
    BY <2>8 DEF Tags, Operators
  <2>10. T' = Insert(t, Top.reg, NewEntry("Assign", NoName, NoName, << >>, <<targetId, id>>))
    BY <2>7
  <2> HIDE DEF id
  <2>11. Shape("Assign", << >>, <<targetId, id>>)
    BY DEF Shape, Single, Double, Nesting, Operators, Blocks
  <2>12. Keeps(t, T')
    BY <1>2, <2>6, <2>9, <2>10, <2>11, NewKeeps
  <2>13. Keeps(T, t)
    BY <1>2, <2>3, <2>5, KeepsTrans
  <2> QED BY <1>2, <2>12, <2>13, KeepsTrans
<1>7. ASSUME NEW tag \in {"Return", "ExprStmt"}, NEW e \in Exprs,
             NEW t \in RegExpr(T, Top.reg, Top.cls, e),
             T' = Insert(t, Top.reg,
                         NewEntry(tag, NoName, NoName, << >>, <<ExprId(T, t)>>))
      PROVE  Keeps(T, T')
  <2>1. Keeps(T, t)
    BY <1>2, <1>7, RegExprWhole
  <2>2. Whole(t) /\ Good(t) /\ Top.reg \in ScopesOf(t)
    BY <1>2, <2>1 DEF Keeps, Whole
  <2>3. ExprId(T, t) \in 0..(t.next - 1) /\ << >> \in Seq(ScopesOf(t))
    BY <2>2, ExprIdBelow
  <2>4. Keeps(t, T')
    BY <1>2, <1>7, <2>2, <2>3, SingleKeeps
  <2> QED BY <1>2, <2>1, <2>4, KeepsTrans
<1>8. ASSUME NEW e \in Exprs, RegisterReturn(e) \/ RegisterExprStmt(e) PROVE Keeps(T, T')
  BY <1>7, <1>8 DEF RegisterReturn, RegisterExprStmt
<1>9. CASE RegisterAtomic
  <2> DEFINE u == RegLiteral(T, Top.reg)
  <2>1. Keeps(T, u)
    BY <1>2, BareKeeps DEF RegLiteral
  <2>2. T' = Insert(u, Top.reg, NewEntry("Atomic", NoName, NoName, << >>, << >>))
    BY <1>9 DEF RegisterAtomic
  <2> HIDE DEF u
  <2>3. Whole(u) /\ Top.reg \in ScopesOf(u)
    BY <1>2, <2>1 DEF Keeps
  <2>4. Keeps(u, T')
    BY <1>2, <2>2, <2>3, BareKeeps
  <2> QED BY <1>2, <2>1, <2>4, KeepsTrans
<1>10. CASE SkipLocal \/ SkipElse
  BY <1>2, <1>10 DEF SkipLocal, SkipElse, Keeps
<1> QED BY <1>3, <1>4, <1>5, <1>6, <1>8, <1>9, <1>10 DEF LeafStmt

LEMMA HeaderWhole ==
  ASSUME WInv, Header
  PROVE  Keeps(T, T')
<1>1. stack # << >>
  BY DEF Header, RegisterParam, RegisterField, RegisterExternFunc,
         RegisterParamExpr, NextHeader
<1>2. /\ IInv /\ Whole(T) /\ Top.reg \in ScopesOf(T)
      /\ {"Param", "ExternFunc"} \subseteq Bare /\ "Var" \in Single \ Blocks
      /\ NoName \in Names \cup {NoName} /\ Idents \subseteq Names \cup {NoName}
      /\ << >> \in Seq(ScopesOf(T)) /\ 0 \in 0..(T.next - 1)
  BY <1>1, TopFacts, ProgramAssumption, GoodNumbers
     DEF WInv, Whole, Tags, Bare, Single, Double, Nesting, Operators, Blocks
<1>3. ASSUME NEW x \in Idents, RegisterParam(x) \/ RegisterExternFunc(x)
      PROVE  Keeps(T, T')
  <2>1. PICK tag \in {"Param", "ExternFunc"} :
          T' = Insert(T, Top.reg, NewEntry(tag, x, NoName, << >>, << >>))
    BY <1>3 DEF RegisterParam, RegisterExternFunc
  <2> QED BY <1>2, <2>1, BareKeeps
<1>4. ASSUME NEW x \in Idents, RegisterField(x) PROVE Keeps(T, T')
  BY <1>2, <1>4, SingleKeeps DEF RegisterField
<1>5. ASSUME RegisterParamExpr PROVE Keeps(T, T')
  BY <1>2, <1>5, RegExprWhole DEF RegisterParamExpr
<1> QED BY <1>3, <1>4, <1>5 DEF Header

LEMMA ReadyKept ==
  ASSUME NEW t, Whole(t), NEW u, Keeps(t, u), NEW f, Ready(t, f)
  PROVE  Ready(u, f)
<1>1. t.next \in Nat /\ u.next \in Nat /\ t.next <= u.next
  BY GoodNumbers DEF Keeps, Whole
<1>2. 0..(t.next - 1) \subseteq 0..(u.next - 1)
  BY <1>1
<1> DEFINE A == 0..(t.next - 1)
           B == 0..(u.next - 1)
<1>3. f.ops \in Seq(A) /\ A \subseteq B /\ Shape(Closing(f.kind), f.kids, f.ops)
  BY <1>2 DEF Ready
<1> HIDE DEF A, B
<1>4. f.ops \in Seq(B)
  BY <1>3
<1> QED BY <1>3, <1>4 DEF Ready, B

LEMMA SameReady ==
  ASSUME WInv, Keeps(T, T'), UNCHANGED stack
  PROVE  FramesReady(stack', T')
BY ReadyKept DEF WInv, FramesReady

LEMMA PushReady ==
  ASSUME WInv, Keeps(T, T'), NEW s, DOMAIN s = DOMAIN stack, s \in Seq(FrameType(T)),
         \A i \in DOMAIN s : Ready(T, s[i]), NEW f, Ready(T', f), stack' = Append(s, f)
  PROVE  FramesReady(stack', T')
<1> SUFFICES ASSUME NEW i \in DOMAIN stack' PROVE Ready(T', stack'[i])
  BY DEF FramesReady
<1>1. CASE i \in DOMAIN s
  <2>1. stack'[i] = s[i]
    BY <1>1
  <2> QED BY <1>1, <2>1, ReadyKept DEF WInv
<1>2. CASE i \notin DOMAIN s
  <2>1. i = Len(s) + 1
    BY <1>2
  <2> QED BY <2>1
<1> QED BY <1>1, <1>2

LEMMA PopReady ==
  ASSUME WInv, Keeps(T, T'), stack # << >>, Pop
  PROVE  FramesReady(stack', T')
<1>1. stack \in Seq(FrameType(T))
  BY DEF WInv, IInv, StackOK
<1> SUFFICES ASSUME NEW i \in DOMAIN stack' PROVE Ready(T', stack'[i])
  BY DEF FramesReady
<1>2. i \in DOMAIN stack /\ stack'[i] = stack[i]
  BY <1>1 DEF Pop
<1> QED BY <1>2, ReadyKept DEF WInv, FramesReady

LEMMA SetTopReady ==
  ASSUME WInv, Keeps(T, T'), stack # << >>, NEW f, f.kind = Top.kind, f.ops = Top.ops,
         \/ f.kids = Top.kids
         \/ f.kind = "Match" /\ \E k : f.kids = Append(Top.kids, k),
         SetTop(f)
  PROVE  FramesReady(stack', T')
<1>1. stack \in Seq(FrameType(T)) /\ Top.kids \in Seq(ScopesOf(T))
  BY TopFacts DEF WInv, IInv, StackOK
<1>2. Ready(T, Top)
  BY <1>1 DEF WInv, FramesReady, Top
<1>3. Ready(T, f)
  <2>1. CASE f.kids = Top.kids
    BY <1>2, <2>1 DEF Ready
  <2>2. CASE f.kind = "Match" /\ \E k : f.kids = Append(Top.kids, k)
    <3>1. PICK k : f.kids = Append(Top.kids, k)
      BY <2>2
    <3>2. Len(f.kids) = Len(Top.kids) + 1 /\ Len(Top.kids) \in Nat
      BY <1>1, <3>1
    <3> QED BY <1>2, <2>2, <3>2
            DEF Ready, Closing, Shape, Single, Double, Nesting, Operators, Blocks
  <2> QED BY <2>1, <2>2
<1> SUFFICES ASSUME NEW i \in DOMAIN stack' PROVE Ready(T', stack'[i])
  BY DEF FramesReady
<1>4. CASE i = Len(stack)
  BY <1>1, <1>3, <1>4, ReadyKept DEF WInv, SetTop
<1>5. CASE i # Len(stack)
  BY <1>1, <1>5, ReadyKept DEF WInv, SetTop, FramesReady
<1> QED BY <1>4, <1>5

(* A statement of one piece, and a header loop, leave the handlers alone.  *)
LEMMA LeafReady ==
  ASSUME WInv, LeafStmt \/ Header, Keeps(T, T')
  PROVE  FramesReady(stack', T')
<1>1. CASE UNCHANGED stack
  BY <1>1, SameReady
<1>2. ASSUME stack # << >>, NEW f, SetTop(f),
             f = [Top EXCEPT !.full = TRUE] \/ f = [Top EXCEPT !.todo = Tail(@)]
      PROVE  FramesReady(stack', T')
  <2>1. Top \in FrameType(T)
    BY <1>2, TopFacts DEF WInv
  <2>2. f.kind = Top.kind /\ f.ops = Top.ops /\ f.kids = Top.kids
    BY <1>2, <2>1 DEF FrameType
  <2> QED BY <1>2, <2>2, SetTopReady
<1>3. \/ UNCHANGED stack
      \/ stack # << >> /\ SetTop([Top EXCEPT !.full = TRUE])
      \/ stack # << >> /\ SetTop([Top EXCEPT !.todo = Tail(@)])
  BY DEF LeafStmt, Header, RegisterStruct, RegisterEnum, RegisterVar, RegisterAssign,
         RegisterLet, RegisterReturn, RegisterExprStmt, RegisterAtomic, SkipLocal,
         SkipElse, Leaf, RegisterParam, RegisterField, RegisterExternFunc,
         RegisterParamExpr, NextHeader, HeaderDone
<1> QED BY <1>1, <1>2, <1>3

(* A handler that keeps at most the child it works in.                     *)
LEMMA PlainReady ==
  ASSUME NEW t, NEW kind, NEW kids, NEW f, f.kind = kind, f.kids = kids, f.ops = << >>,
         \/ kind \in {"Class", "Trait", "TraitMethod", "Module"}
         \/ kind \in {"Function", "Method", "Extern"} /\ \E c : kids = <<c>>
  PROVE  Ready(t, f)
<1>1. << >> \in Seq(0..(t.next - 1))
  OBVIOUS
<1>2. Shape(Closing(kind), kids, << >>)
  BY DEF Shape, Closing, Single, Double, Nesting, Operators, Blocks
<1> QED BY <1>1, <1>2 DEF Ready

(* A block: its head is registered in the first of its new children.       *)
LEMMA BlockReady ==
  ASSUME NEW t, NEW f, NEW id \in 0..(t.next - 1), f.ops = <<id>>,
         \/ f.kind \in {"If", "Elif"} /\ Len(f.kids) = 3
         \/ f.kind \in {"While", "For", "Match"} /\ Len(f.kids) = 2
  PROVE  Ready(t, f)
<1>1. <<id>> \in Seq(0..(t.next - 1))
  OBVIOUS
<1> DEFINE kind == f.kind
           kids == f.kids
           ops  == <<id>>
<1>2. /\ ops # << >>
      /\ \/ kind \in {"If", "Elif"} /\ Len(kids) = 3
         \/ kind \in {"While", "For", "Match"} /\ Len(kids) = 2
  OBVIOUS
<1> HIDE DEF kind, kids, ops
<1>3. Closing(kind) = kind /\ kind \notin Double \cup Nesting
  BY <1>2 DEF Closing, Double, Nesting, Operators
<1>4. Shape(kind, kids, ops)
  <2>1. CASE kind \in {"If", "Elif"} /\ Len(kids) = 3
    BY <1>2, <1>3, <2>1 DEF Shape
  <2>2. CASE kind \in {"While", "For", "Match"} /\ Len(kids) = 2
    <3>1. kind \notin {"If", "Elif"} /\ Len(kids) >= 2
      BY <2>2
    <3> QED BY <1>2, <1>3, <3>1 DEF Shape
  <2> QED BY <1>2, <2>1, <2>2
<1> QED BY <1>1, <1>3, <1>4 DEF Ready, kind, kids, ops

LEMMA IfWhole ==
  ASSUME WInv, NEW kind \in {"If", "Elif"}, NEW e \in Exprs, EnterIf(kind, e), stack # << >>
  PROVE  Keeps(T, T') /\ FramesReady(stack', T')
<1> DEFINE n  == Len(T.parent)
           t1 == MakeChild(T, Top.reg)
           t2 == MakeChild(t1, Top.reg)
           t3 == MakeChild(t2, Top.reg)
           f  == Frame(kind, n + 2, Top.reg, Top.cls, NoName,
                       <<n + 1, n + 2, n + 3>>, <<ExprId(t3, T')>>, << >>)
           s  == [stack EXCEPT ![Len(stack)].full = InElse(Top)]
<1>1. /\ IInv /\ Whole(T) /\ Top.reg \in ScopesOf(T) /\ Top.cls \in Idents \cup {NoName}
      /\ Top \in FrameType(T) /\ stack \in Seq(FrameType(T))
  BY TopFacts DEF WInv, IInv, StackOK
<1>2. T' \in RegExpr(t3, n + 1, Top.cls, e) /\ stack' = Append(s, f)
  BY DEF EnterIf
<1>3. Keeps(T, t1) /\ Whole(t1) /\ Top.reg \in ScopesOf(t1) /\ n + 1 \in ScopesOf(t1)
  BY <1>1, ChildWhole, ChildKeeps DEF Keeps
<1> HIDE DEF t1
<1>4. Keeps(t1, t2) /\ Whole(t2) /\ Top.reg \in ScopesOf(t2) /\ n + 1 \in ScopesOf(t2)
  BY <1>3, ChildKeeps DEF Keeps
<1> HIDE DEF t2
<1>5. Keeps(t2, t3) /\ Whole(t3) /\ n + 1 \in ScopesOf(t3)
  BY <1>4, ChildKeeps DEF Keeps
<1> HIDE DEF t3, n
<1>6. Keeps(t3, T')
  BY <1>1, <1>2, <1>5, RegExprWhole
<1>7. Keeps(T, T')
  BY <1>1, <1>3, <1>4, <1>5, <1>6, KeepsTrans
<1>8. ExprId(t3, T') \in 0..(T'.next - 1)
  BY <1>7, ExprIdBelow DEF Keeps, Whole
<1>9. f.kind = kind /\ Len(f.kids) = 3 /\ f.ops = <<ExprId(t3, T')>>
  BY DEF Frame
<1> HIDE DEF f
<1>10. Ready(T', f)
  BY <1>8, <1>9, BlockReady
<1>11. DOMAIN s = DOMAIN stack /\ s \in Seq(FrameType(T))
  <2>1. InElse(Top) \in BOOLEAN
    BY DEF InElse
  <2>2. [Top EXCEPT !.full = InElse(Top)] \in FrameType(T)
    BY <1>1, <2>1 DEF FrameType
  <2>3. s = [stack EXCEPT ![Len(stack)] = [Top EXCEPT !.full = InElse(Top)]]
    BY <1>1 DEF Top
  <2> QED BY <1>1, <2>2, <2>3
<1>12. \A i \in DOMAIN s : Ready(T, s[i])
  <2> SUFFICES ASSUME NEW i \in DOMAIN s PROVE Ready(T, s[i])
    OBVIOUS
  <2>1. Ready(T, stack[i]) /\ stack[i] \in FrameType(T)
    BY <1>1, <1>11 DEF WInv, FramesReady
  <2>2. s[i] = stack[i] \/ s[i] = [stack[i] EXCEPT !.full = InElse(Top)]
    BY <1>1, <1>11
  <2>3. s[i].ops = stack[i].ops /\ s[i].kids = stack[i].kids /\ s[i].kind = stack[i].kind
    BY <2>1, <2>2 DEF FrameType
  <2> QED BY <2>1, <2>3 DEF Ready
<1> HIDE DEF s
<1> QED BY <1>2, <1>7, <1>10, <1>11, <1>12, PushReady

LEMMA BlockWhole ==
  ASSUME WInv, NEW kind \in {"While", "For", "Match"}, NEW e \in Exprs, NEW full \in BOOLEAN,
         EnterBlock(kind, e, full), stack # << >>
  PROVE  Keeps(T, T') /\ FramesReady(stack', T')
<1> DEFINE n  == Len(T.parent)
           t1 == MakeChild(T, Top.reg)
           t2 == MakeChild(t1, Top.reg)
           g  == Frame(kind, n + 2, Top.reg, Top.cls, NoName, <<n + 1, n + 2>>,
                       <<ExprId(t2, T')>>, << >>)
           f  == [g EXCEPT !.full = full]
<1>1. /\ IInv /\ Whole(T) /\ Top.reg \in ScopesOf(T) /\ Top.cls \in Idents \cup {NoName}
      /\ stack \in Seq(FrameType(T))
  BY TopFacts DEF WInv, IInv, StackOK
<1>2. T' \in RegExpr(t2, n + 1, Top.cls, e) /\ stack' = Append(stack, f)
  BY DEF EnterBlock, Push
<1>3. Keeps(T, t1) /\ Whole(t1) /\ Top.reg \in ScopesOf(t1) /\ n + 1 \in ScopesOf(t1)
  BY <1>1, ChildWhole, ChildKeeps DEF Keeps
<1> HIDE DEF t1
<1>4. Keeps(t1, t2) /\ Whole(t2) /\ n + 1 \in ScopesOf(t2)
  BY <1>3, ChildKeeps DEF Keeps
<1> HIDE DEF t2, n
<1>5. Keeps(t2, T')
  BY <1>1, <1>2, <1>4, RegExprWhole
<1>6. Keeps(T, T')
  BY <1>1, <1>3, <1>4, <1>5, KeepsTrans
<1>7. ExprId(t2, T') \in 0..(T'.next - 1)
  BY <1>6, ExprIdBelow DEF Keeps, Whole
<1>8. f.kind = kind /\ Len(f.kids) = 2 /\ f.ops = <<ExprId(t2, T')>>
  BY DEF Frame
<1> HIDE DEF f
<1>9. Ready(T', f)
  BY <1>7, <1>8, BlockReady
<1>10. \A i \in DOMAIN stack : Ready(T, stack[i])
  BY DEF WInv, FramesReady
<1> QED BY <1>1, <1>2, <1>6, <1>9, <1>10, PushReady

LEMMA BeginWhole ==
  ASSUME WInv, Begin
  PROVE  Keeps(T, T') /\ FramesReady(stack', T')
<1>1. stack # << >>
  BY DEF Begin, BeginFunction, BeginClass, BeginMethod, BeginTrait, BeginTraitMethod,
         BeginModule, BeginExtern, BeginExternFunc, BeginIf, BeginElif, BeginWhile,
         BeginFor, BeginMatch, BeginElse, BeginArm, EnterBlock, CompoundStmt, Stmt,
         BodyRead, Open
<1>2. /\ IInv /\ Whole(T) /\ Top.reg \in ScopesOf(T) /\ Top.out \in ScopesOf(T)
      /\ Top \in FrameType(T) /\ T.next \in Nat /\ stack \in Seq(FrameType(T))
  BY <1>1, TopFacts, GoodNumbers DEF WInv, Whole, IInv, StackOK
<1>3. ASSUME NEW r \in ScopesOf(T), T' = MakeChild(T, r) PROVE Keeps(T, T')
  BY <1>2, <1>3, ChildKeeps
<1>4. ASSUME UNCHANGED T PROVE Keeps(T, T')
  BY <1>2, <1>4 DEF Keeps
<1>5. ASSUME NEW f, Push(f), T' = MakeChild(T, Top.reg) \/ UNCHANGED T,
             f.ops = << >>,
             \/ f.kind \in {"Class", "Trait", "TraitMethod", "Module"}
             \/ f.kind \in {"Function", "Method", "Extern"} /\ \E c : f.kids = <<c>>
      PROVE  Keeps(T, T') /\ FramesReady(stack', T')
  <2>1. Keeps(T, T')
    BY <1>2, <1>3, <1>4, <1>5
  <2>2. Ready(T', f)
    BY <1>5, PlainReady
  <2>3. \A i \in DOMAIN stack : Ready(T, stack[i])
    BY DEF WInv, FramesReady
  <2> QED BY <1>2, <1>5, <2>1, <2>2, <2>3, PushReady DEF Push
<1>6. ASSUME NEW x \in Idents, NEW p \in 0..MaxParams,
             BeginFunction(x, p) \/ BeginClass(x, p) \/ BeginMethod(x, p)
      PROVE  Keeps(T, T') /\ FramesReady(stack', T')
  <2>1. CASE BeginFunction(x, p)
    <3> DEFINE f == Frame("Function", NewScope, Top.reg, NoName, x, <<NewScope>>,
                          << >>, FunctionHeader(p))
    <3>1. Push(f) /\ T' = MakeChild(T, Top.reg)
      BY <2>1 DEF BeginFunction, Enter
    <3>2. f.ops = << >> /\ f.kind = "Function" /\ f.kids = <<NewScope>>
      BY DEF Frame
    <3> HIDE DEF f
    <3> QED BY <1>5, <3>1, <3>2
  <2>2. CASE BeginClass(x, p)
    <3> DEFINE f == Frame("Class", Top.reg, Top.reg, x, x, << >>, << >>,
                          [i \in 1..p |-> "V"])
    <3>1. Push(f) /\ UNCHANGED T
      BY <2>2 DEF BeginClass
    <3>2. f.ops = << >> /\ f.kind = "Class"
      BY DEF Frame
    <3> HIDE DEF f
    <3> QED BY <1>5, <3>1, <3>2
  <2>3. CASE BeginMethod(x, p)
    <3>1. PICK name : /\ T' = MakeChild(T, Top.reg)
                      /\ Push(Frame("Method", NewScope, Top.reg, Top.cls, name,
                                    <<NewScope>>, << >>, MethodHeader(p)))
      BY <2>3 DEF BeginMethod, Enter
    <3> DEFINE f == Frame("Method", NewScope, Top.reg, Top.cls, name,
                          <<NewScope>>, << >>, MethodHeader(p))
    <3>2. Push(f)
      BY <3>1
    <3>3. f.ops = << >> /\ f.kind = "Method" /\ f.kids = <<NewScope>>
      BY DEF Frame
    <3> HIDE DEF f
    <3> QED BY <1>5, <3>1, <3>2, <3>3
  <2> QED BY <1>6, <2>1, <2>2, <2>3
<1>7. ASSUME NEW p \in 0..MaxParams, BeginTraitMethod(p)
      PROVE  Keeps(T, T') /\ FramesReady(stack', T')
  <2> DEFINE f == Frame("TraitMethod", NewScope, Top.reg, NoName, NoName,
                        << >>, << >>, MethodHeader(p))
  <2>1. Push(f) /\ T' = MakeChild(T, Top.reg)
    BY <1>7 DEF BeginTraitMethod, Enter
  <2>2. f.ops = << >> /\ f.kind = "TraitMethod"
    BY DEF Frame
  <2> HIDE DEF f
  <2> QED BY <1>5, <2>1, <2>2
<1>8. ASSUME NEW x, BeginTrait(x) \/ BeginModule(x) \/ BeginExtern(x)
      PROVE  Keeps(T, T') /\ FramesReady(stack', T')
  <2>1. PICK kind, reg, kids :
          /\ kind \in {"Trait", "Module", "Extern"}
          /\ Push(Frame(kind, reg, Top.reg, NoName, x, kids, << >>, << >>))
          /\ T' = MakeChild(T, Top.reg) \/ UNCHANGED T
          /\ kind = "Extern" => kids = <<NewScope>>
    BY <1>8 DEF BeginTrait, BeginModule, BeginExtern, Enter
  <2> DEFINE f == Frame(kind, reg, Top.reg, NoName, x, kids, << >>, << >>)
  <2>2. Push(f)
    BY <2>1
  <2>3. f.ops = << >> /\ f.kind = kind /\ f.kids = kids
    BY DEF Frame
  <2> HIDE DEF f
  <2> QED BY <1>5, <2>1, <2>2, <2>3
<1>9. ASSUME NEW p \in 0..MaxParams, BeginExternFunc(p)
      PROVE  Keeps(T, T') /\ FramesReady(stack', T')
  <2> DEFINE f == [Top EXCEPT !.todo = Params(p) \o <<"F">>]
  <2>1. SetTop(f) /\ UNCHANGED T
    BY <1>9 DEF BeginExternFunc
  <2>2. f.kind = Top.kind /\ f.ops = Top.ops /\ f.kids = Top.kids
    BY <1>2 DEF FrameType
  <2> HIDE DEF f
  <2> QED BY <1>1, <1>4, <2>1, <2>2, SetTopReady
<1>10. ASSUME BeginElse PROVE Keeps(T, T') /\ FramesReady(stack', T')
  <2> DEFINE f == [Top EXCEPT !.reg = Top.kids[3]]
  <2>1. SetTop(f) /\ UNCHANGED T
    BY <1>10 DEF BeginElse
  <2>2. f.kind = Top.kind /\ f.ops = Top.ops /\ f.kids = Top.kids
    BY <1>2 DEF FrameType
  <2> HIDE DEF f
  <2> QED BY <1>1, <1>4, <2>1, <2>2, SetTopReady
<1>11. ASSUME BeginArm PROVE Keeps(T, T') /\ FramesReady(stack', T')
  <2> DEFINE f == [Top EXCEPT !.reg = NewScope, !.kids = Append(@, NewScope), !.full = FALSE]
  <2>1. SetTop(f) /\ T' = MakeChild(T, Top.out) /\ Top.kind = "Match"
    BY <1>11 DEF BeginArm, Open
  <2>2. f.kind = Top.kind /\ f.ops = Top.ops /\ f.kids = Append(Top.kids, NewScope)
    BY <1>2 DEF FrameType
  <2> HIDE DEF f
  <2> QED BY <1>1, <1>2, <1>3, <2>1, <2>2, SetTopReady
<1>12. ASSUME NEW e \in Exprs, BeginIf(e) \/ BeginElif(e)
       PROVE  Keeps(T, T') /\ FramesReady(stack', T')
  BY <1>1, <1>12, IfWhole DEF BeginIf, BeginElif
<1>13. ASSUME NEW e \in Exprs, BeginWhile(e) \/ BeginFor(e) \/ BeginMatch(e)
       PROVE  Keeps(T, T') /\ FramesReady(stack', T')
  BY <1>1, <1>13, BlockWhole DEF BeginWhile, BeginFor, BeginMatch
<1> QED BY <1>6, <1>7, <1>8, <1>9, <1>10, <1>11, <1>12, <1>13 DEF Begin

LEMMA EndWhole ==
  ASSUME WInv, End
  PROVE  Keeps(T, T') /\ FramesReady(stack', T')
<1>1. stack # << >>
  BY DEF End, EndFunction, EndMethod, EndClass, EndTraitMethod, EndTrait, EndModule,
         EndExtern, EndIf, EndElif, EndWhile, EndFor, EndMatch, EndBody, BodyRead, Open
<1>2. /\ IInv /\ Whole(T) /\ Top.out \in ScopesOf(T) /\ Top.name \in Names \cup {NoName}
      /\ Top.kids \in Seq(ScopesOf(T)) /\ NoName \in Names \cup {NoName} /\ T.next \in Nat
  BY <1>1, TopFacts, GoodNumbers DEF WInv, Whole
<1>3. Top.ops \in Seq(0..(T.next - 1)) /\ Shape(Closing(Top.kind), Top.kids, Top.ops)
  <2>1. Len(stack) \in DOMAIN stack
    BY <1>1 DEF WInv, IInv, StackOK
  <2> QED BY <2>1 DEF WInv, FramesReady, Ready, Top
<1>4. ASSUME NEW tag \in Tags \ Operators, tag = Closing(Top.kind), Close(tag)
      PROVE  Keeps(T, T')
  BY <1>2, <1>3, <1>4, NewKeeps DEF Close
<1>5. /\ Pop
      /\ \/ \E tag \in Tags \ Operators : tag = Closing(Top.kind) /\ Close(tag)
         \/ UNCHANGED T
  BY DEF End, EndFunction, EndMethod, EndClass, EndTraitMethod, EndTrait, EndModule,
         EndExtern, EndIf, EndElif, EndWhile, EndFor, EndMatch, EndBody, Tags, Operators,
         BodyRead, Open, Closing, Close
<1>6. Keeps(T, T')
  BY <1>2, <1>4, <1>5 DEF Keeps
<1> QED BY <1>1, <1>5, <1>6, PopReady

LEMMA WholeStep ==
  ASSUME WInv, [Next]_vars
  PROVE  Keeps(T, T') /\ FramesReady(stack', T')
<1>1. CASE UNCHANGED vars
  <2>1. Keeps(T, T') /\ UNCHANGED stack
    BY <1>1, GoodNumbers DEF vars, WInv, Keeps, Whole
  <2> QED BY <2>1, SameReady
<1> QED BY <1>1, LeafWhole, HeaderWhole, LeafReady, BeginWhole, EndWhole
        DEF Next, Register, Terminated, vars

LEMMA InitWhole == Init => Whole(T) /\ FramesReady(stack, T)
<1> SUFFICES ASSUME Init PROVE Whole(T) /\ FramesReady(stack, T)
  OBVIOUS
<1>1. T = InitTables
  BY DEF Init
<1>2. Good(InitTables)
  BY InitGood
<1>3. /\ ScopesOf(InitTables) = {1} /\ InitTables.table[1] = EmptyTable
      /\ InitTables.next = 1
  BY DEF InitTables, ScopesOf
<1>4. DOMAIN EmptyTable.ids = {} /\ DOMAIN EmptyTable.names = {} /\ EmptyTable.cap = 0
  BY DEF EmptyTable
<1>5. Filled(EmptyTable)
  BY <1>4, FS_EmptySet DEF Filled, Fits, Load
<1>6. /\ Counted(InitTables) /\ Kept(InitTables)
      /\ Formed(InitTables) /\ Issued(InitTables)
  BY <1>3, <1>4, <1>5 DEF Counted, Kept, Formed, Issued
<1>7. FramesReady(stack, T)
  <2> DEFINE f == Frame("Root", 1, 1, NoName, NoName, << >>, << >>, << >>)
  <2>1. stack = <<f>>
    BY DEF Init
  <2>2. f.kind = "Root" /\ f.ops = << >>
    BY DEF Frame
  <2> HIDE DEF f
  <2>3. Shape("Root", f.kids, f.ops)
    BY DEF Shape, Single, Double, Nesting, Operators, Blocks
  <2>4. Ready(T, f)
    BY <2>2, <2>3 DEF Ready, Closing
  <2> QED BY <2>1, <2>4 DEF FramesReady
<1> QED BY <1>1, <1>2, <1>6, <1>7 DEF Whole

(* In every reachable state each table is at most three quarters full, its *)
(* bucket count is four doubled some number of times, and every operator   *)
(* is right about its operands: khashl's growth, followed through every    *)
(* insert of every handler.                                                *)
THEOREM WholeInvariance == Spec => []WInv
<1>1. WInv /\ [Next]_vars => WInv'
  BY WholeStep, StepPreserves DEF WInv, StepOK, IInv, Grown, Keeps
<1>2. Init => WInv
  BY InitIInv, InitWhole DEF WInv
<1> QED BY <1>1, <1>2, PTL DEF Spec

(* register_expr loses an operator's left operand by one thing only: the   *)
(* insert of its right operand reallocates the table, at three quarters of *)
(* four buckets or of a doubling of them.                                  *)
THEOREM OperandsAreKept == Spec => []OperandsKept
<1>1. WInv => OperandsKept
  BY DEF WInv, Whole, Kept, OperandKept, Operators, OperandsKept
<1> QED BY <1>1, WholeInvariance, PTL
===============================================================================
