------------------------ MODULE RegisterTablesProofs ------------------------
(***************************************************************************)
(* What the operations of RegisterTables preserve, for every value of the  *)
(* constants: the lemmas the proofs about the registration pass cite.      *)
(*                                                                         *)
(* The second half is about the tree of scopes and the entries that keep   *)
(* its nodes, as a property of the tables alone: who owns a scope, when    *)
(* its entries were made, and where the ids an entry keeps can be looked   *)
(* up; what one register_insert and one make_child do to it, and what      *)
(* register_get finds through the parents.                                 *)
(***************************************************************************)
EXTENDS RegisterTables, SequenceTheorems, WellFoundedInduction, TLAPS

(* The inductive part of every claim about the tables.                     *)
Good(t) ==
  /\ TablesType(t)
  /\ ParentsOlder(t)
  /\ IdsDisjoint(t)
  /\ IdsStamped(t)
  /\ NamesAgree(t)
  /\ NamesEarliest(t)

(* u is t after more registration: nothing bound in t is rebound.          *)
Extends(t, u) ==
  /\ t.next <= u.next
  /\ Len(t.parent) <= Len(u.parent)
  /\ \A r \in ScopesOf(t) : \A x \in DOMAIN t.table[r].names :
       /\ x \in DOMAIN u.table[r].names
       /\ u.table[r].names[x] = t.table[r].names[x]

(* NewEntry builds an entry from typed parts.                              *)
LEMMA NewEntryType ==
  ASSUME NEW tag \in Tags, NEW name \in Names \cup {NoName},
         NEW ref \in Names \cup {NoName}, NEW kids \in Seq(Nat),
         NEW ops \in Seq(Nat)
  PROVE  NewEntry(tag, name, ref, kids, ops) \in Entry
BY DEF NewEntry, Entry

(* The global Register of main.c is well formed.                           *)
LEMMA InitGood == Good(InitTables)
<1> DEFINE t == InitTables
<1>1. ScopesOf(t) = {1}
  BY DEF InitTables, ScopesOf
<1>2. /\ t.next = 1 /\ t.parent = <<0>> /\ t.table = <<EmptyTable>>
      /\ t.table[1] = EmptyTable
  BY DEF InitTables
<1>3. /\ DOMAIN EmptyTable.names = {} /\ DOMAIN EmptyTable.ids = {}
      /\ EmptyTable.cap = 0
  BY DEF EmptyTable
<1>4. t.table = [r \in {1} |-> t.table[r]]
  BY <1>2
<1> HIDE DEF t
<1>5. TablesType(t)
  BY <1>1, <1>2, <1>3, <1>4 DEF TablesType
<1>6. /\ ParentsOlder(t) /\ IdsDisjoint(t) /\ IdsStamped(t)
      /\ NamesAgree(t) /\ NamesEarliest(t)
  BY <1>1, <1>2, <1>3
     DEF ParentsOlder, IdsDisjoint, IdsStamped, NamesAgree, NamesEarliest
<1> QED BY <1>5, <1>6 DEF Good, t

(* u differs from t in table r only, which gained the fresh entry e under  *)
(* its id, and under its name if that was free.                            *)
InsertedKeys(tab, new, e) ==
  /\ new.cap \in Nat
  /\ DOMAIN new.ids = DOMAIN tab.ids \cup {e.eid}
  /\ new.ids[e.eid] = e
  /\ \A i \in DOMAIN tab.ids : new.ids[i] = tab.ids[i]
  /\ DOMAIN new.names = DOMAIN tab.names \cup ({e.name} \ {NoName})
  /\ \A x \in DOMAIN tab.names : new.names[x] = tab.names[x]
  /\ e.name # NoName /\ e.name \notin DOMAIN tab.names => new.names[e.name] = e

IsInsert(t, u, r, e) ==
  /\ u.next = t.next + 1
  /\ u.parent = t.parent
  /\ u.table = [s \in ScopesOf(t) |-> u.table[s]]
  /\ Len(u.table) = Len(t.table)
  /\ \A s \in ScopesOf(t) \ {r} : u.table[s] = t.table[s]
  /\ InsertedKeys(t.table[r], u.table[r], e)

(* The two puts of register_insert, on a table that has not got the id.    *)
LEMMA PutBothKeys ==
  ASSUME NEW tab, NEW e, tab.cap \in Nat, e.eid \notin DOMAIN tab.ids
  PROVE  InsertedKeys(tab, PutBoth(tab, e), e)
<1> DEFINE named == IF e.name = NoName THEN tab ELSE PutName(tab, e)
           new == PutBoth(tab, e)
<1>1. new = PutId(named, e)
  BY DEF PutBoth
<1>2. /\ named.cap \in Nat
      /\ named.ids = tab.ids
      /\ named.names = IF e.name = NoName THEN tab.names
                       ELSE PutIfAbsent(tab.names, e.name, e)
  BY DEF PutName, Grow
<1> HIDE DEF named
<1>3. /\ new.cap \in Nat
      /\ new.ids = PutIfAbsent(tab.ids, e.eid, e)
      /\ new.names = named.names
  BY <1>1, <1>2 DEF PutId, Grow
<1> HIDE DEF new
<1>4. /\ DOMAIN new.ids = DOMAIN tab.ids \cup {e.eid}
      /\ new.ids[e.eid] = e
      /\ \A i \in DOMAIN tab.ids : new.ids[i] = tab.ids[i]
  BY <1>3 DEF PutIfAbsent
<1>5. /\ DOMAIN new.names = DOMAIN tab.names \cup ({e.name} \ {NoName})
      /\ \A x \in DOMAIN tab.names : new.names[x] = tab.names[x]
      /\ e.name # NoName /\ e.name \notin DOMAIN tab.names => new.names[e.name] = e
  <2>1. CASE e.name = NoName
    BY <1>2, <1>3, <2>1
  <2>2. CASE e.name # NoName
    <3>1. new.names = PutIfAbsent(tab.names, e.name, e)
      BY <1>2, <1>3, <2>2
    <3> QED BY <2>2, <3>1 DEF PutIfAbsent
  <2> QED BY <2>1, <2>2
<1> QED BY <1>3, <1>4, <1>5 DEF InsertedKeys, new

(* The entry that goes in is the caller's with the counter as its id.      *)
LEMMA StampFacts ==
  ASSUME NEW t, TablesType(t), NEW entry \in Entry
  PROVE  Stamp(t, entry) \in Entry /\ Stamp(t, entry).eid = t.next
BY DEF Stamp, Entry, TablesType

LEMMA InsertShape ==
  ASSUME NEW t, TablesType(t), NEW r \in ScopesOf(t), NEW entry \in Entry
  PROVE  IsInsert(t, Insert(t, r, entry), r, Stamp(t, entry))
<1> DEFINE e == Stamp(t, entry)
           u == Insert(t, r, entry)
<1>1. /\ t.table[r].cap \in Nat /\ e.eid \notin DOMAIN t.table[r].ids
      /\ DOMAIN t.table = ScopesOf(t) /\ Len(t.parent) \in Nat
      /\ Len(t.table) = Len(t.parent)
  <2>1. t.table[r].cap \in Nat /\ DOMAIN t.table[r].ids \subseteq 1..(t.next - 1)
    BY DEF TablesType
  <2>2. e.eid = t.next /\ t.next \in Nat
    BY StampFacts DEF TablesType
  <2> HIDE DEF e
  <2>3. e.eid \notin DOMAIN t.table[r].ids
    BY <2>1, <2>2
  <2>4. /\ DOMAIN t.table = ScopesOf(t) /\ Len(t.parent) \in Nat
        /\ Len(t.table) = Len(t.parent)
    BY DEF TablesType
  <2> QED BY <2>1, <2>3, <2>4
<1>2. /\ u.next = t.next + 1 /\ u.parent = t.parent
      /\ u.table = [t.table EXCEPT ![r] = PutBoth(t.table[r], e)]
  BY DEF Insert
<1> HIDE DEF e, u
<1>3. /\ u.table[r] = PutBoth(t.table[r], e)
      /\ \A s \in ScopesOf(t) \ {r} : u.table[s] = t.table[s]
      /\ u.table = [s \in ScopesOf(t) |-> u.table[s]]
  BY <1>1, <1>2
<1>4. Len(u.table) = Len(t.table)
  BY <1>1, <1>3 DEF ScopesOf
<1>5. InsertedKeys(t.table[r], u.table[r], e)
  BY <1>1, <1>3, PutBothKeys
<1> QED BY <1>2, <1>3, <1>4, <1>5 DEF IsInsert, u, e

(* register_insert keeps the tables well formed: the new id is fresh, and  *)
(* a name that was bound keeps its older entry.                            *)
LEMMA IsInsertGood ==
  ASSUME NEW t, Good(t), NEW u, NEW r \in ScopesOf(t), NEW e \in Entry,
         e.eid = t.next, IsInsert(t, u, r, e)
  PROVE  Good(u) /\ Extends(t, u)
<1>1. /\ TablesType(t) /\ ParentsOlder(t) /\ IdsDisjoint(t) /\ IdsStamped(t)
      /\ NamesAgree(t) /\ NamesEarliest(t)
  BY DEF Good
<1>2. /\ u.next = t.next + 1 /\ u.parent = t.parent
      /\ u.table = [s \in ScopesOf(t) |-> u.table[s]]
      /\ Len(u.table) = Len(t.table)
      /\ \A s \in ScopesOf(t) \ {r} : u.table[s] = t.table[s]
  BY DEF IsInsert
<1>3. /\ u.table[r].cap \in Nat
      /\ DOMAIN u.table[r].ids = DOMAIN t.table[r].ids \cup {t.next}
      /\ u.table[r].ids[t.next] = e
      /\ \A i \in DOMAIN t.table[r].ids : u.table[r].ids[i] = t.table[r].ids[i]
      /\ DOMAIN u.table[r].names = DOMAIN t.table[r].names \cup ({e.name} \ {NoName})
      /\ \A x \in DOMAIN t.table[r].names :
           u.table[r].names[x] = t.table[r].names[x]
      /\ e.name # NoName /\ e.name \notin DOMAIN t.table[r].names =>
           u.table[r].names[e.name] = e
  BY DEF IsInsert, InsertedKeys
<1>4. ScopesOf(u) = ScopesOf(t)
  BY <1>2 DEF ScopesOf
<1>5. /\ t.next \in Nat \ {0} /\ e.name \in Names \cup {NoName}
      /\ \A s \in ScopesOf(t) : DOMAIN t.table[s].ids \subseteq 1..(t.next - 1)
  BY <1>1 DEF TablesType, Entry
<1>6. TablesType(u)
  <2>1. ASSUME NEW s \in ScopesOf(u)
        PROVE  /\ DOMAIN u.table[s].names \subseteq Names
               /\ DOMAIN u.table[s].ids \subseteq 1..(u.next - 1)
               /\ u.table[s].cap \in Nat
               /\ \A x \in DOMAIN u.table[s].names : u.table[s].names[x] \in Entry
               /\ \A i \in DOMAIN u.table[s].ids : u.table[s].ids[i] \in Entry
    <3>1. /\ DOMAIN t.table[s].names \subseteq Names
          /\ DOMAIN t.table[s].ids \subseteq 1..(t.next - 1)
          /\ t.table[s].cap \in Nat
          /\ \A x \in DOMAIN t.table[s].names : t.table[s].names[x] \in Entry
          /\ \A i \in DOMAIN t.table[s].ids : t.table[s].ids[i] \in Entry
      BY <1>1, <1>4 DEF TablesType
    <3>2. 1..(t.next - 1) \subseteq 1..(u.next - 1) /\ t.next \in 1..(u.next - 1)
      BY <1>2, <1>5
    <3>3. CASE s = r
      BY <1>3, <1>5, <3>1, <3>2, <3>3
    <3>4. CASE s # r
      <4>1. u.table[s] = t.table[s]
        BY <1>2, <1>4, <3>4
      <4> QED BY <3>1, <3>2, <4>1
    <3> QED BY <3>3, <3>4
  <2>2. /\ u.next \in Nat \ {0} /\ u.parent \in Seq(Nat)
        /\ Len(u.parent) \in Nat \ {0} /\ Len(u.table) = Len(u.parent)
        /\ u.table = [s \in ScopesOf(u) |-> u.table[s]]
    BY <1>1, <1>2, <1>4, <1>5 DEF TablesType
  <2> QED BY <2>1, <2>2 DEF TablesType
<1>7. ParentsOlder(u)
  BY <1>1, <1>2, <1>4 DEF ParentsOlder
<1>8. IdsDisjoint(u)
  <2> SUFFICES ASSUME NEW s1 \in ScopesOf(t), NEW s2 \in ScopesOf(t),
                      NEW i \in DOMAIN u.table[s1].ids \cap DOMAIN u.table[s2].ids
               PROVE  s1 = s2
    BY <1>4 DEF IdsDisjoint
  <2>1. \A s \in ScopesOf(t) : t.next \notin DOMAIN t.table[s].ids
    BY <1>5
  <2>2. CASE i = t.next
    BY <1>2, <2>1, <2>2
  <2>3. CASE i # t.next
    BY <1>1, <1>2, <1>3, <2>3 DEF IdsDisjoint
  <2> QED BY <2>2, <2>3
<1>9. IdsStamped(u)
  BY <1>1, <1>2, <1>3, <1>4 DEF IdsStamped
<1>10. NamesAgree(u)
  <2> SUFFICES ASSUME NEW s \in ScopesOf(t), NEW x \in DOMAIN u.table[s].names
               PROVE  /\ u.table[s].names[x].name = x
                      /\ u.table[s].names[x].eid \in DOMAIN u.table[s].ids
                      /\ u.table[s].ids[u.table[s].names[x].eid] = u.table[s].names[x]
    BY <1>4 DEF NamesAgree
  <2>1. CASE s # r
    <3>1. u.table[s] = t.table[s]
      BY <1>2, <2>1
    <3> QED BY <1>1, <3>1 DEF NamesAgree
  <2>2. CASE s = r /\ x \in DOMAIN t.table[r].names
    BY <1>1, <1>3, <2>2 DEF NamesAgree
  <2>3. CASE s = r /\ x \notin DOMAIN t.table[r].names
    BY <1>3, <2>3
  <2> QED BY <2>1, <2>2, <2>3
<1>11. NamesEarliest(u)
  <2> SUFFICES ASSUME NEW s \in ScopesOf(t), NEW i \in DOMAIN u.table[s].ids,
                      u.table[s].ids[i].name # NoName
               PROVE  /\ u.table[s].ids[i].name \in DOMAIN u.table[s].names
                      /\ u.table[s].names[u.table[s].ids[i].name].eid <= i
    BY <1>4 DEF NamesEarliest
  <2>1. CASE s # r
    BY <1>1, <1>2, <2>1 DEF NamesEarliest
  <2>2. CASE s = r /\ i \in DOMAIN t.table[r].ids
    BY <1>1, <1>3, <2>2, ZenonT(30) DEF NamesEarliest
  <2>3. CASE s = r /\ i = t.next
    <3>1. u.table[s].ids[i] = e /\ e.name # NoName /\ e.name \in DOMAIN u.table[r].names
      BY <1>3, <2>3
    <3>2. CASE e.name \in DOMAIN t.table[r].names
      <4>1. u.table[r].names[e.name] = t.table[r].names[e.name]
        BY <1>3, <3>2
      <4>2. t.table[r].names[e.name].eid \in DOMAIN t.table[r].ids
        BY <1>1, <3>2 DEF NamesAgree
      <4>3. t.table[r].names[e.name].eid \in 1..(t.next - 1)
        BY <1>5, <4>2
      <4> QED BY <1>5, <2>3, <3>1, <4>1, <4>3
    <3>3. CASE e.name \notin DOMAIN t.table[r].names
      <4>1. u.table[r].names[e.name] = e /\ e.eid = i
        BY <1>3, <2>3, <3>1, <3>3
      <4> QED BY <1>5, <2>3, <3>1, <4>1
    <3> QED BY <3>2, <3>3
  <2> QED BY <1>3, <2>1, <2>2, <2>3
<1>12. Extends(t, u)
  <2>1. t.next <= u.next /\ Len(t.parent) <= Len(u.parent)
    BY <1>1, <1>2, <1>5 DEF TablesType
  <2>2. ASSUME NEW s \in ScopesOf(t), NEW x \in DOMAIN t.table[s].names
        PROVE  /\ x \in DOMAIN u.table[s].names
               /\ u.table[s].names[x] = t.table[s].names[x]
    BY <1>2, <1>3
  <2> QED BY <2>1, <2>2 DEF Extends
<1> QED BY <1>6, <1>7, <1>8, <1>9, <1>10, <1>11, <1>12 DEF Good

LEMMA InsertGood ==
  ASSUME NEW t, Good(t), NEW r \in ScopesOf(t), NEW entry \in Entry
  PROVE  /\ Good(Insert(t, r, entry))
         /\ Extends(t, Insert(t, r, entry))
         /\ Insert(t, r, entry).next = t.next + 1
         /\ ScopesOf(Insert(t, r, entry)) = ScopesOf(t)
<1>1. TablesType(t)
  BY DEF Good
<1>2. /\ Stamp(t, entry) \in Entry /\ Stamp(t, entry).eid = t.next
      /\ IsInsert(t, Insert(t, r, entry), r, Stamp(t, entry))
  BY <1>1, StampFacts, InsertShape
<1>3. Good(Insert(t, r, entry)) /\ Extends(t, Insert(t, r, entry))
  BY <1>2, IsInsertGood
<1> QED BY <1>2, <1>3 DEF IsInsert, ScopesOf

(* u is t with one more scope, an empty child of r.                        *)
IsChild(t, u, r) ==
  /\ u.next = t.next
  /\ u.parent \in Seq(Nat)
  /\ Len(u.parent) = Len(t.parent) + 1
  /\ u.parent[Len(t.parent) + 1] = r
  /\ \A s \in ScopesOf(t) : u.parent[s] = t.parent[s]
  /\ Len(u.table) = Len(t.parent) + 1
  /\ u.table = [s \in 1..(Len(t.parent) + 1) |-> u.table[s]]
  /\ u.table[Len(t.parent) + 1] = EmptyTable
  /\ \A s \in ScopesOf(t) : u.table[s] = t.table[s]

LEMMA MakeChildShape ==
  ASSUME NEW t, TablesType(t), NEW r \in ScopesOf(t)
  PROVE  IsChild(t, MakeChild(t, r), r)
<1> DEFINE u == MakeChild(t, r)
           S == {t.table[s] : s \in ScopesOf(t)} \cup {EmptyTable}
           n == Len(t.parent)
<1>1. /\ u.next = t.next /\ u.parent = Append(t.parent, r)
      /\ u.table = Append(t.table, EmptyTable)
  BY DEF MakeChild
<1>2. /\ t.parent \in Seq(Nat) /\ r \in Nat /\ n \in Nat
      /\ Len(t.table) = n /\ ScopesOf(t) = 1..n
      /\ t.table = [s \in 1..n |-> t.table[s]]
  BY DEF TablesType, ScopesOf
<1>3. t.table \in Seq(S)
  <2>1. \A s \in 1..n : t.table[s] \in S
    BY <1>2
  <2> HIDE DEF S
  <2>2. t.table \in [1..n -> S]
    BY <1>2, <2>1
  <2> QED BY <1>2, <2>2
<1>4. EmptyTable \in S
  OBVIOUS
<1> HIDE DEF u, S, n
<1>5. /\ u.parent \in Seq(Nat) /\ Len(u.parent) = n + 1 /\ u.parent[n + 1] = r
      /\ \A s \in 1..n : u.parent[s] = t.parent[s]
  BY <1>1, <1>2 DEF n
<1>6. /\ u.table \in Seq(S) /\ Len(u.table) = n + 1 /\ u.table[n + 1] = EmptyTable
      /\ \A s \in 1..n : u.table[s] = t.table[s]
  BY <1>1, <1>2, <1>3, <1>4
<1>7. u.table = [s \in 1..(n + 1) |-> u.table[s]]
  BY <1>6
<1> QED BY <1>1, <1>2, <1>5, <1>6, <1>7 DEF IsChild, u, n

(* make_child keeps the tables well formed and rebinds nothing.            *)
LEMMA IsChildGood ==
  ASSUME NEW t, Good(t), NEW u, NEW r \in ScopesOf(t), IsChild(t, u, r)
  PROVE  Good(u) /\ Extends(t, u)
<1> DEFINE n == Len(t.parent) + 1
<1>1. /\ TablesType(t) /\ ParentsOlder(t) /\ IdsDisjoint(t) /\ IdsStamped(t)
      /\ NamesAgree(t) /\ NamesEarliest(t)
  BY DEF Good
<1>2. /\ u.next = t.next /\ u.parent \in Seq(Nat) /\ Len(u.parent) = n
      /\ u.parent[n] = r /\ \A s \in ScopesOf(t) : u.parent[s] = t.parent[s]
      /\ Len(u.table) = n /\ u.table = [s \in 1..n |-> u.table[s]]
      /\ u.table[n] = EmptyTable
      /\ \A s \in ScopesOf(t) : u.table[s] = t.table[s]
  BY DEF IsChild
<1>3. /\ Len(t.parent) \in Nat \ {0} /\ t.next \in Nat \ {0} /\ r \in Nat /\ r < n
  BY <1>1 DEF TablesType, ScopesOf
<1>4. /\ ScopesOf(u) = ScopesOf(t) \cup {n} /\ ScopesOf(u) = 1..n
      /\ n \in Nat \ {0}
  BY <1>2, <1>3 DEF ScopesOf
<1>5. /\ DOMAIN u.table[n].names = {} /\ DOMAIN u.table[n].ids = {}
      /\ u.table[n].cap = 0
  BY <1>2 DEF EmptyTable
<1> HIDE DEF n
<1>6. TablesType(u)
  <2>1. ASSUME NEW s \in ScopesOf(u)
        PROVE  /\ DOMAIN u.table[s].names \subseteq Names
               /\ DOMAIN u.table[s].ids \subseteq 1..(u.next - 1)
               /\ u.table[s].cap \in Nat
               /\ \A x \in DOMAIN u.table[s].names : u.table[s].names[x] \in Entry
               /\ \A i \in DOMAIN u.table[s].ids : u.table[s].ids[i] \in Entry
    <3>1. CASE s = n
      <4>1. DOMAIN u.table[s].names = {} /\ DOMAIN u.table[s].ids = {} /\ u.table[s].cap = 0
        BY <1>5, <3>1
      <4> QED BY <4>1
    <3>2. CASE s \in ScopesOf(t)
      <4>1. u.table[s] = t.table[s] /\ u.next = t.next
        BY <1>2, <3>2
      <4>2. /\ DOMAIN t.table[s].names \subseteq Names
            /\ DOMAIN t.table[s].ids \subseteq 1..(t.next - 1)
            /\ t.table[s].cap \in Nat
            /\ \A x \in DOMAIN t.table[s].names : t.table[s].names[x] \in Entry
            /\ \A i \in DOMAIN t.table[s].ids : t.table[s].ids[i] \in Entry
        BY <1>1, <3>2 DEF TablesType
      <4> QED BY <4>1, <4>2
    <3> QED BY <1>4, <3>1, <3>2
  <2>2. /\ u.next \in Nat \ {0} /\ Len(u.parent) \in Nat \ {0}
        /\ Len(u.table) = Len(u.parent) /\ u.parent \in Seq(Nat)
        /\ u.table = [s \in ScopesOf(u) |-> u.table[s]]
    BY <1>2, <1>3, <1>4
  <2> QED BY <2>1, <2>2 DEF TablesType
<1>7. ParentsOlder(u)
  BY <1>1, <1>2, <1>3, <1>4 DEF ParentsOlder
<1>8. IdsDisjoint(u)
  BY <1>1, <1>2, <1>4, <1>5 DEF IdsDisjoint
<1>9. IdsStamped(u)
  BY <1>1, <1>2, <1>4, <1>5 DEF IdsStamped
<1>10. NamesAgree(u)
  <2> SUFFICES ASSUME NEW s \in ScopesOf(t), NEW x \in DOMAIN u.table[s].names
               PROVE  /\ u.table[s].names[x].name = x
                      /\ u.table[s].names[x].eid \in DOMAIN u.table[s].ids
                      /\ u.table[s].ids[u.table[s].names[x].eid] = u.table[s].names[x]
    BY <1>4, <1>5 DEF NamesAgree
  <2>1. u.table[s] = t.table[s]
    BY <1>2
  <2> QED BY <1>1, <2>1 DEF NamesAgree
<1>11. NamesEarliest(u)
  BY <1>1, <1>2, <1>4, <1>5 DEF NamesEarliest
<1>12. Extends(t, u)
  <2>1. t.next <= u.next /\ Len(t.parent) <= Len(u.parent)
    BY <1>2, <1>3 DEF n
  <2> QED BY <1>2, <2>1 DEF Extends
<1> QED BY <1>6, <1>7, <1>8, <1>9, <1>10, <1>11, <1>12 DEF Good

LEMMA MakeChildGood ==
  ASSUME NEW t, Good(t), NEW r \in ScopesOf(t)
  PROVE  /\ Good(MakeChild(t, r))
         /\ Extends(t, MakeChild(t, r))
         /\ MakeChild(t, r).next = t.next
         /\ Len(MakeChild(t, r).parent) = Len(t.parent) + 1
         /\ ScopesOf(MakeChild(t, r)) = ScopesOf(t) \cup {Len(t.parent) + 1}
<1>1. TablesType(t)
  BY DEF Good
<1>2. IsChild(t, MakeChild(t, r), r)
  BY <1>1, MakeChildShape
<1>3. Good(MakeChild(t, r)) /\ Extends(t, MakeChild(t, r))
  BY <1>2, IsChildGood
<1>4. Len(t.parent) \in Nat
  BY <1>1 DEF TablesType
<1> QED BY <1>2, <1>3, <1>4 DEF IsChild, ScopesOf

(* Registration only ever extends.                                         *)
(* The counters of well-formed tables are numbers.                         *)
LEMMA GoodNumbers ==
  ASSUME NEW t, Good(t)
  PROVE  /\ t.next \in Nat \ {0}
         /\ Len(t.parent) \in Nat
         /\ ScopesOf(t) \subseteq Nat
BY DEF Good, TablesType, ScopesOf

LEMMA ExtendsRefl == ASSUME NEW t, Good(t) PROVE Extends(t, t)
BY DEF Extends, Good, TablesType

LEMMA ExtendsScopes ==
  ASSUME NEW t, NEW u, Good(t), Good(u), Extends(t, u)
  PROVE  ScopesOf(t) \subseteq ScopesOf(u)
BY DEF Extends, Good, TablesType, ScopesOf

LEMMA ExtendsTrans ==
  ASSUME NEW t, NEW u, NEW v, Good(t), Good(u), Good(v), Extends(t, u), Extends(u, v)
  PROVE  Extends(t, v)
<1>1. t.next <= v.next /\ Len(t.parent) <= Len(v.parent)
  <2>1. /\ t.next <= u.next /\ u.next <= v.next
        /\ Len(t.parent) <= Len(u.parent) /\ Len(u.parent) <= Len(v.parent)
    BY DEF Extends
  <2>2. /\ t.next \in Nat /\ u.next \in Nat /\ v.next \in Nat
        /\ Len(t.parent) \in Nat /\ Len(u.parent) \in Nat /\ Len(v.parent) \in Nat
    BY GoodNumbers
  <2> QED BY <2>1, <2>2
<1>2. ASSUME NEW r \in ScopesOf(t), NEW x \in DOMAIN t.table[r].names
      PROVE  /\ x \in DOMAIN v.table[r].names
             /\ v.table[r].names[x] = t.table[r].names[x]
  <2>1. r \in ScopesOf(u)
    BY ExtendsScopes
  <2>2. x \in DOMAIN u.table[r].names /\ u.table[r].names[x] = t.table[r].names[x]
    BY DEF Extends
  <2> QED BY <2>1, <2>2 DEF Extends
<1> QED BY <1>1, <1>2 DEF Extends

-------------------------------------------------------------------------------
(* The tree of scopes: the claims                                          *)

(* No entry keeps scope k.                                                 *)
Free(t, k) ==
  \A s \in ScopesOf(t) : \A j \in DOMAIN t.table[s].ids :
    \A i \in DOMAIN t.table[s].ids[j].kids : t.table[s].ids[j].kids[i] # k

(* Scope k is a child of o that an entry of o may still take: everything in *)
(* it is newer than everything in o.                                       *)
Pending(t, k, o) ==
  /\ k \in ScopesOf(t)
  /\ t.parent[k] = o
  /\ Free(t, k)
  /\ \A n \in DOMAIN t.table[k].ids : \A i \in DOMAIN t.table[o].ids : i < n

Loose(t, ks, o) ==
  /\ \A i \in DOMAIN ks : Pending(t, ks[i], o)
  /\ \A i, j \in DOMAIN ks : ks[i] = ks[j] => i = j

KidsMade(t) ==
  \A r \in ScopesOf(t) : \A j \in DOMAIN t.table[r].ids :
    \A k \in DOMAIN t.table[r].ids[j].kids : t.table[r].ids[j].kids[k] \in ScopesOf(t)

(* What BodyBeforeOwner says of kid, which entry j of table r keeps.       *)
BeforeOwner(t, r, j, kid) ==
  /\ t.parent[kid] = r
  /\ \A n \in DOMAIN t.table[kid].ids :
       n < j /\ \A i \in DOMAIN t.table[r].ids : i < j => i < n

BodiesBefore(t) ==
  \A r \in ScopesOf(t) : \A j \in DOMAIN t.table[r].ids :
    \A k \in DOMAIN t.table[r].ids[j].kids :
      BeforeOwner(t, r, j, t.table[r].ids[j].kids[k])

OwnedOnce(t) ==
  \A r, s \in ScopesOf(t) :
    \A i \in DOMAIN t.table[r].ids, j \in DOMAIN t.table[s].ids :
      \A k \in DOMAIN t.table[r].ids[i].kids, l \in DOMAIN t.table[s].ids[j].kids :
        t.table[r].ids[i].kids[k] = t.table[s].ids[j].kids[l] =>
          r = s /\ i = j /\ k = l

Tree(t) == KidsMade(t) /\ BodiesBefore(t) /\ OwnedOnce(t)

Blocks == {"If", "Elif", "While", "For", "Match"}

(* Where an entry of table r finds the ids it keeps: a block its condition *)
(* in its first scope, ...                                                 *)
HeadLocal(t, kids, ops) ==
  /\ kids # << >>
  /\ ops[1] = 0 \/ HasId(t, kids[1], ops[1])

(* ... a statement its value beside itself, a call its arguments in its     *)
(* scope, or beside itself if that is empty.                               *)
ArgumentScope(t, r, e) == IF t.table[e.kids[1]].ids = << >> THEN r ELSE e.kids[1]

EntryLocal(t, r, e) ==
  /\ e.tag \in Blocks => HeadLocal(t, e.kids, e.ops)
  /\ e.tag \in {"Return", "ExprStmt"} => e.ops[1] = 0 \/ HasId(t, r, e.ops[1])
  /\ e.tag = "Call" =>
       /\ e.kids # << >>
       /\ \A k \in DOMAIN e.ops : HasId(t, ArgumentScope(t, r, e), e.ops[k])

Local(t) ==
  \A r \in ScopesOf(t) : \A j \in DOMAIN t.table[r].ids :
    EntryLocal(t, r, t.table[r].ids[j])

Sound(t) == Good(t) /\ Tree(t) /\ Local(t)

-------------------------------------------------------------------------------
(* Changes                                                                 *)

(* u is t after writes to the tables of R and to scopes made since: old    *)
(* entries stay, new ones have new ids.                                    *)
Wrote(t, u, R) ==
  /\ Extends(t, u)
  /\ ScopesOf(t) \subseteq ScopesOf(u)
  /\ \A s \in ScopesOf(t) :
       /\ u.parent[s] = t.parent[s]
       /\ s \notin R => u.table[s] = t.table[s]
       /\ \A i \in DOMAIN t.table[s].ids :
            i \in DOMAIN u.table[s].ids /\ u.table[s].ids[i] = t.table[s].ids[i]
       /\ \A i \in DOMAIN u.table[s].ids : i \in DOMAIN t.table[s].ids \/ t.next <= i

(* ... of which no new entry keeps an old scope.                           *)
Spares(t, u) == \A s \in ScopesOf(t) : Free(t, s) => Free(u, s)

(* What registering something in r does.                                   *)
Laid(t, u, r) == Sound(u) /\ Wrote(t, u, {r}) /\ Spares(t, u)

LEMMA WroteRefl ==
  ASSUME NEW t, Good(t), NEW R
  PROVE  Wrote(t, t, R)
BY ExtendsRefl DEF Wrote

LEMMA WroteTrans ==
  ASSUME NEW t, NEW u, NEW v, Good(t), Good(u), Good(v), NEW R, NEW S,
         Wrote(t, u, R), Wrote(u, v, S), S \cap ScopesOf(t) \subseteq R
  PROVE  Wrote(t, v, R)
<1>1. Extends(t, v)
  BY ExtendsTrans DEF Wrote
<1>2. ScopesOf(t) \subseteq ScopesOf(u) /\ ScopesOf(u) \subseteq ScopesOf(v)
  BY DEF Wrote
<1>3. t.next <= u.next /\ t.next \in Nat /\ u.next \in Nat
  BY GoodNumbers DEF Wrote, Extends
<1>4. ASSUME NEW s \in ScopesOf(t)
      PROVE  /\ v.parent[s] = t.parent[s]
             /\ s \notin R => v.table[s] = t.table[s]
             /\ \A i \in DOMAIN t.table[s].ids :
                  i \in DOMAIN v.table[s].ids /\ v.table[s].ids[i] = t.table[s].ids[i]
             /\ \A i \in DOMAIN v.table[s].ids :
                  i \in DOMAIN t.table[s].ids \/ t.next <= i
  <2>1. /\ u.parent[s] = t.parent[s]
        /\ s \notin R => u.table[s] = t.table[s]
        /\ \A i \in DOMAIN t.table[s].ids :
             i \in DOMAIN u.table[s].ids /\ u.table[s].ids[i] = t.table[s].ids[i]
        /\ \A i \in DOMAIN u.table[s].ids : i \in DOMAIN t.table[s].ids \/ t.next <= i
    BY DEF Wrote
  <2>2. s \in ScopesOf(u) /\ (s \notin R => s \notin S)
    BY <1>2
  <2>3. /\ v.parent[s] = u.parent[s]
        /\ s \notin S => v.table[s] = u.table[s]
        /\ \A i \in DOMAIN u.table[s].ids :
             i \in DOMAIN v.table[s].ids /\ v.table[s].ids[i] = u.table[s].ids[i]
        /\ \A i \in DOMAIN v.table[s].ids : i \in DOMAIN u.table[s].ids \/ u.next <= i
    BY <2>2 DEF Wrote
  <2>4. ASSUME NEW i \in DOMAIN v.table[s].ids
        PROVE  i \in DOMAIN t.table[s].ids \/ t.next <= i
    <3>1. i \in Nat
      BY <1>2, <2>2 DEF Good, TablesType
    <3> QED BY <1>3, <2>1, <2>3, <3>1
  <2> QED BY <2>1, <2>2, <2>3, <2>4
<1> QED BY <1>1, <1>2, <1>4 DEF Wrote

LEMMA SparesTrans ==
  ASSUME NEW t, NEW u, NEW v, Spares(t, u), Spares(u, v),
         ScopesOf(t) \subseteq ScopesOf(u)
  PROVE  Spares(t, v)
BY DEF Spares

LEMMA LaidRefl ==
  ASSUME NEW t, Sound(t), NEW r
  PROVE  Laid(t, t, r)
BY WroteRefl DEF Laid, Sound, Spares

LEMMA LaidTrans ==
  ASSUME NEW t, NEW u, NEW v, Sound(t), NEW r, Laid(t, u, r), NEW s, Laid(u, v, s),
         s = r \/ s \notin ScopesOf(t)
  PROVE  Laid(t, v, r)
<1>1. Good(t) /\ Good(u) /\ Good(v)
  BY DEF Laid, Sound
<1>2. Wrote(t, v, {r})
  BY <1>1, WroteTrans DEF Laid
<1>3. Spares(t, v)
  BY SparesTrans DEF Laid, Wrote
<1> QED BY <1>2, <1>3 DEF Laid

(* A scope that may be kept stays so while its parent is not written.      *)
LEMMA PendingKept ==
  ASSUME NEW t, Good(t), NEW u, Good(u), NEW R, Wrote(t, u, R), NEW k,
         NEW o \in ScopesOf(t), o \notin R, Pending(t, k, o), Free(u, k)
  PROVE  Pending(u, k, o)
<1>1. k \in ScopesOf(t) /\ k \in ScopesOf(u)
  BY DEF Pending, Wrote
<1>2. u.parent[k] = o /\ u.table[o] = t.table[o]
  BY <1>1 DEF Wrote, Pending
<1>3. ASSUME NEW n \in DOMAIN u.table[k].ids, NEW i \in DOMAIN u.table[o].ids
      PROVE  i < n
  <2>1. i \in DOMAIN t.table[o].ids /\ i \in 1..(t.next - 1) /\ t.next \in Nat
    BY <1>2 DEF Good, TablesType
  <2>2. CASE n \in DOMAIN t.table[k].ids
    BY <2>1, <2>2 DEF Pending
  <2>3. CASE t.next <= n /\ n \notin DOMAIN t.table[k].ids
    <3>1. n \in Nat
      BY <1>1, SMTT(20) DEF Good, TablesType
    <3> QED BY <2>1, <2>3, <3>1
  <2> QED BY <1>1, <2>2, <2>3 DEF Wrote
<1> QED BY <1>1, <1>2, <1>3 DEF Pending

-------------------------------------------------------------------------------
(* register_insert                                                         *)

LEMMA IsInsertWrote ==
  ASSUME NEW t, Good(t), NEW u, Good(u), Extends(t, u), NEW r \in ScopesOf(t),
         NEW e \in Entry, e.eid = t.next, IsInsert(t, u, r, e)
  PROVE  /\ Wrote(t, u, {r})
         /\ ScopesOf(u) = ScopesOf(t)
<1>1. ScopesOf(u) = ScopesOf(t) /\ u.parent = t.parent
  BY DEF IsInsert, ScopesOf
<1>2. /\ \A s \in ScopesOf(t) \ {r} : u.table[s] = t.table[s]
      /\ DOMAIN u.table[r].ids = DOMAIN t.table[r].ids \cup {t.next}
      /\ \A i \in DOMAIN t.table[r].ids : u.table[r].ids[i] = t.table[r].ids[i]
  BY DEF IsInsert, InsertedKeys
<1>3. t.next \in Nat
  BY GoodNumbers
<1> QED BY <1>1, <1>2, <1>3 DEF Wrote

(* Only the scopes the new entry keeps stop being free.                    *)
LEMMA IsInsertFree ==
  ASSUME NEW t, Good(t), NEW u, NEW r \in ScopesOf(t), NEW e \in Entry,
         e.eid = t.next, IsInsert(t, u, r, e),
         NEW k, Free(t, k), \A i \in DOMAIN e.kids : e.kids[i] # k
  PROVE  Free(u, k)
<1>1. ScopesOf(u) = ScopesOf(t)
  BY DEF IsInsert, ScopesOf
<1>2. /\ \A s \in ScopesOf(t) \ {r} : u.table[s] = t.table[s]
      /\ DOMAIN u.table[r].ids = DOMAIN t.table[r].ids \cup {t.next}
      /\ u.table[r].ids[t.next] = e
      /\ \A i \in DOMAIN t.table[r].ids : u.table[r].ids[i] = t.table[r].ids[i]
  BY DEF IsInsert, InsertedKeys
<1> SUFFICES ASSUME NEW s \in ScopesOf(t), NEW j \in DOMAIN u.table[s].ids,
                    NEW i \in DOMAIN u.table[s].ids[j].kids
             PROVE  u.table[s].ids[j].kids[i] # k
  BY <1>1 DEF Free
<1>3. CASE s = r /\ j = t.next
  BY <1>2, <1>3
<1>4. CASE ~(s = r /\ j = t.next)
  <2>1. j \in DOMAIN t.table[s].ids /\ u.table[s].ids[j] = t.table[s].ids[j]
    BY <1>2, <1>4
  <2> QED BY <2>1 DEF Free
<1> QED BY <1>3, <1>4

(* The tree stays one if the table was free and so were the new kids.      *)
LEMMA IsInsertTree ==
  ASSUME NEW t, Good(t), Tree(t), NEW u, NEW r \in ScopesOf(t), NEW e \in Entry,
         e.eid = t.next, IsInsert(t, u, r, e), Free(t, r), Loose(t, e.kids, r)
  PROVE  Tree(u)
<1>1. ScopesOf(u) = ScopesOf(t) /\ u.parent = t.parent
  BY DEF IsInsert, ScopesOf
<1>2. /\ \A s \in ScopesOf(t) \ {r} : u.table[s] = t.table[s]
      /\ DOMAIN u.table[r].ids = DOMAIN t.table[r].ids \cup {t.next}
      /\ u.table[r].ids[t.next] = e
      /\ \A i \in DOMAIN t.table[r].ids : u.table[r].ids[i] = t.table[r].ids[i]
  BY DEF IsInsert, InsertedKeys
<1>3. /\ t.next \in Nat
      /\ \A s \in ScopesOf(t) : \A i \in DOMAIN t.table[s].ids : i \in Nat /\ i < t.next
  BY DEF Good, TablesType
<1>4. \A k \in DOMAIN e.kids : Pending(t, e.kids[k], r)
  BY DEF Loose
<1>5. ASSUME NEW s \in ScopesOf(t), NEW j \in DOMAIN u.table[s].ids
      PROVE  \/ /\ j \in DOMAIN t.table[s].ids
                /\ u.table[s].ids[j] = t.table[s].ids[j]
             \/ s = r /\ j = t.next /\ u.table[s].ids[j] = e
  BY <1>2
<1>6. KidsMade(u)
  <2> SUFFICES ASSUME NEW s \in ScopesOf(t), NEW j \in DOMAIN u.table[s].ids,
                      NEW k \in DOMAIN u.table[s].ids[j].kids
               PROVE  u.table[s].ids[j].kids[k] \in ScopesOf(t)
    BY <1>1 DEF KidsMade
  <2>1. CASE j \in DOMAIN t.table[s].ids /\ u.table[s].ids[j] = t.table[s].ids[j]
    BY <2>1 DEF Tree, KidsMade
  <2>2. CASE u.table[s].ids[j] = e
    BY <1>4, <2>2 DEF Pending
  <2> QED BY <1>5, <2>1, <2>2
<1>7. BodiesBefore(u)
  <2> SUFFICES ASSUME NEW s \in ScopesOf(t), NEW j \in DOMAIN u.table[s].ids,
                      NEW k \in DOMAIN u.table[s].ids[j].kids
               PROVE  BeforeOwner(u, s, j, u.table[s].ids[j].kids[k])
    BY <1>1 DEF BodiesBefore
  <2> DEFINE kid == u.table[s].ids[j].kids[k]
  <2>1. CASE j \in DOMAIN t.table[s].ids /\ u.table[s].ids[j] = t.table[s].ids[j]
    <3>1. kid \in ScopesOf(t) /\ BeforeOwner(t, s, j, kid)
      BY <2>1 DEF Tree, KidsMade, BodiesBefore
    <3>2. kid # r
      BY <2>1 DEF Free
    <3> HIDE DEF kid
    <3>3. u.table[kid] = t.table[kid] /\ j < t.next
      BY <1>2, <1>3, <2>1, <3>1, <3>2
    <3>4. \A n \in DOMAIN u.table[kid].ids : n < j
      BY <3>1, <3>3 DEF BeforeOwner
    <3>5. ASSUME NEW n \in DOMAIN u.table[kid].ids,
                 NEW i \in DOMAIN u.table[s].ids, i < j
          PROVE  i < n
      <4>1. i \in DOMAIN t.table[s].ids
        BY <1>2, <1>3, <2>1, <3>3, <3>5
      <4> QED BY <3>1, <3>3, <3>5, <4>1 DEF BeforeOwner
    <3>6. u.parent[kid] = s
      BY <1>1, <3>1 DEF BeforeOwner
    <3>7. BeforeOwner(u, s, j, kid)
      BY <3>4, <3>5, <3>6 DEF BeforeOwner
    <3> QED BY <3>7 DEF kid
  <2>2. CASE s = r /\ j = t.next /\ u.table[s].ids[j] = e
    <3>1. Pending(t, kid, r)
      BY <1>4, <2>2
    <3> HIDE DEF kid
    <3>2. kid \in ScopesOf(t) /\ t.parent[kid] = r
      BY <3>1 DEF Pending
    <3>3. kid # r
      BY <3>2 DEF Good, ParentsOlder, ScopesOf
    <3>4. u.table[kid] = t.table[kid]
      BY <1>2, <3>2, <3>3
    <3>5. \A n \in DOMAIN u.table[kid].ids : n < j
      BY <1>3, <2>2, <3>2, <3>4
    <3>6. ASSUME NEW n \in DOMAIN u.table[kid].ids,
                 NEW i \in DOMAIN u.table[s].ids, i < j
          PROVE  i < n
      <4>1. i \in DOMAIN t.table[r].ids
        BY <1>2, <1>3, <2>2, <3>6
      <4> QED BY <3>1, <3>4, <4>1 DEF Pending
    <3>7. BeforeOwner(u, s, j, kid)
      BY <1>1, <2>2, <3>2, <3>5, <3>6 DEF BeforeOwner
    <3> QED BY <3>7 DEF kid
  <2> QED BY <1>5, <2>1, <2>2
<1>8. OwnedOnce(u)
  <2> SUFFICES ASSUME NEW s1 \in ScopesOf(t), NEW s2 \in ScopesOf(t),
                      NEW i \in DOMAIN u.table[s1].ids, NEW j \in DOMAIN u.table[s2].ids,
                      NEW k \in DOMAIN u.table[s1].ids[i].kids,
                      NEW l \in DOMAIN u.table[s2].ids[j].kids,
                      u.table[s1].ids[i].kids[k] = u.table[s2].ids[j].kids[l]
               PROVE  s1 = s2 /\ i = j /\ k = l
    BY <1>1, SMTT(30) DEF OwnedOnce
  <2> DEFINE OldI == i \in DOMAIN t.table[s1].ids /\ u.table[s1].ids[i] = t.table[s1].ids[i]
             OldJ == j \in DOMAIN t.table[s2].ids /\ u.table[s2].ids[j] = t.table[s2].ids[j]
             NewI == s1 = r /\ i = t.next /\ u.table[s1].ids[i] = e
             NewJ == s2 = r /\ j = t.next /\ u.table[s2].ids[j] = e
  <2>1. CASE OldI /\ OldJ
    <3> DEFINE A == t.table[s1].ids
               B == t.table[s2].ids
    <3>1. i \in DOMAIN A /\ j \in DOMAIN B
      BY <2>1
    <3>2. k \in DOMAIN A[i].kids /\ l \in DOMAIN B[j].kids /\ A[i].kids[k] = B[j].kids[l]
      BY <2>1
    <3>3. \A a \in DOMAIN A, b \in DOMAIN B : \A m \in DOMAIN A[a].kids, n \in DOMAIN B[b].kids :
            A[a].kids[m] = B[b].kids[n] => s1 = s2 /\ a = b /\ m = n
      BY DEF Tree, OwnedOnce
    <3> HIDE DEF A, B
    <3> QED BY <3>1, <3>2, <3>3
  <2>2. CASE OldI /\ NewJ
    <3>1. Free(t, e.kids[l])
      BY <1>4, <2>2 DEF Pending
    <3> QED BY <2>2, <3>1, ZenonT(30) DEF Free
  <2>3. CASE NewI /\ OldJ
    <3>1. Free(t, e.kids[k])
      BY <1>4, <2>3 DEF Pending
    <3> QED BY <2>3, <3>1 DEF Free
  <2>4. CASE NewI /\ NewJ
    BY <2>4 DEF Loose
  <2> QED BY <1>5, <2>1, <2>2, <2>3, <2>4
<1> QED BY <1>6, <1>7, <1>8 DEF Tree

(* What an entry keeps is still where it was: ids stay, and a scope it keeps *)
(* is not written any more.                                                *)
LEMMA EntryLocalKept ==
  ASSUME NEW t, NEW u, NEW R, Wrote(t, u, R), NEW r \in ScopesOf(t), NEW e,
         EntryLocal(t, r, e), \A k \in DOMAIN e.kids : e.kids[k] \in ScopesOf(t) \ R,
         e.kids # << >> => 1 \in DOMAIN e.kids
  PROVE  EntryLocal(u, r, e)
<1>1. ASSUME NEW s \in ScopesOf(t), NEW id, HasId(t, s, id) PROVE HasId(u, s, id)
  BY <1>1 DEF Wrote, HasId
<1>2. ASSUME e.kids # << >>
      PROVE  e.kids[1] \in ScopesOf(t) /\ u.table[e.kids[1]] = t.table[e.kids[1]]
  BY <1>2 DEF Wrote
<1>3. ASSUME e.tag \in Blocks PROVE HeadLocal(u, e.kids, e.ops)
  BY <1>1, <1>2, <1>3 DEF EntryLocal, HeadLocal
<1>4. ASSUME e.tag \in {"Return", "ExprStmt"}
      PROVE  e.ops[1] = 0 \/ HasId(u, r, e.ops[1])
  BY <1>1, <1>4 DEF EntryLocal
<1>5. ASSUME e.tag = "Call"
      PROVE  /\ e.kids # << >>
             /\ \A k \in DOMAIN e.ops : HasId(u, ArgumentScope(u, r, e), e.ops[k])
  <2>1. /\ e.kids # << >>
        /\ \A k \in DOMAIN e.ops : HasId(t, ArgumentScope(t, r, e), e.ops[k])
    BY <1>5 DEF EntryLocal
  <2>2. ArgumentScope(u, r, e) = ArgumentScope(t, r, e)
    BY <1>2, <2>1 DEF ArgumentScope
  <2>3. ArgumentScope(t, r, e) \in ScopesOf(t)
    BY <1>2, <2>1 DEF ArgumentScope
  <2> QED BY <1>1, <2>1, <2>2, <2>3
<1> QED BY <1>3, <1>4, <1>5 DEF EntryLocal

(* Nobody writes to a scope that is kept.                                  *)
LEMMA LocalKept ==
  ASSUME NEW t, Sound(t), NEW u, NEW r, Free(t, r), Wrote(t, u, {r}),
         NEW s \in ScopesOf(t), NEW j \in DOMAIN t.table[s].ids
  PROVE  EntryLocal(u, s, t.table[s].ids[j])
<1> DEFINE e == t.table[s].ids[j]
<1>1. e \in Entry
  BY DEF Sound, Good, TablesType
<1>2. e.kids # << >> => 1 \in DOMAIN e.kids
  BY <1>1 DEF Entry
<1>3. \A k \in DOMAIN e.kids : e.kids[k] \in ScopesOf(t) \ {r}
  BY DEF Sound, Tree, KidsMade, Free
<1>4. EntryLocal(t, s, e)
  BY DEF Sound, Local
<1> HIDE DEF e
<1>5. EntryLocal(u, s, e)
  BY <1>2, <1>3, <1>4, EntryLocalKept
<1> QED BY <1>5 DEF e

LEMMA InsertSound ==
  ASSUME NEW t, Sound(t), NEW r \in ScopesOf(t), Free(t, r), NEW entry \in Entry,
         Loose(t, entry.kids, r), EntryLocal(t, r, entry)
  PROVE  /\ Sound(Insert(t, r, entry))
         /\ Wrote(t, Insert(t, r, entry), {r})
         /\ ScopesOf(Insert(t, r, entry)) = ScopesOf(t)
         /\ Insert(t, r, entry).next = t.next + 1
         /\ HasId(Insert(t, r, entry), r, t.next)
         /\ \A k : Free(t, k) /\ (\A i \in DOMAIN entry.kids : entry.kids[i] # k) =>
                     Free(Insert(t, r, entry), k)
<1> DEFINE u == Insert(t, r, entry)
           e == Stamp(t, entry)
<1>1. Good(t) /\ TablesType(t) /\ Tree(t)
  BY DEF Sound, Good
<1>2. /\ e \in Entry /\ e.eid = t.next /\ IsInsert(t, u, r, e)
      /\ e.kids = entry.kids /\ e.ops = entry.ops /\ e.tag = entry.tag
  <2>1. e.kids = entry.kids /\ e.ops = entry.ops /\ e.tag = entry.tag
    BY DEF Stamp, Entry
  <2> QED BY <1>1, <2>1, StampFacts, InsertShape
<1>3. Good(u) /\ Extends(t, u)
  BY <1>1, InsertGood
<1>4. EntryLocal(t, r, e)
  BY <1>2 DEF EntryLocal, ArgumentScope
<1> HIDE DEF u, e
<1>5. Wrote(t, u, {r}) /\ ScopesOf(u) = ScopesOf(t)
  BY <1>1, <1>2, <1>3, IsInsertWrote
<1>6. Tree(u)
  BY <1>1, <1>2, IsInsertTree
<1>7. /\ u.next = t.next + 1 /\ DOMAIN u.table[r].ids = DOMAIN t.table[r].ids \cup {t.next}
      /\ u.table[r].ids[t.next] = e
      /\ \A i \in DOMAIN t.table[r].ids : u.table[r].ids[i] = t.table[r].ids[i]
      /\ \A s \in ScopesOf(t) \ {r} : u.table[s] = t.table[s]
  BY <1>2 DEF IsInsert, InsertedKeys
<1>8. EntryLocal(u, r, e)
  <2>1. e.kids # << >> => 1 \in DOMAIN e.kids
    BY <1>2 DEF Entry
  <2>2. ASSUME NEW k \in DOMAIN e.kids PROVE e.kids[k] \in ScopesOf(t) \ {r}
    <3>1. Pending(t, e.kids[k], r)
      BY <1>2 DEF Loose
    <3>2. e.kids[k] \in ScopesOf(t) /\ t.parent[e.kids[k]] = r
      BY <3>1 DEF Pending
    <3> QED BY <1>1, <3>2 DEF Good, ParentsOlder, ScopesOf
  <2> QED BY <1>4, <1>5, <2>1, <2>2, EntryLocalKept
<1>9. Local(u)
  <2> SUFFICES ASSUME NEW s \in ScopesOf(t), NEW j \in DOMAIN u.table[s].ids
               PROVE  EntryLocal(u, s, u.table[s].ids[j])
    BY <1>5 DEF Local
  <2>1. CASE s = r /\ j = t.next
    BY <1>7, <1>8, <2>1
  <2>2. CASE ~(s = r /\ j = t.next)
    <3>1. j \in DOMAIN t.table[s].ids /\ u.table[s].ids[j] = t.table[s].ids[j]
      BY <1>7, <2>2
    <3> QED BY <1>5, <3>1, LocalKept
  <2> QED BY <2>1, <2>2
<1>10. Sound(u)
  BY <1>3, <1>6, <1>9 DEF Sound
<1>11. ASSUME NEW k, Free(t, k), \A i \in DOMAIN entry.kids : entry.kids[i] # k
       PROVE  Free(u, k)
  BY <1>1, <1>2, <1>11, IsInsertFree
<1>12. HasId(u, r, t.next)
  BY <1>7 DEF HasId
<1> QED BY <1>5, <1>7, <1>10, <1>11, <1>12 DEF u

(* An entry that keeps no scope and no id a later pass looks up.           *)
Plain(e) == e.kids = << >> /\ e.tag \notin Blocks \cup {"Return", "ExprStmt", "Call"}

LEMMA PlainSound ==
  ASSUME NEW t, Sound(t), NEW r \in ScopesOf(t), Free(t, r), NEW entry \in Entry,
         Plain(entry)
  PROVE  /\ Laid(t, Insert(t, r, entry), r)
         /\ Insert(t, r, entry).next = t.next + 1
         /\ HasId(Insert(t, r, entry), r, t.next)
         /\ ScopesOf(Insert(t, r, entry)) = ScopesOf(t)
<1>1. Loose(t, entry.kids, r)
  BY DEF Plain, Loose
<1>2. EntryLocal(t, r, entry)
  BY DEF Plain, EntryLocal
<1>3. \A i \in DOMAIN entry.kids : FALSE
  BY DEF Plain
<1>4. \A k : Free(t, k) => Free(Insert(t, r, entry), k)
  BY <1>1, <1>2, <1>3, InsertSound
<1> QED BY <1>1, <1>2, <1>4, InsertSound DEF Laid, Spares

-------------------------------------------------------------------------------
(* make_child                                                              *)

LEMMA MakeChildSound ==
  ASSUME NEW t, Sound(t), NEW r \in ScopesOf(t)
  PROVE  /\ Sound(MakeChild(t, r))
         /\ \A R : Wrote(t, MakeChild(t, r), R)
         /\ Spares(t, MakeChild(t, r))
         /\ MakeChild(t, r).next = t.next
         /\ Len(MakeChild(t, r).parent) = Len(t.parent) + 1
         /\ ScopesOf(MakeChild(t, r)) = ScopesOf(t) \cup {Len(t.parent) + 1}
         /\ Len(t.parent) + 1 \notin ScopesOf(t)
         /\ MakeChild(t, r).table[Len(t.parent) + 1] = EmptyTable
         /\ Pending(MakeChild(t, r), Len(t.parent) + 1, r)
<1> DEFINE u == MakeChild(t, r)
           c == Len(t.parent) + 1
<1>1. Good(t) /\ TablesType(t) /\ Tree(t) /\ Local(t)
  BY DEF Sound, Good
<1>2. IsChild(t, u, r)
  BY <1>1, MakeChildShape
<1>3. /\ Good(u) /\ Extends(t, u) /\ u.next = t.next /\ Len(u.parent) = c
      /\ ScopesOf(u) = ScopesOf(t) \cup {c}
  BY <1>1, MakeChildGood
<1>4. c \notin ScopesOf(t) /\ c \in ScopesOf(u)
  <2>1. Len(t.parent) \in Nat
    BY <1>1 DEF TablesType
  <2> QED BY <1>3, <2>1 DEF ScopesOf
<1>5. /\ \A s \in ScopesOf(t) : u.parent[s] = t.parent[s] /\ u.table[s] = t.table[s]
      /\ u.parent[c] = r /\ u.table[c] = EmptyTable
  BY <1>2 DEF IsChild
<1>6. DOMAIN u.table[c].ids = {}
  BY <1>5 DEF EmptyTable
<1> HIDE DEF u, c
<1>7. Wrote(t, u, {})
  BY <1>3, <1>5 DEF Wrote
<1>8. ASSUME NEW k, Free(t, k) PROVE Free(u, k)
  BY <1>3, <1>5, <1>6, <1>8 DEF Free
<1>9. Free(t, c)
  BY <1>1, <1>4 DEF Tree, KidsMade, Free
<1>10. Pending(u, c, r)
  BY <1>4, <1>5, <1>6, <1>8, <1>9 DEF Pending
<1>11. Tree(u)
  <2>1. KidsMade(u)
    BY <1>1, <1>3, <1>5, <1>6 DEF Tree, KidsMade
  <2>2. BodiesBefore(u)
    <3> SUFFICES ASSUME NEW s \in ScopesOf(t), NEW j \in DOMAIN t.table[s].ids,
                        NEW k \in DOMAIN t.table[s].ids[j].kids
                 PROVE  BeforeOwner(u, s, j, t.table[s].ids[j].kids[k])
      BY <1>3, <1>5, <1>6 DEF BodiesBefore
    <3>1. /\ t.table[s].ids[j].kids[k] \in ScopesOf(t)
          /\ BeforeOwner(t, s, j, t.table[s].ids[j].kids[k])
      BY <1>1 DEF Tree, KidsMade, BodiesBefore
    <3> QED BY <1>5, <3>1 DEF BeforeOwner
  <2>3. OwnedOnce(u)
    <3> SUFFICES ASSUME NEW s1 \in ScopesOf(u), NEW s2 \in ScopesOf(u),
                        NEW i \in DOMAIN u.table[s1].ids,
                        NEW j \in DOMAIN u.table[s2].ids,
                        NEW k \in DOMAIN u.table[s1].ids[i].kids,
                        NEW l \in DOMAIN u.table[s2].ids[j].kids,
                        u.table[s1].ids[i].kids[k] = u.table[s2].ids[j].kids[l]
                 PROVE  s1 = s2 /\ i = j /\ k = l
      BY DEF OwnedOnce
    <3>1. s1 \in ScopesOf(t) /\ s2 \in ScopesOf(t)
      BY <1>3, <1>6
    <3>2. u.table[s1] = t.table[s1] /\ u.table[s2] = t.table[s2]
      BY <1>5, <3>1
    <3>3. /\ i \in DOMAIN t.table[s1].ids /\ j \in DOMAIN t.table[s2].ids
          /\ k \in DOMAIN t.table[s1].ids[i].kids
          /\ l \in DOMAIN t.table[s2].ids[j].kids
          /\ t.table[s1].ids[i].kids[k] = t.table[s2].ids[j].kids[l]
      BY <3>2
    <3>4. OwnedOnce(t)
      BY <1>1 DEF Tree
    <3>5. \A a \in DOMAIN t.table[s1].ids, b \in DOMAIN t.table[s2].ids :
            \A m \in DOMAIN t.table[s1].ids[a].kids, n \in DOMAIN t.table[s2].ids[b].kids :
              t.table[s1].ids[a].kids[m] = t.table[s2].ids[b].kids[n] =>
                s1 = s2 /\ a = b /\ m = n
      BY <3>1, <3>4 DEF OwnedOnce
    <3> DEFINE A == t.table[s1].ids
               B == t.table[s2].ids
    <3>6. i \in DOMAIN A /\ j \in DOMAIN B
      BY <3>3
    <3>7. k \in DOMAIN A[i].kids /\ l \in DOMAIN B[j].kids /\ A[i].kids[k] = B[j].kids[l]
      BY <3>3
    <3>8. \A a \in DOMAIN A, b \in DOMAIN B : \A m \in DOMAIN A[a].kids, n \in DOMAIN B[b].kids :
            A[a].kids[m] = B[b].kids[n] => s1 = s2 /\ a = b /\ m = n
      BY <3>5
    <3> HIDE DEF A, B
    <3> QED BY <3>6, <3>7, <3>8
  <2> QED BY <2>1, <2>2, <2>3 DEF Tree
<1>12. Local(u)
  <2> SUFFICES ASSUME NEW s \in ScopesOf(t), NEW j \in DOMAIN t.table[s].ids
               PROVE  EntryLocal(u, s, t.table[s].ids[j])
    BY <1>3, <1>5, <1>6 DEF Local
  <2> DEFINE e == t.table[s].ids[j]
  <2>1. e \in Entry /\ EntryLocal(t, s, e)
    BY <1>1 DEF TablesType, Local
  <2>2. e.kids # << >> => 1 \in DOMAIN e.kids
    BY <2>1 DEF Entry
  <2>3. \A k \in DOMAIN e.kids : e.kids[k] \in ScopesOf(t) \ {}
    BY <1>1 DEF Tree, KidsMade
  <2> HIDE DEF e
  <2>4. EntryLocal(u, s, e)
    BY <1>7, <2>1, <2>2, <2>3, EntryLocalKept
  <2> QED BY <2>4 DEF e
<1>13. \A R : Wrote(t, u, R)
  BY <1>7 DEF Wrote
<1>14. Spares(t, u)
  BY <1>8 DEF Spares
<1> QED BY <1>3, <1>4, <1>5, <1>10, <1>11, <1>12, <1>13, <1>14 DEF Sound, u, c
-------------------------------------------------------------------------------
(* register_get                                                            *)

LEMMA NatMin ==
  ASSUME NEW S \in SUBSET Nat, S # {}
  PROVE  \E m \in S : \A k \in S : m <= k
<1>1. IsWellFoundedOn(OpToRel(<, Nat), Nat)
  BY NatLessThanWellFounded, Zenon
<1>2. PICK m \in S : \A k \in S : ~(<<k, m>> \in OpToRel(<, Nat))
  BY <1>1, WFMin, Zenon
<1>3. \A k \in S : ~(k < m)
  BY <1>2 DEF OpToRel
<1> QED BY <1>3

(* g is the function GetId defines for x: the chains of parents end, so     *)
(* there is one.                                                           *)
Found(t, x, n, g) ==
  g = [s \in 0..n |->
         IF s = 0 THEN 0
         ELSE IF x \in DOMAIN t.table[s].names THEN t.table[s].names[x].eid
         ELSE g[t.parent[s]]]

LEMMA FoundExists ==
  ASSUME NEW t, Good(t), NEW x, NEW n \in 0..Len(t.parent)
  PROVE  \E g : Found(t, x, n, g)
<1> DEFINE Bad == {m \in 0..Len(t.parent) : ~ \E g : Found(t, x, m, g)}
<1>1. Len(t.parent) \in Nat
  BY GoodNumbers
<1> SUFFICES ASSUME Bad # {} PROVE FALSE
  BY <1>1
<1>0. Bad \in SUBSET Nat
  BY <1>1
<1> HIDE DEF Bad
<1>2. PICK m \in Bad : \A k \in Bad : m <= k
  BY <1>0, NatMin
<1> USE DEF Bad
<1>3. m \in Nat /\ m <= Len(t.parent)
  BY <1>1, <1>2
<1>4. CASE m = 0
  <2> DEFINE g == [s \in 0..0 |-> 0]
  <2>1. Found(t, x, 0, g)
    BY DEF Found
  <2> QED BY <1>2, <1>4, <2>1
<1>5. CASE m # 0
  <2>1. m - 1 \in 0..Len(t.parent) /\ m - 1 \notin Bad
    BY <1>1, <1>2, <1>3, <1>5
  <2>2. PICK h : Found(t, x, m - 1, h)
    BY <2>1
  <2> DEFINE last == IF x \in DOMAIN t.table[m].names THEN t.table[m].names[x].eid
                     ELSE h[t.parent[m]]
             g == [s \in 0..m |-> IF s = m THEN last ELSE h[s]]
  <2>3. \A s \in 1..m : t.parent[s] \in Nat /\ t.parent[s] < s
    BY <1>1, <1>3 DEF Good, TablesType, ParentsOlder, ScopesOf
  <2>4. \A s \in 0..(m - 1) : g[s] = h[s]
    BY <1>3
  <2>5. ASSUME NEW s \in 0..m
        PROVE  g[s] = IF s = 0 THEN 0
                      ELSE IF x \in DOMAIN t.table[s].names THEN t.table[s].names[x].eid
                      ELSE g[t.parent[s]]
    <3>1. CASE s = m
      <4>1. t.parent[m] \in 0..(m - 1)
        BY <1>3, <1>5, <2>3
      <4>2. g[m] = last /\ g[t.parent[m]] = h[t.parent[m]]
        BY <1>3, <2>4, <4>1
      <4> HIDE DEF g
      <4> QED BY <1>5, <3>1, <4>2
    <3>2. CASE s = 0
      <4>1. 0 \in 0..(m - 1)
        BY <1>3, <1>5
      <4>2. g[0] = h[0] /\ h[0] = 0
        BY <2>2, <2>4, <4>1 DEF Found
      <4> QED BY <3>2, <4>2
    <3>3. CASE s \in 1..(m - 1)
      <4>1. t.parent[s] \in 0..(m - 1)
        BY <1>3, <2>3, <3>3
      <4>2. g[s] = h[s] /\ g[t.parent[s]] = h[t.parent[s]] /\ s \in 0..(m - 1) /\ s # 0
        BY <1>3, <2>4, <3>3, <4>1
      <4>3. h[s] = IF x \in DOMAIN t.table[s].names THEN t.table[s].names[x].eid
                   ELSE h[t.parent[s]]
        BY <2>2, <4>2 DEF Found
      <4> QED BY <4>2, <4>3
    <3> QED BY <1>3, <3>1, <3>2, <3>3
  <2>6. g = [s \in 0..m |-> g[s]]
    OBVIOUS
  <2> HIDE DEF g
  <2>7. Found(t, x, m, g)
    BY <2>5, <2>6 DEF Found
  <2> QED BY <1>2, <2>7
<1> QED BY <1>4, <1>5

(* register_get looks in the table and then asks its parent.               *)
LEMMA GetIdStep ==
  ASSUME NEW t, Good(t), NEW r \in 0..Len(t.parent), NEW x
  PROVE  GetId(t, r, x) =
           IF r = 0 THEN 0
           ELSE IF x \in DOMAIN t.table[r].names THEN t.table[r].names[x].eid
           ELSE GetId(t, t.parent[r], x)
<1> DEFINE n == Len(t.parent)
           G == CHOOSE g : Found(t, x, n, g)
<1>1. n \in 0..n
  BY GoodNumbers
<1>2. Found(t, x, n, G)
  BY <1>1, FoundExists
<1>3. \A s : GetId(t, s, x) = G[s]
  BY DEF GetId, Found
<1> HIDE DEF G
<1> QED BY <1>2, <1>3 DEF Found

(* What is declared below a scope, or beside the chain of its parents, is   *)
(* not seen from it.                                                       *)
LEMMA GetIdKept ==
  ASSUME NEW t, Good(t), NEW u, Good(u), NEW R, Wrote(t, u, R), NEW x,
         NEW r \in ScopesOf(t), \A s \in R \cap ScopesOf(t) : r < s
  PROVE  GetId(u, r, x) = GetId(t, r, x)
<1> DEFINE Bad == {m \in 0..r : GetId(u, m, x) # GetId(t, m, x)}
<1>1. r \in Nat /\ Len(t.parent) \in Nat /\ r <= Len(t.parent) /\ Len(u.parent) \in Nat
  BY GoodNumbers DEF ScopesOf
<1> SUFFICES ASSUME Bad # {} PROVE FALSE
  BY <1>1
<1>0. Bad \in SUBSET Nat
  BY <1>1
<1> HIDE DEF Bad
<1>2. PICK m \in Bad : \A k \in Bad : m <= k
  BY <1>0, NatMin
<1> USE DEF Bad
<1>3. m \in Nat /\ m <= r /\ m \in 0..Len(t.parent) /\ GetId(u, m, x) # GetId(t, m, x)
  BY <1>1, <1>2
<1>4. m = 0 \/ m \in ScopesOf(t)
  BY <1>3 DEF ScopesOf
<1>5. m \in 0..Len(u.parent)
  BY <1>1, <1>4 DEF Wrote, ScopesOf
<1>6. CASE m = 0
  BY <1>3, <1>5, <1>6, GetIdStep
<1>7. CASE m # 0
  <2>1. m \in ScopesOf(t) /\ m \notin R
    BY <1>1, <1>3, <1>4, <1>7
  <2>2. u.parent[m] = t.parent[m] /\ u.table[m] = t.table[m]
    BY <2>1 DEF Wrote
  <2>3. t.parent[m] \in Nat /\ t.parent[m] < m
    BY <2>1, SMTT(20) DEF Good, TablesType, ParentsOlder, ScopesOf
  <2>4. GetId(u, t.parent[m], x) = GetId(t, t.parent[m], x)
    BY <1>1, <1>2, <1>3, <2>3
  <2> QED BY <1>3, <1>5, <1>7, <2>2, <2>4, GetIdStep
<1> QED BY <1>6, <1>7
=============================================================================
