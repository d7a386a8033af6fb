---------------------------- MODULE RegisterTables ----------------------------
(***************************************************************************)
(* The scope tables of src/src/register/register.c as a value.             *)
(*                                                                         *)
(* A Register is one khashl table plus a parent pointer; all Registers     *)
(* share one IDCounter.  The table holds two kinds of keys, declared names *)
(* and decimal ids, and each put stores a COPY of the entry.  A program    *)
(* identifier never spells a number, so the two kinds of keys cannot meet  *)
(* and they are kept here in two maps of the same table.                   *)
(*                                                                         *)
(* Scopes are numbered in the order make_child creates them; 1 is the      *)
(* global Register, and parent 0 is the NULL that ends a chain.            *)
(***************************************************************************)
EXTENDS Naturals, Sequences, FiniteSets

CONSTANTS
  Names,    \* the identifiers of the program
  NoName    \* an empty SourceRange

ASSUME NameAssumption == NoName \notin Names

(* The RegisterEntryTags the passes tell apart.  Identifier stands for Vars *)
(* and for self.x too.                                                     *)
Tags == {"Var", "Let", "Const", "Param", "Function", "Struct", "Enum",
         "Trait", "Extern", "ExternFunc", "If", "Elif", "While", "For",
         "Match", "Return", "ExprStmt", "Module", "Atomic", "Assign",
         "Call", "StructCall", "BinaryOp", "Index", "Cast", "Unary", "AddrOf",
         "Field", "Identifier", "Literal"}

(* eid: the id the entry was given; name: decl_name_range; ref: the name   *)
(* an expression mentions; kids: the child Registers the entry keeps or    *)
(* points into; ops: ids of the expressions it keeps (0 is the id of a     *)
(* NULL entry).  Let, Const, Unary, AddrOf and Field keep a POINTER into    *)
(* their own table instead, good while its capacity is gen.                *)
Entry == [eid : Nat, tag : Tags, name : Names \cup {NoName},
          ref : Names \cup {NoName}, kids : Seq(Nat), ops : Seq(Nat), gen : Nat]

NewEntry(tag, name, ref, kids, ops) ==
  [eid |-> 0, tag |-> tag, name |-> name, ref |-> ref, kids |-> kids,
   ops |-> ops, gen |-> 0]

(* register_table_put followed by the `absent > 0` test: the first put of  *)
(* a key wins.                                                             *)
PutIfAbsent(m, k, v) ==
  [j \in DOMAIN m \cup {k} |-> IF j \in DOMAIN m THEN m[j] ELSE v]

(* cap is khashl's number of buckets: a put that finds the table at its    *)
(* load factor of 3/4 reallocates and rehashes it first.                   *)
EmptyTable == [names |-> << >>, ids |-> << >>, cap |-> 0]

Load(tab) == Cardinality(DOMAIN tab.names) + Cardinality(DOMAIN tab.ids)

Grow(cap, load) ==
  IF load < (cap \div 2) + (cap \div 4) THEN cap
  ELSE IF cap = 0 THEN 4 ELSE 2 * cap

(* Mutant: the last put of a name wins.                                     *)
PutNameLast(tab, e) ==
  [names |-> [x \in DOMAIN tab.names \cup {e.name} |->
                IF x = e.name THEN e ELSE tab.names[x]],
   ids   |-> tab.ids,
   cap   |-> Grow(tab.cap, Load(tab))]

PutName(tab, e) ==
  [names |-> PutIfAbsent(tab.names, e.name, e),
   ids   |-> tab.ids,
   cap   |-> Grow(tab.cap, Load(tab))]

PutId(tab, e) ==
  [names |-> tab.names,
   ids   |-> PutIfAbsent(tab.ids, e.eid, e),
   cap   |-> Grow(tab.cap, Load(tab))]

(* The global Register of main.c and a counter that starts at 1.           *)
InitTables == [next |-> 1, parent |-> <<0>>, table |-> <<EmptyTable>>]

ScopesOf(T) == 1..Len(T.parent)

(* register_insert and register_insert_child: stamp the entry, put it under *)
(* its name if it has one, then under its id.                               *)
Stamp(T, entry) == [entry EXCEPT !.eid = T.next]

PutBoth(tab, e) == PutId(IF e.name = NoName THEN tab ELSE PutName(tab, e), e)

(* Mutant: the name is put before the entry has its id.                    *)
InsertStampedLate(T, r, entry) ==
  LET named == IF entry.name = NoName THEN T.table[r] ELSE PutName(T.table[r], entry)
  IN  [next   |-> T.next + 1,
       parent |-> T.parent,
       table  |-> [T.table EXCEPT ![r] = PutId(named, Stamp(T, entry))]]

(* Mutant: an entry without a name leaves the counter where it was.        *)
InsertSameId(T, r, entry) ==
  [next   |-> IF entry.name = NoName THEN T.next ELSE T.next + 1,
   parent |-> T.parent,
   table  |-> [T.table EXCEPT ![r] = PutBoth(@, Stamp(T, entry))]]

Insert(T, r, entry) ==
  [next   |-> T.next + 1,
   parent |-> T.parent,
   table  |-> [T.table EXCEPT ![r] = PutBoth(@, Stamp(T, entry))]]

(* Mutant: the child is linked to its parent and its table never made.     *)
MakeChildNoTable(T, r) ==
  [next |-> T.next, parent |-> Append(T.parent, r), table |-> T.table]

(* make_child: an empty table that shares the parent's counter.  Its       *)
(* number is Len(T.parent) + 1.                                            *)
MakeChild(T, r) ==
  [next   |-> T.next,
   parent |-> Append(T.parent, r),
   table  |-> Append(T.table, EmptyTable)]

(* register_get_by_id: one table, no walk.                                 *)
HasId(T, r, id) == id \in DOMAIN T.table[r].ids

(* register_get: the table itself, then its parents; 0 is NULL.            *)
GetId(T, r, x) ==
  LET get[s \in 0..Len(T.parent)] ==
        IF s = 0 THEN 0
        ELSE IF x \in DOMAIN T.table[s].names THEN T.table[s].names[x].eid
        ELSE get[T.parent[s]]
  IN  get[r]

(* What a RegisterEntry pointer to entry id of table r, taken in T, reads   *)
(* in U.  If the table was reallocated in between, the bucket is freed      *)
(* memory or holds another entry; 0 stands for whatever is no entry's id.   *)
Held(T, U, r, id) ==
  IF U.table[r].cap = T.table[r].cap THEN {id} ELSE 0..(U.next - 1)

-------------------------------------------------------------------------------
(* Well-formed tables: what every operation above preserves.               *)

TablesType(T) ==
  /\ T.next \in Nat \ {0}
  /\ T.parent \in Seq(Nat)
  /\ Len(T.parent) \in Nat \ {0}
  /\ Len(T.table) = Len(T.parent)
  /\ T.table = [r \in ScopesOf(T) |-> T.table[r]]
  /\ \A r \in ScopesOf(T) :
       /\ DOMAIN T.table[r].names \subseteq Names
       /\ DOMAIN T.table[r].ids \subseteq 1..(T.next - 1)
       /\ T.table[r].cap \in Nat
       /\ \A x \in DOMAIN T.table[r].names : T.table[r].names[x] \in Entry
       /\ \A i \in DOMAIN T.table[r].ids : T.table[r].ids[i] \in Entry

(* A parent was made before its children, so every chain of parents ends.  *)
ParentsOlder(T) == \A r \in ScopesOf(T) : T.parent[r] < r

(* The shared counter gives an id to one entry of one table.               *)
IdsDisjoint(T) ==
  \A r, s \in ScopesOf(T) :
    \A i \in DOMAIN T.table[r].ids \cap DOMAIN T.table[s].ids : r = s

(* The copy under an id carries that id.                                   *)
IdsStamped(T) ==
  \A r \in ScopesOf(T) :
    \A i \in DOMAIN T.table[r].ids : T.table[r].ids[i].eid = i

(* The copy under a name is the copy under its id, ...                     *)
NamesAgree(T) ==
  \A r \in ScopesOf(T) :
    \A x \in DOMAIN T.table[r].names :
      LET e == T.table[r].names[x] IN
        /\ e.name = x
        /\ e.eid \in DOMAIN T.table[r].ids
        /\ T.table[r].ids[e.eid] = e

(* ... and it is the earliest of the table's entries of that name: a later *)
(* declaration stays reachable by id only.                                 *)
NamesEarliest(T) ==
  \A r \in ScopesOf(T) :
    \A i \in DOMAIN T.table[r].ids :
      LET x == T.table[r].ids[i].name IN
        x # NoName => /\ x \in DOMAIN T.table[r].names
                      /\ T.table[r].names[x].eid <= i
-------------------------------------------------------------------------------
(* Growth, as seen from the entries a table holds.                         *)

(* What a table held before entry j was put.                               *)
LoadBefore(tab, j) ==
  Cardinality({i \in DOMAIN tab.ids : i < j})
    + Cardinality({x \in DOMAIN tab.names : tab.names[x].eid < j})

Doubled[n \in Nat] == IF n = 0 THEN 1 ELSE 2 * Doubled[n - 1]

(* The loads at which khashl reallocates a table that started empty: three *)
(* quarters of four buckets, and of each doubling of them.                 *)
GrowthLoad(load) == \E n \in 0..load : load = 3 * Doubled[n]
===============================================================================
