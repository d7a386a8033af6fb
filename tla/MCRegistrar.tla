------------------------------ MODULE MCRegistrar ------------------------------
(***************************************************************************)
(* Instances of Registrar for TLC.  Identifiers are strings, so that a     *)
(* mangled name can be the name the program itself declares.               *)
(***************************************************************************)
EXTENDS Registrar

(* mangle_name, then the suffixes mangle_name_unique appends.              *)
MangledNames ==
  [c \in Idents |->
     [m \in Idents |->
        LET base == m \o "_" \o c
        IN  <<base, base \o "_1", base \o "_2">>]]

(* The string after extern.                                                *)
ExternStrings == {"\"C\""}

(* One identifier, for the runs about blocks and expressions.              *)
OneName == {"x"}
OneNameAll == OneName \cup ExternStrings \cup {"x_x", "x_x_1", "x_x_2"}

(* c is a class and one of its methods, c_c is what that method mangles to. *)
MethodNames == {"c", "c_c"}
MethodAll ==
  MethodNames \cup ExternStrings \cup
  {"c_c_1", "c_c_2", "c_c_c", "c_c_c_1", "c_c_c_2", "c_c_c_c", "c_c_c_c_1",
   "c_c_c_c_2"}

Ident == [k |-> "Ident", x |-> "x", y |-> NoName]
Literal == [k |-> "Literal", x |-> NoName, y |-> NoName]
Chain == [k |-> "Chain", x |-> "x", y |-> "x"]
Call == [k |-> "Call", x |-> "x", y |-> "x"]
SelfCall == [k |-> "SelfCall", x |-> "x", y |-> "x"]
Make == [k |-> "Make", x |-> "x", y |-> "x"]
Field == [k |-> "Field", x |-> "x", y |-> "x"]
Index == [k |-> "Index", x |-> "x", y |-> "x"]
ClassCall == [k |-> "ClassCall", x |-> "x", y |-> "x"]
AddrOf == [k |-> "AddrOf", x |-> "x", y |-> NoName]
Cast == [k |-> "Cast", x |-> "x", y |-> NoName]
Builtin == [k |-> "Builtin", x |-> NoName, y |-> NoName]

NoExprs == {NoExpr}
Calls == {Ident, Call}
AllExprs == {NoExpr, Ident, Chain, Index, Call, SelfCall, ClassCall, Make, Field, Cast}
AddressExprs == {NoExpr, Builtin, AddrOf, Cast, ClassCall}
===============================================================================
