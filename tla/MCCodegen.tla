------------------------------ MODULE MCCodegen ------------------------------
(***************************************************************************)
(* Instances of Codegen for TLC, over the identifiers and expressions of   *)
(* MCLowering.  An identifier names functions and variables alike.         *)
(***************************************************************************)
EXTENDS CodegenPaths, MCLowering

TwoNames == {"x", "y"}
TwoNamesAll ==
  TwoNames \cup ExternStrings \cup UNION {{m[k] : k \in DOMAIN m} : m \in {MangledNames[c][x] : c, x \in TwoNames}}

LoadsAndAddresses == {Cast, AddrOf, ClassCall}
LiteralsAndIdents == {Literal, Ident}
LiteralsAndIndices == {Literal, Index}
===============================================================================
