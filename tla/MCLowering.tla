------------------------------ MODULE MCLowering ------------------------------
(***************************************************************************)
(* Instances of Lowering for TLC, over the identifiers and expressions of  *)
(* MCRegistrar.                                                            *)
(***************************************************************************)
EXTENDS Lowering, MCRegistrar

AndMakes == {Literal, Make}
===============================================================================
