---------------------------- MODULE MCProjectPack ----------------------------
(***************************************************************************)
(* ProjectPack with two compilers and three runs between them, over a      *)
(* config that gains or loses the name of the project, and two sources.    *)
(* Which compiler is which makes no difference.                            *)
(***************************************************************************)
EXTENDS ProjectPack, TLC

Anonymous == [name |-> None, link |-> FALSE]
Named == [name |-> "app", link |-> TRUE]

TwoConfigs == {Anonymous, Named}

Sources == {"a", "b"}
AppNames == {"app"}

Interchangeable == Permutations(Procs)
==============================================================================
