----------------------------- MODULE PackRegister -----------------------------
(***************************************************************************)
(* What the file .project.pack promises to the compilers that share it:    *)
(* one register that may lose its value but never makes one up.  It holds  *)
(* what a run since the directory was last quiet wanted to store, or       *)
(* nothing that can be read; while nobody runs it does not change.         *)
(***************************************************************************)
CONSTANTS
  Procs,  \* the compilers
  Metas,  \* what can be stored
  None    \* nothing readable

VARIABLES
  stored,   \* what a reader gets
  active,   \* the compilers at work
  pending   \* what they, and those that ended among them, want to store

vars == <<stored, active, pending>>

Init ==
  /\ stored = None
  /\ active = {}
  /\ pending = {}

Begin(p, m) ==
  /\ p \notin active
  /\ active' = active \cup {p}
  /\ pending' = pending \cup {m}
  /\ UNCHANGED stored

Write(v) ==
  /\ active # {}
  /\ v \in pending \cup {None}
  /\ stored' = v
  /\ UNCHANGED <<active, pending>>

End(p) ==
  /\ p \in active
  /\ active' = active \ {p}
  /\ pending' = IF active' = {} THEN {} ELSE pending
  /\ UNCHANGED stored

Next ==
  \/ \E p \in Procs : End(p) \/ \E m \in Metas : Begin(p, m)
  \/ \E v \in Metas \cup {None} : Write(v)

Spec == Init /\ [][Next]_vars
===============================================================================
