----------------------------- MODULE CodegenPaths -----------------------------
(***************************************************************************)
(* What the generated functions do, against what their bodies say: the     *)
(* paths through the basic blocks, and the entities the names of a body    *)
(* stand for.  The definitions are recursive on bodies and blocks.         *)
(***************************************************************************)
EXTENDS Codegen

-------------------------------------------------------------------------------
(* Paths                                                                   *)

(* The ids of the statements of a body that the paths below show.          *)
RECURSIVE Shown(_)
Shown(body) ==
  UNION {{body[k].src} \cup UNION {Shown(body[k].blocks[b]) : b \in DOMAIN body[k].blocks} :
         k \in DOMAIN body}

(* What a run of the generated function does, as the declarations it       *)
(* reaches, the conditions it tests and the return it ends with; a         *)
(* condition of a loop is tested at most twice.  walked: blocks entered so  *)
(* far.  A block ends at its first terminator.                             *)
RECURSIVE CodePaths(_, _, _, _)
CodePaths(f, b, walked, ids) ==
  LET code  == f.blocks[b].code
      ends  == {k \in DOMAIN code : code[k].op \in Terminators}
      last  == IF ends = {} THEN Len(code) ELSE CHOOSE k \in ends : \A j \in ends : k <= j
      decls == SelectSeq(SubSeq(code, 1, last),
                         LAMBDA i : i.op = "alloca" /\ i.slot.src \in ids)
      trace == [k \in DOMAIN decls |-> decls[k].slot.src]
      On(c) ==
        IF Cardinality({k \in DOMAIN walked : walked[k] = c})
             >= (IF f.blocks[c].kind = "cond" THEN 2 ELSE 1)
        THEN {} ELSE CodePaths(f, c, Append(walked, c), ids)
  IN  IF ends = {} THEN {trace}
      ELSE LET t == code[last] IN
        CASE t.op = "ret" -> {Append(trace, t.src)}
          [] t.op = "br" -> {trace \o p : p \in On(t.to)}
          [] t.op = "condbr" ->
               {Append(trace, t.src) \o p : p \in On(t.yes) \cup On(t.no)}

(* The same of the body it was generated from.  A path is open when it may *)
(* go on with the next statement.                                          *)
GoesOn(trace) == [trace |-> trace, open |-> TRUE]
RECURSIVE BodyPaths(_)
BodyPaths(body) ==
  IF body = << >> THEN {GoesOn(<< >>)}
  ELSE LET s == Head(body)
           Test(p) == [p EXCEPT !.trace = <<s.src>> \o @]
           Again(p) == IF p.open THEN [p EXCEPT !.trace = Append(@, s.src)] ELSE p
           first ==
             CASE s.tag \in Declarations -> {GoesOn(<<s.src>>)}
               [] s.tag = "Return" -> {[trace |-> <<s.src>>, open |-> FALSE]}
               [] s.tag \in {"If", "Elif"} ->
                    {Test(p) : p \in BodyPaths(s.blocks[1]) \cup BodyPaths(s.blocks[2])}
               [] s.tag \in {"While", "For"} ->
                    {GoesOn(<<s.src>>)} \cup {Test(Again(p)) : p \in BodyPaths(s.blocks[1])}
               [] OTHER -> {GoesOn(<< >>)}
       IN  {p \in first : ~p.open} \cup
           {[q EXCEPT !.trace = p.trace \o @] :
              p \in {p \in first : p.open}, q \in BodyPaths(Tail(body))}

BodyOf(f) == IF module[fns[f].def].tag = "Function" THEN module[fns[f].def].blocks[1] ELSE << >>

(* The code of f is complete, and the generator has stopped.               *)
Generated(f) == todo = << >> /\ (f < Len(fns) \/ ~crashed)

(* A function whose code is complete runs its statements as the source     *)
(* nests them: the blocks of if, else, while and for are entered, left and  *)
(* ended by a return exactly as its body says, however deep they nest.     *)
PathsAgree ==
  \A f \in DOMAIN fns :
    Generated(f) =>
      CodePaths(fns[f], 1, <<1>>, Shown(BodyOf(f))) = {p.trace : p \in BodyPaths(BodyOf(f))}

(* The VarRefs of an expression.                                           *)
RECURSIVE VarRefs(_)
VarRefs(e) ==
  (IF e.tag = "VarRef" THEN {e} ELSE {}) \cup UNION {VarRefs(e.args[k]) : k \in DOMAIN e.args}

SameDeclarations(s) ==
  \A k \in DOMAIN s.exprs :
    \A v \in VarRefs(s.exprs[k]) : v.eid # 0 => GetId(T, scope, v.name) = v.eid

(* The lowering pass resolved every name and kept the entity in the node;  *)
(* the code generator looks the name up again, from the function's scope.   *)
(* A variable can be used in the scope that defines it, "like a            *)
(* class/function/loop/if statement" (Docs/variables.md:167).               *)
BlockVariablesResolve ==
  LowerDone /\ todo # << >> /\ Head(todo).op = "stmt" => SameDeclarations(The)

(* No scope inside the function whose scope is r declares a name.          *)
FlatScope(r) ==
  LET inside[c \in 0..Len(T.parent)] ==
        c # 0 /\ (T.parent[c] = r \/ inside[T.parent[c]])
  IN  \A c \in ScopesOf(T) : inside[c] => T.table[c].names = << >>

(* The name of the definition is the definition's: none of that name was   *)
(* registered before it.                                                   *)
DefinedFirst(i) == GetId(T, 1, module[i].name) = module[i].src

(* In a function that is the first of its name and declares nothing in its *)
(* blocks (nor in functions inside it) the two lookups agree, in every     *)
(* block, whatever names the function and the globals share.               *)
FlatNamesResolve ==
  LowerDone /\ todo # << >> /\ Head(todo).op = "stmt" =>
    LET def  == fns[Len(fns)].def
        body == T.table[1].ids[module[def].src].kids[1]
    IN  DefinedFirst(def) /\ FlatScope(body) => SameDeclarations(The)
===============================================================================
