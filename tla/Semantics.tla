----------------------------- MODULE Semantics -----------------------------
(***************************************************************************)
(* When a program is correct, by the messages and comments of              *)
(* semantics/validate/: rules on its text, without tables, an order of     *)
(* validation, or a state.                                                 *)
(***************************************************************************)
EXTENDS Generator

\* A type that values have; the name of each is in Size.
Valued(type) == type \in DOMAIN Size /\ Size[type] > 0
Fits(types, type) == Valued(type) /\ \E t \in types : Valued(t)

GlobalsNamed(u, name) == {d \in Range(program[u]) : d.name = name}

\* What id stands for in unit u: env is the sequence of open scopes, from names to declarations.
DeclsFor(u, env, id) ==
  LET levels == {i \in DOMAIN env : id.name \in DOMAIN env[i]} IN
  CASE id.unit # None -> IF id.unit \in DOMAIN program THEN GlobalsNamed(id.unit, id.name) ELSE {}
    [] id.unit = None /\ levels # {} -> {env[Max(levels)][id.name]}
    [] OTHER -> GlobalsNamed(u, id.name)

Declaring(env, decls) ==
  [env EXCEPT ![Len(env)] = [n \in {d.name : d \in decls} |-> CHOOSE d \in decls : d.name = n] @@ @]

\* The types of an expression: none if it is wrong.
Types(u, env) ==
  LET types[e \in Exprs] ==
        CASE e.kind = "num"  -> {"int"}
          [] e.kind = "bool" -> {"bool"}
          [] e.kind = "id"   -> {d.type : d \in {v \in DeclsFor(u, env, e) : v.kind = "var"}}
          [] e.kind = "call" ->
               {d.ret : d \in {f \in DeclsFor(u, env, e) :
                                 /\ f.kind = "fn" /\ Len(f.params) = Len(e.args)
                                 /\ \A i \in DOMAIN e.args : Fits(types[e.args[i]], f.params[i].type)}}
          [] e.kind = "binary" ->
               {CASE e.op = "bool"   -> "bool"
                  [] e.op = "assign" -> l
                  [] e.op = "arith"  -> IF Size[l] > Size[r] THEN l ELSE r :
                  l \in {t \in types[e.left] : Valued(t) /\ (e.op = "assign" => e.left.kind = "id")},
                  r \in {t \in types[e.right] : Valued(t)}}
  IN  types

\* A variable that is not the second of its name in its scope.  It may use itself.
VarRight(u, env, d) ==
  /\ env # <<>> => d.name \notin DOMAIN Last(env)
  /\ Valued(d.type)
  /\ d.init # None => Fits(Types(u, IF env = <<>> THEN env ELSE Declaring(env, {d}))[d.init], d.type)

RECURSIVE StmtRight(_, _, _, _), StmtsRight(_, _, _, _)

StmtRight(u, f, env, s) ==
  CASE s.kind = "empty"  -> TRUE
    [] s.kind = "expr"   -> Types(u, env)[s.expr] # {}
    [] s.kind = "var"    -> VarRight(u, env, s)
    [] s.kind = "return" -> IF s.expr = None THEN f.ret = "void" ELSE Fits(Types(u, env)[s.expr], f.ret)
    [] s.kind = "block"  -> StmtsRight(u, f, Append(env, <<>>), s.stmts)
    [] s.kind = "if"     ->
         /\ Types(u, env)[s.cond] = {"bool"}
         /\ StmtRight(u, f, env, s.then)
         /\ s.else # None => StmtRight(u, f, Declaring(env, LeavesDeclared[s.then]), s.else)

StmtsRight(u, f, env, stmts) ==
  stmts # <<>> =>
    /\ StmtRight(u, f, env, Head(stmts))
    /\ StmtsRight(u, f, Declaring(env, LeavesDeclared[Head(stmts)]), Tail(stmts))

\* An extc function has no body, and one with a value returns it on every path.
FnRight(u, f) ==
  LET before(i) == Declaring(<<<<>>>>, Range(SubSeq(f.params, 1, i - 1))) IN
  /\ f.ret \in DOMAIN Size
  /\ \A i \in DOMAIN f.params : VarRight(u, before(i), f.params[i])
  /\ f.body # None =>
       /\ ~f.extc
       /\ StmtRight(u, f, before(Len(f.params) + 1), f.body)
       /\ f.ret # "void" => AlwaysReturns[f.body]

Correct ==
  \A u \in DOMAIN program :
    /\ ~ReusesGlobal(u)
    /\ \A d \in Range(program[u]) : IF d.kind = "var" THEN VarRight(u, <<>>, d) ELSE FnRight(u, d)

-----------------------------------------------------------------------------
(* Where the validator is known to decide otherwise. *)

\* s itself and all statements in it.
Within[s \in Stmts] ==
  {s} \cup CASE s.kind = "block" -> UNION {Within[t] : t \in Range(s.stmts)}
             [] s.kind = "if"    -> UNION {Within[t] : t \in {s.then, s.else} \ {None}}
             [] OTHER            -> {}

StmtsOf(u) == UNION {Within[b] : b \in {d.body : d \in Functions(u)} \ {None}}

Subexprs[e \in Exprs] ==
  {e} \cup CASE e.kind = "call"   -> UNION {Subexprs[a] : a \in Range(e.args)}
             [] e.kind = "binary" -> Subexprs[e.left] \cup Subexprs[e.right]
             [] OTHER             -> {}

ExprsOf(u) ==
  LET declared == {d \in DeclsOf(u) : d.kind = "var"} \cup {s \in StmtsOf(u) : s.kind = "var"}
                \cup UNION {Range(f.params) : f \in Functions(u)}
      exprs == {v.init : v \in declared} \cup {s.cond : s \in {i \in StmtsOf(u) : i.kind = "if"}}
                 \cup {s.expr : s \in {i \in StmtsOf(u) : i.kind \in {"expr", "return"}}}
  IN  UNION {Subexprs[e] : e \in exprs \ {None}}

\* Accepted: a function that takes the name of a variable, a function's name used as a value, and a
\* second variable of one scope, when the path of the name happens not to be empty.
TakesName(u) == \E i, j \in DOMAIN program[u] :
                  i < j /\ program[u][j].kind = "fn" /\ program[u][i].name = program[u][j].name
NamesFunction(u) == \E e \in ExprsOf(u) :
  e.kind = "id" /\ \E v \in DOMAIN program : \E f \in Functions(v) : f.name = e.name
KnownToPass(u) == TakesName(u) \/ NamesFunction(u) \/ InSource(u).twice

\* Refused: a condition that is a bool of another unit; a block that goes on behind a return
\* statement with another block or if statement; and a local variable with the name of a global, when
\* its path happens to be the prefix of that one's unit.
ForeignCondition(u) ==
  \E s \in StmtsOf(u) : s.kind = "if" /\ \E use \in NamesIn(s.cond) : use[1] \notin {None, u}
GoesOn(u) ==
  \E s \in StmtsOf(u) :
    /\ s.kind = "block"
    /\ \E i, j \in DOMAIN s.stmts : i < j /\ AlwaysReturns[s.stmts[i]] /\ s.stmts[j].kind \in {"block", "if"}
ShadowsGlobal(u) ==
  \E s \in StmtsOf(u) : s.kind = "var" /\ \E v \in DOMAIN program : GlobalsNamed(v, s.name) # {}
KnownToBeRefused(u) == ForeignCondition(u) \/ GoesOn(u) \/ ShadowsGlobal(u)

-----------------------------------------------------------------------------
(* Properties. *)

\* The validator accepts the correct programs and refuses the others, over all units, whatever the
\* order of their declarations and of the units, except for the cases above (validate_program and all
\* it calls, find_symbol, yfs_add_var, yfs_add_fn).
AcceptsTheCorrect ==
  /\ pc = "accepted" => Correct \/ \E u \in DOMAIN program : KnownToPass(u)
  /\ pc = "refused" => ~Correct \/ \E u \in DOMAIN program : KnownToBeRefused(u)
=============================================================================
