----------------------------- MODULE Validator -----------------------------
(***************************************************************************)
(* The validator (semantics/validate/).  It walks the declarations of the  *)
(* units of a program, one unit after the other as the COMPILE jobs do,    *)
(* after the symbol tables of all have been built.  The recursion over     *)
(* blocks and if statements is the stack `frames', the chain of tables     *)
(* below the unit's own is `scopes', and what callees write through        *)
(* `int * returns' is `returns'.  Expressions are validated in one step.   *)
(***************************************************************************)
EXTENDS Symtab, FiniteSets

CONSTANTS Programs, \* sequences of units, each a sequence of declarations
          Exprs,    \* all expressions in them, and their parts
          Stmts,    \* all statements in them, and their parts
          Depth     \* of each expression and statement: a tree that the parser has made has an end

\* The expressions or statements right below an expression or a statement.
Parts(node) ==
  CASE node.kind = "call"   -> Range(node.args)
    [] node.kind = "binary" -> {node.left, node.right}
    [] node.kind = "block"  -> Range(node.stmts)
    [] node.kind = "if"     -> {node.then, node.else} \ {None}
    [] OTHER                -> {}

\* What the parser makes: trees of a height, whose nodes have the parts of their kind.
AreTrees(exprs, stmts, depth) ==
  /\ None \notin exprs \cup stmts
  /\ depth \in [exprs \cup stmts -> Nat]
  /\ \A node \in exprs \cup stmts : \A part \in Parts(node) : depth[part] < depth[node]
  /\ \A e \in exprs : /\ e.kind \in {"num", "bool", "id", "call", "binary"}
                      /\ e.kind = "call" => e.args \in Seq(exprs)
                      /\ e.kind = "binary" => /\ e.op \in {"bool", "assign", "arith"}
                                              /\ {e.left, e.right} \subseteq exprs
  /\ \A s \in stmts :
       /\ s.kind \in {"empty", "expr", "var", "return", "block", "if"}
       /\ s.kind = "expr" => s.expr \in exprs
       /\ s.kind = "var" => s.init \in exprs \cup {None}
       /\ s.kind = "return" => s.expr \in exprs \cup {None}
       /\ s.kind = "block" => s.stmts \in Seq(stmts)
       /\ s.kind = "if" => s.cond \in exprs /\ s.then \in stmts /\ s.else \in stmts \cup {None}

ArePrograms(programs, exprs, stmts) ==
  \A units \in programs :
    /\ units \in Seq(Range(units)) /\ units # <<>>
    /\ \A decls \in Range(units) :
         /\ decls \in Seq(Range(decls))
         /\ \A d \in Range(decls) :
              \/ d.kind = "var" /\ d.init \in exprs \cup {None}
              \/ /\ d.kind = "fn" /\ d.params \in Seq(Range(d.params))
                 /\ \A p \in Range(d.params) : p.init \in exprs \cup {None}
                 /\ d.body = None \/ (d.body \in stmts /\ d.body.kind = "block")

ASSUME ValidatorAssumption ==
  AreTrees(Exprs, Stmts, Depth) /\ ArePrograms(Programs, Exprs, Stmts)

VARIABLES program,
          tables,   \* the units' symbol tables
          unit,     \* the unit, and
          decl,     \* the declaration of it that is validated
          err,      \* of validate_program
          scopes,   \* from the parameters of the function to the innermost block
          frames,   \* activations of validate_bstmt and validate_if
          returns,  \* of the function, and of each if statement that is open
          pc,       \* what runs; in a function: a statement, or the result of one
          reported  \* history: has an error been found?

vars == <<program, tables, unit, decl, err, scopes, frames, returns, pc, reported>>

-----------------------------------------------------------------------------
(* Names. *)

\* All that names are looked up in: the units' tables, and the scopes below the one of the unit.
Env == [tables |-> tables, scopes |-> scopes]
BecomesEnv(env) == tables' = env.tables /\ scopes' = env.scopes

Holders(env, name) == {i \in DOMAIN env.scopes : name \in DOMAIN env.scopes[i]}

\* Mutant: the outermost declaration is found.
Innermost_First(levels) == Min(levels)

Innermost(levels) == Max(levels)

Lookup(table, name) == IF name \in DOMAIN table THEN table[name] ELSE None

\* find_symbol: a name with a prefix is looked up in the table of that unit, any other in the
\* innermost scope that has it (find_symbol_from_scope).
FindSymbol(env, id) ==
  IF id.unit # None
  THEN IF id.unit \in DOMAIN env.tables THEN Lookup(env.tables[id.unit], id.name) ELSE None
  ELSE LET levels == Holders(env, id.name) IN
       IF levels # {} THEN env.scopes[Innermost(levels)][id.name]
       ELSE Lookup(env.tables[unit], id.name)

\* The symbol a global declaration finds under its name gets its type.
SetType(env, name, type) ==
  LET levels == Holders(env, name) IN
  IF levels # {} THEN [env EXCEPT !.scopes[Innermost(levels)][name].type = type]
  ELSE [env EXCEPT !.tables[unit][name].type = type]

\* enter_scope, exit_scope
EnterScope(env) == [env EXCEPT !.scopes = Append(@, <<>>)]
ExitScope(env) == [env EXCEPT !.scopes = Front(@)]

Here(name) == TypeIn(unit, name)

-----------------------------------------------------------------------------
(* Expressions.  A validation is "ok", it has "failed", or it is "stuck" in undefined behaviour. *)

\* Steps are taken in order until one is not "ok".
InOrder(steps) ==
  LET bad == {i \in DOMAIN steps : steps[i] # "ok"} IN
  IF bad = {} THEN "ok" ELSE steps[Min(bad)]

Require(condition) == IF condition THEN "ok" ELSE "failed"

Typed(result, type) == [result |-> result, type |-> IF result = "ok" THEN type ELSE None]

\* yfse_get_expr_type of a binary expression.
BinaryType(e, left, right) ==
  CASE e.op = "bool"   -> Here("bool")
    [] e.op = "assign" -> left
    [] e.op = "arith"  -> IF Bits(left) > Bits(right) THEN left ELSE right

\* An argument, and its conversion to the type of its parameter.
Argument(param, valid) ==
  InOrder(<<valid.result, Require(Here(param) # Null), Convert(valid.type, Here(param))>>)

\* Mutant: arguments may be missing.
Arguments_Fewer(params, args, valid) ==
  InOrder(<<InOrder([i \in DOMAIN params \cap DOMAIN args |-> Argument(params[i], valid[args[i]])]),
            Require(Len(args) <= Len(params))>>)

\* The loop of validate_funccall: the numbers are compared when one of the two runs out.
Arguments(params, args, valid) ==
  InOrder(<<InOrder([i \in DOMAIN params \cap DOMAIN args |-> Argument(params[i], valid[args[i]])]),
            Require(Len(params) = Len(args))>>)

\* validate_expr_e of e: the result, and the type yfse_get_expr_type then finds, when its parts are valid.
ValidateExpr(env, e, valid) ==
  CASE e.kind = "num"  -> Typed("ok", Here("int"))
    [] e.kind = "bool" -> Typed("ok", Here("bool"))
    [] e.kind = "id"   -> LET sym == FindSymbol(env, e)
                          IN  IF sym = None THEN Typed("failed", None)
                              ELSE Typed("ok", sym.type)
    [] e.kind = "call" -> LET sym == FindSymbol(env, e)
                          IN  IF sym = None \/ sym.kind # "fn" THEN Typed("failed", None)
                              ELSE Typed(Arguments(sym.params, e.args, valid), sym.type)
    [] e.kind = "binary" ->
         LET left == valid[e.left]
             right == valid[e.right]
             result == InOrder(<<Require(e.op = "assign" => e.left.kind = "id"),
                                 left.result, right.result,
                                 Convert(left.type, right.type)>>)
         IN  Typed(result, IF result = "ok" THEN BinaryType(e, left.type, right.type) ELSE None)

\* validate_expr
Validate(env) == LET valid[e \in Exprs] == ValidateExpr(env, e, valid) IN valid

-----------------------------------------------------------------------------
(* Variables. *)

\* The second half of validate_vardecl.
VarChecks(env, d, type) ==
  IF type = Null \/ Bits(type) = 0 THEN "failed"
  ELSE IF d.init = None THEN "ok"
  ELSE LET init == Validate(env)[d.init] IN InOrder(<<init.result, Convert(init.type, type)>>)

\* validate_vardecl below the global scope.  seen: whether find_symbol finds what there is; if so a
\* name that the innermost scope has is refused, else its symbol is replaced.
LocalVar(env, d, seen) ==
  IF seen /\ d.name \in DOMAIN Last(env.scopes)
  THEN [env |-> env, result |-> "failed"]
  ELSE LET new == [env EXCEPT !.scopes[Len(env.scopes)] = Put(@, d.name, Variable(Here(d.type)))]
       IN  [env |-> new, result |-> VarChecks(new, d, Here(d.type))]

\* The parameters of a function, up to the first one that is not valid.
Params(env, params) ==
  LET upTo[n \in 0 .. Len(params)] ==
        IF n = 0 THEN [env |-> env, result |-> "ok"]
        ELSE LET before == upTo[n - 1] IN
             IF before.result = "ok" THEN LocalVar(before.env, params[n], TRUE) ELSE before
  IN  upTo[Len(params)]

-----------------------------------------------------------------------------
(* Where the validator is. *)

Decls == program[unit]
Decl == Decls[decl]
Top == Last(frames)
Below == Front(frames)

InBlock == frames # <<>> /\ Top.of = "block"
InIf == frames # <<>> /\ Top.of = "if"

BlockFrame(stmts) == [of |-> "block", stmts |-> stmts, at |-> 1, err |-> FALSE]
IfFrame(node) == [of |-> "if", node |-> node, branch |-> "then", thenReturns |-> FALSE]

\* A statement is validated: the next of a block, or a branch of an if statement.
AtStmt == pc = "stmt" /\ (InBlock => Top.at <= Len(Top.stmts))
Stmt == IF Top.of = "block" THEN Top.stmts[Top.at]
        ELSE IF Top.branch = "then" THEN Top.node.then ELSE Top.node.else

SetReturns(value) == Append(Front(returns), value)

Init ==
  /\ program \in Programs
  /\ tables = <<>> /\ scopes = <<>> /\ frames = <<>> /\ returns = <<>>
  /\ unit = 1 /\ decl = 1
  /\ err = FALSE /\ reported = FALSE
  /\ pc = "symtab"

-----------------------------------------------------------------------------
(* Units and declarations. *)

\* yfs_build_symtab, for one unit after the other.  A unit that fails ends the compilation.
BuildSymtab ==
  /\ pc = "symtab"
  /\ tables' = Append(tables, Table(program[Len(tables) + 1]))
  /\ IF Duplicates(program[Len(tables) + 1])
     THEN pc' = "refused" /\ reported' = TRUE
     ELSE /\ pc' = IF Len(tables) + 1 = Len(program) THEN "decl" ELSE "symtab"
          /\ UNCHANGED reported
  /\ UNCHANGED <<program, unit, decl, err, scopes, frames, returns>>

\* Mutant: a declaration that failed is forgotten.
Declared_Lax(result) ==
  /\ decl' = decl + 1
  /\ err' = FALSE
  /\ reported' = (reported \/ result = "failed")
  /\ pc' = IF result = "stuck" THEN "stuck" ELSE "decl"

\* The loop of validate_program goes on after a declaration that failed.
Declared(result) ==
  /\ decl' = decl + 1
  /\ err' = (err \/ result = "failed")
  /\ reported' = (reported \/ result = "failed")
  /\ pc' = IF result = "stuck" THEN "stuck" ELSE "decl"

AtDecl(kind) == pc = "decl" /\ decl <= Len(Decls) /\ Decl.kind = kind

\* validate_vardecl in the global scope: the symbol is there, and gets its type.
GlobalVar ==
  /\ AtDecl("var") /\ scopes = <<>>
  /\ LET env == SetType(Env, Decl.name, Here(Decl.type)) IN
     /\ BecomesEnv(env)
     /\ Declared(VarChecks(env, Decl, Here(Decl.type)))
  /\ UNCHANGED <<program, unit, frames, returns>>

\* ... and of a global declaration in a scope that a function before it has left open.
MisplacedVar ==
  /\ AtDecl("var") /\ scopes # <<>>
  /\ LET var == LocalVar(Env, Decl, TRUE) IN
     /\ BecomesEnv(var.env)
     /\ Declared(var.result)
  /\ UNCHANGED <<program, unit, frames, returns>>

\* Mutant: the function gets its return type after its body has been validated.
FnTyped_Late(env) == env

\* validate_funcdecl: the function has its return type before anything in it is validated.
FnTyped(env) == SetType(env, Decl.name, Here(Decl.ret))

FnOpened == Params(EnterScope(FnTyped(Env)), Decl.params)

\* The return type is not known: no scope is entered.
BadReturnType ==
  /\ AtDecl("fn") /\ Here(Decl.ret) = Null
  /\ BecomesEnv(FnTyped(Env))
  /\ Declared("failed")
  /\ UNCHANGED <<program, unit, frames, returns>>

\* A parameter is not valid: its scope stays open.
BadParams ==
  /\ AtDecl("fn") /\ Here(Decl.ret) # Null /\ FnOpened.result # "ok"
  /\ BecomesEnv(FnOpened.env)
  /\ Declared(FnOpened.result)
  /\ UNCHANGED <<program, unit, frames, returns>>

NoBody ==
  /\ AtDecl("fn") /\ Here(Decl.ret) # Null /\ FnOpened.result = "ok" /\ Decl.body = None
  /\ BecomesEnv(ExitScope(FnOpened.env))
  /\ Declared("ok")
  /\ UNCHANGED <<program, unit, frames, returns>>

\* validate_bstmt enters the scope of the block and clears what it returns.
Body ==
  /\ AtDecl("fn") /\ Here(Decl.ret) # Null /\ FnOpened.result = "ok" /\ Decl.body # None
  /\ BecomesEnv(EnterScope(FnOpened.env))
  /\ frames' = <<BlockFrame(Decl.body.stmts)>>
  /\ returns' = <<FALSE>>
  /\ pc' = "stmt"
  /\ UNCHANGED <<program, unit, decl, err, reported>>

AfterBody == frames = <<>> /\ pc \in {"ok", "failed"}

\* The body is not valid: the scope of the parameters stays open.
EndFnFailed ==
  /\ AfterBody /\ pc = "failed"
  /\ Declared("failed")
  /\ returns' = <<>>
  /\ UNCHANGED <<program, tables, unit, scopes, frames>>

\* A function with a value has to return it always, and an extc function must not have a body.
EndFnChecks ==
  IF ~Last(returns) /\ Bits(Here(Decl.ret)) # 0 THEN "failed"
  ELSE IF Decl.extc THEN "failed"
  ELSE "ok"

EndFn ==
  /\ AfterBody /\ pc = "ok"
  /\ BecomesEnv(ExitScope(Env))
  /\ Declared(EndFnChecks)
  /\ returns' = <<>>
  /\ UNCHANGED <<program, unit, frames>>

\* validate_program returns err; the next unit's job runs if it is 0.
EndUnit ==
  /\ pc = "decl" /\ decl > Len(Decls)
  /\ IF ~err /\ unit < Len(program)
     THEN /\ unit' = unit + 1 /\ decl' = 1 /\ scopes' = <<>>
          /\ UNCHANGED pc
     ELSE /\ pc' = IF err THEN "refused" ELSE "accepted"
          /\ UNCHANGED <<unit, decl, scopes>>
  /\ UNCHANGED <<program, tables, err, frames, returns, reported>>

-----------------------------------------------------------------------------
(* Statements. *)

Finish(result) ==
  /\ pc' = result
  /\ reported' = (reported \/ result = "failed")

Empty ==
  /\ AtStmt /\ Stmt.kind = "empty"
  /\ Finish("ok")
  /\ UNCHANGED <<program, tables, unit, decl, err, scopes, frames, returns>>

Expression ==
  /\ AtStmt /\ Stmt.kind = "expr"
  /\ Finish(Validate(Env)[Stmt.expr].result)
  /\ UNCHANGED <<program, tables, unit, decl, err, scopes, frames, returns>>

\* yfp_stmt copies the name of a local variable and not its path: what find_symbol then reads as the
\* path was never written.  It is empty, or it is no unit's and find_symbol finds nothing, or it is the
\* prefix of a unit with a global of that name, which is refused as if it were of the same scope.
Var ==
  /\ AtStmt /\ Stmt.kind = "var"
  /\ \/ \E pathIsEmpty \in BOOLEAN :
          LET var == LocalVar(Env, Stmt, pathIsEmpty) IN
          /\ BecomesEnv(var.env)
          /\ Finish(var.result)
     \/ /\ \E v \in DOMAIN tables : Stmt.name \in DOMAIN tables[v]
        /\ BecomesEnv(Env)
        /\ Finish("failed")
  /\ UNCHANGED <<program, unit, decl, err, frames, returns>>

\* validate_return: a function without a value must not return one; one with a value has to return
\* what can be converted to its type, which nothing cannot.
ReturnChecks ==
  LET type == Here(Decl.ret)
      value == IF Stmt.expr = None THEN Typed("ok", Here("void")) ELSE Validate(Env)[Stmt.expr]
  IN  InOrder(<<value.result,
                IF Bits(type) = 0 THEN Require(Stmt.expr = None) ELSE Convert(value.type, type)>>)

Return ==
  /\ AtStmt /\ Stmt.kind = "return"
  /\ Finish(ReturnChecks)
  /\ returns' = IF ReturnChecks = "ok" THEN SetReturns(TRUE) ELSE returns
  /\ UNCHANGED <<program, tables, unit, decl, err, scopes, frames>>

\* validate_bstmt, with the callers' `returns'.
Block ==
  /\ AtStmt /\ Stmt.kind = "block"
  /\ BecomesEnv(EnterScope(Env))
  /\ frames' = Append(frames, BlockFrame(Stmt.stmts))
  /\ returns' = SetReturns(FALSE)
  /\ UNCHANGED <<program, unit, decl, err, pc, reported>>

\* The loop goes on after a statement that failed.
BlockNext ==
  /\ InBlock /\ pc \in {"ok", "failed"}
  /\ frames' = Append(Below, [Top EXCEPT !.at = @ + 1, !.err = @ \/ pc = "failed"])
  /\ pc' = "stmt"
  /\ UNCHANGED <<program, tables, unit, decl, err, scopes, returns, reported>>

\* Mutant: the scope is not left.
EndBlock_Leaves ==
  /\ InBlock /\ pc = "stmt" /\ Top.at > Len(Top.stmts)
  /\ BecomesEnv(Env)
  /\ frames' = Below
  /\ pc' = IF Top.err THEN "failed" ELSE "ok"
  /\ UNCHANGED <<program, unit, decl, err, returns, reported>>

EndBlock ==
  /\ InBlock /\ pc = "stmt" /\ Top.at > Len(Top.stmts)
  /\ BecomesEnv(ExitScope(Env))
  /\ frames' = Below
  /\ pc' = IF Top.err THEN "failed" ELSE "ok"
  /\ UNCHANGED <<program, unit, decl, err, returns, reported>>

\* The condition has to be of the bool of this unit; of any other type the message reads the name.
IsBool(type) ==
  IF type \in {None, Unset, Null} THEN "stuck" ELSE Require(type = Here("bool"))

Condition ==
  LET cond == Validate(Env)[Stmt.cond] IN InOrder(<<cond.result, IsBool(cond.type)>>)

IfRefused ==
  /\ AtStmt /\ Stmt.kind = "if" /\ Condition # "ok"
  /\ Finish(Condition)
  /\ UNCHANGED <<program, tables, unit, decl, err, scopes, frames, returns>>

\* validate_if: both branches get a variable of their own to write to.
If ==
  /\ AtStmt /\ Stmt.kind = "if" /\ Condition = "ok"
  /\ frames' = Append(frames, IfFrame(Stmt))
  /\ returns' = Append(returns, FALSE)
  /\ UNCHANGED <<program, tables, unit, decl, err, scopes, pc, reported>>

\* The if statement is left: it has failed, or it tells the block around it whether it returns.
EndIf(result, value) ==
  /\ pc' = result
  /\ frames' = Below
  /\ returns' = IF result = "ok" THEN Append(Front(Front(returns)), value) ELSE Front(returns)
  /\ UNCHANGED <<program, tables, unit, decl, err, scopes, reported>>

BranchFailed == InIf /\ pc = "failed" /\ EndIf("failed", FALSE)

Else ==
  /\ InIf /\ pc = "ok" /\ Top.branch = "then" /\ Top.node.else # None
  /\ frames' = Append(Below, [Top EXCEPT !.branch = "else", !.thenReturns = Last(returns)])
  /\ returns' = SetReturns(FALSE)
  /\ pc' = "stmt"
  /\ UNCHANGED <<program, tables, unit, decl, err, scopes, reported>>

\* yfp_if writes elsebranch only if there is one: it is NULL, or validate_if follows it anywhere.
NoElse ==
  /\ InIf /\ pc = "ok" /\ Top.branch = "then" /\ Top.node.else = None
  /\ \/ EndIf("ok", FALSE)
     \/ /\ pc' = "stuck"
        /\ UNCHANGED <<program, tables, unit, decl, err, scopes, frames, returns, reported>>

\* Mutant: one branch that returns is enough.
EndElse_Either ==
  /\ InIf /\ pc = "ok" /\ Top.branch = "else"
  /\ EndIf("ok", Top.thenReturns \/ Last(returns))

EndElse ==
  /\ InIf /\ pc = "ok" /\ Top.branch = "else"
  /\ EndIf("ok", Top.thenReturns /\ Last(returns))

Finished ==
  /\ pc \in {"accepted", "refused", "stuck"}
  /\ UNCHANGED vars

Next ==
  \/ BuildSymtab \/ GlobalVar \/ MisplacedVar \/ EndUnit
  \/ BadReturnType \/ BadParams \/ NoBody \/ Body \/ EndFn \/ EndFnFailed
  \/ Empty \/ Expression \/ Var \/ Return
  \/ Block \/ BlockNext \/ EndBlock
  \/ IfRefused \/ If \/ BranchFailed \/ Else \/ NoElse \/ EndElse
  \/ Finished

Spec == Init /\ [][Next]_vars
-----------------------------------------------------------------------------
(* What the text of a program says.                                        *)

\* Every path through the statement ends in a return statement.
AlwaysReturns[s \in Stmts] ==
  CASE s.kind = "return" -> TRUE
    [] s.kind = "block"  -> \E i \in DOMAIN s.stmts : AlwaysReturns[s.stmts[i]]
    [] s.kind = "if"     -> s.else # None /\ AlwaysReturns[s.then] /\ AlwaysReturns[s.else]
    [] OTHER             -> FALSE

\* The variables a statement leaves in the scope it is in: an if statement has none of its own.
LeavesDeclared[s \in Stmts] ==
  CASE s.kind = "var" -> {s}
    [] s.kind = "if"  -> LeavesDeclared[s.then] \cup IF s.else = None THEN {} ELSE LeavesDeclared[s.else]
    [] OTHER          -> {}

\* What the text has declared in an open block, or in the branches of an open if statement, so far.
DeclaredIn(frame) ==
  IF frame.of = "block"
  THEN UNION {LeavesDeclared[frame.stmts[i]] : i \in 1 .. frame.at - 1}
  ELSE IF frame.branch = "else" THEN LeavesDeclared[frame.node.then] ELSE {}

\* The level of a frame: 1 for the parameters, and one more for each block.
Level(i) == 1 + Cardinality({j \in 1 .. i : frames[j].of = "block"})

VariablesAt(level) ==
  IF level = 1 THEN Range(Decl.params)
  ELSE UNION {DeclaredIn(frames[i]) : i \in {j \in DOMAIN frames : Level(j) = level}}

\* The symbols that name may stand for at this point of the text.
Meaning(name) ==
  LET levels == IF frames = <<>> THEN {}
                ELSE {l \in 1 .. Level(Len(frames)) : \E d \in VariablesAt(l) : d.name = name}
  IN  IF levels = {} THEN {Lookup(tables[unit], name)}
      ELSE {Variable(Here(d.type)) : d \in {v \in VariablesAt(Max(levels)) : v.name = name}}

\* The names an expression, a statement, a declaration mentions, as units and names.
NamesInExpr[e \in Exprs] ==
  CASE e.kind = "id"     -> {<<e.unit, e.name>>}
    [] e.kind = "call"   -> {<<e.unit, e.name>>} \cup UNION {NamesInExpr[a] : a \in Range(e.args)}
    [] e.kind = "binary" -> NamesInExpr[e.left] \cup NamesInExpr[e.right]
    [] OTHER             -> {}

NamesIn(expr) == IF expr = None THEN {} ELSE NamesInExpr[expr]

NamesInStmt[s \in Stmts] ==
  CASE s.kind \in {"expr", "return"} -> NamesIn(s.expr)
    [] s.kind = "var"   -> NamesIn(s.init)
    [] s.kind = "block" -> UNION {NamesInStmt[t] : t \in Range(s.stmts)}
    [] s.kind = "if"    -> NamesIn(s.cond) \cup NamesInStmt[s.then]
                             \cup IF s.else = None THEN {} ELSE NamesInStmt[s.else]
    [] OTHER            -> {}

NamesInDecl(d) ==
  IF d.kind = "var" THEN NamesIn(d.init)
  ELSE (UNION {NamesIn(p.init) : p \in Range(d.params)})
         \cup IF d.body = None THEN {} ELSE NamesInStmt[d.body]

\* A declaration u, i mentions a global name that is declared after it, here or in a later unit.
UsedBeforeDeclared ==
  \E u \in DOMAIN program : \E i \in DOMAIN program[u] : \E use \in NamesInDecl(program[u][i]) :
    LET v == IF use[1] = None THEN u ELSE use[1] IN
    /\ v \in DOMAIN program
    /\ \E j \in DOMAIN program[v] :
         program[v][j].name = use[2] /\ (v > u \/ (v = u /\ j > i))

\* An if statement without an else branch is open.
ElseMissing == InIf /\ Top.node.else = None

-----------------------------------------------------------------------------
(* Properties. *)

\* The scopes of a function that is open are those of its parameters and of each open block, and
\* `returns' has a variable for it and for each open if statement: what one activation opens it
\* closes, whether it succeeds or not (enter_scope, exit_scope, int * returns).
TypeOK ==
  /\ pc \in {"symtab", "decl", "stmt", "ok", "failed", "accepted", "refused", "stuck"}
  /\ unit \in DOMAIN program /\ decl \in 1 .. Len(Decls) + 1
  /\ \A u \in DOMAIN tables : DOMAIN tables[u] = {d.name : d \in Range(program[u])}
  /\ (pc \in {"stmt", "ok", "failed"} /\ ~reported) =>
       /\ Len(scopes) = 1 + Cardinality({i \in DOMAIN frames : frames[i].of = "block"})
       /\ Len(returns) = 1 + Cardinality({i \in DOMAIN frames : frames[i].of = "if"})
  /\ pc \in {"symtab", "decl"} => frames = <<>> /\ returns = <<>>
  /\ pc = "decl" /\ ~err => scopes = <<>>

\* Wherever a statement or a declaration is validated, every name stands for the declaration that
\* the text says: one of the innermost block that has declared it so far, or the global one, as the
\* comment of find_symbol_from_scope explains.  It holds as long as the program is right.
BindsInnermost ==
  pc \in {"stmt", "decl"} /\ ~reported =>
    \A name \in (UNION {DOMAIN scopes[i] : i \in DOMAIN scopes}) \cup DOMAIN tables[unit] :
      FindSymbol(Env, [unit |-> None, name |-> name]) \in Meaning(name)

\* No accepted function that has a value can end without returning one.
ReturnsSound ==
  pc = "accepted" =>
    \A u \in DOMAIN program : \A d \in Range(program[u]) :
      d.kind = "fn" /\ d.body # None /\ d.ret # "void" => AlwaysReturns[d.body]

\* An error anywhere, at whatever depth and whatever follows it, makes the compilation fail.
ErrorsRefuse == pc = "accepted" => ~reported

\* The validator reads no type that is not there as long as it has found no error, every name is
\* declared before it is used (in the order of the units, too), and every if has an else.
DefinedInOrder ==
  pc = "stuck" => reported \/ UsedBeforeDeclared \/ ElseMissing

\* Refuted: validate-internal.h says that returns is stuffed with 1 if a block always returns and
\* with 0 otherwise; any if statement or block behind the return overwrites the 1.
ReturnsExact ==
  AfterBody /\ pc = "ok" => (Last(returns) <=> AlwaysReturns[Decl.body])
=============================================================================
