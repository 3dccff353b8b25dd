----------------------------- MODULE Generator -----------------------------
(***************************************************************************)
(* The code generator (gen/gen.c), as far as names go: what a unit         *)
(* declares and uses, in which scopes, in the text of the unit and in the  *)
(* C that is generated from it.                                            *)
(***************************************************************************)
EXTENDS Validator, Integers

\* No prefix of a name is not the number of a unit.
ASSUME NoUnit == None \notin Nat

\* The pieces of a text.  `key' is what is looked up, `name' the name in the source.
Open == <<[is |-> "open"]>>
Close == <<[is |-> "close"]>>
DeclGlobal(key, name) == <<[is |-> "global", key |-> key, name |-> name]>>
DeclLocal(key, name) == <<[is |-> "local", key |-> key, name |-> name]>>
Uses(key) == <<[is |-> "use", key |-> key]>>
InScope(text) == Open \o text \o Close

-----------------------------------------------------------------------------
(* What is generated.  The prefix of every name is empty: create_formatted_prefix copies nothing. *)

Prefixed(name) == <<"$$", name>>
Bare(name) == <<"", name>>

\* yf_gen_expr
GenExpr[e \in Exprs] ==
  CASE e.kind = "id"     -> Uses(Prefixed(e.name))
    [] e.kind = "call"   -> Uses(Prefixed(e.name)) \o FlattenSeq([i \in DOMAIN e.args |-> GenExpr[e.args[i]]])
    [] e.kind = "binary" -> GenExpr[e.left] \o GenExpr[e.right]
    [] OTHER             -> <<>>

GenIfAny(e) == IF e = None THEN <<>> ELSE GenExpr[e]

\* yf_gen_vardecl, below the global scope
GenVar(d) == DeclLocal(Prefixed(d.name), d.name) \o GenIfAny(d.init)

\* Mutant: the statements without the braces.
GenBlock_Unbraced(stmts) == FlattenSeq(stmts)

\* yf_gen_bstmt
GenBlock(stmts) == InScope(FlattenSeq(stmts))

\* yf_gen_node: a statement.  yf_gen_if puts braces around each branch.
GenStmt[s \in Stmts] ==
  CASE s.kind \in {"expr", "return"} -> GenIfAny(s.expr)
    [] s.kind = "var"   -> GenVar(s)
    [] s.kind = "block" -> GenBlock([i \in DOMAIN s.stmts |-> GenStmt[s.stmts[i]]])
    [] s.kind = "if"    -> GenIfAny(s.cond) \o InScope(GenStmt[s.then])
                             \o IF s.else = None THEN <<>> ELSE InScope(GenStmt[s.else])
    [] OTHER            -> <<>>

\* The name yf_gen_funcdecl declares; that of a call is always prefixed.
FuncName(d) == IF d.name = "main" \/ d.extc THEN Bare(d.name) ELSE Prefixed(d.name)

\* yf_gen_funcdecl: the parameters are in the scope of the body's block, as C has it.
GenFunc(d) ==
  DeclGlobal(FuncName(d), d.name)
    \o InScope(FlattenSeq([i \in DOMAIN d.params |-> GenVar(d.params[i])])
                 \o IF d.body = None THEN <<>> ELSE SubSeq(GenStmt[d.body], 2, Len(GenStmt[d.body]) - 1))

\* yf_gen_program
GenProgram(u) ==
  FlattenSeq([i \in DOMAIN program[u] |->
    LET d == program[u][i] IN
    IF d.kind = "var" THEN DeclGlobal(Prefixed(d.name), d.name) \o GenIfAny(d.init) ELSE GenFunc(d)])

-----------------------------------------------------------------------------
(* What the source means: a scope for the parameters, one for each block, none for a branch. *)

SourceExpr[e \in Exprs] ==
  CASE e.kind = "id"     -> Uses(<<e.unit, e.name>>)
    [] e.kind = "call"   -> Uses(<<e.unit, e.name>>) \o FlattenSeq([i \in DOMAIN e.args |-> SourceExpr[e.args[i]]])
    [] e.kind = "binary" -> SourceExpr[e.left] \o SourceExpr[e.right]
    [] OTHER             -> <<>>

SourceIfAny(e) == IF e = None THEN <<>> ELSE SourceExpr[e]
SourceVar(d) == DeclLocal(<<None, d.name>>, d.name) \o SourceIfAny(d.init)

SourceStmt[s \in Stmts] ==
  CASE s.kind \in {"expr", "return"} -> SourceIfAny(s.expr)
    [] s.kind = "var"   -> SourceVar(s)
    [] s.kind = "block" -> InScope(FlattenSeq([i \in DOMAIN s.stmts |-> SourceStmt[s.stmts[i]]]))
    [] s.kind = "if"    -> SourceIfAny(s.cond) \o SourceStmt[s.then]
                             \o IF s.else = None THEN <<>> ELSE SourceStmt[s.else]
    [] OTHER            -> <<>>

SourceDecl(d) ==
  IF d.kind = "var" THEN SourceIfAny(d.init)
  ELSE InScope(FlattenSeq([i \in DOMAIN d.params |-> SourceVar(d.params[i])])
                 \o IF d.body = None THEN <<>> ELSE SourceStmt[d.body])

SourceProgram(u) == FlattenSeq([i \in DOMAIN program[u] |-> SourceDecl(program[u][i])])

-----------------------------------------------------------------------------
(* Reading a text: what each use stands for.  A declaration is <<unit, name>> if it is global,  *)
(* and <<-n, name>> if it is the n-th local one; <<0, "">> is none.                             *)

Declares(state, key, meaning) ==
  LET last == Len(state.scopes) IN
  [state EXCEPT !.scopes[last] = Put(@, key, meaning),
                !.twice = @ \/ key \in DOMAIN state.scopes[last]]

Read(u, state, piece) ==
  CASE piece.is = "open"   -> EnterScope(state)
    [] piece.is = "close"  -> ExitScope(state)
    [] piece.is = "global" -> Declares(state, piece.key, <<u, piece.name>>)
    [] piece.is = "local"  -> Declares([state EXCEPT !.locals = @ + 1], piece.key,
                                       <<-(state.locals + 1), piece.name>>)
    [] piece.is = "use"    ->
         LET levels == Holders(state, piece.key) IN
         [state EXCEPT !.uses = Append(@, IF levels = {} THEN <<0, "">>
                                          ELSE state.scopes[Max(levels)][piece.key])]

Unread(globals) == [scopes |-> <<globals>>, locals |-> 0, uses |-> <<>>, twice |-> FALSE]

ReadAll(u, globals, text) ==
  LET after[n \in 0 .. Len(text)] == IF n = 0 THEN Unread(globals) ELSE Read(u, after[n - 1], text[n])
  IN  after[Len(text)]

\* C knows what the file has declared so far; the source knows all units.
InC(u) == ReadAll(u, <<>>, GenProgram(u))

AllGlobals(u) ==
  LET named == UNION {{<<v, n>> : n \in DOMAIN tables[v]} : v \in DOMAIN tables}
      own == {<<None, n>> : n \in DOMAIN tables[u]}
  IN  [key \in named \cup own |-> IF key[1] = None THEN <<u, key[2]>> ELSE key]

InSource(u) == ReadAll(u, AllGlobals(u), SourceProgram(u))

-----------------------------------------------------------------------------
(* Where the two are known to differ. *)

DeclsOf(u) == Range(program[u])
Functions(u) == {d \in DeclsOf(u) : d.kind = "fn"}
NamesUsed(u) == UNION {NamesInDecl(d) : d \in DeclsOf(u)}

\* A name of some unit: the C name has no prefix that tells which.
NamesAUnit(u) == \E use \in NamesUsed(u) : use[1] # None

\* main, or an extc function, is declared without the $$ that its calls have.
CallsBare(u) == \E d \in Functions(u) : FuncName(d) = Bare(d.name) /\ <<None, d.name>> \in NamesUsed(u)

\* The branch of an if statement is a declaration: in C its scope ends there.
BranchDeclares[s \in Stmts] ==
  CASE s.kind = "block" -> \E t \in Range(s.stmts) : BranchDeclares[t]
    [] s.kind = "if"    -> \/ LeavesDeclared[s] # {}
                           \/ \E t \in {s.then, s.else} \ {None} : BranchDeclares[t]
    [] OTHER            -> FALSE

\* Two declarations of one name that the source keeps apart, or lets one replace the other, are one too
\* many in C: two global ones, a parameter and a variable of the body, two variables of one block.
ReusesGlobal(u) == Cardinality({d.name : d \in DeclsOf(u)}) < Len(program[u])

ReusesParameter(u) ==
  \E d \in Functions(u) :
    /\ d.body # None
    /\ \E s \in Range(d.body.stmts) : {v.name : v \in LeavesDeclared[s]} \cap {p.name : p \in Range(d.params)} # {}

Redeclares(u) == ReusesGlobal(u) \/ ReusesParameter(u) \/ InSource(u).twice

KnownToDiffer(u) ==
  \/ NamesAUnit(u) \/ CallsBare(u) \/ Redeclares(u) \/ UsedBeforeDeclared
  \/ \E d \in Functions(u) : d.body # None /\ BranchDeclares[d.body]

-----------------------------------------------------------------------------
(* Properties. *)

\* In the C of an accepted unit no scope declares a name twice, and every name stands for the declaration
\* it stands for in the source, whatever hides it there and wherever it is hidden again, except in the
\* cases that KnownToDiffer lists (yf_gen_funcdecl, yf_gen_bstmt, yf_gen_if, yf_gen_expr; find_symbol).
BindsAlikeInC ==
  pc = "accepted" => \A u \in DOMAIN program :
    (~InC(u).twice /\ InC(u).uses = InSource(u).uses) \/ KnownToDiffer(u)
=============================================================================
