-------------------------- MODULE ValidatorProofs --------------------------
(***************************************************************************)
(* Proofs about Validator and about Generator, for all programs whose      *)
(* trees have an end.                                                      *)
(*                                                                         *)
(* What an expression is worth and whether a statement always returns are  *)
(* functions that are defined along the tree.  That there are such         *)
(* functions is shown first, by the depth of the trees.                    *)
(*                                                                         *)
(* That the C of an accepted unit means what its source means is shown for *)
(* two readers, one of each text: what one of them passes, a use, a        *)
(* declaration, a block, keeps them alike if the other passes the same.    *)
(***************************************************************************)
EXTENDS Generator, TLAPS, FiniteSetTheorems, WellFoundedInduction

Results == {"ok", "failed", "stuck"}

-----------------------------------------------------------------------------
(* The invariant *)

\* A function is validated.
InFn == pc \in {"stmt", "ok", "failed"}

BlockFrames == [of : {"block"}, stmts : Seq(Stmts), at : Nat \ {0}, err : BOOLEAN]
IfFrames == [of : {"if"}, node : {s \in Stmts : s.kind = "if"},
             branch : {"then", "else"}, thenReturns : BOOLEAN]

Control ==
  /\ program \in Programs /\ unit \in DOMAIN program /\ decl \in 1 .. Len(Decls) + 1
  /\ pc \in {"symtab", "decl", "stmt", "ok", "failed", "accepted", "refused", "stuck"}
  /\ err \in BOOLEAN /\ reported \in BOOLEAN
  /\ frames \in Seq(BlockFrames \cup IfFrames) /\ returns \in Seq(BOOLEAN)
  /\ pc \in {"symtab", "decl"} => frames = <<>> /\ returns = <<>>
  /\ pc = "stmt" => frames # <<>>
  /\ InFn => /\ decl =< Len(Decls) /\ Decl.kind = "fn" /\ Here(Decl.ret) # Null
             /\ Decl.body \in Stmts /\ Decl.body.kind = "block"

\* What has been reported is remembered by somebody who will tell it: by validate_program, by
\* what has just returned, or by the loop of a block that is open.
Errors ==
  /\ pc \in {"symtab", "decl"} => (reported <=> err)
  /\ InFn => (reported <=> \/ err
                           \/ pc = "failed"
                           \/ \E i \in DOMAIN frames : frames[i].of = "block" /\ frames[i].err)
  /\ pc = "accepted" => ~reported

\* The statement that frame i is at; below all frames is the body of the function.
At(i) ==
  IF i = 0 THEN Decl.body
  ELSE IF frames[i].of = "block" THEN frames[i].stmts[frames[i].at]
  ELSE IF frames[i].branch = "then" THEN frames[i].node.then ELSE frames[i].node.else

\* Frame i is at a statement, not at the end of its block.
Within(i) == i # 0 /\ frames[i].of = "block" => frames[i].at =< Len(frames[i].stmts)

\* Each frame is that of the statement the one below it is at.
Opened(i) ==
  /\ Within(i - 1)
  /\ IF frames[i].of = "block"
     THEN /\ At(i - 1).kind = "block" /\ frames[i].stmts = At(i - 1).stmts
          /\ frames[i].at =< Len(frames[i].stmts) + 1
     ELSE /\ frames[i].node = At(i - 1)
          /\ frames[i].branch = "else" => frames[i].node.else # None

Nested ==
  InFn => /\ \A i \in DOMAIN frames : Opened(i)
          /\ pc \in {"ok", "failed"} => Within(Len(frames))

\* The variable that frame i of fs writes to: that of the function, or of the innermost if statement.
VarOf(fs, i) == 1 + Cardinality({j \in 1 .. i : fs[j].of = "if"})

\* Of the frames that write to a variable the innermost one does.
Writes(i) == i = Len(frames) \/ frames[i + 1].of = "if"

\* A statement that the block has behind it always returns.
Earned(i) ==
  /\ i # 0 /\ frames[i].of = "block"
  /\ \E j \in 1 .. frames[i].at - 1 : AlwaysReturns[frames[i].stmts[j]]

\* The statement that has just been found valid always returns.
JustEarned(i) == i = Len(frames) /\ pc = "ok" /\ AlwaysReturns[At(i)]

\* A variable that is set tells the truth about the innermost frame that writes to it.
Truthful ==
  InFn =>
    /\ Len(returns) = VarOf(frames, Len(frames))
    /\ ~reported =>
         /\ \A i \in 0 .. Len(frames) :
              Writes(i) /\ returns[VarOf(frames, i)] => Earned(i) \/ JustEarned(i)
         /\ \A i \in DOMAIN frames :
              frames[i].of = "if" /\ frames[i].thenReturns => AlwaysReturns[frames[i].node.then]

\* A function with a value and a body always returns one.
Sound(d) == d.kind = "fn" /\ d.body # None /\ d.ret # "void" => AlwaysReturns[d.body]

\* What has been validated without an error is sound.
Behind ==
  /\ pc \notin {"refused", "stuck"} /\ ~reported =>
       \A u \in DOMAIN program : \A i \in DOMAIN program[u] :
         u < unit \/ (u = unit /\ i < decl) => Sound(program[u][i])
  /\ pc = "accepted" => unit = Len(program) /\ decl > Len(Decls)

IInv == Control /\ Errors /\ Nested /\ Truthful /\ Behind

-----------------------------------------------------------------------------
(* Functions along trees *)

\* A set of natural numbers has a least element.
LEMMA Least ==
  ASSUME NEW S \in SUBSET Nat, S # {}
  PROVE  Min(S) \in S /\ \A y \in S : Min(S) =< y
<1>1. \E x \in S : \A y \in S : x =< y
  <2> DEFINE R == OpToRel(<, Nat)
  <2>1. IsWellFoundedOn(R, Nat)
    BY NatLessThanWellFounded
  <2>2. \A x, y \in S : y < x => <<y, x>> \in R
    BY DEF OpToRel
  <2> HIDE DEF R
  <2>3. PICK x \in S : \A y \in S : <<y, x>> \notin R
    BY <2>1, WFMin, Zenon
  <2>4. \A y \in S : ~(y < x)
    BY <2>2, <2>3, Zenon
  <2> QED
    BY <2>4
<1> QED
  BY <1>1 DEF Min

\* A property of 0 and of each number behind one that has it is one of all numbers.
LEMMA Induction ==
  ASSUME NEW S \in SUBSET Nat, 0 \in S, \A n \in S : n + 1 \in S
  PROVE  S = Nat
<1> SUFFICES ASSUME Nat \ S # {}
             PROVE  FALSE
  OBVIOUS
<1> DEFINE n == Min(Nat \ S)
<1>1. n \in Nat /\ n \notin S /\ \A y \in Nat \ S : n =< y
  <2> HIDE DEF n
  <2>1. Nat \ S \in SUBSET Nat
    OBVIOUS
  <2> QED BY <2>1, Least DEF n
<1> HIDE DEF n
<1>2. n # 0 /\ n - 1 \in Nat /\ (n - 1) + 1 = n
  BY <1>1
<1>3. n - 1 \in S
  BY <1>1, <1>2
<1> QED
  BY <1>1, <1>2, <1>3

\* Among some nodes there is one of the least depth.
LEMMA Shallowest ==
  ASSUME NEW S, NEW depth \in [S -> Nat], NEW T \in SUBSET S, T # {}
  PROVE  \E x \in T : \A y \in T : depth[x] =< depth[y]
<1> DEFINE D == {depth[x] : x \in T}
<1>1. D \in SUBSET Nat /\ D # {}
  OBVIOUS
<1>2. Min(D) \in D /\ \A n \in D : Min(D) =< n
  <2> HIDE DEF D
  <2> QED BY <1>1, Least
<1> QED
  BY <1>2

\* What a step makes of a function at a node depends on the function at nodes of less depth.
LooksDeeper(S, R, depth, Step) ==
  \A x \in S : \A f, g \in [S -> R] :
    (\A y \in S : depth[y] < depth[x] => f[y] = g[y]) => Step[x][f] = Step[x][g]

Solvable(S, R, Step) == \E f \in [S -> R] : \A x \in S : f[x] = Step[x][f]

\* A function whose value at a node depends on its values at nodes of less depth exists, and
\* there is only one.
LEMMA TreeRecursion ==
  ASSUME NEW S, NEW R, R # {}, NEW depth \in [S -> Nat], NEW Step \in [S -> [[S -> R] -> R]],
         LooksDeeper(S, R, depth, Step)
  PROVE  Solvable(S, R, Step)
<1> DEFINE Good(n, f) == \A x \in S : depth[x] < n => f[x] = Step[x][f]
           Levels == {n \in Nat : \E f \in [S -> R] : Good(n, f)}
<1> USE DEF LooksDeeper
<1>1. ASSUME NEW n \in Nat, NEW f \in [S -> R], NEW g \in [S -> R], Good(n, f), Good(n, g)
      PROVE  \A x \in S : depth[x] < n => f[x] = g[x]
  <2> DEFINE T == {x \in S : depth[x] < n /\ f[x] # g[x]}
  <2> SUFFICES ASSUME T # {}
               PROVE  FALSE
    OBVIOUS
  <2>1. PICK x \in T : \A y \in T : depth[x] =< depth[y]
    <3>1. T \in SUBSET S
      OBVIOUS
    <3> HIDE DEF T
    <3> QED BY <3>1, Shallowest
  <2>2. x \in S /\ depth[x] < n /\ f[x] # g[x]
    BY <2>1
  <2>3. \A y \in S : depth[y] < depth[x] => f[y] = g[y]
    <3> TAKE y \in S
    <3> HAVE depth[y] < depth[x]
    <3>1. depth[y] \in Nat /\ depth[x] \in Nat
      BY <2>2
    <3>2. depth[y] < n /\ ~(depth[x] =< depth[y])
      BY <2>2, <3>1
    <3>3. y \notin T
      BY <2>1, <3>2
    <3> QED BY <3>2, <3>3
  <2>4. Step[x][f] = Step[x][g]
    BY <2>2, <2>3
  <2> QED
    BY <1>1, <2>2, <2>4
<1>2. 0 \in Levels
  <2>1. PICK r \in R : TRUE
    OBVIOUS
  <2>2. [x \in S |-> r] \in [S -> R]
    OBVIOUS
  <2>3. \A f : Good(0, f)
    OBVIOUS
  <2> QED
    BY <2>2, <2>3
<1>3. ASSUME NEW n \in Levels
      PROVE  n + 1 \in Levels
  <2>1. PICK f \in [S -> R] : Good(n, f)
    OBVIOUS
  <2> DEFINE g == [x \in S |-> Step[x][f]]
  <2>2. g \in [S -> R]
    OBVIOUS
  <2>3. \A x \in S : depth[x] < n => g[x] = f[x]
    BY <2>1
  <2>4. Good(n + 1, g)
    <3> SUFFICES ASSUME NEW x \in S, depth[x] < n + 1
                 PROVE  g[x] = Step[x][g]
      OBVIOUS
    <3>1. \A y \in S : depth[y] < depth[x] => f[y] = g[y]
      <4>1. \A y \in S : depth[y] < depth[x] => depth[y] < n
        OBVIOUS
      <4> QED BY <2>3, <4>1
    <3> HIDE DEF g
    <3>2. Step[x][f] = Step[x][g]
      BY <2>2, <3>1
    <3> QED BY <3>2 DEF g
  <2> HIDE DEF g
  <2> QED
    BY <2>2, <2>4
<1>4. Levels = Nat
  <2>1. Levels \in SUBSET Nat
    OBVIOUS
  <2> HIDE DEF Levels
  <2> QED BY <1>2, <1>3, <2>1, Induction
<1> DEFINE Sol(n) == CHOOSE f \in [S -> R] : Good(n, f)
           h == [x \in S |-> Sol(depth[x] + 1)[x]]
<1>5. \A n \in Nat : Sol(n) \in [S -> R] /\ Good(n, Sol(n))
  <2> SUFFICES ASSUME NEW n \in Nat
               PROVE  Sol(n) \in [S -> R] /\ Good(n, Sol(n))
    OBVIOUS
  <2>1. \E f \in [S -> R] : Good(n, f)
    BY <1>4
  <2> HIDE DEF Good
  <2> QED BY <2>1
<1> HIDE DEF Sol
<1>6. h \in [S -> R]
  <2>1. \A x \in S : depth[x] + 1 \in Nat
    OBVIOUS
  <2> QED BY <1>5, <2>1
<1>7. ASSUME NEW x \in S
      PROVE  h[x] = Step[x][h]
  <2> DEFINE n == depth[x] + 1
             f == Sol(n)
  <2>1. n \in Nat /\ f \in [S -> R] /\ Good(n, f)
    BY <1>5
  <2>2. h[x] = Step[x][f]
    BY <2>1
  <2>3. ASSUME NEW y \in S, depth[y] < depth[x]
        PROVE  f[y] = h[y]
    <3> DEFINE m == depth[y] + 1
    <3>1. m \in Nat /\ Sol(m) \in [S -> R] /\ Good(m, Sol(m))
      BY <1>5
    <3>2. Good(m, f)
      <4>1. \A z \in S : depth[z] < m => depth[z] < n
        BY <2>3
      <4> HIDE DEF f, m, n
      <4> QED BY <2>1, <4>1
    <3>3. depth[y] < m
      OBVIOUS
    <3>4. h[y] = Sol(m)[y]
      OBVIOUS
    <3> HIDE DEF f, m, n, h, Good
    <3> QED BY <1>1, <2>1, <3>1, <3>2, <3>3, <3>4
  <2> HIDE DEF f, n, h
  <2> QED BY <1>6, <2>1, <2>2, <2>3
<1> HIDE DEF h
<1> QED
  BY <1>6, <1>7 DEF Solvable

-----------------------------------------------------------------------------
(* Results *)

\* The first step that is not "ok" is one of the steps.
LEMMA InOrderResult ==
  ASSUME NEW steps, DOMAIN steps \subseteq Nat, \A i \in DOMAIN steps : steps[i] \in Results
  PROVE  /\ InOrder(steps) \in Results
         /\ InOrder(steps) = "ok" => \A i \in DOMAIN steps : steps[i] = "ok"
<1> DEFINE bad == {i \in DOMAIN steps : steps[i] # "ok"}
<1>1. CASE bad = {}
  BY <1>1 DEF InOrder, Results
<1>2. CASE bad # {}
  <2>1. Min(bad) \in bad
    <3>1. bad \in SUBSET Nat
      OBVIOUS
    <3> HIDE DEF bad
    <3> QED BY <1>2, <3>1, Least
  <2>2. InOrder(steps) = steps[Min(bad)]
    BY <1>2, Zenon DEF InOrder
  <2> HIDE DEF bad
  <2>3. Min(bad) \in DOMAIN steps /\ steps[Min(bad)] # "ok"
    BY <2>1 DEF bad
  <2> QED
    BY <2>2, <2>3
<1> QED
  BY <1>1, <1>2

\* The same of two steps.
LEMMA InOrderTwo ==
  ASSUME NEW a \in Results, NEW b \in Results
  PROVE  /\ InOrder(<<a, b>>) \in Results
         /\ InOrder(<<a, b>>) = "ok" => a = "ok" /\ b = "ok"
<1> DEFINE s == <<a, b>>
<1>1. DOMAIN s = {1, 2} /\ s[1] = a /\ s[2] = b
  OBVIOUS
<1> HIDE DEF s
<1>2. InOrder(s) \in Results /\ (InOrder(s) = "ok" => \A i \in DOMAIN s : s[i] = "ok")
  BY <1>1, InOrderResult
<1> QED
  BY <1>1, <1>2 DEF s

\* Three steps.
LEMMA InOrderThree ==
  ASSUME NEW a \in Results, NEW b \in Results, NEW c \in Results
  PROVE  InOrder(<<a, b, c>>) \in Results
<1> DEFINE s == <<a, b, c>>
<1>1. DOMAIN s = {1, 2, 3} /\ s[1] = a /\ s[2] = b /\ s[3] = c
  OBVIOUS
<1> HIDE DEF s
<1>2. InOrder(s) \in Results
  BY <1>1, InOrderResult
<1> QED
  BY <1>2 DEF s

\* Four steps.
LEMMA InOrderFour ==
  ASSUME NEW a \in Results, NEW b \in Results, NEW c \in Results, NEW d \in Results
  PROVE  InOrder(<<a, b, c, d>>) \in Results
<1> DEFINE s == <<a, b, c, d>>
<1>1. DOMAIN s = {1, 2, 3, 4} /\ s[1] = a /\ s[2] = b /\ s[3] = c /\ s[4] = d
  OBVIOUS
<1> HIDE DEF s
<1>2. InOrder(s) \in Results
  BY <1>1, InOrderResult
<1> QED
  BY <1>2 DEF s

\* The results of the single checks.
LEMMA SmallResults ==
  /\ \A from, to : Convert(from, to) \in Results
  /\ \A condition : Require(condition) \in Results
BY DEF Convert, Require, Results

\* What an expression may be worth: the types are those of the symbols, of literals and of none.
Types(env) == {Here("int"), Here("bool"), None} \cup {FindSymbol(env, e).type : e \in Exprs}
Values(env) == [result : Results, type : Types(env)]

\* A result together with its type is a value.
LEMMA TypedValue ==
  ASSUME NEW env, NEW result \in Results, NEW type, result = "ok" => type \in Types(env)
  PROVE  Typed(result, type) \in Values(env)
BY DEF Typed, Values, Types

\* Arguments that are values are valid or not, or the validator is stuck in them.
LEMMA ArgumentsResult ==
  ASSUME NEW params, NEW args \in Seq(Exprs), NEW valid,
         \A e \in Range(args) : valid[e].result \in Results
  PROVE  Arguments(params, args, valid) \in Results
<1> DEFINE steps == [i \in DOMAIN params \cap DOMAIN args |-> Argument(params[i], valid[args[i]])]
<1>1. \A i \in DOMAIN args : args[i] \in Range(args)
  BY DEF Range
<1>2. \A i \in DOMAIN params \cap DOMAIN args : Argument(params[i], valid[args[i]]) \in Results
  <2> TAKE i \in DOMAIN params \cap DOMAIN args
  <2>1. valid[args[i]].result \in Results
    BY <1>1
  <2> QED BY <2>1, InOrderThree, SmallResults, Zenon DEF Argument
<1>3. DOMAIN steps \subseteq Nat
  OBVIOUS
<1>4. InOrder(steps) \in Results
  <2>1. \A i \in DOMAIN steps : steps[i] \in Results
    BY <1>2
  <2> HIDE DEF steps
  <2> QED BY <1>3, <2>1, InOrderResult
<1> HIDE DEF steps
<1>5. InOrder(<<InOrder(steps), Require(Len(params) = Len(args))>>) \in Results
  BY <1>4, InOrderTwo, SmallResults, Zenon
<1> QED
  BY <1>5, Zenon DEF Arguments, steps

\* An expression's parts decide what it is worth.
LEMMA ValidateExprValue ==
  ASSUME NEW env, NEW e \in Exprs, NEW valid, \A p \in Parts(e) : valid[p] \in Values(env)
  PROVE  ValidateExpr(env, e, valid) \in Values(env)
<1>1. e.kind \in {"num", "bool", "id", "call", "binary"}
  BY ValidatorAssumption DEF AreTrees
<1>2. FindSymbol(env, e).type \in Types(env) /\ Here("int") \in Types(env) /\ Here("bool") \in Types(env)
  BY DEF Types
<1>3. "ok" \in Results /\ "failed" \in Results /\ "ok" # "failed"
  BY DEF Results
<1>4. CASE e.kind = "num"
  <2>1. ValidateExpr(env, e, valid) = Typed("ok", Here("int"))
    BY <1>4 DEF ValidateExpr
  <2> QED BY <2>1, <1>2, <1>3, TypedValue
<1>5. CASE e.kind = "bool"
  <2>1. ValidateExpr(env, e, valid) = Typed("ok", Here("bool"))
    BY <1>5 DEF ValidateExpr
  <2> QED BY <2>1, <1>2, <1>3, TypedValue
<1>6. CASE e.kind = "id"
  <2>1. \/ ValidateExpr(env, e, valid) = Typed("failed", None)
        \/ ValidateExpr(env, e, valid) = Typed("ok", FindSymbol(env, e).type)
    BY <1>6 DEF ValidateExpr
  <2> QED BY <2>1, <1>2, <1>3, TypedValue
<1>7. CASE e.kind = "call"
  <2> DEFINE sym == FindSymbol(env, e)
             a == Arguments(sym.params, e.args, valid)
  <2>1. \/ ValidateExpr(env, e, valid) = Typed("failed", None)
        \/ ValidateExpr(env, e, valid) = Typed(a, sym.type)
    BY <1>7 DEF ValidateExpr
  <2>2. e.args \in Seq(Exprs) /\ Parts(e) = Range(e.args)
    BY <1>7, ValidatorAssumption DEF AreTrees, Parts
  <2>3. a \in Results
    BY <2>2, ArgumentsResult DEF Values
  <2> HIDE DEF a
  <2> QED BY <2>1, <2>3, <1>2, <1>3, TypedValue
<1>8. CASE e.kind = "binary"
  <2> DEFINE left == valid[e.left]
             right == valid[e.right]
             r == InOrder(<<Require(e.op = "assign" => e.left.kind = "id"),
                            left.result, right.result, Convert(left.type, right.type)>>)
             t == IF r = "ok" THEN BinaryType(e, left.type, right.type) ELSE None
  <2>1. ValidateExpr(env, e, valid) = Typed(r, t)
    BY <1>8 DEF ValidateExpr
  <2>2. Parts(e) = {e.left, e.right} /\ e.op \in {"bool", "assign", "arith"}
    BY <1>8, ValidatorAssumption DEF AreTrees, Parts
  <2>3. left \in Values(env) /\ right \in Values(env)
    BY <2>2
  <2>4. r \in Results
    <3>1. left.result \in Results /\ right.result \in Results
      BY <2>3 DEF Values
    <3> HIDE DEF left, right
    <3> QED BY <3>1, InOrderFour, SmallResults, Zenon
  <2>5. BinaryType(e, left.type, right.type) \in Types(env)
    <3>1. left.type \in Types(env) /\ right.type \in Types(env)
      BY <2>3 DEF Values
    <3> HIDE DEF left, right
    <3> QED BY <1>2, <2>2, <3>1 DEF BinaryType
  <2> HIDE DEF r, left, right
  <2> QED BY <2>1, <2>4, <2>5, TypedValue
<1> QED
  BY <1>1, <1>4, <1>5, <1>6, <1>7, <1>8

\* The validation of an expression looks at its parts only.
LEMMA ValidateExprSame ==
  ASSUME NEW env, NEW e \in Exprs, NEW f, NEW g, \A p \in Parts(e) : f[p] = g[p]
  PROVE  ValidateExpr(env, e, f) = ValidateExpr(env, e, g)
<1>1. e.kind \in {"num", "bool", "id", "call", "binary"}
  BY ValidatorAssumption DEF AreTrees
<1>2. CASE e.kind \in {"num", "bool", "id"}
  BY <1>2 DEF ValidateExpr
<1>3. CASE e.kind = "call"
  <2>1. e.args \in Seq(Exprs) /\ Parts(e) = Range(e.args)
    BY <1>3, ValidatorAssumption DEF AreTrees, Parts
  <2>2. \A i \in DOMAIN e.args : f[e.args[i]] = g[e.args[i]]
    BY <2>1 DEF Range
  <2>3. \A params : Arguments(params, e.args, f) = Arguments(params, e.args, g)
    <3> TAKE params
    <3>1. [i \in DOMAIN params \cap DOMAIN e.args |-> Argument(params[i], f[e.args[i]])]
            = [i \in DOMAIN params \cap DOMAIN e.args |-> Argument(params[i], g[e.args[i]])]
      BY <2>2
    <3> QED BY <3>1 DEF Arguments
  <2> QED
    BY <1>3, <2>3 DEF ValidateExpr
<1>4. CASE e.kind = "binary"
  <2>1. Parts(e) = {e.left, e.right}
    BY <1>4 DEF Parts
  <2>2. f[e.left] = g[e.left] /\ f[e.right] = g[e.right]
    BY <2>1
  <2> QED
    BY <1>4, <2>2 DEF ValidateExpr
<1> QED
  BY <1>1, <1>2, <1>3, <1>4

\* The parts of an expression are expressions, and less deep.
LEMMA ExprParts ==
  ASSUME NEW e \in Exprs
  PROVE  \A p \in Parts(e) : p \in Exprs /\ Depth[p] < Depth[e]
<1>1. \A p \in Parts(e) : Depth[p] < Depth[e]
  BY ValidatorAssumption DEF AreTrees
<1>2. e.kind \in {"num", "bool", "id", "call", "binary"}
  BY ValidatorAssumption DEF AreTrees
<1>3. CASE e.kind \in {"num", "bool", "id"}
  BY <1>3 DEF Parts
<1>4. CASE e.kind = "call"
  <2>1. e.args \in Seq(Exprs) /\ Parts(e) = Range(e.args)
    BY <1>4, ValidatorAssumption DEF AreTrees, Parts
  <2> QED
    BY <1>1, <2>1 DEF Range
<1>5. CASE e.kind = "binary"
  <2>1. {e.left, e.right} \subseteq Exprs /\ Parts(e) = {e.left, e.right}
    BY <1>5, ValidatorAssumption DEF AreTrees, Parts
  <2> QED
    BY <1>1, <2>1
<1> QED
  BY <1>2, <1>3, <1>4, <1>5

\* validate_expr comes to an end: each expression has a value, that of its parts and its kind.
LEMMA Validates ==
  ASSUME NEW env
  PROVE  /\ Validate(env) = [e \in Exprs |-> ValidateExpr(env, e, Validate(env))]
         /\ Validate(env) \in [Exprs -> Values(env)]
<1> DEFINE V == Values(env)
           Step == [e \in Exprs |-> [f \in [Exprs -> V] |-> ValidateExpr(env, e, f)]]
           depth == [e \in Exprs |-> Depth[e]]
<1>1. depth \in [Exprs -> Nat]
  BY ValidatorAssumption DEF AreTrees
<1>2. \A e \in Exprs : \A p \in Parts(e) : p \in Exprs /\ depth[p] < depth[e]
  BY ExprParts
<1> HIDE DEF depth
<1>3. Step \in [Exprs -> [[Exprs -> V] -> V]]
  <2> SUFFICES ASSUME NEW e \in Exprs, NEW f \in [Exprs -> V]
               PROVE  ValidateExpr(env, e, f) \in V
    OBVIOUS
  <2>1. \A p \in Parts(e) : f[p] \in V
    BY <1>2
  <2> QED
    BY <2>1, ValidateExprValue
<1>4. LooksDeeper(Exprs, V, depth, Step)
  <2> SUFFICES ASSUME NEW e \in Exprs, NEW f \in [Exprs -> V], NEW g \in [Exprs -> V],
                      \A p \in Exprs : depth[p] < depth[e] => f[p] = g[p]
               PROVE  ValidateExpr(env, e, f) = ValidateExpr(env, e, g)
    BY DEF LooksDeeper
  <2>1. \A p \in Parts(e) : f[p] = g[p]
    BY <1>2
  <2> QED
    BY <2>1, ValidateExprSame
<1>5. V # {}
  <2>1. Typed("failed", None) \in V
    BY TypedValue DEF Results
  <2> QED BY <2>1
<1>6. Solvable(Exprs, V, Step)
  <2> HIDE DEF Step, V
  <2> QED BY <1>1, <1>3, <1>4, <1>5, TreeRecursion, Zenon
<1>7. PICK f \in [Exprs -> V] : \A e \in Exprs : f[e] = ValidateExpr(env, e, f)
  BY <1>6 DEF Solvable
<1>8. f = [e \in Exprs |-> ValidateExpr(env, e, f)]
  BY <1>7
<1>9. Validate(env) = [e \in Exprs |-> ValidateExpr(env, e, Validate(env))]
  <2>1. Validate(env) = CHOOSE valid : valid = [e \in Exprs |-> ValidateExpr(env, e, valid)]
    BY DEF Validate
  <2> QED BY <1>8, <2>1
<1>10. \A e \in Exprs : Validate(env)[e] \in V
  <2> DEFINE v == Validate(env)
             T == {e \in Exprs : v[e] \notin V}
  <2> HIDE DEF v
  <2> SUFFICES ASSUME T # {}
               PROVE  FALSE
    BY DEF v
  <2>1. PICK e \in T : \A x \in T : depth[e] =< depth[x]
    <3>1. T \in SUBSET Exprs
      OBVIOUS
    <3> HIDE DEF T
    <3> QED BY <1>1, <3>1, Shallowest
  <2>2. \A p \in Parts(e) : v[p] \in V
    <3> TAKE p \in Parts(e)
    <3>1. p \in Exprs /\ ~(depth[e] =< depth[p])
      BY <1>1, <1>2
    <3> QED BY <2>1, <3>1
  <2>3. v[e] = ValidateExpr(env, e, v)
    BY <1>9 DEF v
  <2>4. ValidateExpr(env, e, v) \in V
    BY <2>2, ValidateExprValue
  <2> QED
    BY <2>3, <2>4
<1> QED
  BY <1>9, <1>10

\* The parts of a statement are statements, and less deep.
LEMMA StmtParts ==
  ASSUME NEW s \in Stmts
  PROVE  \A p \in Parts(s) : p \in Stmts /\ Depth[p] < Depth[s]
<1>1. \A p \in Parts(s) : Depth[p] < Depth[s]
  BY ValidatorAssumption DEF AreTrees
<1>2. s.kind \in {"empty", "expr", "var", "return", "block", "if"}
  BY ValidatorAssumption DEF AreTrees
<1>3. CASE s.kind \in {"empty", "expr", "var", "return"}
  BY <1>3 DEF Parts
<1>4. CASE s.kind = "block"
  <2>1. s.stmts \in Seq(Stmts) /\ Parts(s) = Range(s.stmts)
    BY <1>4, ValidatorAssumption DEF AreTrees, Parts
  <2> QED
    BY <1>1, <2>1 DEF Range
<1>5. CASE s.kind = "if"
  <2>1. s.then \in Stmts /\ s.else \in Stmts \cup {None} /\ Parts(s) = {s.then, s.else} \ {None}
    BY <1>5, ValidatorAssumption DEF AreTrees, Parts
  <2> QED
    BY <1>1, <2>1
<1> QED
  BY <1>2, <1>3, <1>4, <1>5

\* Does s always return, when f says it of its parts?
Returning(s, f) ==
  CASE s.kind = "return" -> TRUE
    [] s.kind = "block"  -> \E i \in DOMAIN s.stmts : f[s.stmts[i]]
    [] s.kind = "if"     -> s.else # None /\ f[s.then] /\ f[s.else]
    [] OTHER             -> FALSE

\* Whether a statement always returns is defined for every statement.
LEMMA AlwaysReturnsDefined ==
  \A s \in Stmts : AlwaysReturns[s] = Returning(s, AlwaysReturns)
<1> DEFINE Step == [s \in Stmts |-> [f \in [Stmts -> BOOLEAN] |-> Returning(s, f)]]
           depth == [s \in Stmts |-> Depth[s]]
<1>1. depth \in [Stmts -> Nat]
  BY ValidatorAssumption DEF AreTrees
<1>2. \A s \in Stmts : \A p \in Parts(s) : p \in Stmts /\ depth[p] < depth[s]
  BY StmtParts
<1> HIDE DEF depth
<1>3. Step \in [Stmts -> [[Stmts -> BOOLEAN] -> BOOLEAN]]
  <2> SUFFICES ASSUME NEW s \in Stmts, NEW f \in [Stmts -> BOOLEAN]
               PROVE  Returning(s, f) \in BOOLEAN
    OBVIOUS
  <2>1. s.kind = "if" => s.then \in Stmts /\ s.else \in Stmts \cup {None}
    BY ValidatorAssumption DEF AreTrees
  <2> QED
    BY <2>1 DEF Returning
<1>4. LooksDeeper(Stmts, BOOLEAN, depth, Step)
  <2> SUFFICES ASSUME NEW s \in Stmts, NEW f \in [Stmts -> BOOLEAN], NEW g \in [Stmts -> BOOLEAN],
                      \A p \in Stmts : depth[p] < depth[s] => f[p] = g[p]
               PROVE  Returning(s, f) = Returning(s, g)
    BY DEF LooksDeeper
  <2>1. \A p \in Parts(s) : f[p] = g[p]
    BY <1>2
  <2>2. CASE s.kind = "block"
    <3>1. \A i \in DOMAIN s.stmts : f[s.stmts[i]] = g[s.stmts[i]]
      BY <2>1, <2>2 DEF Parts, Range
    <3> QED
      BY <2>2, <3>1 DEF Returning
  <2>3. CASE s.kind = "if"
    <3>1. s.then \in Stmts /\ None \notin Stmts
      BY <2>3, ValidatorAssumption DEF AreTrees
    <3>2. f[s.then] = g[s.then] /\ (s.else # None => f[s.else] = g[s.else])
      BY <2>1, <2>3, <3>1 DEF Parts
    <3> QED
      BY <2>3, <3>2 DEF Returning
  <2>4. CASE s.kind \notin {"block", "if"}
    BY <2>4 DEF Returning
  <2> QED
    BY <2>2, <2>3, <2>4
<1>5. Solvable(Stmts, BOOLEAN, Step)
  <2>1. BOOLEAN # {}
    OBVIOUS
  <2> HIDE DEF Step
  <2> QED BY <1>1, <1>3, <1>4, <2>1, TreeRecursion, Zenon
<1>6. PICK f \in [Stmts -> BOOLEAN] : \A s \in Stmts : f[s] = Returning(s, f)
  BY <1>5 DEF Solvable
<1>7. f = [s \in Stmts |-> Returning(s, f)]
  BY <1>6
<1>8. AlwaysReturns = [s \in Stmts |-> Returning(s, AlwaysReturns)]
  BY <1>7 DEF AlwaysReturns, Returning
<1> QED
  BY <1>8

\* When a statement always returns, by its kind.
LEMMA ReturningCases ==
  ASSUME NEW s \in Stmts
  PROVE  /\ s.kind = "return" => AlwaysReturns[s]
         /\ s.kind = "block" => \A i \in DOMAIN s.stmts : AlwaysReturns[s.stmts[i]] => AlwaysReturns[s]
         /\ s.kind = "if" => /\ s.else # None /\ AlwaysReturns[s.then] /\ AlwaysReturns[s.else]
                                => AlwaysReturns[s]
BY AlwaysReturnsDefined DEF Returning

\* Each expression of the program has a result.
LEMMA ExprResult ==
  ASSUME NEW env, NEW e \in Exprs
  PROVE  Validate(env)[e].result \in Results
BY Validates DEF Values

\* So has each variable, global or local.
LEMMA VarResult ==
  ASSUME NEW env, NEW d, d.init \in Exprs \cup {None}, NEW seen
  PROVE  LocalVar(env, d, seen).result \in Results /\ \A type : VarChecks(env, d, type) \in Results
<1>1. ASSUME NEW e1, NEW type
      PROVE  VarChecks(e1, d, type) \in Results
  <2>1. CASE d.init \in Exprs
    <3> DEFINE init == Validate(e1)[d.init]
    <3>1. InOrder(<<init.result, Convert(init.type, type)>>) \in Results
      BY <2>1, ExprResult, SmallResults, InOrderTwo, Zenon
    <3> HIDE DEF init
    <3>2. VarChecks(e1, d, type) \in {"failed", "ok", InOrder(<<init.result, Convert(init.type, type)>>)}
      BY Zenon DEF VarChecks, init
    <3> QED BY <3>1, <3>2 DEF Results
  <2>2. CASE d.init = None
    BY <2>2 DEF VarChecks, Results
  <2> QED BY <2>1, <2>2
<1>2. LocalVar(env, d, seen).result \in Results
  <2> DEFINE new == [env EXCEPT !.scopes[Len(env.scopes)] = Put(@, d.name, Variable(Here(d.type)))]
  <2>1. \/ LocalVar(env, d, seen) = [env |-> env, result |-> "failed"]
        \/ LocalVar(env, d, seen) = [env |-> new, result |-> VarChecks(new, d, Here(d.type))]
    BY Zenon DEF LocalVar
  <2> HIDE DEF new
  <2> QED BY <2>1, <1>1 DEF Results
<1> QED
  BY <1>1, <1>2

ParamStep(before, d) == IF before.result = "ok" THEN LocalVar(before.env, d, TRUE) ELSE before

\* upTo is what the first parameters make of the scopes: none, one, and so on.
ParamsUpTo(upTo, env, params) ==
  /\ upTo[0] = [env |-> env, result |-> "ok"]
  /\ \A n \in 1 .. Len(params) : upTo[n] = ParamStep(upTo[n - 1], params[n])

\* The parameters are validated one after the other.
LEMMA ParamsSteps ==
  ASSUME NEW env, NEW params, params \in Seq(Range(params))
  PROVE  \E upTo : ParamsUpTo(upTo, env, params) /\ Params(env, params) = upTo[Len(params)]
<1> DEFINE N == Len(params)
           Body1(f) == [n \in 0 .. N |-> IF n = 0 THEN [env |-> env, result |-> "ok"]
                                         ELSE ParamStep(f[n - 1], params[n])]
           upTo == CHOOSE f : f = Body1(f)
<1>1. N \in Nat
  OBVIOUS
<1>2. Params(env, params) = upTo[N]
  BY DEF Params, ParamStep
<1> HIDE DEF N
<1>3. \E f : f = Body1(f)
  <2> DEFINE Upto(n, f) == f = [m \in 0 .. n |-> IF m = 0 THEN [env |-> env, result |-> "ok"]
                                                 ELSE ParamStep(f[m - 1], params[m])]
             S == {n \in Nat : \E f : Upto(n, f)}
  <2>1. 0 \in S
    <3>1. Upto(0, [m \in 0 .. 0 |-> [env |-> env, result |-> "ok"]])
      OBVIOUS
    <3> QED BY <3>1
  <2>2. ASSUME NEW n \in S
        PROVE  n + 1 \in S
    <3>1. PICK f : Upto(n, f)
      OBVIOUS
    <3> DEFINE g == [m \in 0 .. n + 1 |-> IF m =< n THEN f[m] ELSE ParamStep(f[n], params[n + 1])]
    <3>2. \A m \in 0 .. n : g[m] = f[m]
      OBVIOUS
    <3>3. g[n + 1] = ParamStep(f[n], params[n + 1])
      OBVIOUS
    <3>4. DOMAIN g = 0 .. n + 1
      OBVIOUS
    <3>5. g = [m \in 0 .. n + 1 |-> g[m]]
      OBVIOUS
    <3> HIDE DEF g
    <3>6. \A m \in 0 .. n : f[m] = IF m = 0 THEN [env |-> env, result |-> "ok"]
                                   ELSE ParamStep(f[m - 1], params[m])
      BY <3>1
    <3>7. ASSUME NEW m \in 0 .. n + 1
          PROVE  g[m] = IF m = 0 THEN [env |-> env, result |-> "ok"]
                        ELSE ParamStep(g[m - 1], params[m])
      <4>1. CASE m = n + 1
        <5>1. m # 0 /\ m - 1 = n /\ n \in 0 .. n
          BY <4>1
        <5> QED BY <3>2, <3>3, <4>1, <5>1
      <4>2. CASE m \in 0 .. n
        <5>1. m # 0 => m - 1 \in 0 .. n
          BY <4>2
        <5> QED BY <3>2, <3>6, <4>2, <5>1
      <4> QED BY <4>1, <4>2
    <3>8. Upto(n + 1, g)
      BY <3>5, <3>7
    <3>9. n + 1 \in Nat
      OBVIOUS
    <3> HIDE DEF Upto
    <3> QED BY <3>8, <3>9, Zenon
  <2>3. S = Nat
    <3>1. S \in SUBSET Nat
      OBVIOUS
    <3> HIDE DEF S
    <3> QED BY <2>1, <2>2, <3>1, Induction
  <2> QED BY <1>1, <2>3
<1>4. upTo = Body1(upTo)
  BY <1>3
<1> HIDE DEF upTo
<1>5. upTo[0] = [env |-> env, result |-> "ok"]
  BY <1>1, <1>4
<1>6. \A n \in 1 .. N : upTo[n] = ParamStep(upTo[n - 1], params[n])
  BY <1>1, <1>4
<1> QED
  BY <1>2, <1>5, <1>6 DEF N, ParamsUpTo

\* The validation of parameters ends with a result, whatever their number.
LEMMA ParamsResult ==
  ASSUME NEW env, NEW params, params \in Seq(Range(params)),
         \A p \in Range(params) : p.init \in Exprs \cup {None}
  PROVE  Params(env, params).result \in Results
<1> DEFINE N == Len(params)
<1>1. N \in Nat /\ \A n \in 1 .. N : params[n].init \in Exprs \cup {None}
  BY DEF Range
<1>2. PICK upTo : ParamsUpTo(upTo, env, params) /\ Params(env, params) = upTo[N]
  BY ParamsSteps
<1>3. \A n \in 1 .. N : upTo[n] = ParamStep(upTo[n - 1], params[n])
  BY <1>2 DEF ParamsUpTo
<1>4. upTo[0] = [env |-> env, result |-> "ok"]
  BY <1>2 DEF ParamsUpTo
<1> HIDE DEF N
<1>5. \A n \in 0 .. N : upTo[n].result \in Results
  <2> DEFINE S == {n \in Nat : n \in 0 .. N => upTo[n].result \in Results}
  <2>1. 0 \in S
    BY <1>4 DEF Results
  <2>2. ASSUME NEW n \in S
        PROVE  n + 1 \in S
    <3> SUFFICES ASSUME n + 1 \in 0 .. N
                 PROVE  upTo[n + 1].result \in Results
      OBVIOUS
    <3>1. n + 1 \in 1 .. N /\ n \in 0 .. N /\ (n + 1) - 1 = n
      BY <1>1
    <3>2. upTo[n].result \in Results
      BY <3>1
    <3>3. upTo[n + 1] = ParamStep(upTo[n], params[n + 1])
      BY <1>3, <3>1
    <3>4. LocalVar(upTo[n].env, params[n + 1], TRUE).result \in Results
      BY <1>1, <3>1, VarResult
    <3>5. ParamStep(upTo[n], params[n + 1]) \in {upTo[n], LocalVar(upTo[n].env, params[n + 1], TRUE)}
      BY DEF ParamStep
    <3> QED BY <3>2, <3>3, <3>4, <3>5
  <2>3. S = Nat
    <3>1. S \in SUBSET Nat
      OBVIOUS
    <3> HIDE DEF S
    <3> QED BY <2>1, <2>2, <3>1, Induction
  <2> QED BY <1>1, <2>3
<1> QED
  BY <1>1, <1>2, <1>5

-----------------------------------------------------------------------------
(* Programs and frames *)

IsDecl(d) ==
  \/ d.kind = "var" /\ d.init \in Exprs \cup {None}
  \/ /\ d.kind = "fn" /\ d.params \in Seq(Range(d.params))
     /\ \A p \in Range(d.params) : p.init \in Exprs \cup {None}
     /\ d.body = None \/ (d.body \in Stmts /\ d.body.kind = "block")

\* What a program consists of.
LEMMA ProgramShape ==
  ASSUME NEW p \in Programs
  PROVE  /\ p \in Seq(Range(p)) /\ Len(p) \in Nat /\ Len(p) >= 1 /\ DOMAIN p = 1 .. Len(p)
         /\ \A u \in DOMAIN p : /\ Len(p[u]) \in Nat /\ DOMAIN p[u] = 1 .. Len(p[u])
                                /\ \A i \in DOMAIN p[u] : IsDecl(p[u][i])
<1>1. /\ p \in Seq(Range(p)) /\ p # <<>>
      /\ \A decls \in Range(p) :
           /\ decls \in Seq(Range(decls))
           /\ \A d \in Range(decls) : IsDecl(d)
  BY ValidatorAssumption, Zenon DEF ArePrograms, IsDecl
<1>2. Len(p) \in Nat /\ Len(p) >= 1 /\ DOMAIN p = 1 .. Len(p)
  BY <1>1
<1>3. ASSUME NEW u \in DOMAIN p
      PROVE  /\ Len(p[u]) \in Nat /\ DOMAIN p[u] = 1 .. Len(p[u])
             /\ \A i \in DOMAIN p[u] : IsDecl(p[u][i])
  <2>1. p[u] \in Range(p)
    BY DEF Range
  <2>2. p[u] \in Seq(Range(p[u])) /\ \A d \in Range(p[u]) : IsDecl(d)
    BY <1>1, <2>1
  <2>3. \A i \in DOMAIN p[u] : p[u][i] \in Range(p[u])
    BY DEF Range
  <2> QED
    BY <2>2, <2>3
<1> QED
  BY <1>1, <1>2, <1>3

\* A stack without its top.
LEMMA FrontFacts ==
  ASSUME NEW S, NEW s \in Seq(S), s # <<>>
  PROVE  /\ Len(s) \in Nat \ {0} /\ DOMAIN s = 1 .. Len(s)
         /\ Last(s) = s[Len(s)] /\ Last(s) \in S
         /\ Front(s) \in Seq(S) /\ Len(Front(s)) = Len(s) - 1 /\ DOMAIN Front(s) = 1 .. Len(s) - 1
         /\ \A i \in 1 .. Len(s) - 1 : Front(s)[i] = s[i]
<1>1. Len(s) \in Nat \ {0} /\ DOMAIN s = 1 .. Len(s) /\ \A i \in 1 .. Len(s) : s[i] \in S
  OBVIOUS
<1>2. Front(s) = SubSeq(s, 1, Len(s) - 1)
  BY DEF Front
<1>3. /\ SubSeq(s, 1, Len(s) - 1) \in Seq(S) /\ Len(SubSeq(s, 1, Len(s) - 1)) = Len(s) - 1
      /\ \A i \in 1 .. Len(s) - 1 : SubSeq(s, 1, Len(s) - 1)[i] = s[i]
  BY <1>1
<1>4. DOMAIN Front(s) = 1 .. Len(s) - 1
  BY <1>2, <1>3
<1>5. Last(s) = s[Len(s)] /\ Last(s) \in S
  BY <1>1 DEF Last
<1> QED
  BY <1>1, <1>2, <1>3, <1>4, <1>5

\* A stack with another element on it.
LEMMA AppendFacts ==
  ASSUME NEW S, NEW s \in Seq(S), NEW x \in S
  PROVE  /\ Append(s, x) \in Seq(S) /\ Len(Append(s, x)) = Len(s) + 1 /\ Len(s) \in Nat
         /\ DOMAIN Append(s, x) = 1 .. Len(s) + 1 /\ DOMAIN s = 1 .. Len(s)
         /\ Append(s, x)[Len(s) + 1] = x
         /\ \A i \in 1 .. Len(s) : Append(s, x)[i] = s[i]
OBVIOUS

\* A stack with another top.
LEMMA SetTopFacts ==
  ASSUME NEW S, NEW s \in Seq(S), s # <<>>, NEW x \in S
  PROVE  LET t == Append(Front(s), x) IN
         /\ t \in Seq(S) /\ Len(t) = Len(s) /\ DOMAIN t = 1 .. Len(s)
         /\ t[Len(s)] = x /\ \A i \in 1 .. Len(s) - 1 : t[i] = s[i]
<1>1. /\ Front(s) \in Seq(S) /\ Len(Front(s)) = Len(s) - 1 /\ Len(s) \in Nat \ {0}
      /\ \A i \in 1 .. Len(s) - 1 : Front(s)[i] = s[i]
  BY FrontFacts
<1> DEFINE f == Front(s)
<1> HIDE DEF f
<1>2. f \in Seq(S) /\ Len(f) + 1 = Len(s) /\ \A i \in 1 .. Len(f) : f[i] = s[i]
  BY <1>1 DEF f
<1>3. /\ Append(f, x) \in Seq(S) /\ Len(Append(f, x)) = Len(s) /\ DOMAIN Append(f, x) = 1 .. Len(s)
      /\ Append(f, x)[Len(s)] = x /\ \A i \in 1 .. Len(f) : Append(f, x)[i] = s[i]
  BY <1>2, AppendFacts
<1> QED
  BY <1>1, <1>3 DEF f

Frames == BlockFrames \cup IfFrames

\* The fields of the two kinds of frames.
LEMMA FrameTypes ==
  ASSUME NEW f \in Frames
  PROVE  /\ f.of \in {"block", "if"}
         /\ f.of = "block" => f \in BlockFrames /\ f.stmts \in Seq(Stmts) /\ f.at \in Nat \ {0} /\ f.err \in BOOLEAN
         /\ f.of = "if" => /\ f \in IfFrames /\ f.node \in Stmts /\ f.node.kind = "if"
                           /\ f.branch \in {"then", "else"} /\ f.thenReturns \in BOOLEAN
BY DEF Frames, BlockFrames, IfFrames

\* What a frame is at is a statement.
LEMMA AtIsStmt ==
  ASSUME Control, Nested, InFn, NEW i \in 0 .. Len(frames), Within(i)
  PROVE  At(i) \in Stmts
<1>1. CASE i = 0
  BY <1>1 DEF At, Control
<1>2. CASE i # 0
  <2>1. frames \in Seq(Frames)
    BY DEF Control, Frames
  <2>2. i \in DOMAIN frames /\ frames[i] \in Frames
    BY <1>2, <2>1
  <2> DEFINE f == frames[i]
  <2> HIDE DEF f
  <2>3. Opened(i)
    BY <2>2 DEF Nested
  <2>4. CASE f.of = "block"
    <3>1. f.stmts \in Seq(Stmts) /\ f.at \in 1 .. Len(f.stmts)
      BY <1>2, <2>2, <2>4, FrameTypes DEF Within, f
    <3>2. f.stmts[f.at] \in Stmts
      BY <3>1
    <3> QED
      BY <1>2, <2>4, <3>2 DEF At, f
  <2>5. CASE f.of = "if"
    <3>1. f.node \in Stmts /\ f.node.kind = "if" /\ f.branch \in {"then", "else"}
      BY <2>2, <2>5, FrameTypes DEF f
    <3>2. f.branch = "else" => f.node.else # None
      BY <2>3, <2>5 DEF Opened, f
    <3>3. f.node.then \in Stmts /\ f.node.else \in Stmts \cup {None}
      BY <3>1, ValidatorAssumption DEF AreTrees
    <3> QED
      BY <1>2, <2>5, <3>1, <3>2, <3>3 DEF At, f
  <2> QED
    BY <2>2, <2>4, <2>5, FrameTypes DEF f
<1> QED
  BY <1>1, <1>2

\* The statement that is validated is the one the top frame is at.
LEMMA StmtIsAt ==
  ASSUME Control, Nested, AtStmt
  PROVE  /\ frames # <<>> /\ Len(frames) \in DOMAIN frames /\ Top = frames[Len(frames)]
         /\ Stmt = At(Len(frames)) /\ Stmt \in Stmts /\ Within(Len(frames))
<1>1. frames # <<>> /\ frames \in Seq(Frames)
  BY DEF AtStmt, Control, Frames
<1>2. Len(frames) \in DOMAIN frames /\ Top = frames[Len(frames)] /\ Len(frames) # 0 /\ Len(frames) \in Nat
  <2>1. /\ Len(frames) \in Nat \ {0} /\ DOMAIN frames = 1 .. Len(frames)
        /\ Last(frames) = frames[Len(frames)]
    BY <1>1, FrontFacts
  <2> QED BY <2>1 DEF Top
<1>3. Stmt = At(Len(frames))
  BY <1>2 DEF Stmt, At
<1>4. Within(Len(frames))
  BY <1>1, <1>2 DEF Within, AtStmt, InBlock
<1>5. InFn
  BY DEF AtStmt, InFn
<1> QED
  BY <1>1, <1>2, <1>3, <1>4, <1>5, AtIsStmt

\* The number of the frames of a kind up to frame i, and one.
OneMore(fs, i, kind) == 1 + Cardinality({j \in 1 .. i : fs[j].of = kind})

\* It grows by one at each frame of the kind.
LEMMA OneMoreFacts ==
  ASSUME NEW fs, NEW kind, NEW i \in Nat
  PROVE  /\ OneMore(fs, 0, kind) = 1 /\ OneMore(fs, i, kind) \in Nat \ {0}
         /\ OneMore(fs, i + 1, kind) = IF fs[i + 1].of = kind THEN OneMore(fs, i, kind) + 1 ELSE OneMore(fs, i, kind)
         /\ \A j \in 0 .. i : OneMore(fs, j, kind) =< OneMore(fs, i, kind)
<1> DEFINE These(k) == {j \in 1 .. k : fs[j].of = kind}
<1>1. \A k \in Nat : IsFiniteSet(These(k)) /\ Cardinality(These(k)) \in Nat
  <2> TAKE k \in Nat
  <2>1. IsFiniteSet(1 .. k)
    BY FS_Interval
  <2>2. These(k) \in SUBSET (1 .. k)
    OBVIOUS
  <2>3. IsFiniteSet(These(k))
    BY <2>1, <2>2, FS_Subset
  <2> QED BY <2>3, FS_CardinalityType
<1>2. OneMore(fs, 0, kind) = 1
  <2>1. These(0) = {} /\ OneMore(fs, 0, kind) = 1 + Cardinality(These(0))
    BY DEF OneMore
  <2> HIDE DEF These
  <2> QED BY <2>1, FS_EmptySet
<1>3. OneMore(fs, i + 1, kind) = IF fs[i + 1].of = kind THEN OneMore(fs, i, kind) + 1 ELSE OneMore(fs, i, kind)
  <2>1. CASE fs[i + 1].of = kind
    <3>1. These(i + 1) = These(i) \cup {i + 1} /\ i + 1 \notin These(i)
      BY <2>1
    <3>2. Cardinality(These(i) \cup {i + 1}) = Cardinality(These(i)) + 1
      <4> HIDE DEF These
      <4> QED BY <1>1, <3>1, FS_AddElement
    <3>3. OneMore(fs, i + 1, kind) = 1 + Cardinality(These(i + 1)) /\ OneMore(fs, i, kind) = 1 + Cardinality(These(i))
      BY DEF OneMore
    <3> HIDE DEF These
    <3> QED BY <1>1, <2>1, <3>1, <3>2, <3>3
  <2>2. CASE fs[i + 1].of # kind
    <3>1. These(i + 1) = These(i)
      BY <2>2
    <3> QED BY <2>2, <3>1 DEF OneMore
  <2> QED BY <2>1, <2>2
<1>4. ASSUME NEW j \in 0 .. i
      PROVE  OneMore(fs, j, kind) =< OneMore(fs, i, kind)
  <2>1. These(j) \in SUBSET These(i)
    OBVIOUS
  <2>2. Cardinality(These(j)) =< Cardinality(These(i))
    <3> HIDE DEF These
    <3> QED BY <1>1, <2>1, FS_Subset
  <2>3. OneMore(fs, j, kind) = 1 + Cardinality(These(j)) /\ OneMore(fs, i, kind) = 1 + Cardinality(These(i))
    BY DEF OneMore
  <2>4. Cardinality(These(j)) \in Nat /\ Cardinality(These(i)) \in Nat
    <3>1. j \in Nat
      OBVIOUS
    <3> HIDE DEF These
    <3> QED BY <1>1, <3>1
  <2> HIDE DEF These
  <2> QED BY <2>2, <2>3, <2>4
<1>5. OneMore(fs, i, kind) \in Nat \ {0}
  <2>1. OneMore(fs, i, kind) = 1 + Cardinality(These(i)) /\ Cardinality(These(i)) \in Nat
    BY <1>1 DEF OneMore
  <2> HIDE DEF These
  <2> QED BY <2>1
<1> QED
  BY <1>2, <1>3, <1>4, <1>5

\* The first frame of an if statement has a variable more than the frame below it.
LEMMA VarOfFacts ==
  ASSUME NEW fs, NEW i \in Nat
  PROVE  /\ VarOf(fs, 0) = 1 /\ VarOf(fs, i) \in Nat \ {0}
         /\ VarOf(fs, i + 1) = IF fs[i + 1].of = "if" THEN VarOf(fs, i) + 1 ELSE VarOf(fs, i)
         /\ \A j \in 0 .. i : VarOf(fs, j) =< VarOf(fs, i)
<1>1. \A k : VarOf(fs, k) = OneMore(fs, k, "if")
  BY DEF VarOf, OneMore
<1> QED
  BY <1>1, OneMoreFacts

\* The variable of a frame depends on the kinds of the frames up to it only.
LEMMA VarOfSame ==
  ASSUME NEW fs, NEW gs, NEW i, \A j \in 1 .. i : fs[j].of = gs[j].of
  PROVE  VarOf(fs, i) = VarOf(gs, i)
<1>1. {j \in 1 .. i : fs[j].of = "if"} = {j \in 1 .. i : gs[j].of = "if"}
  OBVIOUS
<1> QED
  BY <1>1 DEF VarOf

\* What is said of a frame changes only with the frame.
LEMMA FrameSame ==
  ASSUME UNCHANGED <<program, unit, decl>>, NEW i, i = 0 \/ frames'[i] = frames[i]
  PROVE  At(i)' = At(i) /\ (Within(i)' <=> Within(i)) /\ (Earned(i)' <=> Earned(i))
<1>1. CASE i = 0
  BY <1>1 DEF At, Within, Earned, Decl, Decls
<1>2. CASE i # 0
  BY <1>2 DEF At, Within, Earned, Decl, Decls
<1> QED
  BY <1>1, <1>2

\* A frame that stays the same, above one that does, still belongs to its statement.
LEMMA OpenedSame ==
  ASSUME UNCHANGED <<program, unit, decl>>, NEW i \in Nat \ {0}, frames'[i] = frames[i],
         i = 1 \/ frames'[i - 1] = frames[i - 1], Opened(i)
  PROVE  Opened(i)'
<1>1. At(i - 1)' = At(i - 1) /\ (Within(i - 1)' <=> Within(i - 1))
  <2>1. i - 1 = 0 \/ frames'[i - 1] = frames[i - 1]
    OBVIOUS
  <2> QED BY <2>1, FrameSame
<1> QED
  BY <1>1 DEF Opened

-----------------------------------------------------------------------------
(* Steps in a few kinds *)

\* A statement that opens no frame is validated.
StmtDone ==
  /\ AtStmt
  /\ pc' \in Results /\ reported' = (reported \/ pc' = "failed")
  /\ UNCHANGED <<program, unit, decl, err, frames>>
  /\ \/ returns' = returns
     \/ pc' = "ok" /\ Stmt.kind = "return" /\ returns' = SetReturns(TRUE)

\* A variable is put into its scope, or refused; or it is refused for the name of a global.
LEMMA VarOutcomes ==
  ASSUME Var
  PROVE  \/ \E seen \in BOOLEAN : /\ BecomesEnv(LocalVar(Env, Stmt, seen).env)
                                  /\ Finish(LocalVar(Env, Stmt, seen).result)
         \/ BecomesEnv(Env) /\ Finish("failed")
BY DEF Var

\* The steps that validate a statement and open no frame.
LEMMA StmtDoneSteps ==
  ASSUME Control, Nested, Empty \/ Expression \/ Var \/ Return \/ IfRefused
  PROVE  StmtDone
<1>1. CASE Empty
  BY <1>1 DEF Empty, StmtDone, Finish, Results
<1>2. CASE Expression
  <2>1. Stmt \in Stmts /\ Stmt.kind = "expr"
    BY <1>2, StmtIsAt DEF Expression
  <2>2. Stmt.expr \in Exprs
    BY <2>1, ValidatorAssumption DEF AreTrees
  <2>3. Validate(Env)[Stmt.expr].result \in Results
    BY <2>2, ExprResult
  <2> QED
    BY <1>2, <2>3 DEF Expression, StmtDone, Finish
<1>3. CASE Var
  <2>1. Stmt \in Stmts /\ Stmt.kind = "var"
    BY <1>3, StmtIsAt DEF Var
  <2>2. Stmt.init \in Exprs \cup {None}
    BY <2>1, ValidatorAssumption DEF AreTrees
  <2>3. \A pathIsEmpty \in BOOLEAN : LocalVar(Env, Stmt, pathIsEmpty).result \in Results
    BY <2>2, VarResult
  <2>4. PICK result \in Results : Finish(result)
    BY <1>3, <2>3, VarOutcomes DEF Results
  <2> QED
    BY <1>3, <2>4 DEF Var, StmtDone, Finish
<1>4. CASE Return
  <2>1. Stmt \in Stmts /\ Stmt.kind = "return"
    BY <1>4, StmtIsAt DEF Return
  <2>2. Stmt.expr \in Exprs \cup {None}
    BY <2>1, ValidatorAssumption DEF AreTrees
  <2>3. ReturnChecks \in Results
    <3> DEFINE value == IF Stmt.expr = None THEN Typed("ok", Here("void")) ELSE Validate(Env)[Stmt.expr]
               second == IF Bits(Here(Decl.ret)) = 0 THEN Require(Stmt.expr = None)
                         ELSE Convert(value.type, Here(Decl.ret))
    <3>1. value.result \in Results
      BY <2>2, ExprResult DEF Typed, Results
    <3>2. second \in Results
      BY SmallResults
    <3>3. ReturnChecks = InOrder(<<value.result, second>>)
      BY Zenon DEF ReturnChecks
    <3> HIDE DEF value, second
    <3> QED BY <3>1, <3>2, <3>3, InOrderTwo
  <2> QED
    BY <1>4, <2>3 DEF Return, StmtDone, Finish
<1>5. CASE IfRefused
  <2>1. Stmt \in Stmts /\ Stmt.kind = "if"
    BY <1>5, StmtIsAt DEF IfRefused
  <2>2. Stmt.cond \in Exprs
    BY <2>1, ValidatorAssumption DEF AreTrees
  <2>3. Condition \in Results
    <3> DEFINE cond == Validate(Env)[Stmt.cond]
    <3>1. cond.result \in Results
      BY <2>2, ExprResult
    <3>2. IsBool(cond.type) \in Results
      BY SmallResults DEF IsBool, Results
    <3>3. Condition = InOrder(<<cond.result, IsBool(cond.type)>>)
      BY DEF Condition
    <3> HIDE DEF cond
    <3> QED BY <3>1, <3>2, <3>3, InOrderTwo
  <2> QED
    BY <1>5, <2>3 DEF IfRefused, StmtDone, Finish
<1> QED
  BY <1>1, <1>2, <1>3, <1>4, <1>5

\* A declaration has been validated, or the body of the function that it declares.
DeclDone ==
  /\ pc = "decl" \/ AfterBody
  /\ decl =< Len(Decls) /\ decl' = decl + 1
  /\ frames = <<>> /\ frames' = <<>> /\ returns' = <<>>
  /\ UNCHANGED <<program, unit>>
  /\ \E result \in Results :
       /\ pc = "failed" => result = "failed"
       /\ result = "ok" /\ ~reported => Sound(Decl)
       /\ Declared(result)

\* The size of a type is 0 for void only.
LEMMA OnlyVoid ==
  ASSUME NEW name \in DOMAIN Size, Size[name] = 0
  PROVE  name = "void"
BY DEF Size

\* Of the types that there are only void has no size.
LEMMA HereSize ==
  ASSUME NEW name, Here(name) # Null, Bits(Here(name)) = 0
  PROVE  name = "void"
<1>1. name \in DOMAIN Size /\ Here(name) = [unit |-> unit, name |-> name]
  BY Zenon DEF Here, TypeIn
<1>2. Size[name] = 0
  BY <1>1 DEF Bits
<1> QED
  BY <1>1, <1>2, OnlyVoid

\* When the body of a function has been validated, its variable tells whether it always returns.
LEMMA BodyReturns ==
  ASSUME Control, Truthful, AfterBody, pc = "ok", ~reported, Last(returns)
  PROVE  AlwaysReturns[Decl.body]
<1>1. InFn /\ Len(frames) = 0
  BY DEF InFn, AfterBody
<1>2. VarOf(frames, 0) = 1
  BY VarOfFacts
<1>3. Len(returns) = 1
  BY <1>1, <1>2 DEF Truthful
<1>4. returns[VarOf(frames, 0)]
  BY <1>2, <1>3 DEF Last
<1>5. Writes(0)
  BY <1>1 DEF Writes
<1>6. Earned(0) \/ JustEarned(0)
  BY <1>1, <1>4, <1>5 DEF Truthful
<1> QED
  BY <1>6 DEF Earned, JustEarned, At

\* The steps that end a declaration.
LEMMA DeclDoneSteps ==
  ASSUME Control, Truthful,
         \/ GlobalVar \/ MisplacedVar \/ BadReturnType \/ BadParams \/ NoBody \/ EndFn \/ EndFnFailed
  PROVE  DeclDone
<1>1. ASSUME pc = "decl", decl =< Len(Decls)
      PROVE  IsDecl(Decl) /\ frames = <<>> /\ returns = <<>>
  <2>1. program \in Programs /\ unit \in DOMAIN program /\ decl \in 1 .. Len(Decls) + 1
    BY DEF Control
  <2>2. Len(Decls) \in Nat /\ DOMAIN Decls = 1 .. Len(Decls) /\ \A i \in DOMAIN Decls : IsDecl(Decls[i])
    BY <2>1, ProgramShape DEF Decls
  <2>3. decl \in DOMAIN Decls
    BY <1>1, <2>1, <2>2
  <2> QED
    BY <1>1, <2>2, <2>3 DEF Decl, Control
<1>2. CASE GlobalVar
  <2>1. Decl.init \in Exprs \cup {None} /\ Decl.kind = "var" /\ pc = "decl" /\ decl =< Len(Decls)
    BY <1>1, <1>2 DEF GlobalVar, AtDecl, IsDecl
  <2> DEFINE env == SetType(Env, Decl.name, Here(Decl.type))
             result == VarChecks(env, Decl, Here(Decl.type))
  <2>2. result \in Results
    BY <2>1, VarResult
  <2>3. Declared(result) /\ UNCHANGED <<program, unit, frames, returns>>
    BY <1>2 DEF GlobalVar
  <2>4. Sound(Decl)
    BY <2>1 DEF Sound
  <2> HIDE DEF result
  <2> QED
    BY <1>1, <2>1, <2>2, <2>3, <2>4 DEF DeclDone, Declared
<1>3. CASE MisplacedVar
  <2>1. Decl.init \in Exprs \cup {None} /\ Decl.kind = "var" /\ pc = "decl" /\ decl =< Len(Decls)
    BY <1>1, <1>3 DEF MisplacedVar, AtDecl, IsDecl
  <2> DEFINE result == LocalVar(Env, Decl, TRUE).result
  <2>2. result \in Results
    BY <2>1, VarResult
  <2>3. Declared(result) /\ UNCHANGED <<program, unit, frames, returns>>
    BY <1>3 DEF MisplacedVar
  <2>4. Sound(Decl)
    BY <2>1 DEF Sound
  <2> HIDE DEF result
  <2> QED
    BY <1>1, <2>1, <2>2, <2>3, <2>4 DEF DeclDone, Declared
<1>4. CASE BadReturnType
  <2>1. pc = "decl" /\ decl =< Len(Decls)
    BY <1>4 DEF BadReturnType, AtDecl
  <2> QED
    BY <1>1, <1>4, <2>1 DEF DeclDone, BadReturnType, Declared, Results
<1>5. CASE BadParams
  <2>1. pc = "decl" /\ decl =< Len(Decls) /\ Decl.kind = "fn"
    BY <1>5 DEF BadParams, AtDecl
  <2>2. Decl.params \in Seq(Range(Decl.params)) /\ \A p \in Range(Decl.params) : p.init \in Exprs \cup {None}
    BY <1>1, <2>1 DEF IsDecl
  <2> DEFINE result == FnOpened.result
  <2>3. result \in Results
    BY <2>2, ParamsResult DEF FnOpened
  <2>4. result # "ok" /\ Declared(result) /\ UNCHANGED <<program, unit, frames, returns>>
    BY <1>5 DEF BadParams
  <2> HIDE DEF result
  <2> QED
    BY <1>1, <2>1, <2>3, <2>4 DEF DeclDone, Declared
<1>6. CASE NoBody
  <2>1. pc = "decl" /\ decl =< Len(Decls) /\ Decl.body = None
    BY <1>6 DEF NoBody, AtDecl
  <2>2. Declared("ok") /\ UNCHANGED <<program, unit, frames, returns>>
    BY <1>6 DEF NoBody
  <2>3. Sound(Decl)
    BY <2>1 DEF Sound
  <2> QED
    BY <1>1, <2>1, <2>2, <2>3 DEF DeclDone, Declared, Results
<1>7. CASE EndFnFailed
  <2>1. AfterBody /\ pc = "failed" /\ Declared("failed") /\ returns' = <<>>
    BY <1>7 DEF EndFnFailed
  <2>2. decl =< Len(Decls) /\ frames = <<>>
    BY <2>1 DEF Control, InFn, AfterBody
  <2>3. UNCHANGED <<program, unit, frames>>
    BY <1>7 DEF EndFnFailed
  <2> QED
    BY <2>1, <2>2, <2>3 DEF DeclDone, Declared, Results
<1>8. CASE EndFn
  <2>1. AfterBody /\ pc = "ok" /\ Declared(EndFnChecks) /\ returns' = <<>>
    BY <1>8 DEF EndFn
  <2>2. decl =< Len(Decls) /\ frames = <<>> /\ Here(Decl.ret) # Null
    BY <2>1 DEF Control, InFn, AfterBody
  <2>3. UNCHANGED <<program, unit, frames>>
    BY <1>8 DEF EndFn
  <2>4. EndFnChecks \in {"ok", "failed"}
    BY DEF EndFnChecks
  <2>5. ASSUME EndFnChecks = "ok", ~reported
        PROVE  Sound(Decl)
    <3>1. Last(returns) \/ Bits(Here(Decl.ret)) = 0
      BY <2>5 DEF EndFnChecks
    <3>2. CASE Last(returns)
      BY <2>1, <2>5, <3>2, BodyReturns DEF Sound
    <3>3. CASE Bits(Here(Decl.ret)) = 0
      BY <2>2, <3>3, HereSize DEF Sound
    <3> QED
      BY <3>1, <3>2, <3>3
  <2> QED
    BY <2>1, <2>2, <2>3, <2>4, <2>5 DEF DeclDone, Declared, Results
<1> QED
  BY <1>2, <1>3, <1>4, <1>5, <1>6, <1>7, <1>8

-----------------------------------------------------------------------------
(* The invariant is kept *)

\* A step inside a function.
Stays ==
  /\ InFn
  /\ UNCHANGED <<program, unit, decl, err>>
  /\ frames' \in Seq(Frames) /\ returns' \in Seq(BOOLEAN)
  /\ reported' \in BOOLEAN /\ (reported => reported')
  /\ pc' \in {"stmt", "ok", "failed", "stuck"}
  /\ pc' = "stmt" => frames' # <<>>

\* A step inside a function changes nothing that is said of the declarations before it.
LEMMA StaysKeeps ==
  ASSUME Control, Behind, Stays
  PROVE  Control' /\ Behind'
<1>1. Decl' = Decl /\ Decls' = Decls /\ Here(Decl.ret)' = Here(Decl.ret)
  BY DEF Stays, Decl, Decls, Here
<1>2. Control'
  BY <1>1 DEF Control, Stays, InFn, Frames
<1>3. pc \notin {"refused", "stuck"} /\ pc' # "accepted"
  BY DEF Stays, InFn
<1>4. Behind'
  BY <1>3 DEF Behind, Stays, Sound
<1> QED
  BY <1>2, <1>4

\* A frame below an if statement writes to a variable below the last one.
LEMMA VarBelow ==
  ASSUME NEW fs, NEW n \in Nat, NEW i \in 0 .. n - 1, fs[i + 1].of = "if"
  PROVE  VarOf(fs, i) \in 1 .. VarOf(fs, n) - 1
<1>1. i \in Nat /\ i + 1 \in 0 .. n
  OBVIOUS
<1>2. VarOf(fs, i + 1) = VarOf(fs, i) + 1 /\ VarOf(fs, i) \in Nat \ {0}
  BY <1>1, VarOfFacts
<1>3. VarOf(fs, i + 1) =< VarOf(fs, n) /\ VarOf(fs, n) \in Nat
  BY <1>1, VarOfFacts
<1> QED
  BY <1>2, <1>3

\* `returns' in a function has the variable of the innermost frame as its last.
LEMMA ReturnsShape ==
  ASSUME Control, Truthful, InFn
  PROVE  /\ frames \in Seq(Frames) /\ Len(frames) \in Nat /\ returns \in Seq(BOOLEAN)
         /\ Len(returns) = VarOf(frames, Len(frames)) /\ Len(returns) \in Nat \ {0} /\ returns # <<>>
         /\ Last(returns) = returns[VarOf(frames, Len(frames))] /\ Last(returns) \in BOOLEAN
<1>1. frames \in Seq(Frames) /\ Len(frames) \in Nat /\ returns \in Seq(BOOLEAN)
  BY DEF Control, Frames
<1>2. VarOf(frames, Len(frames)) \in Nat \ {0}
  BY <1>1, VarOfFacts
<1>3. Len(returns) = VarOf(frames, Len(frames))
  BY DEF Truthful
<1>4. Len(returns) \in Nat \ {0} /\ returns # <<>>
  BY <1>1, <1>2, <1>3
<1>5. Last(returns) = returns[Len(returns)] /\ Last(returns) \in BOOLEAN
  BY <1>1, <1>4 DEF Last
<1> QED
  BY <1>1, <1>2, <1>3, <1>4, <1>5

\* Writing through `returns' changes the last variable only.
LEMMA SetReturnsShape ==
  ASSUME Control, Truthful, InFn, NEW value \in BOOLEAN
  PROVE  /\ SetReturns(value) \in Seq(BOOLEAN) /\ Len(SetReturns(value)) = Len(returns)
         /\ SetReturns(value)[Len(returns)] = value
         /\ \A k \in 1 .. Len(returns) - 1 : SetReturns(value)[k] = returns[k]
<1>1. returns \in Seq(BOOLEAN) /\ returns # <<>>
  BY ReturnsShape
<1> QED
  BY <1>1, SetTopFacts DEF SetReturns

\* A statement has been validated: if it is a return statement, the frame has earned its variable.
LEMMA StmtDoneKeeps ==
  ASSUME IInv, StmtDone
  PROVE  IInv'
<1> USE DEF IInv
<1>1. InFn /\ pc = "stmt" /\ pc' \in Results
  BY DEF StmtDone, AtStmt, InFn
<1>2. /\ frames # <<>> /\ Len(frames) \in DOMAIN frames /\ Stmt = At(Len(frames)) /\ Stmt \in Stmts
      /\ Within(Len(frames))
  BY StmtIsAt DEF StmtDone
<1>3. UNCHANGED <<program, unit, decl, err, frames>> /\ reported' = (reported \/ pc' = "failed")
  BY DEF StmtDone
<1>4. Len(frames) \in Nat /\ DOMAIN frames = 1 .. Len(frames)
  BY ReturnsShape, <1>1
<1>5. Len(frames) \in Nat
  BY <1>4
<1>6. /\ returns' \in Seq(BOOLEAN) /\ Len(returns') = Len(returns)
      /\ \A k \in 1 .. Len(returns) - 1 : returns'[k] = returns[k]
      /\ returns'[Len(returns)] => returns[Len(returns)] \/ (pc' = "ok" /\ Stmt.kind = "return")
  <2>1. CASE returns' = returns
    BY <2>1, <1>1, ReturnsShape
  <2>2. CASE pc' = "ok" /\ Stmt.kind = "return" /\ returns' = SetReturns(TRUE)
    BY <2>2, <1>1, SetReturnsShape
  <2> QED
    BY <2>1, <2>2 DEF StmtDone
<1>7. Stays
  <2>1. frames' \in Seq(Frames) /\ reported \in BOOLEAN
    BY <1>3 DEF Control, Frames
  <2> QED
    BY <1>1, <1>3, <1>6, <2>1 DEF Stays, Results
<1>8. Errors'
  BY <1>1, <1>3 DEF Errors, InFn, Results
<1>9. Nested'
  <2>1. \A i \in DOMAIN frames : Opened(i)
    BY <1>1 DEF Nested
  <2>2. \A i \in DOMAIN frames : Opened(i)'
    BY <1>3, <1>4, <2>1, OpenedSame
  <2>3. Within(Len(frames))'
    BY <1>2, <1>3, FrameSame
  <2> QED
    BY <1>3, <2>2, <2>3 DEF Nested
<1>10. Truthful'
  <2> SUFFICES ASSUME InFn'
               PROVE  Truthful'
    BY DEF Truthful
  <2>1. Len(returns') = VarOf(frames', Len(frames'))
    BY <1>1, <1>3, <1>6 DEF Truthful
  <2>2. ASSUME ~reported', NEW i \in 0 .. Len(frames), Writes(i)', returns'[VarOf(frames', i)]
        PROVE  Earned(i)' \/ JustEarned(i)'
    <3>1. i \in Nat /\ i =< Len(frames)
      BY <1>5
    <3>2. ~reported /\ Writes(i)
      BY <1>3, <2>2 DEF Writes
    <3>3. Earned(i)' <=> Earned(i)
      BY <1>3, FrameSame
    <3>4. returns[VarOf(frames, i)] => Earned(i)
      BY <1>1, <3>2 DEF Truthful, JustEarned
    <3>5. CASE i < Len(frames)
      <4>1. VarOf(frames, i) \in 1 .. Len(returns) - 1
        <5>1. frames[i + 1].of = "if" /\ i \in 0 .. Len(frames) - 1
          <6>1. i # Len(frames) /\ i \in 0 .. Len(frames) - 1
            BY <1>5, <3>1, <3>5
          <6> QED BY <3>2, <6>1 DEF Writes
        <5> QED BY <1>1, <1>5, <5>1, VarBelow DEF Truthful
      <4> QED BY <1>3, <1>6, <2>2, <3>3, <3>4, <4>1
    <3>6. CASE i = Len(frames)
      <4>1. VarOf(frames, i) = Len(returns)
        BY <1>1, <3>6 DEF Truthful
      <4>2. CASE returns[Len(returns)]
        BY <3>3, <3>4, <4>1, <4>2
      <4>3. CASE pc' = "ok" /\ Stmt.kind = "return"
        <5>1. At(i)' = Stmt
          BY <1>2, <1>3, <3>6, FrameSame
        <5>2. AlwaysReturns[Stmt]
          BY <1>2, <4>3, ReturningCases
        <5> QED BY <1>3, <3>6, <4>3, <5>1, <5>2 DEF JustEarned
      <4> QED BY <1>3, <1>6, <2>2, <4>1, <4>2, <4>3
    <3> QED BY <1>5, <3>1, <3>5, <3>6
  <2>3. ASSUME ~reported', NEW i \in DOMAIN frames', frames'[i].of = "if", frames'[i].thenReturns
        PROVE  AlwaysReturns[frames'[i].node.then]
    BY <1>1, <1>3, <2>3 DEF Truthful
  <2> QED
    BY <1>3, <2>1, <2>2, <2>3 DEF Truthful
<1> QED
  BY <1>7, <1>8, <1>9, <1>10, StaysKeeps

\* The end of a declaration: what its result says is true of it.
LEMMA DeclDoneKeeps ==
  ASSUME IInv, DeclDone
  PROVE  IInv'
<1> USE DEF IInv
<1>1. PICK result \in Results :
        /\ pc = "failed" => result = "failed"
        /\ result = "ok" /\ ~reported => Sound(Decl)
        /\ Declared(result)
  BY DEF DeclDone
<1>2. /\ pc = "decl" \/ (InFn /\ pc \in {"ok", "failed"})
      /\ decl =< Len(Decls) /\ decl' = decl + 1 /\ frames = <<>> /\ frames' = <<>> /\ returns' = <<>>
      /\ UNCHANGED <<program, unit>>
  BY DEF DeclDone, AfterBody, InFn
<1>3. pc' = IF result = "stuck" THEN "stuck" ELSE "decl"
  BY <1>1 DEF Declared
<1>4. Control'
  <2>1. Decls' = Decls
    BY <1>2 DEF Decls
  <2>2. program \in Programs /\ unit \in DOMAIN program /\ decl \in 1 .. Len(Decls) + 1
    BY DEF Control
  <2>3. Len(Decls) \in Nat
    BY <2>2, ProgramShape DEF Decls
  <2>4. decl' \in 1 .. Len(Decls)' + 1
    BY <1>2, <2>1, <2>2, <2>3
  <2>5. err' \in BOOLEAN /\ reported' \in BOOLEAN
    BY <1>1 DEF Declared, Control
  <2> QED
    BY <1>2, <1>3, <2>1, <2>2, <2>4, <2>5 DEF Control, InFn
<1>5. Errors'
  <2>1. reported => err \/ pc = "failed"
    BY <1>2 DEF Errors
  <2>2. err => reported
    BY <1>2 DEF Errors
  <2> QED
    BY <1>1, <1>3, <2>1, <2>2 DEF Errors, Declared, InFn
<1>6. Nested' /\ Truthful'
  BY <1>3 DEF Nested, Truthful, InFn
<1>7. Behind'
  <2>1. pc' # "accepted"
    BY <1>3
  <2> SUFFICES ASSUME pc' # "stuck", ~reported',
                      NEW u \in DOMAIN program, NEW i \in DOMAIN program[u],
                      u < unit \/ (u = unit /\ i < decl')
               PROVE  Sound(program[u][i])
    BY <1>2, <2>1 DEF Behind, Sound
  <2>2. result = "ok" /\ ~reported
    BY <1>1, <1>3 DEF Declared, Results
  <2>3. pc \notin {"refused", "stuck"}
    BY <1>2
  <2>4. CASE u < unit \/ (u = unit /\ i < decl)
    BY <2>2, <2>3, <2>4 DEF Behind
  <2>5. CASE u = unit /\ i = decl
    BY <1>1, <2>2, <2>5 DEF Decl, Decls
  <2>6. u = unit => i \in Nat
    <3>1. program \in Programs
      BY DEF Control
    <3>2. DOMAIN program[u] = 1 .. Len(program[u]) /\ Len(program[u]) \in Nat
      BY <3>1, ProgramShape
    <3> QED BY <3>2
  <2>7. decl \in Nat
    <3>1. program \in Programs /\ unit \in DOMAIN program /\ decl \in 1 .. Len(Decls) + 1
      BY DEF Control
    <3>2. Len(Decls) \in Nat
      BY <3>1, ProgramShape DEF Decls
    <3> QED BY <3>1, <3>2
  <2>8. u = unit /\ i < decl' => i < decl \/ i = decl
    BY <1>2, <2>6, <2>7
  <2> QED
    BY <2>4, <2>5, <2>8
<1> QED
  BY <1>4, <1>5, <1>6, <1>7

\* Before the first declaration nothing has been found but a name that is there twice.
LEMMA BuildSymtabKeeps ==
  ASSUME IInv, BuildSymtab
  PROVE  IInv'
<1> USE DEF IInv
<1>1. /\ pc = "symtab" /\ UNCHANGED <<program, unit, decl, err, frames, returns>>
      /\ \/ pc' = "refused" /\ reported' = TRUE
         \/ pc' \in {"decl", "symtab"} /\ reported' = reported
  BY DEF BuildSymtab
<1>2. Control'
  <2>1. Decls' = Decls
    BY <1>1 DEF Decls
  <2> QED BY <1>1, <2>1 DEF Control, InFn
<1>3. Errors'
  BY <1>1 DEF Errors, InFn
<1>4. Nested' /\ Truthful'
  BY <1>1 DEF Nested, Truthful, InFn
<1>5. Behind'
  BY <1>1 DEF Behind, Sound
<1> QED
  BY <1>2, <1>3, <1>4, <1>5

\* The end of a unit: if it is not refused all of its declarations are sound.
LEMMA EndUnitKeeps ==
  ASSUME IInv, EndUnit
  PROVE  IInv'
<1> USE DEF IInv
<1>1. pc = "decl" /\ decl > Len(Decls) /\ UNCHANGED <<program, err, frames, returns, reported>>
  BY DEF EndUnit
<1>2. program \in Programs /\ unit \in DOMAIN program /\ decl \in 1 .. Len(Decls) + 1
  BY DEF Control
<1>3. /\ Len(program) \in Nat /\ DOMAIN program = 1 .. Len(program)
      /\ \A u \in DOMAIN program : Len(program[u]) \in Nat /\ DOMAIN program[u] = 1 .. Len(program[u])
  BY <1>2, ProgramShape
<1>4. frames = <<>> /\ returns = <<>> /\ (reported <=> err)
  BY <1>1 DEF Control, Errors
<1>5. ASSUME ~reported, NEW u \in DOMAIN program, u =< unit, NEW i \in DOMAIN program[u]
      PROVE  Sound(program[u][i])
  <2>1. u \in Nat /\ unit \in Nat
    BY <1>2, <1>3
  <2>2. u < unit \/ u = unit
    BY <1>5, <2>1
  <2>3. u = unit => i < decl
    <3>1. Len(program[u]) \in Nat /\ i \in 1 .. Len(program[u])
      BY <1>3
    <3>2. u = unit => Len(program[u]) < decl
      BY <1>1 DEF Decls
    <3>3. decl \in Int
      BY <1>2, <1>3 DEF Decls
    <3> QED BY <3>1, <3>2, <3>3
  <2> QED
    BY <1>1, <1>5, <2>2, <2>3 DEF Behind
<1>6. CASE ~err /\ unit < Len(program)
  <2>1. unit' = unit + 1 /\ decl' = 1 /\ pc' = "decl"
    BY <1>1, <1>6 DEF EndUnit
  <2>2. unit' \in DOMAIN program
    BY <1>2, <1>3, <1>6, <2>1
  <2>3. decl' \in 1 .. Len(Decls)' + 1
    <3>1. Len(Decls)' \in Nat
      BY <1>1, <1>3, <2>2 DEF Decls
    <3> QED BY <2>1, <3>1
  <2>4. Control'
    BY <1>1, <1>4, <2>1, <2>2, <2>3 DEF Control, InFn
  <2>5. Errors' /\ Nested' /\ Truthful'
    BY <1>1, <1>4, <2>1 DEF Errors, Nested, Truthful, InFn
  <2>6. Behind'
    <3> SUFFICES ASSUME ~reported, NEW u \in DOMAIN program, NEW i \in DOMAIN program[u],
                        u < unit' \/ (u = unit' /\ i < decl')
                 PROVE  Sound(program[u][i])
      BY <1>1, <2>1 DEF Behind, Sound
    <3>1. u \in Nat /\ unit \in Nat
      BY <1>2, <1>3
    <3>2. i \in Nat \ {0}
      BY <1>3
    <3>3. u =< unit
      BY <2>1, <3>1, <3>2
    <3> QED BY <1>5, <3>3
  <2> QED
    BY <2>4, <2>5, <2>6
<1>7. CASE ~(~err /\ unit < Len(program))
  <2>1. UNCHANGED <<unit, decl>> /\ pc' = IF err THEN "refused" ELSE "accepted"
    BY <1>7 DEF EndUnit
  <2>2. Decls' = Decls
    BY <1>1, <2>1 DEF Decls
  <2>3. Control'
    BY <1>1, <1>4, <2>1, <2>2 DEF Control, InFn
  <2>4. Errors' /\ Nested' /\ Truthful'
    BY <1>1, <1>4, <2>1 DEF Errors, Nested, Truthful, InFn
  <2>5. ~err => unit = Len(program)
    BY <1>2, <1>3, <1>7
  <2>6. Behind'
    BY <1>1, <2>1, <2>2, <2>5 DEF Behind, Sound
  <2> QED
    BY <2>3, <2>4, <2>6
<1> QED
  BY <1>6, <1>7

\* A step changes nothing below frame m, and none of the variables that these frames write to.
KeepsBelow(m) ==
  /\ UNCHANGED <<program, unit, decl>>
  /\ m =< Len(frames')
  /\ \A j \in 1 .. m : frames'[j].of = frames[j].of
  /\ \A j \in 1 .. m - 1 : frames'[j] = frames[j]
  /\ \A k \in 1 .. VarOf(frames, m) - 1 : returns'[k] = returns[k]

\* Such a step leaves the frames below in order.
LEMMA BelowNested ==
  ASSUME Nested, InFn, frames \in Seq(Frames), NEW m \in 0 .. Len(frames), KeepsBelow(m)
  PROVE  /\ \A i \in 1 .. m - 1 : Opened(i)'
         /\ \A i \in 0 .. m - 1 : At(i)' = At(i) /\ (Within(i)' <=> Within(i))
<1>1. \A i \in 1 .. m - 1 : i \in Nat \ {0} /\ i \in DOMAIN frames /\ (i = 1 \/ i - 1 \in 1 .. m - 1)
  OBVIOUS
<1>2. \A i \in DOMAIN frames : Opened(i)
  BY DEF Nested
<1>3. \A i \in 1 .. m - 1 : Opened(i)'
  BY <1>1, <1>2, OpenedSame DEF KeepsBelow
<1>4. \A i \in 0 .. m - 1 : i = 0 \/ i \in 1 .. m - 1
  OBVIOUS
<1> QED
  BY <1>3, <1>4, FrameSame DEF KeepsBelow

\* It leaves true what their variables say.
LEMMA BelowTruthful ==
  ASSUME Control, Truthful, InFn, ~reported, NEW m \in 0 .. Len(frames), KeepsBelow(m),
         Len(frames') \in Nat,
         NEW i \in 0 .. m - 1, Writes(i)', returns'[VarOf(frames', i)]
  PROVE  Earned(i)'
<1>1. Len(frames) \in Nat
  BY ReturnsShape
<1>2. m \in Nat /\ i \in Nat /\ i + 1 \in 1 .. m /\ i # Len(frames) /\ (i = 0 \/ i \in 1 .. m - 1)
  BY <1>1
<1>3. i # Len(frames')
  <2>1. m =< Len(frames')
    BY DEF KeepsBelow
  <2> QED BY <1>2, <2>1
<1>4. frames[i + 1].of = "if"
  BY <1>2, <1>3 DEF Writes, KeepsBelow
<1>5. VarOf(frames', i) = VarOf(frames, i)
  <2>1. \A j \in 1 .. i : j \in 1 .. m
    BY <1>2
  <2>2. \A j \in 1 .. i : frames'[j].of = frames[j].of
    BY <2>1 DEF KeepsBelow
  <2> QED BY <2>2, VarOfSame
<1>6. VarOf(frames, i) \in 1 .. VarOf(frames, m) - 1
  BY <1>2, <1>4, VarBelow
<1>7. returns[VarOf(frames, i)]
  BY <1>5, <1>6 DEF KeepsBelow
<1>8. Writes(i) /\ i \in 0 .. Len(frames)
  BY <1>1, <1>2, <1>4 DEF Writes
<1>9. Earned(i)
  BY <1>2, <1>7, <1>8 DEF Truthful, JustEarned
<1> QED
  BY <1>2, <1>9, FrameSame DEF KeepsBelow

\* A frame for the statement that the top one is at is put on the frames.
Pushed(f, value) ==
  /\ UNCHANGED <<program, unit, decl, err, pc, reported>>
  /\ frames' = Append(frames, f) /\ f \in Frames
  /\ IF f.of = "block" THEN returns' = SetReturns(value) ELSE returns' = Append(returns, value)
  /\ value = FALSE
  /\ f.of = "block" => f.at = 1 /\ ~f.err /\ Stmt.kind = "block" /\ f.stmts = Stmt.stmts
  /\ f.of = "if" => f.node = Stmt /\ f.branch = "then" /\ ~f.thenReturns

\* A new variable does not say that anything returns.
LEMMA AppendFalse ==
  ASSUME NEW s \in Seq(BOOLEAN)
  PROVE  /\ Append(s, FALSE) \in Seq(BOOLEAN) /\ Len(Append(s, FALSE)) = Len(s) + 1
         /\ Append(s, FALSE)[Len(s) + 1] = FALSE
         /\ \A k \in 1 .. Len(s) : Append(s, FALSE)[k] = s[k]
<1>1. FALSE \in BOOLEAN
  OBVIOUS
<1> QED
  BY <1>1, AppendFacts

\* A new frame has a variable that is clear: its own, or that of the frame below, which no longer writes.
LEMMA PushedKeeps ==
  ASSUME IInv, AtStmt, NEW f, Pushed(f, FALSE)
  PROVE  IInv'
<1> USE DEF IInv
<1>0. PICK n : n = Len(frames)
  OBVIOUS
<1>1. InFn /\ pc = "stmt" /\ pc' = "stmt" /\ InFn'
  BY DEF Pushed, AtStmt, InFn
<1>2. n \in DOMAIN frames /\ Stmt = At(n) /\ Stmt \in Stmts /\ Within(n)
  BY <1>0, StmtIsAt
<1>3. /\ frames \in Seq(Frames) /\ returns \in Seq(BOOLEAN) /\ n \in Nat
      /\ Len(returns) = VarOf(frames, n) /\ Len(returns) \in Nat \ {0}
  BY <1>0, <1>1, ReturnsShape
<1>4. /\ frames' \in Seq(Frames) /\ Len(frames') = n + 1 /\ DOMAIN frames' = 1 .. n + 1
      /\ DOMAIN frames = 1 .. n /\ frames'[n + 1] = f /\ \A i \in 1 .. n : frames'[i] = frames[i]
  BY <1>0, <1>3, AppendFacts DEF Pushed
<1>5. n \in Nat /\ n # 0 /\ n \in 1 .. n
  BY <1>2, <1>3, <1>4
<1>6. f \in Frames /\ f.of \in {"block", "if"}
  BY FrameTypes DEF Pushed
<1>7. /\ VarOf(frames', n) = VarOf(frames, n) /\ VarOf(frames', n + 1) = Len(returns')
      /\ returns' \in Seq(BOOLEAN) /\ returns'[VarOf(frames', n + 1)] = FALSE
      /\ \A k \in 1 .. Len(returns) - 1 : returns'[k] = returns[k]
      /\ f.of = "if" => returns'[VarOf(frames, n)] = returns[VarOf(frames, n)]
  <2>1. VarOf(frames', n) = VarOf(frames, n)
    BY <1>4, VarOfSame
  <2>2. VarOf(frames', n + 1) = IF f.of = "if" THEN VarOf(frames', n) + 1 ELSE VarOf(frames', n)
    BY <1>4, <1>5, VarOfFacts
  <2>3. CASE f.of = "block"
    <3>1. returns' = SetReturns(FALSE)
      BY <2>3 DEF Pushed
    <3> QED BY <1>1, <1>3, <2>1, <2>2, <2>3, <3>1, SetReturnsShape
  <2>4. CASE f.of = "if"
    <3>1. returns' = Append(returns, FALSE)
      BY <2>4 DEF Pushed
    <3>2. /\ Append(returns, FALSE) \in Seq(BOOLEAN) /\ Len(Append(returns, FALSE)) = Len(returns) + 1
          /\ Append(returns, FALSE)[Len(returns) + 1] = FALSE
          /\ \A k \in 1 .. Len(returns) : Append(returns, FALSE)[k] = returns[k]
      BY <1>3, AppendFalse
    <3>3. /\ returns' \in Seq(BOOLEAN) /\ Len(returns') = Len(returns) + 1
          /\ returns'[Len(returns) + 1] = FALSE
          /\ \A k \in 1 .. Len(returns) : returns'[k] = returns[k]
      BY <3>1, <3>2
    <3>4. VarOf(frames', n + 1) = Len(returns') /\ VarOf(frames, n) \in 1 .. Len(returns)
      BY <1>3, <2>1, <2>2, <2>4, <3>3
    <3>5. \A k \in 1 .. Len(returns) - 1 : k \in 1 .. Len(returns)
      BY <1>3
    <3> QED BY <1>3, <2>1, <2>2, <2>4, <3>3, <3>4, <3>5, Zenon
  <2> QED BY <1>6, <2>3, <2>4
<1>8. KeepsBelow(n)
  BY <1>3, <1>4, <1>5, <1>7 DEF KeepsBelow, Pushed
<1>9. Stays
  <2>1. frames' # <<>>
    BY <1>4, <1>5
  <2> QED BY <1>1, <1>4, <1>7, <2>1 DEF Stays, Pushed, Control
<1>10. Errors'
  <2>1. f.of = "block" => ~f.err
    BY DEF Pushed
  <2>2. (\E i \in DOMAIN frames' : frames'[i].of = "block" /\ frames'[i].err)
          <=> (\E i \in DOMAIN frames : frames[i].of = "block" /\ frames[i].err)
    BY <1>4, <1>5, <2>1
  <2> QED BY <1>1, <2>2 DEF Errors, Pushed
<1>11. At(n)' = At(n) /\ (Within(n)' <=> Within(n)) /\ (Earned(n)' <=> Earned(n))
  BY <1>4, <1>5, FrameSame DEF Pushed
<1>12. Nested'
  <2>1. \A i \in 1 .. n - 1 : Opened(i)'
    BY <1>1, <1>3, <1>5, <1>0, <1>8, BelowNested
  <2>2. Opened(n)'
    <3>1. Opened(n)
      BY <1>1, <1>2 DEF Nested
    <3>2. n = 1 \/ n - 1 \in 1 .. n
      BY <1>5
    <3> QED BY <1>4, <1>5, <3>1, <3>2, OpenedSame DEF Pushed
  <2>3. Opened(n + 1)'
    <3>1. (n + 1) - 1 = n
      BY <1>5
    <3>2. f.of = "block" => f.at =< Len(f.stmts) + 1
      <4> HAVE f.of = "block"
      <4>1. Len(f.stmts) \in Nat
        BY <1>6, FrameTypes
      <4> QED BY <4>1 DEF Pushed
    <3> QED BY <1>2, <1>4, <1>6, <1>11, <3>1, <3>2 DEF Opened, Pushed
  <2>4. \A i \in 1 .. n + 1 : i \in 1 .. n - 1 \/ i = n \/ i = n + 1
    BY <1>5
  <2> QED BY <1>1, <1>4, <2>1, <2>2, <2>3, <2>4 DEF Nested
<1>13. Truthful'
  <2>1. ASSUME ~reported, NEW i \in 0 .. n + 1, Writes(i)', returns'[VarOf(frames', i)]
        PROVE  Earned(i)'
    <3>1. i # n + 1
      BY <1>7, <2>1
    <3>2. CASE i = n
      <4>1. f.of = "if"
        BY <1>4, <1>5, <2>1, <3>2 DEF Writes
      <4>2. Writes(n) /\ returns[VarOf(frames, n)] /\ n \in 0 .. Len(frames)
        BY <1>5, <1>7, <2>1, <3>2, <4>1, <1>0 DEF Writes
      <4> QED BY <1>0, <1>1, <1>11, <2>1, <3>2, <4>2 DEF Truthful, JustEarned
    <3>3. CASE i \in 0 .. n - 1
      <4>1. n \in 0 .. Len(frames) /\ Len(frames') \in Nat
        BY <1>0, <1>4, <1>5
      <4> QED BY <1>1, <1>8, <2>1, <3>3, <4>1, BelowTruthful
    <3> QED BY <1>5, <3>1, <3>2, <3>3
  <2>2. ASSUME ~reported, NEW i \in 1 .. n + 1, frames'[i].of = "if", frames'[i].thenReturns
        PROVE  AlwaysReturns[frames'[i].node.then]
    <3>1. i # n + 1
      BY <1>4, <2>2 DEF Pushed
    <3>2. i \in 1 .. n
      BY <1>5, <3>1
    <3> QED BY <1>1, <1>4, <2>2, <3>2 DEF Truthful
  <2>3. reported' = reported
    BY DEF Pushed
  <2> QED BY <1>4, <1>7, <2>1, <2>2, <2>3 DEF Truthful
<1> QED
  BY <1>9, <1>10, <1>12, <1>13, StaysKeeps

\* The top frame goes on to its next statement.
Replaced(f) ==
  /\ UNCHANGED <<program, unit, decl, err, reported>>
  /\ frames # <<>> /\ frames' = Append(Below, f) /\ f \in Frames /\ f.of = Top.of
  /\ pc \in {"ok", "failed"} /\ pc' = "stmt"
  /\ IF f.of = "block"
     THEN /\ returns' = returns /\ f.stmts = Top.stmts /\ f.at = Top.at + 1
          /\ f.err <=> Top.err \/ pc = "failed"
     ELSE /\ pc = "ok" /\ returns' = SetReturns(FALSE) /\ Top.branch = "then"
          /\ f.node = Top.node /\ f.branch = "else" /\ f.node.else # None
          /\ f.thenReturns <=> Last(returns)

\* The next statement: what the last one has earned is behind the frame.
LEMMA ReplacedKeeps ==
  ASSUME IInv, NEW f, Replaced(f)
  PROVE  IInv'
<1> USE DEF IInv
<1>0. PICK n : n = Len(frames)
  OBVIOUS
<1>1. InFn /\ pc \in {"ok", "failed"} /\ pc' = "stmt" /\ InFn'
  BY DEF Replaced, InFn
<1>2. /\ frames \in Seq(Frames) /\ returns \in Seq(BOOLEAN) /\ frames # <<>>
      /\ Len(returns) = VarOf(frames, n) /\ Len(returns) \in Nat \ {0}
      /\ Last(returns) = returns[VarOf(frames, n)]
  BY <1>0, <1>1, ReturnsShape DEF Replaced
<1>3. /\ n \in Nat \ {0} /\ DOMAIN frames = 1 .. n /\ Top = frames[n] /\ frames[n] \in Frames
      /\ n \in 1 .. n
  <2>1. /\ Len(frames) \in Nat \ {0} /\ DOMAIN frames = 1 .. Len(frames)
        /\ Last(frames) = frames[Len(frames)] /\ Last(frames) \in Frames
    BY <1>2, FrontFacts
  <2> QED BY <1>0, <2>1 DEF Top
<1>4. /\ frames' \in Seq(Frames) /\ Len(frames') = n /\ DOMAIN frames' = 1 .. n
      /\ frames'[n] = f /\ \A i \in 1 .. n - 1 : frames'[i] = frames[i]
  <2>1. f \in Frames /\ frames' = Append(Front(frames), f)
    BY DEF Replaced, Below
  <2> QED BY <1>0, <1>2, <2>1, SetTopFacts
<1>5. f \in Frames /\ f.of = frames[n].of /\ f.of \in {"block", "if"}
  BY <1>3, FrameTypes DEF Replaced
<1>6. \A i \in 1 .. n : i = n \/ i \in 1 .. n - 1
  BY <1>3
<1>7. \A i \in 1 .. n : frames'[i].of = frames[i].of
  BY <1>4, <1>5, <1>6
<1>8. /\ returns' \in Seq(BOOLEAN) /\ Len(returns') = VarOf(frames', n)
      /\ \A k \in 1 .. Len(returns) - 1 : returns'[k] = returns[k]
      /\ IF f.of = "block" THEN returns' = returns ELSE returns'[VarOf(frames', n)] = FALSE
  <2>1. VarOf(frames', n) = VarOf(frames, n)
    BY <1>7, VarOfSame
  <2>2. CASE f.of = "block"
    BY <1>2, <2>1, <2>2 DEF Replaced
  <2>3. CASE f.of = "if"
    <3>1. returns' = SetReturns(FALSE)
      BY <2>3 DEF Replaced
    <3> QED BY <1>1, <1>2, <2>1, <2>3, <3>1, SetReturnsShape
  <2> QED BY <1>5, <2>2, <2>3
<1>9. KeepsBelow(n)
  BY <1>2, <1>3, <1>4, <1>7, <1>8 DEF KeepsBelow, Replaced
<1>10. Stays
  <2>1. frames' # <<>>
    BY <1>3, <1>4
  <2> QED BY <1>1, <1>4, <1>8, <2>1 DEF Stays, Replaced, Control
<1>11. Errors'
  <2>1. CASE f.of = "block"
    <3>1. f.err <=> frames[n].err \/ pc = "failed"
      BY <1>3, <2>1 DEF Replaced
    <3>2. (\E i \in DOMAIN frames' : frames'[i].of = "block" /\ frames'[i].err)
            <=> \/ pc = "failed"
                \/ \E i \in DOMAIN frames : frames[i].of = "block" /\ frames[i].err
      BY <1>3, <1>4, <1>5, <1>6, <2>1, <3>1
    <3> QED BY <1>1, <3>2 DEF Errors, Replaced
  <2>2. CASE f.of = "if"
    <3>1. pc = "ok"
      BY <2>2 DEF Replaced
    <3>2. (\E i \in DOMAIN frames' : frames'[i].of = "block" /\ frames'[i].err)
            <=> (\E i \in DOMAIN frames : frames[i].of = "block" /\ frames[i].err)
      BY <1>3, <1>4, <1>5, <1>6, <2>2
    <3> QED BY <1>1, <3>1, <3>2 DEF Errors, Replaced
  <2> QED BY <1>5, <2>1, <2>2
<1>12. /\ \A i \in 1 .. n - 1 : Opened(i)'
       /\ At(n - 1)' = At(n - 1) /\ (Within(n - 1)' <=> Within(n - 1))
  <2>1. n \in 0 .. Len(frames) /\ n - 1 \in 0 .. n - 1
    BY <1>0, <1>3
  <2> QED BY <1>1, <1>2, <1>9, <2>1, BelowNested
<1>13. Opened(n) /\ Within(n)
  BY <1>0, <1>1, <1>3 DEF Nested
<1>14. Nested'
  <2>1. Opened(n)'
    <3>1. CASE f.of = "block"
      <4>1. f.stmts = frames[n].stmts /\ f.at = frames[n].at + 1
        BY <1>3, <3>1 DEF Replaced
      <4>2. frames[n].at =< Len(frames[n].stmts) /\ frames[n].at \in Nat
        BY <1>3, <1>5, <1>13, <3>1, FrameTypes DEF Within
      <4>3. f.at =< Len(f.stmts) + 1
        <5>1. Len(frames[n].stmts) \in Nat
          BY <1>3, <1>5, <3>1, FrameTypes
        <5> QED BY <4>1, <4>2, <5>1
      <4> QED BY <1>4, <1>5, <1>12, <1>13, <3>1, <4>1, <4>3 DEF Opened
    <3>2. CASE f.of = "if"
      <4>1. f.node = frames[n].node /\ f.node.else # None
        BY <1>3, <3>2 DEF Replaced
      <4> QED BY <1>4, <1>5, <1>12, <1>13, <3>2, <4>1 DEF Opened
    <3> QED BY <1>5, <3>1, <3>2
  <2> QED BY <1>1, <1>4, <1>6, <1>12, <2>1 DEF Nested
<1>15. ASSUME ~reported, returns[VarOf(frames, n)]
       PROVE  IF f.of = "block" THEN Earned(n) \/ (pc = "ok" /\ AlwaysReturns[At(n)])
              ELSE AlwaysReturns[f.node.then]
  <2>1. Earned(n) \/ JustEarned(n)
    <3>1. n \in 0 .. Len(frames) /\ Writes(n)
      BY <1>0, <1>3 DEF Writes
    <3> QED BY <1>1, <1>15, <3>1 DEF Truthful
  <2>2. CASE f.of = "block"
    BY <2>1, <2>2 DEF JustEarned
  <2>3. CASE f.of = "if"
    <3>1. frames[n].branch = "then" /\ f.node = frames[n].node /\ frames[n].of = "if"
      BY <1>3, <1>5, <2>3 DEF Replaced
    <3>2. ~Earned(n)
      BY <3>1 DEF Earned
    <3>3. At(n) = f.node.then
      BY <1>3, <3>1 DEF At
    <3> QED BY <2>1, <2>3, <3>2, <3>3 DEF JustEarned
  <2> QED BY <1>5, <2>2, <2>3
<1>16. Truthful'
  <2>1. ASSUME ~reported, NEW i \in 0 .. n, Writes(i)', returns'[VarOf(frames', i)]
        PROVE  Earned(i)'
    <3>1. CASE i = n
      <4>1. f.of = "block" /\ returns' = returns
        BY <1>5, <1>8, <2>1, <3>1
      <4>2. VarOf(frames', n) = VarOf(frames, n)
        BY <1>7, VarOfSame
      <4>3. Earned(n) \/ AlwaysReturns[At(n)]
        BY <1>15, <2>1, <3>1, <4>1, <4>2
      <4>4. f.stmts = frames[n].stmts /\ f.at = frames[n].at + 1 /\ frames[n].at \in Nat \ {0}
        BY <1>3, <1>5, <4>1, FrameTypes DEF Replaced
      <4>5. At(n) = f.stmts[frames[n].at]
        BY <1>3, <1>5, <4>1, <4>4 DEF At
      <4>6. \E j \in 1 .. f.at - 1 : AlwaysReturns[f.stmts[j]]
        <5>1. CASE Earned(n)
          <6>1. PICK j \in 1 .. frames[n].at - 1 : AlwaysReturns[frames[n].stmts[j]]
            BY <5>1 DEF Earned
          <6>2. j \in 1 .. f.at - 1
            BY <4>4
          <6> QED BY <4>4, <6>1, <6>2
        <5>2. CASE AlwaysReturns[At(n)]
          <6>1. frames[n].at \in 1 .. f.at - 1
            BY <4>4
          <6> QED BY <4>5, <5>2, <6>1
        <5> QED BY <4>3, <5>1, <5>2
      <4> QED BY <1>3, <1>4, <3>1, <4>1, <4>6 DEF Earned
    <3>2. CASE i \in 0 .. n - 1
      <4>1. n \in 0 .. Len(frames) /\ Len(frames') \in Nat
        BY <1>0, <1>3, <1>4
      <4> QED BY <1>1, <1>9, <2>1, <3>2, <4>1, BelowTruthful
    <3> QED BY <1>3, <3>1, <3>2
  <2>2. ASSUME ~reported, NEW i \in 1 .. n, frames'[i].of = "if", frames'[i].thenReturns
        PROVE  AlwaysReturns[frames'[i].node.then]
    <3>1. CASE i = n
      <4>1. f.of = "if" /\ f.thenReturns
        BY <1>4, <2>2, <3>1
      <4>2. Last(returns)
        BY <4>1 DEF Replaced
      <4> QED BY <1>2, <1>4, <1>15, <2>2, <3>1, <4>1, <4>2
    <3>2. CASE i \in 1 .. n - 1
      BY <1>1, <1>3, <1>4, <2>2, <3>2 DEF Truthful
    <3> QED BY <1>6, <3>1, <3>2
  <2>3. reported' = reported
    BY DEF Replaced
  <2> QED BY <1>4, <1>8, <2>1, <2>2, <2>3 DEF Truthful
<1> QED
  BY <1>10, <1>11, <1>14, <1>16, StaysKeeps

\* The top frame is left; its statement is valid, or it has failed.
Popped(value) ==
  /\ UNCHANGED <<program, unit, decl, err, reported>>
  /\ frames # <<>> /\ frames' = Below
  /\ InFn /\ pc' \in {"ok", "failed"}
  /\ IF Top.of = "block"
     THEN /\ pc = "stmt" /\ returns' = returns /\ (pc' = "failed" <=> Top.err)
     ELSE /\ pc = pc'
          /\ pc = "ok" => returns' = Append(Front(Front(returns)), value)
          /\ pc = "failed" => returns' = Front(returns)
          /\ value \in BOOLEAN
          /\ pc = "ok" /\ ~reported /\ value => AlwaysReturns[Top.node]

\* The end of a block or an if statement: what its variable says is true of the statement below.
LEMMA PoppedKeeps ==
  ASSUME IInv, NEW value, Popped(value)
  PROVE  IInv'
<1> USE DEF IInv
<1>0. PICK n : n = Len(frames)
  OBVIOUS
<1>1. InFn /\ InFn' /\ pc' \in {"ok", "failed"}
  BY DEF Popped, InFn
<1>2. /\ frames \in Seq(Frames) /\ returns \in Seq(BOOLEAN) /\ frames # <<>>
      /\ Len(returns) = VarOf(frames, n) /\ Len(returns) \in Nat \ {0}
      /\ Last(returns) = returns[VarOf(frames, n)]
  BY <1>0, <1>1, ReturnsShape DEF Popped
<1>3. /\ n \in Nat \ {0} /\ DOMAIN frames = 1 .. n /\ Top = frames[n] /\ frames[n] \in Frames
      /\ frames' \in Seq(Frames) /\ Len(frames') = n - 1 /\ DOMAIN frames' = 1 .. n - 1
      /\ \A i \in 1 .. n - 1 : frames'[i] = frames[i]
  <2>1. /\ Len(frames) \in Nat \ {0} /\ DOMAIN frames = 1 .. Len(frames)
        /\ Last(frames) = frames[Len(frames)] /\ Last(frames) \in Frames
        /\ Front(frames) \in Seq(Frames) /\ Len(Front(frames)) = Len(frames) - 1
        /\ DOMAIN Front(frames) = 1 .. Len(frames) - 1
        /\ \A i \in 1 .. Len(frames) - 1 : Front(frames)[i] = frames[i]
    BY <1>2, FrontFacts
  <2>2. frames' = Front(frames)
    BY DEF Popped, Below
  <2> QED BY <1>0, <2>1, <2>2 DEF Top
<1>4. n \in 1 .. n /\ n - 1 \in Nat /\ (n - 1) + 1 = n /\ \A i \in 1 .. n : i = n \/ i \in 1 .. n - 1
  BY <1>3
<1>5. frames[n].of \in {"block", "if"}
  BY <1>3, FrameTypes
<1>6. VarOf(frames, n) = IF frames[n].of = "if" THEN VarOf(frames, n - 1) + 1 ELSE VarOf(frames, n - 1)
  BY <1>4, VarOfFacts
<1>7. VarOf(frames', n - 1) = VarOf(frames, n - 1) /\ VarOf(frames, n - 1) \in Nat \ {0}
  <2>1. \A i \in 1 .. n - 1 : frames'[i].of = frames[i].of
    BY <1>3
  <2> QED BY <1>4, <2>1, VarOfFacts, VarOfSame
<1>8. /\ returns' \in Seq(BOOLEAN) /\ Len(returns') = VarOf(frames, n - 1)
      /\ \A k \in 1 .. VarOf(frames, n - 1) - 1 : returns'[k] = returns[k]
      /\ frames[n].of = "if" /\ pc = "ok" => returns'[VarOf(frames, n - 1)] = value
  <2>1. CASE frames[n].of = "block"
    BY <1>2, <1>3, <1>6, <2>1 DEF Popped
  <2>2. CASE frames[n].of = "if"
    <3> DEFINE rest == Front(returns)
    <3>1. returns # <<>> /\ Len(returns) = VarOf(frames, n - 1) + 1
      BY <1>2, <1>6, <2>2
    <3>2. /\ rest \in Seq(BOOLEAN) /\ Len(rest) = Len(returns) - 1
          /\ \A k \in 1 .. Len(returns) - 1 : rest[k] = returns[k]
      BY <1>2, <3>1, FrontFacts
    <3>3. Len(rest) = VarOf(frames, n - 1)
      BY <1>7, <3>1, <3>2
    <3>4. \A k \in 1 .. VarOf(frames, n - 1) - 1 : rest[k] = returns[k]
      BY <1>7, <3>1, <3>2
    <3> HIDE DEF rest
    <3>5. CASE pc = "failed"
      <4>1. returns' = rest
        BY <1>3, <2>2, <3>5 DEF Popped, rest
      <4> QED BY <3>2, <3>3, <3>4, <3>5, <4>1
    <3>6. CASE pc = "ok"
      <4>1. returns' = Append(Front(rest), value) /\ value \in BOOLEAN
        BY <1>3, <2>2, <3>6 DEF Popped, rest
      <4>2. rest # <<>>
        BY <1>7, <3>2, <3>3
      <4>3. /\ returns' \in Seq(BOOLEAN) /\ Len(returns') = Len(rest) /\ returns'[Len(rest)] = value
            /\ \A k \in 1 .. Len(rest) - 1 : returns'[k] = rest[k]
        BY <3>2, <4>1, <4>2, SetTopFacts
      <4> QED BY <3>3, <3>4, <4>3
    <3>7. pc \in {"ok", "failed"}
      BY <1>3, <2>2 DEF Popped
    <3> QED BY <3>5, <3>6, <3>7
  <2> QED BY <1>5, <2>1, <2>2
<1>9. Stays
  BY <1>1, <1>3, <1>8 DEF Stays, Popped, Control
<1>10. Opened(n)
  BY <1>1, <1>3, <1>4 DEF Nested
<1>11. At(n - 1)' = At(n - 1) /\ (Within(n - 1)' <=> Within(n - 1))
  <2>1. n - 1 = 0 \/ n - 1 \in 1 .. n - 1
    BY <1>3
  <2> QED BY <1>3, <2>1, FrameSame DEF Popped
<1>12. At(n - 1) \in Stmts
  <2>1. Within(n - 1) /\ n - 1 \in 0 .. Len(frames)
    BY <1>0, <1>4, <1>10 DEF Opened
  <2> QED BY <1>1, <2>1, AtIsStmt
<1>13. Errors'
  <2>1. (\E i \in DOMAIN frames : frames[i].of = "block" /\ frames[i].err)
          <=> \/ frames[n].of = "block" /\ frames[n].err
              \/ \E i \in DOMAIN frames' : frames'[i].of = "block" /\ frames'[i].err
    BY <1>3, <1>4
  <2>2. CASE frames[n].of = "block"
    <3>1. pc = "stmt" /\ (pc' = "failed" <=> frames[n].err)
      BY <1>3, <2>2 DEF Popped
    <3> QED BY <1>1, <2>1, <2>2, <3>1 DEF Errors, Popped
  <2>3. CASE frames[n].of = "if"
    <3>1. pc = pc'
      BY <1>3, <2>3 DEF Popped
    <3> QED BY <1>1, <2>1, <2>3, <3>1 DEF Errors, Popped
  <2> QED BY <1>5, <2>2, <2>3
<1>14. KeepsBelow(n - 1)
  <2>1. n - 1 =< Len(frames')
    BY <1>3
  <2>2. \A i \in 1 .. (n - 1) - 1 : i \in 1 .. n - 1
    BY <1>3
  <2> QED BY <1>3, <1>8, <2>1, <2>2 DEF KeepsBelow, Popped
<1>15. Nested'
  <2>1. n - 1 \in 0 .. Len(frames)
    BY <1>0, <1>4
  <2>2. \A i \in 1 .. (n - 1) - 1 : Opened(i)'
    BY <1>1, <1>2, <1>14, <2>1, BelowNested
  <2>3. ASSUME n - 1 # 0
        PROVE  Opened(n - 1)'
    <3>1. n - 1 \in Nat \ {0} /\ n - 1 \in 1 .. n - 1 /\ (n - 1 = 1 \/ (n - 1) - 1 \in 1 .. n - 1)
      BY <1>3, <2>3
    <3>2. Opened(n - 1)
      <4>1. n - 1 \in DOMAIN frames
        BY <1>3, <2>3
      <4> QED BY <1>1, <4>1 DEF Nested
    <3>3. UNCHANGED <<program, unit, decl>>
      BY DEF Popped
    <3> QED BY <1>3, <3>1, <3>2, <3>3, OpenedSame
  <2>4. \A i \in 1 .. n - 1 : i \in 1 .. (n - 1) - 1 \/ (n - 1 # 0 /\ i = n - 1)
    BY <1>3
  <2>5. \A i \in DOMAIN frames' : Opened(i)'
    BY <1>3, <2>2, <2>3, <2>4
  <2>6. Within(n - 1)'
    BY <1>10, <1>11 DEF Opened
  <2> QED BY <1>3, <2>5, <2>6 DEF Nested
<1>16. ASSUME ~reported, returns'[VarOf(frames', n - 1)]
       PROVE  pc' = "ok" /\ AlwaysReturns[At(n - 1)]
  <2>1. pc # "failed" /\ \A i \in DOMAIN frames : ~(frames[i].of = "block" /\ frames[i].err)
    BY <1>1, <1>16 DEF Errors
  <2>2. pc' = "ok"
    BY <1>1, <1>3, <1>4, <1>5, <2>1 DEF Popped
  <2>3. CASE frames[n].of = "block"
    <3>1. returns[VarOf(frames, n)] /\ pc = "stmt"
      BY <1>3, <1>6, <1>7, <1>16, <2>3 DEF Popped
    <3>2. Earned(n)
      <4>1. n \in 0 .. Len(frames) /\ Writes(n)
        BY <1>0, <1>3 DEF Writes
      <4> QED BY <1>1, <1>16, <3>1, <4>1 DEF Truthful, JustEarned
    <3>3. PICK j \in 1 .. frames[n].at - 1 : AlwaysReturns[frames[n].stmts[j]]
      BY <3>2 DEF Earned
    <3>4. frames[n].stmts \in Seq(Stmts) /\ frames[n].at \in Nat \ {0}
      BY <1>3, <2>3, FrameTypes
    <3>5. /\ At(n - 1).kind = "block" /\ frames[n].stmts = At(n - 1).stmts
          /\ frames[n].at =< Len(frames[n].stmts) + 1
      BY <1>10, <2>3 DEF Opened
    <3>6. j \in DOMAIN frames[n].stmts
      BY <3>4, <3>5
    <3>7. AlwaysReturns[At(n - 1)]
      BY <1>12, <3>3, <3>5, <3>6, ReturningCases
    <3> QED BY <2>2, <3>7
  <2>4. CASE frames[n].of = "if"
    <3>1. pc = "ok" /\ value
      BY <1>3, <1>7, <1>8, <1>16, <2>2, <2>4 DEF Popped
    <3>2. AlwaysReturns[frames[n].node]
      BY <1>3, <1>16, <2>4, <3>1 DEF Popped
    <3>3. frames[n].node = At(n - 1)
      BY <1>10, <2>4 DEF Opened
    <3> QED BY <2>2, <3>2, <3>3
  <2> QED BY <1>5, <2>3, <2>4
<1>17. Truthful'
  <2>1. ASSUME ~reported, NEW i \in 0 .. n - 1, Writes(i)', returns'[VarOf(frames', i)]
        PROVE  Earned(i)' \/ JustEarned(i)'
    <3>1. CASE i = n - 1
      BY <1>3, <1>11, <1>16, <2>1, <3>1 DEF JustEarned
    <3>2. CASE i \in 0 .. (n - 1) - 1
      <4>1. n - 1 \in 0 .. Len(frames) /\ Len(frames') \in Nat
        BY <1>0, <1>3, <1>4
      <4> QED BY <1>1, <1>14, <2>1, <3>2, <4>1, BelowTruthful
    <3> QED BY <1>3, <3>1, <3>2
  <2>2. ASSUME ~reported, NEW i \in 1 .. n - 1, frames'[i].of = "if", frames'[i].thenReturns
        PROVE  AlwaysReturns[frames'[i].node.then]
    <3>1. frames'[i] = frames[i] /\ i \in DOMAIN frames
      BY <1>3
    <3> QED BY <1>1, <2>2, <3>1 DEF Truthful
  <2>3. reported' = reported
    BY DEF Popped
  <2> QED BY <1>3, <1>7, <1>8, <2>1, <2>2, <2>3 DEF Truthful
<1> QED
  BY <1>9, <1>13, <1>15, <1>17, StaysKeeps

\* The steps that open a frame.
LEMMA OpenSteps ==
  ASSUME IInv, Block \/ If
  PROVE  AtStmt /\ \E f : Pushed(f, FALSE) /\ (f.of = "block" => Block) /\ (f.of = "if" => If)
<1>1. AtStmt
  BY DEF Block, If
<1>2. Stmt \in Stmts
  BY <1>1, StmtIsAt DEF IInv
<1>3. CASE Block
  <2> DEFINE f == BlockFrame(Stmt.stmts)
  <2>1. Stmt.kind = "block" /\ Stmt.stmts \in Seq(Stmts)
    BY <1>2, <1>3, ValidatorAssumption DEF Block, AreTrees
  <2>2. f \in Frames /\ f.of = "block" /\ f.stmts = Stmt.stmts /\ f.at = 1 /\ f.err = FALSE
    BY <2>1 DEF BlockFrame, BlockFrames, Frames
  <2>3. frames' = Append(frames, f)
    BY <1>3 DEF Block
  <2> HIDE DEF f
  <2>4. Pushed(f, FALSE)
    BY <1>3, <2>1, <2>2, <2>3 DEF Block, Pushed
  <2> QED BY <1>1, <1>3, <2>2, <2>4
<1>4. CASE If
  <2> DEFINE f == IfFrame(Stmt)
  <2>1. Stmt.kind = "if"
    BY <1>4 DEF If
  <2>2. f \in Frames /\ f.of = "if" /\ f.node = Stmt /\ f.branch = "then" /\ f.thenReturns = FALSE
    BY <1>2, <2>1 DEF IfFrame, IfFrames, Frames
  <2>3. frames' = Append(frames, f)
    BY <1>4 DEF If
  <2> HIDE DEF f
  <2>4. Pushed(f, FALSE)
    BY <1>4, <2>1, <2>2, <2>3 DEF If, Pushed
  <2> QED BY <1>1, <1>4, <2>2, <2>4
<1> QED
  BY <1>3, <1>4

\* The top frame of a function, and what is known of it.
LEMMA TopFacts ==
  ASSUME IInv, frames # <<>>, InFn
  PROVE  /\ Len(frames) \in Nat \ {0} /\ Top = frames[Len(frames)] /\ Top \in Frames
         /\ Opened(Len(frames))
<1>1. frames \in Seq(Frames)
  BY DEF IInv, Control, Frames
<1>2. /\ Len(frames) \in Nat \ {0} /\ DOMAIN frames = 1 .. Len(frames)
      /\ Last(frames) = frames[Len(frames)] /\ Last(frames) \in Frames
  BY <1>1, FrontFacts
<1>3. Len(frames) \in DOMAIN frames
  BY <1>2
<1> QED
  BY <1>2, <1>3 DEF Top, IInv, Nested

\* The frame of a block at its next statement.
LEMMA BlockGoesOn ==
  ASSUME NEW f \in BlockFrames, NEW b \in BOOLEAN
  PROVE  LET g == [f EXCEPT !.at = @ + 1, !.err = b]
         IN  g \in BlockFrames /\ g.stmts = f.stmts /\ g.at = f.at + 1 /\ g.err = b
<1> DEFINE h == [f EXCEPT !.at = @ + 1]
<1>1. f.at + 1 \in Nat \ {0}
  BY DEF BlockFrames
<1>2. h \in BlockFrames /\ h.stmts = f.stmts /\ h.at = f.at + 1
  BY <1>1, Zenon DEF BlockFrames
<1>3. [f EXCEPT !.at = @ + 1, !.err = b] = [h EXCEPT !.err = b]
  BY Zenon
<1> HIDE DEF h
<1>4. /\ [h EXCEPT !.err = b] \in BlockFrames /\ [h EXCEPT !.err = b].stmts = h.stmts
      /\ [h EXCEPT !.err = b].at = h.at /\ [h EXCEPT !.err = b].err = b
  BY <1>2, Zenon DEF BlockFrames
<1> QED
  BY <1>2, <1>3, <1>4

\* The steps that go on in one.
LEMMA NextSteps ==
  ASSUME IInv, BlockNext \/ Else
  PROVE  \E f : Replaced(f)
<1>1. frames # <<>> /\ pc \in {"ok", "failed"} /\ InFn
  BY DEF BlockNext, Else, InBlock, InIf, InFn
<1>2. Top \in Frames
  BY <1>1, TopFacts
<1>3. CASE BlockNext
  <2> DEFINE f == [Top EXCEPT !.at = @ + 1, !.err = @ \/ pc = "failed"]
  <2>1. Top \in BlockFrames /\ Top.of = "block"
    BY <1>2, <1>3, FrameTypes DEF BlockNext, InBlock
  <2>2. /\ f \in Frames /\ f.of = "block" /\ f.stmts = Top.stmts /\ f.at = Top.at + 1
        /\ f.err = (Top.err \/ pc = "failed")
    <3>1. PICK b \in BOOLEAN : b = (Top.err \/ pc = "failed")
      OBVIOUS
    <3>2. f = [Top EXCEPT !.at = @ + 1, !.err = b]
      BY <3>1
    <3> HIDE DEF f
    <3>3. f \in BlockFrames /\ f.stmts = Top.stmts /\ f.at = Top.at + 1 /\ f.err = b
      BY <2>1, <3>2, BlockGoesOn
    <3> QED BY <3>1, <3>3 DEF BlockFrames, Frames
  <2>3. frames' = Append(Below, f) /\ pc' = "stmt" /\ returns' = returns
    BY <1>3 DEF BlockNext
  <2>4. UNCHANGED <<program, unit, decl, err, reported>>
    BY <1>3 DEF BlockNext
  <2> HIDE DEF f
  <2>5. Replaced(f)
    BY <1>1, <2>1, <2>2, <2>3, <2>4 DEF Replaced
  <2> QED BY <2>5
<1>4. CASE Else
  <2> DEFINE f == [Top EXCEPT !.branch = "else", !.thenReturns = Last(returns)]
  <2>1. Top \in IfFrames /\ Top.of = "if" /\ Top.node.else # None /\ Top.branch = "then" /\ pc = "ok"
    BY <1>2, <1>4, FrameTypes DEF Else, InIf
  <2>2. Last(returns) \in BOOLEAN
    BY <1>1, ReturnsShape DEF IInv
  <2>3. /\ f \in Frames /\ f.of = "if" /\ f.node = Top.node /\ f.branch = "else"
        /\ f.thenReturns = Last(returns)
    BY <2>1, <2>2 DEF IfFrames, Frames
  <2>4. frames' = Append(Below, f) /\ pc' = "stmt" /\ returns' = SetReturns(FALSE)
    BY <1>4 DEF Else
  <2>5. UNCHANGED <<program, unit, decl, err, reported>>
    BY <1>4 DEF Else
  <2> HIDE DEF f
  <2>6. Replaced(f)
    BY <1>1, <2>1, <2>3, <2>4, <2>5 DEF Replaced
  <2> QED BY <2>6
<1> QED
  BY <1>3, <1>4

\* A branch that is not there is followed anywhere.
ElseStuck ==
  /\ InFn /\ pc' = "stuck"
  /\ UNCHANGED <<program, tables, unit, decl, err, scopes, frames, returns, reported>>

\* The steps that leave one.
LEMMA CloseSteps ==
  ASSUME IInv, EndBlock \/ BranchFailed \/ NoElse \/ EndElse
  PROVE  (\E value : Popped(value)) \/ ElseStuck
<1>1. frames # <<>> /\ InFn
  BY DEF EndBlock, BranchFailed, NoElse, EndElse, InBlock, InIf, InFn
<1>2. Top \in Frames /\ Len(frames) \in Nat \ {0} /\ Top = frames[Len(frames)] /\ Opened(Len(frames))
  BY <1>1, TopFacts
<1>3. CASE EndBlock
  <2>1. Top.of = "block" /\ Top.err \in BOOLEAN
    BY <1>2, <1>3, FrameTypes DEF EndBlock, InBlock
  <2>2. Popped(FALSE)
    BY <1>1, <1>3, <2>1 DEF EndBlock, Popped
  <2> QED BY <2>2
<1>4. CASE BranchFailed
  <2>1. Popped(FALSE)
    BY <1>1, <1>4 DEF BranchFailed, InIf, EndIf, Popped
  <2> QED BY <2>1
<1>5. CASE NoElse
  <2>1. CASE EndIf("ok", FALSE)
    <3>1. Popped(FALSE)
      BY <1>1, <1>5, <2>1 DEF NoElse, InIf, EndIf, Popped
    <3> QED BY <3>1
  <2> QED BY <1>1, <1>5, <2>1 DEF NoElse, ElseStuck
<1>6. CASE EndElse
  <2> DEFINE value == Top.thenReturns /\ Last(returns)
  <2>1. Top.of = "if" /\ Top.node \in Stmts /\ Top.node.kind = "if" /\ Top.thenReturns \in BOOLEAN
    BY <1>2, <1>6, FrameTypes DEF EndElse, InIf
  <2>2. pc = "ok" /\ Top.branch = "else" /\ EndIf("ok", value)
    BY <1>6 DEF EndElse
  <2>3. Last(returns) \in BOOLEAN /\ Last(returns) = returns[VarOf(frames, Len(frames))]
    BY <1>1, ReturnsShape DEF IInv
  <2>4. ASSUME ~reported, value
        PROVE  AlwaysReturns[Top.node]
    <3>1. Len(frames) \in DOMAIN frames /\ Len(frames) \in 0 .. Len(frames)
      BY <1>2 DEF IInv, Control
    <3>2. AlwaysReturns[Top.node.then]
      BY <1>1, <1>2, <2>1, <2>4, <3>1 DEF IInv, Truthful
    <3>3. Earned(Len(frames)) \/ JustEarned(Len(frames))
      BY <1>1, <2>3, <2>4, <3>1 DEF IInv, Truthful, Writes
    <3>4. AlwaysReturns[At(Len(frames))]
      BY <1>2, <2>1, <3>3 DEF Earned, JustEarned
    <3>5. At(Len(frames)) = Top.node.else /\ Top.node.else # None
      BY <1>2, <2>1, <2>2 DEF At, Opened
    <3> QED BY <2>1, <3>2, <3>4, <3>5, ReturningCases
  <2>5. value \in BOOLEAN
    BY <2>1, <2>3
  <2> HIDE DEF value
  <2>6. Popped(value)
    BY <1>1, <2>1, <2>2, <2>4, <2>5 DEF EndIf, Popped
  <2> QED BY <2>6
<1> QED
  BY <1>3, <1>4, <1>5, <1>6

\* Where it leads nothing is said of the program.
LEMMA ElseStuckKeeps ==
  ASSUME IInv, ElseStuck
  PROVE  IInv'
<1>1. Stays
  BY DEF ElseStuck, Stays, IInv, Control, Frames
<1>2. Errors' /\ Nested' /\ Truthful'
  BY DEF ElseStuck, Errors, Nested, Truthful, InFn
<1> QED
  BY <1>1, <1>2, StaysKeeps DEF IInv

\* The body of a function is opened.
LEMMA BodyKeeps ==
  ASSUME IInv, Body
  PROVE  IInv'
<1> USE DEF IInv
<1>1. /\ pc = "decl" /\ decl =< Len(Decls) /\ Decl.kind = "fn" /\ Here(Decl.ret) # Null
      /\ Decl.body # None /\ pc' = "stmt" /\ UNCHANGED <<program, unit, decl, err, reported>>
  BY DEF Body, AtDecl
<1> DEFINE f == BlockFrame(Decl.body.stmts)
<1>2. IsDecl(Decl)
  <2>1. program \in Programs /\ unit \in DOMAIN program /\ decl \in 1 .. Len(Decls) + 1
    BY DEF Control
  <2>2. Len(Decls) \in Nat /\ DOMAIN Decls = 1 .. Len(Decls) /\ \A i \in DOMAIN Decls : IsDecl(Decls[i])
    BY <2>1, ProgramShape DEF Decls
  <2>3. decl \in DOMAIN Decls
    BY <1>1, <2>1, <2>2
  <2> QED
    BY <2>2, <2>3 DEF Decl
<1>3. Decl.body \in Stmts /\ Decl.body.kind = "block"
  BY <1>1, <1>2 DEF IsDecl
<1>4. Decl.body.stmts \in Seq(Stmts) /\ Len(Decl.body.stmts) \in Nat
  BY <1>3, ValidatorAssumption DEF AreTrees
<1>5. f \in Frames /\ f.of = "block" /\ f.stmts = Decl.body.stmts /\ f.at = 1 /\ f.err = FALSE
  BY <1>4 DEF BlockFrame, BlockFrames, Frames
<1>6. frames' = <<f>> /\ returns' = <<FALSE>>
  BY DEF Body
<1> HIDE DEF f
<1>7. frames' \in Seq(Frames) /\ Len(frames') = 1 /\ DOMAIN frames' = {1} /\ frames'[1] = f /\ frames' # <<>>
  BY <1>5, <1>6
<1>8. returns' \in Seq(BOOLEAN) /\ Len(returns') = 1 /\ returns'[1] = FALSE
  BY <1>6
<1>9. Decl' = Decl /\ Decls' = Decls /\ Here(Decl.ret)' = Here(Decl.ret)
  BY <1>1 DEF Decl, Decls, Here
<1>10. Control'
  BY <1>1, <1>3, <1>7, <1>8, <1>9 DEF Control, InFn, Frames
<1>11. Errors'
  BY <1>1, <1>5, <1>7 DEF Errors, InFn
<1>12. Nested'
  <2>1. At(0)' = Decl.body /\ Within(0)'
    BY <1>9 DEF At, Within
  <2>2. Opened(1)'
    BY <1>3, <1>4, <1>5, <1>7, <2>1 DEF Opened
  <2> QED BY <1>1, <1>7, <2>2 DEF Nested
<1>13. Truthful'
  <2>1. VarOf(frames', 0) = 1 /\ VarOf(frames', 1) = 1
    <3>1. 0 \in Nat /\ 0 + 1 = 1
      OBVIOUS
    <3>2. /\ VarOf(frames', 0) = 1
          /\ VarOf(frames', 0 + 1) = IF frames'[0 + 1].of = "if" THEN VarOf(frames', 0) + 1 ELSE VarOf(frames', 0)
      BY <3>1, VarOfFacts
    <3> QED BY <1>5, <1>7, <3>1, <3>2
  <2>2. \A i \in 0 .. 1 : i = 0 \/ i = 1
    OBVIOUS
  <2>3. \A i \in 0 .. 1 : ~returns'[VarOf(frames', i)]
    BY <1>8, <2>1, <2>2
  <2> QED BY <1>5, <1>7, <1>8, <2>1, <2>3 DEF Truthful
<1>14. Behind'
  BY <1>1 DEF Behind, Sound
<1> QED
  BY <1>10, <1>11, <1>12, <1>13, <1>14

\* A step that changes nothing.
LEMMA StutterKeeps ==
  ASSUME IInv, UNCHANGED vars
  PROVE  IInv'
<1> USE DEF IInv, vars
<1>1. Control'
  BY DEF Control, InFn, Decl, Decls, Here
<1>2. Errors'
  BY DEF Errors, InFn
<1>3. ASSUME NEW i
      PROVE  At(i)' = At(i) /\ (Within(i)' <=> Within(i)) /\ (Earned(i)' <=> Earned(i)) /\ (Opened(i)' <=> Opened(i))
  BY DEF At, Within, Earned, Opened, Decl, Decls
<1>4. Nested'
  BY <1>3 DEF Nested, InFn
<1>5. Truthful'
  BY <1>3 DEF Truthful, InFn, Writes, JustEarned
<1>6. Behind'
  BY DEF Behind, Sound, Decls
<1> QED
  BY <1>1, <1>2, <1>4, <1>5, <1>6

-----------------------------------------------------------------------------
(* Theorems *)

\* The invariant is inductive, whatever the programs are.
THEOREM Inductive == Spec => []IInv
<1>1. Init => IInv
  <2> SUFFICES ASSUME Init
               PROVE  IInv
    OBVIOUS
  <2>1. /\ program \in Programs /\ frames = <<>> /\ returns = <<>> /\ unit = 1 /\ decl = 1
        /\ err = FALSE /\ reported = FALSE /\ pc = "symtab"
    BY DEF Init
  <2>2. /\ Len(program) \in Nat /\ Len(program) >= 1 /\ DOMAIN program = 1 .. Len(program)
        /\ \A u \in DOMAIN program : Len(program[u]) \in Nat /\ DOMAIN program[u] = 1 .. Len(program[u])
    BY <2>1, ProgramShape
  <2>3. unit \in DOMAIN program
    BY <2>1, <2>2
  <2>4. decl \in 1 .. Len(Decls) + 1
    BY <2>1, <2>2, <2>3 DEF Decls
  <2>5. Control
    <3>1. frames \in Seq(BlockFrames \cup IfFrames) /\ returns \in Seq(BOOLEAN)
      BY <2>1
    <3>2. err \in BOOLEAN /\ reported \in BOOLEAN
      BY <2>1
    <3> QED BY <2>1, <2>3, <2>4, <3>1, <3>2 DEF Control, InFn
  <2>6. Errors /\ Nested /\ Truthful
    BY <2>1 DEF Errors, Nested, Truthful, InFn
  <2>7. Behind
    <3>1. \A u \in DOMAIN program : ~(u < 1) /\ \A i \in DOMAIN program[u] : ~(i < 1)
      BY <2>2
    <3> QED BY <2>1, <3>1 DEF Behind
  <2> QED
    BY <2>5, <2>6, <2>7 DEF IInv
<1>2. IInv /\ [Next]_vars => IInv'
  <2> SUFFICES ASSUME IInv, [Next]_vars
               PROVE  IInv'
    OBVIOUS
  <2>1. CASE BuildSymtab
    BY <2>1, BuildSymtabKeeps
  <2>2. CASE EndUnit
    BY <2>2, EndUnitKeeps
  <2>3. CASE GlobalVar \/ MisplacedVar \/ BadReturnType \/ BadParams \/ NoBody \/ EndFn \/ EndFnFailed
    BY <2>3, DeclDoneSteps, DeclDoneKeeps DEF IInv
  <2>4. CASE Body
    BY <2>4, BodyKeeps
  <2>5. CASE Empty \/ Expression \/ Var \/ Return \/ IfRefused
    BY <2>5, StmtDoneSteps, StmtDoneKeeps DEF IInv
  <2>6. CASE Block \/ If
    BY <2>6, OpenSteps, PushedKeeps
  <2>7. CASE BlockNext \/ Else
    BY <2>7, NextSteps, ReplacedKeeps
  <2>8. CASE EndBlock \/ BranchFailed \/ NoElse \/ EndElse
    BY <2>8, CloseSteps, PoppedKeeps, ElseStuckKeeps
  <2>9. CASE Finished \/ UNCHANGED vars
    BY <2>9, StutterKeeps DEF Finished
  <2> QED
    BY <2>1, <2>2, <2>3, <2>4, <2>5, <2>6, <2>7, <2>8, <2>9 DEF Next
<1> QED
  BY <1>1, <1>2, PTL DEF Spec

\* However deep in a program an error is found, and whatever is validated after it,
\* validate_program of its unit returns it and the compilation is refused.
THEOREM Refused == Spec => []ErrorsRefuse
<1>1. IInv => ErrorsRefuse
  BY DEF IInv, Errors, ErrorsRefuse
<1> QED
  BY <1>1, Inductive, PTL

\* When a program is accepted, each of its functions that has a body and a value returns one on
\* every path, whatever the blocks and if statements it consists of.
THEOREM Returned == Spec => []ReturnsSound
<1>1. IInv => ReturnsSound
  <2> SUFFICES ASSUME IInv, pc = "accepted", NEW u \in DOMAIN program, NEW d \in Range(program[u])
               PROVE  Sound(d)
    BY DEF ReturnsSound, Sound
  <2>1. program \in Programs /\ unit \in DOMAIN program /\ decl \in 1 .. Len(Decls) + 1
    BY DEF IInv, Control
  <2>2. /\ Len(program) \in Nat /\ DOMAIN program = 1 .. Len(program)
        /\ \A v \in DOMAIN program : Len(program[v]) \in Nat /\ DOMAIN program[v] = 1 .. Len(program[v])
    BY <2>1, ProgramShape
  <2>3. ~reported /\ unit = Len(program) /\ decl > Len(Decls)
    BY DEF IInv, Errors, Behind
  <2>4. PICK i \in DOMAIN program[u] : d = program[u][i]
    BY DEF Range
  <2>5. u < unit \/ (u = unit /\ i < decl)
    <3>1. u < unit \/ u = unit
      BY <2>2, <2>3
    <3>2. i \in 1 .. Len(program[u]) /\ Len(program[u]) \in Nat /\ Len(Decls) \in Nat
      BY <2>1, <2>2 DEF Decls
    <3>3. u = unit => i =< Len(Decls)
      BY <3>2 DEF Decls
    <3>4. decl \in Int
      BY <2>1, <3>2
    <3> QED BY <2>3, <3>1, <3>2, <3>3, <3>4
  <2> QED
    BY <2>3, <2>4, <2>5 DEF IInv, Behind
<1> QED
  BY <1>1, Inductive, PTL

-----------------------------------------------------------------------------
(* The invariant of the tables and scopes: they have the names that the text has declared so far,   *)
(* each of them stands for what the text says, and its type is known where it is used.             *)

\* A sequence; of what does not matter.
IsStack(s) == s \in Seq(Range(s))

\* A scope has the symbols of some declarations, whose types are known.
Describes(scope, ds) ==
  /\ DOMAIN scope = {d.name : d \in ds}
  /\ \A name \in DOMAIN scope :
       \E d \in ds : d.name = name /\ scope[name] = Variable(Here(d.type))
  /\ \A d \in ds : Here(d.type) # Null

\* What the statement that has just been found valid declares.
JustDeclared == IF pc = "ok" THEN LeavesDeclared[At(Len(frames))] ELSE {}

\* What a scope has on this level.
Visible(level) ==
  VariablesAt(level) \cup (IF level = Level(Len(frames)) THEN JustDeclared ELSE {})

\* There is a scope for the parameters and one for each open block, with what is visible in it.
ScopesMatch ==
  /\ IsStack(scopes) /\ Len(scopes) = Level(Len(frames))
  /\ \A l \in 1 .. Len(scopes) : Describes(scopes[l], Visible(l))

\* While no error has been found the scopes are those that are open in the text.
Scoped ==
  /\ pc = "symtab" => scopes = <<>>
  /\ pc = "decl" /\ ~reported => scopes = <<>>
  /\ InFn /\ ~reported => ScopesMatch

\* The names that declarations declare.
NamesOf(decls) == {d.name : d \in Range(decls)}

\* Every name of the table has a symbol with a place for its type.
HasTypes(table) == \A name \in DOMAIN table : "type" \in DOMAIN table[name]

\* Every unit whose table has been built has its names in it.
Named ==
  /\ IsStack(tables) /\ Len(tables) =< Len(program)
  /\ pc = "symtab" => Len(tables) < Len(program)
  /\ pc \notin {"symtab", "refused"} => Len(tables) = Len(program)
  /\ \A u \in DOMAIN tables : DOMAIN tables[u] = NamesOf(program[u]) /\ HasTypes(tables[u])

-----------------------------------------------------------------------------
(* What statements leave declared, and on which level *)

\* What s leaves declared, when f says it of its parts.
Leaving(s, f) ==
  CASE s.kind = "var" -> {s}
    [] s.kind = "if"  -> f[s.then] \cup IF s.else = None THEN {} ELSE f[s.else]
    [] OTHER          -> {}

\* What a statement leaves declared is defined for every statement.
LEMMA LeavesDeclaredDefined ==
  \A s \in Stmts : LeavesDeclared[s] = Leaving(s, LeavesDeclared)
<1> DEFINE R == SUBSET Stmts
           Step == [s \in Stmts |-> [f \in [Stmts -> R] |-> Leaving(s, f)]]
           depth == [s \in Stmts |-> Depth[s]]
<1>1. depth \in [Stmts -> Nat]
  BY ValidatorAssumption DEF AreTrees
<1>2. \A s \in Stmts : \A p \in Parts(s) : p \in Stmts /\ depth[p] < depth[s]
  BY StmtParts
<1> HIDE DEF depth
<1>3. Step \in [Stmts -> [[Stmts -> R] -> R]]
  <2> SUFFICES ASSUME NEW s \in Stmts, NEW f \in [Stmts -> R]
               PROVE  Leaving(s, f) \in R
    OBVIOUS
  <2>1. s.kind = "if" => s.then \in Stmts /\ s.else \in Stmts \cup {None}
    BY ValidatorAssumption DEF AreTrees
  <2> QED
    BY <2>1 DEF Leaving
<1>4. LooksDeeper(Stmts, R, depth, Step)
  <2> SUFFICES ASSUME NEW s \in Stmts, NEW f \in [Stmts -> R], NEW g \in [Stmts -> R],
                      \A p \in Stmts : depth[p] < depth[s] => f[p] = g[p]
               PROVE  Leaving(s, f) = Leaving(s, g)
    BY DEF LooksDeeper
  <2>1. \A p \in Parts(s) : f[p] = g[p]
    BY <1>2
  <2>2. CASE s.kind = "if"
    <3>1. s.then \in Stmts /\ None \notin Stmts
      BY <2>2, ValidatorAssumption DEF AreTrees
    <3>2. f[s.then] = g[s.then] /\ (s.else # None => f[s.else] = g[s.else])
      BY <2>1, <2>2, <3>1 DEF Parts
    <3> QED
      BY <2>2, <3>2 DEF Leaving
  <2>3. CASE s.kind # "if"
    BY <2>3 DEF Leaving
  <2> QED
    BY <2>2, <2>3
<1>5. Solvable(Stmts, R, Step)
  <2>1. R # {}
    OBVIOUS
  <2> HIDE DEF Step, R
  <2> QED BY <1>1, <1>3, <1>4, <2>1, TreeRecursion, Zenon
<1>6. PICK f \in [Stmts -> R] : \A s \in Stmts : f[s] = Leaving(s, f)
  BY <1>5 DEF Solvable
<1>7. f = [s \in Stmts |-> Leaving(s, f)]
  BY <1>6
<1>8. LeavesDeclared = [s \in Stmts |-> Leaving(s, LeavesDeclared)]
  BY <1>7 DEF LeavesDeclared, Leaving
<1> QED
  BY <1>8

\* What a statement leaves declared, by its kind.
LEMMA LeavingCases ==
  ASSUME NEW s \in Stmts
  PROVE  /\ s.kind = "var" => LeavesDeclared[s] = {s}
         /\ s.kind = "if" => LeavesDeclared[s] = LeavesDeclared[s.then] \cup
                                                 (IF s.else = None THEN {} ELSE LeavesDeclared[s.else])
         /\ s.kind \notin {"var", "if"} => LeavesDeclared[s] = {}
BY LeavesDeclaredDefined DEF Leaving

\* A block is one level above the frame below it.
LEMMA LevelFacts ==
  ASSUME NEW i \in Nat
  PROVE  /\ Level(0) = 1 /\ Level(i) \in Nat \ {0}
         /\ Level(i + 1) = IF frames[i + 1].of = "block" THEN Level(i) + 1 ELSE Level(i)
         /\ \A j \in 0 .. i : Level(j) =< Level(i)
<1>1. \A k : Level(k) = OneMore(frames, k, "block")
  BY DEF Level, OneMore
<1> QED
  BY <1>1, OneMoreFacts

\* The same in every state.
LEMMA LevelUp ==
  \A i \in Nat : Level(i + 1) = IF frames[i + 1].of = "block" THEN Level(i) + 1 ELSE Level(i)
BY LevelFacts

\* The level of a frame depends on the kinds of the frames up to it only.
LEMMA LevelSame ==
  ASSUME NEW i, \A j \in 1 .. i : frames'[j].of = frames[j].of
  PROVE  Level(i)' = Level(i)
<1>1. {j \in 1 .. i : frames'[j].of = "block"} = {j \in 1 .. i : frames[j].of = "block"}
  OBVIOUS
<1> QED
  BY <1>1 DEF Level

\* A function has its body above the parameters, and nothing else.
LEMMA BodyFirst ==
  ASSUME IInv, InFn, NEW i \in 1 .. Len(frames)
  PROVE  frames[1].of = "block" /\ Level(i) \in Nat /\ Level(i) >= 2
<1>1. frames \in Seq(Frames) /\ Len(frames) \in Nat /\ DOMAIN frames = 1 .. Len(frames)
  BY DEF IInv, Control, Frames
<1>2. 1 \in DOMAIN frames /\ i \in Nat /\ 1 \in 0 .. i /\ 0 + 1 = 1 /\ 1 - 1 = 0
  BY <1>1
<1>3. frames[1].of = "block"
  <2>1. Opened(1) /\ frames[1] \in Frames
    BY <1>1, <1>2 DEF IInv, Nested
  <2>2. At(0).kind = "block"
    BY DEF At, IInv, Control
  <2>3. frames[1].of = "if" => frames[1].node = At(0) /\ frames[1].node.kind = "if"
    BY <1>2, <2>1, FrameTypes DEF Opened
  <2> QED BY <2>1, <2>2, <2>3, FrameTypes
<1>4. Level(1) = 2
  <2>1. Level(0) = 1 /\ Level(0 + 1) = IF frames[0 + 1].of = "block" THEN Level(0) + 1 ELSE Level(0)
    BY LevelFacts
  <2> QED BY <1>2, <1>3, <2>1
<1>5. Level(1) =< Level(i) /\ Level(i) \in Nat
  BY <1>2, LevelFacts
<1> QED
  BY <1>3, <1>4, <1>5

-----------------------------------------------------------------------------
(* Tables *)

\* Numbers up to n have a greatest one.
LEMMA Greatest ==
  ASSUME NEW n \in Nat, NEW S \in SUBSET (1 .. n), S # {}
  PROVE  Max(S) \in S
<1> DEFINE depth == [x \in 1 .. n |-> n - x]
<1>1. depth \in [1 .. n -> Nat]
  OBVIOUS
<1>2. PICK x \in S : \A y \in S : depth[x] =< depth[y]
  BY <1>1, Shallowest
<1>3. ASSUME NEW y \in S
      PROVE  x >= y
  <2>1. x \in 1 .. n /\ y \in 1 .. n /\ depth[x] =< depth[y]
    BY <1>2
  <2> QED BY <2>1
<1> QED
  BY <1>3 DEF Max

\* The last declaration among those of some indices is added to what the others make.
TableStep(decls, f, s) == IF s = {} THEN <<>> ELSE AddDecl(f[s \ {Max(s)}], decls[Max(s)])

\* The fold over the declarations of a unit, from the last one to the first.
LEMMA TableUnfolded ==
  ASSUME NEW decls
  PROVE  LET iter == CHOOSE f : f = [s \in SUBSET DOMAIN decls |-> TableStep(decls, f, s)]
         IN  Table(decls) = iter[DOMAIN decls]
BY Zenon DEF Table, FoldLeft, MapThenFoldSet, TableStep

\* A declaration adds its name and no other.
LEMMA AddDeclNames ==
  ASSUME NEW t, NEW d
  PROVE  /\ DOMAIN AddDecl(t, d) = DOMAIN t \cup {d.name}
         /\ HasTypes(t) => HasTypes(AddDecl(t, d))
<1>1. DOMAIN AddDecl(t, d) = DOMAIN t \cup {d.name}
  BY DEF AddDecl, Put
<1>2. ASSUME HasTypes(t), NEW sym, "type" \in DOMAIN sym
      PROVE  HasTypes(Put(t, d.name, sym))
  BY <1>2 DEF HasTypes, Put
<1>3. "type" \in DOMAIN Variable(Unset) /\ "type" \in DOMAIN Function(Unset, ParamTypes(d))
  BY DEF Variable, Function
<1> QED
  BY <1>1, <1>2, <1>3 DEF AddDecl

\* What a unit's declarations put into a table.
Symbols(decls) == {Variable(Unset)} \cup {Function(Unset, ParamTypes(d)) : d \in Range(decls)}
TablesOf(decls) == UNION {[names -> Symbols(decls)] : names \in SUBSET NamesOf(decls)}

\* What a declaration adds is one of the unit's symbols.
LEMMA AddDeclKinds ==
  ASSUME NEW decls, NEW t \in TablesOf(decls), NEW d \in Range(decls)
  PROVE  AddDecl(t, d) \in TablesOf(decls)
<1>1. PICK names \in SUBSET NamesOf(decls) : t \in [names -> Symbols(decls)]
  BY DEF TablesOf
<1>2. ASSUME NEW sym \in Symbols(decls)
      PROVE  Put(t, d.name, sym) \in TablesOf(decls)
  <2>1. names \cup {d.name} \in SUBSET NamesOf(decls)
    BY DEF NamesOf
  <2>2. Put(t, d.name, sym) \in [names \cup {d.name} -> Symbols(decls)]
    BY <1>1 DEF Put
  <2> QED BY <2>1, <2>2 DEF TablesOf
<1>3. Variable(Unset) \in Symbols(decls) /\ Function(Unset, ParamTypes(d)) \in Symbols(decls)
  BY DEF Symbols
<1> QED
  BY <1>2, <1>3 DEF AddDecl

\* The table of a unit has the names that the unit declares.
LEMMA TableNames ==
  ASSUME NEW decls, NEW n \in Nat, DOMAIN decls = 1 .. n
  PROVE  DOMAIN Table(decls) = NamesOf(decls) /\ HasTypes(Table(decls))
<1> DEFINE S == SUBSET (1 .. n)
           R == TablesOf(decls)
           Step == [s \in S |-> [f \in [S -> R] |-> TableStep(decls, f, s)]]
           depth == [s \in S |-> Cardinality(s)]
           iter == CHOOSE f : f = [s \in S |-> TableStep(decls, f, s)]
<1>1. Table(decls) = iter[1 .. n]
  BY TableUnfolded
<1>2. depth \in [S -> Nat] /\ \A s \in S : s # {} => /\ Max(s) \in s /\ s \ {Max(s)} \in S
                                                    /\ depth[s \ {Max(s)}] < depth[s]
  <2>1. \A s \in S : IsFiniteSet(s) /\ Cardinality(s) \in Nat
    <3>1. IsFiniteSet(1 .. n)
      BY FS_Interval
    <3> QED BY <3>1, FS_Subset, FS_CardinalityType
  <2>2. ASSUME NEW s \in S, s # {}
        PROVE  Max(s) \in s /\ s \ {Max(s)} \in S /\ depth[s \ {Max(s)}] < depth[s]
    <3>1. Max(s) \in s
      BY <2>2, Greatest
    <3> DEFINE m == Max(s)
    <3> HIDE DEF m
    <3>2. Cardinality(s \ {m}) = Cardinality(s) - 1
      BY <2>1, <3>1, FS_RemoveElement DEF m
    <3>3. s \ {m} \in S
      OBVIOUS
    <3> QED BY <2>1, <3>1, <3>2, <3>3 DEF m
  <2> QED BY <2>1, <2>2
<1>3. Step \in [S -> [[S -> R] -> R]]
  <2> SUFFICES ASSUME NEW s \in S, NEW f \in [S -> R]
               PROVE  TableStep(decls, f, s) \in R
    OBVIOUS
  <2>1. <<>> \in R
    <3>1. {} \in SUBSET NamesOf(decls) /\ <<>> \in [{} -> Symbols(decls)]
      OBVIOUS
    <3> QED BY <3>1 DEF TablesOf
  <2>2. ASSUME s # {}
        PROVE  AddDecl(f[s \ {Max(s)}], decls[Max(s)]) \in R
    <3>1. f[s \ {Max(s)}] \in TablesOf(decls) /\ decls[Max(s)] \in Range(decls)
      BY <1>2, <2>2 DEF Range
    <3> QED BY <3>1, AddDeclKinds
  <2> QED BY <2>1, <2>2 DEF TableStep
<1>4. LooksDeeper(S, R, depth, Step)
  <2> SUFFICES ASSUME NEW s \in S, NEW f \in [S -> R], NEW g \in [S -> R],
                      \A p \in S : depth[p] < depth[s] => f[p] = g[p]
               PROVE  TableStep(decls, f, s) = TableStep(decls, g, s)
    BY DEF LooksDeeper
  <2> QED BY <1>2 DEF TableStep
<1>5. Solvable(S, R, Step)
  <2>1. R # {}
    <3>1. {} \in SUBSET NamesOf(decls) /\ <<>> \in [{} -> Symbols(decls)]
      OBVIOUS
    <3> QED BY <3>1 DEF TablesOf
  <2> HIDE DEF Step, R, S, depth
  <2> QED BY <1>2, <1>3, <1>4, <2>1, TreeRecursion
<1>6. iter = [s \in S |-> TableStep(decls, iter, s)]
  <2>1. PICK f \in [S -> R] : \A s \in S : f[s] = TableStep(decls, f, s)
    BY <1>5 DEF Solvable
  <2>2. f = [s \in S |-> TableStep(decls, f, s)]
    BY <2>1
  <2> QED BY <2>2
<1> HIDE DEF iter
<1>7. ASSUME NEW s \in S
      PROVE  DOMAIN iter[s] = {decls[i].name : i \in s} /\ HasTypes(iter[s])
  <2> DEFINE Good(r) == DOMAIN iter[r] = {decls[i].name : i \in r} /\ HasTypes(iter[r])
             T == {r \in S : ~Good(r)}
  <2> SUFFICES ASSUME T # {}
               PROVE  FALSE
    OBVIOUS
  <2>1. PICK r \in T : \A q \in T : depth[r] =< depth[q]
    <3>1. T \in SUBSET S
      OBVIOUS
    <3>2. depth \in [S -> Nat]
      BY <1>2
    <3> HIDE DEF T, depth, S
    <3> QED BY <3>1, <3>2, Shallowest
  <2>2. r \in S /\ ~Good(r) /\ iter[r] = TableStep(decls, iter, r)
    <3>1. r \in S /\ ~Good(r)
      BY <2>1
    <3> QED BY <1>6, <3>1
  <2>3. r # {}
    BY <2>2 DEF TableStep, HasTypes
  <2> DEFINE m == Max(r)
             q == r \ {m}
  <2>4. m \in r /\ q \in S /\ depth[q] < depth[r]
    BY <1>2, <2>2, <2>3
  <2>5. q \notin T
    <3>1. depth[q] \in Nat /\ depth[r] \in Nat
      BY <1>2, <2>2, <2>4
    <3> HIDE DEF T, depth, q
    <3> QED BY <2>1, <2>4, <3>1
  <2>6. DOMAIN iter[q] = {decls[i].name : i \in q} /\ HasTypes(iter[q])
    BY <2>4, <2>5
  <2>7. iter[r] = AddDecl(iter[q], decls[m])
    BY <2>2, <2>3 DEF TableStep
  <2>8. r = q \cup {m}
    BY <2>4
  <2> HIDE DEF q, m, T
  <2>9. DOMAIN iter[r] = {decls[i].name : i \in q} \cup {decls[m].name} /\ HasTypes(iter[r])
    BY <2>6, <2>7, AddDeclNames
  <2> QED BY <2>2, <2>8, <2>9
<1>8. {decls[i].name : i \in 1 .. n} = NamesOf(decls)
  BY DEF NamesOf, Range
<1> QED
  BY <1>1, <1>7, <1>8

-----------------------------------------------------------------------------
(* Changes of scopes and tables *)

\* Tables and scopes together.
EnvOf(ts, ss) == [tables |-> ts, scopes |-> ss]

\* A local variable in the innermost scope.
LocalPut(ss, d) == [ss EXCEPT ![Len(ss)] = Put(@, d.name, Variable(Here(d.type)))]

\* What validate_vardecl returns for d: the scopes, with d in the innermost one if it has not failed.
LocalOutcome(ts, ss, d, after) ==
  /\ after.env = EnvOf(ts, ss) \/ after.env = EnvOf(ts, LocalPut(ss, d))
  /\ after.result = "ok" => after.env = EnvOf(ts, LocalPut(ss, d)) /\ Here(d.type) # Null

\* A local variable gets its place in the innermost scope; no table changes.
LEMMA LocalVarEnv ==
  ASSUME NEW ts, NEW ss, NEW d, NEW seen
  PROVE  LocalOutcome(ts, ss, d, LocalVar(EnvOf(ts, ss), d, seen))
<1> DEFINE env == EnvOf(ts, ss)
           new == [env EXCEPT !.scopes[Len(env.scopes)] = Put(@, d.name, Variable(Here(d.type)))]
<1>1. new = EnvOf(ts, LocalPut(ss, d))
  BY DEF EnvOf, LocalPut
<1> HIDE DEF env, new
<1>2. \/ LocalVar(env, d, seen) = [env |-> env, result |-> "failed"]
      \/ LocalVar(env, d, seen) = [env |-> new, result |-> VarChecks(new, d, Here(d.type))]
  BY Zenon DEF LocalVar, new
<1>3. VarChecks(new, d, Here(d.type)) = "ok" => Here(d.type) # Null
  BY DEF VarChecks
<1>4. /\ LocalVar(env, d, seen).env = env \/ LocalVar(env, d, seen).env = new
      /\ LocalVar(env, d, seen).result = "ok" => LocalVar(env, d, seen).env = new /\ Here(d.type) # Null
  BY <1>2, <1>3
<1> QED
  BY <1>1, <1>4 DEF env, LocalOutcome

\* A global name with its type.
SetTable(ts, name, type) == [ts EXCEPT ![unit][name].type = type]

\* The type of a global name is set in its table, unless a scope that is still open has the name.
LEMMA SetTypeEnv ==
  ASSUME NEW ts, NEW ss, NEW name, NEW type
  PROVE  /\ SetType(EnvOf(ts, ss), name, type).tables \in {ts, SetTable(ts, name, type)}
         /\ ss = <<>> => SetType(EnvOf(ts, ss), name, type) = EnvOf(SetTable(ts, name, type), <<>>)
         /\ SetType(EnvOf(ts, ss), name, type)
              = EnvOf(SetType(EnvOf(ts, ss), name, type).tables, SetType(EnvOf(ts, ss), name, type).scopes)
<1> DEFINE env == EnvOf(ts, ss)
           levels == Holders(env, name)
<1>1. CASE levels # {}
  <2>1. SetType(env, name, type) = EnvOf(ts, [ss EXCEPT ![Innermost(levels)][name].type = type])
    BY <1>1 DEF SetType, EnvOf
  <2>2. ss # <<>>
    BY <1>1 DEF Holders, EnvOf
  <2> QED
    BY <2>1, <2>2 DEF EnvOf
<1>2. CASE levels = {}
  <2>1. SetType(env, name, type) = EnvOf(SetTable(ts, name, type), ss)
    BY <1>2 DEF SetType, EnvOf, SetTable
  <2> QED
    BY <2>1 DEF EnvOf
<1> QED
  BY <1>1, <1>2

\* No table gets or loses a name by that.
LEMMA SetTableNames ==
  ASSUME NEW ts, NEW name, NEW type
  PROVE  /\ DOMAIN SetTable(ts, name, type) = DOMAIN ts
         /\ \A u \in DOMAIN ts : /\ DOMAIN SetTable(ts, name, type)[u] = DOMAIN ts[u]
                                 /\ HasTypes(ts[u]) => HasTypes(SetTable(ts, name, type)[u])
BY DEF SetTable, HasTypes

\* A sequence is a sequence of its own elements.
LEMMA SeqIsStack ==
  ASSUME NEW S, NEW s \in Seq(S)
  PROVE  IsStack(s)
<1>1. ASSUME NEW T, T = Range(s)
      PROVE  s \in Seq(T)
  <2>1. Len(s) \in Nat /\ s \in [1 .. Len(s) -> Range(s)]
    BY DEF Range
  <2> QED
    BY <1>1, <2>1
<1> QED
  BY <1>1, Zenon DEF IsStack

\* The indices of a stack.
LEMMA StackFacts ==
  ASSUME NEW s, IsStack(s)
  PROVE  Len(s) \in Nat /\ DOMAIN s = 1 .. Len(s)
BY DEF IsStack

\* Stack t is stack s with x on it, without its top, or with x as its top.
Grown(s, t, x) ==
  IsStack(t) /\ Len(t) = Len(s) + 1 /\ t[Len(s) + 1] = x /\ \A l \in 1 .. Len(s) : t[l] = s[l]
Shrunk(s, t) ==
  IsStack(t) /\ Len(t) = Len(s) - 1 /\ \A l \in 1 .. Len(s) - 1 : t[l] = s[l]
Topped(s, t, x) ==
  IsStack(t) /\ Len(t) = Len(s) /\ t[Len(s)] = x /\ \A l \in 1 .. Len(s) - 1 : t[l] = s[l]

\* Scopes after enter_scope and exit_scope, and when a name gets its place in the innermost one.
LEMMA StackMoves ==
  ASSUME NEW s, IsStack(s)
  PROVE  /\ \A x : Grown(s, Append(s, x), x)
         /\ Len(s) > 0 => Shrunk(s, Front(s))
         /\ \A x : Len(s) > 0 => Topped(s, [s EXCEPT ![Len(s)] = x], x)
<1>1. PICK S : S = Range(s)
  OBVIOUS
<1>2. s \in Seq(S)
  BY <1>1, Zenon DEF IsStack
<1> HIDE <1>1
<1>3. ASSUME NEW x
      PROVE  Grown(s, Append(s, x), x)
  <2>1. s \in Seq(S \cup {x}) /\ x \in S \cup {x}
    BY <1>2
  <2>2. PICK t : t = Append(s, x)
    OBVIOUS
  <2>3. t \in Seq(S \cup {x}) /\ Len(t) = Len(s) + 1 /\ t[Len(s) + 1] = x /\ \A l \in 1 .. Len(s) : t[l] = s[l]
    BY <2>1, <2>2, AppendFacts
  <2>4. IsStack(t)
    BY <2>3, SeqIsStack, Zenon
  <2> QED BY <2>2, <2>3, <2>4 DEF Grown
<1>4. ASSUME Len(s) > 0
      PROVE  Shrunk(s, Front(s))
  <2>1. s # <<>>
    BY <1>4
  <2>2. PICK t : t = Front(s)
    OBVIOUS
  <2>3. t \in Seq(S) /\ Len(t) = Len(s) - 1 /\ \A l \in 1 .. Len(s) - 1 : t[l] = s[l]
    BY <1>2, <2>1, <2>2, FrontFacts
  <2>4. IsStack(t)
    BY <2>3, SeqIsStack, Zenon
  <2> QED BY <2>2, <2>3, <2>4 DEF Shrunk
<1>5. ASSUME NEW x, Len(s) > 0
      PROVE  Topped(s, [s EXCEPT ![Len(s)] = x], x)
  <2> DEFINE t == [s EXCEPT ![Len(s)] = x]
  <2>1. Len(s) \in Nat /\ DOMAIN s = 1 .. Len(s)
    BY <1>2
  <2>2. t \in Seq(S \cup {x}) /\ Len(t) = Len(s)
    BY <1>2, <1>5, <2>1
  <2>3. t[Len(s)] = x /\ \A l \in 1 .. Len(s) - 1 : t[l] = s[l]
    BY <1>5, <2>1
  <2> HIDE DEF t
  <2>4. IsStack(t)
    BY <2>2, SeqIsStack, Zenon
  <2> QED BY <2>2, <2>3, <2>4 DEF t, Topped
<1> QED
  BY <1>3, <1>4, <1>5

\* Nothing is declared in a new scope.
LEMMA DescribesNothing == Describes(<<>>, {})
BY DEF Describes

\* A declaration more.
LEMMA DescribesMore ==
  ASSUME NEW scope, NEW ds, Describes(scope, ds), NEW d, Here(d.type) # Null
  PROVE  Describes(Put(scope, d.name, Variable(Here(d.type))), ds \cup {d})
<1> DEFINE new == Put(scope, d.name, Variable(Here(d.type)))
<1>1. /\ DOMAIN new = DOMAIN scope \cup {d.name} /\ new[d.name] = Variable(Here(d.type))
      /\ \A name \in DOMAIN scope : name # d.name => new[name] = scope[name]
  BY DEF Put
<1> HIDE DEF new
<1>2. DOMAIN new = {c.name : c \in ds \cup {d}}
  BY <1>1 DEF Describes
<1>3. ASSUME NEW name \in DOMAIN new
      PROVE  \E c \in ds \cup {d} : c.name = name /\ new[name] = Variable(Here(c.type))
  <2>1. CASE name = d.name
    BY <1>1, <2>1
  <2>2. CASE name # d.name
    <3>1. name \in DOMAIN scope /\ new[name] = scope[name]
      BY <1>1, <2>2
    <3> QED BY <3>1 DEF Describes
  <2> QED BY <2>1, <2>2
<1>4. \A c \in ds \cup {d} : Here(c.type) # Null
  BY DEF Describes
<1> QED
  BY <1>2, <1>3, <1>4 DEF Describes, new

\* The scope of the parameters alone.
LEMMA OneScope ==
  ASSUME NEW scope
  PROVE  IsStack(<<scope>>) /\ Len(<<scope>>) = 1 /\ <<scope>>[1] = scope
<1>1. <<scope>> \in Seq({scope})
  OBVIOUS
<1> QED
  BY <1>1, SeqIsStack

\* What validate_vardecl has made of a scope when it has not failed.
ParamEnv(ts, ss, env, ds, result) ==
  \E x : /\ env = EnvOf(ts, x)
         /\ ss = <<<<>>>> /\ result = "ok" => \E s : x = <<s>> /\ Describes(s, ds)

\* One parameter more.
LEMMA ParamEnvStep ==
  ASSUME NEW ts, NEW ss, NEW before, NEW ds, NEW d, ParamEnv(ts, ss, before.env, ds, before.result)
  PROVE  ParamEnv(ts, ss, ParamStep(before, d).env, ds \cup {d}, ParamStep(before, d).result)
<1>1. PICK x : /\ before.env = EnvOf(ts, x)
               /\ ss = <<<<>>>> /\ before.result = "ok" => \E s : x = <<s>> /\ Describes(s, ds)
  BY Zenon DEF ParamEnv
<1>2. CASE before.result # "ok"
  <2>1. ParamStep(before, d) = before
    BY <1>2 DEF ParamStep
  <2> QED BY <1>1, <1>2, <2>1 DEF ParamEnv
<1>3. CASE before.result = "ok"
  <2>0. PICK after : after = LocalVar(EnvOf(ts, x), d, TRUE)
    OBVIOUS
  <2>1. ParamStep(before, d) = after
    BY <1>1, <1>3, <2>0 DEF ParamStep
  <2>2. /\ after.env = EnvOf(ts, x) \/ after.env = EnvOf(ts, LocalPut(x, d))
        /\ after.result = "ok" => after.env = EnvOf(ts, LocalPut(x, d)) /\ Here(d.type) # Null
    <3>1. LocalOutcome(ts, x, d, LocalVar(EnvOf(ts, x), d, TRUE))
      BY LocalVarEnv, Zenon
    <3> QED BY <2>0, <3>1 DEF LocalOutcome
  <2>3. ASSUME ss = <<<<>>>>, after.result = "ok"
        PROVE  \E s : LocalPut(x, d) = <<s>> /\ Describes(s, ds \cup {d})
    <3>1. PICK s : x = <<s>> /\ Describes(s, ds)
      BY <1>1, <1>3, <2>3
    <3>2. LocalPut(<<s>>, d) = <<Put(s, d.name, Variable(Here(d.type)))>>
      BY DEF LocalPut
    <3>3. Describes(Put(s, d.name, Variable(Here(d.type))), ds \cup {d})
      BY <2>2, <2>3, <3>1, DescribesMore
    <3> QED BY <3>1, <3>2, <3>3
  <2> QED BY <2>1, <2>2, <2>3 DEF ParamEnv
<1> QED
  BY <1>2, <1>3

\* The parameters of a function leave the tables as they are, and a scope with their symbols.
LEMMA ParamsScope ==
  ASSUME NEW ts, NEW ss, NEW params, IsStack(params)
  PROVE  ParamEnv(ts, ss, Params(EnvOf(ts, ss), params).env, Range(params),
                  Params(EnvOf(ts, ss), params).result)
<1>1. PICK upTo : ParamsUpTo(upTo, EnvOf(ts, ss), params) /\ Params(EnvOf(ts, ss), params) = upTo[Len(params)]
  BY ParamsSteps, Zenon DEF IsStack
<1>2. Len(params) \in Nat /\ DOMAIN params = 1 .. Len(params)
  BY StackFacts
<1> DEFINE First(n) == {params[i] : i \in 1 .. n}
           Right(n) == ParamEnv(ts, ss, upTo[n].env, First(n), upTo[n].result)
           S == {n \in Nat : n =< Len(params) => Right(n)}
<1>3. 0 \in S
  <2>1. First(0) = {}
    OBVIOUS
  <2>2. upTo[0].env = EnvOf(ts, ss)
    BY <1>1 DEF ParamsUpTo
  <2> QED BY <2>1, <2>2, DescribesNothing DEF ParamEnv
<1>4. ASSUME NEW n \in S
      PROVE  n + 1 \in S
  <2> SUFFICES ASSUME n + 1 =< Len(params)
               PROVE  Right(n + 1)
    OBVIOUS
  <2>1. Right(n) /\ n + 1 \in 1 .. Len(params) /\ (n + 1) - 1 = n
    BY <1>2
  <2>2. upTo[n + 1] = ParamStep(upTo[n], params[n + 1])
    BY <1>1, <2>1 DEF ParamsUpTo
  <2>3. First(n + 1) = First(n) \cup {params[n + 1]}
    <3>1. 1 .. n + 1 = (1 .. n) \cup {n + 1}
      BY <2>1
    <3> QED BY <3>1
  <2> HIDE DEF First
  <2>4. PICK before : before = upTo[n]
    OBVIOUS
  <2>5. PICK d : d = params[n + 1]
    OBVIOUS
  <2>6. ParamEnv(ts, ss, ParamStep(before, d).env, First(n) \cup {d}, ParamStep(before, d).result)
    BY <2>1, <2>4, ParamEnvStep
  <2> QED BY <2>2, <2>3, <2>4, <2>5, <2>6
<1>5. S = Nat
  <2> HIDE DEF Right
  <2>1. S \in SUBSET Nat
    OBVIOUS
  <2> HIDE DEF S
  <2> QED BY <1>3, <1>4, <2>1, Induction
<1>6. First(Len(params)) = Range(params)
  BY <1>2 DEF Range
<1>7. Right(Len(params))
  <2>1. \A n \in S : n =< Len(params) => Right(n)
    OBVIOUS
  <2> HIDE DEF S, Right
  <2> QED BY <1>2, <1>5, <2>1
<1> HIDE DEF First
<1> QED
  BY <1>1, <1>6, <1>7

-----------------------------------------------------------------------------
(* The scopes are kept *)

\* The scopes after a step that stays in the unit.
LEMMA ScopesMatchNext ==
  ASSUME unit' = unit, IsStack(scopes'), Len(scopes') = Level(Len(frames))',
         \A l \in 1 .. Len(scopes') : Describes(scopes'[l], Visible(l)')
  PROVE  ScopesMatch'
<1>1. \A name : Here(name)' = Here(name)
  BY DEF Here
<1>2. ASSUME NEW l \in 1 .. Len(scopes')
      PROVE  Describes(scopes[l], Visible(l))'
  <2>1. Describes(scopes'[l], Visible(l)')
    OBVIOUS
  <2> QED BY <1>1, <2>1 DEF Describes
<1>3. IsStack(scopes)'
  BY DEF IsStack
<1> QED
  BY <1>2, <1>3 DEF ScopesMatch

\* What the frames have declared stays the same as long as they do.
LEMMA SameFrames ==
  ASSUME UNCHANGED <<program, unit, decl, frames>>
  PROVE  /\ Level(Len(frames))' = Level(Len(frames)) /\ At(Len(frames))' = At(Len(frames))
         /\ \A l : VariablesAt(l)' = VariablesAt(l)
<1>1. \A i : Level(i)' = Level(i)
  BY DEF Level
<1>2. \A i : DeclaredIn(frames[i])' = DeclaredIn(frames[i])
  BY DEF DeclaredIn
<1>3. Decl' = Decl
  BY DEF Decl, Decls
<1> QED
  BY <1>1, <1>2, <1>3 DEF VariablesAt, At

\* A statement has been validated, and the innermost scope has what it leaves declared.
LEMMA StmtDoneScoped ==
  ASSUME IInv, Scoped, StmtDone,
         pc' = "ok" => \/ scopes' = scopes /\ Stmt.kind \notin {"var", "if"}
                       \/ scopes' = LocalPut(scopes, Stmt) /\ Stmt.kind = "var" /\ Here(Stmt.type) # Null
  PROVE  Scoped'
<1> SUFFICES ASSUME pc' = "ok", ~reported'
             PROVE  ScopesMatch'
  BY DEF Scoped, StmtDone, InFn, Results
<1>1. ~reported /\ pc = "stmt" /\ InFn /\ UNCHANGED <<program, unit, decl, frames>>
  BY DEF StmtDone, AtStmt, InFn
<1>2. ScopesMatch
  BY <1>1 DEF Scoped
<1>3. /\ Level(Len(frames))' = Level(Len(frames)) /\ At(Len(frames))' = At(Len(frames))
      /\ \A l : VariablesAt(l)' = VariablesAt(l)
  BY <1>1, SameFrames
<1>4. Stmt = At(Len(frames)) /\ Stmt \in Stmts
  BY StmtIsAt DEF IInv, StmtDone
<1>5. \A l : Visible(l) = VariablesAt(l)
  BY <1>1 DEF Visible, JustDeclared
<1>6. \A l : Visible(l)' = VariablesAt(l) \cup IF l = Level(Len(frames)) THEN LeavesDeclared[Stmt] ELSE {}
  BY <1>3, <1>4 DEF Visible, JustDeclared
<1>7. Level(Len(frames)) \in Nat \ {0} /\ IsStack(scopes) /\ Len(scopes) = Level(Len(frames))
  <2>1. Len(frames) \in Nat
    BY DEF IInv, Control
  <2> QED BY <1>2, <2>1, LevelFacts DEF ScopesMatch
<1>8. CASE scopes' = scopes /\ Stmt.kind \notin {"var", "if"}
  <2>1. LeavesDeclared[Stmt] = {}
    BY <1>4, <1>8, LeavingCases
  <2>2. \A l : Visible(l)' = Visible(l)
    BY <1>5, <1>6, <2>1
  <2>3. \A l \in 1 .. Len(scopes') : Describes(scopes'[l], Visible(l)')
    BY <1>2, <1>8, <2>2 DEF ScopesMatch
  <2> QED BY <1>1, <1>3, <1>7, <1>8, <2>3, ScopesMatchNext
<1>9. CASE scopes' = LocalPut(scopes, Stmt) /\ Stmt.kind = "var" /\ Here(Stmt.type) # Null
  <2> PICK n : n = Len(scopes)
    OBVIOUS
  <2>1. LeavesDeclared[Stmt] = {Stmt}
    BY <1>4, <1>9, LeavingCases
  <2> PICK top : top = Put(scopes[n], Stmt.name, Variable(Here(Stmt.type)))
    OBVIOUS
  <2>2. n \in Nat \ {0} /\ n = Level(Len(frames))
    BY <1>7
  <2>3. scopes' = [scopes EXCEPT ![Len(scopes)] = top]
    BY <1>9 DEF LocalPut
  <2>4. IsStack(scopes') /\ Len(scopes') = n /\ scopes'[n] = top /\ \A l \in 1 .. n - 1 : scopes'[l] = scopes[l]
    <3>1. PICK s : s = scopes
      OBVIOUS
    <3>2. IsStack(s) /\ Len(s) > 0
      BY <1>7, <2>2, <3>1
    <3>3. Topped(s, [s EXCEPT ![Len(s)] = top], top)
      BY <3>2, StackMoves, Zenon
    <3>4. Topped(s, scopes', top)
      BY <2>3, <3>1, <3>3
    <3> QED BY <3>1, <3>4 DEF Topped
  <2>5. Describes(top, Visible(n)')
    <3>1. Describes(scopes[n], Visible(n))
      BY <1>2, <2>2 DEF ScopesMatch
    <3>2. Visible(n)' = Visible(n) \cup {Stmt}
      BY <1>5, <1>6, <2>1, <2>2
    <3>3. PICK scope, ds, d : scope = scopes[n] /\ ds = Visible(n) /\ d = Stmt
      OBVIOUS
    <3>4. Describes(Put(scope, d.name, Variable(Here(d.type))), ds \cup {d})
      BY <1>9, <3>1, <3>3, DescribesMore
    <3> QED BY <3>2, <3>3, <3>4
  <2>6. ASSUME NEW l \in 1 .. n - 1
        PROVE  Describes(scopes'[l], Visible(l)')
    <3>0. l # Level(Len(frames))
      BY <2>2
    <3>1. Visible(l)' = Visible(l)
      BY <1>5, <1>6, <3>0
    <3>2. Describes(scopes[l], Visible(l))
      BY <1>2, <2>2 DEF ScopesMatch
    <3> QED BY <2>4, <3>1, <3>2
  <2>7. \A l \in 1 .. Len(scopes') : Describes(scopes'[l], Visible(l)')
    BY <2>2, <2>4, <2>5, <2>6
  <2> QED BY <1>1, <1>3, <2>2, <2>4, <2>7, ScopesMatchNext
<1> QED
  BY <1>8, <1>9

\* What the first k frames have declared on a level.
DeclaredUpTo(k, level) == UNION {DeclaredIn(frames[i]) : i \in {j \in 1 .. k : Level(j) = level}}

\* A frame more.
LEMMA DeclaredOneMore ==
  \A k \in Nat \ {0} : \A level :
    DeclaredUpTo(k, level) = DeclaredUpTo(k - 1, level)
                               \cup (IF Level(k) = level THEN DeclaredIn(frames[k]) ELSE {})
<1> SUFFICES ASSUME NEW k \in Nat \ {0}, NEW level
             PROVE  DeclaredUpTo(k, level) = DeclaredUpTo(k - 1, level)
                               \cup (IF Level(k) = level THEN DeclaredIn(frames[k]) ELSE {})
  OBVIOUS
<1>1. 1 .. k = (1 .. k - 1) \cup {k}
  OBVIOUS
<1>2. {j \in 1 .. k : Level(j) = level} = {j \in 1 .. k - 1 : Level(j) = level}
                                            \cup (IF Level(k) = level THEN {k} ELSE {})
  BY <1>1
<1> QED
  BY <1>2 DEF DeclaredUpTo

\* The variables at a level that is not that of the parameters.
LEMMA VariablesUpTo ==
  ASSUME frames \in Seq(Frames)
  PROVE  \A l : VariablesAt(l) = IF l = 1 THEN Range(Decl.params) ELSE DeclaredUpTo(Len(frames), l)
<1>1. DOMAIN frames = 1 .. Len(frames)
  OBVIOUS
<1> QED
  BY <1>1 DEF VariablesAt, DeclaredUpTo

\* Nothing is declared above the innermost level.
LEMMA NothingAbove ==
  ASSUME NEW k \in Nat, NEW l \in Nat, l > Level(k)
  PROVE  DeclaredUpTo(k, l) = {}
<1>1. \A j \in 1 .. k : Level(j) \in Nat /\ Level(j) =< Level(k) /\ Level(k) \in Nat
  BY LevelFacts
<1>2. {j \in 1 .. k : Level(j) = l} = {}
  BY <1>1
<1> QED
  BY <1>2 DEF DeclaredUpTo

\* What frames have declared stays the same as long as they do.
LEMMA DeclaredSame ==
  ASSUME NEW k \in Nat, \A j \in 1 .. k : frames'[j] = frames[j]
  PROVE  \A l : DeclaredUpTo(k, l)' = DeclaredUpTo(k, l)
<1>1. \A j \in 1 .. k : Level(j)' = Level(j)
  BY LevelSame
<1>2. \A j \in 1 .. k : DeclaredIn(frames[j])' = DeclaredIn(frames[j])
  BY DEF DeclaredIn
<1> QED
  BY <1>1, <1>2 DEF DeclaredUpTo

\* Nothing is declared yet in a frame that has just been opened.
LEMMA DeclaredFirst ==
  ASSUME NEW f \in Frames, f.of = "block" => f.at = 1, f.of = "if" => f.branch = "then"
  PROVE  DeclaredIn(f) = {}
<1>1. 1 .. 1 - 1 = {}
  OBVIOUS
<1>2. f.of \in {"block", "if"}
  BY FrameTypes
<1> QED
  BY <1>1, <1>2 DEF DeclaredIn

\* An open frame more: a scope more for a block, and none for an if statement.
LEMMA PushedScoped ==
  ASSUME IInv, Scoped, AtStmt, NEW f, Pushed(f, FALSE),
         scopes' = IF f.of = "block" THEN Append(scopes, <<>>) ELSE scopes
  PROVE  Scoped'
<1> SUFFICES ASSUME ~reported'
             PROVE  ScopesMatch'
  BY DEF Scoped, Pushed, AtStmt
<1>1. ~reported /\ pc = "stmt" /\ pc' = "stmt" /\ InFn /\ UNCHANGED <<program, unit, decl>> /\ f \in Frames
  BY DEF Pushed, AtStmt, InFn
<1>2. ScopesMatch
  BY <1>1 DEF Scoped
<1> PICK n : n = Len(frames)
  OBVIOUS
<1>3. frames \in Seq(Frames) /\ n \in Nat
  BY DEF IInv, Control, Frames
<1>4. /\ frames' \in Seq(Frames) /\ Len(frames') = n + 1 /\ frames'[n + 1] = f
      /\ \A j \in 1 .. n : frames'[j] = frames[j]
  BY <1>1, <1>3, AppendFacts DEF Pushed
<1>5. /\ Level(n)' = Level(n) /\ Level(n) \in Nat \ {0}
      /\ Level(n + 1)' = IF f.of = "block" THEN Level(n) + 1 ELSE Level(n)
  <2>1. Level(n)' = Level(n)
    BY <1>4, LevelSame
  <2>3. (\A i \in Nat : Level(i + 1) = IF frames[i + 1].of = "block" THEN Level(i) + 1 ELSE Level(i))'
    BY LevelUp, PTL
  <2>4. Level(n + 1)' = IF frames'[n + 1].of = "block" THEN Level(n)' + 1 ELSE Level(n)'
    BY <1>3, <2>3
  <2> QED BY <1>3, <1>4, <2>1, <2>4, LevelFacts
<1>6. \A l : VariablesAt(l)' = VariablesAt(l)
  <2>1. DeclaredIn(f)' = {} /\ DeclaredIn(f) = {}
    BY <1>1, DeclaredFirst DEF Pushed, DeclaredIn
  <2>2. \A l : DeclaredUpTo(n, l)' = DeclaredUpTo(n, l)
    BY <1>3, <1>4, DeclaredSame
  <2>3. (\A k \in Nat \ {0} : \A level :
           DeclaredUpTo(k, level) = DeclaredUpTo(k - 1, level)
                                      \cup (IF Level(k) = level THEN DeclaredIn(frames[k]) ELSE {}))'
    BY DeclaredOneMore, PTL
  <2>4. \A l : DeclaredUpTo(n + 1, l)' = DeclaredUpTo(n, l)'
                                      \cup (IF Level(n + 1)' = l THEN DeclaredIn(frames[n + 1])' ELSE {})
    <3>1. n + 1 \in Nat \ {0} /\ (n + 1) - 1 = n
      BY <1>3
    <3> QED BY <2>3, <3>1
  <2>5. DeclaredIn(frames[n + 1])' = {}
    <3>1. DeclaredIn(frames[n + 1])' = DeclaredIn(frames'[n + 1])
      BY DEF DeclaredIn
    <3> QED BY <1>4, <2>1, <3>1
  <2>6. \A l : DeclaredUpTo(n + 1, l)' = DeclaredUpTo(n, l)
    BY <2>2, <2>4, <2>5
  <2>7. Decl' = Decl
    BY <1>1 DEF Decl, Decls
  <2>8. \A l : VariablesAt(l) = IF l = 1 THEN Range(Decl.params) ELSE DeclaredUpTo(n, l)
    BY <1>3, VariablesUpTo
  <2>9. (frames \in Seq(Frames) => \A l : VariablesAt(l) = IF l = 1 THEN Range(Decl.params) ELSE DeclaredUpTo(Len(frames), l))'
    BY VariablesUpTo, PTL
  <2>10. \A l : VariablesAt(l)' = IF l = 1 THEN Range(Decl.params) ELSE DeclaredUpTo(n + 1, l)'
    BY <1>4, <2>7, <2>9
  <2> QED BY <2>6, <2>8, <2>10
<1>7. \A l : Visible(l) = VariablesAt(l) /\ Visible(l)' = VariablesAt(l)
  BY <1>1, <1>6 DEF Visible, JustDeclared
<1>8. IsStack(scopes) /\ Len(scopes) = Level(n) /\ \A l \in 1 .. Level(n) : Describes(scopes[l], VariablesAt(l))
  BY <1>2, <1>7 DEF ScopesMatch
<1>9. CASE f.of = "if"
  <2>1. scopes' = scopes /\ Level(n + 1)' = Level(n)
    BY <1>5, <1>9
  <2>2. \A l \in 1 .. Len(scopes') : Describes(scopes'[l], Visible(l)')
    BY <1>7, <1>8, <2>1
  <2> QED BY <1>1, <1>4, <1>8, <2>1, <2>2, ScopesMatchNext
<1>10. CASE f.of = "block"
  <2>1. scopes' = Append(scopes, <<>>) /\ Level(n + 1)' = Level(n) + 1
    BY <1>5, <1>10
  <2>2. IsStack(scopes') /\ Len(scopes') = Level(n) + 1 /\ scopes'[Level(n) + 1] = <<>>
        /\ \A l \in 1 .. Level(n) : scopes'[l] = scopes[l]
    BY <1>8, <2>1, StackMoves DEF Grown
  <2>3. VariablesAt(Level(n) + 1) = {}
    BY <1>3, <1>5, VariablesUpTo, NothingAbove
  <2>4. \A l \in 1 .. Level(n) : Describes(scopes'[l], Visible(l)')
    BY <1>7, <1>8, <2>2
  <2>5. ASSUME NEW l, l = Level(n) + 1
        PROVE  Describes(scopes'[l], Visible(l)')
    <3>1. scopes'[l] = <<>> /\ Visible(l)' = {}
      BY <1>7, <2>2, <2>3, <2>5
    <3> QED BY <3>1, DescribesNothing
  <2>6. \A l \in 1 .. Len(scopes') : Describes(scopes'[l], Visible(l)')
    BY <1>5, <2>2, <2>4, <2>5
  <2> QED BY <1>1, <1>4, <2>1, <2>2, <2>6, ScopesMatchNext
<1> QED
  BY <1>1, <1>9, <1>10, FrameTypes

\* What the lemmas about levels say of the next state.
LEMMA NextLevels ==
  /\ \A k \in Nat \ {0} : \A level :
       DeclaredUpTo(k, level)' = DeclaredUpTo(k - 1, level)'
                                   \cup (IF Level(k)' = level THEN DeclaredIn(frames[k])' ELSE {})
  /\ \A n, l : frames' \in Seq(Frames) /\ Len(frames') = n =>
       VariablesAt(l)' = IF l = 1 THEN Range(Decl'.params) ELSE DeclaredUpTo(n, l)'
<1>1. (\A k \in Nat \ {0} : \A level :
         DeclaredUpTo(k, level) = DeclaredUpTo(k - 1, level)
                                    \cup (IF Level(k) = level THEN DeclaredIn(frames[k]) ELSE {}))'
  BY DeclaredOneMore, PTL
<1>2. (frames \in Seq(Frames) =>
         \A l : VariablesAt(l) = IF l = 1 THEN Range(Decl.params) ELSE DeclaredUpTo(Len(frames), l))'
  BY VariablesUpTo, PTL
<1>3. ASSUME NEW n, NEW l, frames' \in Seq(Frames), Len(frames') = n
      PROVE  VariablesAt(l)' = IF l = 1 THEN Range(Decl'.params) ELSE DeclaredUpTo(n, l)'
  BY <1>2, <1>3
<1> QED
  BY <1>1, <1>3

\* The top frame goes on behind the statement that has just been found valid.
LEMMA ReplacedScoped ==
  ASSUME IInv, Scoped, NEW f, Replaced(f), scopes' = scopes
  PROVE  Scoped'
<1> SUFFICES ASSUME ~reported'
             PROVE  ScopesMatch'
  BY DEF Scoped, Replaced
<1>1. /\ ~reported /\ pc \in {"ok", "failed"} /\ pc' = "stmt" /\ InFn
      /\ UNCHANGED <<program, unit, decl>> /\ f \in Frames /\ frames # <<>>
  BY DEF Replaced, InFn
<1>2. ScopesMatch
  BY <1>1 DEF Scoped
<1>3. pc = "ok"
  BY <1>1 DEF IInv, Errors
<1> PICK n : n = Len(frames)
  OBVIOUS
<1>4. frames \in Seq(Frames) /\ n \in Nat \ {0} /\ n - 1 \in Nat /\ n \in 1 .. Len(frames)
  <2>1. frames \in Seq(Frames)
    BY DEF IInv, Control, Frames
  <2> QED BY <1>1, <2>1
<1>5. Top = frames[n] /\ Top \in Frames
  BY <1>1, TopFacts
<1>6. /\ frames' \in Seq(Frames) /\ Len(frames') = n /\ frames'[n] = f
      /\ \A j \in 1 .. n - 1 : frames'[j] = frames[j]
  BY <1>1, <1>4, SetTopFacts DEF Replaced, Below
<1>7. Level(n)' = Level(n) /\ Level(n) \in Nat \ {0} /\ Level(n) >= 2
  <2>1. f.of = Top.of
    BY DEF Replaced
  <2>2. \A j \in 1 .. n : frames'[j].of = frames[j].of
    BY <1>4, <1>5, <1>6, <2>1
  <2> QED BY <1>1, <1>4, <2>2, LevelSame, BodyFirst
<1>8. DeclaredIn(f)' = DeclaredIn(Top) \cup LeavesDeclared[At(n)]
  <2>1. DeclaredIn(f)' = DeclaredIn(f)
    BY DEF DeclaredIn
  <2>2. CASE f.of = "block"
    <3>1. Top.of = "block" /\ f.stmts = Top.stmts /\ f.at = Top.at + 1 /\ Top.at \in Nat \ {0}
      BY <1>5, <2>2, FrameTypes DEF Replaced
    <3>2. At(n) = Top.stmts[Top.at]
      BY <1>4, <1>5, <3>1 DEF At
    <3>3. 1 .. f.at - 1 = (1 .. Top.at - 1) \cup {Top.at}
      BY <3>1
    <3>4. DeclaredIn(f) = UNION {LeavesDeclared[Top.stmts[i]] : i \in 1 .. f.at - 1}
      BY <2>2, <3>1 DEF DeclaredIn
    <3>5. DeclaredIn(Top) = UNION {LeavesDeclared[Top.stmts[i]] : i \in 1 .. Top.at - 1}
      BY <3>1 DEF DeclaredIn
    <3> QED BY <2>1, <3>2, <3>3, <3>4, <3>5
  <2>3. CASE f.of # "block"
    <3>1. Top.of # "block" /\ Top.branch = "then" /\ f.node = Top.node /\ f.branch = "else"
      BY <2>3 DEF Replaced
    <3>2. At(n) = Top.node.then
      BY <1>4, <1>5, <3>1 DEF At
    <3> QED BY <2>1, <2>3, <3>1, <3>2 DEF DeclaredIn
  <2> QED BY <2>2, <2>3
<1>9. \A l : Visible(l)' = Visible(l)
  <2>1. /\ \A l : DeclaredUpTo(n, l)' = DeclaredUpTo(n - 1, l)'
                                        \cup (IF Level(n) = l THEN DeclaredIn(frames[n])' ELSE {})
        /\ \A l : VariablesAt(l)' = IF l = 1 THEN Range(Decl'.params) ELSE DeclaredUpTo(n, l)'
    BY <1>4, <1>6, <1>7, NextLevels
  <2>2. /\ \A l : DeclaredUpTo(n, l) = DeclaredUpTo(n - 1, l)
                                        \cup (IF Level(n) = l THEN DeclaredIn(frames[n]) ELSE {})
        /\ \A l : VariablesAt(l) = IF l = 1 THEN Range(Decl.params) ELSE DeclaredUpTo(n, l)
    BY <1>4, DeclaredOneMore, VariablesUpTo
  <2>3. \A l : DeclaredUpTo(n - 1, l)' = DeclaredUpTo(n - 1, l)
    BY <1>4, <1>6, DeclaredSame
  <2>4. DeclaredIn(frames[n])' = DeclaredIn(frames[n]) \cup LeavesDeclared[At(n)]
    <3>1. DeclaredIn(frames[n])' = DeclaredIn(frames'[n])
      BY DEF DeclaredIn
    <3>2. DeclaredIn(f)' = DeclaredIn(f)
      BY DEF DeclaredIn
    <3> QED BY <1>5, <1>6, <1>8, <3>1, <3>2
  <2>5. Decl' = Decl
    BY <1>1 DEF Decl, Decls
  <2>6. \A l : Visible(l)' = VariablesAt(l)'
    BY <1>1 DEF Visible, JustDeclared
  <2>7. \A l : Visible(l) = VariablesAt(l) \cup IF l = Level(n) THEN LeavesDeclared[At(n)] ELSE {}
    BY <1>3 DEF Visible, JustDeclared
  <2>8. Level(n) # 1
    BY <1>7
  <2> SUFFICES ASSUME NEW l
               PROVE  Visible(l)' = Visible(l)
    OBVIOUS
  <2>9. CASE l = Level(n)
    <3>1. VariablesAt(l)' = VariablesAt(l) \cup LeavesDeclared[At(n)]
      BY <2>1, <2>2, <2>3, <2>4, <2>8, <2>9
    <3> QED BY <2>6, <2>7, <2>9, <3>1
  <2>10. CASE l # Level(n)
    <3>1. VariablesAt(l)' = VariablesAt(l)
      BY <2>1, <2>2, <2>3, <2>5, <2>10
    <3> QED BY <2>6, <2>7, <2>10, <3>1
  <2> QED BY <2>9, <2>10
<1>10. \A l \in 1 .. Len(scopes') : Describes(scopes'[l], Visible(l)')
  BY <1>2, <1>9 DEF ScopesMatch
<1> QED
  BY <1>1, <1>2, <1>6, <1>7, <1>10, ScopesMatchNext DEF ScopesMatch

\* The top frame is left: the scope of a block is, too, and what an if statement has declared is
\* declared in the block around it.
LEMMA PoppedScoped ==
  ASSUME IInv, Scoped, NEW value, Popped(value),
         scopes' = IF Top.of = "block" THEN Front(scopes) ELSE scopes,
         Top.of = "if" /\ pc' = "ok" /\ Top.branch = "then" => Top.node.else = None
  PROVE  Scoped'
<1> SUFFICES ASSUME ~reported'
             PROVE  ScopesMatch'
  BY DEF Scoped, Popped
<1>1. /\ ~reported /\ InFn /\ InFn' /\ UNCHANGED <<program, unit, decl>> /\ frames # <<>>
  BY DEF Popped, InFn
<1>2. ScopesMatch
  BY <1>1 DEF Scoped
<1> PICK n : n = Len(frames)
  OBVIOUS
<1>3. frames \in Seq(Frames) /\ n \in Nat \ {0} /\ n - 1 \in Nat /\ n \in 1 .. Len(frames) /\ n \in DOMAIN frames
  <2>1. frames \in Seq(Frames)
    BY DEF IInv, Control, Frames
  <2> QED BY <1>1, <2>1
<1>4. Top = frames[n] /\ Top \in Frames /\ Opened(n)
  BY <1>1, TopFacts
<1>5. pc' = "ok"
  <2>1. CASE Top.of = "block"
    <3>1. ~Top.err
      BY <1>1, <1>3, <1>4, <2>1 DEF IInv, Errors
    <3> QED BY <2>1, <3>1 DEF Popped
  <2>2. CASE Top.of # "block"
    BY <1>1, <2>2 DEF Popped, IInv, Errors
  <2> QED BY <2>1, <2>2
<1>6. frames' \in Seq(Frames) /\ Len(frames') = n - 1 /\ \A j \in 1 .. n - 1 : frames'[j] = frames[j]
  BY <1>1, <1>3, FrontFacts DEF Popped, Below
<1>7. /\ Level(n - 1)' = Level(n - 1) /\ Level(n - 1) \in Nat \ {0} /\ Level(n) >= 2
      /\ Level(n) = IF Top.of = "block" THEN Level(n - 1) + 1 ELSE Level(n - 1)
  <2>1. Level(n - 1)' = Level(n - 1)
    BY <1>3, <1>6, LevelSame
  <2>2. Level(n) >= 2
    BY <1>1, <1>3, BodyFirst
  <2>3. (n - 1) + 1 = n
    BY <1>3
  <2>4. Level((n - 1) + 1) = IF frames[(n - 1) + 1].of = "block" THEN Level(n - 1) + 1 ELSE Level(n - 1)
    BY <1>3, LevelFacts
  <2> QED BY <1>3, <1>4, <2>1, <2>2, <2>3, <2>4, LevelFacts
<1>8. At(n - 1)' = At(n - 1)
  <2>1. n - 1 = 0 \/ frames'[n - 1] = frames[n - 1]
    BY <1>3, <1>6
  <2> QED BY <1>1, <2>1, FrameSame
<1>9. \A l : VariablesAt(l) = VariablesAt(l)' \cup (IF l = Level(n) THEN DeclaredIn(Top) ELSE {})
  <2>1. \A l : VariablesAt(l)' = IF l = 1 THEN Range(Decl'.params) ELSE DeclaredUpTo(n - 1, l)'
    BY <1>6, NextLevels
  <2>2. /\ \A l : DeclaredUpTo(n, l) = DeclaredUpTo(n - 1, l)
                                        \cup (IF Level(n) = l THEN DeclaredIn(frames[n]) ELSE {})
        /\ \A l : VariablesAt(l) = IF l = 1 THEN Range(Decl.params) ELSE DeclaredUpTo(n, l)
    BY <1>3, DeclaredOneMore, VariablesUpTo
  <2>3. \A l : DeclaredUpTo(n - 1, l)' = DeclaredUpTo(n - 1, l)
    BY <1>3, <1>6, DeclaredSame
  <2>4. Decl' = Decl
    BY <1>1 DEF Decl, Decls
  <2>5. Level(n) # 1
    BY <1>7
  <2> QED BY <1>4, <2>1, <2>2, <2>3, <2>4, <2>5
<1>10. \A l : Visible(l)' = VariablesAt(l)' \cup IF l = Level(n - 1) THEN LeavesDeclared[At(n - 1)] ELSE {}
  BY <1>5, <1>6, <1>7, <1>8 DEF Visible, JustDeclared
<1>11. CASE Top.of = "block"
  <2>1. pc = "stmt" /\ scopes' = Front(scopes)
    BY <1>11 DEF Popped
  <2>2. \A l : Visible(l) = VariablesAt(l)
    BY <2>1 DEF Visible, JustDeclared
  <2>3. LeavesDeclared[At(n - 1)] = {}
    <3>1. At(n - 1).kind = "block" /\ Within(n - 1)
      BY <1>4, <1>11 DEF Opened
    <3>2. At(n - 1) \in Stmts
      BY <1>1, <1>3, <3>1, AtIsStmt DEF IInv
    <3> QED BY <3>1, <3>2, LeavingCases
  <2>4. IsStack(scopes) /\ Len(scopes) = Level(n - 1) + 1 /\ Len(scopes) > 0
    BY <1>2, <1>7, <1>11 DEF ScopesMatch
  <2>5. IsStack(scopes') /\ Len(scopes') = Level(n - 1) /\ \A l \in 1 .. Level(n - 1) : scopes'[l] = scopes[l]
    BY <1>7, <2>1, <2>4, StackMoves DEF Shrunk
  <2>6. ASSUME NEW l \in 1 .. Level(n - 1)
        PROVE  Describes(scopes'[l], Visible(l)')
    <3>1. l # Level(n) /\ l \in 1 .. Len(scopes)
      BY <1>7, <1>11, <2>4
    <3>2. Visible(l)' = Visible(l)
      <4>1. Visible(l) = VariablesAt(l)'
        BY <1>9, <2>2, <3>1
      <4>2. Visible(l)' = VariablesAt(l)'
        BY <1>10, <2>3
      <4> QED BY <4>1, <4>2, Zenon
    <3> QED BY <1>2, <2>5, <3>1, <3>2 DEF ScopesMatch
  <2>7. Len(scopes') = Level(Len(frames))' /\ \A l \in 1 .. Len(scopes') : Describes(scopes'[l], Visible(l)')
    BY <1>6, <1>7, <2>5, <2>6
  <2> QED BY <1>1, <2>5, <2>7, ScopesMatchNext
<1>12. CASE Top.of = "if"
  <2>1. pc = "ok" /\ scopes' = scopes
    BY <1>5, <1>12 DEF Popped
  <2>2. \A l : Visible(l) = VariablesAt(l) \cup IF l = Level(n) THEN LeavesDeclared[At(n)] ELSE {}
    BY <2>1 DEF Visible, JustDeclared
  <2>3. LeavesDeclared[At(n - 1)] = DeclaredIn(Top) \cup LeavesDeclared[At(n)]
    <3>1. Top.node \in Stmts /\ Top.node.kind = "if" /\ Top.branch \in {"then", "else"}
      BY <1>4, <1>12, FrameTypes
    <3>2. At(n - 1) = Top.node /\ (Top.branch = "else" => Top.node.else # None)
      BY <1>4, <1>12 DEF Opened
    <3>3. At(n) = IF Top.branch = "then" THEN Top.node.then ELSE Top.node.else
      BY <1>3, <1>4, <1>12 DEF At
    <3>4. DeclaredIn(Top) = IF Top.branch = "else" THEN LeavesDeclared[Top.node.then] ELSE {}
      BY <1>12 DEF DeclaredIn
    <3>5. LeavesDeclared[Top.node] = LeavesDeclared[Top.node.then] \cup
                                        (IF Top.node.else = None THEN {} ELSE LeavesDeclared[Top.node.else])
      BY <3>1, LeavingCases
    <3> QED BY <1>5, <1>12, <3>1, <3>2, <3>3, <3>4, <3>5
  <2>4. \A l : Visible(l)' = Visible(l)
    BY <1>7, <1>9, <1>10, <1>12, <2>2, <2>3
  <2>5. \A l \in 1 .. Len(scopes') : Describes(scopes'[l], Visible(l)')
    BY <1>2, <2>1, <2>4 DEF ScopesMatch
  <2>6. IsStack(scopes') /\ Len(scopes') = Level(Len(frames))'
    BY <1>2, <1>6, <1>7, <1>12, <2>1 DEF ScopesMatch
  <2> QED BY <1>1, <2>5, <2>6, ScopesMatchNext
<1> QED
  BY <1>4, <1>11, <1>12, FrameTypes

\* Env, by its fields.
LEMMA EnvIs ==
  /\ Env = EnvOf(tables, scopes)
  /\ \A ts, ss : /\ EnterScope(EnvOf(ts, ss)) = EnvOf(ts, Append(ss, <<>>))
                 /\ ExitScope(EnvOf(ts, ss)) = EnvOf(ts, Front(ss))
                 /\ BecomesEnv(EnvOf(ts, ss)) <=> tables' = ts /\ scopes' = ss
BY DEF Env, EnvOf, EnterScope, ExitScope, BecomesEnv

\* A statement that opens no frame changes no table, and the scopes by its own variable only.
LEMMA StmtSteps ==
  ASSUME IInv, Scoped, Empty \/ Expression \/ Var \/ Return \/ IfRefused
  PROVE  Scoped' /\ tables' = tables
<1>1. StmtDone
  BY StmtDoneSteps DEF IInv
<1>2. CASE Empty \/ Expression \/ Return \/ IfRefused
  <2>1. UNCHANGED <<tables, scopes>>
    BY <1>2 DEF Empty, Expression, Return, IfRefused
  <2>2. pc' = "ok" => Stmt.kind \notin {"var", "if"}
    BY <1>2 DEF Empty, Expression, Return, IfRefused, Finish
  <2> QED
    BY <1>1, <2>1, <2>2, StmtDoneScoped
<1>3. CASE Var
  <2>1. PICK env, result :
          /\ BecomesEnv(env) /\ Finish(result)
          /\ env = EnvOf(tables, scopes) \/ env = EnvOf(tables, LocalPut(scopes, Stmt))
          /\ result = "ok" => env = EnvOf(tables, LocalPut(scopes, Stmt)) /\ Here(Stmt.type) # Null
    <3>1. ASSUME NEW seen \in BOOLEAN
          PROVE  LocalOutcome(tables, scopes, Stmt, LocalVar(EnvOf(tables, scopes), Stmt, seen))
      BY LocalVarEnv, Zenon
    <3>2. ASSUME NEW seen \in BOOLEAN, BecomesEnv(LocalVar(Env, Stmt, seen).env),
                 Finish(LocalVar(Env, Stmt, seen).result)
          PROVE  \E after : /\ BecomesEnv(after.env) /\ Finish(after.result)
                            /\ LocalOutcome(tables, scopes, Stmt, after)
      BY <3>1, <3>2, EnvIs
    <3>3. CASE \E after : /\ BecomesEnv(after.env) /\ Finish(after.result)
                          /\ LocalOutcome(tables, scopes, Stmt, after)
      BY <3>3, Zenon DEF LocalOutcome
    <3>4. CASE BecomesEnv(Env) /\ Finish("failed")
      BY <3>4, EnvIs
    <3> QED
      BY <1>3, <3>2, <3>3, <3>4, VarOutcomes, Zenon
  <2>2. tables' = tables
    BY <2>1, EnvIs
  <2>3. pc' = "ok" => scopes' = LocalPut(scopes, Stmt) /\ Here(Stmt.type) # Null
    BY <2>1, EnvIs DEF Finish
  <2>4. Stmt.kind = "var"
    BY <1>3 DEF Var
  <2> QED
    BY <1>1, <2>2, <2>3, <2>4, StmtDoneScoped
<1> QED
  BY <1>2, <1>3

\* The steps that open a frame, go on in it and leave it.
LEMMA FrameSteps ==
  ASSUME IInv, Scoped,
         Block \/ If \/ BlockNext \/ Else \/ EndBlock \/ BranchFailed \/ NoElse \/ EndElse
  PROVE  Scoped' /\ tables' = tables
<1>1. CASE Block \/ If
  <2>1. PICK f : Pushed(f, FALSE) /\ (f.of = "block" => Block) /\ (f.of = "if" => If)
    BY <1>1, OpenSteps
  <2>2. AtStmt
    BY <1>1 DEF Block, If
  <2>3. f.of \in {"block", "if"}
    BY <2>1, FrameTypes DEF Pushed
  <2>4. Block => tables' = tables /\ scopes' = Append(scopes, <<>>)
    BY EnvIs DEF Block
  <2>5. If => tables' = tables /\ scopes' = scopes
    BY DEF If
  <2>6. tables' = tables /\ scopes' = IF f.of = "block" THEN Append(scopes, <<>>) ELSE scopes
    BY <2>1, <2>3, <2>4, <2>5
  <2> QED
    BY <2>1, <2>2, <2>6, PushedScoped
<1>2. CASE BlockNext \/ Else
  <2>1. PICK f : Replaced(f)
    BY <1>2, NextSteps
  <2>2. tables' = tables /\ scopes' = scopes
    BY <1>2 DEF BlockNext, Else
  <2> QED
    BY <2>1, <2>2, ReplacedScoped
<1>3. CASE EndBlock \/ BranchFailed \/ NoElse \/ EndElse
  <2>1. tables' = tables /\ scopes' = IF Top.of = "block" THEN Front(scopes) ELSE scopes
    <3>1. CASE EndBlock
      BY <3>1, EnvIs DEF EndBlock, InBlock
    <3>2. CASE BranchFailed \/ NoElse \/ EndElse
      BY <3>2 DEF BranchFailed, NoElse, EndElse, EndIf, InIf
    <3> QED BY <1>3, <3>1, <3>2
  <2>2. Top.of = "if" /\ pc' = "ok" /\ Top.branch = "then" => Top.node.else = None
    BY <1>3 DEF EndBlock, InBlock, BranchFailed, NoElse, EndElse, EndIf
  <2>3. CASE ElseStuck
    BY <2>1, <2>3 DEF Scoped, ElseStuck, InFn
  <2>4. CASE \E value : Popped(value)
    BY <2>1, <2>2, <2>4, PoppedScoped
  <2> QED
    BY <1>3, <2>1, <2>3, <2>4, CloseSteps
<1> QED
  BY <1>1, <1>2, <1>3

\* Tables after a declaration has got its type.
TableChange(ts) == ts = tables \/ \E name, type : ts = SetTable(tables, name, type)

\* What a function finds when its parameters have been validated.
OpenedEnv(after) ==
  \E ts, x : /\ TableChange(ts) /\ after.env = EnvOf(ts, x)
             /\ scopes = <<>> /\ after.result = "ok" => \E s : x = <<s>> /\ Describes(s, Range(Decl.params))

\* The return type changes a table, and the parameters the scope that has just been entered.
LEMMA FnOpenedEnv ==
  ASSUME IsStack(Decl.params)
  PROVE  OpenedEnv(FnOpened)
<1>1. PICK name, type : FnTyped(Env) = SetType(Env, name, type)
  BY DEF FnTyped
<1>2. PICK ts, ss : ts = SetType(Env, name, type).tables /\ ss = SetType(Env, name, type).scopes
  OBVIOUS
<1>3. SetType(Env, name, type) = EnvOf(ts, ss) /\ TableChange(ts) /\ (scopes = <<>> => ss = <<>>)
  <2>1. /\ SetType(EnvOf(tables, scopes), name, type).tables \in {tables, SetTable(tables, name, type)}
        /\ scopes = <<>> => SetType(EnvOf(tables, scopes), name, type) = EnvOf(SetTable(tables, name, type), <<>>)
        /\ SetType(EnvOf(tables, scopes), name, type)
             = EnvOf(SetType(EnvOf(tables, scopes), name, type).tables, SetType(EnvOf(tables, scopes), name, type).scopes)
    BY SetTypeEnv
  <2>2. SetType(EnvOf(tables, scopes), name, type) = SetType(Env, name, type)
    BY EnvIs
  <2>3. TableChange(ts) /\ SetType(Env, name, type) = EnvOf(ts, ss)
    BY <1>2, <2>1, <2>2 DEF TableChange
  <2>4. scopes = <<>> => ss = <<>>
    BY <1>2, <2>1, <2>2 DEF EnvOf
  <2> QED BY <2>3, <2>4
<1> PICK open : open = Append(ss, <<>>)
  OBVIOUS
<1>4. FnOpened = Params(EnvOf(ts, open), Decl.params)
  BY <1>1, <1>3, EnvIs DEF FnOpened
<1> PICK params : params = Decl.params
  OBVIOUS
<1> PICK after : after = Params(EnvOf(ts, open), params)
  OBVIOUS
<1>5. ParamEnv(ts, open, after.env, Range(params), after.result)
  BY ParamsScope
<1>6. scopes = <<>> => open = <<<<>>>>
  BY <1>3
<1>7. PICK x : /\ after.env = EnvOf(ts, x)
               /\ open = <<<<>>>> /\ after.result = "ok" => \E s : x = <<s>> /\ Describes(s, Range(params))
  BY <1>5, Zenon DEF ParamEnv
<1>8. scopes = <<>> /\ after.result = "ok" => \E s : x = <<s>> /\ Describes(s, Range(params))
  BY <1>6, <1>7
<1>9. OpenedEnv(after)
  BY <1>3, <1>7, <1>8 DEF OpenedEnv
<1> QED
  BY <1>4, <1>9

\* The declarations of a unit, as the parser makes them.
LEMMA DeclIs ==
  ASSUME Control, decl =< Len(Decls)
  PROVE  IsDecl(Decl) /\ (Decl.kind = "fn" => IsStack(Decl.params))
<1>1. program \in Programs /\ unit \in DOMAIN program /\ decl \in 1 .. Len(Decls) + 1
  BY DEF Control
<1>2. Len(Decls) \in Nat /\ DOMAIN Decls = 1 .. Len(Decls) /\ \A i \in DOMAIN Decls : IsDecl(Decls[i])
  BY <1>1, ProgramShape DEF Decls
<1>3. decl \in DOMAIN Decls
  BY <1>1, <1>2
<1>4. IsDecl(Decl)
  BY <1>2, <1>3 DEF Decl
<1> QED
  BY <1>4 DEF IsDecl, IsStack

\* A declaration ends with no scope open, unless an error has been found.
LEMMA DeclSteps ==
  ASSUME IInv, Scoped,
         \/ GlobalVar \/ MisplacedVar \/ BadReturnType \/ BadParams \/ NoBody \/ EndFn \/ EndFnFailed
  PROVE  Scoped' /\ TableChange(tables')
<1>1. DeclDone
  BY DeclDoneSteps DEF IInv
<1>2. pc' \in {"decl", "stuck"} /\ decl =< Len(Decls) /\ (reported => reported')
  BY <1>1 DEF DeclDone, Declared
<1>3. SUFFICES (~reported' /\ pc' = "decl" => scopes' = <<>>) /\ TableChange(tables')
  BY <1>2 DEF Scoped, InFn
<1>4. CASE GlobalVar
  <2>1. SetType(Env, Decl.name, Here(Decl.type)) = EnvOf(SetTable(tables, Decl.name, Here(Decl.type)), <<>>)
    <3>1. scopes = <<>>
      BY <1>4 DEF GlobalVar
    <3> QED BY <3>1, EnvIs, SetTypeEnv
  <2>2. BecomesEnv(SetType(Env, Decl.name, Here(Decl.type)))
    BY <1>4 DEF GlobalVar
  <2> QED
    BY <2>1, <2>2, EnvIs DEF TableChange
<1>5. CASE MisplacedVar
  <2>1. reported
    BY <1>5 DEF MisplacedVar, AtDecl, Scoped
  <2>2. PICK after : after = LocalVar(EnvOf(tables, scopes), Decl, TRUE)
    OBVIOUS
  <2>3. LocalOutcome(tables, scopes, Decl, LocalVar(EnvOf(tables, scopes), Decl, TRUE))
    BY LocalVarEnv, Zenon
  <2>4. BecomesEnv(after.env)
    BY <1>5, <2>2, EnvIs DEF MisplacedVar
  <2>5. after.env = EnvOf(tables, scopes) \/ after.env = EnvOf(tables, LocalPut(scopes, Decl))
    BY <2>2, <2>3 DEF LocalOutcome
  <2> QED
    BY <1>2, <2>1, <2>4, <2>5, EnvIs DEF TableChange
<1>6. CASE BadReturnType
  <2>1. reported'
    BY <1>6 DEF BadReturnType, Declared
  <2>2. SetType(EnvOf(tables, scopes), Decl.name, Here(Decl.ret)).tables
          \in {tables, SetTable(tables, Decl.name, Here(Decl.ret))}
    BY SetTypeEnv
  <2>3. tables' = SetType(Env, Decl.name, Here(Decl.ret)).tables
    BY <1>6 DEF BadReturnType, BecomesEnv, FnTyped
  <2> QED
    BY <2>1, <2>2, <2>3, EnvIs DEF TableChange
<1>7. CASE BadParams \/ NoBody
  <2>1. AtDecl("fn") /\ IsStack(Decl.params)
    BY <1>2, <1>7, DeclIs DEF BadParams, NoBody, AtDecl, IInv
  <2>2. OpenedEnv(FnOpened)
    BY <2>1, FnOpenedEnv
  <2>3. PICK ts, x : /\ TableChange(ts) /\ FnOpened.env = EnvOf(ts, x)
                     /\ scopes = <<>> /\ FnOpened.result = "ok" =>
                          \E s : x = <<s>> /\ Describes(s, Range(Decl.params))
    BY <2>2 DEF OpenedEnv
  <2>4. CASE BadParams
    <3>1. tables' = ts
      BY <2>3, <2>4, EnvIs DEF BadParams
    <3>2. FnOpened.result # "ok" /\ Declared(FnOpened.result)
      BY <2>4 DEF BadParams
    <3>3. FnOpened.result \in Results
      <4>1. \A p \in Range(Decl.params) : p.init \in Exprs \cup {None}
        BY <1>2, <2>1, DeclIs DEF IsDecl, AtDecl, IInv
      <4> QED BY <2>1, <4>1, ParamsResult DEF FnOpened, IsStack
    <3>4. ~reported' => pc' = "stuck"
      BY <3>2, <3>3 DEF Declared, Results
    <3> QED BY <2>3, <3>1, <3>4
  <2>5. CASE NoBody
    <3>1. tables' = ts /\ scopes' = Front(x)
      BY <2>3, <2>5, EnvIs DEF NoBody
    <3>2. ASSUME ~reported'
          PROVE  scopes' = <<>>
      <4>1. scopes = <<>> /\ FnOpened.result = "ok"
        BY <1>2, <2>1, <2>5, <3>2 DEF NoBody, AtDecl, Scoped
      <4>2. PICK s : x = <<s>>
        BY <2>3, <4>1
      <4>3. Front(<<s>>) = <<>>
        BY DEF Front
      <4> QED BY <3>1, <4>2, <4>3
    <3> QED BY <2>3, <3>1, <3>2
  <2> QED
    BY <1>7, <2>4, <2>5
<1>8. CASE EndFn
  <2>1. AfterBody /\ pc = "ok" /\ tables' = tables /\ scopes' = Front(scopes)
    BY <1>8, EnvIs DEF EndFn
  <2>2. ASSUME ~reported'
        PROVE  scopes' = <<>>
    <3>1. ScopesMatch /\ frames = <<>>
      BY <1>2, <2>1, <2>2 DEF Scoped, InFn, AfterBody
    <3>2. Len(frames) = 0 /\ Level(0) = 1
      <4>1. 0 \in Nat
        OBVIOUS
      <4> QED BY <3>1, <4>1, LevelFacts
    <3>3. Len(scopes) = 1 /\ IsStack(scopes)
      BY <3>1, <3>2 DEF ScopesMatch
    <3>4. IsStack(Front(scopes)) /\ Len(Front(scopes)) = 0
      <4>1. PICK s : s = scopes
        OBVIOUS
      <4>2. IsStack(s) /\ Len(s) > 0 /\ Len(s) = 1
        BY <3>3, <4>1
      <4>3. Shrunk(s, Front(s))
        BY <4>2, StackMoves
      <4> QED BY <4>1, <4>2, <4>3 DEF Shrunk
    <3> QED BY <2>1, <3>4 DEF IsStack
  <2> QED
    BY <2>1, <2>2 DEF TableChange
<1>9. CASE EndFnFailed
  BY <1>9 DEF EndFnFailed, Declared, TableChange
<1> QED
  BY <1>4, <1>5, <1>6, <1>7, <1>8, <1>9

\* The body of a function is opened above the scope of its parameters.
LEMMA BodyStep ==
  ASSUME IInv, Scoped, Body
  PROVE  Scoped' /\ TableChange(tables')
<1>1. /\ pc = "decl" /\ decl =< Len(Decls) /\ Decl.kind = "fn" /\ FnOpened.result = "ok" /\ pc' = "stmt"
      /\ BecomesEnv(EnterScope(FnOpened.env)) /\ frames' = <<BlockFrame(Decl.body.stmts)>>
      /\ UNCHANGED <<program, unit, decl, reported>>
  BY DEF Body, AtDecl
<1>2. IsStack(Decl.params)
  BY <1>1, DeclIs DEF IInv
<1>3. PICK ts, x : /\ TableChange(ts) /\ FnOpened.env = EnvOf(ts, x)
                   /\ scopes = <<>> /\ FnOpened.result = "ok" =>
                        \E s : x = <<s>> /\ Describes(s, Range(Decl.params))
  BY <1>2, FnOpenedEnv DEF OpenedEnv
<1>4. tables' = ts /\ scopes' = Append(x, <<>>)
  <2>1. EnterScope(FnOpened.env) = EnvOf(ts, Append(x, <<>>))
    BY <1>3, EnvIs
  <2>2. BecomesEnv(EnvOf(ts, Append(x, <<>>)))
    BY <1>1, <2>1
  <2> QED BY <2>2 DEF BecomesEnv, EnvOf
<1> SUFFICES ASSUME ~reported'
             PROVE  ScopesMatch'
  BY <1>1, <1>3, <1>4 DEF Scoped
<1>5. PICK s : x = <<s>> /\ Describes(s, Range(Decl.params))
  BY <1>1, <1>3 DEF Scoped
<1>6. IsStack(scopes') /\ Len(scopes') = 2 /\ scopes'[1] = s /\ scopes'[2] = <<>>
  <2>1. IsStack(x) /\ Len(x) = 1 /\ x[1] = s
    BY <1>5, OneScope
  <2>2. Grown(x, Append(x, <<>>), <<>>)
    BY <2>1, StackMoves
  <2>3. 1 + 1 = 2 /\ 1 \in 1 .. 1
    OBVIOUS
  <2> QED BY <1>4, <2>1, <2>2, <2>3 DEF Grown
<1> PICK f : f = BlockFrame(Decl.body.stmts)
  OBVIOUS
<1>7. f.of = "block" /\ f.at = 1 /\ frames' = <<f>>
  BY <1>1 DEF BlockFrame
<1>8. frames' \in Seq({f}) /\ Len(frames') = 1 /\ DOMAIN frames' = {1} /\ frames'[1] = f
  BY <1>7
<1>9. Level(1)' = 2
  <2>1. (\A i \in Nat : Level(i + 1) = IF frames[i + 1].of = "block" THEN Level(i) + 1 ELSE Level(i))'
    BY LevelUp, PTL
  <2>2. (Level(0) = 1)'
    <3>1. {j \in 1 .. 0 : frames'[j].of = "block"} = {}
      OBVIOUS
    <3>2. Cardinality({}) = 0
      BY FS_EmptySet
    <3> QED BY <3>1, <3>2 DEF Level
  <2>3. Level(0 + 1)' = IF frames'[0 + 1].of = "block" THEN Level(0)' + 1 ELSE Level(0)'
    <3>1. 0 \in Nat
      OBVIOUS
    <3> QED BY <2>1, <3>1
  <2> QED BY <1>7, <1>8, <2>2, <2>3
<1>10. Visible(1)' = Range(Decl.params) /\ Visible(2)' = {}
  <2>1. JustDeclared' = {} /\ Decl' = Decl
    BY <1>1 DEF JustDeclared, Decl, Decls
  <2>2. \A l : Visible(l)' = VariablesAt(l)'
    BY <2>1 DEF Visible
  <2>3. VariablesAt(1)' = Range(Decl.params)
    BY <2>1 DEF VariablesAt
  <2>4. DeclaredIn(frames[1])' = {}
    <3>1. 1 .. 1 - 1 = {}
      OBVIOUS
    <3>2. frames'[1].of = "block" /\ frames'[1].at = 1
      BY <1>7, <1>8
    <3> QED BY <3>1, <3>2 DEF DeclaredIn
  <2>5. VariablesAt(2)' = {}
    <3>1. VariablesAt(2)' = UNION {DeclaredIn(frames[i])' : i \in {j \in DOMAIN frames' : Level(j)' = 2}}
      BY DEF VariablesAt
    <3>2. {j \in DOMAIN frames' : Level(j)' = 2} = {1}
      BY <1>8, <1>9
    <3> QED BY <2>4, <3>1, <3>2
  <2> QED BY <2>2, <2>3, <2>5
<1>11. ASSUME NEW l \in 1 .. Len(scopes')
       PROVE  Describes(scopes'[l], Visible(l)')
  <2>1. l = 1 \/ l = 2
    BY <1>6
  <2>2. CASE l = 1
    BY <1>5, <1>6, <1>10, <2>2
  <2>3. CASE l = 2
    BY <1>6, <1>10, <2>3, DescribesNothing
  <2> QED BY <2>1, <2>2, <2>3
<1>12. Len(scopes') = Level(Len(frames))'
  BY <1>6, <1>8, <1>9
<1> QED
  BY <1>1, <1>6, <1>11, <1>12, ScopesMatchNext

\* A unit begins with no scope open; where tables are built there is none either.
LEMMA UnitSteps ==
  ASSUME IInv, Scoped, BuildSymtab \/ EndUnit
  PROVE  Scoped'
<1>1. CASE BuildSymtab
  BY <1>1 DEF BuildSymtab, Scoped, InFn
<1>2. CASE EndUnit
  BY <1>2 DEF EndUnit, Scoped, InFn
<1> QED
  BY <1>1, <1>2

\* A step that changes nothing.
LEMMA StutterScoped ==
  ASSUME Scoped, UNCHANGED vars
  PROVE  Scoped'
<1>1. UNCHANGED <<program, unit, decl, frames, scopes, pc, reported>>
  BY DEF vars
<1>2. /\ Level(Len(frames))' = Level(Len(frames)) /\ At(Len(frames))' = At(Len(frames))
      /\ \A l : VariablesAt(l)' = VariablesAt(l)
  BY <1>1, SameFrames
<1>3. \A l : Visible(l)' = Visible(l)
  BY <1>1, <1>2 DEF Visible, JustDeclared
<1>4. ASSUME ScopesMatch
      PROVE  ScopesMatch'
  <2>1. IsStack(scopes') /\ Len(scopes') = Level(Len(frames))'
    BY <1>1, <1>2, <1>4 DEF ScopesMatch
  <2>2. \A l \in 1 .. Len(scopes') : Describes(scopes'[l], Visible(l)')
    BY <1>1, <1>3, <1>4 DEF ScopesMatch
  <2> QED BY <1>1, <2>1, <2>2, ScopesMatchNext
<1> QED
  BY <1>1, <1>4 DEF Scoped, InFn

-----------------------------------------------------------------------------
(* The tables are kept *)

\* Another element in place of one leaves a stack a stack.
LEMMA ExceptStack ==
  ASSUME NEW s, IsStack(s), NEW i, NEW y
  PROVE  IsStack([s EXCEPT ![i] = y]) /\ Len([s EXCEPT ![i] = y]) = Len(s)
<1>1. PICK S : S = Range(s)
  OBVIOUS
<1>2. s \in Seq(S)
  BY <1>1, Zenon DEF IsStack
<1> HIDE <1>1
<1> DEFINE t == [s EXCEPT ![i] = y]
<1>3. t \in Seq(S \cup {y}) /\ Len(t) = Len(s)
  <2>1. Len(s) \in Nat /\ DOMAIN s = 1 .. Len(s) /\ s \in [1 .. Len(s) -> S]
    BY <1>2
  <2>2. t \in [1 .. Len(s) -> S \cup {y}]
    BY <2>1
  <2> HIDE DEF t
  <2> QED BY <2>1, <2>2
<1> HIDE DEF t
<1>4. IsStack(t)
  BY <1>3, SeqIsStack, Zenon
<1> QED
  BY <1>3, <1>4 DEF t

\* When a global name gets its type, no table gets or loses a name.
LEMMA NamedChange ==
  ASSUME Named, program' = program, TableChange(tables'), pc \notin {"symtab", "refused"}, pc' # "symtab"
  PROVE  Named'
<1>1. CASE tables' = tables
  BY <1>1 DEF Named, NamesOf, HasTypes, IsStack
<1>2. CASE \E name, type : tables' = SetTable(tables, name, type)
  <2>1. PICK name, type : tables' = SetTable(tables, name, type)
    BY <1>2
  <2>2. PICK y : tables' = [tables EXCEPT ![unit] = y]
    BY <2>1 DEF SetTable
  <2>3. PICK ts : ts = tables
    OBVIOUS
  <2>4. IsStack(ts)
    BY <2>3 DEF Named
  <2>5. IsStack(tables') /\ Len(tables') = Len(tables)
    BY <2>2, <2>3, <2>4, ExceptStack
  <2> PICK after : after = SetTable(tables, name, type)
    OBVIOUS
  <2>6. /\ DOMAIN after = DOMAIN tables
        /\ \A u \in DOMAIN tables : DOMAIN after[u] = DOMAIN tables[u] /\ (HasTypes(tables[u]) => HasTypes(after[u]))
    <3>1. /\ DOMAIN SetTable(tables, name, type) = DOMAIN tables
          /\ \A u \in DOMAIN tables :
               /\ DOMAIN SetTable(tables, name, type)[u] = DOMAIN tables[u]
               /\ HasTypes(tables[u]) => HasTypes(SetTable(tables, name, type)[u])
      BY SetTableNames, Zenon
    <3> QED BY <3>1
  <2>7. \A u \in DOMAIN after : DOMAIN after[u] = NamesOf(program[u]) /\ HasTypes(after[u])
    <3> SUFFICES ASSUME NEW u \in DOMAIN tables
                 PROVE  DOMAIN after[u] = NamesOf(program[u]) /\ HasTypes(after[u])
      BY <2>6, Zenon
    <3>1. DOMAIN tables[u] = NamesOf(program[u]) /\ HasTypes(tables[u])
      BY DEF Named
    <3>2. DOMAIN after[u] = DOMAIN tables[u] /\ HasTypes(after[u])
      BY <2>6, <3>1, Zenon
    <3> QED BY <3>1, <3>2, Zenon
  <2>8. \A u \in DOMAIN tables' : DOMAIN tables'[u] = NamesOf(program[u]) /\ HasTypes(tables'[u])
    BY <2>1, <2>7
  <2> QED
    BY <2>5, <2>8 DEF Named, NamesOf, HasTypes, IsStack
<1> QED
  BY <1>1, <1>2 DEF TableChange

\* The next table has the names of its unit.
LEMMA NamedBuild ==
  ASSUME IInv, Named, BuildSymtab
  PROVE  Named'
<1> PICK n : n = Len(tables)
  OBVIOUS
<1> PICK ts : ts = tables
  OBVIOUS
<1> PICK table : table = Table(program[n + 1])
  OBVIOUS
<1>1. program \in Programs /\ pc = "symtab" /\ program' = program /\ tables' = Append(ts, table)
  BY DEF BuildSymtab, IInv, Control
<1>2. /\ Len(program) \in Nat /\ DOMAIN program = 1 .. Len(program)
      /\ \A u \in DOMAIN program : Len(program[u]) \in Nat /\ DOMAIN program[u] = 1 .. Len(program[u])
  BY <1>1, ProgramShape
<1>3. IsStack(ts) /\ n = Len(ts) /\ n \in Nat /\ n < Len(program) /\ DOMAIN ts = 1 .. n
  <2>1. IsStack(ts) /\ n = Len(ts) /\ n < Len(program)
    BY <1>1 DEF Named
  <2> QED BY <2>1, StackFacts
<1>4. Grown(ts, tables', table)
  BY <1>1, <1>3, StackMoves
<1>5. DOMAIN table = NamesOf(program[n + 1]) /\ HasTypes(table)
  <2>1. n + 1 \in DOMAIN program
    BY <1>2, <1>3
  <2>2. Len(program[n + 1]) \in Nat /\ DOMAIN program[n + 1] = 1 .. Len(program[n + 1])
    BY <1>2, <2>1
  <2> QED BY <2>2, TableNames
<1>6. IsStack(tables') /\ Len(tables') = n + 1 /\ DOMAIN tables' = 1 .. n + 1
  <2>1. IsStack(tables') /\ Len(tables') = n + 1
    BY <1>3, <1>4 DEF Grown
  <2> QED BY <2>1, StackFacts
<1>7. ASSUME NEW u \in 1 .. n + 1
      PROVE  DOMAIN tables'[u] = NamesOf(program[u]) /\ HasTypes(tables'[u])
  <2>1. CASE u = n + 1
    BY <1>3, <1>4, <1>5, <2>1 DEF Grown
  <2>2. CASE u # n + 1
    <3>1. u \in 1 .. n
      BY <1>3, <2>2
    <3>2. tables'[u] = tables[u] /\ u \in DOMAIN tables
      BY <1>3, <1>4, <3>1 DEF Grown
    <3> QED BY <3>2 DEF Named
  <2> QED BY <2>1, <2>2
<1>8. /\ pc' = "symtab" => n + 1 # Len(program)
      /\ pc' \notin {"symtab", "refused"} => n + 1 = Len(program)
  BY DEF BuildSymtab
<1>9. (IsStack(tables))' /\ \A u \in DOMAIN tables' : (DOMAIN tables[u] = NamesOf(program[u]) /\ HasTypes(tables[u]))'
  BY <1>1, <1>6, <1>7 DEF IsStack, NamesOf, HasTypes
<1>10. /\ Len(tables') =< Len(program') /\ (pc' = "symtab" => Len(tables') < Len(program'))
       /\ (pc' \notin {"symtab", "refused"} => Len(tables') = Len(program'))
  <2>1. PICK m : m = Len(program)
    OBVIOUS
  <2>2. Len(program') = m /\ Len(tables') = n + 1 /\ n \in Nat /\ m \in Nat /\ n < m
    BY <1>1, <1>2, <1>3, <1>6, <2>1
  <2>3. n + 1 =< m /\ (n + 1 # m => n + 1 < m)
    BY <2>2
  <2> QED BY <1>8, <2>1, <2>2, <2>3
<1> QED
  BY <1>9, <1>10 DEF Named

-----------------------------------------------------------------------------
(* What the text says of scopes and tables *)

SInv == Scoped /\ Named

\* A step keeps the tables and scopes what they are.
LEMMA SInvStep ==
  ASSUME IInv, SInv, [Next]_vars
  PROVE  SInv'
<1> USE DEF SInv
<1>1. ASSUME Scoped', TableChange(tables'), program' = program, pc \notin {"symtab", "refused"}, pc' # "symtab"
      PROVE  SInv'
  BY <1>1, NamedChange
<1>2. CASE BuildSymtab
  BY <1>2, UnitSteps, NamedBuild
<1>3. CASE EndUnit
  <2>1. tables' = tables /\ program' = program /\ pc = "decl" /\ pc' # "symtab"
    BY <1>3 DEF EndUnit
  <2> QED BY <1>1, <1>3, <2>1, UnitSteps DEF TableChange
<1>4. CASE GlobalVar \/ MisplacedVar \/ BadReturnType \/ BadParams \/ NoBody \/ EndFn \/ EndFnFailed
  <2>1. DeclDone
    BY <1>4, DeclDoneSteps DEF IInv
  <2>2. program' = program /\ pc \in {"decl", "ok", "failed"} /\ pc' # "symtab"
    BY <2>1 DEF DeclDone, Declared, AfterBody
  <2> QED BY <1>1, <1>4, <2>2, DeclSteps
<1>5. CASE Body
  <2>1. program' = program /\ pc = "decl" /\ pc' # "symtab"
    BY <1>5 DEF Body, AtDecl
  <2> QED BY <1>1, <1>5, <2>1, BodyStep
<1>6. CASE Empty \/ Expression \/ Var \/ Return \/ IfRefused
  <2>1. StmtDone
    BY <1>6, StmtDoneSteps DEF IInv
  <2>2. program' = program /\ pc = "stmt" /\ pc' # "symtab"
    BY <2>1 DEF StmtDone, AtStmt, Results
  <2> QED BY <1>1, <1>6, <2>2, StmtSteps DEF TableChange
<1>7. CASE Block \/ If \/ BlockNext \/ Else \/ EndBlock \/ BranchFailed \/ NoElse \/ EndElse
  <2>1. program' = program /\ pc \in {"stmt", "ok", "failed"} /\ pc' # "symtab"
    BY <1>7 DEF Block, If, BlockNext, Else, EndBlock, BranchFailed, NoElse, EndElse, EndIf, AtStmt
  <2> QED BY <1>1, <1>7, <2>1, FrameSteps DEF TableChange
<1>8. CASE Finished \/ UNCHANGED vars
  <2>1. UNCHANGED vars
    BY <1>8 DEF Finished
  <2>2. Named'
    BY <2>1 DEF vars, Named, NamesOf, HasTypes, IsStack
  <2> QED BY <2>1, <2>2, StutterScoped
<1> QED
  BY <1>2, <1>3, <1>4, <1>5, <1>6, <1>7, <1>8 DEF Next

\* The scopes and tables are those of the text, whatever the programs are.
THEOREM ScopesInductive == Spec => []SInv
<1>1. Init => SInv
  <2> SUFFICES ASSUME Init
               PROVE  SInv
    OBVIOUS
  <2>1. program \in Programs /\ tables = <<>> /\ scopes = <<>> /\ pc = "symtab"
    BY DEF Init
  <2>2. Len(program) \in Nat /\ Len(program) >= 1
    BY <2>1, ProgramShape
  <2>3. IsStack(<<>>)
    BY DEF IsStack
  <2>4. Named
    BY <2>1, <2>2, <2>3 DEF Named
  <2> QED
    BY <2>1, <2>4 DEF SInv, Scoped, InFn
<1>2. IInv /\ SInv /\ [Next]_vars => SInv'
  BY SInvStep
<1> QED
  BY <1>1, <1>2, Inductive, PTL DEF Spec

\* What one activation of a function, a block or an if statement opens it closes, whether it
\* succeeds or not: the scopes and the variables of `returns' are those of the frames that are open.
THEOREM Typing == Spec => []TypeOK
<1>1. IInv /\ SInv => TypeOK
  <2> SUFFICES ASSUME IInv, SInv
               PROVE  TypeOK
    OBVIOUS
  <2>1. DOMAIN frames = 1 .. Len(frames)
    BY DEF IInv, Control
  <2>2. pc \in {"symtab", "decl", "stmt", "ok", "failed", "accepted", "refused", "stuck"}
          /\ unit \in DOMAIN program /\ decl \in 1 .. Len(Decls) + 1
          /\ (pc \in {"symtab", "decl"} => frames = <<>> /\ returns = <<>>)
    BY DEF IInv, Control
  <2>3. \A u \in DOMAIN tables : DOMAIN tables[u] = {d.name : d \in Range(program[u])}
    BY DEF SInv, Named, NamesOf
  <2>4. ASSUME pc \in {"stmt", "ok", "failed"}, ~reported
        PROVE  /\ Len(scopes) = 1 + Cardinality({i \in DOMAIN frames : frames[i].of = "block"})
               /\ Len(returns) = 1 + Cardinality({i \in DOMAIN frames : frames[i].of = "if"})
    <3>1. Len(scopes) = Level(Len(frames))
      BY <2>4 DEF SInv, Scoped, ScopesMatch, InFn
    <3>2. Len(returns) = VarOf(frames, Len(frames))
      BY <2>4 DEF IInv, Truthful, InFn
    <3> QED BY <2>1, <3>1, <3>2 DEF Level, VarOf
  <2>5. pc = "decl" /\ ~err => scopes = <<>>
    BY DEF IInv, Errors, SInv, Scoped
  <2> QED
    BY <2>2, <2>3, <2>4, <2>5 DEF TypeOK
<1> QED
  BY <1>1, Inductive, ScopesInductive, PTL

\* The declaration that find_symbol finds under a name is the one that the text says, however
\* blocks, if statements and the functions before have opened and left their scopes.
THEOREM Binding == Spec => []BindsInnermost
<1>1. IInv /\ SInv => BindsInnermost
  <2> SUFFICES ASSUME IInv, SInv, pc \in {"stmt", "decl"}, ~reported, NEW name
               PROVE  FindSymbol(Env, [unit |-> None, name |-> name]) \in Meaning(name)
    BY DEF BindsInnermost
  <2> DEFINE held == {l \in DOMAIN scopes : name \in DOMAIN scopes[l]}
             said == {l \in 1 .. Level(Len(frames)) : \E d \in VariablesAt(l) : d.name = name}
  <2>1. FindSymbol(Env, [unit |-> None, name |-> name]) =
          IF held # {} THEN scopes[Max(held)][name] ELSE Lookup(tables[unit], name)
    BY DEF FindSymbol, Holders, Innermost, Env
  <2>2. CASE pc = "decl"
    <3>1. frames = <<>> /\ scopes = <<>>
      BY <2>2 DEF IInv, Control, SInv, Scoped
    <3>2. held = {}
      BY <3>1
    <3> HIDE DEF held
    <3> QED BY <2>1, <3>1, <3>2 DEF Meaning
  <2>3. CASE pc = "stmt"
    <3>1. ScopesMatch /\ frames # <<>>
      BY <2>3 DEF IInv, Control, SInv, Scoped, InFn
    <3>2. \A l : Visible(l) = VariablesAt(l)
      BY <2>3 DEF Visible, JustDeclared
    <3> PICK n : n = Len(scopes)
      OBVIOUS
    <3>3. n = Level(Len(frames)) /\ n \in Nat /\ DOMAIN scopes = 1 .. n
      BY <3>1, StackFacts DEF ScopesMatch
    <3>4. \A l \in 1 .. n : Describes(scopes[l], VariablesAt(l))
      BY <3>1, <3>2 DEF ScopesMatch
    <3>5. held = said
      BY <3>3, <3>4 DEF Describes
    <3>6. Meaning(name) = IF said = {} THEN {Lookup(tables[unit], name)}
                          ELSE {Variable(Here(d.type)) : d \in {v \in VariablesAt(Max(said)) : v.name = name}}
      BY <3>1 DEF Meaning
    <3>7. ASSUME held # {}
          PROVE  scopes[Max(held)][name] \in {Variable(Here(d.type)) : d \in {v \in VariablesAt(Max(held)) : v.name = name}}
      <4> PICK m : m = Max(held)
        OBVIOUS
      <4>1. m \in held
        <5>1. held \in SUBSET (1 .. n)
          BY <3>3
        <5> HIDE DEF held
        <5> QED BY <3>3, <3>7, <5>1, Greatest
      <4>2. name \in DOMAIN scopes[m] /\ Describes(scopes[m], VariablesAt(m))
        BY <3>3, <3>4, <4>1
      <4>3. \E d \in VariablesAt(m) : d.name = name /\ scopes[m][name] = Variable(Here(d.type))
        BY <4>2 DEF Describes
      <4> QED BY <4>3
    <3> HIDE DEF held, said
    <3> QED BY <2>1, <3>5, <3>6, <3>7
  <2> QED
    BY <2>2, <2>3
<1> QED
  BY <1>1, Inductive, ScopesInductive, PTL

-----------------------------------------------------------------------------
(* The types that are read are known *)

KnownType(type) == type \notin {None, Unset, Null}

\* A validation that is not stuck; if it is right the type that it has found is known.
Sane(v) == v.result \in {"ok", "failed"} /\ (v.result = "ok" => KnownType(v.type))

\* A type of the type table is known.
LEMMA HereKnown ==
  ASSUME unit \in Nat
  PROVE  \A name : (name \in DOMAIN Size => Here(name) # Null) /\ (Here(name) # Null => KnownType(Here(name)))
<1> SUFFICES ASSUME NEW name
             PROVE  (name \in DOMAIN Size => KnownType(Here(name))) /\ (name \notin DOMAIN Size => Here(name) = Null)
  BY DEF KnownType
<1>1. ASSUME name \in DOMAIN Size
      PROVE  KnownType(Here(name))
  <2>1. Here(name) = [unit |-> unit, name |-> name]
    BY <1>1 DEF Here, TypeIn
  <2> PICK names : names = DOMAIN Size
    OBVIOUS
  <2>2. Here(name) \in [unit : Nat, name : names]
    BY <1>1, <2>1
  <2> QED BY <2>2, NoTypes DEF KnownType
<1>2. name \notin DOMAIN Size => Here(name) = Null
  BY DEF Here, TypeIn
<1> QED
  BY <1>1, <1>2

\* When steps are stuck one of them is, and all before it are right.
LEMMA InOrderStuck ==
  ASSUME NEW steps, DOMAIN steps \subseteq Nat, InOrder(steps) = "stuck"
  PROVE  \E i \in DOMAIN steps : steps[i] = "stuck" /\ \A j \in DOMAIN steps : j < i => steps[j] = "ok"
<1> DEFINE bad == {i \in DOMAIN steps : steps[i] # "ok"}
<1>1. bad # {} /\ InOrder(steps) = steps[Min(bad)]
  BY DEF InOrder
<1>2. Min(bad) \in bad /\ \A i \in bad : Min(bad) =< i
  <2>1. bad \in SUBSET Nat
    OBVIOUS
  <2> HIDE DEF bad
  <2> QED BY <1>1, <2>1, Least
<1> PICK m : m = Min(bad)
  OBVIOUS
<1>3. m \in DOMAIN steps /\ m \in Nat /\ steps[m] = "stuck"
  BY <1>1, <1>2
<1>4. \A j \in DOMAIN steps : j < m => steps[j] = "ok"
  BY <1>2, <1>3
<1> QED
  BY <1>3, <1>4

\* Two steps, of which the second reads what the first has found.
LEMMA StuckTwo ==
  ASSUME NEW a \in Results, NEW b \in Results, a # "stuck", a = "ok" => b # "stuck"
  PROVE  InOrder(<<a, b>>) \in {"ok", "failed"}
<1>1. DOMAIN <<a, b>> = 1 .. 2
  OBVIOUS
<1>2. InOrder(<<a, b>>) # "stuck"
  <2> SUFFICES ASSUME InOrder(<<a, b>>) = "stuck"
               PROVE  FALSE
    OBVIOUS
  <2>1. \E i \in 1 .. 2 : <<a, b>>[i] = "stuck" /\ \A j \in 1 .. 2 : j < i => <<a, b>>[j] = "ok"
    BY <1>1, InOrderStuck
  <2> QED BY <2>1
<1>3. InOrder(<<a, b>>) \in Results
  BY InOrderTwo
<1> QED
  BY <1>2, <1>3 DEF Results

\* Three steps.
LEMMA StuckThree ==
  ASSUME NEW a \in Results, NEW b \in Results, NEW c \in Results,
         a # "stuck", a = "ok" => b # "stuck", a = "ok" /\ b = "ok" => c # "stuck"
  PROVE  InOrder(<<a, b, c>>) \in {"ok", "failed"}
<1>1. DOMAIN <<a, b, c>> = 1 .. 3
  OBVIOUS
<1>2. InOrder(<<a, b, c>>) # "stuck"
  <2> SUFFICES ASSUME InOrder(<<a, b, c>>) = "stuck"
               PROVE  FALSE
    OBVIOUS
  <2>1. \E i \in 1 .. 3 : <<a, b, c>>[i] = "stuck" /\ \A j \in 1 .. 3 : j < i => <<a, b, c>>[j] = "ok"
    BY <1>1, InOrderStuck
  <2> QED BY <2>1
<1>3. InOrder(<<a, b, c>>) \in Results
  BY InOrderThree
<1> QED
  BY <1>2, <1>3 DEF Results

\* Four steps.
LEMMA StuckFour ==
  ASSUME NEW a \in Results, NEW b \in Results, NEW c \in Results, NEW d \in Results,
         a # "stuck", b # "stuck", c # "stuck", b = "ok" /\ c = "ok" => d # "stuck"
  PROVE  /\ InOrder(<<a, b, c, d>>) \in {"ok", "failed"}
         /\ InOrder(<<a, b, c, d>>) = "ok" => b = "ok" /\ c = "ok"
<1>1. DOMAIN <<a, b, c, d>> = 1 .. 4
  OBVIOUS
<1>2. InOrder(<<a, b, c, d>>) # "stuck"
  <2> SUFFICES ASSUME InOrder(<<a, b, c, d>>) = "stuck"
               PROVE  FALSE
    OBVIOUS
  <2>1. \E i \in 1 .. 4 : <<a, b, c, d>>[i] = "stuck" /\ \A j \in 1 .. 4 : j < i => <<a, b, c, d>>[j] = "ok"
    BY <1>1, InOrderStuck
  <2> QED BY <2>1
<1>3. InOrder(<<a, b, c, d>>) \in Results
  BY InOrderFour
<1>4. ASSUME InOrder(<<a, b, c, d>>) = "ok"
      PROVE  b = "ok" /\ c = "ok"
  <2>1. \A i \in 1 .. 4 : <<a, b, c, d>>[i] \in Results
    OBVIOUS
  <2>2. \A i \in 1 .. 4 : <<a, b, c, d>>[i] = "ok"
    BY <1>1, <1>4, <2>1, InOrderResult
  <2>3. <<a, b, c, d>>[2] = "ok" /\ <<a, b, c, d>>[3] = "ok"
    BY <2>2
  <2> QED BY <2>3
<1> QED
  BY <1>2, <1>3, <1>4 DEF Results

\* A conversion between types that are known is not stuck.
LEMMA ConvertKnown ==
  ASSUME NEW from, NEW to, KnownType(from), KnownType(to)
  PROVE  Convert(from, to) \in {"ok", "failed"}
BY DEF Convert, KnownType

\* An argument that is not stuck itself is not stuck in its conversion, whatever the parameter's type is.
LEMMA ArgumentSane ==
  ASSUME unit \in Nat, NEW param, NEW v, Sane(v)
  PROVE  Argument(param, v) \in {"ok", "failed"}
<1> DEFINE known == Require(Here(param) # Null)
           converted == Convert(v.type, Here(param))
<1>1. known \in Results /\ converted \in Results /\ v.result \in Results
  BY SmallResults DEF Sane, Results
<1>2. v.result # "stuck" /\ known # "stuck"
  BY DEF Sane, Require
<1>3. ASSUME v.result = "ok", known = "ok"
      PROVE  converted # "stuck"
  <2>1. Here(param) # Null
    BY <1>3 DEF Require
  <2>2. KnownType(v.type) /\ KnownType(Here(param))
    BY <1>3, <2>1, HereKnown DEF Sane
  <2> QED BY <2>2, ConvertKnown
<1>4. Argument(param, v) = InOrder(<<v.result, known, converted>>)
  BY DEF Argument
<1> HIDE DEF known, converted
<1> QED
  BY <1>1, <1>2, <1>3, <1>4, StuckThree

\* So are all of them together.
LEMMA ArgumentsSane ==
  ASSUME unit \in Nat, NEW params, NEW args \in Seq(Exprs), NEW valid, \A e \in Range(args) : Sane(valid[e])
  PROVE  Arguments(params, args, valid) \in {"ok", "failed"}
<1> DEFINE each == [i \in DOMAIN params \cap DOMAIN args |-> Argument(params[i], valid[args[i]])]
           number == Require(Len(params) = Len(args))
<1>1. DOMAIN each \subseteq Nat /\ \A i \in DOMAIN each : i \in DOMAIN args
  OBVIOUS
<1>2. \A i \in DOMAIN each : each[i] \in {"ok", "failed"}
  <2> SUFFICES ASSUME NEW i \in DOMAIN each
               PROVE  each[i] \in {"ok", "failed"}
    OBVIOUS
  <2>1. args[i] \in Range(args) /\ each[i] = Argument(params[i], valid[args[i]])
    BY DEF Range
  <2> HIDE DEF each
  <2> QED BY <2>1, ArgumentSane
<1>3. InOrder(each) \in Results /\ InOrder(each) # "stuck"
  <2>1. \A i \in DOMAIN each : each[i] \in Results /\ each[i] # "stuck"
    BY <1>2 DEF Results
  <2> HIDE DEF each
  <2> QED BY <1>1, <2>1, InOrderResult, InOrderStuck
<1>4. number \in Results /\ number # "stuck"
  BY DEF Require, Results
<1>5. Arguments(params, args, valid) = InOrder(<<InOrder(each), number>>)
  BY DEF Arguments
<1> HIDE DEF each, number
<1> QED
  BY <1>3, <1>4, <1>5, StuckTwo

\* A symbol that is found has a type that is known.
FindsKnown(env, id) == FindSymbol(env, id) # None => KnownType(FindSymbol(env, id).type)

\* An expression whose parts are not stuck is not, if its name's type is known.
LEMMA ValidateExprSane ==
  ASSUME unit \in Nat, NEW env, NEW e \in Exprs, NEW valid, \A p \in Parts(e) : Sane(valid[p]),
         e.kind \in {"id", "call"} => FindsKnown(env, e)
  PROVE  Sane(ValidateExpr(env, e, valid))
<1>1. \A result, type : result \in {"ok", "failed"} /\ (result = "ok" => KnownType(type)) => Sane(Typed(result, type))
  BY DEF Sane, Typed
<1>2. KnownType(Here("int")) /\ KnownType(Here("bool"))
  <2>1. "int" \in DOMAIN Size /\ "bool" \in DOMAIN Size
    BY DEF Size
  <2> QED BY <2>1, HereKnown
<1>3. CASE e.kind \in {"num", "bool"}
  BY <1>1, <1>2, <1>3 DEF ValidateExpr
<1>4. CASE e.kind = "id"
  <2> PICK sym : sym = FindSymbol(env, e)
    OBVIOUS
  <2>1. ValidateExpr(env, e, valid) = IF sym = None THEN Typed("failed", None) ELSE Typed("ok", sym.type)
    BY <1>4 DEF ValidateExpr
  <2>2. sym # None => KnownType(sym.type)
    BY <1>4 DEF FindsKnown
  <2> QED BY <1>1, <2>1, <2>2
<1>5. CASE e.kind = "call"
  <2> PICK sym : sym = FindSymbol(env, e)
    OBVIOUS
  <2>1. ValidateExpr(env, e, valid) = IF sym = None \/ sym.kind # "fn" THEN Typed("failed", None)
                                      ELSE Typed(Arguments(sym.params, e.args, valid), sym.type)
    BY <1>5 DEF ValidateExpr
  <2>2. sym # None => KnownType(sym.type)
    BY <1>5 DEF FindsKnown
  <2>3. e.args \in Seq(Exprs)
    BY <1>5, ValidatorAssumption DEF AreTrees
  <2>4. \A a \in Range(e.args) : Sane(valid[a])
    BY <1>5 DEF Parts
  <2>5. Arguments(sym.params, e.args, valid) \in {"ok", "failed"}
    BY <2>3, <2>4, ArgumentsSane
  <2> QED BY <1>1, <2>1, <2>2, <2>5
<1>6. CASE e.kind = "binary"
  <2> PICK left, right : left = valid[e.left] /\ right = valid[e.right]
    OBVIOUS
  <2> PICK named : named = Require(e.op = "assign" => e.left.kind = "id")
    OBVIOUS
  <2> PICK converted : converted = Convert(left.type, right.type)
    OBVIOUS
  <2> PICK result : result = InOrder(<<named, left.result, right.result, converted>>)
    OBVIOUS
  <2>1. Sane(left) /\ Sane(right)
    BY <1>6 DEF Parts
  <2>2. named \in Results /\ converted \in Results /\ left.result \in Results /\ right.result \in Results
    BY <2>1, SmallResults DEF Sane, Results
  <2>3. named # "stuck" /\ left.result # "stuck" /\ right.result # "stuck"
    BY <2>1 DEF Sane, Require
  <2>4. left.result = "ok" /\ right.result = "ok" => converted # "stuck"
    BY <2>1, ConvertKnown DEF Sane
  <2>5. result \in {"ok", "failed"} /\ (result = "ok" => left.result = "ok" /\ right.result = "ok")
    BY <2>2, <2>3, <2>4, StuckFour
  <2>6. ASSUME result = "ok"
        PROVE  KnownType(BinaryType(e, left.type, right.type))
    <3>1. KnownType(left.type) /\ KnownType(right.type)
      BY <2>1, <2>5, <2>6 DEF Sane
    <3>2. e.op \in {"bool", "assign", "arith"}
      BY <1>6, ValidatorAssumption DEF AreTrees
    <3> QED BY <1>2, <3>1, <3>2 DEF BinaryType
  <2>7. ValidateExpr(env, e, valid)
          = Typed(result, IF result = "ok" THEN BinaryType(e, left.type, right.type) ELSE None)
    BY <1>6 DEF ValidateExpr
  <2> QED BY <1>1, <2>5, <2>6, <2>7
<1>7. e.kind \in {"num", "bool", "id", "call", "binary"}
  BY ValidatorAssumption DEF AreTrees
<1> QED
  BY <1>3, <1>4, <1>5, <1>6, <1>7

\* The names of an expression, when f says which those of its parts are.
Naming(e, f) ==
  CASE e.kind = "id"     -> {<<e.unit, e.name>>}
    [] e.kind = "call"   -> {<<e.unit, e.name>>} \cup UNION {f[a] : a \in Range(e.args)}
    [] e.kind = "binary" -> f[e.left] \cup f[e.right]
    [] OTHER             -> {}

UsesOf == {<<e.unit, e.name>> : e \in Exprs}

\* The names an expression mentions are defined for every expression.
LEMMA NamesInExprDefined ==
  \A e \in Exprs : NamesInExpr[e] = Naming(e, NamesInExpr)
<1> DEFINE R == SUBSET UsesOf
           Step == [e \in Exprs |-> [f \in [Exprs -> R] |-> Naming(e, f)]]
           depth == [e \in Exprs |-> Depth[e]]
<1>1. depth \in [Exprs -> Nat]
  BY ValidatorAssumption DEF AreTrees
<1>2. \A e \in Exprs : \A p \in Parts(e) : p \in Exprs /\ depth[p] < depth[e]
  BY ExprParts
<1> HIDE DEF depth
<1>3. Step \in [Exprs -> [[Exprs -> R] -> R]]
  <2> SUFFICES ASSUME NEW e \in Exprs, NEW f \in [Exprs -> R]
               PROVE  Naming(e, f) \in R
    OBVIOUS
  <2>1. <<e.unit, e.name>> \in UsesOf
    BY DEF UsesOf
  <2>2. \A p \in Parts(e) : f[p] \in SUBSET UsesOf
    BY <1>2
  <2>3. e.kind = "call" => \A a \in Range(e.args) : f[a] \in SUBSET UsesOf
    BY <2>2 DEF Parts
  <2>4. e.kind = "binary" => f[e.left] \in SUBSET UsesOf /\ f[e.right] \in SUBSET UsesOf
    BY <2>2 DEF Parts
  <2> QED
    BY <2>1, <2>3, <2>4 DEF Naming
<1>4. LooksDeeper(Exprs, R, depth, Step)
  <2> SUFFICES ASSUME NEW e \in Exprs, NEW f \in [Exprs -> R], NEW g \in [Exprs -> R],
                      \A p \in Exprs : depth[p] < depth[e] => f[p] = g[p]
               PROVE  Naming(e, f) = Naming(e, g)
    BY DEF LooksDeeper
  <2>1. \A p \in Parts(e) : f[p] = g[p]
    BY <1>2
  <2>2. CASE e.kind = "call"
    <3>1. \A a \in Range(e.args) : f[a] = g[a]
      BY <2>1, <2>2 DEF Parts
    <3>2. {f[a] : a \in Range(e.args)} = {g[a] : a \in Range(e.args)}
      BY <3>1
    <3> QED BY <2>2, <3>2 DEF Naming
  <2>3. CASE e.kind = "binary"
    BY <2>1, <2>3 DEF Naming, Parts
  <2>4. CASE e.kind \notin {"call", "binary"}
    BY <2>4 DEF Naming
  <2> QED
    BY <2>2, <2>3, <2>4
<1>5. Solvable(Exprs, R, Step)
  <2>1. R # {}
    OBVIOUS
  <2> HIDE DEF Step, R
  <2> QED BY <1>1, <1>3, <1>4, <2>1, TreeRecursion, Zenon
<1>6. PICK f \in [Exprs -> R] : \A e \in Exprs : f[e] = Naming(e, f)
  BY <1>5 DEF Solvable
<1>7. f = [e \in Exprs |-> Naming(e, f)]
  BY <1>6
<1>8. NamesInExpr = [e \in Exprs |-> Naming(e, NamesInExpr)]
  BY <1>7 DEF NamesInExpr, Naming
<1>9. \A e \in Exprs : NamesInExpr[e] = Naming(e, NamesInExpr)
  BY <1>8
<1> QED
  BY <1>9

\* An expression mentions its own name and those of its parts.
LEMMA NamesOfExpr ==
  ASSUME NEW e \in Exprs
  PROVE  /\ e.kind \in {"id", "call"} => <<e.unit, e.name>> \in NamesInExpr[e]
         /\ \A p \in Parts(e) : NamesInExpr[p] \subseteq NamesInExpr[e]
<1>1. NamesInExpr[e] = Naming(e, NamesInExpr)
  BY NamesInExprDefined
<1>2. CASE e.kind = "id"
  BY <1>1, <1>2 DEF Naming, Parts
<1>3. CASE e.kind = "call"
  <2>1. NamesInExpr[e] = {<<e.unit, e.name>>} \cup UNION {NamesInExpr[a] : a \in Range(e.args)}
    BY <1>1, <1>3 DEF Naming
  <2>2. Parts(e) = Range(e.args)
    BY <1>3 DEF Parts
  <2> QED BY <2>1, <2>2
<1>4. CASE e.kind = "binary"
  <2>1. NamesInExpr[e] = NamesInExpr[e.left] \cup NamesInExpr[e.right]
    BY <1>1, <1>4 DEF Naming
  <2>2. Parts(e) = {e.left, e.right}
    BY <1>4 DEF Parts
  <2> QED BY <1>4, <2>1, <2>2
<1>5. CASE e.kind \notin {"id", "call", "binary"}
  <2>1. e.kind \in {"num", "bool"}
    BY <1>5, ValidatorAssumption DEF AreTrees
  <2>2. Parts(e) = {}
    BY <2>1 DEF Parts
  <2> QED BY <2>1, <2>2
<1> QED
  BY <1>2, <1>3, <1>4, <1>5

\* The names in uses stand for symbols whose types are known, or for none.
UsesKnown(env, uses) == \A id : <<id.unit, id.name>> \in uses => FindsKnown(env, id)

\* An expression is validated without reading a type that is not there, if its names have types.
LEMMA ExprSane ==
  ASSUME unit \in Nat, NEW env, NEW e \in Exprs, UsesKnown(env, NamesInExpr[e])
  PROVE  Sane(Validate(env)[e])
<1> DEFINE depth == [x \in Exprs |-> Depth[x]]
           T == {x \in Exprs : UsesKnown(env, NamesInExpr[x]) /\ ~Sane(Validate(env)[x])}
<1> SUFFICES ASSUME T # {}
             PROVE  FALSE
  OBVIOUS
<1>1. depth \in [Exprs -> Nat]
  BY ValidatorAssumption DEF AreTrees
<1>2. PICK x \in T : \A y \in T : depth[x] =< depth[y]
  <2>1. T \in SUBSET Exprs
    OBVIOUS
  <2> HIDE DEF T, depth
  <2> QED BY <1>1, <2>1, Shallowest
<1>3. x \in Exprs /\ UsesKnown(env, NamesInExpr[x]) /\ ~Sane(Validate(env)[x])
  BY <1>2
<1> PICK valid : valid = Validate(env)
  OBVIOUS
<1>4. ASSUME NEW p \in Parts(x)
      PROVE  Sane(valid[p])
  <2>1. p \in Exprs /\ Depth[p] < Depth[x]
    BY <1>3, ExprParts
  <2>2. depth[p] < depth[x] /\ depth[p] \in Nat /\ depth[x] \in Nat
    BY <1>1, <1>3, <2>1
  <2>3. p \notin T
    <3> HIDE DEF T, depth
    <3> QED BY <1>2, <2>2
  <2>4. UsesKnown(env, NamesInExpr[p])
    <3>1. NamesInExpr[p] \subseteq NamesInExpr[x]
      BY <1>3, NamesOfExpr
    <3> QED BY <1>3, <3>1 DEF UsesKnown
  <2> QED BY <2>1, <2>3, <2>4
<1>5. x.kind \in {"id", "call"} => FindsKnown(env, x)
  BY <1>3, NamesOfExpr DEF UsesKnown
<1>6. Sane(ValidateExpr(env, x, valid))
  BY <1>3, <1>4, <1>5, ValidateExprSane
<1>7. Validate(env)[x] = ValidateExpr(env, x, Validate(env))
  BY <1>3, Validates
<1> HIDE DEF T
<1> QED
  BY <1>3, <1>6, <1>7

\* The names of a statement, when f says which those of its parts are.
NamingStmt(s, f) ==
  CASE s.kind \in {"expr", "return"} -> NamesIn(s.expr)
    [] s.kind = "var"   -> NamesIn(s.init)
    [] s.kind = "block" -> UNION {f[t] : t \in Range(s.stmts)}
    [] s.kind = "if"    -> NamesIn(s.cond) \cup f[s.then] \cup IF s.else = None THEN {} ELSE f[s.else]
    [] OTHER            -> {}

\* The names a statement mentions are defined for every statement.
LEMMA NamesInStmtDefined ==
  \A s \in Stmts : NamesInStmt[s] = NamingStmt(s, NamesInStmt)
<1> DEFINE All == UNION {NamesInExpr[e] : e \in Exprs}
           R == SUBSET All
           Step == [s \in Stmts |-> [f \in [Stmts -> R] |-> NamingStmt(s, f)]]
           depth == [s \in Stmts |-> Depth[s]]
<1>1. depth \in [Stmts -> Nat]
  BY ValidatorAssumption DEF AreTrees
<1>2. \A s \in Stmts : \A p \in Parts(s) : p \in Stmts /\ depth[p] < depth[s]
  BY StmtParts
<1> HIDE DEF depth
<1>3. Step \in [Stmts -> [[Stmts -> R] -> R]]
  <2> SUFFICES ASSUME NEW s \in Stmts, NEW f \in [Stmts -> R]
               PROVE  NamingStmt(s, f) \in R
    OBVIOUS
  <2>1. \A e \in Exprs \cup {None} : NamesIn(e) \in R
    BY DEF NamesIn
  <2>2. /\ s.kind \in {"expr", "return"} => s.expr \in Exprs \cup {None}
        /\ s.kind = "var" => s.init \in Exprs \cup {None}
        /\ s.kind = "if" => s.cond \in Exprs
    BY ValidatorAssumption DEF AreTrees
  <2>3. \A p \in Parts(s) : f[p] \in R
    BY <1>2
  <2> HIDE DEF R
  <2>4. CASE s.kind \in {"expr", "return", "var"}
    BY <2>1, <2>2, <2>4 DEF NamingStmt
  <2>5. CASE s.kind = "block"
    <3>1. \A t \in Range(s.stmts) : f[t] \in R
      BY <2>3, <2>5 DEF Parts
    <3>2. NamingStmt(s, f) = UNION {f[t] : t \in Range(s.stmts)}
      BY <2>5 DEF NamingStmt
    <3> QED BY <3>1, <3>2 DEF R
  <2>6. CASE s.kind = "if"
    <3>0. s.then \in Stmts /\ None \notin Stmts
      BY <2>6, ValidatorAssumption DEF AreTrees
    <3>1. f[s.then] \in R /\ (s.else # None => f[s.else] \in R)
      BY <2>3, <2>6, <3>0 DEF Parts
    <3>2. NamesIn(s.cond) \in R
      BY <2>1, <2>2, <2>6
    <3>3. NamingStmt(s, f) = NamesIn(s.cond) \cup f[s.then] \cup IF s.else = None THEN {} ELSE f[s.else]
      BY <2>6 DEF NamingStmt
    <3> QED BY <3>1, <3>2, <3>3 DEF R
  <2>7. CASE s.kind = "empty"
    BY <2>7 DEF NamingStmt, R
  <2> QED
    BY <2>4, <2>5, <2>6, <2>7, ValidatorAssumption DEF AreTrees
<1>4. LooksDeeper(Stmts, R, depth, Step)
  <2> SUFFICES ASSUME NEW s \in Stmts, NEW f \in [Stmts -> R], NEW g \in [Stmts -> R],
                      \A p \in Stmts : depth[p] < depth[s] => f[p] = g[p]
               PROVE  NamingStmt(s, f) = NamingStmt(s, g)
    BY DEF LooksDeeper
  <2>1. \A p \in Parts(s) : f[p] = g[p]
    BY <1>2
  <2>2. CASE s.kind = "block"
    <3>1. \A t \in Range(s.stmts) : f[t] = g[t]
      BY <2>1, <2>2 DEF Parts
    <3>2. {f[t] : t \in Range(s.stmts)} = {g[t] : t \in Range(s.stmts)}
      BY <3>1
    <3> QED BY <2>2, <3>2 DEF NamingStmt
  <2>3. CASE s.kind = "if"
    <3>0. s.then \in Stmts /\ None \notin Stmts
      BY <2>3, ValidatorAssumption DEF AreTrees
    <3>1. f[s.then] = g[s.then] /\ (s.else # None => f[s.else] = g[s.else])
      BY <2>1, <2>3, <3>0 DEF Parts
    <3> QED BY <2>3, <3>1 DEF NamingStmt
  <2>4. CASE s.kind \notin {"block", "if"}
    BY <2>4 DEF NamingStmt
  <2> QED
    BY <2>2, <2>3, <2>4
<1>5. Solvable(Stmts, R, Step)
  <2>1. R # {}
    OBVIOUS
  <2> HIDE DEF Step, R
  <2> QED BY <1>1, <1>3, <1>4, <2>1, TreeRecursion, Zenon
<1>6. PICK f \in [Stmts -> R] : \A s \in Stmts : f[s] = NamingStmt(s, f)
  BY <1>5 DEF Solvable
<1>7. f = [s \in Stmts |-> NamingStmt(s, f)]
  BY <1>6
<1>8. NamesInStmt = [s \in Stmts |-> NamingStmt(s, NamesInStmt)]
  BY <1>7 DEF NamesInStmt, NamingStmt
<1> QED
  BY <1>8

\* Every symbol in the scopes has a type that is known.
ScopesKnown(ss) == \A l \in DOMAIN ss : \A name \in DOMAIN ss[l] : KnownType(ss[l][name].type)

\* So have the symbols that uses stand for in the tables of their units.
TablesKnown(ts, uses) ==
  \A use \in uses :
    LET v == IF use[1] = None THEN unit ELSE use[1] IN
    v \in DOMAIN ts /\ use[2] \in DOMAIN ts[v] => KnownType(ts[v][use[2]].type)

\* What the text describes is known.
LEMMA DescribedKnown ==
  ASSUME unit \in Nat, NEW scope, NEW ds, Describes(scope, ds)
  PROVE  \A name \in DOMAIN scope : KnownType(scope[name].type)
<1> SUFFICES ASSUME NEW name \in DOMAIN scope
             PROVE  KnownType(scope[name].type)
  OBVIOUS
<1>1. PICK d \in ds : scope[name] = Variable(Here(d.type))
  BY DEF Describes
<1>2. scope[name].type = Here(d.type) /\ Here(d.type) # Null
  BY <1>1 DEF Variable, Describes
<1> QED
  BY <1>2, HereKnown

\* Where scopes and tables are known, so is what is found in them.
LEMMA EnvKnown ==
  ASSUME NEW ts, NEW ss, NEW uses, IsStack(ss), ScopesKnown(ss), TablesKnown(ts, uses), unit \in DOMAIN ts
  PROVE  UsesKnown(EnvOf(ts, ss), uses)
<1> SUFFICES ASSUME NEW id, <<id.unit, id.name>> \in uses,
                    FindSymbol(EnvOf(ts, ss), id) # None
             PROVE  KnownType(FindSymbol(EnvOf(ts, ss), id).type)
  BY DEF UsesKnown, FindsKnown
<1> DEFINE held == {i \in DOMAIN ss : id.name \in DOMAIN ss[i]}
<1>1. FindSymbol(EnvOf(ts, ss), id) =
        IF id.unit # None THEN IF id.unit \in DOMAIN ts THEN Lookup(ts[id.unit], id.name) ELSE None
        ELSE IF held # {} THEN ss[Max(held)][id.name] ELSE Lookup(ts[unit], id.name)
  BY DEF FindSymbol, Holders, Innermost, EnvOf
<1>2. LET v == IF id.unit = None THEN unit ELSE id.unit
      IN  v \in DOMAIN ts /\ id.name \in DOMAIN ts[v] => KnownType(ts[v][id.name].type)
  BY DEF TablesKnown
<1>3. CASE id.unit # None
  BY <1>1, <1>2, <1>3 DEF Lookup
<1>4. CASE id.unit = None /\ held # {}
  <2> PICK n : n = Len(ss)
    OBVIOUS
  <2>1. n \in Nat /\ DOMAIN ss = 1 .. n
    BY StackFacts
  <2>2. Max(held) \in held
    <3>1. held \in SUBSET (1 .. n)
      BY <2>1
    <3> HIDE DEF held
    <3> QED BY <1>4, <2>1, <3>1, Greatest
  <2> PICK m : m = Max(held)
    OBVIOUS
  <2>3. m \in DOMAIN ss /\ id.name \in DOMAIN ss[m]
    BY <2>2
  <2> HIDE DEF held
  <2> QED BY <1>1, <1>4, <2>3 DEF ScopesKnown
<1>5. CASE id.unit = None /\ held = {}
  BY <1>1, <1>2, <1>5 DEF Lookup
<1> QED
  BY <1>3, <1>4, <1>5

\* A local variable of a type that is known.
LEMMA LocalPutKnown ==
  ASSUME unit \in Nat, NEW ss, NEW d, IsStack(ss), Len(ss) > 0, ScopesKnown(ss), Here(d.type) # Null
  PROVE  IsStack(LocalPut(ss, d)) /\ ScopesKnown(LocalPut(ss, d))
<1> PICK n : n = Len(ss)
  OBVIOUS
<1> PICK sym : sym = Variable(Here(d.type))
  OBVIOUS
<1> PICK top : top = Put(ss[n], d.name, sym)
  OBVIOUS
<1> PICK new : new = LocalPut(ss, d)
  OBVIOUS
<1>1. n \in Nat /\ n > 0 /\ DOMAIN ss = 1 .. n
  BY StackFacts
<1>2. new = [ss EXCEPT ![Len(ss)] = top]
  BY DEF LocalPut
<1>3. Topped(ss, new, top)
  <2>1. Topped(ss, [ss EXCEPT ![Len(ss)] = top], top)
    BY StackMoves, Zenon
  <2> QED BY <1>2, <2>1
<1>4. IsStack(new) /\ DOMAIN new = 1 .. n /\ new[n] = top /\ \A l \in 1 .. n - 1 : new[l] = ss[l]
  <2>1. IsStack(new) /\ Len(new) = n
    BY <1>3 DEF Topped
  <2> QED BY <1>3, <2>1, StackFacts DEF Topped
<1>5. \A name \in DOMAIN top : KnownType(top[name].type)
  <2>1. KnownType(sym.type)
    BY HereKnown DEF Variable
  <2>2. \A name \in DOMAIN ss[n] : KnownType(ss[n][name].type)
    BY <1>1 DEF ScopesKnown
  <2> QED BY <2>1, <2>2 DEF Put
<1>6. ASSUME NEW l \in 1 .. n
      PROVE  \A name \in DOMAIN new[l] : KnownType(new[l][name].type)
  <2>1. CASE l = n
    BY <1>4, <1>5, <2>1
  <2>2. CASE l # n
    <3>1. l \in 1 .. n - 1 /\ l \in DOMAIN ss
      BY <1>1, <2>2
    <3> QED BY <1>4, <3>1 DEF ScopesKnown
  <2> QED BY <2>1, <2>2
<1> QED
  BY <1>4, <1>6 DEF ScopesKnown

\* The initialiser of a variable, where its names are known.
LEMMA ChecksSane ==
  ASSUME unit \in Nat, NEW env, NEW d, d.init \in Exprs \cup {None}, UsesKnown(env, NamesIn(d.init))
  PROVE  VarChecks(env, d, Here(d.type)) \in {"ok", "failed"}
<1> PICK type : type = Here(d.type)
  OBVIOUS
<1>1. CASE type = Null \/ Bits(type) = 0
  BY <1>1 DEF VarChecks
<1>2. CASE type # Null /\ Bits(type) # 0 /\ d.init = None
  BY <1>2 DEF VarChecks
<1>3. CASE type # Null /\ Bits(type) # 0 /\ d.init # None
  <2> PICK init : init = Validate(env)[d.init]
    OBVIOUS
  <2>1. Sane(init)
    <3>1. d.init \in Exprs /\ UsesKnown(env, NamesInExpr[d.init])
      BY <1>3 DEF NamesIn
    <3> QED BY <3>1, ExprSane
  <2>2. KnownType(type)
    BY <1>3, HereKnown
  <2>3. VarChecks(env, d, type) = InOrder(<<init.result, Convert(init.type, type)>>)
    BY <1>3 DEF VarChecks
  <2> PICK converted : converted = Convert(init.type, type)
    OBVIOUS
  <2>4. init.result \in Results /\ converted \in Results /\ init.result # "stuck"
          /\ (init.result = "ok" => converted # "stuck")
    BY <2>1, <2>2, SmallResults, ConvertKnown DEF Sane, Results
  <2> QED BY <2>3, <2>4, StuckTwo
<1> QED
  BY <1>1, <1>2, <1>3

\* A local variable, where the tables and the scopes around it are known.
LEMMA LocalVarSane ==
  ASSUME unit \in Nat, NEW ts, NEW ss, NEW d, NEW seen, d.init \in Exprs \cup {None},
         IsStack(ss), Len(ss) > 0, ScopesKnown(ss), TablesKnown(ts, NamesIn(d.init)), unit \in DOMAIN ts
  PROVE  LocalVar(EnvOf(ts, ss), d, seen).result \in {"ok", "failed"}
<1> PICK new : new = EnvOf(ts, LocalPut(ss, d))
  OBVIOUS
<1>1. LocalVar(EnvOf(ts, ss), d, seen).result \in {"failed", VarChecks(new, d, Here(d.type))}
  <2> DEFINE env == EnvOf(ts, ss)
             next == [env EXCEPT !.scopes[Len(env.scopes)] = Put(@, d.name, Variable(Here(d.type)))]
  <2>1. next = new
    BY DEF EnvOf, LocalPut
  <2> HIDE DEF env, next
  <2>2. \/ LocalVar(env, d, seen) = [env |-> env, result |-> "failed"]
        \/ LocalVar(env, d, seen) = [env |-> next, result |-> VarChecks(next, d, Here(d.type))]
    BY Zenon DEF LocalVar, next
  <2>3. LocalVar(env, d, seen).result \in {"failed", VarChecks(next, d, Here(d.type))}
    BY <2>2
  <2> QED BY <2>1, <2>3 DEF env
<1>2. CASE Here(d.type) = Null
  BY <1>1, <1>2 DEF VarChecks
<1>3. CASE Here(d.type) # Null
  <2>1. PICK x : x = LocalPut(ss, d)
    OBVIOUS
  <2>2. IsStack(x) /\ ScopesKnown(x)
    BY <1>3, <2>1, LocalPutKnown
  <2>3. UsesKnown(EnvOf(ts, x), NamesIn(d.init))
    BY <2>2, EnvKnown
  <2>4. UsesKnown(new, NamesIn(d.init))
    BY <2>1, <2>3
  <2>5. VarChecks(new, d, Here(d.type)) \in {"ok", "failed"}
    BY <2>4, ChecksSane
  <2> QED BY <1>1, <2>5
<1> QED
  BY <1>2, <1>3

\* What the first parameters, ds, have made of a new scope: it is known, and nothing was stuck.
KnownParams(ts, after, ds) ==
  ParamEnv(ts, <<<<>>>>, after.env, ds, after.result) /\ after.result \in {"ok", "failed"}

\* One parameter more.
LEMMA ParamKnownStep ==
  ASSUME unit \in Nat, NEW ts, unit \in DOMAIN ts, NEW before, NEW ds, NEW d, KnownParams(ts, before, ds),
         d.init \in Exprs \cup {None}, TablesKnown(ts, NamesIn(d.init))
  PROVE  KnownParams(ts, ParamStep(before, d), ds \cup {d})
<1>1. ParamEnv(ts, <<<<>>>>, ParamStep(before, d).env, ds \cup {d}, ParamStep(before, d).result)
  BY ParamEnvStep, Zenon DEF KnownParams
<1>2. CASE before.result # "ok"
  BY <1>1, <1>2 DEF ParamStep, KnownParams
<1>3. CASE before.result = "ok"
  <2>1. ParamEnv(ts, <<<<>>>>, before.env, ds, "ok")
    BY <1>3 DEF KnownParams
  <2>2. PICK s : before.env = EnvOf(ts, <<s>>) /\ Describes(s, ds)
    BY <2>1 DEF ParamEnv
  <2> PICK ss : ss = <<s>>
    OBVIOUS
  <2>3. IsStack(ss) /\ Len(ss) > 0 /\ ScopesKnown(ss)
    <3>1. IsStack(ss) /\ Len(ss) = 1 /\ ss[1] = s
      BY OneScope
    <3>2. DOMAIN ss = {1}
      OBVIOUS
    <3>3. \A name \in DOMAIN s : KnownType(s[name].type)
      BY <2>2, DescribedKnown
    <3> QED BY <3>1, <3>2, <3>3 DEF ScopesKnown
  <2>4. LocalVar(EnvOf(ts, ss), d, TRUE).result \in {"ok", "failed"}
    BY <2>3, LocalVarSane
  <2>5. ParamStep(before, d) = LocalVar(EnvOf(ts, ss), d, TRUE)
    BY <1>3, <2>2 DEF ParamStep
  <2> QED BY <1>1, <2>4, <2>5 DEF KnownParams
<1> QED
  BY <1>2, <1>3

\* The parameters of a function are validated without reading a type that is not there.
LEMMA ParamsSane ==
  ASSUME unit \in Nat, NEW ts, unit \in DOMAIN ts, NEW params, IsStack(params),
         \A p \in Range(params) : p.init \in Exprs \cup {None} /\ TablesKnown(ts, NamesIn(p.init))
  PROVE  Params(EnvOf(ts, <<<<>>>>), params).result \in {"ok", "failed"}
<1> PICK open : open = <<<<>>>>
  OBVIOUS
<1>1. PICK upTo : ParamsUpTo(upTo, EnvOf(ts, open), params) /\ Params(EnvOf(ts, open), params) = upTo[Len(params)]
  BY ParamsSteps, Zenon DEF IsStack
<1>2. Len(params) \in Nat /\ DOMAIN params = 1 .. Len(params)
  BY StackFacts
<1> DEFINE First(n) == {params[i] : i \in 1 .. n}
           Right(n) == KnownParams(ts, upTo[n], First(n))
           S == {n \in Nat : n =< Len(params) => Right(n)}
<1>3. 0 \in S
  <2>1. First(0) = {}
    OBVIOUS
  <2>2. upTo[0].env = EnvOf(ts, open) /\ upTo[0].result = "ok"
    BY <1>1 DEF ParamsUpTo
  <2> QED BY <2>1, <2>2, DescribesNothing DEF ParamEnv, KnownParams
<1>4. ASSUME NEW n \in S
      PROVE  n + 1 \in S
  <2> SUFFICES ASSUME n + 1 =< Len(params)
               PROVE  Right(n + 1)
    OBVIOUS
  <2>0. n \in Nat /\ (n =< Len(params) => Right(n))
    OBVIOUS
  <2>1. Right(n) /\ n + 1 \in 1 .. Len(params) /\ (n + 1) - 1 = n
    <3> HIDE DEF Right, S
    <3> QED BY <1>2, <2>0
  <2>2. upTo[n + 1] = ParamStep(upTo[n], params[n + 1])
    BY <1>1, <2>1 DEF ParamsUpTo
  <2>3. First(n + 1) = First(n) \cup {params[n + 1]}
    <3>1. 1 .. n + 1 = (1 .. n) \cup {n + 1}
      BY <2>1
    <3> QED BY <3>1
  <2>4. PICK before : before = upTo[n]
    OBVIOUS
  <2>5. PICK d : d = params[n + 1]
    OBVIOUS
  <2>6. d.init \in Exprs \cup {None} /\ TablesKnown(ts, NamesIn(d.init))
    <3>1. d \in Range(params)
      BY <1>2, <2>1, <2>5 DEF Range
    <3> QED BY <3>1
  <2>7. PICK ds : ds = First(n)
    OBVIOUS
  <2> HIDE DEF First
  <2>8. KnownParams(ts, ParamStep(before, d), ds \cup {d})
    BY <2>1, <2>4, <2>6, <2>7, ParamKnownStep
  <2> QED BY <2>2, <2>3, <2>4, <2>5, <2>7, <2>8
<1>5. S = Nat
  <2> HIDE DEF Right
  <2>1. S \in SUBSET Nat
    OBVIOUS
  <2> HIDE DEF S
  <2> QED BY <1>3, <1>4, <2>1, Induction
<1>6. Right(Len(params))
  <2>1. \A n \in S : n =< Len(params) => Right(n)
    OBVIOUS
  <2> HIDE DEF S, Right
  <2> QED BY <1>2, <1>5, <2>1
<1> QED
  BY <1>1, <1>6 DEF KnownParams

\* What a statement mentions in its parts it mentions itself.
LEMMA NamesOfStmt ==
  ASSUME NEW s \in Stmts
  PROVE  /\ s.kind \in {"expr", "return"} => NamesIn(s.expr) \subseteq NamesInStmt[s]
         /\ s.kind = "var" => NamesIn(s.init) \subseteq NamesInStmt[s]
         /\ s.kind = "block" => \A t \in Range(s.stmts) : NamesInStmt[t] \subseteq NamesInStmt[s]
         /\ s.kind = "if" => /\ NamesIn(s.cond) \subseteq NamesInStmt[s]
                             /\ NamesInStmt[s.then] \subseteq NamesInStmt[s]
                             /\ s.else # None => NamesInStmt[s.else] \subseteq NamesInStmt[s]
<1>1. NamesInStmt[s] = NamingStmt(s, NamesInStmt)
  BY NamesInStmtDefined
<1>2. CASE s.kind \in {"expr", "return", "var"}
  BY <1>1, <1>2 DEF NamingStmt
<1>3. CASE s.kind = "block"
  <2>1. NamesInStmt[s] = UNION {NamesInStmt[t] : t \in Range(s.stmts)}
    BY <1>1, <1>3 DEF NamingStmt
  <2> QED BY <1>3, <2>1
<1>4. CASE s.kind = "if"
  <2>1. NamesInStmt[s] = NamesIn(s.cond) \cup NamesInStmt[s.then]
                           \cup IF s.else = None THEN {} ELSE NamesInStmt[s.else]
    BY <1>1, <1>4 DEF NamingStmt
  <2> QED BY <1>4, <2>1
<1> QED
  BY <1>2, <1>3, <1>4

\* The statement that a frame is at is one of the function that is validated.
LEMMA NamesBelow ==
  ASSUME IInv, InFn, NEW i \in 0 .. Len(frames), Within(i)
  PROVE  NamesInStmt[At(i)] \subseteq NamesInDecl(Decl)
<1> DEFINE Inside(k) == k =< Len(frames) /\ Within(k) => NamesInStmt[At(k)] \subseteq NamesInStmt[Decl.body]
           S == {k \in Nat : Inside(k)}
<1>1. /\ frames \in Seq(Frames) /\ Len(frames) \in Nat /\ DOMAIN frames = 1 .. Len(frames)
      /\ Decl.kind = "fn" /\ Decl.body \in Stmts /\ None \notin Stmts
  BY ValidatorAssumption DEF IInv, Control, Frames, AreTrees
<1>2. 0 \in S
  BY DEF At
<1>3. ASSUME NEW k \in S
      PROVE  k + 1 \in S
  <2> SUFFICES ASSUME k + 1 =< Len(frames), Within(k + 1)
               PROVE  NamesInStmt[At(k + 1)] \subseteq NamesInStmt[Decl.body]
    OBVIOUS
  <2>1. k + 1 \in DOMAIN frames /\ (k + 1) - 1 = k /\ k =< Len(frames) /\ k \in 0 .. Len(frames) /\ k + 1 # 0
    BY <1>1
  <2> PICK f : f = frames[k + 1]
    OBVIOUS
  <2>2. Opened(k + 1) /\ f \in Frames
    BY <1>1, <2>1 DEF IInv, Nested
  <2>3. Within(k)
    BY <2>1, <2>2 DEF Opened
  <2>4. NamesInStmt[At(k)] \subseteq NamesInStmt[Decl.body] /\ At(k) \in Stmts
    BY <2>1, <2>3, AtIsStmt DEF IInv
  <2>5. CASE f.of = "block"
    <3>1. At(k).kind = "block" /\ f.stmts = At(k).stmts /\ f.at =< Len(f.stmts) /\ At(k + 1) = f.stmts[f.at]
      BY <2>1, <2>2, <2>5 DEF Opened, Within, At
    <3>2. f.stmts \in Seq(Stmts) /\ f.at \in Nat \ {0}
      BY <2>2, <2>5, FrameTypes
    <3>3. At(k + 1) \in Range(At(k).stmts)
      BY <3>1, <3>2 DEF Range
    <3> QED BY <2>4, <3>1, <3>3, NamesOfStmt
  <2>6. CASE f.of = "if"
    <3>1. f.node = At(k) /\ f.node.kind = "if" /\ f.branch \in {"then", "else"}
            /\ (f.branch = "else" => f.node.else # None)
      BY <2>1, <2>2, <2>6, FrameTypes DEF Opened
    <3>2. At(k + 1) = IF f.branch = "then" THEN At(k).then ELSE At(k).else
      BY <2>1, <2>6, <3>1 DEF At
    <3> QED BY <2>4, <3>1, <3>2, NamesOfStmt
  <2> QED
    BY <2>2, <2>5, <2>6, FrameTypes
<1>4. S = Nat
  <2>1. S \in SUBSET Nat
    OBVIOUS
  <2> HIDE DEF S
  <2> QED BY <1>2, <1>3, <2>1, Induction
<1>5. Inside(i)
  <2>1. \A k \in S : Inside(k)
    OBVIOUS
  <2>2. i \in Nat
    BY <1>1
  <2> HIDE DEF S, Inside
  <2> QED BY <1>4, <2>1, <2>2
<1>6. i =< Len(frames)
  BY <1>1
<1>7. NamesInStmt[Decl.body] \subseteq NamesInDecl(Decl)
  BY <1>1 DEF NamesInDecl
<1> QED
  BY <1>5, <1>6, <1>7

-----------------------------------------------------------------------------
(* Declarations are known in the order they have in the text *)

\* The names that units before this one declare, and this one up to its declaration last, have types.
KnownUpTo(ts, last) ==
  \A u \in DOMAIN program : \A i \in DOMAIN program[u] :
    u < unit \/ (u = unit /\ i =< last) => KnownType(ts[u][program[u][i].name].type)

TypesKnown ==
  /\ pc = "symtab" => unit = 1 /\ decl = 1
  /\ pc = "decl" /\ ~reported => KnownUpTo(tables, decl - 1)
  /\ InFn /\ ~reported => KnownUpTo(tables, decl)

\* The units and declarations there are, and their tables when all are built.
LEMMA Shapes ==
  ASSUME IInv
  PROVE  /\ Len(program) \in Nat /\ DOMAIN program = 1 .. Len(program)
         /\ \A u \in DOMAIN program : Len(program[u]) \in Nat /\ DOMAIN program[u] = 1 .. Len(program[u])
         /\ unit \in DOMAIN program /\ unit \in Nat /\ decl \in Nat /\ decl >= 1 /\ decl =< Len(Decls) + 1
         /\ Named /\ pc \notin {"symtab", "refused"} => DOMAIN tables = DOMAIN program
<1>1. program \in Programs /\ unit \in DOMAIN program /\ decl \in 1 .. Len(Decls) + 1
  BY DEF IInv, Control
<1>2. /\ Len(program) \in Nat /\ DOMAIN program = 1 .. Len(program)
      /\ \A u \in DOMAIN program : Len(program[u]) \in Nat /\ DOMAIN program[u] = 1 .. Len(program[u])
  BY <1>1, ProgramShape
<1>3. unit \in Nat /\ Len(Decls) \in Nat
  BY <1>1, <1>2 DEF Decls
<1>4. decl \in Nat /\ decl >= 1 /\ decl =< Len(Decls) + 1
  BY <1>1, <1>3
<1>5. ASSUME Named, pc \notin {"symtab", "refused"}
      PROVE  DOMAIN tables = DOMAIN program
  <2>1. IsStack(tables) /\ Len(tables) = Len(program)
    BY <1>5 DEF Named
  <2> QED BY <1>2, <2>1, StackFacts
<1> QED
  BY <1>1, <1>2, <1>3, <1>4, <1>5

\* One declaration more is known when its name has got its type.
LEMMA KnownMore ==
  ASSUME IInv, Named, pc \notin {"symtab", "refused"}, decl =< Len(Decls), KnownUpTo(tables, decl - 1),
         NEW type, KnownType(type)
  PROVE  KnownUpTo(SetTable(tables, Decl.name, type), decl)
<1> PICK name : name = Decl.name
  OBVIOUS
<1> PICK ts : ts = tables
  OBVIOUS
<1> PICK last : last = decl
  OBVIOUS
<1>1. last \in Nat /\ last >= 1 /\ unit \in DOMAIN program /\ DOMAIN ts = DOMAIN program
  BY Shapes
<1> SUFFICES ASSUME NEW u \in DOMAIN program, NEW i \in DOMAIN program[u], u < unit \/ (u = unit /\ i =< last)
             PROVE  KnownType(SetTable(ts, name, type)[u][program[u][i].name].type)
  BY DEF KnownUpTo
<1> PICK n : n = program[u][i].name
  OBVIOUS
<1>2. n \in DOMAIN ts[u] /\ "type" \in DOMAIN ts[u][n]
  <2>1. DOMAIN ts[u] = NamesOf(program[u]) /\ HasTypes(ts[u])
    BY <1>1 DEF Named
  <2>2. n \in NamesOf(program[u])
    BY DEF NamesOf, Range
  <2> QED BY <2>1, <2>2 DEF HasTypes
<1>3. CASE u = unit /\ n = name
  <2>1. SetTable(ts, name, type)[u][n].type = type
    BY <1>1, <1>2, <1>3 DEF SetTable
  <2> QED BY <2>1
<1>4. CASE u # unit \/ n # name
  <2>1. SetTable(ts, name, type)[u][n] = ts[u][n]
    BY <1>1, <1>2, <1>4 DEF SetTable
  <2>2. u = unit => i # last
    BY <1>4 DEF Decl, Decls
  <2>3. u < unit \/ (u = unit /\ i =< last - 1)
    <3>1. i \in Nat
      BY Shapes
    <3> QED BY <1>1, <2>2, <3>1
  <2>4. KnownType(ts[u][n].type)
    BY <2>3 DEF KnownUpTo
  <2> QED BY <2>1, <2>4
<1> QED
  BY <1>3, <1>4

\* Tables with the names of their units.
TablesOfUnits(ts) == DOMAIN ts = DOMAIN program /\ \A u \in DOMAIN ts : DOMAIN ts[u] = NamesOf(program[u])

\* Where names are declared before they are used, what a declaration mentions is known when it is itself.
LEMMA MentionedKnown ==
  ASSUME IInv, decl =< Len(Decls), NEW ts, TablesOfUnits(ts), KnownUpTo(ts, decl), ~UsedBeforeDeclared
  PROVE  TablesKnown(ts, NamesInDecl(Decl))
<1> PICK last : last = decl
  OBVIOUS
<1> PICK uses : uses = NamesInDecl(Decl)
  OBVIOUS
<1> SUFFICES ASSUME NEW use \in uses, NEW v, v = IF use[1] = None THEN unit ELSE use[1],
                    v \in DOMAIN ts, use[2] \in DOMAIN ts[v]
             PROVE  KnownType(ts[v][use[2]].type)
  BY DEF TablesKnown
<1>1. /\ unit \in DOMAIN program /\ unit \in Nat /\ last \in DOMAIN program[unit] /\ last \in Nat
      /\ v \in DOMAIN program /\ v \in Nat
  BY Shapes DEF TablesOfUnits, Decls
<1>2. PICK j \in DOMAIN program[v] : program[v][j].name = use[2]
  BY DEF TablesOfUnits, NamesOf, Range
<1>3. ~(v > unit \/ (v = unit /\ j > last))
  <2>1. use \in NamesInDecl(program[unit][last])
    BY DEF Decl, Decls
  <2> QED BY <1>1, <1>2, <2>1 DEF UsedBeforeDeclared
<1>4. v < unit \/ (v = unit /\ j =< last)
  <2>1. j \in Nat
    BY <1>1, Shapes
  <2> QED BY <1>1, <1>3, <2>1
<1> QED
  BY <1>1, <1>2, <1>4 DEF KnownUpTo

\* The tables of the units, with the type of one more name, have the names of the units.
LEMMA TablesStay ==
  ASSUME IInv, Named, pc \notin {"symtab", "refused"}
  PROVE  /\ TablesOfUnits(tables) /\ unit \in DOMAIN tables
         /\ \A name, type : TablesOfUnits(SetTable(tables, name, type)) /\ unit \in DOMAIN SetTable(tables, name, type)
<1>1. DOMAIN tables = DOMAIN program /\ unit \in DOMAIN program
  BY Shapes
<1>2. \A u \in DOMAIN tables : DOMAIN tables[u] = NamesOf(program[u])
  BY DEF Named
<1>3. ASSUME NEW name, NEW type
      PROVE  /\ DOMAIN SetTable(tables, name, type) = DOMAIN tables
             /\ \A u \in DOMAIN tables : DOMAIN SetTable(tables, name, type)[u] = DOMAIN tables[u]
  <2>1. /\ DOMAIN SetTable(tables, name, type) = DOMAIN tables
        /\ \A u \in DOMAIN tables :
             /\ DOMAIN SetTable(tables, name, type)[u] = DOMAIN tables[u]
             /\ HasTypes(tables[u]) => HasTypes(SetTable(tables, name, type)[u])
    BY SetTableNames, Zenon
  <2> QED BY <2>1
<1> QED
  BY <1>1, <1>2, <1>3 DEF TablesOfUnits

\* The table of a function that is declared, and the first of its scopes.
LEMMA FnOpenedIs ==
  ASSUME scopes = <<>>, NEW ts, ts = SetTable(tables, Decl.name, Here(Decl.ret)), IsStack(Decl.params)
  PROVE  FnOpened = Params(EnvOf(ts, <<<<>>>>), Decl.params) /\ \E x : FnOpened.env = EnvOf(ts, x)
<1> PICK params : params = Decl.params
  OBVIOUS
<1> PICK open : open = <<<<>>>>
  OBVIOUS
<1>1. FnTyped(Env) = EnvOf(ts, <<>>)
  <2>1. FnTyped(Env) = SetType(EnvOf(tables, scopes), Decl.name, Here(Decl.ret))
    BY EnvIs DEF FnTyped
  <2> QED BY <2>1, SetTypeEnv
<1>2. EnterScope(FnTyped(Env)) = EnvOf(ts, open)
  <2>1. Append(<<>>, <<>>) = open
    OBVIOUS
  <2> QED BY <1>1, <2>1, EnvIs
<1>3. FnOpened = Params(EnvOf(ts, open), params)
  BY <1>2 DEF FnOpened
<1>4. ParamEnv(ts, open, Params(EnvOf(ts, open), params).env, Range(params), Params(EnvOf(ts, open), params).result)
  BY ParamsScope
<1>5. \E x : FnOpened.env = EnvOf(ts, x)
  BY <1>3, <1>4 DEF ParamEnv
<1> QED
  BY <1>3, <1>5

\* A function is opened with its type known, and its parameters are validated without reading one that is not.
LEMMA OpenedKnown ==
  ASSUME IInv, SInv, TypesKnown, pc = "decl", ~reported, decl =< Len(Decls), Decl.kind = "fn", Here(Decl.ret) # Null
  PROVE  /\ \A env : BecomesEnv(env) /\ env.tables = FnOpened.env.tables => KnownUpTo(tables', decl)
         /\ ~UsedBeforeDeclared => FnOpened.result \in {"ok", "failed"}
<1> PICK ts : ts = SetTable(tables, Decl.name, Here(Decl.ret))
  OBVIOUS
<1> PICK params : params = Decl.params
  OBVIOUS
<1>1. unit \in Nat /\ scopes = <<>> /\ Named
  BY Shapes DEF SInv, Scoped
<1>2. IsDecl(Decl) /\ IsStack(params)
  BY DeclIs DEF IInv
<1>3. FnOpened = Params(EnvOf(ts, <<<<>>>>), params) /\ \E x : FnOpened.env = EnvOf(ts, x)
  BY <1>1, <1>2, FnOpenedIs
<1>4. KnownUpTo(ts, decl)
  <2>1. KnownType(Here(Decl.ret))
    BY <1>1, HereKnown
  <2> QED BY <1>1, <2>1, KnownMore DEF TypesKnown
<1>5. ASSUME NEW env, BecomesEnv(env), env.tables = FnOpened.env.tables
      PROVE  KnownUpTo(tables', decl)
  BY <1>3, <1>4, <1>5 DEF BecomesEnv, EnvOf
<1>6. ASSUME ~UsedBeforeDeclared
      PROVE  FnOpened.result \in {"ok", "failed"}
  <2>1. TablesOfUnits(ts) /\ unit \in DOMAIN ts
    BY <1>1, TablesStay
  <2>2. TablesKnown(ts, NamesInDecl(Decl))
    BY <1>4, <1>6, <2>1, MentionedKnown
  <2>3. \A p \in Range(params) : p.init \in Exprs \cup {None} /\ NamesIn(p.init) \subseteq NamesInDecl(Decl)
    BY <1>2 DEF IsDecl, NamesInDecl
  <2>4. \A p \in Range(params) : p.init \in Exprs \cup {None} /\ TablesKnown(ts, NamesIn(p.init))
    BY <2>2, <2>3 DEF TablesKnown
  <2>5. Params(EnvOf(ts, <<<<>>>>), params).result \in {"ok", "failed"}
    BY <1>1, <1>2, <2>1, <2>4, ParamsSane
  <2> QED BY <1>3, <2>5
<1> QED
  BY <1>5, <1>6

\* What a statement is validated with is known.
LEMMA StmtKnown ==
  ASSUME IInv, SInv, TypesKnown, AtStmt, ~reported, ~UsedBeforeDeclared
  PROVE  /\ unit \in Nat /\ unit \in DOMAIN tables /\ IsStack(scopes) /\ Len(scopes) > 0 /\ ScopesKnown(scopes)
         /\ TablesKnown(tables, NamesInStmt[Stmt])
<1>1. InFn /\ ScopesMatch /\ Named /\ KnownUpTo(tables, decl) /\ decl =< Len(Decls)
  BY DEF AtStmt, InFn, SInv, Scoped, TypesKnown, IInv, Control
<1>2. unit \in Nat /\ unit \in DOMAIN tables /\ TablesOfUnits(tables)
  BY <1>1, Shapes, TablesStay DEF InFn
<1>3. TablesKnown(tables, NamesInDecl(Decl))
  BY <1>1, <1>2, MentionedKnown
<1>4. NamesInStmt[Stmt] \subseteq NamesInDecl(Decl)
  <2>1. Stmt = At(Len(frames)) /\ Within(Len(frames)) /\ Len(frames) \in DOMAIN frames
    BY StmtIsAt DEF IInv
  <2>2. Len(frames) \in 0 .. Len(frames)
    BY <2>1 DEF IInv, Control
  <2> QED BY <1>1, <2>1, <2>2, NamesBelow
<1>5. TablesKnown(tables, NamesInStmt[Stmt])
  BY <1>3, <1>4 DEF TablesKnown
<1>6. IsStack(scopes) /\ Len(scopes) > 0 /\ DOMAIN scopes = 1 .. Len(scopes)
  <2>1. Len(frames) \in Nat /\ frames \in Seq(Frames)
    BY DEF IInv, Control, Frames
  <2>2. Level(Len(frames)) \in Nat \ {0}
    BY <2>1, LevelFacts
  <2>3. IsStack(scopes) /\ Len(scopes) = Level(Len(frames))
    BY <1>1 DEF ScopesMatch
  <2> QED BY <2>2, <2>3, StackFacts
<1>7. ScopesKnown(scopes)
  <2>1. \A l \in DOMAIN scopes : Describes(scopes[l], Visible(l))
    BY <1>1, <1>6 DEF ScopesMatch
  <2> QED BY <1>2, <2>1, DescribedKnown DEF ScopesKnown
<1> QED
  BY <1>2, <1>5, <1>6, <1>7

\* A global variable gets its type, and its initialiser is validated without reading one that is not there.
LEMMA GlobalKnown ==
  ASSUME IInv, SInv, TypesKnown, GlobalVar, ~reported
  PROVE  /\ ~reported' => KnownUpTo(tables', decl)
         /\ ~UsedBeforeDeclared => pc' = "decl"
<1> PICK type : type = Here(Decl.type)
  OBVIOUS
<1> PICK ts : ts = SetTable(tables, Decl.name, type)
  OBVIOUS
<1>1. /\ pc = "decl" /\ decl =< Len(Decls) /\ Decl.kind = "var" /\ scopes = <<>>
      /\ BecomesEnv(SetType(Env, Decl.name, type)) /\ Declared(VarChecks(SetType(Env, Decl.name, type), Decl, type))
  BY DEF GlobalVar, AtDecl
<1>2. unit \in Nat /\ Named /\ KnownUpTo(tables, decl - 1)
  BY <1>1, Shapes DEF SInv, TypesKnown
<1>3. SetType(Env, Decl.name, type) = EnvOf(ts, <<>>)
  BY <1>1, EnvIs, SetTypeEnv
<1>4. tables' = ts /\ Declared(VarChecks(EnvOf(ts, <<>>), Decl, type))
  BY <1>1, <1>3, EnvIs
<1>5. CASE type = Null
  <2>1. VarChecks(EnvOf(ts, <<>>), Decl, type) = "failed"
    BY <1>5 DEF VarChecks
  <2> QED BY <1>4, <2>1 DEF Declared
<1>6. CASE type # Null
  <2>1. KnownUpTo(ts, decl)
    <3>1. KnownType(type)
      BY <1>2, <1>6, HereKnown
    <3> QED BY <1>1, <1>2, <3>1, KnownMore
  <2>2. ASSUME ~UsedBeforeDeclared
        PROVE  pc' = "decl"
    <3>1. TablesOfUnits(ts) /\ unit \in DOMAIN ts
      BY <1>1, <1>2, TablesStay
    <3>2. TablesKnown(ts, NamesIn(Decl.init))
      <4>1. NamesInDecl(Decl) = NamesIn(Decl.init)
        BY <1>1 DEF NamesInDecl
      <4> QED BY <1>1, <2>1, <2>2, <3>1, <4>1, MentionedKnown
    <3>3. UsesKnown(EnvOf(ts, <<>>), NamesIn(Decl.init))
      <4>1. IsStack(<<>>) /\ ScopesKnown(<<>>)
        BY DEF IsStack, ScopesKnown
      <4> QED BY <3>1, <3>2, <4>1, EnvKnown
    <3>4. Decl.init \in Exprs \cup {None}
      BY <1>1, DeclIs DEF IsDecl, IInv
    <3>5. VarChecks(EnvOf(ts, <<>>), Decl, type) \in {"ok", "failed"}
      BY <1>2, <3>3, <3>4, ChecksSane
    <3> QED BY <1>4, <3>5 DEF Declared
  <2> QED BY <1>4, <2>1, <2>2
<1> QED
  BY <1>5, <1>6

\* The steps that end a declaration.
LEMMA DeclsKnown ==
  ASSUME IInv, SInv, TypesKnown, ~reported,
         \/ GlobalVar \/ MisplacedVar \/ BadReturnType \/ BadParams \/ NoBody \/ EndFn \/ EndFnFailed
  PROVE  /\ ~reported' /\ pc' = "decl" => KnownUpTo(tables', decl)
         /\ ~UsedBeforeDeclared /\ ~reported' => pc' = "decl"
<1>1. CASE GlobalVar
  BY <1>1, GlobalKnown
<1>2. CASE MisplacedVar
  BY <1>2 DEF MisplacedVar, AtDecl, SInv, Scoped
<1>3. CASE BadReturnType \/ EndFnFailed
  BY <1>3 DEF BadReturnType, EndFnFailed, Declared
<1>4. CASE BadParams \/ NoBody
  <2>1. pc = "decl" /\ decl =< Len(Decls) /\ Decl.kind = "fn" /\ Here(Decl.ret) # Null
    BY <1>4 DEF BadParams, NoBody, AtDecl
  <2>2. /\ \A env : BecomesEnv(env) /\ env.tables = FnOpened.env.tables => KnownUpTo(tables', decl)
        /\ ~UsedBeforeDeclared => FnOpened.result \in {"ok", "failed"}
    BY <2>1, OpenedKnown
  <2>3. CASE BadParams
    <3>1. BecomesEnv(FnOpened.env) /\ Declared(FnOpened.result) /\ FnOpened.result # "ok"
      BY <2>3 DEF BadParams
    <3>2. KnownUpTo(tables', decl)
      BY <2>2, <3>1
    <3> QED BY <2>2, <3>1, <3>2 DEF Declared
  <2>4. CASE NoBody
    <3>1. BecomesEnv(ExitScope(FnOpened.env)) /\ Declared("ok")
      BY <2>4 DEF NoBody
    <3>2. ExitScope(FnOpened.env).tables = FnOpened.env.tables
      BY DEF ExitScope
    <3> QED BY <2>2, <3>1, <3>2 DEF Declared
  <2> QED BY <1>4, <2>3, <2>4
<1>5. CASE EndFn
  <2>1. tables' = tables /\ Declared(EndFnChecks) /\ InFn
    BY <1>5, EnvIs DEF EndFn, AfterBody, InFn
  <2>2. EndFnChecks # "stuck"
    BY DEF EndFnChecks
  <2> QED BY <2>1, <2>2 DEF Declared, TypesKnown
<1> QED
  BY <1>1, <1>2, <1>3, <1>4, <1>5

\* An expression of the statement that is validated.
LEMMA PartSane ==
  ASSUME IInv, SInv, TypesKnown, AtStmt, ~reported, ~UsedBeforeDeclared, NEW e \in Exprs,
         NamesInExpr[e] \subseteq NamesInStmt[Stmt]
  PROVE  Sane(Validate(Env)[e])
<1>1. /\ unit \in Nat /\ unit \in DOMAIN tables /\ IsStack(scopes) /\ ScopesKnown(scopes)
      /\ TablesKnown(tables, NamesInStmt[Stmt])
  BY StmtKnown
<1>2. UsesKnown(EnvOf(tables, scopes), NamesInExpr[e])
  <2>1. TablesKnown(tables, NamesInExpr[e])
    BY <1>1 DEF TablesKnown
  <2> QED BY <1>1, <2>1, EnvKnown
<1>3. UsesKnown(Env, NamesInExpr[e])
  BY <1>2, EnvIs
<1> QED
  BY <1>1, <1>3, ExprSane

\* A statement that opens no frame is validated without reading a type that is not there.
LEMMA StmtsKnown ==
  ASSUME IInv, SInv, TypesKnown, ~reported, ~UsedBeforeDeclared,
         Empty \/ Expression \/ Var \/ Return \/ IfRefused
  PROVE  pc' # "stuck"
<1>1. AtStmt /\ Stmt \in Stmts
  BY StmtIsAt DEF IInv, Empty, Expression, Var, Return, IfRefused
<1>2. \A e \in Exprs : NamesInExpr[e] \subseteq NamesInStmt[Stmt] => Sane(Validate(Env)[e])
  BY <1>1, PartSane
<1>3. None \notin Exprs /\ unit \in Nat
  BY Shapes, ValidatorAssumption DEF AreTrees
<1>4. CASE Empty
  BY <1>4 DEF Empty, Finish
<1>5. CASE Expression
  <2>1. Stmt.kind = "expr" /\ Finish(Validate(Env)[Stmt.expr].result)
    BY <1>5 DEF Expression
  <2>2. Stmt.expr \in Exprs /\ NamesIn(Stmt.expr) \subseteq NamesInStmt[Stmt]
    BY <1>1, <2>1, NamesOfStmt, ValidatorAssumption DEF AreTrees
  <2>3. Sane(Validate(Env)[Stmt.expr])
    BY <1>2, <1>3, <2>2 DEF NamesIn
  <2> QED BY <2>1, <2>3 DEF Finish, Sane
<1>6. CASE Var
  <2>1. \/ \E seen \in BOOLEAN : Finish(LocalVar(Env, Stmt, seen).result)
        \/ Finish("failed")
    BY <1>6, VarOutcomes
  <2>2. Stmt.kind = "var"
    BY <1>6 DEF Var
  <2>3. Stmt.init \in Exprs \cup {None} /\ NamesIn(Stmt.init) \subseteq NamesInStmt[Stmt]
    BY <1>1, <2>2, NamesOfStmt, ValidatorAssumption DEF AreTrees
  <2>4. /\ unit \in DOMAIN tables /\ IsStack(scopes) /\ Len(scopes) > 0 /\ ScopesKnown(scopes)
        /\ TablesKnown(tables, NamesInStmt[Stmt])
    BY <1>1, StmtKnown
  <2>5. TablesKnown(tables, NamesIn(Stmt.init))
    BY <2>3, <2>4 DEF TablesKnown
  <2>6. \A seen \in BOOLEAN : LocalVar(EnvOf(tables, scopes), Stmt, seen).result \in {"ok", "failed"}
    BY <1>3, <2>3, <2>4, <2>5, LocalVarSane
  <2>7. \A seen \in BOOLEAN : LocalVar(Env, Stmt, seen).result \in {"ok", "failed"}
    BY <2>6, EnvIs
  <2> QED BY <2>1, <2>7 DEF Finish
<1>7. CASE Return
  <2>1. Stmt.kind = "return" /\ Finish(ReturnChecks)
    BY <1>7 DEF Return
  <2>2. Stmt.expr \in Exprs \cup {None} /\ NamesIn(Stmt.expr) \subseteq NamesInStmt[Stmt]
    BY <1>1, <2>1, NamesOfStmt, ValidatorAssumption DEF AreTrees
  <2> DEFINE nothing == Typed("ok", Here("void"))
  <2> PICK value : value = IF Stmt.expr = None THEN nothing ELSE Validate(Env)[Stmt.expr]
    OBVIOUS
  <2>3. Sane(value)
    <3>1. Sane(nothing)
      <4>1. "void" \in DOMAIN Size
        BY DEF Size
      <4>2. KnownType(Here("void"))
        BY <1>3, <4>1, HereKnown
      <4> QED BY <4>2 DEF Sane, Typed
    <3>2. ASSUME Stmt.expr # None
          PROVE  Sane(Validate(Env)[Stmt.expr])
      BY <1>2, <2>2, <3>2 DEF NamesIn
    <3> HIDE DEF nothing
    <3> QED BY <3>1, <3>2
  <2> PICK type : type = Here(Decl.ret)
    OBVIOUS
  <2>4. KnownType(type)
    <3>1. Here(Decl.ret) # Null
      BY <1>1 DEF AtStmt, IInv, Control, InFn
    <3> QED BY <1>3, <3>1, HereKnown
  <2> PICK second : second = IF Bits(type) = 0 THEN Require(Stmt.expr = None) ELSE Convert(value.type, type)
    OBVIOUS
  <2>5. ReturnChecks = InOrder(<<value.result, second>>)
    BY Zenon DEF ReturnChecks, nothing
  <2>6. /\ second \in Results /\ value.result \in Results /\ value.result # "stuck"
        /\ value.result = "ok" => second # "stuck"
    <3>1. second \in Results
      BY SmallResults
    <3>2. value.result = "ok" => Convert(value.type, type) # "stuck"
      BY <2>3, <2>4, ConvertKnown DEF Sane
    <3>3. Require(Stmt.expr = None) # "stuck"
      BY DEF Require
    <3> QED BY <2>3, <3>1, <3>2, <3>3 DEF Sane, Results
  <2>7. ReturnChecks \in {"ok", "failed"}
    BY <2>5, <2>6, StuckTwo
  <2> QED BY <2>1, <2>7 DEF Finish
<1>8. CASE IfRefused
  <2>1. Stmt.kind = "if" /\ Finish(Condition)
    BY <1>8 DEF IfRefused
  <2>2. Stmt.cond \in Exprs /\ NamesIn(Stmt.cond) \subseteq NamesInStmt[Stmt]
    BY <1>1, <2>1, NamesOfStmt, ValidatorAssumption DEF AreTrees
  <2> PICK cond : cond = Validate(Env)[Stmt.cond]
    OBVIOUS
  <2>3. Sane(cond)
    BY <1>2, <1>3, <2>2 DEF NamesIn
  <2> PICK second : second = IsBool(cond.type)
    OBVIOUS
  <2>4. Condition = InOrder(<<cond.result, second>>)
    BY DEF Condition
  <2>5. /\ second \in Results /\ cond.result \in Results /\ cond.result # "stuck"
        /\ cond.result = "ok" => second # "stuck"
    BY <2>3, SmallResults DEF Sane, KnownType, IsBool, Require, Results
  <2>6. Condition \in {"ok", "failed"}
    BY <2>4, <2>5, StuckTwo
  <2> QED BY <2>1, <2>6 DEF Finish
<1> QED
  BY <1>4, <1>5, <1>6, <1>7, <1>8

-----------------------------------------------------------------------------
(* No type is read that is not there *)

\* The body of a function begins with its own type known.
LEMMA BodyKnown ==
  ASSUME IInv, SInv, TypesKnown, Body, ~reported
  PROVE  KnownUpTo(tables', decl)
<1>1. /\ pc = "decl" /\ decl =< Len(Decls) /\ Decl.kind = "fn" /\ Here(Decl.ret) # Null
      /\ BecomesEnv(EnterScope(FnOpened.env))
  BY DEF Body, AtDecl
<1>2. EnterScope(FnOpened.env).tables = FnOpened.env.tables
  BY DEF EnterScope
<1> QED
  BY <1>1, <1>2, OpenedKnown

\* KnownUpTo, in the next state.
LEMMA KnownNext ==
  ASSUME program' = program, unit' = unit, NEW last
  PROVE  KnownUpTo(tables', last) => KnownUpTo(tables, last)'
BY DEF KnownUpTo

OrderInv == TypesKnown /\ DefinedInOrder

\* A step that stops nothing keeps what is known.
LEMMA OrderKept ==
  ASSUME DefinedInOrder, TypesKnown', pc' # "stuck" \/ reported' \/ UsedBeforeDeclared' \/ ElseMissing'
  PROVE  OrderInv'
BY DEF OrderInv, DefinedInOrder

\* A step keeps the types that are known, and gets stuck only where the program is not defined.
LEMMA OrderStep ==
  ASSUME IInv, SInv, SInv', OrderInv, [Next]_vars
  PROVE  OrderInv'
<1> USE DEF OrderInv
<1>1. CASE BuildSymtab
  <2>1. /\ pc = "symtab" /\ unit = 1 /\ decl = 1 /\ unit' = 1 /\ decl' = 1 /\ program' = program
        /\ pc' \in {"symtab", "decl", "refused"}
    BY <1>1 DEF BuildSymtab, TypesKnown
  <2>2. KnownUpTo(tables, decl - 1)'
    <3>1. \A u \in DOMAIN program : \A i \in DOMAIN program[u] : u \in Nat /\ u >= 1 /\ i \in Nat /\ i >= 1
      BY Shapes
    <3>2. \A u \in DOMAIN program' : \A i \in DOMAIN program'[u] : ~(u < unit' \/ (u = unit' /\ i =< decl' - 1))
      BY <2>1, <3>1
    <3> QED BY <3>2 DEF KnownUpTo
  <2>3. TypesKnown'
    BY <2>1, <2>2 DEF TypesKnown, InFn
  <2> QED BY <2>1, <2>3, OrderKept
<1>2. CASE EndUnit
  <2>1. /\ pc = "decl" /\ decl > Len(Decls) /\ program' = program /\ tables' = tables /\ reported' = reported
        /\ pc' \in {"decl", "refused", "accepted"}
    BY <1>2 DEF EndUnit
  <2>2. ASSUME pc' = "decl", ~reported
        PROVE  KnownUpTo(tables, decl - 1)'
    <3>1. unit' = unit + 1 /\ decl' = 1 /\ KnownUpTo(tables, decl - 1)
      BY <1>2, <2>1, <2>2 DEF EndUnit, TypesKnown
    <3>2. /\ unit \in Nat /\ decl = Len(Decls) + 1
          /\ \A u \in DOMAIN program : u \in Nat /\ \A i \in DOMAIN program[u] : i \in Nat /\ i >= 1 /\ i =< Len(program[u])
      BY <2>1, Shapes
    <3> SUFFICES ASSUME NEW u \in DOMAIN program, NEW i \in DOMAIN program[u],
                        u < unit + 1 \/ (u = unit + 1 /\ i =< 0)
                 PROVE  KnownType(tables[u][program[u][i].name].type)
      BY <2>1, <3>1 DEF KnownUpTo
    <3>3. u < unit \/ (u = unit /\ i =< decl - 1)
      <4>1. u = unit => Len(program[u]) = decl - 1
        BY <3>2 DEF Decls
      <4> QED BY <3>2, <4>1
    <3> QED BY <3>1, <3>3 DEF KnownUpTo
  <2>3. TypesKnown'
    BY <2>1, <2>2 DEF TypesKnown, InFn
  <2> QED BY <2>1, <2>3, OrderKept
<1>3. CASE GlobalVar \/ MisplacedVar \/ BadReturnType \/ BadParams \/ NoBody \/ EndFn \/ EndFnFailed
  <2>1. DeclDone
    BY <1>3, DeclDoneSteps DEF IInv
  <2>2. /\ program' = program /\ unit' = unit /\ decl' = decl + 1 /\ pc' \in {"decl", "stuck"}
        /\ ~reported' => ~reported
    BY <2>1 DEF DeclDone, Declared
  <2>3. ASSUME ~reported', pc' = "decl"
        PROVE  KnownUpTo(tables, decl - 1)'
    <3>1. KnownUpTo(tables', decl)
      BY <1>3, <2>2, <2>3, DeclsKnown
    <3>2. decl' - 1 = decl
      BY <2>2, Shapes
    <3> QED BY <2>2, <3>1, <3>2 DEF KnownUpTo
  <2>4. TypesKnown'
    BY <2>2, <2>3 DEF TypesKnown, InFn
  <2>5. UsedBeforeDeclared' = UsedBeforeDeclared
    BY <2>2 DEF UsedBeforeDeclared
  <2>6. pc' # "stuck" \/ reported' \/ UsedBeforeDeclared'
    BY <1>3, <2>2, <2>5, DeclsKnown
  <2> QED BY <2>4, <2>6, OrderKept
<1>4. CASE Body
  <2>1. program' = program /\ unit' = unit /\ decl' = decl /\ reported' = reported /\ pc' = "stmt"
    BY <1>4 DEF Body
  <2>2. ~reported => KnownUpTo(tables, decl)'
    BY <1>4, <2>1, BodyKnown DEF KnownUpTo
  <2>3. TypesKnown'
    BY <2>1, <2>2 DEF TypesKnown
  <2> QED BY <2>1, <2>3, OrderKept
<1>5. ASSUME InFn, program' = program, unit' = unit, decl' = decl, tables' = tables, ~reported' => ~reported,
             pc' \in {"stmt", "ok", "failed", "stuck"}
      PROVE  TypesKnown' /\ UsedBeforeDeclared' = UsedBeforeDeclared
  BY <1>5 DEF TypesKnown, InFn, KnownUpTo, UsedBeforeDeclared
<1>6. CASE Empty \/ Expression \/ Var \/ Return \/ IfRefused
  <2>1. StmtDone /\ tables' = tables
    BY <1>6, StmtDoneSteps, StmtSteps DEF IInv, SInv
  <2>2. /\ InFn /\ program' = program /\ unit' = unit /\ decl' = decl /\ (~reported' => ~reported)
        /\ pc' \in {"stmt", "ok", "failed", "stuck"}
    BY <2>1 DEF StmtDone, AtStmt, InFn, Results
  <2>3. pc' # "stuck" \/ reported' \/ UsedBeforeDeclared
    BY <1>6, <2>2, StmtsKnown
  <2> QED BY <1>5, <2>1, <2>2, <2>3, OrderKept
<1>7. CASE Block \/ If \/ BlockNext \/ Else \/ EndBlock \/ BranchFailed \/ NoElse \/ EndElse
  <2>1. tables' = tables
    BY <1>7, FrameSteps DEF SInv
  <2>2. /\ InFn /\ program' = program /\ unit' = unit /\ decl' = decl /\ reported' = reported
        /\ pc' \in {"stmt", "ok", "failed", "stuck"}
    <3>1. CASE Block \/ If
      BY <3>1 DEF Block, If, AtStmt, InFn
    <3>2. CASE BlockNext \/ Else \/ EndBlock
      BY <3>2 DEF BlockNext, Else, EndBlock, InFn
    <3>3. CASE BranchFailed \/ NoElse \/ EndElse
      BY <3>3 DEF BranchFailed, NoElse, EndElse, EndIf, InFn
    <3> QED BY <1>7, <3>1, <3>2, <3>3
  <2>3. pc' # "stuck" \/ ElseMissing'
    BY <1>7 DEF Block, If, BlockNext, Else, EndBlock, BranchFailed, NoElse, EndElse, EndIf, AtStmt,
                ElseMissing, InIf, Top
  <2>4. ~reported' => ~reported
    BY <2>2, Zenon
  <2> QED BY <1>5, <2>1, <2>2, <2>3, <2>4, OrderKept
<1>8. CASE Finished \/ UNCHANGED vars
  <2>1. UNCHANGED vars
    BY <1>8 DEF Finished
  <2> QED BY <2>1 DEF vars, TypesKnown, KnownUpTo, InFn, DefinedInOrder, UsedBeforeDeclared, ElseMissing, InIf, Top
<1> QED
  BY <1>1, <1>2, <1>3, <1>4, <1>6, <1>7, <1>8 DEF Next

\* The validator comes to no type that is not there, whatever the programs are, as long as it has found
\* no error, names are declared before they are used and every if has an else.
THEOREM Defined == Spec => []DefinedInOrder
<1>1. Init => OrderInv
  BY DEF Init, OrderInv, TypesKnown, DefinedInOrder, InFn
<1>2. IInv /\ SInv /\ SInv' /\ OrderInv /\ [Next]_vars => OrderInv'
  BY OrderStep
<1>3. OrderInv => DefinedInOrder
  BY DEF OrderInv
<1> QED
  BY <1>1, <1>2, <1>3, Inductive, ScopesInductive, PTL DEF Spec

-----------------------------------------------------------------------------
(* Texts, and reading them *)

PieceKinds == {"open", "close", "global", "local", "use"}

\* A sequence of pieces.
IsText(t) == IsStack(t) /\ \A i \in DOMAIN t : t[i].is \in PieceKinds

\* A reader of unit u that was in state a is in state b behind text t.
Reads(u, a, t, b) ==
  \E f : /\ f[0] = a /\ f[Len(t)] = b
         /\ \A i \in 1 .. Len(t) : f[i] = Read(u, f[i - 1], t[i])

\* A text is read from its first piece to its last.
LEMMA ReadAllReads ==
  ASSUME NEW u, NEW globals, NEW t, Len(t) \in Nat
  PROVE  Reads(u, Unread(globals), t, ReadAll(u, globals, t))
<1> DEFINE start == Unread(globals)
           After(n, f) == f = [i \in 0 .. n |-> IF i = 0 THEN start ELSE Read(u, f[i - 1], t[i])]
           S == {n \in Nat : \E f : After(n, f)}
<1> HIDE DEF start
<1>1. 0 \in S
  <2> DEFINE f == [i \in 0 .. 0 |-> start]
  <2>1. After(0, f)
    OBVIOUS
  <2> QED BY <2>1
<1>2. ASSUME NEW n \in S
      PROVE  n + 1 \in S
  <2>1. n \in Nat
    OBVIOUS
  <2>2. PICK f : After(n, f)
    OBVIOUS
  <2> DEFINE g == [i \in 0 .. n + 1 |-> IF i =< n THEN f[i] ELSE Read(u, f[n], t[i])]
  <2>3. \A i \in 0 .. n : g[i] = f[i]
    BY <2>1
  <2>4. g[n + 1] = Read(u, f[n], t[n + 1])
    BY <2>1
  <2>5. g = [i \in 0 .. n + 1 |-> g[i]]
    OBVIOUS
  <2> HIDE DEF g
  <2>6. \A i \in 0 .. n : f[i] = IF i = 0 THEN start ELSE Read(u, f[i - 1], t[i])
    BY <2>2
  <2>7. ASSUME NEW i \in 0 .. n + 1
        PROVE  g[i] = IF i = 0 THEN start ELSE Read(u, g[i - 1], t[i])
    <3>1. CASE i = n + 1
      <4>1. i # 0 /\ i - 1 = n /\ n \in 0 .. n
        BY <2>1, <3>1
      <4> QED BY <2>3, <2>4, <3>1, <4>1
    <3>2. CASE i \in 0 .. n
      <4>1. i # 0 => i - 1 \in 0 .. n
        BY <2>1, <3>2
      <4> QED BY <2>3, <2>6, <3>2, <4>1
    <3> QED BY <2>1, <3>1, <3>2
  <2>8. After(n + 1, g)
    BY <2>5, <2>7
  <2> HIDE DEF After
  <2> QED BY <2>1, <2>8
<1>3. S = Nat
  <2>1. S \in SUBSET Nat
    OBVIOUS
  <2> HIDE DEF S
  <2> QED BY <1>1, <1>2, <2>1, Induction
<1> PICK n : n = Len(t)
  OBVIOUS
<1> DEFINE f == CHOOSE f : f = [i \in 0 .. n |-> IF i = 0 THEN start ELSE Read(u, f[i - 1], t[i])]
<1>4. ReadAll(u, globals, t) = f[n]
  BY DEF ReadAll, start
<1>5. f = [i \in 0 .. n |-> IF i = 0 THEN start ELSE Read(u, f[i - 1], t[i])]
  <2>1. \E g : After(n, g)
    BY <1>3
  <2> QED BY <2>1
<1> HIDE DEF f
<1>6. /\ f[0] = start
      /\ \A i \in 1 .. n : f[i] = Read(u, f[i - 1], t[i])
  <2>1. n \in Nat /\ 0 \in 0 .. n /\ \A i \in 1 .. n : i \in 0 .. n /\ i # 0
    OBVIOUS
  <2>2. \A i \in 0 .. n : f[i] = IF i = 0 THEN start ELSE Read(u, f[i - 1], t[i])
    BY <1>5
  <2> QED BY <2>1, <2>2
<1> QED
  BY <1>4, <1>6 DEF Reads, start

\* A text of two parts is read by reading one and then the other.
LEMMA ReadsConcat ==
  ASSUME NEW u, NEW a, NEW b, NEW s, NEW t, IsStack(s), IsStack(t), Reads(u, a, s \o t, b)
  PROVE  \E m : Reads(u, a, s, m) /\ Reads(u, m, t, b)
<1>1. PICK S : S = Range(s) \cup Range(t)
  OBVIOUS
<1>2. s \in Seq(S) /\ t \in Seq(S)
  <2>1. PICK A, B : A = Range(s) /\ B = Range(t)
    OBVIOUS
  <2>2. s \in Seq(A) /\ t \in Seq(B)
    BY <2>1, Zenon DEF IsStack
  <2>3. S = A \cup B
    BY <1>1, <2>1
  <2> QED BY <2>2, <2>3
<1> PICK k, l : k = Len(s) /\ l = Len(t)
  OBVIOUS
<1>3. /\ k \in Nat /\ l \in Nat /\ Len(s \o t) = k + l
      /\ \A i \in 1 .. k : (s \o t)[i] = s[i]
      /\ \A i \in 1 .. l : (s \o t)[k + i] = t[i]
  BY <1>2
<1>4. PICK f : /\ f[0] = a /\ f[k + l] = b
               /\ \A i \in 1 .. k + l : f[i] = Read(u, f[i - 1], (s \o t)[i])
  BY <1>3 DEF Reads
<1>5. Reads(u, a, s, f[k])
  <2>1. \A i \in 1 .. k : f[i] = Read(u, f[i - 1], s[i])
    BY <1>3, <1>4
  <2> QED BY <1>4, <2>1 DEF Reads
<1>6. Reads(u, f[k], t, b)
  <2> DEFINE g == [i \in 0 .. l |-> f[k + i]]
  <2>1. g[0] = f[k] /\ g[l] = b
    BY <1>3, <1>4
  <2>2. ASSUME NEW i \in 1 .. l
        PROVE  g[i] = Read(u, g[i - 1], t[i])
    <3>1. k + i \in 1 .. k + l /\ (k + i) - 1 = k + (i - 1) /\ i - 1 \in 0 .. l /\ i \in 0 .. l
      BY <1>3
    <3>2. f[k + i] = Read(u, f[(k + i) - 1], (s \o t)[k + i])
      BY <1>4, <3>1
    <3> QED BY <1>3, <3>1, <3>2
  <2> HIDE DEF g
  <2> QED BY <2>1, <2>2 DEF Reads
<1> QED
  BY <1>5, <1>6

\* No text, and a text of one piece.
LEMMA ReadsLittle ==
  ASSUME NEW u, NEW a, NEW b
  PROVE  /\ Reads(u, a, <<>>, b) => b = a
         /\ \A p : Reads(u, a, <<p>>, b) => b = Read(u, a, p)
<1>1. Len(<<>>) = 0 /\ \A p : Len(<<p>>) = 1 /\ <<p>>[1] = p
  OBVIOUS
<1>2. 1 - 1 = 0 /\ 1 \in 1 .. 1
  OBVIOUS
<1> QED
  BY <1>1, <1>2 DEF Reads

\* Two texts make a text.
LEMMA ConcatText ==
  ASSUME NEW s, NEW t, IsText(s), IsText(t)
  PROVE  IsText(s \o t) /\ Len(s \o t) = Len(s) + Len(t)
<1>1. PICK S : S = Range(s) \cup Range(t)
  OBVIOUS
<1>2. s \in Seq(S) /\ t \in Seq(S)
  <2>1. PICK A, B : A = Range(s) /\ B = Range(t)
    OBVIOUS
  <2>2. s \in Seq(A) /\ t \in Seq(B)
    BY <2>1, Zenon DEF IsText, IsStack
  <2>3. S = A \cup B
    BY <1>1, <2>1
  <2> QED BY <2>2, <2>3
<1> PICK r : r = s \o t
  OBVIOUS
<1>3. /\ r \in Seq(S) /\ Len(s) \in Nat /\ Len(t) \in Nat /\ Len(r) = Len(s) + Len(t)
      /\ DOMAIN s = 1 .. Len(s) /\ DOMAIN t = 1 .. Len(t) /\ DOMAIN r = 1 .. Len(r)
      /\ \A i \in 1 .. Len(s) : r[i] = s[i]
      /\ \A i \in Len(s) + 1 .. Len(r) : r[i] = t[i - Len(s)]
  BY <1>2
<1>4. IsStack(r)
  BY <1>3, SeqIsStack, Zenon
<1>5. ASSUME NEW i \in DOMAIN r
      PROVE  r[i].is \in PieceKinds
  <2>1. CASE i \in 1 .. Len(s)
    BY <1>3, <2>1 DEF IsText
  <2>2. CASE i \in Len(s) + 1 .. Len(r)
    <3>1. i - Len(s) \in DOMAIN t /\ r[i] = t[i - Len(s)]
      BY <1>3, <2>2
    <3> QED BY <3>1 DEF IsText
  <2> QED BY <1>3, <2>1, <2>2
<1> QED
  BY <1>3, <1>4, <1>5 DEF IsText

\* No piece, and one piece.
LEMMA LittleText ==
  /\ IsText(<<>>) /\ IsText(Open) /\ IsText(Close)
  /\ \A key : IsText(Uses(key))
  /\ \A key, name : IsText(DeclGlobal(key, name)) /\ IsText(DeclLocal(key, name))
<1>1. ASSUME NEW p, p.is \in PieceKinds
      PROVE  IsText(<<p>>)
  <2>1. <<p>> \in Seq({p})
    OBVIOUS
  <2>2. IsStack(<<p>>)
    BY <2>1, SeqIsStack, Zenon
  <2>3. DOMAIN <<p>> = {1} /\ <<p>>[1] = p
    OBVIOUS
  <2> QED BY <1>1, <2>2, <2>3 DEF IsText
<1>2. IsText(<<>>)
  <2>1. <<>> \in Seq({}) /\ DOMAIN <<>> = {}
    OBVIOUS
  <2>2. IsStack(<<>>)
    BY <2>1, SeqIsStack, Zenon
  <2> QED BY <2>1, <2>2 DEF IsText
<1>3. [is |-> "open"].is \in PieceKinds /\ [is |-> "close"].is \in PieceKinds
  BY DEF PieceKinds
<1>4. \A key : [is |-> "use", key |-> key].is \in PieceKinds
  BY DEF PieceKinds
<1>5. \A key, name : /\ [is |-> "global", key |-> key, name |-> name].is \in PieceKinds
                     /\ [is |-> "local", key |-> key, name |-> name].is \in PieceKinds
  BY DEF PieceKinds
<1> QED
  BY <1>1, <1>2, <1>3, <1>4, <1>5 DEF Open, Close, Uses, DeclGlobal, DeclLocal

\* f joins the first of the n texts ts, one after the other.
Joins(f, ts, n) == f[0] = <<>> /\ \A i \in 1 .. n : f[i] = f[i - 1] \o ts[i]

Texts(ts, n) == IsStack(ts) /\ Len(ts) = n /\ \A i \in 1 .. n : IsText(ts[i])

\* FlattenSeq joins texts.
LEMMA FlatJoins ==
  ASSUME NEW ts, NEW n \in Nat, Texts(ts, n)
  PROVE  \E f : Joins(f, ts, n) /\ FlattenSeq(ts) = f[n] /\ \A i \in 0 .. n : IsText(f[i])
<1> DEFINE UpTo(k, f) == f = [i \in 1 .. k |-> IF i = 1 THEN ts[i] ELSE f[i - 1] \o ts[i]]
           S == {k \in Nat : \E f : UpTo(k, f)}
<1>1. 0 \in S
  <2> DEFINE none == [i \in 1 .. 0 |-> 0]
  <2>1. UpTo(0, none)
    OBVIOUS
  <2> QED BY <2>1
<1>2. ASSUME NEW k \in S
      PROVE  k + 1 \in S
  <2>1. k \in Nat
    OBVIOUS
  <2>2. PICK f : UpTo(k, f)
    OBVIOUS
  <2> DEFINE g == [i \in 1 .. k + 1 |-> IF i =< k THEN f[i] ELSE IF i = 1 THEN ts[i] ELSE f[k] \o ts[i]]
  <2>3. \A i \in 1 .. k : g[i] = f[i]
    BY <2>1
  <2>4. g[k + 1] = IF k + 1 = 1 THEN ts[k + 1] ELSE f[k] \o ts[k + 1]
    BY <2>1
  <2>5. g = [i \in 1 .. k + 1 |-> g[i]]
    OBVIOUS
  <2> HIDE DEF g
  <2>6. \A i \in 1 .. k : f[i] = IF i = 1 THEN ts[i] ELSE f[i - 1] \o ts[i]
    BY <2>2
  <2>7. ASSUME NEW i \in 1 .. k + 1
        PROVE  g[i] = IF i = 1 THEN ts[i] ELSE g[i - 1] \o ts[i]
    <3>1. CASE i = k + 1
      <4>1. i # 1 => i - 1 = k /\ k \in 1 .. k
        BY <2>1, <3>1
      <4> QED BY <2>3, <2>4, <3>1, <4>1
    <3>2. CASE i \in 1 .. k
      <4>1. i # 1 => i - 1 \in 1 .. k
        BY <2>1, <3>2
      <4> QED BY <2>3, <2>6, <3>2, <4>1
    <3> QED BY <2>1, <3>1, <3>2
  <2>8. UpTo(k + 1, g)
    BY <2>5, <2>7
  <2>9. k + 1 \in Nat
    BY <2>1
  <2> HIDE DEF UpTo
  <2> QED BY <2>8, <2>9, Zenon
<1>3. S = Nat
  <2>1. S \in SUBSET Nat
    OBVIOUS
  <2> HIDE DEF S
  <2> QED BY <1>1, <1>2, <2>1, Induction
<1>4. \E f : UpTo(n, f)
  BY <1>3
<1>5. Len(ts) = n /\ (n = 0 => ts = <<>>)
  <2>1. PICK T : T = Range(ts)
    OBVIOUS
  <2>2. ts \in Seq(T)
    BY <2>1, Zenon DEF Texts, IsStack
  <2> QED BY <2>2 DEF Texts
<1> DEFINE g == CHOOSE f : f = [i \in 1 .. Len(ts) |-> IF i = 1 THEN ts[i] ELSE f[i - 1] \o ts[i]]
           h == [i \in 0 .. n |-> IF i = 0 THEN <<>> ELSE g[i]]
<1>6. g = [i \in 1 .. n |-> IF i = 1 THEN ts[i] ELSE g[i - 1] \o ts[i]]
  BY <1>4, <1>5
<1>7. FlattenSeq(ts) = IF n = 0 THEN ts ELSE g[n]
  BY <1>5 DEF FlattenSeq
<1> HIDE DEF g
<1>8. FlattenSeq(ts) = h[n]
  BY <1>5, <1>7
<1>9. Joins(h, ts, n)
  <2>1. \A i \in 1 .. n : g[i] = IF i = 1 THEN ts[i] ELSE g[i - 1] \o ts[i]
    BY <1>6
  <2>2. h[0] = <<>> /\ \A i \in 1 .. n : h[i] = g[i] /\ h[i - 1] = IF i = 1 THEN <<>> ELSE g[i - 1]
    OBVIOUS
  <2>3. ASSUME NEW i \in 1 .. n
        PROVE  h[i] = h[i - 1] \o ts[i]
    <3>1. IsStack(ts[i])
      BY DEF Texts, IsText
    <3>2. <<>> \o ts[i] = ts[i]
      <4>1. PICK R : R = Range(ts[i])
        OBVIOUS
      <4>2. ts[i] \in Seq(R)
        BY <3>1, <4>1, Zenon DEF IsStack
      <4>3. PICK t : t = ts[i]
        OBVIOUS
      <4> QED BY <4>2, <4>3
    <3> HIDE DEF h
    <3> QED BY <2>1, <2>2, <3>2
  <2> HIDE DEF h
  <2> QED BY <2>2, <2>3 DEF Joins
<1> HIDE DEF h
<1>10. \A i \in 0 .. n : IsText(h[i])
  <2> DEFINE Q == {i \in Nat : i =< n => IsText(h[i])}
  <2>1. 0 \in Q
    BY <1>9, LittleText DEF Joins
  <2>2. ASSUME NEW i \in Q
        PROVE  i + 1 \in Q
    <3> SUFFICES ASSUME i + 1 =< n
                 PROVE  IsText(h[i + 1])
      OBVIOUS
    <3>1. i + 1 \in 1 .. n /\ (i + 1) - 1 = i /\ IsText(h[i])
      OBVIOUS
    <3>2. h[i + 1] = h[i] \o ts[i + 1] /\ IsText(ts[i + 1])
      BY <1>9, <3>1 DEF Joins, Texts
    <3> QED BY <3>1, <3>2, ConcatText
  <2>3. Q = Nat
    <3>1. Q \in SUBSET Nat
      OBVIOUS
    <3> HIDE DEF Q
    <3> QED BY <2>1, <2>2, <3>1, Induction
  <2> QED BY <2>3
<1> QED
  BY <1>8, <1>9, <1>10

\* In g a reader passes from a to b through the n texts ts, one after the other.
Passes(u, a, ts, n, b, g) == g[0] = a /\ g[n] = b /\ \A i \in 1 .. n : Reads(u, g[i - 1], ts[i], g[i])

\* What FlattenSeq makes of texts is read by reading one after the other.
LEMMA ReadsFlat ==
  ASSUME NEW u, NEW a, NEW b, NEW ts, NEW n \in Nat, Texts(ts, n), Reads(u, a, FlattenSeq(ts), b)
  PROVE  \E g : Passes(u, a, ts, n, b, g)
<1> PICK f : Joins(f, ts, n) /\ FlattenSeq(ts) = f[n] /\ \A i \in 0 .. n : IsText(f[i])
  BY FlatJoins
<1> DEFINE Steps(k, m, g) == g[0] = a /\ g[k] = m /\ \A i \in 1 .. k : Reads(u, g[i - 1], ts[i], g[i])
           S == {k \in Nat : k =< n => \A m : Reads(u, a, f[k], m) => \E g : Steps(k, m, g)}
<1>1. 0 \in S
  <2> SUFFICES ASSUME NEW m, Reads(u, a, f[0], m)
               PROVE  \E g : Steps(0, m, g)
    OBVIOUS
  <2>1. m = a
    BY ReadsLittle DEF Joins
  <2> DEFINE g == [i \in 0 .. 0 |-> a]
  <2>2. Steps(0, m, g)
    BY <2>1
  <2> QED BY <2>2
<1>2. ASSUME NEW k \in S
      PROVE  k + 1 \in S
  <2> SUFFICES ASSUME k + 1 =< n, NEW m, Reads(u, a, f[k + 1], m)
               PROVE  \E g : Steps(k + 1, m, g)
    OBVIOUS
  <2>1. k \in Nat /\ k + 1 \in 1 .. n /\ (k + 1) - 1 = k /\ k \in 0 .. n
    OBVIOUS
  <2>2. f[k + 1] = f[k] \o ts[k + 1] /\ IsText(ts[k + 1]) /\ IsText(f[k])
    BY <2>1 DEF Joins, Texts
  <2>3. PICK c : Reads(u, a, f[k], c) /\ Reads(u, c, ts[k + 1], m)
    BY <2>2, ReadsConcat DEF IsText
  <2>4. PICK g : Steps(k, c, g)
    BY <2>1, <2>3
  <2> DEFINE h == [i \in 0 .. k + 1 |-> IF i =< k THEN g[i] ELSE m]
  <2>5. (\A i \in 0 .. k : h[i] = g[i]) /\ h[k + 1] = m
    BY <2>1
  <2> HIDE DEF h
  <2>6. ASSUME NEW i \in 1 .. k + 1
        PROVE  Reads(u, h[i - 1], ts[i], h[i])
    <3>1. CASE i = k + 1
      <4>1. i - 1 = k /\ k \in 0 .. k
        BY <2>1, <3>1
      <4> QED BY <2>3, <2>4, <2>5, <3>1, <4>1
    <3>2. CASE i \in 1 .. k
      <4>1. i - 1 \in 0 .. k /\ i \in 0 .. k
        BY <2>1, <3>2
      <4> QED BY <2>4, <2>5, <3>2, <4>1
    <3> QED BY <2>1, <3>1, <3>2
  <2>7. Steps(k + 1, m, h)
    BY <2>1, <2>4, <2>5, <2>6
  <2> QED BY <2>7
<1>3. S = Nat
  <2>1. S \in SUBSET Nat
    OBVIOUS
  <2> HIDE DEF S
  <2> QED BY <1>1, <1>2, <2>1, Induction
<1>4. PICK g : Steps(n, b, g)
  BY <1>3
<1>5. Passes(u, a, ts, n, b, g)
  BY <1>4 DEF Passes
<1> QED
  BY <1>5

\* Pieces stay pieces of a set.
LEMMA FlatPieces ==
  ASSUME NEW P, \A p \in P : p.is \in PieceKinds, NEW ts \in Seq(Seq(P))
  PROVE  Texts(ts, Len(ts)) /\ FlattenSeq(ts) \in Seq(P)
<1> PICK n : n = Len(ts)
  OBVIOUS
<1>1. n \in Nat /\ IsStack(ts) /\ \A i \in 1 .. n : ts[i] \in Seq(P)
  <2>1. IsStack(ts)
    BY SeqIsStack, Zenon
  <2> QED BY <2>1
<1>2. ASSUME NEW t \in Seq(P)
      PROVE  IsText(t)
  <2>1. IsStack(t)
    BY SeqIsStack, Zenon
  <2> QED BY <2>1 DEF IsText
<1>3. Texts(ts, n)
  BY <1>1, <1>2 DEF Texts
<1>4. PICK f : Joins(f, ts, n) /\ FlattenSeq(ts) = f[n]
  BY <1>1, <1>3, FlatJoins
<1> DEFINE Q == {k \in Nat : k =< n => f[k] \in Seq(P)}
<1>5. 0 \in Q
  <2>1. <<>> \in Seq(P)
    OBVIOUS
  <2> QED BY <1>4, <2>1 DEF Joins
<1>6. ASSUME NEW k \in Q
      PROVE  k + 1 \in Q
  <2> SUFFICES ASSUME k + 1 =< n
               PROVE  f[k + 1] \in Seq(P)
    OBVIOUS
  <2>1. k + 1 \in 1 .. n /\ (k + 1) - 1 = k /\ f[k] \in Seq(P)
    BY <1>1
  <2>2. f[k + 1] = f[k] \o ts[k + 1] /\ ts[k + 1] \in Seq(P)
    BY <1>1, <1>4, <2>1 DEF Joins
  <2> QED BY <2>1, <2>2
<1>7. Q = Nat
  <2>1. Q \in SUBSET Nat
    OBVIOUS
  <2> HIDE DEF Q
  <2> QED BY <1>5, <1>6, <2>1, Induction
<1>8. f[n] \in Seq(P)
  BY <1>1, <1>7
<1> QED
  BY <1>3, <1>4, <1>8

\* f makes the elements of a sequence texts.
LEMMA MapTexts ==
  ASSUME NEW S, NEW s \in Seq(S), NEW P, NEW f, \A x \in Range(s) : f[x] \in Seq(P)
  PROVE  /\ [i \in DOMAIN s |-> f[s[i]]] \in Seq(Seq(P))
         /\ Len([i \in DOMAIN s |-> f[s[i]]]) = Len(s)
<1>1. Len(s) \in Nat /\ DOMAIN s = 1 .. Len(s) /\ \A i \in DOMAIN s : s[i] \in Range(s)
  BY DEF Range
<1>2. PICK T : T = Seq(P)
  OBVIOUS
<1>3. [i \in DOMAIN s |-> f[s[i]]] \in [1 .. Len(s) -> T]
  BY <1>1, <1>2
<1> QED
  BY <1>1, <1>2, <1>3

-----------------------------------------------------------------------------
(* The texts of expressions *)

\* The text of e when that of a name is its key, and f has the texts of the parts.
Writing(e, f, key) ==
  CASE e.kind = "id"     -> Uses(key[e])
    [] e.kind = "call"   -> Uses(key[e]) \o FlattenSeq([i \in DOMAIN e.args |-> f[e.args[i]]])
    [] e.kind = "binary" -> f[e.left] \o f[e.right]
    [] OTHER             -> <<>>

UsePieces(key) == {[is |-> "use", key |-> key[e]] : e \in Exprs}

\* Each expression has a text, whatever the keys are.
LEMMA WritingSolvable ==
  ASSUME NEW key
  PROVE  \E f \in [Exprs -> Seq(UsePieces(key))] : \A e \in Exprs : f[e] = Writing(e, f, key)
<1> DEFINE P == UsePieces(key)
           R == Seq(P)
           Step == [e \in Exprs |-> [f \in [Exprs -> R] |-> Writing(e, f, key)]]
           depth == [e \in Exprs |-> Depth[e]]
<1>1. depth \in [Exprs -> Nat]
  BY ValidatorAssumption DEF AreTrees
<1>2. \A e \in Exprs : \A p \in Parts(e) : p \in Exprs /\ depth[p] < depth[e]
  BY ExprParts
<1> HIDE DEF depth
<1>3. Step \in [Exprs -> [[Exprs -> R] -> R]]
  <2> SUFFICES ASSUME NEW e \in Exprs, NEW f \in [Exprs -> R]
               PROVE  Writing(e, f, key) \in R
    OBVIOUS
  <2>1. Uses(key[e]) \in R
    BY DEF Uses, UsePieces
  <2>2. \A p \in Parts(e) : f[p] \in R
    BY <1>2
  <2>3. CASE e.kind = "call"
    <3>1. e.args \in Seq(Exprs) /\ \A x \in Range(e.args) : f[x] \in Seq(P)
      BY <2>2, <2>3, ValidatorAssumption DEF AreTrees, Parts
    <3> DEFINE ts == [i \in DOMAIN e.args |-> f[e.args[i]]]
    <3>2. ts \in Seq(Seq(P))
      <4> HIDE DEF P
      <4> QED BY <3>1, MapTexts
    <3>3. \A p \in P : p.is \in PieceKinds
      BY DEF UsePieces, PieceKinds
    <3> HIDE DEF ts, P
    <3>4. FlattenSeq(ts) \in Seq(P)
      BY <3>2, <3>3, FlatPieces
    <3>5. Writing(e, f, key) = Uses(key[e]) \o FlattenSeq(ts)
      BY <2>3 DEF Writing, ts
    <3> QED BY <2>1, <3>4, <3>5
  <2>4. CASE e.kind = "binary"
    <3>1. f[e.left] \in R /\ f[e.right] \in R
      BY <2>2, <2>4 DEF Parts
    <3> HIDE DEF P
    <3> QED BY <2>4, <3>1 DEF Writing
  <2>5. CASE e.kind \notin {"call", "binary"}
    <3>1. <<>> \in R
      OBVIOUS
    <3> HIDE DEF R
    <3> QED BY <2>1, <2>5, <3>1 DEF Writing
  <2> QED BY <2>3, <2>4, <2>5
<1>4. LooksDeeper(Exprs, R, depth, Step)
  <2> SUFFICES ASSUME NEW e \in Exprs, NEW f \in [Exprs -> R], NEW g \in [Exprs -> R],
                      \A p \in Exprs : depth[p] < depth[e] => f[p] = g[p]
               PROVE  Writing(e, f, key) = Writing(e, g, key)
    BY DEF LooksDeeper
  <2>1. \A p \in Parts(e) : f[p] = g[p]
    BY <1>2
  <2>2. CASE e.kind = "call"
    <3>1. \A i \in DOMAIN e.args : f[e.args[i]] = g[e.args[i]]
      BY <2>1, <2>2 DEF Parts, Range
    <3>2. [i \in DOMAIN e.args |-> f[e.args[i]]] = [i \in DOMAIN e.args |-> g[e.args[i]]]
      BY <3>1
    <3> QED BY <2>2, <3>2 DEF Writing
  <2>3. CASE e.kind = "binary"
    BY <2>1, <2>3 DEF Writing, Parts
  <2>4. CASE e.kind \notin {"call", "binary"}
    BY <2>4 DEF Writing
  <2> QED
    BY <2>2, <2>3, <2>4
<1>5. Solvable(Exprs, R, Step)
  <2>1. R # {}
    <3>1. <<>> \in R
      OBVIOUS
    <3> QED BY <3>1
  <2> HIDE DEF Step, R
  <2> QED BY <1>1, <1>3, <1>4, <2>1, TreeRecursion, Zenon
<1>6. PICK f \in [Exprs -> R] : \A e \in Exprs : f[e] = Writing(e, f, key)
  BY <1>5 DEF Solvable
<1> QED
  BY <1>6

CKeys == [e \in Exprs |-> Prefixed(e.name)]
SourceKeys == [e \in Exprs |-> <<e.unit, e.name>>]

\* The same in C and in the source.
CWriting(e, f) ==
  CASE e.kind = "id"     -> Uses(Prefixed(e.name))
    [] e.kind = "call"   -> Uses(Prefixed(e.name)) \o FlattenSeq([i \in DOMAIN e.args |-> f[e.args[i]]])
    [] e.kind = "binary" -> f[e.left] \o f[e.right]
    [] OTHER             -> <<>>
SourceWriting(e, f) ==
  CASE e.kind = "id"     -> Uses(<<e.unit, e.name>>)
    [] e.kind = "call"   -> Uses(<<e.unit, e.name>>) \o FlattenSeq([i \in DOMAIN e.args |-> f[e.args[i]]])
    [] e.kind = "binary" -> f[e.left] \o f[e.right]
    [] OTHER             -> <<>>

\* The texts of an expression.
LEMMA ExprTexts ==
  \A e \in Exprs : /\ GenExpr[e] = CWriting(e, GenExpr)
                   /\ SourceExpr[e] = SourceWriting(e, SourceExpr)
<1>1. \A e \in Exprs : \A f : CWriting(e, f) = Writing(e, f, CKeys)
  BY DEF CWriting, Writing, CKeys
<1>2. \A e \in Exprs : \A f : SourceWriting(e, f) = Writing(e, f, SourceKeys)
  BY DEF SourceWriting, Writing, SourceKeys
<1>3. PICK f \in [Exprs -> Seq(UsePieces(CKeys))] : \A e \in Exprs : f[e] = CWriting(e, f)
  BY <1>1, WritingSolvable
<1>4. PICK g \in [Exprs -> Seq(UsePieces(SourceKeys))] : \A e \in Exprs : g[e] = SourceWriting(e, g)
  BY <1>2, WritingSolvable
<1>5. f = [e \in Exprs |-> CWriting(e, f)] /\ g = [e \in Exprs |-> SourceWriting(e, g)]
  BY <1>3, <1>4
<1>6. GenExpr = [e \in Exprs |-> CWriting(e, GenExpr)]
  BY <1>5 DEF GenExpr, CWriting
<1>7. SourceExpr = [e \in Exprs |-> SourceWriting(e, SourceExpr)]
  BY <1>5 DEF SourceExpr, SourceWriting
<1>8. ASSUME NEW e \in Exprs
      PROVE  GenExpr[e] = CWriting(e, GenExpr)
  BY <1>6
<1>9. ASSUME NEW e \in Exprs
      PROVE  SourceExpr[e] = SourceWriting(e, SourceExpr)
  BY <1>7
<1> QED
  BY <1>8, <1>9

\* f makes texts of the elements of a sequence, and FlattenSeq one of these.
LEMMA MappedTexts ==
  ASSUME NEW S, NEW s \in Seq(S), NEW f, \A x \in Range(s) : IsText(f[x])
  PROVE  /\ Texts([i \in DOMAIN s |-> f[s[i]]], Len(s))
         /\ IsText(FlattenSeq([i \in DOMAIN s |-> f[s[i]]]))
<1> DEFINE ts == [i \in DOMAIN s |-> f[s[i]]]
           T == {f[x] : x \in Range(s)}
<1>1. Len(s) \in Nat /\ DOMAIN s = 1 .. Len(s) /\ \A i \in DOMAIN s : s[i] \in Range(s)
  BY DEF Range
<1>2. ts \in [1 .. Len(s) -> T]
  BY <1>1
<1>3. \A i \in 1 .. Len(s) : ts[i] = f[s[i]]
  BY <1>1
<1> HIDE DEF ts, T
<1>4. ts \in Seq(T) /\ Len(ts) = Len(s)
  BY <1>1, <1>2
<1>5. IsStack(ts)
  BY <1>4, SeqIsStack, Zenon
<1>6. Texts(ts, Len(s))
  BY <1>1, <1>3, <1>4, <1>5 DEF Texts
<1>7. IsText(FlattenSeq(ts))
  <2>1. PICK g : FlattenSeq(ts) = g[Len(s)] /\ \A i \in 0 .. Len(s) : IsText(g[i])
    BY <1>1, <1>6, FlatJoins
  <2> QED BY <1>1, <2>1
<1> QED
  BY <1>6, <1>7 DEF ts

\* They are texts.
LEMMA ExprIsText ==
  \A e \in Exprs : IsText(GenExpr[e]) /\ IsText(SourceExpr[e])
<1> DEFINE depth == [e \in Exprs |-> Depth[e]]
           T == {e \in Exprs : ~(IsText(GenExpr[e]) /\ IsText(SourceExpr[e]))}
<1> SUFFICES ASSUME T # {}
             PROVE  FALSE
  OBVIOUS
<1>1. depth \in [Exprs -> Nat]
  BY ValidatorAssumption DEF AreTrees
<1>2. PICK e \in T : \A y \in T : depth[e] =< depth[y]
  <2>1. T \in SUBSET Exprs
    OBVIOUS
  <2> HIDE DEF T, depth
  <2> QED BY <1>1, <2>1, Shallowest
<1>3. e \in Exprs /\ ~(IsText(GenExpr[e]) /\ IsText(SourceExpr[e]))
  BY <1>2
<1>4. ASSUME NEW p \in Parts(e)
      PROVE  IsText(GenExpr[p]) /\ IsText(SourceExpr[p])
  <2>1. p \in Exprs /\ Depth[p] < Depth[e]
    BY <1>3, ExprParts
  <2>2. depth[p] < depth[e] /\ depth[p] \in Nat /\ depth[e] \in Nat
    BY <1>1, <1>3, <2>1
  <2>3. p \notin T
    <3> HIDE DEF T, depth
    <3> QED BY <1>2, <2>2
  <2> QED BY <2>1, <2>3
<1>5. \A key : IsText(Uses(key))
  BY LittleText
<1>6. GenExpr[e] = CWriting(e, GenExpr) /\ SourceExpr[e] = SourceWriting(e, SourceExpr)
  BY <1>3, ExprTexts
<1>7. CASE e.kind = "call"
  <2>1. e.args \in Seq(Exprs) /\ \A x \in Range(e.args) : IsText(GenExpr[x]) /\ IsText(SourceExpr[x])
    BY <1>3, <1>4, <1>7, ValidatorAssumption DEF AreTrees, Parts
  <2>2. /\ IsText(FlattenSeq([i \in DOMAIN e.args |-> GenExpr[e.args[i]]]))
        /\ IsText(FlattenSeq([i \in DOMAIN e.args |-> SourceExpr[e.args[i]]]))
    BY <2>1, MappedTexts
  <2> QED BY <1>3, <1>5, <1>6, <1>7, <2>2, ConcatText DEF CWriting, SourceWriting
<1>8. CASE e.kind = "binary"
  <2>1. e.left \in Parts(e) /\ e.right \in Parts(e)
    BY <1>8 DEF Parts
  <2> QED BY <1>3, <1>4, <1>6, <1>8, <2>1, ConcatText DEF CWriting, SourceWriting
<1>9. CASE e.kind \notin {"call", "binary"}
  BY <1>3, <1>5, <1>6, <1>9, LittleText DEF CWriting, SourceWriting
<1> QED
  BY <1>7, <1>8, <1>9

-----------------------------------------------------------------------------
(* The texts of statements *)

Branch(text, braces) == IF braces THEN InScope(text) ELSE text

\* The text of s when own has that of its expressions, f those of its parts.
WritingStmt(s, f, own, braces) ==
  CASE s.kind \in {"expr", "return", "var"} -> own[s]
    [] s.kind = "block" -> InScope(FlattenSeq([i \in DOMAIN s.stmts |-> f[s.stmts[i]]]))
    [] s.kind = "if"    -> own[s] \o Branch(f[s.then], braces)
                             \o IF s.else = None THEN <<>> ELSE Branch(f[s.else], braces)
    [] OTHER            -> <<>>

StmtPieces(own) == {[is |-> "open"], [is |-> "close"]} \cup UNION {Range(own[s]) : s \in Stmts}

\* Each statement has a text.
LEMMA StmtWritingSolvable ==
  ASSUME NEW own, \A s \in Stmts : IsText(own[s]), NEW braces
  PROVE  \E f \in [Stmts -> Seq(StmtPieces(own))] : \A s \in Stmts : f[s] = WritingStmt(s, f, own, braces)
<1> DEFINE P == StmtPieces(own)
           R == Seq(P)
           Step == [s \in Stmts |-> [f \in [Stmts -> R] |-> WritingStmt(s, f, own, braces)]]
           depth == [s \in Stmts |-> Depth[s]]
<1>1. depth \in [Stmts -> Nat]
  BY ValidatorAssumption DEF AreTrees
<1>2. \A s \in Stmts : \A p \in Parts(s) : p \in Stmts /\ depth[p] < depth[s]
  BY StmtParts
<1> HIDE DEF depth
<1>3. Step \in [Stmts -> [[Stmts -> R] -> R]]
  <2> SUFFICES ASSUME NEW s \in Stmts, NEW f \in [Stmts -> R]
               PROVE  WritingStmt(s, f, own, braces) \in R
    OBVIOUS
  <2>1. own[s] \in R
    <3>1. PICK T : T = Range(own[s])
      OBVIOUS
    <3>2. own[s] \in Seq(T)
      BY <3>1, Zenon DEF IsText, IsStack
    <3>3. T \subseteq P
      BY <3>1 DEF StmtPieces
    <3> HIDE DEF P
    <3> QED BY <3>2, <3>3
  <2>2. \A p \in Parts(s) : f[p] \in R
    BY <1>2
  <2>3. \A t \in R : InScope(t) \in R /\ Branch(t, braces) \in R
    <3>1. Open \in R /\ Close \in R
      BY DEF Open, Close, StmtPieces
    <3> HIDE DEF P
    <3> QED BY <3>1 DEF InScope, Branch
  <2>4. CASE s.kind = "block"
    <3>1. s.stmts \in Seq(Stmts) /\ \A x \in Range(s.stmts) : f[x] \in Seq(P)
      BY <2>2, <2>4, ValidatorAssumption DEF AreTrees, Parts
    <3> DEFINE ts == [i \in DOMAIN s.stmts |-> f[s.stmts[i]]]
    <3>2. ts \in Seq(Seq(P))
      <4> HIDE DEF P
      <4> QED BY <3>1, MapTexts
    <3>3. \A p \in P : p.is \in PieceKinds
      <4>1. [is |-> "open"].is \in PieceKinds /\ [is |-> "close"].is \in PieceKinds
        BY DEF PieceKinds
      <4>2. \A x \in Stmts : \A p \in Range(own[x]) : p.is \in PieceKinds
        BY DEF IsText, Range
      <4> QED BY <4>1, <4>2 DEF StmtPieces
    <3> HIDE DEF ts, P
    <3>4. FlattenSeq(ts) \in Seq(P)
      BY <3>2, <3>3, FlatPieces
    <3>5. WritingStmt(s, f, own, braces) = InScope(FlattenSeq(ts))
      BY <2>4 DEF WritingStmt, ts
    <3> QED BY <2>3, <3>4, <3>5
  <2>5. CASE s.kind = "if"
    <3>0. s.then \in Stmts /\ None \notin Stmts
      BY <2>5, ValidatorAssumption DEF AreTrees
    <3>1. f[s.then] \in R /\ (s.else # None => f[s.else] \in R)
      BY <2>2, <2>5, <3>0 DEF Parts
    <3>2. PICK a, b, c : a = own[s] /\ b = Branch(f[s.then], braces)
                         /\ c = IF s.else = None THEN <<>> ELSE Branch(f[s.else], braces)
      OBVIOUS
    <3>3. a \in R /\ b \in R /\ c \in R
      <4>1. <<>> \in R
        OBVIOUS
      <4> HIDE DEF R
      <4> QED BY <2>1, <2>3, <3>1, <3>2, <4>1
    <3>4. WritingStmt(s, f, own, braces) = a \o b \o c
      BY <2>5, <3>2 DEF WritingStmt
    <3> HIDE DEF P
    <3> QED BY <3>3, <3>4
  <2>6. CASE s.kind \notin {"block", "if"}
    <3>1. <<>> \in R
      OBVIOUS
    <3> HIDE DEF R
    <3> QED BY <2>1, <2>6, <3>1 DEF WritingStmt
  <2> QED BY <2>4, <2>5, <2>6
<1>4. LooksDeeper(Stmts, R, depth, Step)
  <2> SUFFICES ASSUME NEW s \in Stmts, NEW f \in [Stmts -> R], NEW g \in [Stmts -> R],
                      \A p \in Stmts : depth[p] < depth[s] => f[p] = g[p]
               PROVE  WritingStmt(s, f, own, braces) = WritingStmt(s, g, own, braces)
    BY DEF LooksDeeper
  <2>1. \A p \in Parts(s) : f[p] = g[p]
    BY <1>2
  <2>2. CASE s.kind = "block"
    <3>1. \A i \in DOMAIN s.stmts : f[s.stmts[i]] = g[s.stmts[i]]
      BY <2>1, <2>2 DEF Parts, Range
    <3>2. [i \in DOMAIN s.stmts |-> f[s.stmts[i]]] = [i \in DOMAIN s.stmts |-> g[s.stmts[i]]]
      BY <3>1
    <3> QED BY <2>2, <3>2 DEF WritingStmt
  <2>3. CASE s.kind = "if"
    <3>0. s.then \in Stmts /\ None \notin Stmts
      BY <2>3, ValidatorAssumption DEF AreTrees
    <3>1. f[s.then] = g[s.then] /\ (s.else # None => f[s.else] = g[s.else])
      BY <2>1, <2>3, <3>0 DEF Parts
    <3> QED BY <2>3, <3>1 DEF WritingStmt
  <2>4. CASE s.kind \notin {"block", "if"}
    BY <2>4 DEF WritingStmt
  <2> QED
    BY <2>2, <2>3, <2>4
<1>5. Solvable(Stmts, R, Step)
  <2>1. R # {}
    <3>1. <<>> \in R
      OBVIOUS
    <3> QED BY <3>1
  <2> HIDE DEF Step, R
  <2> QED BY <1>1, <1>3, <1>4, <2>1, TreeRecursion, Zenon
<1>6. PICK f \in [Stmts -> R] : \A s \in Stmts : f[s] = WritingStmt(s, f, own, braces)
  BY <1>5 DEF Solvable
<1> QED
  BY <1>6

\* The text of an expression that may be missing, and that of a variable.
LEMMA OwnTexts ==
  /\ \A e \in Exprs \cup {None} : IsText(GenIfAny(e)) /\ IsText(SourceIfAny(e))
  /\ \A d : d.init \in Exprs \cup {None} => IsText(GenVar(d)) /\ IsText(SourceVar(d))
<1>1. ASSUME NEW e \in Exprs \cup {None}
      PROVE  IsText(GenIfAny(e)) /\ IsText(SourceIfAny(e))
  BY ExprIsText, LittleText DEF GenIfAny, SourceIfAny
<1>2. ASSUME NEW d, d.init \in Exprs \cup {None}
      PROVE  IsText(GenVar(d)) /\ IsText(SourceVar(d))
  BY <1>1, <1>2, ConcatText, LittleText DEF GenVar, SourceVar
<1> QED
  BY <1>1, <1>2

\* The two texts of a statement, when f has those of its parts.
CWritingStmt(s, f) ==
  CASE s.kind \in {"expr", "return"} -> GenIfAny(s.expr)
    [] s.kind = "var"   -> GenVar(s)
    [] s.kind = "block" -> GenBlock([i \in DOMAIN s.stmts |-> f[s.stmts[i]]])
    [] s.kind = "if"    -> GenIfAny(s.cond) \o InScope(f[s.then])
                             \o IF s.else = None THEN <<>> ELSE InScope(f[s.else])
    [] OTHER            -> <<>>
SourceWritingStmt(s, f) ==
  CASE s.kind \in {"expr", "return"} -> SourceIfAny(s.expr)
    [] s.kind = "var"   -> SourceVar(s)
    [] s.kind = "block" -> InScope(FlattenSeq([i \in DOMAIN s.stmts |-> f[s.stmts[i]]]))
    [] s.kind = "if"    -> SourceIfAny(s.cond) \o f[s.then] \o IF s.else = None THEN <<>> ELSE f[s.else]
    [] OTHER            -> <<>>

\* The texts of a statement.
LEMMA StmtTexts ==
  \A s \in Stmts : /\ GenStmt[s] = CWritingStmt(s, GenStmt)
                   /\ SourceStmt[s] = SourceWritingStmt(s, SourceStmt)
<1> DEFINE COwn == [s \in Stmts |-> CASE s.kind \in {"expr", "return"} -> GenIfAny(s.expr)
                                      [] s.kind = "var" -> GenVar(s)
                                      [] s.kind = "if" -> GenIfAny(s.cond)
                                      [] OTHER -> <<>>]
           SourceOwn == [s \in Stmts |-> CASE s.kind \in {"expr", "return"} -> SourceIfAny(s.expr)
                                           [] s.kind = "var" -> SourceVar(s)
                                           [] s.kind = "if" -> SourceIfAny(s.cond)
                                           [] OTHER -> <<>>]
<1>1. ASSUME NEW s \in Stmts
      PROVE  IsText(COwn[s]) /\ IsText(SourceOwn[s])
  <2>1. /\ s.kind \in {"expr", "return"} => s.expr \in Exprs \cup {None}
        /\ s.kind = "var" => s.init \in Exprs \cup {None}
        /\ s.kind = "if" => s.cond \in Exprs
    BY ValidatorAssumption DEF AreTrees
  <2> QED BY <2>1, OwnTexts, LittleText
<1>2. ASSUME NEW s \in Stmts, NEW f
      PROVE  CWritingStmt(s, f) = WritingStmt(s, f, COwn, TRUE)
  <2>1. \A text : Branch(text, TRUE) = InScope(text)
    BY DEF Branch
  <2> QED BY <2>1 DEF CWritingStmt, WritingStmt, GenBlock
<1>3. ASSUME NEW s \in Stmts, NEW f
      PROVE  SourceWritingStmt(s, f) = WritingStmt(s, f, SourceOwn, FALSE)
  <2>1. \A text : Branch(text, FALSE) = text
    BY DEF Branch
  <2> QED BY <2>1 DEF SourceWritingStmt, WritingStmt
<1> HIDE DEF COwn, SourceOwn
<1>4. PICK f \in [Stmts -> Seq(StmtPieces(COwn))] : \A s \in Stmts : f[s] = CWritingStmt(s, f)
  BY <1>1, <1>2, StmtWritingSolvable
<1>5. PICK g \in [Stmts -> Seq(StmtPieces(SourceOwn))] : \A s \in Stmts : g[s] = SourceWritingStmt(s, g)
  BY <1>1, <1>3, StmtWritingSolvable
<1>6. f = [s \in Stmts |-> CWritingStmt(s, f)] /\ g = [s \in Stmts |-> SourceWritingStmt(s, g)]
  BY <1>4, <1>5
<1>7. GenStmt = [s \in Stmts |-> CWritingStmt(s, GenStmt)]
  BY <1>6 DEF GenStmt, CWritingStmt
<1>8. SourceStmt = [s \in Stmts |-> SourceWritingStmt(s, SourceStmt)]
  BY <1>6 DEF SourceStmt, SourceWritingStmt
<1>9. ASSUME NEW s \in Stmts
      PROVE  GenStmt[s] = CWritingStmt(s, GenStmt)
  BY <1>7
<1>10. ASSUME NEW s \in Stmts
       PROVE  SourceStmt[s] = SourceWritingStmt(s, SourceStmt)
  BY <1>8
<1> QED
  BY <1>9, <1>10

\* They are texts.
LEMMA StmtIsText ==
  \A s \in Stmts : IsText(GenStmt[s]) /\ IsText(SourceStmt[s])
<1> DEFINE depth == [s \in Stmts |-> Depth[s]]
           T == {s \in Stmts : ~(IsText(GenStmt[s]) /\ IsText(SourceStmt[s]))}
<1> SUFFICES ASSUME T # {}
             PROVE  FALSE
  OBVIOUS
<1>1. depth \in [Stmts -> Nat]
  BY ValidatorAssumption DEF AreTrees
<1>2. PICK s \in T : \A y \in T : depth[s] =< depth[y]
  <2>1. T \in SUBSET Stmts
    OBVIOUS
  <2> HIDE DEF T, depth
  <2> QED BY <1>1, <2>1, Shallowest
<1>3. s \in Stmts /\ ~(IsText(GenStmt[s]) /\ IsText(SourceStmt[s]))
  BY <1>2
<1>4. ASSUME NEW p \in Parts(s)
      PROVE  IsText(GenStmt[p]) /\ IsText(SourceStmt[p])
  <2>1. p \in Stmts /\ Depth[p] < Depth[s]
    BY <1>3, StmtParts
  <2>2. depth[p] < depth[s] /\ depth[p] \in Nat /\ depth[s] \in Nat
    BY <1>1, <1>3, <2>1
  <2>3. p \notin T
    <3> HIDE DEF T, depth
    <3> QED BY <1>2, <2>2
  <2> QED BY <2>1, <2>3
<1>5. GenStmt[s] = CWritingStmt(s, GenStmt) /\ SourceStmt[s] = SourceWritingStmt(s, SourceStmt)
  BY <1>3, StmtTexts
<1>6. \A t : IsText(t) => IsText(InScope(t))
  BY ConcatText, LittleText DEF InScope
<1>7. CASE s.kind = "block"
  <2>1. s.stmts \in Seq(Stmts) /\ \A x \in Range(s.stmts) : IsText(GenStmt[x]) /\ IsText(SourceStmt[x])
    BY <1>3, <1>4, <1>7, ValidatorAssumption DEF AreTrees, Parts
  <2>2. /\ IsText(FlattenSeq([i \in DOMAIN s.stmts |-> GenStmt[s.stmts[i]]]))
        /\ IsText(FlattenSeq([i \in DOMAIN s.stmts |-> SourceStmt[s.stmts[i]]]))
    BY <2>1, MappedTexts
  <2> QED BY <1>3, <1>5, <1>6, <1>7, <2>2 DEF CWritingStmt, SourceWritingStmt, GenBlock
<1>8. CASE s.kind = "if"
  <2>1. s.cond \in Exprs /\ s.then \in Parts(s) /\ (s.else # None => s.else \in Parts(s))
    <3>1. s.cond \in Exprs /\ s.then \in Stmts /\ None \notin Stmts
      BY <1>3, <1>8, ValidatorAssumption DEF AreTrees
    <3> QED BY <1>8, <3>1 DEF Parts
  <2>2. IsText(GenIfAny(s.cond)) /\ IsText(SourceIfAny(s.cond))
    BY <2>1, OwnTexts
  <2>3. PICK c, d : /\ c = IF s.else = None THEN <<>> ELSE InScope(GenStmt[s.else])
                    /\ d = IF s.else = None THEN <<>> ELSE SourceStmt[s.else]
    OBVIOUS
  <2>4. IsText(c) /\ IsText(d) /\ IsText(InScope(GenStmt[s.then])) /\ IsText(SourceStmt[s.then])
    BY <1>4, <1>6, <2>1, <2>3, LittleText
  <2>5. /\ GenStmt[s] = (GenIfAny(s.cond) \o InScope(GenStmt[s.then])) \o c
        /\ SourceStmt[s] = (SourceIfAny(s.cond) \o SourceStmt[s.then]) \o d
    BY <1>5, <1>8, <2>3 DEF CWritingStmt, SourceWritingStmt
  <2> QED BY <1>3, <2>2, <2>4, <2>5, ConcatText
<1>9. CASE s.kind \notin {"block", "if"}
  <2>1. /\ s.kind \in {"expr", "return"} => s.expr \in Exprs \cup {None}
        /\ s.kind = "var" => s.init \in Exprs \cup {None}
    BY <1>3, ValidatorAssumption DEF AreTrees
  <2> QED BY <1>3, <1>5, <1>9, <2>1, OwnTexts, LittleText DEF CWritingStmt, SourceWritingStmt
<1> QED
  BY <1>7, <1>8, <1>9

\* Whether a branch declares something, when f says it of the parts.
BranchDeclaring(s, f) ==
  CASE s.kind = "block" -> \E t \in Range(s.stmts) : f[t]
    [] s.kind = "if"    -> \/ LeavesDeclared[s] # {}
                           \/ \E t \in {s.then, s.else} \ {None} : f[t]
    [] OTHER            -> FALSE

\* It is defined for every statement.
LEMMA BranchDeclaresDefined ==
  \A s \in Stmts : BranchDeclares[s] = BranchDeclaring(s, BranchDeclares)
<1> DEFINE Step == [s \in Stmts |-> [f \in [Stmts -> BOOLEAN] |-> BranchDeclaring(s, f)]]
           depth == [s \in Stmts |-> Depth[s]]
<1>1. depth \in [Stmts -> Nat]
  BY ValidatorAssumption DEF AreTrees
<1>2. \A s \in Stmts : \A p \in Parts(s) : p \in Stmts /\ depth[p] < depth[s]
  BY StmtParts
<1> HIDE DEF depth
<1>3. Step \in [Stmts -> [[Stmts -> BOOLEAN] -> BOOLEAN]]
  BY DEF BranchDeclaring
<1>4. LooksDeeper(Stmts, BOOLEAN, depth, Step)
  <2> SUFFICES ASSUME NEW s \in Stmts, NEW f \in [Stmts -> BOOLEAN], NEW g \in [Stmts -> BOOLEAN],
                      \A p \in Stmts : depth[p] < depth[s] => f[p] = g[p]
               PROVE  BranchDeclaring(s, f) = BranchDeclaring(s, g)
    BY DEF LooksDeeper
  <2>1. \A p \in Parts(s) : f[p] = g[p]
    BY <1>2
  <2>2. CASE s.kind = "block"
    BY <2>1, <2>2 DEF Parts, BranchDeclaring
  <2>3. CASE s.kind = "if"
    BY <2>1, <2>3 DEF Parts, BranchDeclaring
  <2>4. CASE s.kind \notin {"block", "if"}
    BY <2>4 DEF BranchDeclaring
  <2> QED
    BY <2>2, <2>3, <2>4
<1>5. Solvable(Stmts, BOOLEAN, Step)
  <2>1. BOOLEAN # {}
    OBVIOUS
  <2> HIDE DEF Step
  <2> QED BY <1>1, <1>3, <1>4, <2>1, TreeRecursion, Zenon
<1>6. PICK f \in [Stmts -> BOOLEAN] : \A s \in Stmts : f[s] = BranchDeclaring(s, f)
  BY <1>5 DEF Solvable
<1>7. f = [s \in Stmts |-> BranchDeclaring(s, f)]
  BY <1>6
<1>8. BranchDeclares = [s \in Stmts |-> BranchDeclaring(s, BranchDeclares)]
  BY <1>7 DEF BranchDeclares, BranchDeclaring
<1> QED
  BY <1>8

-----------------------------------------------------------------------------
(* Two readers *)

\* A reader of a text.
IsState(st) ==
  /\ st = [scopes |-> st.scopes, locals |-> st.locals, uses |-> st.uses, twice |-> st.twice]
  /\ IsStack(st.scopes) /\ st.twice \in BOOLEAN

\* What a name stands for.
Find(st, key) ==
  LET levels == Holders(st, key) IN
  IF levels = {} THEN <<0, "">> ELSE st.scopes[Max(levels)][key]

\* What the pieces of a text do to a reader.
LEMMA ReadsPiece ==
  ASSUME NEW u, NEW a, NEW b, IsState(a)
  PROVE  /\ Reads(u, a, Open, b) => b = [a EXCEPT !.scopes = Append(a.scopes, <<>>)]
         /\ Reads(u, a, Close, b) => b = [a EXCEPT !.scopes = Front(a.scopes)]
         /\ \A key, name : Reads(u, a, DeclGlobal(key, name), b) => b = Declares(a, key, <<u, name>>)
         /\ \A key, name : Reads(u, a, DeclLocal(key, name), b) =>
              b = Declares([a EXCEPT !.locals = @ + 1], key, <<-(a.locals + 1), name>>)
<1>1. \A p : Reads(u, a, <<p>>, b) => b = Read(u, a, p)
  BY ReadsLittle
<1>2. Read(u, a, [is |-> "open"]) = [a EXCEPT !.scopes = Append(a.scopes, <<>>)]
  BY DEF Read, EnterScope
<1>3. Read(u, a, [is |-> "close"]) = [a EXCEPT !.scopes = Front(a.scopes)]
  BY DEF Read, ExitScope
<1>5. ASSUME NEW key, NEW name
      PROVE  Read(u, a, [is |-> "global", key |-> key, name |-> name]) = Declares(a, key, <<u, name>>)
  BY DEF Read
<1>6. ASSUME NEW key, NEW name
      PROVE  Read(u, a, [is |-> "local", key |-> key, name |-> name])
               = Declares([a EXCEPT !.locals = @ + 1], key, <<-(a.locals + 1), name>>)
  BY DEF Read
<1> QED
  BY <1>1, <1>2, <1>3, <1>5, <1>6 DEF Open, Close, DeclGlobal, DeclLocal

\* What a name stands for depends on the scopes.
LEMMA FindSame ==
  ASSUME NEW a, NEW b, a.scopes = b.scopes
  PROVE  \A key : Find(a, key) = Find(b, key)
BY DEF Find, Holders

\* Stacks with the same elements are the same.
LEMMA SameStacks ==
  ASSUME NEW r, NEW q, IsStack(r), IsStack(q), Len(r) = Len(q), \A l \in 1 .. Len(r) : r[l] = q[l]
  PROVE  r = q
<1>1. PICK A, B : A = Range(r) /\ B = Range(q)
  OBVIOUS
<1>2. r \in Seq(A) /\ q \in Seq(B)
  BY <1>1, Zenon DEF IsStack
<1> QED
  BY <1>2

\* Nothing but the scopes changes, nothing but the uses.
OnlyScopes(a, b) == IsState(b) /\ b.locals = a.locals /\ b.uses = a.uses /\ b.twice = a.twice
OnlyUses(a, b) == IsState(b) /\ b.locals = a.locals /\ b.scopes = a.scopes /\ b.twice = a.twice

\* A scope that is entered changes nothing about the names.
LEMMA OpenKeeps ==
  ASSUME NEW u, NEW a, NEW b, IsState(a), Reads(u, a, Open, b)
  PROVE  /\ OnlyScopes(a, b) /\ b.scopes # <<>>
         /\ Front(b.scopes) = a.scopes /\ DOMAIN Last(b.scopes) = {}
         /\ \A key : Find(b, key) = Find(a, key)
<1>1. b = [a EXCEPT !.scopes = Append(a.scopes, <<>>)]
  BY ReadsPiece
<1>2. b = [scopes |-> Append(a.scopes, <<>>), locals |-> a.locals, uses |-> a.uses, twice |-> a.twice]
  BY <1>1 DEF IsState
<1>3. Grown(a.scopes, Append(a.scopes, <<>>), <<>>)
  BY StackMoves DEF IsState
<1> PICK n, ss, ts : n = Len(ss) /\ ss = a.scopes /\ ts = Append(a.scopes, <<>>)
  OBVIOUS
<1>4. /\ n \in Nat /\ DOMAIN ss = 1 .. n /\ DOMAIN ts = 1 .. n + 1 /\ Len(ts) = n + 1
      /\ IsStack(ss) /\ IsStack(ts) /\ ts[n + 1] = <<>> /\ \A l \in 1 .. n : ts[l] = ss[l]
  BY <1>3, StackFacts DEF Grown, IsState
<1>5. OnlyScopes(a, b) /\ b.scopes = ts
  BY <1>2, <1>4 DEF OnlyScopes, IsState
<1>6. ts # <<>> /\ DOMAIN Last(ts) = {}
  <2>1. Last(ts) = <<>>
    BY <1>4 DEF Last
  <2> QED BY <1>4, <2>1
<1>7. Front(ts) = ss
  <2>1. Shrunk(ts, Front(ts))
    <3>1. IsStack(ts) /\ Len(ts) > 0
      BY <1>4
    <3> QED BY <3>1, StackMoves, Zenon
  <2> PICK r : r = Front(ts)
    OBVIOUS
  <2>2. IsStack(r) /\ Len(r) = n /\ DOMAIN r = 1 .. n /\ \A l \in 1 .. n : r[l] = ss[l]
    BY <1>4, <2>1, StackFacts DEF Shrunk
  <2>3. r = ss
    BY <1>4, <2>2, SameStacks
  <2> QED BY <2>3
<1>8. ASSUME NEW key
      PROVE  Find(b, key) = Find(a, key)
  <2>1. Holders(b, key) = {l \in 1 .. n + 1 : key \in DOMAIN ts[l]}
    BY <1>4, <1>5 DEF Holders
  <2>2. Holders(a, key) = {l \in 1 .. n : key \in DOMAIN ss[l]}
    BY <1>4 DEF Holders
  <2>3. key \notin DOMAIN ts[n + 1]
    BY <1>4
  <2>4. Holders(b, key) = Holders(a, key)
    BY <1>4, <2>1, <2>2, <2>3
  <2>5. Holders(a, key) # {} => Max(Holders(a, key)) \in 1 .. n
    <3>1. Holders(a, key) \in SUBSET (1 .. n)
      BY <2>2
    <3> QED BY <1>4, <3>1, Greatest
  <2> QED BY <1>4, <1>5, <2>4, <2>5 DEF Find
<1> QED
  BY <1>5, <1>6, <1>7, <1>8

\* A scope is left.
LEMMA CloseKeeps ==
  ASSUME NEW u, NEW a, NEW b, IsState(a), a.scopes # <<>>, Reads(u, a, Close, b)
  PROVE  OnlyScopes(a, b) /\ b.scopes = Front(a.scopes)
<1>1. b = [a EXCEPT !.scopes = Front(a.scopes)]
  BY ReadsPiece
<1>2. b = [scopes |-> Front(a.scopes), locals |-> a.locals, uses |-> a.uses, twice |-> a.twice]
  BY <1>1 DEF IsState
<1>3. IsStack(Front(a.scopes))
  <2>1. IsStack(a.scopes) /\ Len(a.scopes) > 0
    <3>1. PICK A : A = Range(a.scopes)
      OBVIOUS
    <3>2. a.scopes \in Seq(A)
      BY <3>1, Zenon DEF IsState, IsStack
    <3> QED BY <3>2 DEF IsState
  <2> QED BY <2>1, StackMoves DEF Shrunk
<1> QED
  BY <1>2, <1>3 DEF OnlyScopes, IsState

\* A name is used.
LEMMA UseKeeps ==
  ASSUME NEW u, NEW a, NEW b, NEW key, IsState(a), Reads(u, a, Uses(key), b)
  PROVE  OnlyUses(a, b) /\ b.uses = Append(a.uses, Find(a, key))
<1>1. b = [a EXCEPT !.uses = Append(a.uses, Find(a, key))]
  <2> DEFINE p == [is |-> "use", key |-> key]
  <2>1. Read(u, a, p) = [a EXCEPT !.uses = Append(a.uses, Find(a, key))]
    BY DEF Read, Find
  <2>2. Reads(u, a, <<p>>, b)
    BY DEF Uses
  <2> HIDE DEF p
  <2>3. b = Read(u, a, p)
    BY <2>2, ReadsLittle
  <2> QED BY <2>1, <2>3
<1>2. b = [scopes |-> a.scopes, locals |-> a.locals, uses |-> Append(a.uses, Find(a, key)), twice |-> a.twice]
  BY <1>1 DEF IsState
<1> QED
  BY <1>2 DEF OnlyUses, IsState

\* A name is declared in the innermost scope.
LEMMA DeclaresTop ==
  ASSUME NEW a, NEW b, NEW key, NEW meaning, IsState(a), a.scopes # <<>>, b = Declares(a, key, meaning)
  PROVE  /\ IsState(b) /\ b.locals = a.locals /\ b.uses = a.uses
         /\ b.twice = (a.twice \/ key \in DOMAIN Last(a.scopes))
         /\ IsStack(a.scopes) /\ Len(a.scopes) \in Nat \ {0} /\ Last(a.scopes) = a.scopes[Len(a.scopes)]
         /\ Topped(a.scopes, b.scopes, Put(Last(a.scopes), key, meaning))
<1> PICK ss, n : ss = a.scopes /\ n = Len(ss)
  OBVIOUS
<1>1. IsStack(ss) /\ n \in Nat \ {0} /\ DOMAIN ss = 1 .. n /\ Last(ss) = ss[n]
  <2>1. PICK A : A = Range(ss)
    OBVIOUS
  <2>2. ss \in Seq(A) /\ IsStack(ss)
    BY <2>1, Zenon DEF IsState, IsStack
  <2> QED BY <2>2 DEF Last
<1> PICK top : top = Put(ss[n], key, meaning)
  OBVIOUS
<1> PICK ts : ts = [ss EXCEPT ![n] = top]
  OBVIOUS
<1>2. b = [scopes |-> ts, locals |-> a.locals, uses |-> a.uses,
           twice |-> a.twice \/ key \in DOMAIN ss[n]]
  BY DEF Declares, IsState
<1>3. Topped(ss, ts, top)
  BY <1>1, StackMoves
<1>4. IsState(b) /\ b.scopes = ts
  BY <1>2, <1>3 DEF IsState, Topped
<1> QED
  BY <1>1, <1>2, <1>3, <1>4

\* What does not change then, and what the innermost scope has.
LEMMA DeclaresKeeps ==
  ASSUME NEW a, NEW b, NEW key, NEW meaning, IsState(a), a.scopes # <<>>, b = Declares(a, key, meaning)
  PROVE  /\ IsState(b) /\ b.locals = a.locals /\ b.uses = a.uses
         /\ b.twice = (a.twice \/ key \in DOMAIN Last(a.scopes))
         /\ b.scopes # <<>> /\ Front(b.scopes) = Front(a.scopes) /\ Len(b.scopes) = Len(a.scopes)
         /\ Last(b.scopes) = Put(Last(a.scopes), key, meaning)
         /\ DOMAIN Last(b.scopes) = DOMAIN Last(a.scopes) \cup {key}
<1>1. /\ IsState(b) /\ b.locals = a.locals /\ b.uses = a.uses
      /\ b.twice = (a.twice \/ key \in DOMAIN Last(a.scopes))
      /\ IsStack(a.scopes) /\ Len(a.scopes) \in Nat \ {0} /\ Last(a.scopes) = a.scopes[Len(a.scopes)]
      /\ Topped(a.scopes, b.scopes, Put(Last(a.scopes), key, meaning))
  BY DeclaresTop
<1> PICK ss, ts, n, top : ss = a.scopes /\ ts = b.scopes /\ n = Len(ss) /\ top = Put(Last(ss), key, meaning)
  OBVIOUS
<1>2. /\ IsStack(ss) /\ n \in Nat \ {0} /\ IsStack(ts) /\ Len(ts) = n /\ DOMAIN ts = 1 .. n /\ ts[n] = top
      /\ \A l \in 1 .. n - 1 : ts[l] = ss[l]
  BY <1>1, StackFacts DEF Topped
<1>3. Front(ts) = Front(ss)
  <2>1. Shrunk(ts, Front(ts)) /\ Shrunk(ss, Front(ss))
    BY <1>2, StackMoves
  <2> PICK r, q : r = Front(ts) /\ q = Front(ss)
    OBVIOUS
  <2>2. IsStack(r) /\ IsStack(q) /\ Len(r) = Len(q) /\ \A l \in 1 .. Len(r) : r[l] = q[l]
    <3>1. /\ IsStack(r) /\ Len(r) = n - 1 /\ \A l \in 1 .. n - 1 : r[l] = ts[l]
          /\ IsStack(q) /\ Len(q) = n - 1 /\ \A l \in 1 .. n - 1 : q[l] = ss[l]
      BY <1>2, <2>1 DEF Shrunk
    <3> QED BY <1>2, <3>1
  <2>3. r = q
    BY <2>2, SameStacks
  <2> QED BY <2>3
<1>4. ts # <<>> /\ Last(ts) = top
  BY <1>2 DEF Last
<1>5. DOMAIN top = DOMAIN Last(ss) \cup {key}
  BY DEF Put
<1> QED
  BY <1>1, <1>2, <1>3, <1>4, <1>5

\* It stands for its meaning there, the other names for what they stood for.
LEMMA DeclaresFinds ==
  ASSUME NEW a, NEW b, NEW key, NEW meaning, NEW k,
         IsState(a), a.scopes # <<>>, b = Declares(a, key, meaning)
  PROVE  (k = key => Find(b, k) = meaning) /\ (k # key => Find(b, k) = Find(a, k))
<1>1. /\ IsStack(a.scopes) /\ Len(a.scopes) \in Nat \ {0} /\ Last(a.scopes) = a.scopes[Len(a.scopes)]
      /\ Topped(a.scopes, b.scopes, Put(Last(a.scopes), key, meaning))
  BY DeclaresTop
<1> PICK ss, ts, n, top : ss = a.scopes /\ ts = b.scopes /\ n = Len(ss) /\ top = Put(ss[n], key, meaning)
  OBVIOUS
<1>2. /\ IsStack(ss) /\ n \in Nat \ {0} /\ DOMAIN ss = 1 .. n
      /\ IsStack(ts) /\ Len(ts) = n /\ DOMAIN ts = 1 .. n /\ ts[n] = top
      /\ \A l \in 1 .. n - 1 : ts[l] = ss[l]
  BY <1>1, StackFacts DEF Topped
<1>3. DOMAIN top = DOMAIN ss[n] \cup {key} /\ top[key] = meaning
  BY DEF Put
<1>4. ASSUME k = key
      PROVE  Find(b, k) = meaning
  <2>1. Holders(b, key) = {l \in 1 .. n : key \in DOMAIN ts[l]}
    BY <1>2 DEF Holders
  <2>2. n \in Holders(b, key) /\ \A l \in Holders(b, key) : l \in 1 .. n /\ n >= l
    BY <1>2, <1>3, <2>1
  <2>3. Max(Holders(b, key)) = n
    <3>1. \A x \in Holders(b, key) : (\A y \in Holders(b, key) : x >= y) => x = n
      BY <1>2, <2>2
    <3> QED BY <2>2, <3>1 DEF Max
  <2> QED BY <1>2, <1>3, <1>4, <2>2, <2>3 DEF Find
<1>5. ASSUME k # key
      PROVE  Find(b, k) = Find(a, k)
  <2>1. k \in DOMAIN top <=> k \in DOMAIN ss[n]
    BY <1>3, <1>5
  <2>2. k \in DOMAIN ss[n] => top[k] = ss[n][k]
    BY <1>5 DEF Put
  <2>3. \A l \in 1 .. n : l = n \/ l \in 1 .. n - 1
    BY <1>2
  <2>4. \A l \in 1 .. n : /\ k \in DOMAIN ts[l] <=> k \in DOMAIN ss[l]
                          /\ k \in DOMAIN ss[l] => ts[l][k] = ss[l][k]
    BY <1>2, <2>1, <2>2, <2>3
  <2>5. Holders(b, k) = Holders(a, k) /\ Holders(a, k) \in SUBSET (1 .. n)
    BY <1>2, <2>4 DEF Holders
  <2>6. Holders(a, k) # {} => Max(Holders(a, k)) \in Holders(a, k)
    BY <1>2, <2>5, Greatest
  <2>7. \A l \in Holders(a, k) : k \in DOMAIN ss[l]
    BY DEF Holders
  <2> QED BY <2>4, <2>5, <2>6, <2>7 DEF Find
<1> QED
  BY <1>4, <1>5

\* A local variable is declared in the innermost scope.
LEMMA LocalDeclares ==
  ASSUME NEW u, NEW a, NEW b, NEW key, NEW name, IsState(a), Reads(u, a, DeclLocal(key, name), b)
  PROVE  \E c, m : /\ IsState(c) /\ c.scopes = a.scopes /\ c.locals = a.locals + 1 /\ c.uses = a.uses
                   /\ c.twice = a.twice /\ m = <<-(a.locals + 1), name>> /\ b = Declares(c, key, m)
<1>1. PICK m : m = <<-(a.locals + 1), name>>
  OBVIOUS
<1>2. PICK c : c = [a EXCEPT !.locals = @ + 1]
  OBVIOUS
<1>3. b = Declares(c, key, m)
  <2> DEFINE p == [is |-> "local", key |-> key, name |-> name]
  <2>1. Read(u, a, p) = Declares(c, key, m)
    BY <1>1, <1>2 DEF Read
  <2>2. Reads(u, a, <<p>>, b)
    BY DEF DeclLocal
  <2> HIDE DEF p
  <2>3. b = Read(u, a, p)
    BY <2>2, ReadsLittle
  <2> QED BY <2>1, <2>3
<1>4. c = [scopes |-> a.scopes, locals |-> a.locals + 1, uses |-> a.uses, twice |-> a.twice]
  BY <1>2 DEF IsState
<1>5. IsState(c) /\ c.scopes = a.scopes /\ c.locals = a.locals + 1 /\ c.uses = a.uses /\ c.twice = a.twice
  BY <1>4 DEF IsState
<1> QED
  BY <1>1, <1>3, <1>5

\* What does not change then.
LEMMA LocalKeeps ==
  ASSUME NEW u, NEW a, NEW b, NEW key, NEW name, IsState(a), a.scopes # <<>>,
         Reads(u, a, DeclLocal(key, name), b)
  PROVE  /\ IsState(b) /\ b.locals = a.locals + 1 /\ b.uses = a.uses
         /\ b.twice = (a.twice \/ key \in DOMAIN Last(a.scopes))
         /\ b.scopes # <<>> /\ Front(b.scopes) = Front(a.scopes)
         /\ DOMAIN Last(b.scopes) = DOMAIN Last(a.scopes) \cup {key}
<1>1. PICK c, m : /\ IsState(c) /\ c.scopes = a.scopes /\ c.locals = a.locals + 1 /\ c.uses = a.uses
                  /\ c.twice = a.twice /\ b = Declares(c, key, m)
  BY LocalDeclares
<1>2. IsState(c) /\ c.scopes # <<>> /\ b = Declares(c, key, m)
  BY <1>1
<1>3. IsState(b) /\ b.locals = c.locals /\ b.uses = c.uses
  BY <1>2, DeclaresKeeps, Zenon
<1>4. /\ b.twice = (c.twice \/ key \in DOMAIN Last(c.scopes))
      /\ b.scopes # <<>> /\ Front(b.scopes) = Front(c.scopes)
  BY <1>2, DeclaresKeeps, Zenon
<1>5. DOMAIN Last(b.scopes) = DOMAIN Last(c.scopes) \cup {key}
  BY <1>2, DeclaresKeeps, Zenon
<1> QED
  BY <1>1, <1>3, <1>4, <1>5

\* What names stand for then.
LEMMA LocalFinds ==
  ASSUME NEW u, NEW a, NEW b, NEW key, NEW name, NEW k, IsState(a), a.scopes # <<>>,
         Reads(u, a, DeclLocal(key, name), b)
  PROVE  /\ k = key => Find(b, k) = <<-(a.locals + 1), name>>
         /\ k # key => Find(b, k) = Find(a, k)
<1>1. PICK c, m : /\ IsState(c) /\ c.scopes = a.scopes /\ m = <<-(a.locals + 1), name>>
                  /\ b = Declares(c, key, m)
  BY LocalDeclares
<1>2. IsState(c) /\ c.scopes # <<>> /\ b = Declares(c, key, m)
  BY <1>1
<1>3. k = key => Find(b, k) = m
  BY <1>2, DeclaresFinds
<1>4. k # key => Find(b, k) = Find(c, k)
  BY <1>2, DeclaresFinds
<1>5. Find(c, k) = Find(a, k)
  BY <1>1, FindSame
<1> QED
  BY <1>1, <1>3, <1>4, <1>5

HasFields(st) ==
  /\ st = [scopes |-> st.scopes, locals |-> st.locals, uses |-> st.uses, twice |-> st.twice]
  /\ st.twice \in BOOLEAN

\* That a name was declared twice is not forgotten.
LEMMA TwiceStays ==
  ASSUME NEW u, NEW a, NEW b, NEW t, HasFields(a), IsText(t), Reads(u, a, t, b)
  PROVE  HasFields(b) /\ (a.twice => b.twice)
<1>1. ASSUME NEW st, HasFields(st), NEW p, p.is \in PieceKinds
      PROVE  HasFields(Read(u, st, p)) /\ (st.twice => Read(u, st, p).twice)
  <2> PICK ss, ll, us, tw : ss = st.scopes /\ ll = st.locals /\ us = st.uses /\ tw = st.twice
    OBVIOUS
  <2>1. st = [scopes |-> ss, locals |-> ll, uses |-> us, twice |-> tw] /\ tw \in BOOLEAN
    BY <1>1 DEF HasFields
  <2>2. \A r, l, v : \A q \in BOOLEAN : HasFields([scopes |-> r, locals |-> l, uses |-> v, twice |-> q])
                                     /\ [scopes |-> r, locals |-> l, uses |-> v, twice |-> q].twice = q
    BY DEF HasFields
  <2>3. ASSUME NEW l, NEW x, x = [scopes |-> ss, locals |-> l, uses |-> us, twice |-> tw],
               NEW key, NEW meaning
        PROVE  HasFields(Declares(x, key, meaning)) /\ (tw => Declares(x, key, meaning).twice)
    <3>1. PICK q \in BOOLEAN : q = (tw \/ key \in DOMAIN ss[Len(ss)])
      OBVIOUS
    <3>2. PICK r : r = [ss EXCEPT ![Len(ss)] = Put(ss[Len(ss)], key, meaning)]
      OBVIOUS
    <3>3. Declares(x, key, meaning) = [scopes |-> r, locals |-> l, uses |-> us, twice |-> q]
      <4>1. x.scopes = ss /\ x.twice = tw
        BY <2>3
      <4>2. Declares(x, key, meaning) = [x EXCEPT !.scopes = r, !.twice = q]
        BY <3>1, <3>2, <4>1 DEF Declares
      <4> QED BY <2>3, <4>2
    <3>4. tw => q
      BY <2>1, <3>1
    <3> QED BY <2>2, <3>3, <3>4
  <2>4. CASE p.is = "open"
    <3>1. Read(u, st, p) = [scopes |-> Append(ss, <<>>), locals |-> ll, uses |-> us, twice |-> tw]
      BY <2>1, <2>4 DEF Read, EnterScope
    <3> QED BY <2>1, <2>2, <3>1
  <2>5. CASE p.is = "close"
    <3>1. Read(u, st, p) = [scopes |-> Front(ss), locals |-> ll, uses |-> us, twice |-> tw]
      BY <2>1, <2>5 DEF Read, ExitScope
    <3> QED BY <2>1, <2>2, <3>1
  <2>6. CASE p.is = "global"
    <3>1. Read(u, st, p) = Declares(st, p.key, <<u, p.name>>)
      BY <2>6 DEF Read
    <3>2. HasFields(Declares(st, p.key, <<u, p.name>>)) /\ (tw => Declares(st, p.key, <<u, p.name>>).twice)
      BY <2>1, <2>3
    <3> QED BY <3>1, <3>2
  <2>7. CASE p.is = "local"
    <3> PICK x, m : x = [st EXCEPT !.locals = @ + 1] /\ m = <<-(st.locals + 1), p.name>>
      OBVIOUS
    <3>1. Read(u, st, p) = Declares(x, p.key, m)
      BY <2>7 DEF Read
    <3>2. x = [scopes |-> ss, locals |-> ll + 1, uses |-> us, twice |-> tw]
      BY <2>1
    <3>3. HasFields(Declares(x, p.key, m)) /\ (tw => Declares(x, p.key, m).twice)
      BY <2>3, <3>2
    <3> QED BY <3>1, <3>3
  <2>8. CASE p.is = "use"
    <3>1. Read(u, st, p) = [st EXCEPT !.uses = Append(@, Find(st, p.key))]
      BY <2>8 DEF Read, Find
    <3>2. Read(u, st, p) = [scopes |-> ss, locals |-> ll, uses |-> Append(us, Find(st, p.key)), twice |-> tw]
      BY <2>1, <3>1
    <3> QED BY <2>1, <2>2, <3>2
  <2> QED BY <1>1, <2>4, <2>5, <2>6, <2>7, <2>8 DEF PieceKinds
<1>2. PICK f : f[0] = a /\ f[Len(t)] = b /\ \A i \in 1 .. Len(t) : f[i] = Read(u, f[i - 1], t[i])
  BY DEF Reads
<1> DEFINE Good(st) == HasFields(st) /\ (a.twice => st.twice)
           Q == {i \in Nat : i =< Len(t) => Good(f[i])}
<1>3. Len(t) \in Nat /\ DOMAIN t = 1 .. Len(t)
  BY StackFacts DEF IsText
<1>4. 0 \in Q
  BY <1>2
<1>5. ASSUME NEW i \in Q
      PROVE  i + 1 \in Q
  <2> SUFFICES ASSUME i + 1 =< Len(t)
               PROVE  Good(f[i + 1])
    OBVIOUS
  <2>1. i + 1 \in 1 .. Len(t) /\ (i + 1) - 1 = i /\ HasFields(f[i]) /\ (a.twice => f[i].twice)
    BY <1>3
  <2>2. f[i + 1] = Read(u, f[i], t[i + 1]) /\ t[i + 1].is \in PieceKinds
    BY <1>2, <1>3, <2>1 DEF IsText
  <2> QED BY <1>1, <2>1, <2>2
<1>6. Q = Nat
  <2>1. Q \in SUBSET Nat
    OBVIOUS
  <2> HIDE DEF Q
  <2> QED BY <1>4, <1>5, <2>1, Induction
<1>7. Good(f[Len(t)])
  BY <1>3, <1>6
<1> QED
  BY <1>2, <1>7

-----------------------------------------------------------------------------
(* Two readers of two texts *)

\* c reads the C, s the source: they have come to the same, and the names of N stand for the same.
Alike(c, s, N) ==
  /\ IsState(c) /\ IsState(s) /\ c.scopes # <<>> /\ s.scopes # <<>>
  /\ c.uses = s.uses /\ c.locals = s.locals /\ ~c.twice
  /\ \A n \in N : Find(c, Prefixed(n)) = Find(s, <<None, n>>)

\* Those of the names of M that the innermost scope of c has, that of s has.
Compat(c, s, M) ==
  \A n \in M : Prefixed(n) \in DOMAIN Last(c.scopes) => <<None, n>> \in DOMAIN Last(s.scopes)

\* The texts declare nothing behind them.
Still(u, N, x, y) ==
  \A c, s, d, t :
    Alike(c, s, N) /\ Reads(u, c, x, d) /\ Reads(u, s, y, t) /\ ~t.twice =>
      Alike(d, t, N) /\ d.scopes = c.scopes /\ t.scopes = s.scopes

\* The texts declare names of M, and the same ones.
Binds(u, N, M, x, y) ==
  \A c, s, d, t :
    Alike(c, s, N) /\ Compat(c, s, M) /\ Reads(u, c, x, d) /\ Reads(u, s, y, t) /\ ~t.twice =>
      /\ Alike(d, t, N) /\ Compat(d, t, M)
      /\ Front(d.scopes) = Front(c.scopes) /\ Front(t.scopes) = Front(s.scopes)
      /\ DOMAIN Last(d.scopes) \subseteq DOMAIN Last(c.scopes) \cup {Prefixed(n) : n \in M}

\* What holds of two pairs of texts holds of them together.
LEMMA AlikeConcat ==
  ASSUME NEW u, NEW N, NEW x, NEW y, NEW v, NEW w, IsText(x), IsText(y), IsText(v), IsText(w)
  PROVE  /\ Still(u, N, x, y) /\ Still(u, N, v, w) => Still(u, N, x \o v, y \o w)
         /\ \A M : Binds(u, N, M, x, y) /\ Binds(u, N, M, v, w) => Binds(u, N, M, x \o v, y \o w)
<1>1. ASSUME NEW c, NEW s, NEW d, NEW t, Alike(c, s, N), Reads(u, c, x \o v, d), Reads(u, s, y \o w, t), ~t.twice
      PROVE  \E e, r : /\ Reads(u, c, x, e) /\ Reads(u, e, v, d)
                      /\ Reads(u, s, y, r) /\ Reads(u, r, w, t) /\ ~r.twice
  <2>1. PICK e : Reads(u, c, x, e) /\ Reads(u, e, v, d)
    BY <1>1, ReadsConcat DEF IsText
  <2>2. PICK r : Reads(u, s, y, r) /\ Reads(u, r, w, t)
    BY <1>1, ReadsConcat DEF IsText
  <2>3. HasFields(s)
    BY <1>1 DEF Alike, IsState, HasFields
  <2>4. HasFields(r)
    BY <2>2, <2>3, TwiceStays
  <2>5. ~r.twice
    BY <1>1, <2>2, <2>4, TwiceStays
  <2> QED BY <2>1, <2>2, <2>5
<1>2. ASSUME Still(u, N, x, y), Still(u, N, v, w)
      PROVE  Still(u, N, x \o v, y \o w)
  <2> SUFFICES ASSUME NEW c, NEW s, NEW d, NEW t, Alike(c, s, N), Reads(u, c, x \o v, d),
                      Reads(u, s, y \o w, t), ~t.twice
               PROVE  Alike(d, t, N) /\ d.scopes = c.scopes /\ t.scopes = s.scopes
    BY DEF Still
  <2>1. PICK e, r : /\ Reads(u, c, x, e) /\ Reads(u, e, v, d)
                    /\ Reads(u, s, y, r) /\ Reads(u, r, w, t) /\ ~r.twice
    BY <1>1
  <2>2. Alike(e, r, N) /\ e.scopes = c.scopes /\ r.scopes = s.scopes
    BY <1>2, <2>1 DEF Still
  <2>3. Alike(d, t, N) /\ d.scopes = e.scopes /\ t.scopes = r.scopes
    BY <1>2, <2>1, <2>2 DEF Still
  <2> QED BY <2>2, <2>3
<1>3. ASSUME NEW M, Binds(u, N, M, x, y), Binds(u, N, M, v, w)
      PROVE  Binds(u, N, M, x \o v, y \o w)
  <2> SUFFICES ASSUME NEW c, NEW s, NEW d, NEW t, Alike(c, s, N), Compat(c, s, M), Reads(u, c, x \o v, d),
                      Reads(u, s, y \o w, t), ~t.twice
               PROVE  /\ Alike(d, t, N) /\ Compat(d, t, M)
                      /\ Front(d.scopes) = Front(c.scopes) /\ Front(t.scopes) = Front(s.scopes)
                      /\ DOMAIN Last(d.scopes) \subseteq DOMAIN Last(c.scopes) \cup {Prefixed(n) : n \in M}
    BY DEF Binds
  <2>1. PICK e, r : /\ Reads(u, c, x, e) /\ Reads(u, e, v, d)
                    /\ Reads(u, s, y, r) /\ Reads(u, r, w, t) /\ ~r.twice
    BY <1>1
  <2>2. /\ Alike(e, r, N) /\ Compat(e, r, M)
        /\ Front(e.scopes) = Front(c.scopes) /\ Front(r.scopes) = Front(s.scopes)
        /\ DOMAIN Last(e.scopes) \subseteq DOMAIN Last(c.scopes) \cup {Prefixed(n) : n \in M}
    BY <1>3, <2>1 DEF Binds
  <2>3. /\ Alike(d, t, N) /\ Compat(d, t, M)
        /\ Front(d.scopes) = Front(e.scopes) /\ Front(t.scopes) = Front(r.scopes)
        /\ DOMAIN Last(d.scopes) \subseteq DOMAIN Last(e.scopes) \cup {Prefixed(n) : n \in M}
    BY <1>3, <2>1, <2>2 DEF Binds
  <2> QED BY <2>2, <2>3
<1> QED
  BY <1>2, <1>3

\* Texts that declare nothing declare nothing of any names.
LEMMA StillBinds ==
  ASSUME NEW u, NEW N, NEW M, NEW x, NEW y, Still(u, N, x, y)
  PROVE  Binds(u, N, M, x, y)
<1> SUFFICES ASSUME NEW c, NEW s, NEW d, NEW t, Alike(c, s, N), Compat(c, s, M), Reads(u, c, x, d),
                    Reads(u, s, y, t), ~t.twice
             PROVE  /\ Alike(d, t, N) /\ Compat(d, t, M)
                    /\ Front(d.scopes) = Front(c.scopes) /\ Front(t.scopes) = Front(s.scopes)
                    /\ DOMAIN Last(d.scopes) \subseteq DOMAIN Last(c.scopes) \cup {Prefixed(n) : n \in M}
  BY DEF Binds
<1>1. Alike(d, t, N) /\ d.scopes = c.scopes /\ t.scopes = s.scopes
  BY DEF Still
<1>2. Compat(d, t, M)
  BY <1>1 DEF Compat
<1> QED
  BY <1>1, <1>2

\* Two lists of texts, one by one.
LEMMA AlikeFlat ==
  ASSUME NEW u, NEW N, NEW n \in Nat, NEW xs, NEW ys, Texts(xs, n), Texts(ys, n)
  PROVE  /\ (\A i \in 1 .. n : Still(u, N, xs[i], ys[i])) => Still(u, N, FlattenSeq(xs), FlattenSeq(ys))
         /\ \A M : (\A i \in 1 .. n : Binds(u, N, M, xs[i], ys[i])) =>
                       Binds(u, N, M, FlattenSeq(xs), FlattenSeq(ys))
<1>1. PICK f : Joins(f, xs, n) /\ FlattenSeq(xs) = f[n] /\ \A i \in 0 .. n : IsText(f[i])
  BY FlatJoins
<1>2. PICK g : Joins(g, ys, n) /\ FlattenSeq(ys) = g[n] /\ \A i \in 0 .. n : IsText(g[i])
  BY FlatJoins
<1>3. Still(u, N, <<>>, <<>>)
  BY ReadsLittle DEF Still
<1>4. ASSUME NEW i \in Nat, i + 1 =< n
      PROVE  /\ f[i + 1] = f[i] \o xs[i + 1] /\ g[i + 1] = g[i] \o ys[i + 1]
             /\ IsText(f[i]) /\ IsText(g[i]) /\ IsText(xs[i + 1]) /\ IsText(ys[i + 1])
             /\ i + 1 \in 1 .. n
  <2>1. i + 1 \in 1 .. n /\ (i + 1) - 1 = i /\ i \in 0 .. n
    BY <1>4
  <2> QED BY <1>1, <1>2, <2>1 DEF Joins, Texts
<1>5. ASSUME \A i \in 1 .. n : Still(u, N, xs[i], ys[i])
      PROVE  Still(u, N, FlattenSeq(xs), FlattenSeq(ys))
  <2> DEFINE Q == {i \in Nat : i =< n => Still(u, N, f[i], g[i])}
  <2>1. 0 \in Q
    BY <1>1, <1>2, <1>3 DEF Joins
  <2>2. ASSUME NEW i \in Q
        PROVE  i + 1 \in Q
    <3> SUFFICES ASSUME i + 1 =< n
                 PROVE  Still(u, N, f[i + 1], g[i + 1])
      OBVIOUS
    <3>1. i \in Nat /\ i =< n /\ Still(u, N, f[i], g[i])
      OBVIOUS
    <3> HIDE DEF Q
    <3> QED BY <1>4, <1>5, <3>1, AlikeConcat
  <2>3. Q = Nat
    <3>1. Q \in SUBSET Nat
      OBVIOUS
    <3> HIDE DEF Q
    <3> QED BY <2>1, <2>2, <3>1, Induction
  <2>4. Still(u, N, f[n], g[n])
    BY <2>3
  <2> QED BY <1>1, <1>2, <2>4
<1>6. ASSUME NEW M, \A i \in 1 .. n : Binds(u, N, M, xs[i], ys[i])
      PROVE  Binds(u, N, M, FlattenSeq(xs), FlattenSeq(ys))
  <2> DEFINE Q == {i \in Nat : i =< n => Binds(u, N, M, f[i], g[i])}
  <2>1. 0 \in Q
    BY <1>1, <1>2, <1>3, StillBinds DEF Joins
  <2>2. ASSUME NEW i \in Q
        PROVE  i + 1 \in Q
    <3> SUFFICES ASSUME i + 1 =< n
                 PROVE  Binds(u, N, M, f[i + 1], g[i + 1])
      OBVIOUS
    <3>1. i \in Nat /\ i =< n /\ Binds(u, N, M, f[i], g[i])
      OBVIOUS
    <3> HIDE DEF Q
    <3> QED BY <1>4, <1>6, <3>1, AlikeConcat
  <2>3. Q = Nat
    <3>1. Q \in SUBSET Nat
      OBVIOUS
    <3> HIDE DEF Q
    <3> QED BY <2>1, <2>2, <3>1, Induction
  <2>4. Binds(u, N, M, f[n], g[n])
    BY <2>3
  <2> QED BY <1>1, <1>2, <2>4
<1> QED
  BY <1>5, <1>6

\* Two readers in the scopes of two that are alike, with the same uses and locals, are alike.
LEMMA AlikeSame ==
  ASSUME NEW N, NEW c, NEW s, Alike(c, s, N), NEW d, NEW t, IsState(d), IsState(t),
         d.scopes = c.scopes, t.scopes = s.scopes, d.uses = t.uses, d.locals = t.locals, ~d.twice
  PROVE  Alike(d, t, N)
<1>1. \A key : Find(d, key) = Find(c, key) /\ Find(t, key) = Find(s, key)
  BY FindSame
<1>2. \A n \in N : Find(d, Prefixed(n)) = Find(t, <<None, n>>)
  BY <1>1 DEF Alike
<1> QED
  BY <1>2 DEF Alike

\* A name that stands for the same in both is used.
LEMMA UseAlike ==
  ASSUME NEW u, NEW N, NEW n \in N
  PROVE  Still(u, N, Uses(Prefixed(n)), Uses(<<None, n>>))
<1> SUFFICES ASSUME NEW c, NEW s, NEW d, NEW t, Alike(c, s, N), Reads(u, c, Uses(Prefixed(n)), d),
                    Reads(u, s, Uses(<<None, n>>), t)
             PROVE  Alike(d, t, N) /\ d.scopes = c.scopes /\ t.scopes = s.scopes
  BY DEF Still
<1>1. OnlyUses(c, d) /\ d.uses = Append(c.uses, Find(c, Prefixed(n)))
  BY UseKeeps DEF Alike
<1>2. OnlyUses(s, t) /\ t.uses = Append(s.uses, Find(s, <<None, n>>))
  BY UseKeeps DEF Alike
<1>3. d.uses = t.uses
  BY <1>1, <1>2 DEF Alike
<1>4. /\ IsState(d) /\ IsState(t) /\ d.scopes = c.scopes /\ t.scopes = s.scopes
      /\ d.locals = t.locals /\ ~d.twice
  BY <1>1, <1>2 DEF OnlyUses, Alike
<1> QED
  BY <1>3, <1>4, AlikeSame

\* Two lists of texts that f and g make of the elements of a sequence.
LEMMA AlikeMapped ==
  ASSUME NEW u, NEW N, NEW S, NEW s \in Seq(S), NEW f, NEW g,
         \A x \in Range(s) : IsText(f[x]) /\ IsText(g[x])
  PROVE  /\ (\A x \in Range(s) : Still(u, N, f[x], g[x])) =>
              Still(u, N, FlattenSeq([i \in DOMAIN s |-> f[s[i]]]), FlattenSeq([i \in DOMAIN s |-> g[s[i]]]))
         /\ \A M : (\A x \in Range(s) : Binds(u, N, M, f[x], g[x])) =>
              Binds(u, N, M, FlattenSeq([i \in DOMAIN s |-> f[s[i]]]), FlattenSeq([i \in DOMAIN s |-> g[s[i]]]))
<1>0. PICK xs, ys : xs = [i \in DOMAIN s |-> f[s[i]]] /\ ys = [i \in DOMAIN s |-> g[s[i]]]
  OBVIOUS
<1>1. Texts(xs, Len(s)) /\ Texts(ys, Len(s))
  BY <1>0, MappedTexts
<1>2. Len(s) \in Nat /\ \A i \in 1 .. Len(s) : s[i] \in Range(s) /\ xs[i] = f[s[i]] /\ ys[i] = g[s[i]]
  BY <1>0 DEF Range
<1>3. ASSUME \A x \in Range(s) : Still(u, N, f[x], g[x])
      PROVE  Still(u, N, FlattenSeq(xs), FlattenSeq(ys))
  <2>1. \A i \in 1 .. Len(s) : Still(u, N, xs[i], ys[i])
    BY <1>2, <1>3
  <2> QED BY <1>1, <1>2, <2>1, AlikeFlat
<1>4. ASSUME NEW M, \A x \in Range(s) : Binds(u, N, M, f[x], g[x])
      PROVE  Binds(u, N, M, FlattenSeq(xs), FlattenSeq(ys))
  <2>1. \A i \in 1 .. Len(s) : Binds(u, N, M, xs[i], ys[i])
    BY <1>2, <1>4
  <2> QED BY <1>1, <1>2, <2>1, AlikeFlat
<1> QED
  BY <1>0, <1>3, <1>4

\* The names of the unit itself.
OwnNames(N) == {<<None, n>> : n \in N}

\* Expressions that mention names which stand for the same in both.
LEMMA ExprAlike ==
  ASSUME NEW u, NEW N
  PROVE  \A e \in Exprs : NamesInExpr[e] \subseteq OwnNames(N) => Still(u, N, GenExpr[e], SourceExpr[e])
<1> DEFINE Good(e) == NamesInExpr[e] \subseteq OwnNames(N) => Still(u, N, GenExpr[e], SourceExpr[e])
           depth == [e \in Exprs |-> Depth[e]]
           T == {e \in Exprs : ~Good(e)}
<1> SUFFICES ASSUME T # {}
             PROVE  FALSE
  OBVIOUS
<1>1. depth \in [Exprs -> Nat]
  BY ValidatorAssumption DEF AreTrees
<1>2. PICK e \in T : \A y \in T : depth[e] =< depth[y]
  <2>1. T \in SUBSET Exprs
    OBVIOUS
  <2> HIDE DEF T, depth
  <2> QED BY <1>1, <2>1, Shallowest
<1>3. e \in Exprs /\ NamesInExpr[e] \subseteq OwnNames(N) /\ ~Still(u, N, GenExpr[e], SourceExpr[e])
  BY <1>2
<1>4. ASSUME NEW p \in Parts(e)
      PROVE  p \in Exprs /\ Still(u, N, GenExpr[p], SourceExpr[p])
  <2>1. p \in Exprs /\ Depth[p] < Depth[e]
    BY <1>3, ExprParts
  <2>2. depth[p] < depth[e] /\ depth[p] \in Nat /\ depth[e] \in Nat
    BY <1>1, <1>3, <2>1
  <2>3. p \notin T
    <3> HIDE DEF T, depth
    <3> QED BY <1>2, <2>2
  <2>4. NamesInExpr[p] \subseteq OwnNames(N)
    BY <1>3, NamesOfExpr
  <2> QED BY <2>1, <2>3, <2>4
<1> HIDE DEF T, depth, Good
<1>5. GenExpr[e] = CWriting(e, GenExpr) /\ SourceExpr[e] = SourceWriting(e, SourceExpr)
  BY <1>3, ExprTexts
<1>6. \A key : IsText(Uses(key))
  BY LittleText
<1>7. ASSUME e.kind \in {"id", "call"}
      PROVE  Still(u, N, Uses(Prefixed(e.name)), Uses(<<e.unit, e.name>>))
  <2>1. <<e.unit, e.name>> \in OwnNames(N)
    BY <1>3, <1>7, NamesOfExpr
  <2>2. PICK n \in N : <<e.unit, e.name>> = <<None, n>>
    BY <2>1 DEF OwnNames
  <2>3. e.unit = None /\ e.name = n
    BY <2>2
  <2> QED BY <2>3, UseAlike
<1>8. CASE e.kind = "call"
  <2>1. e.args \in Seq(Exprs) /\ \A x \in Range(e.args) : x \in Parts(e)
    BY <1>3, <1>8, ValidatorAssumption DEF AreTrees, Parts
  <2>2. PICK x, y : /\ x = FlattenSeq([i \in DOMAIN e.args |-> GenExpr[e.args[i]]])
                    /\ y = FlattenSeq([i \in DOMAIN e.args |-> SourceExpr[e.args[i]]])
    OBVIOUS
  <2>3. \A z \in Range(e.args) : /\ IsText(GenExpr[z]) /\ IsText(SourceExpr[z])
                                 /\ Still(u, N, GenExpr[z], SourceExpr[z])
    BY <1>4, <2>1, ExprIsText
  <2>4. Still(u, N, x, y)
    BY <2>1, <2>2, <2>3, AlikeMapped
  <2>5. IsText(x) /\ IsText(y)
    BY <2>1, <2>2, <2>3, MappedTexts
  <2>6. /\ GenExpr[e] = Uses(Prefixed(e.name)) \o x
        /\ SourceExpr[e] = Uses(<<e.unit, e.name>>) \o y
    BY <1>5, <1>8, <2>2 DEF CWriting, SourceWriting
  <2> QED BY <1>3, <1>6, <1>7, <1>8, <2>4, <2>5, <2>6, AlikeConcat
<1>9. CASE e.kind = "binary"
  <2>1. e.left \in Parts(e) /\ e.right \in Parts(e)
    BY <1>9 DEF Parts
  <2>2. PICK x, y, v, w : x = GenExpr[e.left] /\ y = SourceExpr[e.left] /\ v = GenExpr[e.right] /\ w = SourceExpr[e.right]
    OBVIOUS
  <2>3. IsText(x) /\ IsText(y) /\ IsText(v) /\ IsText(w) /\ Still(u, N, x, y) /\ Still(u, N, v, w)
    BY <1>4, <2>1, <2>2, ExprIsText
  <2>4. GenExpr[e] = x \o v /\ SourceExpr[e] = y \o w
    BY <1>5, <1>9, <2>2 DEF CWriting, SourceWriting
  <2> QED BY <1>3, <2>3, <2>4, AlikeConcat
<1>10. CASE e.kind = "id"
  BY <1>3, <1>5, <1>7, <1>10 DEF CWriting, SourceWriting
<1>11. CASE e.kind \notin {"id", "call", "binary"}
  <2>1. GenExpr[e] = <<>> /\ SourceExpr[e] = <<>>
    BY <1>5, <1>11 DEF CWriting, SourceWriting
  <2> QED BY <1>3, <2>1, ReadsLittle DEF Still
<1> QED
  BY <1>8, <1>9, <1>10, <1>11

\* The same of an expression that may be missing.
LEMMA IfAnyAlike ==
  ASSUME NEW u, NEW N, NEW e \in Exprs \cup {None}, NamesIn(e) \subseteq OwnNames(N)
  PROVE  Still(u, N, GenIfAny(e), SourceIfAny(e))
<1>1. CASE e = None
  <2>1. GenIfAny(e) = <<>> /\ SourceIfAny(e) = <<>>
    BY <1>1 DEF GenIfAny, SourceIfAny
  <2> QED BY <2>1, ReadsLittle DEF Still
<1>2. CASE e # None
  BY <1>2, ExprAlike DEF GenIfAny, SourceIfAny, NamesIn
<1> QED
  BY <1>1, <1>2

\* A variable is declared with a name of M.
LEMMA VarAlike ==
  ASSUME NEW u, NEW N, NEW M, NEW d, d.name \in M, d.init \in Exprs \cup {None}, NamesIn(d.init) \subseteq OwnNames(N)
  PROVE  Binds(u, N, M, GenVar(d), SourceVar(d))
<1> PICK n : n = d.name
  OBVIOUS
<1> DEFINE x == DeclLocal(Prefixed(n), n)
           y == DeclLocal(<<None, n>>, n)
<1>1. Binds(u, N, M, x, y)
  <2> SUFFICES ASSUME NEW c, NEW s, NEW e, NEW t, Alike(c, s, N), Compat(c, s, M), Reads(u, c, x, e),
                      Reads(u, s, y, t), ~t.twice
               PROVE  /\ Alike(e, t, N) /\ Compat(e, t, M)
                      /\ Front(e.scopes) = Front(c.scopes) /\ Front(t.scopes) = Front(s.scopes)
                      /\ DOMAIN Last(e.scopes) \subseteq DOMAIN Last(c.scopes) \cup {Prefixed(m) : m \in M}
    BY DEF Binds
  <2>0. IsState(c) /\ IsState(s) /\ c.scopes # <<>> /\ s.scopes # <<>>
    BY DEF Alike
  <2>1. /\ IsState(e) /\ e.locals = c.locals + 1 /\ e.uses = c.uses
        /\ e.twice = (c.twice \/ Prefixed(n) \in DOMAIN Last(c.scopes))
        /\ e.scopes # <<>> /\ Front(e.scopes) = Front(c.scopes)
        /\ DOMAIN Last(e.scopes) = DOMAIN Last(c.scopes) \cup {Prefixed(n)}
    BY <2>0, LocalKeeps
  <2>2. /\ IsState(t) /\ t.locals = s.locals + 1 /\ t.uses = s.uses
        /\ t.twice = (s.twice \/ <<None, n>> \in DOMAIN Last(s.scopes))
        /\ t.scopes # <<>> /\ Front(t.scopes) = Front(s.scopes)
        /\ DOMAIN Last(t.scopes) = DOMAIN Last(s.scopes) \cup {<<None, n>>}
    BY <2>0, LocalKeeps
  <2>3. \A m : (Prefixed(m) = Prefixed(n) <=> m = n) /\ (<<None, m>> = <<None, n>> <=> m = n)
    BY DEF Prefixed
  <2>4. ~e.twice
    BY <2>1, <2>2 DEF Alike, Compat
  <2>5. ASSUME NEW m \in N
        PROVE  Find(e, Prefixed(m)) = Find(t, <<None, m>>)
    <3> PICK k, l, key, own : k = Prefixed(m) /\ l = <<None, m>> /\ key = Prefixed(n) /\ own = <<None, n>>
      OBVIOUS
    <3>1. (k = key => Find(e, k) = <<-(c.locals + 1), n>>) /\ (k # key => Find(e, k) = Find(c, k))
      BY <2>0, LocalFinds
    <3>2. (l = own => Find(t, l) = <<-(s.locals + 1), n>>) /\ (l # own => Find(t, l) = Find(s, l))
      BY <2>0, LocalFinds
    <3>3. CASE m = n
      BY <3>1, <3>2, <3>3 DEF Alike
    <3>4. CASE m # n
      BY <2>3, <3>1, <3>2, <3>4 DEF Alike
    <3> QED BY <3>3, <3>4
  <2>6. Alike(e, t, N)
    BY <2>1, <2>2, <2>4, <2>5 DEF Alike
  <2>7. Compat(e, t, M)
    BY <2>1, <2>2, <2>3 DEF Compat
  <2> QED BY <2>1, <2>2, <2>6, <2>7
<1>2. Binds(u, N, M, GenIfAny(d.init), SourceIfAny(d.init))
  BY IfAnyAlike, StillBinds
<1>3. IsText(x) /\ IsText(y) /\ IsText(GenIfAny(d.init)) /\ IsText(SourceIfAny(d.init))
  BY LittleText, OwnTexts
<1>4. GenVar(d) = x \o GenIfAny(d.init) /\ SourceVar(d) = y \o SourceIfAny(d.init)
  BY DEF GenVar, SourceVar
<1> HIDE DEF x, y
<1> QED
  BY <1>1, <1>2, <1>3, <1>4, AlikeConcat

\* A text in a scope of its own.
LEMMA ReadsInScope ==
  ASSUME NEW u, NEW a, NEW b, NEW x, IsText(x), Reads(u, a, InScope(x), b)
  PROVE  \E v, w : Reads(u, a, Open, v) /\ Reads(u, v, x, w) /\ Reads(u, w, Close, b)
<1>1. IsText(Open) /\ IsText(Close) /\ IsText(Open \o x)
  BY LittleText, ConcatText
<1>2. Reads(u, a, (Open \o x) \o Close, b)
  BY DEF InScope
<1>3. PICK w : Reads(u, a, Open \o x, w) /\ Reads(u, w, Close, b)
  BY <1>1, <1>2, ReadsConcat DEF IsText
<1>4. PICK v : Reads(u, a, Open, v) /\ Reads(u, v, x, w)
  BY <1>1, <1>3, ReadsConcat DEF IsText
<1> QED
  BY <1>3, <1>4

\* A block: nothing it declares is there behind it.
LEMMA BlockAlike ==
  ASSUME NEW u, NEW N, NEW M, NEW x, NEW y, IsText(x), IsText(y), Binds(u, N, M, x, y)
  PROVE  Still(u, N, InScope(x), InScope(y))
<1> SUFFICES ASSUME NEW c, NEW s, NEW d, NEW t, Alike(c, s, N), Reads(u, c, InScope(x), d),
                    Reads(u, s, InScope(y), t), ~t.twice
             PROVE  Alike(d, t, N) /\ d.scopes = c.scopes /\ t.scopes = s.scopes
  BY DEF Still
<1>0. IsState(c) /\ IsState(s)
  BY DEF Alike
<1>1. PICK c1, c2 : Reads(u, c, Open, c1) /\ Reads(u, c1, x, c2) /\ Reads(u, c2, Close, d)
  BY ReadsInScope
<1>2. PICK s1, s2 : Reads(u, s, Open, s1) /\ Reads(u, s1, y, s2) /\ Reads(u, s2, Close, t)
  BY ReadsInScope
<1>3. /\ OnlyScopes(c, c1) /\ c1.scopes # <<>> /\ Front(c1.scopes) = c.scopes /\ DOMAIN Last(c1.scopes) = {}
      /\ \A key : Find(c1, key) = Find(c, key)
  BY <1>0, <1>1, OpenKeeps
<1>4. /\ OnlyScopes(s, s1) /\ s1.scopes # <<>> /\ Front(s1.scopes) = s.scopes
      /\ \A key : Find(s1, key) = Find(s, key)
  BY <1>0, <1>2, OpenKeeps
<1>5. Alike(c1, s1, N) /\ Compat(c1, s1, M)
  BY <1>3, <1>4 DEF Alike, Compat, OnlyScopes
<1>6. ~s2.twice
  <2>1. HasFields(s1)
    BY <1>4 DEF OnlyScopes, IsState, HasFields
  <2>2. HasFields(s2)
    BY <1>2, <2>1, TwiceStays
  <2>3. IsText(Close)
    BY LittleText
  <2> QED BY <1>2, <2>2, <2>3, TwiceStays
<1>7. Alike(c2, s2, N) /\ Front(c2.scopes) = Front(c1.scopes) /\ Front(s2.scopes) = Front(s1.scopes)
  BY <1>1, <1>2, <1>5, <1>6 DEF Binds
<1>8. OnlyScopes(c2, d) /\ d.scopes = Front(c2.scopes)
  BY <1>1, <1>7, CloseKeeps DEF Alike
<1>9. OnlyScopes(s2, t) /\ t.scopes = Front(s2.scopes)
  BY <1>2, <1>7, CloseKeeps DEF Alike
<1>10. d.scopes = c.scopes /\ t.scopes = s.scopes
  BY <1>3, <1>4, <1>7, <1>8, <1>9
<1>11. IsState(d) /\ IsState(t) /\ d.uses = t.uses /\ d.locals = t.locals /\ ~d.twice
  BY <1>7, <1>8, <1>9 DEF Alike, OnlyScopes
<1> QED
  BY <1>10, <1>11, AlikeSame

\* A branch that declares nothing may have a scope of its own.
LEMMA BranchAlike ==
  ASSUME NEW u, NEW N, NEW x, NEW y, IsText(x), Still(u, N, x, y)
  PROVE  Still(u, N, InScope(x), y)
<1> SUFFICES ASSUME NEW c, NEW s, NEW d, NEW t, Alike(c, s, N), Reads(u, c, InScope(x), d),
                    Reads(u, s, y, t), ~t.twice
             PROVE  Alike(d, t, N) /\ d.scopes = c.scopes /\ t.scopes = s.scopes
  BY DEF Still
<1>1. PICK c1, c2 : Reads(u, c, Open, c1) /\ Reads(u, c1, x, c2) /\ Reads(u, c2, Close, d)
  BY ReadsInScope
<1>2. /\ OnlyScopes(c, c1) /\ c1.scopes # <<>> /\ Front(c1.scopes) = c.scopes
      /\ \A key : Find(c1, key) = Find(c, key)
  <2>1. IsState(c)
    BY DEF Alike
  <2> QED BY <1>1, <2>1, OpenKeeps
<1>3. Alike(c1, s, N)
  BY <1>2 DEF Alike, OnlyScopes
<1>4. Alike(c2, t, N) /\ c2.scopes = c1.scopes /\ t.scopes = s.scopes
  BY <1>1, <1>3 DEF Still
<1>5. OnlyScopes(c2, d) /\ d.scopes = Front(c2.scopes)
  BY <1>1, <1>4, CloseKeeps DEF Alike
<1>6. d.scopes = c.scopes
  BY <1>2, <1>4, <1>5
<1>7. IsState(d) /\ IsState(t) /\ d.uses = t.uses /\ d.locals = t.locals /\ ~d.twice
  BY <1>4, <1>5 DEF Alike, OnlyScopes
<1> QED
  BY <1>4, <1>6, <1>7, AlikeSame

NamesLeft(s) == {v.name : v \in LeavesDeclared[s]}

\* A statement without a branch that declares something declares in the C what it leaves declared.
LEMMA StmtAlike ==
  ASSUME NEW u, NEW N
  PROVE  \A s \in Stmts : ~BranchDeclares[s] /\ NamesInStmt[s] \subseteq OwnNames(N) =>
           /\ LeavesDeclared[s] = {} => Still(u, N, GenStmt[s], SourceStmt[s])
           /\ \A M : NamesLeft(s) \subseteq M => Binds(u, N, M, GenStmt[s], SourceStmt[s])
<1> DEFINE Right(s) == ~BranchDeclares[s] /\ NamesInStmt[s] \subseteq OwnNames(N)
           Good(s) == Right(s) =>
             /\ LeavesDeclared[s] = {} => Still(u, N, GenStmt[s], SourceStmt[s])
             /\ \A M : NamesLeft(s) \subseteq M => Binds(u, N, M, GenStmt[s], SourceStmt[s])
           depth == [s \in Stmts |-> Depth[s]]
           T == {s \in Stmts : ~Good(s)}
<1> SUFFICES ASSUME T # {}
             PROVE  FALSE
  OBVIOUS
<1>1. depth \in [Stmts -> Nat]
  BY ValidatorAssumption DEF AreTrees
<1>2. PICK s \in T : \A y \in T : depth[s] =< depth[y]
  <2>1. T \in SUBSET Stmts
    OBVIOUS
  <2> HIDE DEF T, depth
  <2> QED BY <1>1, <2>1, Shallowest
<1>3. s \in Stmts /\ Right(s) /\ ~Good(s)
  BY <1>2
<1>4. ASSUME NEW p \in Parts(s)
      PROVE  p \in Stmts /\ Good(p)
  <2>1. p \in Stmts /\ Depth[p] < Depth[s]
    BY <1>3, StmtParts
  <2>2. depth[p] < depth[s] /\ depth[p] \in Nat /\ depth[s] \in Nat
    BY <1>1, <1>3, <2>1
  <2>3. p \notin T
    <3> HIDE DEF T, depth
    <3> QED BY <1>2, <2>2
  <2> QED BY <2>1, <2>3
<1> HIDE DEF T, depth
<1>5. GenStmt[s] = CWritingStmt(s, GenStmt) /\ SourceStmt[s] = SourceWritingStmt(s, SourceStmt)
  BY <1>3, StmtTexts
<1>6. BranchDeclares[s] = BranchDeclaring(s, BranchDeclares)
  BY <1>3, BranchDeclaresDefined
<1>7. Still(u, N, GenStmt[s], SourceStmt[s]) => Good(s)
  BY StillBinds
<1>8. CASE s.kind = "block"
  <2>1. s.stmts \in Seq(Stmts) /\ \A p \in Range(s.stmts) : p \in Parts(s)
    BY <1>3, <1>8, ValidatorAssumption DEF AreTrees, Parts
  <2>2. \A p \in Range(s.stmts) : Right(p)
    BY <1>3, <1>6, <1>8, NamesOfStmt DEF BranchDeclaring
  <2>3. PICK M : M = UNION {NamesLeft(p) : p \in Range(s.stmts)}
    OBVIOUS
  <2>4. ASSUME NEW p \in Range(s.stmts)
        PROVE  IsText(GenStmt[p]) /\ IsText(SourceStmt[p]) /\ Binds(u, N, M, GenStmt[p], SourceStmt[p])
    <3>1. p \in Stmts /\ Good(p) /\ Right(p)
      BY <1>4, <2>1, <2>2
    <3>2. NamesLeft(p) \subseteq M
      BY <2>3
    <3> QED BY <3>1, <3>2, StmtIsText
  <2>5. PICK x, y : /\ x = FlattenSeq([i \in DOMAIN s.stmts |-> GenStmt[s.stmts[i]]])
                    /\ y = FlattenSeq([i \in DOMAIN s.stmts |-> SourceStmt[s.stmts[i]]])
    OBVIOUS
  <2> HIDE DEF Good, Right
  <2>6. Binds(u, N, M, x, y)
    BY <2>1, <2>4, <2>5, AlikeMapped
  <2>7. IsText(x) /\ IsText(y)
    BY <2>1, <2>4, <2>5, MappedTexts
  <2>8. GenStmt[s] = InScope(x) /\ SourceStmt[s] = InScope(y)
    BY <1>5, <1>8, <2>5 DEF CWritingStmt, SourceWritingStmt, GenBlock
  <2> QED BY <1>3, <1>7, <2>6, <2>7, <2>8, BlockAlike
<1>9. CASE s.kind = "if"
  <2>1. /\ s.cond \in Exprs /\ s.then \in Parts(s) /\ (s.else # None => s.else \in Parts(s))
        /\ s.then \in Stmts /\ (s.else # None => s.else \in Stmts) /\ s.then # None
    BY <1>3, <1>9, ValidatorAssumption DEF AreTrees, Parts
  <2>2. LeavesDeclared[s] = {}
    BY <1>3, <1>6, <1>9 DEF BranchDeclaring
  <2>3. LeavesDeclared[s.then] = {} /\ (s.else # None => LeavesDeclared[s.else] = {})
    BY <1>3, <1>9, <2>2, LeavingCases
  <2>4. Right(s.then) /\ (s.else # None => Right(s.else)) /\ NamesIn(s.cond) \subseteq OwnNames(N)
    BY <1>3, <1>6, <1>9, <2>1, NamesOfStmt DEF BranchDeclaring
  <2>5. /\ Still(u, N, GenStmt[s.then], SourceStmt[s.then])
        /\ s.else # None => Still(u, N, GenStmt[s.else], SourceStmt[s.else])
    BY <1>4, <2>1, <2>3, <2>4
  <2>6. PICK v, w : /\ v = IF s.else = None THEN <<>> ELSE InScope(GenStmt[s.else])
                    /\ w = IF s.else = None THEN <<>> ELSE SourceStmt[s.else]
    OBVIOUS
  <2>7. PICK x, y : x = InScope(GenStmt[s.then]) /\ y = SourceStmt[s.then]
    OBVIOUS
  <2>8. PICK a, b : a = GenIfAny(s.cond) /\ b = SourceIfAny(s.cond)
    OBVIOUS
  <2> HIDE DEF Good, Right
  <2>9. \A z \in Stmts : IsText(InScope(GenStmt[z]))
    BY StmtIsText, LittleText, ConcatText DEF InScope
  <2>10. IsText(a) /\ IsText(b) /\ Still(u, N, a, b)
    BY <2>1, <2>4, <2>8, OwnTexts, IfAnyAlike
  <2>11. IsText(x) /\ IsText(y) /\ Still(u, N, x, y)
    BY <2>1, <2>5, <2>7, <2>9, StmtIsText, BranchAlike
  <2>12. IsText(v) /\ IsText(w) /\ Still(u, N, v, w)
    <3>1. CASE s.else = None
      <4>1. v = <<>> /\ w = <<>>
        BY <2>6, <3>1
      <4> QED BY <4>1, LittleText, ReadsLittle DEF Still
    <3>2. CASE s.else # None
      <4>1. v = InScope(GenStmt[s.else]) /\ w = SourceStmt[s.else]
        BY <2>6, <3>2
      <4> QED BY <2>1, <2>5, <2>9, <3>2, <4>1, StmtIsText, BranchAlike
    <3> QED BY <3>1, <3>2
  <2>13. GenStmt[s] = (a \o x) \o v /\ SourceStmt[s] = (b \o y) \o w
    BY <1>5, <1>9, <2>6, <2>7, <2>8 DEF CWritingStmt, SourceWritingStmt
  <2>14. IsText(a \o x) /\ IsText(b \o y) /\ Still(u, N, a \o x, b \o y)
    BY <2>10, <2>11, ConcatText, AlikeConcat
  <2>15. Still(u, N, (a \o x) \o v, (b \o y) \o w)
    BY <2>12, <2>14, AlikeConcat
  <2> QED BY <1>3, <1>7, <2>13, <2>15
<1>10. CASE s.kind = "var"
  <2>1. LeavesDeclared[s] = {s} /\ s.init \in Exprs \cup {None} /\ NamesIn(s.init) \subseteq OwnNames(N)
    BY <1>3, <1>10, LeavingCases, NamesOfStmt, ValidatorAssumption DEF AreTrees
  <2>2. NamesLeft(s) = {s.name}
    BY <2>1 DEF NamesLeft
  <2>3. GenStmt[s] = GenVar(s) /\ SourceStmt[s] = SourceVar(s)
    BY <1>5, <1>10 DEF CWritingStmt, SourceWritingStmt
  <2>4. ASSUME NEW M, NamesLeft(s) \subseteq M
        PROVE  Binds(u, N, M, GenStmt[s], SourceStmt[s])
    BY <2>1, <2>2, <2>3, <2>4, VarAlike
  <2> QED BY <1>3, <2>1, <2>4
<1>11. CASE s.kind \in {"expr", "return"}
  <2>1. s.expr \in Exprs \cup {None} /\ NamesIn(s.expr) \subseteq OwnNames(N)
    BY <1>3, <1>11, NamesOfStmt, ValidatorAssumption DEF AreTrees
  <2>2. GenStmt[s] = GenIfAny(s.expr) /\ SourceStmt[s] = SourceIfAny(s.expr)
    BY <1>5, <1>11 DEF CWritingStmt, SourceWritingStmt
  <2> QED BY <1>3, <1>7, <2>1, <2>2, IfAnyAlike
<1>12. CASE s.kind \notin {"expr", "return", "var", "if", "block"}
  <2>1. GenStmt[s] = <<>> /\ SourceStmt[s] = <<>>
    BY <1>5, <1>12 DEF CWritingStmt, SourceWritingStmt
  <2>2. Still(u, N, <<>>, <<>>)
    BY ReadsLittle DEF Still
  <2> QED BY <1>3, <1>7, <2>1, <2>2
<1> QED
  BY <1>8, <1>9, <1>10, <1>11, <1>12

-----------------------------------------------------------------------------
(* Functions *)

\* A sequence behind another.
Joined(r, a, b, P) ==
  /\ r \in Seq(P) /\ Len(r) = Len(a) + Len(b)
  /\ \A i \in 1 .. Len(a) : r[i] = a[i]
  /\ \A i \in 1 .. Len(b) : r[Len(a) + i] = b[i]

\* It has the elements of both.
LEMMA ConcatElements ==
  ASSUME NEW P, NEW a \in Seq(P), NEW b \in Seq(P)
  PROVE  Joined(a \o b, a, b, P)
<1> PICK r : r = a \o b
  OBVIOUS
<1>1. r \in Seq(P) /\ Len(r) = Len(a) + Len(b)
  OBVIOUS
<1>2. \A i \in 1 .. Len(a) : r[i] = a[i]
  OBVIOUS
<1>3. ASSUME NEW i \in 1 .. Len(b)
      PROVE  r[Len(a) + i] = b[i]
  <2>1. Len(a) + i \in 1 .. Len(a) + Len(b) /\ ~(Len(a) + i =< Len(a)) /\ (Len(a) + i) - Len(a) = i
    OBVIOUS
  <2> QED BY <2>1
<1> QED
  BY <1>1, <1>2, <1>3 DEF Joined

\* What is left of x between one element and another.
LEMMA WithoutEnds ==
  ASSUME NEW P, NEW o \in Seq(P), NEW x \in Seq(P), NEW e \in Seq(P), Len(o) = 1, Len(e) = 1,
         NEW k, Joined(k, o, x, P), NEW y, Joined(y, k, e, P)
  PROVE  SubSeq(y, 2, Len(y) - 1) = x
<1> PICK n : n = Len(x)
  OBVIOUS
<1>1. n \in Nat /\ Len(k) = 1 + n /\ y \in Seq(P) /\ Len(y) = (1 + n) + 1
  BY DEF Joined
<1>2. \A i \in 1 .. n : y[i + 1] = x[i]
  <2>1. \A i \in 1 .. n : 1 + i = i + 1 /\ 1 + i \in 1 .. 1 + n
    BY <1>1
  <2>2. \A i \in 1 .. n : k[1 + i] = x[i]
    BY DEF Joined
  <2>3. \A i \in 1 .. 1 + n : y[i] = k[i]
    BY <1>1 DEF Joined
  <2> QED BY <2>1, <2>2, <2>3
<1> PICK z : z = SubSeq(y, 2, n + 1)
  OBVIOUS
<1>3. z = [i \in 1 .. n |-> y[i + 1]]
  BY <1>1
<1>4. x = [i \in 1 .. n |-> x[i]]
  OBVIOUS
<1>5. z = x
  BY <1>2, <1>3, <1>4
<1>6. Len(y) - 1 = n + 1
  BY <1>1
<1> QED
  BY <1>5, <1>6

\* What is inside the braces.
LEMMA WithoutBraces ==
  ASSUME NEW x, IsText(x)
  PROVE  SubSeq(InScope(x), 2, Len(InScope(x)) - 1) = x
<1>1. PICK P : P = Range(x) \cup {Open[1], Close[1]}
  OBVIOUS
<1>2. x \in Seq(P) /\ Open \in Seq(P) /\ Close \in Seq(P) /\ Len(Open) = 1 /\ Len(Close) = 1
  <2>1. PICK R : R = Range(x)
    OBVIOUS
  <2>2. x \in Seq(R)
    BY <2>1, Zenon DEF IsText, IsStack
  <2>3. R \subseteq P
    BY <1>1, <2>1
  <2>4. x \in Seq(P)
    BY <2>2, <2>3
  <2>5. \A p \in P : <<p>> \in Seq(P) /\ Len(<<p>>) = 1
    OBVIOUS
  <2>6. Open = <<Open[1]>> /\ Close = <<Close[1]>>
    BY DEF Open, Close
  <2> QED BY <1>1, <2>4, <2>5, <2>6
<1>3. InScope(x) = (Open \o x) \o Close
  BY DEF InScope
<1>4. PICK y : y = InScope(x)
  OBVIOUS
<1>5. PICK k : k = Open \o x
  OBVIOUS
<1>6. Joined(k, Open, x, P)
  BY <1>2, <1>5, ConcatElements
<1>7. k \in Seq(P) /\ y = k \o Close
  BY <1>3, <1>4, <1>5, <1>6 DEF Joined
<1>8. Joined(y, k, Close, P)
  BY <1>2, <1>7, ConcatElements
<1>9. SubSeq(y, 2, Len(y) - 1) = x
  BY <1>2, <1>6, <1>8, WithoutEnds
<1> QED
  BY <1>4, <1>9

\* A function whose body declares no name of a parameter may have one scope for both.
LEMMA BodyAlike ==
  ASSUME NEW u, NEW N, NEW P, NEW M, P \cap M = {}, NEW px, NEW py, NEW bx, NEW by,
         IsText(px), IsText(py), IsText(bx), IsText(by), Binds(u, N, P, px, py), Binds(u, N, M, bx, by)
  PROVE  Still(u, N, InScope(px \o bx), InScope(py \o InScope(by)))
<1> SUFFICES ASSUME NEW c, NEW s, NEW d, NEW t, Alike(c, s, N), Reads(u, c, InScope(px \o bx), d),
                    Reads(u, s, InScope(py \o InScope(by)), t), ~t.twice
             PROVE  Alike(d, t, N) /\ d.scopes = c.scopes /\ t.scopes = s.scopes
  BY DEF Still
<1>0. /\ IsState(c) /\ IsState(s) /\ IsText(px \o bx) /\ IsText(Close) /\ IsText(InScope(by))
      /\ IsText(py \o InScope(by))
  BY LittleText, ConcatText DEF Alike, InScope
<1>1. PICK c1, c3 : Reads(u, c, Open, c1) /\ Reads(u, c1, px \o bx, c3) /\ Reads(u, c3, Close, d)
  BY <1>0, ReadsInScope
<1>2. PICK c2 : Reads(u, c1, px, c2) /\ Reads(u, c2, bx, c3)
  BY <1>1, ReadsConcat DEF IsText
<1>3. PICK s1, s5 : Reads(u, s, Open, s1) /\ Reads(u, s1, py \o InScope(by), s5) /\ Reads(u, s5, Close, t)
  BY <1>0, ReadsInScope
<1>4. PICK s2 : Reads(u, s1, py, s2) /\ Reads(u, s2, InScope(by), s5)
  BY <1>0, <1>3, ReadsConcat DEF IsText
<1>5. PICK s3, s4 : Reads(u, s2, Open, s3) /\ Reads(u, s3, by, s4) /\ Reads(u, s4, Close, s5)
  BY <1>4, ReadsInScope
<1>6. /\ OnlyScopes(c, c1) /\ c1.scopes # <<>> /\ Front(c1.scopes) = c.scopes /\ DOMAIN Last(c1.scopes) = {}
      /\ \A key : Find(c1, key) = Find(c, key)
  BY <1>0, <1>1, OpenKeeps
<1>7. /\ OnlyScopes(s, s1) /\ s1.scopes # <<>> /\ Front(s1.scopes) = s.scopes
      /\ \A key : Find(s1, key) = Find(s, key)
  BY <1>0, <1>3, OpenKeeps
<1>8. ~s2.twice /\ ~s4.twice
  <2>1. HasFields(s1)
    BY <1>7 DEF OnlyScopes, IsState, HasFields
  <2>2. HasFields(s2)
    BY <1>4, <2>1, TwiceStays
  <2>3. HasFields(s5) /\ (s2.twice => s5.twice)
    BY <1>0, <1>4, <2>2, TwiceStays
  <2>4. HasFields(s3)
    BY <1>5, <2>2, LittleText, TwiceStays
  <2>5. HasFields(s4)
    BY <1>5, <2>4, TwiceStays
  <2>6. s4.twice => s5.twice
    BY <1>0, <1>5, <2>5, TwiceStays
  <2>7. s5.twice => t.twice
    BY <1>0, <1>3, <2>3, TwiceStays
  <2> QED BY <2>3, <2>6, <2>7
<1>9. Alike(c1, s1, N) /\ Compat(c1, s1, P)
  BY <1>6, <1>7 DEF Alike, Compat, OnlyScopes
<1>10. /\ Alike(c2, s2, N) /\ Front(c2.scopes) = Front(c1.scopes) /\ Front(s2.scopes) = Front(s1.scopes)
       /\ DOMAIN Last(c2.scopes) \subseteq DOMAIN Last(c1.scopes) \cup {Prefixed(n) : n \in P}
  BY <1>2, <1>4, <1>8, <1>9 DEF Binds
<1>11. /\ OnlyScopes(s2, s3) /\ s3.scopes # <<>> /\ Front(s3.scopes) = s2.scopes
       /\ \A key : Find(s3, key) = Find(s2, key)
  <2>1. IsState(s2)
    BY <1>10 DEF Alike
  <2> QED BY <1>5, <2>1, OpenKeeps
<1>12. Alike(c2, s3, N)
  BY <1>10, <1>11 DEF Alike, OnlyScopes
<1>13. Compat(c2, s3, M)
  <2>1. \A n, m : Prefixed(n) = Prefixed(m) => n = m
    BY DEF Prefixed
  <2>2. \A n \in M : Prefixed(n) \notin DOMAIN Last(c2.scopes)
    BY <1>6, <1>10, <2>1
  <2> QED BY <2>2 DEF Compat
<1>14. Alike(c3, s4, N) /\ Front(c3.scopes) = Front(c2.scopes) /\ Front(s4.scopes) = Front(s3.scopes)
  BY <1>2, <1>5, <1>8, <1>12, <1>13 DEF Binds
<1>15. OnlyScopes(c3, d) /\ d.scopes = Front(c3.scopes)
  BY <1>1, <1>14, CloseKeeps DEF Alike
<1>16. OnlyScopes(s4, s5) /\ s5.scopes = Front(s4.scopes)
  BY <1>5, <1>14, CloseKeeps DEF Alike
<1>17. OnlyScopes(s5, t) /\ t.scopes = Front(s5.scopes)
  <2>1. IsState(s5) /\ s5.scopes # <<>>
    BY <1>10, <1>11, <1>14, <1>16 DEF Alike, OnlyScopes
  <2> QED BY <1>3, <2>1, CloseKeeps
<1>18. d.scopes = c.scopes /\ t.scopes = s.scopes
  BY <1>6, <1>7, <1>10, <1>11, <1>14, <1>15, <1>16, <1>17
<1>19. IsState(d) /\ IsState(t) /\ d.uses = t.uses /\ d.locals = t.locals /\ ~d.twice
  BY <1>14, <1>15, <1>16, <1>17 DEF Alike, OnlyScopes
<1> QED
  BY <1>18, <1>19, AlikeSame

\* The name that a declaration has in C, and what the C has behind it.
KeyOf(d) == IF d.kind = "var" THEN Prefixed(d.name) ELSE FuncName(d)
ParamsText(d) == FlattenSeq([i \in DOMAIN d.params |-> GenVar(d.params[i])])
BodyText(d) == IF d.body = None THEN <<>> ELSE SubSeq(GenStmt[d.body], 2, Len(GenStmt[d.body]) - 1)
RestOf(d) == IF d.kind = "var" THEN GenIfAny(d.init) ELSE InScope(ParamsText(d) \o BodyText(d))
SourceParams(d) == FlattenSeq([i \in DOMAIN d.params |-> SourceVar(d.params[i])])

\* The parameters of a function, and its body.
LEMMA ParamsAlike ==
  ASSUME NEW u, NEW N, NEW d, IsDecl(d), d.kind = "fn", NamesInDecl(d) \subseteq OwnNames(N)
  PROVE  /\ IsText(ParamsText(d)) /\ IsText(SourceParams(d))
         /\ Binds(u, N, {p.name : p \in Range(d.params)}, ParamsText(d), SourceParams(d))
<1> PICK P : P = {p.name : p \in Range(d.params)}
  OBVIOUS
<1> PICK ps : ps = d.params
  OBVIOUS
<1> DEFINE f == [p \in Range(ps) |-> GenVar(p)]
           g == [p \in Range(ps) |-> SourceVar(p)]
<1>1. ps \in Seq(Range(ps)) /\ \A p \in Range(ps) : p.init \in Exprs \cup {None} /\ p.name \in P
  BY DEF IsDecl
<1>2. \A p \in Range(ps) : NamesIn(p.init) \subseteq OwnNames(N)
  BY DEF NamesInDecl
<1>3. \A p \in Range(ps) : IsText(f[p]) /\ IsText(g[p])
  BY <1>1, OwnTexts
<1>4. \A p \in Range(ps) : Binds(u, N, P, f[p], g[p])
  BY <1>1, <1>2, VarAlike
<1>5. \A i \in DOMAIN ps : f[ps[i]] = GenVar(ps[i]) /\ g[ps[i]] = SourceVar(ps[i])
  BY DEF Range
<1>6. /\ [i \in DOMAIN ps |-> f[ps[i]]] = [i \in DOMAIN ps |-> GenVar(ps[i])]
      /\ [i \in DOMAIN ps |-> g[ps[i]]] = [i \in DOMAIN ps |-> SourceVar(ps[i])]
  BY <1>5
<1> HIDE DEF f, g
<1> PICK x, y : x = ParamsText(d) /\ y = SourceParams(d)
  OBVIOUS
<1>7. x = FlattenSeq([i \in DOMAIN ps |-> f[ps[i]]]) /\ y = FlattenSeq([i \in DOMAIN ps |-> g[ps[i]]])
  BY <1>6 DEF ParamsText, SourceParams
<1>8. PICK S : S = Range(ps)
  OBVIOUS
<1>9. ps \in Seq(S) /\ \A p \in Range(ps) : p \in S
  BY <1>1, <1>8
<1>10. IsText(x) /\ IsText(y)
  BY <1>3, <1>7, <1>9, MappedTexts
<1>11. Binds(u, N, P, x, y)
  BY <1>3, <1>4, <1>7, <1>9, AlikeMapped
<1> QED
  BY <1>10, <1>11

\* What comes behind the name.
LEMMA RestAlike ==
  ASSUME NEW u, NEW N, NEW d, IsDecl(d), NamesInDecl(d) \subseteq OwnNames(N),
         d.kind = "fn" /\ d.body # None =>
           /\ ~BranchDeclares[d.body]
           /\ \A s \in Range(d.body.stmts) :
                {v.name : v \in LeavesDeclared[s]} \cap {p.name : p \in Range(d.params)} = {}
  PROVE  IsText(RestOf(d)) /\ IsText(SourceDecl(d)) /\ Still(u, N, RestOf(d), SourceDecl(d))
<1> PICK x, y, P : x = ParamsText(d) /\ y = SourceParams(d) /\ P = {p.name : p \in Range(d.params)}
  OBVIOUS
<1>1. CASE d.kind = "var"
  <2>1. d.init \in Exprs \cup {None} /\ NamesIn(d.init) \subseteq OwnNames(N)
    BY <1>1 DEF IsDecl, NamesInDecl
  <2>2. RestOf(d) = GenIfAny(d.init) /\ SourceDecl(d) = SourceIfAny(d.init)
    BY <1>1 DEF RestOf, SourceDecl
  <2> QED BY <2>1, <2>2, OwnTexts, IfAnyAlike
<1>2. CASE d.kind = "fn" /\ d.body = None
  <2>1. IsText(x) /\ IsText(y) /\ Binds(u, N, P, x, y)
    BY <1>2, ParamsAlike
  <2>2. RestOf(d) = InScope(x \o <<>>) /\ SourceDecl(d) = InScope(y \o <<>>)
    BY <1>2 DEF RestOf, SourceDecl, BodyText, SourceParams
  <2>3. IsText(<<>>) /\ Still(u, N, <<>>, <<>>)
    BY LittleText, ReadsLittle DEF Still
  <2>4. Binds(u, N, P, <<>>, <<>>)
    BY <2>3, StillBinds
  <2>5. IsText(x \o <<>>) /\ IsText(y \o <<>>) /\ Binds(u, N, P, x \o <<>>, y \o <<>>)
    BY <2>1, <2>3, <2>4, ConcatText, AlikeConcat
  <2>6. IsText(InScope(x \o <<>>)) /\ IsText(InScope(y \o <<>>))
    BY <2>5, LittleText, ConcatText DEF InScope
  <2>7. Still(u, N, InScope(x \o <<>>), InScope(y \o <<>>))
    BY <2>5, BlockAlike
  <2> QED BY <2>2, <2>6, <2>7
<1>3. CASE d.kind = "fn" /\ d.body # None
  <2>1. IsText(x) /\ IsText(y) /\ Binds(u, N, P, x, y)
    BY <1>3, ParamsAlike
  <2> PICK b : b = d.body
    OBVIOUS
  <2>2. b \in Stmts /\ b.kind = "block" /\ b # None
    BY <1>3 DEF IsDecl
  <2>3. b.stmts \in Seq(Stmts) /\ \A s \in Range(b.stmts) : s \in Stmts
    BY <2>2, ValidatorAssumption DEF AreTrees, Range
  <2>4. \A s \in Range(b.stmts) : ~BranchDeclares[s]
    <3>1. BranchDeclares[b] = BranchDeclaring(b, BranchDeclares)
      BY <2>2, BranchDeclaresDefined
    <3> QED BY <1>3, <2>2, <3>1 DEF BranchDeclaring
  <2>5. \A s \in Range(b.stmts) : NamesInStmt[s] \subseteq OwnNames(N)
    <3>1. NamesInStmt[b] \subseteq OwnNames(N)
      BY <1>3 DEF NamesInDecl
    <3> QED BY <2>2, <3>1, NamesOfStmt
  <2>6. PICK M : M = UNION {NamesLeft(s) : s \in Range(b.stmts)}
    OBVIOUS
  <2>7. \A s \in Range(b.stmts) : /\ IsText(GenStmt[s]) /\ IsText(SourceStmt[s])
                                  /\ Binds(u, N, M, GenStmt[s], SourceStmt[s])
    <3> SUFFICES ASSUME NEW s \in Range(b.stmts)
                 PROVE  /\ IsText(GenStmt[s]) /\ IsText(SourceStmt[s])
                        /\ Binds(u, N, M, GenStmt[s], SourceStmt[s])
      OBVIOUS
    <3>1. s \in Stmts /\ ~BranchDeclares[s] /\ NamesInStmt[s] \subseteq OwnNames(N) /\ NamesLeft(s) \subseteq M
      BY <2>3, <2>4, <2>5, <2>6
    <3> QED BY <3>1, StmtAlike, StmtIsText
  <2>8. PICK v, w : /\ v = FlattenSeq([i \in DOMAIN b.stmts |-> GenStmt[b.stmts[i]]])
                    /\ w = FlattenSeq([i \in DOMAIN b.stmts |-> SourceStmt[b.stmts[i]]])
    OBVIOUS
  <2>9. IsText(v) /\ IsText(w)
    BY <2>3, <2>7, <2>8, MappedTexts
  <2>10. Binds(u, N, M, v, w)
    BY <2>3, <2>7, <2>8, AlikeMapped
  <2>11. GenStmt[b] = InScope(v) /\ SourceStmt[b] = InScope(w)
    <3>1. GenStmt[b] = CWritingStmt(b, GenStmt) /\ SourceStmt[b] = SourceWritingStmt(b, SourceStmt)
      BY <2>2, StmtTexts
    <3> QED BY <2>2, <2>8, <3>1 DEF CWritingStmt, SourceWritingStmt, GenBlock
  <2>12. BodyText(d) = v
    BY <1>3, <2>9, <2>11, WithoutBraces DEF BodyText
  <2>13. RestOf(d) = InScope(x \o v) /\ SourceDecl(d) = InScope(y \o InScope(w))
    BY <1>3, <2>11, <2>12 DEF RestOf, SourceDecl, SourceParams
  <2>14. P \cap M = {}
    BY <1>3, <2>6 DEF NamesLeft
  <2>15. IsText(x \o v) /\ IsText(InScope(w)) /\ IsText(y \o InScope(w))
    BY <2>1, <2>9, LittleText, ConcatText DEF InScope
  <2>16. IsText(InScope(x \o v)) /\ IsText(InScope(y \o InScope(w)))
    BY <2>15, LittleText, ConcatText DEF InScope
  <2>17. Still(u, N, InScope(x \o v), InScope(y \o InScope(w)))
    BY <2>1, <2>9, <2>10, <2>14, BodyAlike
  <2> QED BY <2>13, <2>16, <2>17
<1> QED
  BY <1>1, <1>2, <1>3 DEF IsDecl

-----------------------------------------------------------------------------
(* Units *)

\* What is mentioned is a unit, or none, and a name.
LEMMA NamesArePairs ==
  /\ \A e \in Exprs : NamesInExpr[e] \subseteq UsesOf
  /\ \A s \in Stmts : NamesInStmt[s] \subseteq UsesOf
<1>1. \A e \in Exprs : NamesInExpr[e] \subseteq UsesOf
  <2> DEFINE depth == [e \in Exprs |-> Depth[e]]
             T == {e \in Exprs : ~(NamesInExpr[e] \subseteq UsesOf)}
  <2> SUFFICES ASSUME T # {}
               PROVE  FALSE
    OBVIOUS
  <2>1. depth \in [Exprs -> Nat]
    BY ValidatorAssumption DEF AreTrees
  <2>2. PICK e \in T : \A y \in T : depth[e] =< depth[y]
    <3>1. T \in SUBSET Exprs
      OBVIOUS
    <3> HIDE DEF T, depth
    <3> QED BY <2>1, <3>1, Shallowest
  <2>3. e \in Exprs /\ ~(NamesInExpr[e] \subseteq UsesOf)
    BY <2>2
  <2>4. ASSUME NEW p \in Parts(e)
        PROVE  NamesInExpr[p] \subseteq UsesOf
    <3>1. p \in Exprs /\ Depth[p] < Depth[e]
      BY <2>3, ExprParts
    <3>2. depth[p] < depth[e] /\ depth[p] \in Nat /\ depth[e] \in Nat
      BY <2>1, <2>3, <3>1
    <3>3. p \notin T
      <4> HIDE DEF T, depth
      <4> QED BY <2>2, <3>2
    <3> QED BY <3>1, <3>3
  <2>5. NamesInExpr[e] = Naming(e, NamesInExpr) /\ <<e.unit, e.name>> \in UsesOf
    BY <2>3, NamesInExprDefined DEF UsesOf
  <2> HIDE DEF T, depth
  <2>6. CASE e.kind = "call"
    <3>1. \A a \in Range(e.args) : NamesInExpr[a] \subseteq UsesOf
      BY <2>4, <2>6 DEF Parts
    <3>2. NamesInExpr[e] = {<<e.unit, e.name>>} \cup UNION {NamesInExpr[a] : a \in Range(e.args)}
      BY <2>5, <2>6 DEF Naming
    <3> QED BY <2>3, <2>5, <3>1, <3>2
  <2>7. CASE e.kind = "binary"
    <3>1. NamesInExpr[e.left] \subseteq UsesOf /\ NamesInExpr[e.right] \subseteq UsesOf
      BY <2>4, <2>7 DEF Parts
    <3>2. NamesInExpr[e] = NamesInExpr[e.left] \cup NamesInExpr[e.right]
      BY <2>5, <2>7 DEF Naming
    <3> QED BY <2>3, <3>1, <3>2
  <2>8. CASE e.kind \notin {"call", "binary"}
    <3>1. NamesInExpr[e] \subseteq {<<e.unit, e.name>>}
      BY <2>5, <2>8 DEF Naming
    <3> QED BY <2>3, <2>5, <3>1
  <2> QED BY <2>6, <2>7, <2>8
<1>2. \A e \in Exprs \cup {None} : NamesIn(e) \subseteq UsesOf
  BY <1>1 DEF NamesIn
<1>3. \A s \in Stmts : NamesInStmt[s] \subseteq UsesOf
  <2> DEFINE depth == [s \in Stmts |-> Depth[s]]
             T == {s \in Stmts : ~(NamesInStmt[s] \subseteq UsesOf)}
  <2> SUFFICES ASSUME T # {}
               PROVE  FALSE
    OBVIOUS
  <2>1. depth \in [Stmts -> Nat]
    BY ValidatorAssumption DEF AreTrees
  <2>2. PICK s \in T : \A y \in T : depth[s] =< depth[y]
    <3>1. T \in SUBSET Stmts
      OBVIOUS
    <3> HIDE DEF T, depth
    <3> QED BY <2>1, <3>1, Shallowest
  <2>3. s \in Stmts /\ ~(NamesInStmt[s] \subseteq UsesOf)
    BY <2>2
  <2>4. ASSUME NEW p \in Parts(s)
        PROVE  NamesInStmt[p] \subseteq UsesOf
    <3>1. p \in Stmts /\ Depth[p] < Depth[s]
      BY <2>3, StmtParts
    <3>2. depth[p] < depth[s] /\ depth[p] \in Nat /\ depth[s] \in Nat
      BY <2>1, <2>3, <3>1
    <3>3. p \notin T
      <4> HIDE DEF T, depth
      <4> QED BY <2>2, <3>2
    <3> QED BY <3>1, <3>3
  <2>5. NamesInStmt[s] = NamingStmt(s, NamesInStmt)
    BY <2>3, NamesInStmtDefined
  <2> HIDE DEF T, depth
  <2>6. CASE s.kind \in {"expr", "return", "var"}
    <3>1. /\ s.kind \in {"expr", "return"} => s.expr \in Exprs \cup {None}
          /\ s.kind = "var" => s.init \in Exprs \cup {None}
      BY <2>3, ValidatorAssumption DEF AreTrees
    <3> QED BY <1>2, <2>3, <2>5, <2>6, <3>1 DEF NamingStmt
  <2>7. CASE s.kind = "block"
    <3>1. \A t \in Range(s.stmts) : NamesInStmt[t] \subseteq UsesOf
      BY <2>4, <2>7 DEF Parts
    <3>2. NamesInStmt[s] = UNION {NamesInStmt[t] : t \in Range(s.stmts)}
      BY <2>5, <2>7 DEF NamingStmt
    <3> QED BY <2>3, <3>1, <3>2
  <2>8. CASE s.kind = "if"
    <3>1. s.cond \in Exprs /\ s.then \in Stmts /\ None \notin Stmts
      BY <2>3, <2>8, ValidatorAssumption DEF AreTrees
    <3>2. NamesInStmt[s.then] \subseteq UsesOf /\ (s.else # None => NamesInStmt[s.else] \subseteq UsesOf)
      BY <2>4, <2>8, <3>1 DEF Parts
    <3>3. NamesInStmt[s] = NamesIn(s.cond) \cup NamesInStmt[s.then]
                             \cup IF s.else = None THEN {} ELSE NamesInStmt[s.else]
      BY <2>5, <2>8 DEF NamingStmt
    <3> QED BY <1>2, <2>3, <3>1, <3>2, <3>3
  <2>9. CASE s.kind \notin {"expr", "return", "var", "block", "if"}
    <3>1. NamesInStmt[s] = {}
      BY <2>5, <2>9 DEF NamingStmt
    <3> QED BY <2>3, <3>1
  <2> QED BY <2>6, <2>7, <2>8, <2>9
<1> QED
  BY <1>1, <1>3

\* The names that a declaration mentions are names of its unit.
NamesMentioned(d) == {use[2] : use \in NamesInDecl(d)}

\* If it names no unit, those are all it mentions.
LEMMA OwnUses ==
  ASSUME NEW d, IsDecl(d), \A use \in NamesInDecl(d) : use[1] = None
  PROVE  /\ NamesInDecl(d) \subseteq OwnNames(NamesMentioned(d))
         /\ \A n \in NamesMentioned(d) : <<None, n>> \in NamesInDecl(d)
<1>1. \A e \in Exprs \cup {None} : NamesIn(e) \subseteq UsesOf
  BY NamesArePairs DEF NamesIn
<1>2. NamesInDecl(d) \subseteq UsesOf
  <2>1. CASE d.kind = "var"
    BY <1>1, <2>1 DEF NamesInDecl, IsDecl
  <2>2. CASE d.kind = "fn"
    <3>1. \A p \in Range(d.params) : NamesIn(p.init) \subseteq UsesOf
      BY <1>1, <2>2 DEF IsDecl
    <3>2. d.body # None => NamesInStmt[d.body] \subseteq UsesOf
      BY <2>2, NamesArePairs DEF IsDecl
    <3> QED BY <2>2, <3>1, <3>2 DEF NamesInDecl
  <2> QED BY <2>1, <2>2 DEF IsDecl
<1>3. \A use \in UsesOf : use = <<use[1], use[2]>>
  BY DEF UsesOf
<1> PICK U : U = NamesInDecl(d)
  OBVIOUS
<1>4. \A use \in U : use = <<None, use[2]>>
  BY <1>2, <1>3
<1> QED
  BY <1>4 DEF OwnNames, NamesMentioned

\* Where no name is declared twice, two declarations have two names.
LEMMA DistinctNames ==
  ASSUME NEW ds, NEW n \in Nat, DOMAIN ds = 1 .. n, ~(Cardinality({d.name : d \in Range(ds)}) < n)
  PROVE  \A i, j \in 1 .. n : ds[i].name = ds[j].name => i = j
<1> PICK T : T = {d.name : d \in Range(ds)}
  OBVIOUS
<1> DEFINE f == [i \in 1 .. n |-> ds[i].name]
<1>1. \A t \in T : \E i \in 1 .. n : ds[i].name = t
  BY DEF Range
<1>2. \A i \in 1 .. n : ds[i].name \in T
  BY DEF Range
<1>3. f \in Surjection(1 .. n, T)
  BY <1>1, <1>2 DEF Surjection
<1>4. IsFiniteSet(1 .. n) /\ Cardinality(1 .. n) = n
  <2>1. 1 \in Int /\ n \in Int
    OBVIOUS
  <2>2. IsFiniteSet(1 .. n) /\ Cardinality(1 .. n) = IF 1 > n THEN 0 ELSE n - 1 + 1
    BY <2>1, FS_Interval
  <2> QED BY <2>2
<1> HIDE DEF f
<1>5. /\ IsFiniteSet(T) /\ Cardinality(T) =< n
      /\ Cardinality(T) = n <=> f \in Injection(1 .. n, T)
  BY <1>3, <1>4, FS_Surjection
<1>6. Cardinality(T) \in Nat
  BY <1>5, FS_CardinalityType
<1>7. f \in Injection(1 .. n, T)
  BY <1>5, <1>6
<1> QED
  BY <1>7 DEF Injection, IsInjective, f

\* The key of a declaration tells its name.
LEMMA KeyFacts ==
  /\ \A d : KeyOf(d) = Prefixed(d.name) \/ (d.kind # "var" /\ FuncName(d) = Bare(d.name) /\ KeyOf(d) = Bare(d.name))
  /\ \A d, e : KeyOf(d) = KeyOf(e) => d.name = e.name
  /\ \A d, n : KeyOf(d) = Prefixed(n) => d.name = n
<1>1. \A d : KeyOf(d) = Prefixed(d.name) \/ (d.kind # "var" /\ FuncName(d) = Bare(d.name) /\ KeyOf(d) = Bare(d.name))
  BY DEF KeyOf, FuncName
<1>3. \A n : Prefixed(n)[2] = n /\ Bare(n)[2] = n
  BY DEF Prefixed, Bare
<1>2. \A d : KeyOf(d)[2] = d.name
  <2> HIDE DEF Prefixed, Bare
  <2> SUFFICES ASSUME NEW d PROVE KeyOf(d)[2] = d.name
    OBVIOUS
  <2>1. CASE KeyOf(d) = Prefixed(d.name)
    BY <1>3, <2>1, Zenon
  <2>2. CASE KeyOf(d) = Bare(d.name)
    BY <1>3, <2>2, Zenon
  <2> QED BY <1>1, <2>1, <2>2
<1> QED
  BY <1>1, <1>2, <1>3

\* What a name stands for where there is one scope.
LEMMA FindInOne ==
  ASSUME NEW st, NEW table, st.scopes = <<table>>, NEW k
  PROVE  Find(st, k) = IF k \in DOMAIN table THEN table[k] ELSE <<0, "">>
<1>1. DOMAIN st.scopes = {1} /\ st.scopes[1] = table
  OBVIOUS
<1>2. Holders(st, k) = IF k \in DOMAIN table THEN {1} ELSE {}
  BY <1>1 DEF Holders
<1>3. Max({1}) = 1
  BY DEF Max
<1> QED
  BY <1>1, <1>2, <1>3 DEF Find

\* A text that declares a global name where there is one scope.
LEMMA GlobalKeeps ==
  ASSUME NEW u, NEW a, NEW b, NEW key, NEW name, NEW table, IsState(a), a.scopes = <<table>>,
         Reads(u, a, DeclGlobal(key, name), b)
  PROVE  /\ IsState(b) /\ b.locals = a.locals /\ b.uses = a.uses
         /\ b.twice = (a.twice \/ key \in DOMAIN table)
         /\ b.scopes = <<Put(table, key, <<u, name>>)>>
<1>2. PICK m : m = <<u, name>>
  OBVIOUS
<1>1. b = Declares(a, key, m)
  <2> DEFINE p == [is |-> "global", key |-> key, name |-> name]
  <2>1. Read(u, a, p) = Declares(a, key, m)
    BY <1>2 DEF Read
  <2>2. Reads(u, a, <<p>>, b)
    BY DEF DeclGlobal
  <2> HIDE DEF p
  <2>3. b = Read(u, a, p)
    BY <2>2, ReadsLittle
  <2> QED BY <2>1, <2>3
<1>3. b = Declares(a, key, m) /\ a.scopes # <<>> /\ Last(a.scopes) = table /\ Len(a.scopes) = 1
  BY <1>1 DEF Last
<1>4. IsState(b) /\ b.locals = a.locals /\ b.uses = a.uses
  BY <1>3, DeclaresKeeps, Zenon
<1>5. b.twice = (a.twice \/ key \in DOMAIN Last(a.scopes))
  BY <1>3, DeclaresKeeps, Zenon
<1>6. Len(b.scopes) = Len(a.scopes) /\ Last(b.scopes) = Put(Last(a.scopes), key, m)
  <2>1. a.scopes # <<>> /\ b = Declares(a, key, m)
    BY <1>3
  <2>2. Len(b.scopes) = Len(a.scopes)
    BY <2>1, DeclaresKeeps
  <2>3. Topped(a.scopes, b.scopes, Put(Last(a.scopes), key, m))
    BY <2>1, DeclaresTop
  <2>4. b.scopes[Len(b.scopes)] = Put(Last(a.scopes), key, m)
    BY <2>3 DEF Topped
  <2>5. Last(b.scopes) = b.scopes[Len(b.scopes)]
    BY DEF Last
  <2> QED BY <2>2, <2>4, <2>5
<1> PICK ss, top : ss = b.scopes /\ top = Put(table, key, m)
  OBVIOUS
<1>7. IsStack(ss) /\ Len(ss) = 1 /\ ss[1] = top
  BY <1>3, <1>4, <1>6 DEF IsState, Last
<1>8. ss = <<top>>
  <2>1. PICK A : A = Range(ss)
    OBVIOUS
  <2>2. ss \in Seq(A)
    BY <1>7, <2>1, Zenon DEF IsStack
  <2> QED BY <1>7, <2>2
<1> QED
  BY <1>2, <1>3, <1>4, <1>5, <1>8

\* The declarations of a unit for which KnownToDiffer has no reason.
Ordinary(ds) ==
  /\ Len(ds) \in Nat /\ DOMAIN ds = 1 .. Len(ds)
  /\ \A i \in 1 .. Len(ds) :
       /\ IsDecl(ds[i])
       /\ \A use \in NamesInDecl(ds[i]) : use[1] = None
       /\ ds[i].kind = "fn" /\ ds[i].body # None =>
            /\ ~BranchDeclares[ds[i].body]
            /\ \A s \in Range(ds[i].body.stmts) :
                 {v.name : v \in LeavesDeclared[s]} \cap {p.name : p \in Range(ds[i].params)} = {}
  /\ \A i, j \in 1 .. Len(ds) :
       /\ ds[i].name = ds[j].name => i = j
       /\ ds[j].name \in NamesMentioned(ds[i]) => j =< i
       /\ ds[j].kind = "fn" /\ FuncName(ds[j]) = Bare(ds[j].name) => ds[j].name \notin NamesMentioned(ds[i])

\* Of the names of a unit the globals are those of its declarations.
Knows(globals, u, ds) ==
  \A n : /\ n \in NamesOf(ds) => <<None, n>> \in DOMAIN globals /\ globals[<<None, n>>] = <<u, n>>
         /\ n \notin NamesOf(ds) => <<None, n>> \notin DOMAIN globals

\* What the C has declared behind the first i declarations.
HasDeclared(table, u, ds, i) ==
  /\ DOMAIN table = {KeyOf(ds[j]) : j \in 1 .. i}
  /\ \A j \in 1 .. i : table[KeyOf(ds[j])] = <<u, ds[j].name>>

\* Where two readers are behind the first i declarations: c in the C, s in the source.
Progress(u, ds, globals, i, c, s) ==
  /\ IsState(c) /\ IsState(s) /\ ~c.twice /\ c.uses = s.uses /\ c.locals = s.locals
  /\ s.scopes = <<globals>>
  /\ \E table : c.scopes = <<table>> /\ HasDeclared(table, u, ds, i)

\* One more declaration.
LEMMA NextDeclared ==
  ASSUME NEW u, NEW ds, Ordinary(ds), NEW i \in 0 .. Len(ds) - 1, NEW table, HasDeclared(table, u, ds, i)
  PROVE  /\ KeyOf(ds[i + 1]) \notin DOMAIN table
         /\ HasDeclared(Put(table, KeyOf(ds[i + 1]), <<u, ds[i + 1].name>>), u, ds, i + 1)
<1>1. /\ i \in Nat /\ i + 1 \in 1 .. Len(ds) /\ 1 .. i + 1 = (1 .. i) \cup {i + 1} /\ i + 1 \notin 1 .. i
      /\ \A j \in 1 .. i : j \in 1 .. Len(ds)
  BY DEF Ordinary
<1> PICK key, m : key = KeyOf(ds[i + 1]) /\ m = <<u, ds[i + 1].name>>
  OBVIOUS
<1>2. \A j \in 1 .. i : KeyOf(ds[j]) # key
  <2> SUFFICES ASSUME NEW j \in 1 .. i, KeyOf(ds[j]) = key
               PROVE  FALSE
    OBVIOUS
  <2>1. ds[j].name = ds[i + 1].name
    BY KeyFacts
  <2> QED BY <1>1, <2>1 DEF Ordinary
<1>3. key \notin DOMAIN table
  BY <1>2 DEF HasDeclared
<1> PICK top : top = Put(table, key, m)
  OBVIOUS
<1>4. DOMAIN top = DOMAIN table \cup {key} /\ top[key] = m /\ \A k \in DOMAIN table : k # key => top[k] = table[k]
  BY DEF Put
<1>5. DOMAIN top = {KeyOf(ds[j]) : j \in 1 .. i + 1}
  BY <1>1, <1>4 DEF HasDeclared
<1>6. \A j \in 1 .. i : top[KeyOf(ds[j])] = <<u, ds[j].name>>
  BY <1>2, <1>4 DEF HasDeclared
<1>7. \A j \in 1 .. i + 1 : top[KeyOf(ds[j])] = <<u, ds[j].name>>
  BY <1>1, <1>4, <1>6
<1> QED
  BY <1>3, <1>5, <1>7 DEF HasDeclared

\* The names that a declaration mentions stand for the same in both when it is declared.
LEMMA SameMeaning ==
  ASSUME NEW u, NEW ds, Ordinary(ds), NEW globals, Knows(globals, u, ds),
         NEW i \in 1 .. Len(ds), NEW table, HasDeclared(table, u, ds, i),
         NEW c, NEW s, c.scopes = <<table>>, s.scopes = <<globals>>, NEW n \in NamesMentioned(ds[i])
  PROVE  Find(c, Prefixed(n)) = Find(s, <<None, n>>)
<1>1. Find(c, Prefixed(n)) = IF Prefixed(n) \in DOMAIN table THEN table[Prefixed(n)] ELSE <<0, "">>
  BY FindInOne
<1>2. Find(s, <<None, n>>) = IF <<None, n>> \in DOMAIN globals THEN globals[<<None, n>>] ELSE <<0, "">>
  BY FindInOne
<1>3. CASE n \in NamesOf(ds)
  <2>1. PICK j \in 1 .. Len(ds) : ds[j].name = n
    BY <1>3 DEF NamesOf, Range, Ordinary
  <2>2. j \in 1 .. i
    BY <2>1 DEF Ordinary
  <2>3. KeyOf(ds[j]) = Prefixed(n)
    <3>1. ~(ds[j].kind = "fn" /\ FuncName(ds[j]) = Bare(ds[j].name))
      BY <2>1 DEF Ordinary
    <3>2. ds[j].kind \in {"var", "fn"}
      BY <2>1 DEF Ordinary, IsDecl
    <3> QED BY <2>1, <3>1, <3>2, KeyFacts
  <2>4. Prefixed(n) \in DOMAIN table /\ table[Prefixed(n)] = <<u, n>>
    BY <2>1, <2>2, <2>3 DEF HasDeclared
  <2>5. <<None, n>> \in DOMAIN globals /\ globals[<<None, n>>] = <<u, n>>
    BY <1>3 DEF Knows
  <2> QED BY <1>1, <1>2, <2>4, <2>5
<1>4. CASE n \notin NamesOf(ds)
  <2>1. Prefixed(n) \notin DOMAIN table
    <3> SUFFICES ASSUME Prefixed(n) \in DOMAIN table
                 PROVE  FALSE
      OBVIOUS
    <3>1. PICK j \in 1 .. i : KeyOf(ds[j]) = Prefixed(n)
      BY DEF HasDeclared
    <3>2. ds[j].name = n
      BY <3>1, KeyFacts
    <3>3. j \in DOMAIN ds
      BY DEF Ordinary
    <3> QED BY <1>4, <3>2, <3>3 DEF NamesOf, Range
  <2>2. <<None, n>> \notin DOMAIN globals
    BY <1>4 DEF Knows
  <2> QED BY <1>1, <1>2, <2>1, <2>2
<1> QED
  BY <1>3, <1>4

\* The C of a declaration.
CDecl(d) == DeclGlobal(KeyOf(d), d.name) \o RestOf(d)

\* Two readers read one more declaration.
LEMMA DeclStep ==
  ASSUME NEW u, NEW ds, Ordinary(ds), NEW globals, Knows(globals, u, ds), NEW i \in 0 .. Len(ds) - 1,
         NEW c, NEW s, NEW d, NEW t, Progress(u, ds, globals, i, c, s),
         Reads(u, c, CDecl(ds[i + 1]), d), Reads(u, s, SourceDecl(ds[i + 1]), t), ~t.twice
  PROVE  Progress(u, ds, globals, i + 1, d, t)
<1> PICK e, N, key : e = ds[i + 1] /\ N = NamesMentioned(e) /\ key = KeyOf(e)
  OBVIOUS
<1>1. i + 1 \in 1 .. Len(ds) /\ IsDecl(e)
  BY DEF Ordinary
<1>2. NamesInDecl(e) \subseteq OwnNames(N)
  <2>1. \A use \in NamesInDecl(e) : use[1] = None
    BY <1>1 DEF Ordinary
  <2> QED BY <1>1, <2>1, OwnUses
<1>3. IsText(RestOf(e)) /\ Still(u, N, RestOf(e), SourceDecl(e))
  <2>1. e.kind = "fn" /\ e.body # None =>
          /\ ~BranchDeclares[e.body]
          /\ \A x \in Range(e.body.stmts) :
               {v.name : v \in LeavesDeclared[x]} \cap {p.name : p \in Range(e.params)} = {}
    BY <1>1 DEF Ordinary
  <2> QED BY <1>1, <1>2, <2>1, RestAlike
<1>4. PICK m : Reads(u, c, DeclGlobal(key, e.name), m) /\ Reads(u, m, RestOf(e), d)
  <2>1. IsStack(RestOf(e)) /\ IsStack(DeclGlobal(key, e.name))
    BY <1>3, LittleText DEF IsText
  <2> QED BY <2>1, ReadsConcat DEF CDecl
<1>5. PICK table : c.scopes = <<table>> /\ HasDeclared(table, u, ds, i)
  BY DEF Progress
<1> PICK top : top = Put(table, key, <<u, e.name>>)
  OBVIOUS
<1>6. key \notin DOMAIN table /\ HasDeclared(top, u, ds, i + 1)
  BY <1>5, NextDeclared
<1>7. /\ IsState(m) /\ m.locals = c.locals /\ m.uses = c.uses
      /\ m.twice = (c.twice \/ key \in DOMAIN table) /\ m.scopes = <<top>>
  BY <1>4, <1>5, GlobalKeeps DEF Progress
<1>8. IsState(s) /\ s.scopes = <<globals>> /\ c.uses = s.uses /\ c.locals = s.locals /\ ~c.twice
  BY DEF Progress
<1>9. \A n \in N : Find(m, Prefixed(n)) = Find(s, <<None, n>>)
  BY <1>1, <1>6, <1>7, <1>8, SameMeaning
<1>10. Alike(m, s, N)
  <2>1. m.scopes # <<>> /\ s.scopes # <<>>
    BY <1>7, <1>8
  <2> QED BY <1>6, <1>7, <1>8, <1>9, <2>1 DEF Alike
<1>11. Alike(d, t, N) /\ d.scopes = m.scopes /\ t.scopes = s.scopes
  BY <1>3, <1>4, <1>10 DEF Still
<1>12. d.scopes = <<top>> /\ t.scopes = <<globals>>
  BY <1>7, <1>8, <1>11
<1> QED
  BY <1>6, <1>11, <1>12 DEF Progress, Alike

\* A reader that has read nothing.
LEMMA UnreadFacts ==
  ASSUME NEW globals
  PROVE  LET st == Unread(globals) IN
         /\ IsState(st) /\ HasFields(st) /\ st.scopes = <<globals>> /\ st.uses = <<>>
         /\ st.locals = 0 /\ st.twice = FALSE
<1> PICK st : st = Unread(globals)
  OBVIOUS
<1>1. st = [scopes |-> <<globals>>, locals |-> 0, uses |-> <<>>, twice |-> FALSE]
  BY DEF Unread
<1>2. st.scopes = <<globals>> /\ st.uses = <<>> /\ st.locals = 0 /\ st.twice = FALSE
  BY <1>1
<1>3. IsStack(st.scopes)
  <2>1. <<globals>> \in Seq({globals})
    OBVIOUS
  <2> QED BY <1>2, <2>1, SeqIsStack, Zenon
<1>4. st = [scopes |-> st.scopes, locals |-> st.locals, uses |-> st.uses, twice |-> st.twice]
  BY <1>1
<1>5. IsState(st) /\ HasFields(st)
  BY <1>2, <1>3, <1>4 DEF IsState, HasFields
<1> QED
  BY <1>2, <1>5

\* The two texts of a unit.
CText(ds) == FlattenSeq([i \in DOMAIN ds |-> CDecl(ds[i])])
SourceText(ds) == FlattenSeq([i \in DOMAIN ds |-> SourceDecl(ds[i])])

\* The two texts of a declaration.
LEMMA DeclTexts ==
  ASSUME NEW ds, Ordinary(ds), NEW i \in 1 .. Len(ds)
  PROVE  IsText(CDecl(ds[i])) /\ IsText(SourceDecl(ds[i]))
<1> PICK e, N : e = ds[i] /\ N = NamesMentioned(e)
  OBVIOUS
<1>1. IsDecl(e) /\ NamesInDecl(e) \subseteq OwnNames(N)
  <2>1. IsDecl(e) /\ \A use \in NamesInDecl(e) : use[1] = None
    BY DEF Ordinary
  <2> QED BY <2>1, OwnUses
<1>2. e.kind = "fn" /\ e.body # None =>
        /\ ~BranchDeclares[e.body]
        /\ \A x \in Range(e.body.stmts) :
             {v.name : v \in LeavesDeclared[x]} \cap {p.name : p \in Range(e.params)} = {}
  BY DEF Ordinary
<1>3. IsText(RestOf(e)) /\ IsText(SourceDecl(e))
  BY <1>1, <1>2, RestAlike
<1>4. IsText(DeclGlobal(KeyOf(e), e.name))
  BY LittleText
<1>5. IsText(CDecl(e))
  BY <1>3, <1>4, ConcatText DEF CDecl
<1> QED
  BY <1>3, <1>5

\* A reader passes through a text that f makes of each declaration.
LEMMA ReadsDecls ==
  ASSUME NEW u, NEW globals, NEW ds, ds \in Seq(Range(ds)), NEW f, \A d \in Range(ds) : IsText(f[d]),
         NEW ts, ts = [i \in DOMAIN ds |-> f[ds[i]]], NEW n, n = Len(ds)
  PROVE  \E g : Passes(u, Unread(globals), ts, n, ReadAll(u, globals, FlattenSeq(ts)), g)
<1> PICK D : D = Range(ds)
  OBVIOUS
<1>1. ds \in Seq(D) /\ n \in Nat /\ \A d \in Range(ds) : IsText(f[d])
  OBVIOUS
<1>2. Texts(ts, n) /\ IsText(FlattenSeq(ts))
  BY <1>1, MappedTexts
<1>3. Len(FlattenSeq(ts)) \in Nat
  BY <1>2, StackFacts DEF IsText
<1>4. Reads(u, Unread(globals), FlattenSeq(ts), ReadAll(u, globals, FlattenSeq(ts)))
  BY <1>3, ReadAllReads
<1> QED
  BY <1>1, <1>2, <1>4, ReadsFlat

\* The C of a unit for which KnownToDiffer has no reason says what its source says.
LEMMA SaysTheSame ==
  ASSUME NEW u, NEW ds, ds \in Seq(Range(ds)), Ordinary(ds), NEW globals, Knows(globals, u, ds),
         ~ReadAll(u, globals, SourceText(ds)).twice
  PROVE  /\ ~ReadAll(u, <<>>, CText(ds)).twice
         /\ ReadAll(u, <<>>, CText(ds)).uses = ReadAll(u, globals, SourceText(ds)).uses
<1> DEFINE f == [d \in Range(ds) |-> CDecl(d)]
           h == [d \in Range(ds) |-> SourceDecl(d)]
<1> PICK n : n = Len(ds)
  OBVIOUS
<1>1. n \in Nat /\ DOMAIN ds = 1 .. n /\ \A i \in 1 .. n : ds[i] \in Range(ds)
  BY DEF Range
<1>2. \A d \in Range(ds) : IsText(f[d]) /\ IsText(h[d])
  <2>1. \A d \in Range(ds) : \E i \in 1 .. n : d = ds[i]
    BY <1>1 DEF Range
  <2>2. \A d \in Range(ds) : IsText(CDecl(d)) /\ IsText(SourceDecl(d))
    BY <2>1, DeclTexts
  <2> QED BY <2>2
<1>3. \A i \in 1 .. n : f[ds[i]] = CDecl(ds[i]) /\ h[ds[i]] = SourceDecl(ds[i])
  BY <1>1
<1> PICK xs, ys : xs = [i \in DOMAIN ds |-> f[ds[i]]] /\ ys = [i \in DOMAIN ds |-> h[ds[i]]]
  OBVIOUS
<1>4. /\ \A i \in 1 .. n : xs[i] = CDecl(ds[i]) /\ ys[i] = SourceDecl(ds[i])
      /\ xs = [i \in DOMAIN ds |-> CDecl(ds[i])] /\ ys = [i \in DOMAIN ds |-> SourceDecl(ds[i])]
  BY <1>1, <1>3
<1> HIDE DEF f, h
<1>5. CText(ds) = FlattenSeq(xs) /\ SourceText(ds) = FlattenSeq(ys)
  BY <1>4 DEF CText, SourceText
<1>6. PICK c : Passes(u, Unread(<<>>), xs, n, ReadAll(u, <<>>, FlattenSeq(xs)), c)
  BY <1>2, ReadsDecls
<1>7. PICK s : Passes(u, Unread(globals), ys, n, ReadAll(u, globals, FlattenSeq(ys)), s)
  BY <1>2, ReadsDecls
<1> DEFINE Good(i) == HasFields(s[i]) /\ (~s[i].twice => Progress(u, ds, globals, i, c[i], s[i]))
           S == {i \in Nat : i =< n => Good(i)}
<1>8. 0 \in S
  <2>1. HasDeclared(<<>>, u, ds, 0)
    BY DEF HasDeclared
  <2>2. IsState(c[0]) /\ c[0].scopes = <<<<>>>> /\ c[0].uses = <<>> /\ c[0].locals = 0 /\ c[0].twice = FALSE
    BY <1>6, UnreadFacts DEF Passes
  <2>3. /\ IsState(s[0]) /\ HasFields(s[0]) /\ s[0].scopes = <<globals>> /\ s[0].uses = <<>>
        /\ s[0].locals = 0 /\ s[0].twice = FALSE
    BY <1>7, UnreadFacts DEF Passes
  <2>4. Progress(u, ds, globals, 0, c[0], s[0])
    BY <2>1, <2>2, <2>3 DEF Progress
  <2> QED BY <2>3, <2>4
<1>9. ASSUME NEW i \in S
      PROVE  i + 1 \in S
  <2> SUFFICES ASSUME i + 1 =< n
               PROVE  Good(i + 1)
    OBVIOUS
  <2>1. i \in Nat /\ i + 1 \in 1 .. n /\ (i + 1) - 1 = i /\ i \in 0 .. n - 1 /\ Good(i)
    BY <1>1
  <2>2. Reads(u, c[i], CDecl(ds[i + 1]), c[i + 1]) /\ Reads(u, s[i], SourceDecl(ds[i + 1]), s[i + 1])
    BY <1>4, <1>6, <1>7, <2>1 DEF Passes
  <2>3. IsText(SourceDecl(ds[i + 1]))
    BY <2>1, DeclTexts
  <2>4. HasFields(s[i + 1]) /\ (s[i].twice => s[i + 1].twice)
    BY <2>1, <2>2, <2>3, TwiceStays
  <2>5. ASSUME ~s[i + 1].twice
        PROVE  Progress(u, ds, globals, i + 1, c[i + 1], s[i + 1])
    <3>1. Progress(u, ds, globals, i, c[i], s[i])
      BY <2>1, <2>4, <2>5
    <3> QED BY <2>1, <2>2, <2>5, <3>1, DeclStep
  <2> QED BY <2>4, <2>5
<1>10. S = Nat
  <2>1. S \in SUBSET Nat
    OBVIOUS
  <2> HIDE DEF S
  <2> QED BY <1>8, <1>9, <2>1, Induction
<1>11. Progress(u, ds, globals, n, c[n], s[n])
  <2>1. Good(n)
    BY <1>1, <1>10
  <2> QED BY <1>5, <1>7, <2>1 DEF Passes
<1> QED
  BY <1>5, <1>6, <1>7, <1>11 DEF Progress, Passes

\* The text of GenProgram is that of its declarations.
LEMMA ProgramText ==
  ASSUME NEW u
  PROVE  GenProgram(u) = CText(program[u]) /\ SourceProgram(u) = SourceText(program[u])
<1> DEFINE cText(d) == IF d.kind = "var" THEN DeclGlobal(Prefixed(d.name), d.name) \o GenIfAny(d.init) ELSE GenFunc(d)
<1>1. \A d : cText(d) = CDecl(d)
  <2> SUFFICES ASSUME NEW d
               PROVE  cText(d) = CDecl(d)
    OBVIOUS
  <2>1. CASE d.kind = "var"
    BY <2>1 DEF CDecl, KeyOf, RestOf
  <2>2. CASE d.kind # "var"
    BY <2>2 DEF GenFunc, CDecl, KeyOf, RestOf, ParamsText, BodyText
  <2> QED BY <2>1, <2>2
<1>2. GenProgram(u) = FlattenSeq([i \in DOMAIN program[u] |-> cText(program[u][i])])
  BY DEF GenProgram
<1> HIDE DEF cText
<1>3. GenProgram(u) = FlattenSeq([i \in DOMAIN program[u] |-> CDecl(program[u][i])])
  BY <1>1, <1>2
<1> QED
  BY <1>3 DEF CText, SourceProgram, SourceText

\* In an accepted program the source knows the names of a unit, and only those.
LEMMA KnowsGlobals ==
  ASSUME Control, Named, pc = "accepted", NEW u \in DOMAIN program
  PROVE  Knows(AllGlobals(u), u, program[u])
<1>1. DOMAIN tables \subseteq Nat /\ u \in DOMAIN tables /\ DOMAIN tables[u] = NamesOf(program[u])
  <2>1. Len(tables) = Len(program) /\ IsStack(tables)
    BY DEF Named
  <2>2. DOMAIN tables = 1 .. Len(tables) /\ Len(tables) \in Nat
    BY <2>1, StackFacts
  <2>3. DOMAIN program = 1 .. Len(program)
    BY ProgramShape DEF Control
  <2> QED BY <2>1, <2>2, <2>3 DEF Named
<1>2. \A v \in DOMAIN tables : v # None
  BY <1>1, NoUnit
<1> DEFINE named == UNION {{<<v, n>> : n \in DOMAIN tables[v]} : v \in DOMAIN tables}
           own == {<<None, n>> : n \in DOMAIN tables[u]}
<1>3. AllGlobals(u) = [key \in named \cup own |-> IF key[1] = None THEN <<u, key[2]>> ELSE key]
  BY DEF AllGlobals
<1>4. \A n : <<None, n>> \notin named
  BY <1>2
<1>5. \A n : <<None, n>> \in own <=> n \in NamesOf(program[u])
  BY <1>1
<1>6. \A n : <<None, n>>[1] = None /\ <<None, n>>[2] = n
  OBVIOUS
<1> HIDE DEF named, own
<1> PICK g : g = AllGlobals(u)
  OBVIOUS
<1>7. ASSUME NEW n \in NamesOf(program[u])
      PROVE  <<None, n>> \in DOMAIN g /\ g[<<None, n>>] = <<u, n>>
  <2> PICK key : key = <<None, n>>
    OBVIOUS
  <2>1. key \in named \cup own /\ key[1] = None /\ key[2] = n
    BY <1>5, <1>6
  <2>2. key \in DOMAIN g /\ g[key] = <<u, key[2]>>
    BY <1>3, <2>1
  <2> QED BY <2>1, <2>2
<1>8. ASSUME NEW n, n \notin NamesOf(program[u])
      PROVE  <<None, n>> \notin DOMAIN g
  BY <1>3, <1>4, <1>5, <1>8
<1> QED
  BY <1>7, <1>8 DEF Knows

\* A unit for which KnownToDiffer has no reason.
LEMMA OrdinaryUnit ==
  ASSUME Control, NEW u \in DOMAIN program, ~KnownToDiffer(u)
  PROVE  Ordinary(program[u])
<1> PICK ds : ds = program[u]
  OBVIOUS
<1>1. Len(ds) \in Nat /\ DOMAIN ds = 1 .. Len(ds) /\ \A i \in 1 .. Len(ds) : IsDecl(ds[i])
  BY ProgramShape DEF Control
<1>2. \A i \in 1 .. Len(ds) : ds[i] \in DeclsOf(u)
  BY <1>1 DEF DeclsOf, Range
<1>3. ~NamesAUnit(u) /\ ~CallsBare(u) /\ ~ReusesGlobal(u) /\ ~ReusesParameter(u) /\ ~UsedBeforeDeclared
        /\ ~\E d \in Functions(u) : d.body # None /\ BranchDeclares[d.body]
  BY DEF KnownToDiffer, Redeclares
<1>4. \A i \in 1 .. Len(ds) : \A use \in NamesInDecl(ds[i]) : use \in NamesUsed(u) /\ use[1] = None
  BY <1>2, <1>3 DEF NamesUsed, NamesAUnit
<1>5. ASSUME NEW i \in 1 .. Len(ds), NEW n \in NamesMentioned(ds[i])
      PROVE  <<None, n>> \in NamesInDecl(ds[i]) /\ <<None, n>> \in NamesUsed(u)
  BY <1>1, <1>4, OwnUses
<1>6. ASSUME NEW i \in 1 .. Len(ds), ds[i].kind = "fn", ds[i].body # None
      PROVE  /\ ~BranchDeclares[ds[i].body]
             /\ \A s \in Range(ds[i].body.stmts) :
                  {v.name : v \in LeavesDeclared[s]} \cap {p.name : p \in Range(ds[i].params)} = {}
  <2>1. ds[i] \in Functions(u)
    BY <1>2, <1>6 DEF Functions
  <2> QED BY <1>3, <1>6, <2>1 DEF ReusesParameter
<1>7. \A i, j \in 1 .. Len(ds) : ds[i].name = ds[j].name => i = j
  <2>1. ~(Cardinality({d.name : d \in Range(ds)}) < Len(ds))
    BY <1>3 DEF ReusesGlobal, DeclsOf
  <2> QED BY <1>1, <2>1, DistinctNames
<1>8. ASSUME NEW i \in 1 .. Len(ds), NEW j \in 1 .. Len(ds), ds[j].name \in NamesMentioned(ds[i])
      PROVE  j =< i
  <2> PICK n : n = ds[j].name
    OBVIOUS
  <2> PICK use : use = <<None, n>>
    OBVIOUS
  <2>1. use \in NamesInDecl(ds[i]) /\ use[1] = None /\ use[2] = n
    BY <1>5, <1>8
  <2>2. ASSUME j > i
        PROVE  UsedBeforeDeclared
    BY <1>1, <2>1, <2>2 DEF UsedBeforeDeclared
  <2> QED BY <1>3, <2>2
<1>9. ASSUME NEW i \in 1 .. Len(ds), NEW j \in 1 .. Len(ds), ds[j].kind = "fn",
             FuncName(ds[j]) = Bare(ds[j].name), ds[j].name \in NamesMentioned(ds[i])
      PROVE  FALSE
  <2>1. ds[j] \in Functions(u)
    BY <1>2, <1>9 DEF Functions
  <2>2. <<None, ds[j].name>> \in NamesUsed(u)
    BY <1>5, <1>9
  <2> QED BY <1>3, <1>9, <2>1, <2>2 DEF CallsBare
<1>10. Ordinary(ds)
  BY <1>1, <1>4, <1>6, <1>7, <1>8, <1>9 DEF Ordinary
<1> QED
  BY <1>10

\* In the C of an accepted unit no scope declares a name twice, and every name stands for the declaration
\* it stands for in the source, however deep the blocks are, except in the cases that KnownToDiffer lists.
THEOREM BindsInC == Spec => []BindsAlikeInC
<1>1. IInv /\ SInv => BindsAlikeInC
  <2> SUFFICES ASSUME IInv, SInv, pc = "accepted", NEW u \in DOMAIN program, ~KnownToDiffer(u)
               PROVE  ~InC(u).twice /\ InC(u).uses = InSource(u).uses
    BY DEF BindsAlikeInC
  <2>1. Control /\ Named
    BY DEF IInv, SInv
  <2> PICK ds, globals : ds = program[u] /\ globals = AllGlobals(u)
    OBVIOUS
  <2>2. Ordinary(ds)
    BY <2>1, OrdinaryUnit
  <2>3. Knows(globals, u, ds)
    BY <2>1, KnowsGlobals
  <2>4. ds \in Seq(Range(ds))
    <3>1. program \in Programs /\ ds \in Range(program)
      BY <2>1 DEF Control, Range
    <3> QED BY <3>1, ValidatorAssumption DEF ArePrograms
  <2>5. InC(u) = ReadAll(u, <<>>, CText(ds)) /\ InSource(u) = ReadAll(u, globals, SourceText(ds))
    BY ProgramText DEF InC, InSource
  <2>6. ~ReadAll(u, globals, SourceText(ds)).twice
    BY <2>5 DEF KnownToDiffer, Redeclares
  <2>7. /\ ~ReadAll(u, <<>>, CText(ds)).twice
        /\ ReadAll(u, <<>>, CText(ds)).uses = ReadAll(u, globals, SourceText(ds)).uses
    BY <2>2, <2>3, <2>4, <2>6, SaysTheSame
  <2> QED BY <2>5, <2>7
<1> QED
  BY <1>1, Inductive, ScopesInductive, PTL
=============================================================================
