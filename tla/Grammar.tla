------------------------------ MODULE Grammar ------------------------------
(***************************************************************************)
(* The language that the comments of parser/ and the tests describe, as    *)
(* the set of trees each part of a text has, and what the parser promises  *)
(* about it.  lo..hi are the tokens of a part.                             *)
(***************************************************************************)
EXTENDS Parser

IsIdent(lo, hi) ==
  /\ hi \in lo .. Len(tokens) /\ (hi - lo) % 2 = 0
  /\ \A p \in lo .. hi : IF (p - lo) % 2 = 0 THEN tokens[p] = "id" ELSE tokens[p] \in {".", "::"}
  /\ Cardinality({p \in lo .. hi : tokens[p] = "::"}) <= 1

Is(p, token) == p \in DOMAIN tokens /\ tokens[p] = token
Places(lo, hi, set) == {p \in lo .. hi : tokens[p] \in set}

\* Sequences of trees: each is one in First, and then, after Sep tokens, one in Rest.
Prepend(First, Rest) == {<<a>> \o rest : a \in First, rest \in Rest}

\* The trees of an expression of tier t; tier 6 are the atomic expressions.
RECURSIVE Derived(_, _, _), ArgLists(_, _)

Derived(t, lo, hi) ==
  IF hi < lo THEN {}
  ELSE IF t = 6
  THEN {Leaf(p) : p \in {q \in {lo} : IsIdent(lo, hi) \/ (lo = hi /\ Is(lo, "lit"))}}
       \cup (IF lo < hi /\ Is(lo, "(") /\ Is(hi, ")") THEN Derived(1, lo + 1, hi - 1) ELSE {})
       \cup (IF Is(hi, ")")
             THEN UNION {{Call(lo, args) : args \in ArgLists(k + 1, hi - 1)} :
                           k \in {j \in Places(lo, hi, {"("}) : IsIdent(lo, j - 1)}}
             ELSE {})
  ELSE Derived(t + 1, lo, hi) \cup
       UNION {{Binary(k, l, r) :
                 l \in Derived(IF LeftAssoc(tokens[k]) THEN t ELSE t + 1, lo, k - 1),
                 r \in Derived(IF LeftAssoc(tokens[k]) THEN t + 1 ELSE t, k + 1, hi)} :
                k \in Places(lo + 1, hi - 1, Tiers[t])}

ArgLists(lo, hi) ==
  IF hi < lo THEN {<<>>}
  ELSE {<<a>> : a \in Derived(1, lo, hi)} \cup
       UNION {Prepend(Derived(1, lo, k - 1), ArgLists(k + 1, hi) \ {<<>>}) :
                k \in Places(lo + 1, hi - 1, {","})}

IsExpr(lo, hi) == Derived(1, lo, hi) # {}

\* name : type, and perhaps = and an expression.
VarDecls(lo, hi) ==
  UNION {LET var(init) == Node("vardecl", lo, init, <<k + 1>>) IN
         IF hi = k + 1 THEN {var(<<>>)}
         ELSE IF Is(k + 2, "=") THEN {var(<<e>>) : e \in Derived(1, k + 3, hi)} ELSE {} :
           k \in {j \in Places(lo, hi - 1, {":"}) : IsIdent(lo, j - 1) /\ tokens[j + 1] = "id"}}

RECURSIVE ParamLists(_, _), Stmts(_, _), StmtLists(_, _)

ParamLists(lo, hi) ==
  IF hi < lo THEN {<<>>}
  ELSE {<<v>> : v \in VarDecls(lo, hi)} \cup
       UNION {Prepend(VarDecls(lo, k - 1), ParamLists(k + 1, hi) \ {<<>>}) :
                k \in Places(lo + 1, hi - 1, {","})}

\* An else that follows would belong to the end of this statement.
RECURSIVE OpenEnd(_)
OpenEnd(stmt) == stmt.of = "if" /\ (Len(stmt.kids) = 3 => OpenEnd(stmt.kids[3]))

Blocks(lo, hi) ==
  IF lo < hi /\ Is(lo, "{") /\ Is(hi, "}")
  THEN {Node("bstmt", lo, stmts, <<>>) : stmts \in StmtLists(lo + 1, hi - 1)} ELSE {}

\* if ( cond ) code, and perhaps else and another statement; k is the closing parenthesis.
Ifs(lo, hi) ==
  LET if(kids) == Node("if", lo, kids, <<>>) IN
  UNION {
    UNION {{if(<<c, s>>) : s \in Stmts(k + 1, hi)} \cup
           UNION {{if(<<c, s, e>>) : s \in {a \in Stmts(k + 1, j - 1) : ~OpenEnd(a)},
                                     e \in Stmts(j + 1, hi)} :
                    j \in Places(k + 2, hi - 1, {"else"})} :
             c \in Derived(1, lo + 2, k - 1)} :
      k \in Places(lo + 3, hi - 1, {")"})}

Simple(lo, hi) ==
  (IF lo = hi THEN {Frame("empty", lo)} ELSE {})
  \cup VarDecls(lo, hi - 1)
  \cup (IF tokens[lo] \in {"id", "("} THEN {e \in Derived(1, lo, hi - 1) : e.of = "leaf" => tokens[lo] = "("}
        ELSE {})
  \cup (IF ~Is(lo, "return") THEN {}
        ELSE IF hi = lo + 1 THEN {Frame("return", lo)}
        ELSE {Node("return", lo, <<e>>, <<>>) : e \in Derived(1, lo + 1, hi - 1)})

Stmts(lo, hi) ==
  IF hi < lo THEN {}
  ELSE CASE Is(lo, "{") -> Blocks(lo, hi)
         [] Is(lo, "if") -> IF Is(lo + 1, "(") THEN Ifs(lo, hi) ELSE {}
         [] OTHER -> IF Is(hi, ";") THEN Simple(lo, hi) ELSE {}

\* A statement ends in a semicolon or a brace.
StmtLists(lo, hi) ==
  IF hi < lo THEN {<<>>}
  ELSE UNION {LET first == {s \in Stmts(lo, k) : OpenEnd(s) => ~Is(k + 1, "else")} IN
              IF first = {} THEN {} ELSE Prepend(first, StmtLists(k + 1, hi)) :
                k \in Places(lo, hi, {";", "}"})}

\* What may follow the parameters of a function; each is the position of the body or of ";", and the marks.
Heads(p) ==
  LET typed == IF Is(p, ":") /\ Is(p + 1, "id") THEN {<<p + 2, <<p + 1>>>>}
               ELSE IF Is(p, "{") THEN {<<p, <<0>>>>} ELSE {}
  IN  {IF Is(h[1], "extc") THEN <<h[1] + 1, Append(h[2], h[1])>> ELSE h : h \in typed}

FuncDecls(lo, hi) ==
  UNION {
    UNION {
      UNION {{Node("funcdecl", lo, params \o body, h[2]) :
                params \in ParamLists(k + 1, j - 1),
                body \in IF h[1] = hi /\ Is(hi, ";") THEN {<<>>}
                         ELSE {<<b>> : b \in Blocks(h[1], hi)}} :
               h \in Heads(j + 1)} :
        j \in Places(k + 1, hi - 1, {")"})} :
      k \in {i \in Places(lo, hi, {"("}) : IsIdent(lo, i - 1)}}

Decls(lo, hi) == FuncDecls(lo, hi) \cup (IF Is(hi, ";") THEN VarDecls(lo, hi - 1) ELSE {})

RECURSIVE DeclLists(_)
DeclLists(lo) ==
  IF lo > Len(tokens) THEN {<<>>}
  ELSE UNION {LET first == Decls(lo, k) IN
              IF first = {} THEN {} ELSE Prepend(first, DeclLists(k + 1)) :
                k \in Places(lo, Len(tokens), {";", "}"})}

Programs == {Node("program", 0, decls, <<>>) : decls \in DeclLists(1)}

-----------------------------------------------------------------------------
(* Properties. *)

Parsed == IF Top.of = "program" THEN Programs ELSE Derived(1, 1, pos - 1)

\* A text that is parsed without a message is parsed as the grammar says, with its precedences and
\* associativities and every else at the innermost if that is open, and the grammar has no other tree
\* for it; after an expression, the token that ended it was left to the caller.  Expressions entered in
\* the middle are left out: StatementsParse is about them.
ParsesAsGrammar ==
  pc = "done" /\ notes = {} => {Result(Top)} = Parsed

Refused == pc \in {"failed", "overrun", "closed"} \/ "message" \in notes
FewOperators == Cardinality(Places(1, Len(tokens), Operators)) < MaxOperands

InGrammar ==
  IF stack[1].of = "program" THEN Programs # {}
  ELSE \E k \in DOMAIN tokens : IsExpr(1, k) /\ Token(k + 1) \notin OpTokens \cup {"(", ".", "::"}

\* Nothing the grammar has is refused or complained about, unless it has too many operators, and no read
\* of the closed file can happen while such a text is parsed: what the parser refuses is no file, and does
\* not start with an expression that something else follows.
RefusesOnlyErrors ==
  Refused /\ "middle" \notin notes /\ FewOperators => ~InGrammar

\* parser/stmt.c:16 "identifier" "op" [ ... expression], parser/stmt.c:44 "Expression or funccall": a file
\* with a statement that is an expression starting with an identifier is not refused.
StatementsParse ==
  Refused /\ FewOperators => ~InGrammar
=============================================================================
