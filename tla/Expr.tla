-------------------------------- MODULE Expr --------------------------------
(***************************************************************************)
(* The operator tables of api/operator.c and yfp_sort_expr_tree            *)
(* (parser/expr.c): how a flat list of operands and operators becomes a    *)
(* tree.                                                                   *)
(***************************************************************************)
EXTENDS Naturals, Sequences, SequencesExt

Assignments == {"=", "+=", "-=", "*=", "/=", "%=", "&=", "|=", "^="}

\* Tiers[t] is the set of operators of tier t; higher tiers bind more tightly.
Tiers == << Assignments,
            {"&", "|", "^"},
            {"==", "!=", "<", "<=", ">", ">="},
            {"+", "-", "%"},
            {"*", "/"} >>

Operators == UNION Range(Tiers)
OpTokens == Operators \cup {"!"}   \* YFT_OP tokens; "!" is one yf_get_operator rejects

Tier(op) == CHOOSE t \in DOMAIN Tiers : op \in Tiers[t]
LeftAssoc(op) == op \notin Assignments

\* Mutant: of equal operators the last, whatever their associativity.
Split_Last(ops) ==
  FoldLeftDomain(LAMBDA index, i : IF Tier(ops[i]) <= Tier(ops[index]) THEN i ELSE index, 1, ops)

\* The operator to split at: the loosest; of equals the last, if it is left-associative.
Split(ops) ==
  FoldLeftDomain(LAMBDA index, i :
                   IF \/ Tier(ops[i]) < Tier(ops[index])
                      \/ Tier(ops[i]) = Tier(ops[index]) /\ LeftAssoc(ops[i])
                   THEN i ELSE index,
                 1, ops)

\* A parse node: its kind, the token it starts at (its operator, for a binary one), its children,
\* and what else it records of the tokens.
Node(of, at, kids, marks) == [of |-> of, at |-> at, kids |-> kids, marks |-> marks]

Leaf(p) == Node("leaf", p, <<>>, <<>>)
Call(p, args) == Node("call", p, args, <<>>)
Binary(p, left, right) == Node("binary", p, <<left, right>>, <<>>)

\* The tree of atoms and the operators ops between them, which are the tokens at places.
SortExprTree(atoms, ops, places) ==
  LET T[lo \in DOMAIN atoms, hi \in DOMAIN atoms] ==
        IF lo = hi THEN atoms[lo]
        ELSE LET s == lo - 1 + Split(SubSeq(ops, lo, hi - 1))
             IN  Binary(places[s], T[lo, s], T[s + 1, hi])
  IN  T[1, Len(atoms)]
=============================================================================
