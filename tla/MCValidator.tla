---------------------------- MODULE MCValidator ----------------------------
EXTENDS Semantics

\* Expressions.
Num == [kind |-> "num"]
True == [kind |-> "bool"]
Id(u, n) == [kind |-> "id", unit |-> u, name |-> n]
Calling(u, n, args) == [kind |-> "call", unit |-> u, name |-> n, args |-> args]
Bin(op, l, r) == [kind |-> "binary", op |-> op, left |-> l, right |-> r]

X == Id(None, "x")
G == Id(None, "g")
Values == {Num, True, X, G, Id(2, "g"), Id(3, "g"), Id(None, "f")}
Calls == {Calling(u, "f", args) : u \in {None, 1, 2}, args \in {<<>>, <<Num>>, <<Num, X>>}}
           \cup {Calling(None, "g", <<>>)}
Binaries == {Bin(op, l, r) : op \in {"assign", "bool", "arith"},
                             l \in {Num, X}, r \in {Num, G, Calling(None, "f", <<>>)}}
MCExprs == Values \cup Calls \cup Binaries \cup {Bin("bool", Bin("arith", X, Num), G)}

\* Statements.
EmptyS == [kind |-> "empty"]
Use(e) == [kind |-> "expr", expr |-> e]
VarD(n, t, e) == [kind |-> "var", name |-> n, type |-> t, init |-> e]
Ret(e) == [kind |-> "return", expr |-> e]
BlockOf(s) == [kind |-> "block", stmts |-> s]
IfS(c, t, e) == [kind |-> "if", cond |-> c, then |-> t, else |-> e]
FnD(n, ps, t, b) ==
  [kind |-> "fn", name |-> n, params |-> ps, ret |-> t, body |-> b, extc |-> FALSE]

\* 1. Every way in which blocks and if statements return, two deep, and some three deep.
Plain == {EmptyS, Ret(Num), Ret(None)}
Once == Plain \cup {BlockOf(s) : s \in BoundedSeq(Plain, 2)}
              \cup {IfS(True, s, t) : s \in Plain, t \in Plain \cup {None}}
Returning == {BlockOf(<<s, t>>) : s, t \in Once}
               \cup {BlockOf(<<IfS(True, s, t)>>) : s \in Once, t \in {Ret(Num), EmptyS}}
               \cup {IfS(True, IfS(True, Ret(Num), s), Ret(Num)) : s \in Once}
ReturnPrograms == {<< <<FnD("f", <<>>, t, BlockOf(<<s>>))>> >> : s \in Returning, t \in {"int", "void"}}

\* 2. Declarations and uses of x in blocks, branches and parameters.
Local == {VarD("x", "int", None), VarD("x", "bool", True), VarD("x", "long", X), Use(X),
          VarD("x", "nope", None)}
Nested == Local \cup {BlockOf(<<s, t>>) : s, t \in Local}
                \cup {IfS(X, s, Use(X)) : s \in Local}
                \cup {IfS(True, BlockOf(<<s>>), VarD("x", "int", Num)) : s \in Local}
ScopeBodies == {BlockOf(<<s, t, Use(X)>>) : s \in Nested, t \in Nested}
Xs == {<<>>, <<VarD("x", "bool", None)>>}
ScopePrograms == {<< xs \o <<FnD("f", ps, "void", b)>> >> : xs, ps \in Xs, b \in ScopeBodies}

\* 3. Global declarations in every order, over two units, with errors of every kind.
Gs == {VarD("g", t, e) : t \in {"int", "void", "nope"}, e \in {None, Num, G, Calling(2, "f", <<>>)}}
Fs == {FnD("f", <<>>, "int", BlockOf(<<Ret(G)>>)),
       FnD("f", <<VarD("x", "int", None)>>, "bool", BlockOf(<<Ret(Calling(None, "f", <<Num>>))>>)),
       FnD("f", <<VarD("g", "int", None), VarD("x", "nope", None)>>, "int", None),
       FnD("f", <<VarD("g", "int", None)>>, "bool", BlockOf(<<Ret(Id(3, "g"))>>)),
       FnD("f", <<VarD("x", "char", True)>>, "void", BlockOf(<<Use(Calling(None, "f", <<Num, X>>))>>)),
       FnD("f", <<>>, "nope", None),
       FnD("g", <<>>, "bool", BlockOf(<<IfS(Calling(1, "f", <<>>), Ret(G), Ret(Id(2, "g")))>>)),
       FnD("f", <<>>, "bool", BlockOf(<<Ret(True)>>)),
       [FnD("f", <<>>, "int", BlockOf(<<Ret(Num)>>)) EXCEPT !.extc = TRUE],
       [FnD("f", <<>>, "int", None) EXCEPT !.extc = TRUE]}
Units == {<<d>> : d \in Gs \cup Fs} \cup {<<d, e>> : d, e \in Gs \cup Fs}
Seconds == {<<d>> : d \in Fs} \cup {<<VarD("g", "int", Num), d>> : d \in Fs}
InTurn(u, v, swapped) == IF swapped THEN <<v, u>> ELSE <<u, v>>
OrderPrograms == {<<u>> : u \in Units}
                   \cup {InTurn(u, v, swapped) : u \in Units, v \in Seconds, swapped \in BOOLEAN}

\* 4. Every expression, in a program that declares all the names before.
Known == <<VarD("g", "long", Num), FnD("f", <<VarD("x", "int", None)>>, "int", None)>>
Testing == {BlockOf(<<VarD("x", t, e)>>) : t \in {"int", "bool"}, e \in MCExprs}
             \cup {BlockOf(<<VarD("x", "int", None), Use(e), Ret(e)>>) : e \in MCExprs}
ExprPrograms == {<< Known \o <<FnD("h", <<>>, "int", b)>> >> : b \in Testing}

\* 5. Functions whose C names are not like those of others, and a condition of another unit.
Bares == {FnD("main", <<>>, "int", BlockOf(<<Ret(Num)>>)),
          [FnD("main", <<VarD("x", "int", None)>>, "int", None) EXCEPT !.extc = TRUE],
          [FnD("f", <<VarD("x", "int", None)>>, "int", None) EXCEPT !.extc = TRUE]}
CallF == Calling(None, "f", <<Num>>)
CallingF == BlockOf(<<Use(CallF), Ret(Num)>>)
PlainF == FnD("f", <<VarD("x", "int", None)>>, "int", BlockOf(<<Ret(Num)>>))
CallerH == FnD("h", <<>>, "int", CallingF)
BarePrograms == {<< <<d, PlainF, CallerH>> >> : d \in Bares} \cup {<< <<d, CallerH>> >> : d \in Bares}
                  \cup {<< <<CallerH, PlainF>> >>}

Asking(u) == BlockOf(<<IfS(Calling(u, "f", <<>>), Ret(Num), Ret(Num))>>)
Asked == FnD("f", <<>>, "bool", BlockOf(<<Ret(True)>>))
AskPrograms == {<< <<Asked>>, <<FnD("h", <<>>, "int", Asking(1))>> >>,
                << <<Asked, FnD("h", <<>>, "int", Asking(1))>> >>,
                << <<Asked, FnD("h", <<>>, "int", Asking(None))>> >>}

MCPrograms == BarePrograms \cup AskPrograms \cup ExprPrograms \cup ReturnPrograms \cup ScopePrograms
                \cup OrderPrograms

\* All statements in them, and their parts.
PartsOf(S) == (UNION {Range(s.stmts) : s \in {t \in S : t.kind = "block"}})
                \cup {s.then : s \in {t \in S : t.kind = "if"}}
                \cup ({s.else : s \in {t \in S : t.kind = "if"}} \ {None})
Bodies == {BlockOf(<<s>>) : s \in Returning} \cup ScopeBodies \cup Testing \cup {CallingF, Asking(1), Asking(None)} \cup ({d.body : d \in Fs} \ {None})
Parts1 == PartsOf(Bodies)
Parts2 == PartsOf(Parts1)
Parts3 == PartsOf(Parts2)
Parts4 == PartsOf(Parts3)
MCStmts == UNION {Bodies, Parts1, Parts2, Parts3, Parts4}

Heights(nodes) ==
  LET height[node \in nodes] == 1 + Max({height[part] : part \in Parts(node)} \cup {0})
  IN  height
MCDepth == Heights(MCExprs \cup MCStmts)
=============================================================================
