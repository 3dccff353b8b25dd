------------------------------ MODULE MCCompiler ------------------------------
(* Model checking of Compiler: three units, children that exit with 0 or 1, are *)
(* killed, or cannot be started or waited for.                                *)
EXTENDS Compiler

CONSTANTS u1, u2, u3

MCChildEnds == {ExitWith(0), ExitWith(1), SIGABRT, ForkFailed, WaitFailed}
\* u2 and u3 stand for two files such as src/a.b.yf and src/a/b.yf: one prefix.
MCPrefix == [u \in Units |-> IF u = u3 THEN u2 ELSE u]
===============================================================================
