------------------------------ MODULE MCCCompiler ------------------------------
(* Model checking of CCompiler: two names, a path that outgrows the buffer and *)
(* the pipe, and a buffer that grows by doubling.                              *)
EXTENDS CCompiler

MCPreference == <<"clang", "gcc">>
MCPathLen == [n \in {"clang", "gcc"} |-> IF n = "clang" THEN 7 ELSE 3]
===============================================================================
