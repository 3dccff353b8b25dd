------------------------------- MODULE Symtab -------------------------------
(***************************************************************************)
(* Types, conversions, symbols, and the symbol table of a unit             *)
(* (semantics/symtab.c, semantics/types.c, api/sym.h).                     *)
(***************************************************************************)
EXTENDS Naturals, Sequences, SequencesExt, TLC

CONSTANTS None,   \* no symbol, no expression, no module prefix
          Unset,  \* a pointer that is read before it is written
          Null    \* NULL where a type is looked up in vain

\* The bits of each built-in type (yfv_add_builtin_types).
Size == [char |-> 8, short |-> 16, int |-> 32, long |-> 64, void |-> 0,
         float |-> 32, double |-> 64, i16 |-> 16, i32 |-> 32, i64 |-> 64,
         f16 |-> 16, f32 |-> 32, f64 |-> 64, bool |-> 1]

\* What is no type is none of them.
ASSUME NoTypes == {None, Unset, Null} \cap [unit : Nat, name : DOMAIN Size] = {}

\* Each unit has a type table of its own, so the "same" type of two units is two pointers.
TypeIn(unit, name) ==
  IF name \in DOMAIN Size THEN [unit |-> unit, name |-> name] ELSE Null

Bits(type) == Size[type.name]

\* yfs_output_diagnostics.  A loss of data is a warning only, and no type but a primitive exists;
\* a type that is not there is dereferenced all the same, and what follows is undefined.
Convert(from, to) ==
  IF {from, to} \cap {None, Unset, Null} # {} THEN "stuck"
  ELSE IF Bits(from) = 0 \/ Bits(to) = 0 THEN "failed"
  ELSE "ok"

\* A variable's dtype and a function's rtype occupy the same place of the union in struct yf_sym.
Variable(type) == [kind |-> "var", type |-> type, params |-> <<>>]
Function(type, params) == [kind |-> "fn", type |-> type, params |-> params]

ParamTypes(decl) == [i \in DOMAIN decl.params |-> decl.params[i].type]

\* yfh_set: the name stands for this symbol now.
Put(table, name, symbol) ==
  [n \in DOMAIN table \cup {name} |-> IF n = name THEN symbol ELSE table[n]]

\* yfs_add_var refuses a name that is there; yfs_add_fn replaces what is there.
\* Both leave the type to the validator.
AddDecl(table, decl) ==
  IF decl.kind = "fn" THEN Put(table, decl.name, Function(Unset, ParamTypes(decl)))
  ELSE IF decl.name \in DOMAIN table THEN table
  ELSE Put(table, decl.name, Variable(Unset))

Table(decls) == FoldLeft(AddDecl, <<>>, decls)

Duplicates(decls) ==
  \E i, j \in DOMAIN decls :
    i < j /\ decls[j].kind = "var" /\ decls[i].name = decls[j].name
=============================================================================
