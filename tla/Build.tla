--------------------------------- MODULE Build ---------------------------------
(***************************************************************************)
(* What an invocation of the compiler promises, whatever its jobs are: the *)
(* whole program is known before any unit is checked, nothing is produced  *)
(* before what it depends on, and the verdict "ok" is only given when all  *)
(* that was asked for has been made.                                       *)
(***************************************************************************)
EXTENDS Integers

CONSTANT Units

VARIABLES
  files,      \* the units of the program
  goal,       \* 0 lex, 1 parse, 2 analyse, 3 generate C, 4 build everything
  dry,        \* only say what would be done
  known,      \* units whose symbols are known
  checked,    \* units that are valid
  generated,  \* units with up-to-date C
  objects,    \* units with an up-to-date object file
  linked,     \* is the executable up to date?
  verdict     \* "pending", "ok" or "failed"

progress == <<known, checked, generated, objects, linked>>
vars     == <<files, goal, dry, progress, verdict>>

Init ==
  /\ files \in SUBSET Units /\ goal \in 0 .. 4 /\ dry \in BOOLEAN
  /\ known = {} /\ checked = {} /\ generated = {} /\ objects = {}
  /\ linked = FALSE /\ verdict = "pending"

\* Work is only done while the verdict is open, and never in a dry run.
Working == verdict = "pending" /\ ~dry /\ UNCHANGED <<files, goal, dry, verdict>>

Learn(u) ==
  /\ Working /\ goal >= 2
  /\ known' = known \union {u}
  /\ UNCHANGED <<checked, generated, objects, linked>>

\* A unit refers to symbols of every other one.
Check(u) ==
  /\ Working /\ goal >= 2 /\ known = files
  /\ checked' = checked \union {u}
  /\ generated' \in {generated} \union {generated \union {u} : g \in {goal} \ {2}}
  /\ UNCHANGED <<known, objects, linked>>

Compile(u) ==
  /\ Working /\ u \in generated
  /\ objects' = objects \union {u}
  /\ UNCHANGED <<known, checked, generated, linked>>

Link ==
  /\ Working /\ goal = 4 /\ objects = files
  /\ linked' = TRUE
  /\ UNCHANGED <<known, checked, generated, objects>>

Met == /\ goal >= 2 => checked = files
       /\ goal >= 3 => objects = files
       /\ goal = 4 => linked \/ files = {}

Decide == /\ verdict = "pending"
          /\ \/ verdict' = "failed"
             \/ verdict' = "ok" /\ (Met \/ dry)
          /\ UNCHANGED <<files, goal, dry, progress>>

Next == Decide \/ Link \/ \E u \in files : Learn(u) \/ Check(u) \/ Compile(u)

Safety == Init /\ [][Next]_vars

Spec == Safety /\ WF_vars(Decide)
===============================================================================
