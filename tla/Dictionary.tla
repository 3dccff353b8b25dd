----------------------------- MODULE Dictionary -----------------------------
(***************************************************************************)
(* What util/hashmap.h promises: a function from the keys that are present *)
(* to their values, and a cursor that is at one of them or at none.  Where *)
(* a moving cursor goes is left open.  `reply' is what the last call       *)
(* returned: its return code and, after it, what it stored for the caller. *)
(***************************************************************************)
EXTENDS Naturals, Functions

CONSTANTS Keys, Values, None

VARIABLES map, at, reply

vars == <<map, at, reply>>

Present == DOMAIN map

Init == map = [k \in {} |-> None] /\ at = None /\ reply = <<0>>

Set(k, v) ==
  /\ map' = [x \in Present \cup {k} |-> IF x = k THEN v ELSE map[x]]
  /\ reply' = <<0>> /\ at' = at

Get(k) ==
  /\ reply' = IF k \in Present THEN <<0, map[k]>> ELSE <<1>>
  /\ UNCHANGED <<map, at>>

\* A cursor that was at k is at nothing afterwards.
Remove(k) ==
  /\ map' = Restrict(map, Present \ {k})
  /\ reply' = IF k \in Present THEN <<0>> ELSE <<1>>
  /\ at' = IF at = k THEN None ELSE at

RemoveAt ==
  /\ map' = Restrict(map, Present \ {at})
  /\ reply' = IF at = None THEN <<1>> ELSE <<0>>
  /\ at' \in (Present \ {at}) \cup {None}

Move ==
  /\ at' \in Present \cup {None}
  /\ reply' = IF at' = None THEN <<1>> ELSE <<0>>
  /\ map' = map

Reset == at' = None /\ UNCHANGED <<map, reply>>

Find(k) ==
  /\ at' = IF k \in Present THEN k ELSE None
  /\ reply' = IF k \in Present THEN <<0, map[k]>> ELSE <<1>>
  /\ map' = map

GetAt ==
  /\ reply' = IF at = None THEN <<1>> ELSE <<0, at, map[at]>>
  /\ UNCHANGED <<map, at>>

SetAt(v) ==
  /\ map' = IF at = None THEN map ELSE [map EXCEPT ![at] = v]
  /\ reply' = IF at = None THEN <<1>> ELSE <<0>>
  /\ at' = at

Next ==
  \/ \E k \in Keys : Get(k) \/ Remove(k) \/ Find(k) \/ \E v \in Values : Set(k, v)
  \/ \E v \in Values : SetAt(v)
  \/ RemoveAt \/ Move \/ Reset \/ GetAt

Spec == Init /\ [][Next]_vars
=============================================================================
