---------------------------- MODULE AbstractList ----------------------------
(***************************************************************************)
(* What util/list.h promises its callers: a list is a sequence, with one   *)
(* exception.  A list that was initialised and got no element is a Gap,    *)
(* and a merge keeps the Gaps of both lists: an iteration stops at one, and *)
(* a count includes it.  <<>> is the list that a merge leaves behind.      *)
(***************************************************************************)
EXTENDS Integers, Sequences, SequencesExt, Functions

CONSTANTS Lists, Elements, Gap

VARIABLES value,    \* the sequence of each list that is alive
          at,       \* where the cursor is: a list and an index, or <<>>
          freed,    \* elements that were freed with their list
          returned  \* what the last call returned

vars == <<value, at, freed, returned>>

Alive == DOMAIN value
In(l) == Range(value[l]) \ {Gap}

Init == value = <<>> /\ at = <<>> /\ freed = {} /\ returned = <<0>>

\* A cursor is lost when its list goes away, and a cursor at the end when its list grows.
Lose(set) == at' = IF at # <<>> /\ at[1] \in set THEN <<>> ELSE at
AtEnd(l) == at # <<>> /\ at[1] = l /\ at[2] > Len(value[l])

Create(l) ==
  /\ l \notin Alive
  /\ value' = [x \in Alive \cup {l} |-> IF x = l THEN <<Gap>> ELSE value[x]]
  /\ returned' = <<0>>
  /\ UNCHANGED <<at, freed>>

Add(l, e) ==
  /\ l \in Alive /\ e \notin freed /\ \A x \in Alive : e \notin In(x)
  /\ value' = [value EXCEPT ![l] =
                 Append(IF @ # <<>> /\ Last(@) = Gap THEN Front(@) ELSE @, e)]
  /\ IF AtEnd(l) THEN Lose({l}) ELSE at' = at
  /\ returned' = <<0>> /\ freed' = freed

Merge(dst, src) ==
  /\ {dst, src} \subseteq Alive
  /\ IF dst = src \/ value[src] = <<>>
     THEN returned' = <<IF dst = src THEN -1 ELSE 0>> /\ UNCHANGED <<value, at>>
     ELSE /\ value' = [value EXCEPT ![dst] = @ \o value[src], ![src] = <<>>]
          /\ Lose(IF AtEnd(dst) THEN {dst, src} ELSE {src})
          /\ returned' = <<0>>
  /\ freed' = freed

Destroy(l, free) ==
  /\ l \in Alive
  /\ value' = Restrict(value, Alive \ {l})
  /\ freed' = IF free THEN freed \cup In(l) ELSE freed
  /\ Lose({l})
  /\ returned' = <<>>

Reset(l) ==
  /\ l \in Alive /\ value[l] # <<>>
  /\ at' = <<l, 1>>
  /\ returned' = <<>>
  /\ UNCHANGED <<value, freed>>

\* Succeeds if there is a place to go to, a Gap included.
Move ==
  /\ at # <<>> /\ at[2] <= Len(value[at[1]])
  /\ at' = [at EXCEPT ![2] = @ + 1]
  /\ returned' = <<IF at'[2] <= Len(value[at[1]]) THEN 0 ELSE -1>>
  /\ UNCHANGED <<value, freed>>

Get ==
  /\ at # <<>>
  /\ returned' = IF AtEnd(at[1]) \/ value[at[1]][at[2]] = Gap THEN <<-1>> ELSE <<0, value[at[1]][at[2]]>>
  /\ UNCHANGED <<value, at, freed>>

\* A list that begins with a Gap is empty; otherwise its Gaps count.
Count(l) ==
  /\ l \in Alive
  /\ returned' = <<IF value[l] = <<>> \/ Head(value[l]) = Gap THEN 0 ELSE Len(value[l])>>
  /\ UNCHANGED <<value, at, freed>>

IsEmpty(l) ==
  /\ l \in Alive
  /\ returned' = <<IF value[l] = <<>> \/ Head(value[l]) = Gap THEN 1 ELSE 0>>
  /\ UNCHANGED <<value, at, freed>>

Next ==
  \/ \E l \in Lists : \/ Create(l) \/ Reset(l) \/ Count(l) \/ IsEmpty(l)
                      \/ \E e \in Elements : Add(l, e)
                      \/ \E src \in Lists : Merge(l, src)
                      \/ \E free \in BOOLEAN : Destroy(l, free)
  \/ Move \/ Get

Spec == Init /\ [][Next]_vars
=============================================================================
