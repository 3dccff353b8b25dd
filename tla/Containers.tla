----------------------------- MODULE Containers -----------------------------
(***************************************************************************)
(* The containers of util/: a hash map and some lists.  They share no      *)
(* state, so a behaviour uses the one or the others.                       *)
(***************************************************************************)
EXTENDS HashMap, List

ContainersInit == Init /\ ListsInit

ContainersNext ==
  \/ ListsInit /\ Next /\ UNCHANGED listVars
  \/ Init /\ ListsNext /\ UNCHANGED vars

ContainersSpec == ContainersInit /\ [][ContainersNext]_<<vars, listVars>>
=============================================================================
