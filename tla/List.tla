-------------------------------- MODULE List --------------------------------
(***************************************************************************)
(* util/list.c and list.h: a list is a chain of blocks of BlockSize        *)
(* elements.  The client makes the calls in any order, as far as list.h    *)
(* allows: on lists it has initialised and not destroyed, with a cursor    *)
(* that it has reset to a list with a block.  It resets the cursor before  *)
(* it uses it again if the list has grown after the cursor came to its end. *)
(***************************************************************************)
EXTENDS Integers, Sequences, FiniteSets
Ext == INSTANCE SequencesExt

CONSTANTS Lists, Elements, Gap,
          BlockSize, \* YF_LIST_BLOCK_SIZE: 64
          MaxBlocks  \* bound on the blocks of the lists, for TLC

ASSUME ListAssumption ==
  /\ BlockSize \in Nat /\ BlockSize > 0
  /\ MaxBlocks \in Nat
  /\ Gap \notin Elements

VARIABLES lists,    \* the blocks of each list, and the index of the one `last' points to
          alive,    \* the lists that are initialised
          own,      \* the elements the client has
          freed,    \* the elements that are freed
          cursor,   \* struct yf_list_cursor; its list_index is never read
          usable,   \* whether the client may use the cursor
          returned  \* what the last call returned

listVars == <<lists, alive, own, freed, cursor, usable, returned>>

NoBlocks == [blocks |-> <<>>, last |-> 0]    \* first and last are NULL
NewBlock == [blocks |-> <<<<>>>>, last |-> 1]
AtBlock(l, b, i) == [list |-> l, block |-> b, index |-> i]

ListsInit ==
  /\ lists = [l \in Lists |-> NoBlocks]
  /\ alive = {}
  /\ own = Elements /\ freed = {}
  /\ cursor = AtBlock(CHOOSE l \in Lists : TRUE, 1, 0) /\ usable = FALSE
  /\ returned = <<0>>

-----------------------------------------------------------------------------

Blocks(l) == lists[l].blocks
In(l) == UNION {{Blocks(l)[b][i] : i \in DOMAIN Blocks(l)[b]} : b \in DOMAIN Blocks(l)}
IsNull(l) == Blocks(l) = <<>>

Chained == UNION {{<<l, b>> : b \in DOMAIN Blocks(l)} : l \in alive}   \* all blocks

Here == Blocks(cursor.list)[cursor.block]
\* yf_list_next has returned -1.
Passed == cursor.index > 0 /\ cursor.index >= Len(Here) /\ cursor.block = Len(Blocks(cursor.list))

Loses(l) == usable /\ cursor.list = l
Grows(l) == Loses(l) /\ Passed

\* yf_list_init
ListCreate(l) ==
  /\ l \notin alive
  /\ Cardinality(Chained) < MaxBlocks
  /\ lists' = [lists EXCEPT ![l] = NewBlock]
  /\ alive' = alive \cup {l}
  /\ returned' = <<0>>
  /\ UNCHANGED <<own, freed, cursor, usable>>

\* The list with e: in a block of its own, behind `last', if that is full.
Added(list, e) ==
  IF Len(list.blocks[list.last]) = BlockSize
  THEN [blocks |-> Append(SubSeq(list.blocks, 1, list.last), <<e>>), last |-> list.last + 1]
  ELSE [list EXCEPT !.blocks[list.last] = Append(@, e)]

\* yf_list_add
ListAdd(l, e) ==
  /\ l \in alive /\ e \in own
  /\ lists' = [lists EXCEPT ![l] = Added(IF IsNull(l) THEN NewBlock ELSE @, e)]
  /\ own' = own \ {e}
  /\ usable' = (usable /\ ~Grows(l))
  /\ returned' = <<0>>
  /\ UNCHANGED <<alive, freed, cursor>>

\* Mutant: dst keeps its last pointer.
Merged_KeepsLast(dst, src) ==
  [blocks |-> dst.blocks \o src.blocks, last |-> IF dst.last = 0 THEN src.last ELSE dst.last]

\* The chain of src behind that of dst.
Merged(dst, src) == [blocks |-> dst.blocks \o src.blocks, last |-> Len(dst.blocks) + src.last]

\* yf_list_merge
ListMerge(dst, src) ==
  /\ {dst, src} \subseteq alive
  /\ IF dst = src \/ IsNull(src)
     THEN /\ returned' = <<IF dst = src THEN -1 ELSE 0>>
          /\ UNCHANGED <<lists, usable>>
     ELSE /\ lists' = [lists EXCEPT ![dst] = Merged(@, lists[src]), ![src] = NoBlocks]
          /\ usable' = (usable /\ ~Loses(src) /\ ~Grows(dst))
          /\ returned' = <<0>>
  /\ UNCHANGED <<alive, own, freed, cursor>>

\* yf_list_destroy: frees the elements or leaves them to the client.  The list is not to be used again.
ListDestroy(l, free) ==
  /\ l \in alive
  /\ freed' = IF free THEN freed \cup In(l) ELSE freed
  /\ own' = IF free THEN own ELSE own \cup In(l)
  /\ lists' = [lists EXCEPT ![l] = NoBlocks]
  /\ alive' = alive \ {l}
  /\ usable' = (usable /\ ~Loses(l))
  /\ returned' = <<>>
  /\ UNCHANGED cursor

\* yf_list_reset_cursor
ListReset(l) ==
  /\ l \in alive /\ ~IsNull(l)
  /\ cursor' = AtBlock(l, 1, 0)
  /\ usable' = TRUE
  /\ returned' = <<>>
  /\ UNCHANGED <<lists, alive, own, freed>>

\* Mutant: the cursor stays in a block one place too long.
Step_OneMore(c) ==
  IF c.index < Len(Blocks(c.list)[c.block]) THEN [c |-> [c EXCEPT !.index = @ + 1], ret |-> 0]
  ELSE IF c.block = Len(Blocks(c.list)) THEN [c |-> [c EXCEPT !.index = @ + 1], ret |-> -1]
  ELSE [c |-> AtBlock(c.list, c.block + 1, 0), ret |-> 0]

\* Where yf_list_next moves a cursor, and what it returns.
Step(c) ==
  IF c.index + 1 < Len(Blocks(c.list)[c.block]) THEN [c |-> [c EXCEPT !.index = @ + 1], ret |-> 0]
  ELSE IF c.block = Len(Blocks(c.list)) THEN [c |-> [c EXCEPT !.index = @ + 1], ret |-> -1]
  ELSE [c |-> AtBlock(c.list, c.block + 1, 0), ret |-> 0]

\* yf_list_next
ListNext ==
  /\ usable /\ ~Passed
  /\ cursor' = Step(cursor).c
  /\ returned' = <<Step(cursor).ret>>
  /\ UNCHANGED <<lists, alive, own, freed, usable>>

\* yf_list_get
ListGet ==
  /\ usable
  /\ returned' = IF cursor.index >= Len(Here) THEN <<-1>> ELSE <<0, Here[cursor.index + 1]>>
  /\ UNCHANGED <<lists, alive, own, freed, cursor, usable>>

FirstEmpty(l) == IsNull(l) \/ Blocks(l)[1] = <<>>

\* The calls of yf_list_next on a cursor of its own until one returns -1.
Steps(l) ==
  LET Left[c \in {AtBlock(l, b, i) : b \in 1 .. Len(Blocks(l)), i \in 0 .. BlockSize}] ==
        IF Step(c).ret = -1 THEN 1 ELSE 1 + Left[Step(c).c]
  IN  Left[AtBlock(l, 1, 0)]

\* yf_list_get_count
ListCount(l) ==
  /\ l \in alive
  /\ returned' = <<IF FirstEmpty(l) THEN 0 ELSE Steps(l)>>
  /\ UNCHANGED <<lists, alive, own, freed, cursor, usable>>

\* yf_list_is_empty
ListIsEmpty(l) ==
  /\ l \in alive
  /\ returned' = <<IF FirstEmpty(l) THEN 1 ELSE 0>>
  /\ UNCHANGED <<lists, alive, own, freed, cursor, usable>>

ListsNext ==
  \/ \E l \in Lists : \/ ListCreate(l) \/ ListReset(l) \/ ListCount(l) \/ ListIsEmpty(l)
                      \/ \E e \in Elements : ListAdd(l, e)
                      \/ \E src \in Lists : ListMerge(l, src)
                      \/ \E free \in BOOLEAN : ListDestroy(l, free)
  \/ ListNext \/ ListGet

ListSpec == ListsInit /\ [][ListsNext]_listVars

-----------------------------------------------------------------------------
(* Properties. *)

Places == UNION {{<<c[1], c[2], i>> : i \in DOMAIN Blocks(c[1])[c[2]]} : c \in Chained}
At(p) == Blocks(p[1])[p[2]][p[3]]

\* `last' is the end of the chain, no block has more elements than fit, and no element is lost, freed
\* twice or reachable twice: each is the client's, or freed, or at one place of one list, through all
\* merges and removals of whole lists (yf_list_add, yf_list_merge, yf_list_destroy).
NoElementLost ==
  /\ \A l \in alive : lists[l].last = Len(Blocks(l))
  /\ \A l \in alive : \A b \in DOMAIN Blocks(l) : Len(Blocks(l)[b]) <= BlockSize
  /\ own \cap freed = {}
  /\ \A e \in Elements :
       Cardinality({p \in Places : At(p) = e}) = IF e \in own \cup freed THEN 0 ELSE 1

\* A list is its elements in order; a block without elements shows as a Gap.
Shown(l) == [b \in DOMAIN Blocks(l) |-> IF Blocks(l)[b] = <<>> THEN <<Gap>> ELSE Blocks(l)[b]]

\* How many places of its list are before the cursor.
Before == cursor.index + Len(Ext!FlattenSeq(SubSeq(Shown(cursor.list), 1, cursor.block - 1)))

Value == [l \in alive |-> Ext!FlattenSeq(Shown(l))]
Position == IF usable THEN <<cursor.list, Before + 1>> ELSE <<>>

\* A list is the sequence that list.h describes, wherever its blocks begin and end.
Abstract == INSTANCE AbstractList WITH value <- Value, at <- Position

ImplementsList == Abstract!Spec
=============================================================================
