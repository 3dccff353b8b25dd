------------------------------ MODULE ListProofs ------------------------------
(***************************************************************************)
(* Proofs about List for any lists, elements and size of a block: no       *)
(* element is lost, freed twice or reachable twice, and a list is the      *)
(* sequence that list.h describes.                                         *)
(*                                                                         *)
(* What a list holds is said place by place; an addition gives it one      *)
(* place more, a merge moves the places of one list behind those of the    *)
(* other.  The accounts of the elements follow.                            *)
(*                                                                         *)
(* What a list shows is said block by block: the sequence that they make   *)
(* together, and how many places come before a block.  For each call there *)
(* is a lemma that it is the call of AbstractList of that name.            *)
(***************************************************************************)
EXTENDS List, TLAPS, SequenceTheorems, WellFoundedInduction, FiniteSetTheorems

\* A chain of blocks, none overfull, with `last' at its end.
Chain(list) ==
  /\ list \in [blocks : Seq(Seq(Elements)), last : Nat]
  /\ list.last = Len(list.blocks)
  /\ \A b \in 1 .. Len(list.blocks) : Len(list.blocks[b]) =< BlockSize

\* A sequence of blocks has e at place i of block b.
Holds(blocks, b, i, e) == b \in 1 .. Len(blocks) /\ i \in 1 .. Len(blocks[b]) /\ blocks[b][i] = e

Holding(e) == \E l \in Lists : \E b, i \in Nat : Holds(Blocks(l), b, i, e)

\* The lists are chains, and those that are not initialised have no block.
Types ==
  /\ DOMAIN lists = Lists
  /\ \A l \in Lists : Chain(lists[l])
  /\ alive \subseteq Lists
  /\ \A l \in Lists \ alive : lists[l] = NoBlocks

\* An element is at one place at most.
Once ==
  \A e \in Elements : \A k, l \in Lists : \A a, b, i, j \in Nat :
    Holds(Blocks(k), a, i, e) /\ Holds(Blocks(l), b, j, e) => k = l /\ a = b /\ i = j

\* An element that is in no list is the client's or freed, and no other is.
Accounted ==
  /\ own \subseteq Elements /\ freed \subseteq Elements
  /\ own \cap freed = {}
  /\ \A e \in Elements : e \in own \cup freed <=> ~Holding(e)

IInv == Types /\ Once /\ Accounted

-------------------------------------------------------------------------------
(* Lists *)

\* The blocks of a chain, and what is in them.
LEMMA ChainHas ==
  ASSUME NEW list, Chain(list)
  PROVE  /\ list.blocks \in Seq(Seq(Elements)) /\ Len(list.blocks) \in Nat
         /\ \A b \in 1 .. Len(list.blocks) :
              /\ list.blocks[b] \in Seq(Elements) /\ Len(list.blocks[b]) \in Nat
              /\ \A i \in 1 .. Len(list.blocks[b]) : list.blocks[b][i] \in Elements
<1>1. list.blocks \in Seq(Seq(Elements))
  BY DEF Chain
<1>2. \A b \in 1 .. Len(list.blocks) : list.blocks[b] \in Seq(Elements)
  BY <1>1, ElementOfSeq
<1>3. Len(list.blocks) \in Nat
  BY <1>1, LenProperties
<1>4. ASSUME NEW b \in 1 .. Len(list.blocks)
      PROVE  Len(list.blocks[b]) \in Nat /\ \A i \in 1 .. Len(list.blocks[b]) : list.blocks[b][i] \in Elements
  <2>1. list.blocks[b] \in Seq(Elements)
    BY <1>2
  <2> QED
    BY <2>1, LenProperties, ElementOfSeq
<1> QED
  BY <1>1, <1>2, <1>3, <1>4

\* yf_list_init, and a list whose blocks were given away.
LEMMA EmptyLists ==
  /\ Chain(NoBlocks) /\ NoBlocks.blocks = <<>>
  /\ Chain(NewBlock) /\ NewBlock.blocks # <<>>
  /\ \A b, i, e : ~Holds(NoBlocks.blocks, b, i, e) /\ ~Holds(NewBlock.blocks, b, i, e)
<1>1. /\ <<>> \in Seq(Seq(Elements)) /\ Len(<<>>) = 0 /\ <<>> \in Seq(Elements)
      /\ <<<<>>>> \in Seq(Seq(Elements)) /\ Len(<<<<>>>>) = 1 /\ <<<<>>>>[1] = <<>> /\ <<<<>>>> # <<>>
  BY EmptySeq
<1>2. Chain(NoBlocks) /\ NoBlocks.blocks = <<>>
  BY <1>1 DEF Chain, NoBlocks
<1>3. Chain(NewBlock) /\ NewBlock.blocks # <<>>
  BY <1>1, ListAssumption DEF Chain, NewBlock
<1>4. ASSUME NEW b, NEW i, NEW e PROVE ~Holds(NoBlocks.blocks, b, i, e) /\ ~Holds(NewBlock.blocks, b, i, e)
  BY <1>1 DEF Holds, NoBlocks, NewBlock
<1> QED
  BY <1>2, <1>3, <1>4

\* d has e at one place more than c.
Gains(c, d, e, at, k) ==
  \A b, i \in Nat : \A x : Holds(d, b, i, x) <=> Holds(c, b, i, x) \/ (x = e /\ b = at /\ i = k)

\* yf_list_add to a list that has a block.
LEMMA AddedGains ==
  ASSUME NEW list, Chain(list), list.blocks # <<>>, NEW e \in Elements, NEW m, m = Added(list, e)
  PROVE  Chain(m) /\ \E at, k \in Nat : Gains(list.blocks, m.blocks, e, at, k)
<1>1. PICK s : s = list.blocks
  OBVIOUS
<1>2. PICK n : n = Len(s)
  OBVIOUS
<1>3. /\ s \in Seq(Seq(Elements)) /\ n \in Nat /\ n > 0 /\ list.last = n
      /\ \A b \in 1 .. n : s[b] \in Seq(Elements) /\ Len(s[b]) \in Nat /\ Len(s[b]) =< BlockSize
  BY <1>1, <1>2, ChainHas, EmptySeq DEF Chain
<1>4. PICK t : t = s[n]
  OBVIOUS
<1>5. t \in Seq(Elements) /\ Len(t) \in Nat /\ Len(t) =< BlockSize
  BY <1>3, <1>4
<1>6. CASE Len(t) = BlockSize
  <2>1. PICK d : d = Append(s, <<e>>)
    OBVIOUS
  <2>2. SubSeq(s, 1, n) = s
    BY <1>2, <1>3
  <2>3. m = [blocks |-> d, last |-> n + 1]
    BY <1>1, <1>2, <1>3, <1>4, <1>6, <2>1, <2>2 DEF Added
  <2>4. <<e>> \in Seq(Elements) /\ Len(<<e>>) = 1 /\ <<e>>[1] = e
    OBVIOUS
  <2>5. /\ d \in Seq(Seq(Elements)) /\ Len(d) = n + 1
        /\ \A b \in 1 .. n : d[b] = s[b]
        /\ d[n + 1] = <<e>>
    BY <1>2, <1>3, <2>1, <2>4, AppendProperties
  <2>6. Chain(m)
    <3>1. m.blocks = d /\ m.last = n + 1 /\ m \in [blocks : Seq(Seq(Elements)), last : Nat]
      BY <1>3, <2>3, <2>5
    <3>2. ASSUME NEW b \in 1 .. n + 1 PROVE Len(d[b]) =< BlockSize
      <4>1. b \in 1 .. n \/ b = n + 1
        BY <1>3
      <4>2. 1 =< BlockSize
        BY ListAssumption
      <4> QED
        BY <1>3, <2>4, <2>5, <4>1, <4>2, Zenon
    <3> QED
      BY <2>5, <3>1, <3>2 DEF Chain
  <2>7. Gains(s, d, e, n + 1, 1)
    <3> SUFFICES ASSUME NEW b \in Nat, NEW i \in Nat, NEW x
                 PROVE  Holds(d, b, i, x) <=> Holds(s, b, i, x) \/ (x = e /\ b = n + 1 /\ i = 1)
      BY DEF Gains
    <3>1. CASE b = n + 1
      <4>1. b \in 1 .. n + 1 /\ b \notin 1 .. n /\ \A k \in Nat : k \in 1 .. 1 <=> k = 1
        BY <1>3, <3>1
      <4> QED
        BY <1>2, <2>4, <2>5, <3>1, <4>1, Zenon DEF Holds
    <3>2. CASE b # n + 1
      <4>1. b \in 1 .. n <=> b \in 1 .. n + 1
        BY <1>3, <3>2
      <4> QED
        BY <1>2, <2>5, <3>2, <4>1, Zenon DEF Holds
    <3> QED
      BY <3>1, <3>2
  <2>8. m.blocks = d
    BY <2>3
  <2> QED
    <3>1. n + 1 \in Nat /\ 1 \in Nat
      BY <1>3
    <3> QED
      BY <1>1, <2>6, <2>7, <2>8, <3>1, Zenon
<1>7. CASE Len(t) # BlockSize
  <2>1. PICK u : u = Append(t, e)
    OBVIOUS
  <2>2. /\ u \in Seq(Elements) /\ Len(u) = Len(t) + 1
        /\ \A i \in 1 .. Len(t) : u[i] = t[i]
        /\ u[Len(t) + 1] = e
    BY <1>5, <2>1, AppendProperties
  <2>3. PICK d : d = [s EXCEPT ![n] = u]
    OBVIOUS
  <2>4. /\ d \in Seq(Seq(Elements)) /\ Len(d) = n
        /\ \A b \in 1 .. n : d[b] = IF b = n THEN u ELSE s[b]
    BY <1>2, <1>3, <2>2, <2>3, ExceptSeq
  <2>5. m = [list EXCEPT !.blocks = d]
    BY <1>1, <1>2, <1>3, <1>4, <1>7, <2>1, <2>3 DEF Added
  <2>6. m.blocks = d /\ m.last = n /\ m \in [blocks : Seq(Seq(Elements)), last : Nat]
    BY <1>3, <2>4, <2>5 DEF Chain
  <2>7. Chain(m)
    <3>1. Len(u) =< BlockSize
      BY <1>5, <1>7, <2>2, ListAssumption
    <3> QED
      BY <1>3, <2>4, <2>6, <3>1 DEF Chain
  <2>8. Gains(s, d, e, n, Len(t) + 1)
    <3> SUFFICES ASSUME NEW b \in Nat, NEW i \in Nat, NEW x
                 PROVE  Holds(d, b, i, x) <=> Holds(s, b, i, x) \/ (x = e /\ b = n /\ i = Len(t) + 1)
      BY DEF Gains
    <3>1. CASE b = n
      <4>1. Holds(d, b, i, x) <=> i \in 1 .. Len(u) /\ u[i] = x
        BY <1>3, <2>4, <3>1 DEF Holds
      <4>2. Holds(s, b, i, x) <=> i \in 1 .. Len(t) /\ t[i] = x
        BY <1>2, <1>3, <1>4, <3>1 DEF Holds
      <4>3. i \in 1 .. Len(u) <=> i \in 1 .. Len(t) \/ i = Len(t) + 1
        BY <1>5, <2>2
      <4>4. Len(t) + 1 \notin 1 .. Len(t)
        BY <1>5
      <4> QED
        BY <2>2, <3>1, <4>1, <4>2, <4>3, <4>4
    <3>2. CASE b # n
      BY <1>2, <2>4, <3>2 DEF Holds
    <3> QED
      BY <3>1, <3>2
  <2> QED
    BY <1>1, <1>3, <1>5, <2>6, <2>7, <2>8
<1> QED
  BY <1>6, <1>7

\* yf_list_merge puts the blocks of one list behind those of the other.
LEMMA MergedHolds ==
  ASSUME NEW dst, NEW src, Chain(dst), Chain(src), NEW m, m = Merged(dst, src), NEW n, n = Len(dst.blocks)
  PROVE  /\ Chain(m) /\ n \in Nat
         /\ \A b, i \in Nat : \A x :
              Holds(m.blocks, b, i, x) <=> \/ Holds(dst.blocks, b, i, x)
                                           \/ b > n /\ Holds(src.blocks, b - n, i, x)
<1>1. PICK s : s = dst.blocks
  OBVIOUS
<1>2. PICK t : t = src.blocks
  OBVIOUS
<1>3. PICK d : d = s \o t
  OBVIOUS
<1>4. /\ s \in Seq(Seq(Elements)) /\ t \in Seq(Seq(Elements))
      /\ n \in Nat /\ n = Len(s) /\ Len(t) \in Nat /\ src.last = Len(t)
  BY <1>1, <1>2, ChainHas DEF Chain
<1>5. m = [blocks |-> d, last |-> n + Len(t)]
  BY <1>1, <1>2, <1>3, <1>4 DEF Merged
<1>6. /\ d \in Seq(Seq(Elements)) /\ Len(d) = n + Len(t)
      /\ \A b \in 1 .. n + Len(t) : d[b] = IF b =< n THEN s[b] ELSE t[b - n]
  BY <1>3, <1>4, ConcatProperties
<1>7. ASSUME NEW b \in Nat
      PROVE  /\ b =< n => b - n \notin 1 .. Len(t) /\ (b \in 1 .. n + Len(t) <=> b \in 1 .. n)
             /\ b > n => b \notin 1 .. n /\ (b \in 1 .. n + Len(t) <=> b - n \in 1 .. Len(t))
  BY <1>4
<1>8. Chain(m)
  <2>1. ASSUME NEW b \in 1 .. n + Len(t) PROVE Len(d[b]) =< BlockSize
    <3>1. CASE b =< n
      <4>1. b \in 1 .. n
        BY <1>4, <3>1
      <4> QED
        BY <1>1, <1>4, <1>6, <3>1, <4>1 DEF Chain
    <3>2. CASE b > n
      <4>1. b - n \in 1 .. Len(t)
        BY <1>4, <3>2
      <4>2. d[b] = t[b - n]
        BY <1>4, <1>6, <3>2
      <4> QED
        BY <1>2, <4>1, <4>2 DEF Chain
    <3> QED
      BY <1>4, <3>1, <3>2
  <2> QED
    BY <1>4, <1>5, <1>6, <2>1 DEF Chain
<1>9. ASSUME NEW b \in Nat, NEW i \in Nat, NEW x
      PROVE  Holds(d, b, i, x) <=> Holds(s, b, i, x) \/ (b > n /\ Holds(t, b - n, i, x))
  <2>1. CASE b =< n
    <3>1. b \in 1 .. n + Len(t) <=> b \in 1 .. n
      BY <1>7, <2>1
    <3>2. ~(b > n)
      BY <1>4, <2>1
    <3> QED
      BY <1>4, <1>6, <2>1, <3>1, <3>2, Zenon DEF Holds
  <2>2. CASE b > n
    <3>1. b \notin 1 .. n /\ (b \in 1 .. n + Len(t) <=> b - n \in 1 .. Len(t)) /\ ~(b =< n)
      BY <1>4, <1>7, <2>2
    <3> QED
      BY <1>4, <1>6, <2>2, <3>1, Zenon DEF Holds
  <2> QED
    BY <1>4, <2>1, <2>2
<1>10. m.blocks = d
  BY <1>5
<1> QED
  BY <1>1, <1>2, <1>4, <1>8, <1>9, <1>10

\* The elements of a list are those it has at some place.
LEMMA InIs ==
  ASSUME Types, NEW l \in Lists
  PROVE  /\ In(l) \subseteq Elements
         /\ \A e : e \in In(l) <=> \E b, i \in Nat : Holds(Blocks(l), b, i, e)
<1>1. PICK s : s = lists[l].blocks
  OBVIOUS
<1>2. /\ s \in Seq(Seq(Elements)) /\ Len(s) \in Nat
      /\ \A b \in 1 .. Len(s) : /\ s[b] \in Seq(Elements) /\ Len(s[b]) \in Nat
                                /\ \A i \in 1 .. Len(s[b]) : s[b][i] \in Elements
  BY <1>1, ChainHas DEF Types
<1>3. DOMAIN s = 1 .. Len(s) /\ \A b \in 1 .. Len(s) : DOMAIN s[b] = 1 .. Len(s[b])
  BY <1>2, LenProperties
<1>4. \A e : e \in In(l) <=> \E b \in DOMAIN Blocks(l) : \E i \in DOMAIN Blocks(l)[b] : Blocks(l)[b][i] = e
  BY DEF In
<1>5. ASSUME NEW e PROVE e \in In(l) <=> \E b, i \in Nat : Holds(s, b, i, e)
  <2>1. e \in In(l) <=> \E b \in 1 .. Len(s) : \E i \in 1 .. Len(s[b]) : s[b][i] = e
    BY <1>1, <1>3, <1>4, Zenon DEF Blocks
  <2>2. \A b \in 1 .. Len(s) : b \in Nat /\ \A i \in 1 .. Len(s[b]) : i \in Nat
    BY <1>2
  <2>3. \A b, i : Holds(s, b, i, e) <=> b \in 1 .. Len(s) /\ i \in 1 .. Len(s[b]) /\ s[b][i] = e
    BY DEF Holds
  <2>4. ASSUME NEW b \in Nat, NEW i \in Nat, Holds(s, b, i, e) PROVE e \in In(l)
    BY <2>1, <2>3, <2>4, Zenon
  <2>5. ASSUME e \in In(l) PROVE \E b, i \in Nat : Holds(s, b, i, e)
    <3>1. PICK b \in 1 .. Len(s) : \E i \in 1 .. Len(s[b]) : s[b][i] = e
      BY <2>1, <2>5, Zenon
    <3>2. PICK i \in 1 .. Len(s[b]) : s[b][i] = e
      BY <3>1, Zenon
    <3>3. Holds(s, b, i, e)
      BY <2>3, <3>2, Zenon
    <3> QED
      BY <2>2, <3>3, Zenon
  <2> QED
    BY <2>4, <2>5, Zenon
<1>6. In(l) \subseteq Elements
  <2> SUFFICES ASSUME NEW e \in In(l) PROVE e \in Elements
    OBVIOUS
  <2>1. PICK b, i \in Nat : Holds(s, b, i, e)
    BY <1>5, Zenon
  <2> QED
    BY <1>2, <2>1, Zenon DEF Holds
<1> QED
  BY <1>1, <1>5, <1>6 DEF Blocks

-------------------------------------------------------------------------------
(* Each call keeps the accounts *)

\* All that a cursor does.
LEMMA SameLists ==
  ASSUME IInv, UNCHANGED <<lists, alive, own, freed>>
  PROVE  IInv'
BY DEF IInv, Types, Once, Accounted, Holding, Blocks

\* Lists that hold the same at the same places.
LEMMA SameHolds ==
  ASSUME IInv, Types', UNCHANGED <<own, freed>>,
         \A l \in Lists : \A b, i \in Nat : \A e : Holds(Blocks(l), b, i, e)' <=> Holds(Blocks(l), b, i, e)
  PROVE  IInv'
<1>1. Once'
  BY DEF IInv, Once
<1>2. Accounted'
  BY DEF IInv, Accounted, Holding
<1> QED
  BY <1>1, <1>2 DEF IInv

\* yf_list_init
LEMMA CreateStep ==
  ASSUME IInv, NEW l \in Lists, ListCreate(l)
  PROVE  IInv'
<1>1. /\ Types /\ lists[l] = NoBlocks /\ lists' = [lists EXCEPT ![l] = NewBlock]
      /\ alive' = alive \cup {l} /\ UNCHANGED <<own, freed>>
  BY DEF IInv, Types, ListCreate
<1>2. \A k \in Lists : lists'[k] = IF k = l THEN NewBlock ELSE lists[k]
  BY <1>1 DEF Types
<1>3. Types'
  BY <1>1, <1>2, EmptyLists DEF Types
<1>4. \A k \in Lists : \A b, i \in Nat : \A e : Holds(Blocks(k), b, i, e)' <=> Holds(Blocks(k), b, i, e)
  <2> SUFFICES ASSUME NEW k \in Lists, NEW b \in Nat, NEW i \in Nat, NEW e
               PROVE  Holds(lists'[k].blocks, b, i, e) <=> Holds(lists[k].blocks, b, i, e)
    BY DEF Holds, Blocks
  <2> QED
    BY <1>1, <1>2, EmptyLists
<1> QED
  BY <1>1, <1>3, <1>4, SameHolds
\* yf_list_add: the element goes from the client to a place that nothing had.
LEMMA AddStep ==
  ASSUME IInv, NEW l \in Lists, NEW e \in Elements, ListAdd(l, e)
  PROVE  IInv'
<1>1. PICK list : list = IF IsNull(l) THEN NewBlock ELSE lists[l]
  OBVIOUS
<1>2. PICK m : m = Added(list, e)
  OBVIOUS
<1>3. /\ Types /\ Once /\ Accounted /\ l \in alive /\ e \in own
      /\ lists' = [lists EXCEPT ![l] = m]
      /\ own' = own \ {e} /\ UNCHANGED <<alive, freed>>
  BY <1>1, <1>2 DEF IInv, ListAdd
<1>4. /\ Chain(list) /\ list.blocks # <<>>
      /\ \A b, i \in Nat : \A x : Holds(list.blocks, b, i, x) <=> Holds(lists[l].blocks, b, i, x)
  <2>1. CASE IsNull(l)
    <3>1. lists[l].blocks = NoBlocks.blocks
      BY <2>1, EmptyLists DEF IsNull, Blocks
    <3> QED
      BY <1>1, <2>1, <3>1, EmptyLists
  <2>2. CASE ~IsNull(l)
    BY <1>1, <1>3, <2>2 DEF IsNull, Blocks, Types
  <2> QED
    BY <2>1, <2>2
<1>5. Chain(m)
  BY <1>2, <1>4, AddedGains
<1>6. PICK at, k \in Nat : Gains(list.blocks, m.blocks, e, at, k)
  BY <1>2, <1>4, AddedGains
<1>7. \A h \in Lists : lists'[h] = IF h = l THEN m ELSE lists[h]
  BY <1>3 DEF Types
<1>8. Types'
  BY <1>3, <1>5, <1>7 DEF Types
<1>9. \A h \in Lists : \A b, i \in Nat : \A x :
        Holds(lists'[h].blocks, b, i, x) <=>
          Holds(lists[h].blocks, b, i, x) \/ (h = l /\ x = e /\ b = at /\ i = k)
  BY <1>4, <1>6, <1>7 DEF Gains
<1>10. \A h \in Lists : \A b, i \in Nat : ~Holds(lists[h].blocks, b, i, e)
  BY <1>3 DEF Accounted, Holding, Blocks
<1>11. Once'
  <2> SUFFICES ASSUME NEW x \in Elements, NEW g \in Lists, NEW h \in Lists,
                      NEW a \in Nat, NEW b \in Nat, NEW i \in Nat, NEW j \in Nat,
                      Holds(lists'[g].blocks, a, i, x), Holds(lists'[h].blocks, b, j, x)
               PROVE  g = h /\ a = b /\ i = j
    BY DEF Once, Blocks
  <2>1. CASE x = e
    BY <1>9, <1>10, <2>1, SMTT(30)
  <2>2. CASE x # e
    BY <1>3, <1>9, <2>2 DEF Once, Blocks
  <2> QED
    BY <2>1, <2>2
<1>12. ASSUME NEW x \in Elements PROVE Holding(x)' <=> Holding(x) \/ x = e
  <2>1. Holding(x)' <=> \E h \in Lists : \E b, i \in Nat : Holds(lists'[h].blocks, b, i, x)
    BY DEF Holding, Blocks, Holds
  <2>2. Holding(x) <=> \E h \in Lists : \E b, i \in Nat : Holds(lists[h].blocks, b, i, x)
    BY DEF Holding, Blocks
  <2> QED
    BY <1>6, <1>9, <2>1, <2>2
<1>13. Accounted'
  <2>1. ASSUME NEW x \in Elements PROVE x \in own' \cup freed' <=> ~Holding(x)'
    BY <1>3, <1>12 DEF Accounted
  <2> QED
    BY <1>3, <2>1 DEF Accounted
<1> QED
  BY <1>8, <1>11, <1>13 DEF IInv

\* yf_list_merge: the places of src become places of dst.
LEMMA MergeStep ==
  ASSUME IInv, NEW dst \in Lists, NEW src \in Lists, ListMerge(dst, src)
  PROVE  IInv'
<1>1. UNCHANGED <<alive, own, freed>> /\ {dst, src} \subseteq alive
  BY DEF ListMerge
<1>2. CASE dst = src \/ IsNull(src)
  BY <1>1, <1>2, SameLists DEF ListMerge
<1>3. CASE ~(dst = src \/ IsNull(src))
  <2>1. PICK m : m = Merged(lists[dst], lists[src])
    OBVIOUS
  <2>2. PICK n : n = Len(lists[dst].blocks)
    OBVIOUS
  <2>3. Types /\ Once /\ Accounted /\ lists' = [lists EXCEPT ![dst] = m, ![src] = NoBlocks]
    BY <1>3, <2>1 DEF IInv, ListMerge
  <2>4. \A k \in Lists : lists'[k] = IF k = src THEN NoBlocks ELSE IF k = dst THEN m ELSE lists[k]
    BY <1>3, <2>3 DEF Types
  <2>5. /\ Chain(m) /\ n \in Nat
        /\ \A b, i \in Nat : \A x :
             Holds(m.blocks, b, i, x) <=> \/ Holds(lists[dst].blocks, b, i, x)
                                          \/ b > n /\ Holds(lists[src].blocks, b - n, i, x)
    <3>1. PICK c : c = lists[dst]
      OBVIOUS
    <3>2. PICK d : d = lists[src]
      OBVIOUS
    <3>3. Chain(c) /\ Chain(d)
      BY <2>3, <3>1, <3>2 DEF Types
    <3>4. m = Merged(c, d) /\ n = Len(c.blocks)
      BY <2>1, <2>2, <3>1, <3>2
    <3>5. /\ Chain(m) /\ n \in Nat
          /\ \A b, i \in Nat : \A x :
               Holds(m.blocks, b, i, x) <=> \/ Holds(c.blocks, b, i, x)
                                            \/ b > n /\ Holds(d.blocks, b - n, i, x)
      BY <3>3, <3>4, MergedHolds
    <3> QED
      BY <3>1, <3>2, <3>5
  <2>6. Types'
    BY <1>1, <2>3, <2>4, <2>5, EmptyLists DEF Types
  <2>7. ASSUME NEW k \in Lists, NEW b \in Nat, NEW i \in Nat, NEW x
        PROVE  Holds(lists'[k].blocks, b, i, x) <=>
                 \/ k # src /\ Holds(lists[k].blocks, b, i, x)
                 \/ k = dst /\ b > n /\ Holds(lists[src].blocks, b - n, i, x)
    BY <1>3, <2>4, <2>5, EmptyLists
  <2>8. \A b \in Nat : (b > n => b - n \in Nat) /\ b + n \in Nat /\ (b + n) - n = b /\ (b > 0 => b + n > n)
    BY <2>5
  <2>9. \A b, i, x : Holds(lists[dst].blocks, b, i, x) => ~(b > n)
    BY <2>2, <2>5 DEF Holds
  <2>10. Once'
    <3> SUFFICES ASSUME NEW x \in Elements, NEW g \in Lists, NEW h \in Lists,
                        NEW a \in Nat, NEW b \in Nat, NEW i \in Nat, NEW j \in Nat,
                        Holds(lists'[g].blocks, a, i, x), Holds(lists'[h].blocks, b, j, x)
                 PROVE  g = h /\ a = b /\ i = j
      BY DEF Once, Blocks
    <3>1. /\ \/ g # src /\ Holds(lists[g].blocks, a, i, x)
             \/ g = dst /\ a > n /\ Holds(lists[src].blocks, a - n, i, x)
          /\ \/ h # src /\ Holds(lists[h].blocks, b, j, x)
             \/ h = dst /\ b > n /\ Holds(lists[src].blocks, b - n, j, x)
      BY <2>7
    <3>2. \A k, l \in Lists : \A c, d \in Nat :
            Holds(lists[k].blocks, c, i, x) /\ Holds(lists[l].blocks, d, j, x) => k = l /\ c = d /\ i = j
      BY <2>3 DEF Once, Blocks
    <3>3. CASE Holds(lists[g].blocks, a, i, x) /\ g # src
      BY <2>8, <3>1, <3>2, <3>3
    <3>4. CASE g = dst /\ a > n /\ Holds(lists[src].blocks, a - n, i, x)
      <4>1. h = dst /\ b > n /\ Holds(lists[src].blocks, b - n, j, x)
        BY <2>8, <3>1, <3>2, <3>4
      <4>2. a - n = b - n /\ i = j
        BY <2>8, <3>2, <3>4, <4>1
      <4>3. a = b
        BY <2>5, <4>2
      <4> QED
        BY <3>4, <4>1, <4>2, <4>3
    <3> QED
      BY <3>1, <3>3, <3>4
  <2>11. ASSUME NEW x \in Elements PROVE Holding(x)' <=> Holding(x)
    <3>1. Holding(x)' <=> \E h \in Lists : \E b, i \in Nat : Holds(lists'[h].blocks, b, i, x)
      BY DEF Holding, Blocks, Holds
    <3>2. Holding(x) <=> \E h \in Lists : \E b, i \in Nat : Holds(lists[h].blocks, b, i, x)
      BY DEF Holding, Blocks
    <3>3. ASSUME Holding(x)' PROVE Holding(x)
      <4>1. PICK h \in Lists, b \in Nat, i \in Nat : Holds(lists'[h].blocks, b, i, x)
        BY <3>1, <3>3
      <4>2. \/ Holds(lists[h].blocks, b, i, x)
            \/ b > n /\ Holds(lists[src].blocks, b - n, i, x)
        BY <2>7, <4>1
      <4> QED
        BY <2>8, <3>2, <4>2
    <3>4. ASSUME Holding(x) PROVE Holding(x)'
      <4>1. PICK h \in Lists, b \in Nat, i \in Nat : Holds(lists[h].blocks, b, i, x)
        BY <3>2, <3>4
      <4>2. CASE h # src
        BY <2>7, <3>1, <4>1, <4>2
      <4>3. CASE h = src
        <5>1. b > 0
          BY <4>1 DEF Holds
        <5>2. PICK d \in Nat : d = b + n
          BY <2>8
        <5>3. d > n /\ d - n = b
          BY <2>8, <5>1, <5>2
        <5> QED
          BY <2>7, <3>1, <4>1, <4>3, <5>3
      <4> QED
        BY <4>2, <4>3
    <3> QED
      BY <3>3, <3>4
  <2>12. Accounted'
    BY <1>1, <2>3, <2>11 DEF Accounted
  <2> QED
    BY <2>6, <2>10, <2>12 DEF IInv
<1> QED
  BY <1>2, <1>3

\* yf_list_destroy: what was in the list is freed, or the client's.
LEMMA DestroyStep ==
  ASSUME IInv, NEW l \in Lists, NEW free \in BOOLEAN, ListDestroy(l, free)
  PROVE  IInv'
<1>1. /\ Types /\ Once /\ Accounted /\ l \in alive
      /\ lists' = [lists EXCEPT ![l] = NoBlocks] /\ alive' = alive \ {l}
      /\ freed' = (IF free THEN freed \cup In(l) ELSE freed)
      /\ own' = (IF free THEN own ELSE own \cup In(l))
  BY DEF IInv, ListDestroy
<1>2. \A k \in Lists : lists'[k] = IF k = l THEN NoBlocks ELSE lists[k]
  BY <1>1 DEF Types
<1>3. Types'
  BY <1>1, <1>2, EmptyLists DEF Types
<1>4. \A k \in Lists : \A b, i \in Nat : \A x :
        Holds(lists'[k].blocks, b, i, x) <=> k # l /\ Holds(lists[k].blocks, b, i, x)
  BY <1>2, EmptyLists
<1>5. Once'
  <2> SUFFICES ASSUME NEW x \in Elements, NEW g \in Lists, NEW h \in Lists,
                      NEW a \in Nat, NEW b \in Nat, NEW i \in Nat, NEW j \in Nat,
                      Holds(lists'[g].blocks, a, i, x), Holds(lists'[h].blocks, b, j, x)
               PROVE  g = h /\ a = b /\ i = j
    BY DEF Once, Blocks
  <2>1. Holds(lists[g].blocks, a, i, x) /\ Holds(lists[h].blocks, b, j, x)
    BY <1>4
  <2> QED
    BY <1>1, <2>1 DEF Once, Blocks
<1>6. /\ In(l) \subseteq Elements
      /\ \A x : x \in In(l) <=> \E b, i \in Nat : Holds(lists[l].blocks, b, i, x)
  BY <1>1, InIs DEF Blocks
<1>7. ASSUME NEW x \in Elements PROVE Holding(x)' <=> Holding(x) /\ x \notin In(l)
  <2>1. Holding(x)' <=> \E h \in Lists : \E b, i \in Nat : Holds(lists'[h].blocks, b, i, x)
    BY DEF Holding, Blocks, Holds
  <2>2. Holding(x) <=> \E h \in Lists : \E b, i \in Nat : Holds(lists[h].blocks, b, i, x)
    BY DEF Holding, Blocks
  <2>3. \A g, h \in Lists : \A a, b, i, j \in Nat :
          Holds(lists[g].blocks, a, i, x) /\ Holds(lists[h].blocks, b, j, x) => g = h
    BY <1>1 DEF Once, Blocks
  <2> QED
    BY <1>4, <1>6, <2>1, <2>2, <2>3
<1>8. \A x \in Elements : x \in In(l) => Holding(x)
  BY <1>6 DEF Holding, Blocks
<1>9. Accounted'
  <2>1. own' \subseteq Elements /\ freed' \subseteq Elements /\ own' \cap freed' = {}
    BY <1>1, <1>6, <1>8 DEF Accounted
  <2>2. ASSUME NEW x \in Elements PROVE x \in own' \cup freed' <=> ~Holding(x)'
    BY <1>1, <1>7 DEF Accounted
  <2> QED
    BY <2>1, <2>2 DEF Accounted
<1> QED
  BY <1>3, <1>5, <1>9 DEF IInv

-------------------------------------------------------------------------------
(* The theorems *)

\* Every element has one place, or one owner, after every call.
THEOREM Inductive ==
  ListSpec => []IInv
<1>1. ListsInit => IInv
  <2> SUFFICES ASSUME ListsInit PROVE IInv
    OBVIOUS
  <2>1. \A l \in Lists : lists[l] = NoBlocks
    BY DEF ListsInit
  <2>2. Types
    BY <2>1, EmptyLists DEF Types, ListsInit
  <2>3. \A l \in Lists : \A b, i, e : ~Holds(Blocks(l), b, i, e)
    BY <2>1, EmptyLists DEF Blocks
  <2>4. Once /\ Accounted
    BY <2>3 DEF Once, Accounted, Holding, ListsInit
  <2> QED
    BY <2>2, <2>4 DEF IInv
<1>2. IInv /\ [ListsNext]_listVars => IInv'
  <2> SUFFICES ASSUME IInv, [ListsNext]_listVars PROVE IInv'
    OBVIOUS
  <2>1. CASE \E l \in Lists : ListCreate(l)
    BY <2>1, CreateStep
  <2>2. CASE \E l \in Lists : \E e \in Elements : ListAdd(l, e)
    BY <2>2, AddStep
  <2>3. CASE \E l \in Lists : \E src \in Lists : ListMerge(l, src)
    BY <2>3, MergeStep
  <2>4. CASE \E l \in Lists : \E free \in BOOLEAN : ListDestroy(l, free)
    BY <2>4, DestroyStep
  <2>5. CASE \/ \E l \in Lists : ListReset(l) \/ ListCount(l) \/ ListIsEmpty(l)
             \/ ListNext \/ ListGet \/ UNCHANGED listVars
    <3>1. UNCHANGED <<lists, alive, own, freed>>
      BY <2>5 DEF ListReset, ListCount, ListIsEmpty, ListNext, ListGet, listVars
    <3> QED
      BY <3>1, SameLists
  <2> QED
    BY <2>1, <2>2, <2>3, <2>4, <2>5 DEF ListsNext
<1> QED
  BY <1>1, <1>2, PTL DEF ListSpec

\* The places of the lists are where they hold something.
LEMMA PlacesAre ==
  ASSUME Types, NEW e
  PROVE  /\ \A p \in Places : At(p) = e =>
              \E l \in Lists : \E b, i \in Nat : p = <<l, b, i>> /\ Holds(Blocks(l), b, i, e)
         /\ \A l \in Lists : \A b, i \in Nat : Holds(Blocks(l), b, i, e) => <<l, b, i>> \in Places /\ At(<<l, b, i>>) = e
<1>1. \A l \in Lists : /\ DOMAIN Blocks(l) = 1 .. Len(Blocks(l)) /\ Len(Blocks(l)) \in Nat
                       /\ \A b \in 1 .. Len(Blocks(l)) : /\ DOMAIN Blocks(l)[b] = 1 .. Len(Blocks(l)[b])
                                                         /\ Len(Blocks(l)[b]) \in Nat
  <2> SUFFICES ASSUME NEW l \in Lists
               PROVE  /\ DOMAIN Blocks(l) = 1 .. Len(Blocks(l)) /\ Len(Blocks(l)) \in Nat
                      /\ \A b \in 1 .. Len(Blocks(l)) : /\ DOMAIN Blocks(l)[b] = 1 .. Len(Blocks(l)[b])
                                                        /\ Len(Blocks(l)[b]) \in Nat
    OBVIOUS
  <2>1. PICK s : s = Blocks(l)
    OBVIOUS
  <2>2. s \in Seq(Seq(Elements)) /\ \A b \in 1 .. Len(s) : s[b] \in Seq(Elements)
    BY <2>1, ChainHas DEF Types, Blocks
  <2>3. DOMAIN s = 1 .. Len(s) /\ Len(s) \in Nat
        /\ \A b \in 1 .. Len(s) : DOMAIN s[b] = 1 .. Len(s[b]) /\ Len(s[b]) \in Nat
    BY <2>2, LenProperties
  <2> QED
    BY <2>1, <2>3, Zenon
<1>2. ASSUME NEW p \in Places, At(p) = e
      PROVE  \E l \in Lists : \E b, i \in Nat : p = <<l, b, i>> /\ Holds(Blocks(l), b, i, e)
  <2>1. PICK c \in Chained : p \in {<<c[1], c[2], i>> : i \in DOMAIN Blocks(c[1])[c[2]]}
    BY DEF Places
  <2>2. PICK l \in alive : c \in {<<l, b>> : b \in DOMAIN Blocks(l)}
    BY DEF Chained
  <2>3. PICK b \in DOMAIN Blocks(l) : c = <<l, b>>
    BY <2>2
  <2>4. PICK i \in DOMAIN Blocks(l)[b] : p = <<l, b, i>>
    BY <2>1, <2>3
  <2>5. l \in Lists /\ b \in 1 .. Len(Blocks(l)) /\ i \in 1 .. Len(Blocks(l)[b]) /\ b \in Nat /\ i \in Nat
    BY <1>1 DEF Types
  <2>6. Blocks(l)[b][i] = e
    BY <1>2, <2>4 DEF At
  <2> QED
    BY <2>4, <2>5, <2>6 DEF Holds
<1>3. ASSUME NEW l \in Lists, NEW b \in Nat, NEW i \in Nat, Holds(Blocks(l), b, i, e)
      PROVE  <<l, b, i>> \in Places /\ At(<<l, b, i>>) = e
  <2>1. b \in DOMAIN Blocks(l) /\ i \in DOMAIN Blocks(l)[b] /\ Blocks(l)[b][i] = e
    BY <1>1, <1>3 DEF Holds
  <2>2. l \in alive
    <3>1. CASE l \notin alive
      BY <1>3, <3>1, EmptyLists DEF Types, Blocks
    <3> QED
      BY <3>1
  <2>3. PICK c : c = <<l, b>>
    OBVIOUS
  <2>4. c \in Chained /\ c[1] = l /\ c[2] = b
    BY <2>1, <2>2, <2>3 DEF Chained
  <2>5. <<l, b, i>> \in Places
    BY <2>1, <2>4 DEF Places
  <2> QED
    BY <2>1, <2>5 DEF At
<1> QED
  BY <1>2, <1>3

\* Through additions, merges and removals of whole lists, `last' is the end of its chain, no block
\* is overfull, and each element is the client's, or freed once, or at exactly one place of one list.
THEOREM Kept ==
  ListSpec => []NoElementLost
<1>1. IInv => NoElementLost
  <2> SUFFICES ASSUME IInv PROVE NoElementLost
    OBVIOUS
  <2>1. Types /\ Once /\ Accounted
    BY DEF IInv
  <2>2. ASSUME NEW l \in alive
        PROVE  lists[l].last = Len(Blocks(l)) /\ \A b \in DOMAIN Blocks(l) : Len(Blocks(l)[b]) <= BlockSize
    <3>1. Chain(lists[l])
      BY <2>1 DEF Types
    <3>2. DOMAIN lists[l].blocks = 1 .. Len(lists[l].blocks)
      BY <3>1, ChainHas, LenProperties
    <3> QED
      BY <3>1, <3>2 DEF Chain, Blocks
  <2>3. own \cap freed = {}
    BY <2>1 DEF Accounted
  <2>4. ASSUME NEW e \in Elements
        PROVE  Cardinality({p \in Places : At(p) = e}) = IF e \in own \cup freed THEN 0 ELSE 1
    <3>1. CASE e \in own \cup freed
      <4>1. {p \in Places : At(p) = e} = {}
        BY <2>1, <3>1, PlacesAre DEF Accounted, Holding
      <4> QED
        BY <3>1, <4>1, FS_EmptySet
    <3>2. CASE e \notin own \cup freed
      <4>1. PICK l \in Lists, b \in Nat, i \in Nat : Holds(Blocks(l), b, i, e)
        BY <2>1, <3>2 DEF Accounted, Holding
      <4>2. PICK q : q = <<l, b, i>>
        OBVIOUS
      <4>3. q \in Places /\ At(q) = e
        BY <2>1, <4>1, <4>2, PlacesAre
      <4>4. ASSUME NEW p \in Places, At(p) = e PROVE p = q
        <5>1. PICK k \in Lists, a \in Nat, j \in Nat : p = <<k, a, j>> /\ Holds(Blocks(k), a, j, e)
          BY <2>1, <4>4, PlacesAre
        <5>2. k = l /\ a = b /\ j = i
          BY <2>1, <4>1, <5>1 DEF Once
        <5> QED
          BY <4>2, <5>1, <5>2
      <4>5. {p \in Places : At(p) = e} = {q}
        BY <4>3, <4>4
      <4> QED
        BY <3>2, <4>5, FS_Singleton
    <3> QED
      BY <3>1, <3>2
  <2> QED
    BY <2>2, <2>3, <2>4 DEF NoElementLost
<1> QED
  BY <1>1, Inductive, PTL

-------------------------------------------------------------------------------
(* Flattening *)

\* A property of 0 and of each number behind one that has it is one of all numbers.
LEMMA Induction ==
  ASSUME NEW S \in SUBSET Nat, 0 \in S, \A n \in S : n + 1 \in S
  PROVE  S = Nat
<1> SUFFICES ASSUME Nat \ S # {}
             PROVE  FALSE
  OBVIOUS
<1>1. PICK x \in Nat \ S : \A y \in Nat \ S : x =< y
  <2> DEFINE T == Nat \ S
             R == OpToRel(<, Nat)
  <2>1. IsWellFoundedOn(R, Nat)
    BY NatLessThanWellFounded
  <2>2. \A x, y \in T : y < x => <<y, x>> \in R
    BY DEF OpToRel
  <2>3. T \in SUBSET Nat /\ T # {}
    OBVIOUS
  <2> HIDE DEF R, T
  <2>4. PICK x \in T : \A y \in T : <<y, x>> \notin R
    BY <2>1, <2>3, WFMin, Zenon
  <2>5. \A y \in T : ~(y < x)
    BY <2>2, <2>4, Zenon
  <2> QED
    BY <2>5 DEF T
<1>2. x # 0 /\ x - 1 \in Nat /\ (x - 1) + 1 = x
  BY <1>1
<1>3. x - 1 \in S
  BY <1>1, <1>2
<1> QED
  BY <1>1, <1>2, <1>3

\* A set of sequences that has the empty one and all extensions of its sequences has them all.
LEMMA SeqInduction ==
  ASSUME NEW S, NEW Q \in SUBSET Seq(S), <<>> \in Q, \A r \in Q : \A x \in S : Append(r, x) \in Q
  PROVE  Q = Seq(S)
<1> DEFINE T == {n \in Nat : \A s \in Seq(S) : Len(s) = n => s \in Q}
<1>1. 0 \in T
  BY EmptySeq
<1>2. ASSUME NEW n \in T
      PROVE  n + 1 \in T
  <2>1. ASSUME NEW s \in Seq(S), Len(s) = n + 1
        PROVE  s \in Q
    <3>1. s # <<>>
      BY <2>1, EmptySeq
    <3>2. PICK r \in Seq(S), x \in S : s = Append(r, x)
      BY <3>1, SequenceEmptyOrAppend
    <3>3. Len(r) = n
      BY <2>1, <3>2, AppendProperties, LenProperties
    <3> QED
      BY <3>2, <3>3
  <2> QED
    BY <2>1
<1>3. T = Nat
  <2>1. T \in SUBSET Nat
    OBVIOUS
  <2> HIDE DEF T
  <2> QED
    BY <1>1, <1>2, <2>1, Induction
<1> QED
  BY <1>3, LenProperties

\* flat is what the first of some sequences make together: one, two, and so on.
Flattens(flat, s) == flat = [i \in 1 .. Len(s) |-> IF i = 1 THEN s[i] ELSE flat[i - 1] \o s[i]]

\* Such a flat exists, so that CHOOSE finds one.
LEMMA FlattensExists ==
  ASSUME NEW s, Len(s) \in Nat
  PROVE  \E flat : Flattens(flat, s)
<1> DEFINE UpTo(n, f) == f = [i \in 1 .. n |-> IF i = 1 THEN s[i] ELSE f[i - 1] \o s[i]]
           S == {n \in Nat : \E f : UpTo(n, f)}
<1>1. 0 \in S
  <2> DEFINE none == [i \in 1 .. 0 |-> 0]
  <2>1. UpTo(0, none)
    OBVIOUS
  <2> QED BY <2>1
<1>2. ASSUME NEW n \in S
      PROVE  n + 1 \in S
  <2>1. PICK f : UpTo(n, f)
    OBVIOUS
  <2> DEFINE g == [i \in 1 .. n + 1 |-> IF i =< n THEN f[i] ELSE IF i = 1 THEN s[i] ELSE f[n] \o s[i]]
  <2>2. \A i \in 1 .. n : g[i] = f[i]
    OBVIOUS
  <2>3. g[n + 1] = IF n + 1 = 1 THEN s[n + 1] ELSE f[n] \o s[n + 1]
    OBVIOUS
  <2>4. g = [i \in 1 .. n + 1 |-> g[i]]
    OBVIOUS
  <2> HIDE DEF g
  <2>5. \A i \in 1 .. n : f[i] = IF i = 1 THEN s[i] ELSE f[i - 1] \o s[i]
    BY <2>1
  <2>6. ASSUME NEW i \in 1 .. n + 1
        PROVE  g[i] = IF i = 1 THEN s[i] ELSE g[i - 1] \o s[i]
    <3>1. CASE i = n + 1
      <4>1. i # 1 => i - 1 = n /\ n \in 1 .. n
        BY <3>1
      <4> QED BY <2>2, <2>3, <3>1, <4>1
    <3>2. CASE i \in 1 .. n
      <4>1. i # 1 => i - 1 \in 1 .. n
        BY <3>2
      <4> QED BY <2>2, <2>5, <3>2, <4>1
    <3> QED BY <3>1, <3>2
  <2>7. UpTo(n + 1, g)
    BY <2>4, <2>6
  <2>8. n + 1 \in Nat
    OBVIOUS
  <2> HIDE DEF UpTo
  <2> QED BY <2>7, <2>8, Zenon
<1>3. S = Nat
  <2>1. S \in SUBSET Nat
    OBVIOUS
  <2> HIDE DEF S
  <2> QED BY <1>1, <1>2, <2>1, Induction
<1>4. \E f : UpTo(Len(s), f)
  BY <1>3
<1> QED
  BY <1>4 DEF Flattens

\* What Ext!FlattenSeq does to no sequence, and to one more behind others.
LEMMA FlattenStep ==
  ASSUME NEW S, NEW s \in Seq(Seq(S)), NEW x \in Seq(S), NEW t, t = Append(s, x)
  PROVE  Ext!FlattenSeq(t) = Ext!FlattenSeq(s) \o x
<1> DEFINE f == CHOOSE flat : Flattens(flat, s)
           g == CHOOSE flat : Flattens(flat, t)
<1> PICK n : n = Len(s)
  OBVIOUS
<1>1. n \in Nat /\ Len(t) = n + 1 /\ t[n + 1] = x /\ \A i \in 1 .. n : t[i] = s[i] /\ s[i] \in Seq(S)
  BY AppendProperties, LenProperties, ElementOfSeq
<1>2. Flattens(f, s) /\ Flattens(g, t)
  <2>1. Len(s) \in Nat /\ Len(t) \in Nat
    BY <1>1, LenProperties
  <2>2. (\E flat : Flattens(flat, s)) /\ (\E flat : Flattens(flat, t))
    BY <2>1, FlattensExists
  <2> QED
    BY <2>2, Zenon
<1>3. Ext!FlattenSeq(s) = IF n = 0 THEN s ELSE f[n]
  BY DEF Ext!FlattenSeq, Flattens
<1>4. Ext!FlattenSeq(t) = g[n + 1]
  <2>1. Ext!FlattenSeq(t) = IF Len(t) = 0 THEN t ELSE g[Len(t)]
    BY DEF Ext!FlattenSeq, Flattens
  <2> QED BY <1>1, <2>1
<1> HIDE DEF f, g
<1>5. \A i \in 1 .. n : f[i] = IF i = 1 THEN s[i] ELSE f[i - 1] \o s[i]
  BY <1>2 DEF Flattens
<1>6. \A i \in 1 .. n + 1 : g[i] = IF i = 1 THEN t[i] ELSE g[i - 1] \o t[i]
  BY <1>1, <1>2 DEF Flattens
<1>7. \A i \in 1 .. n : g[i] = f[i]
  <2> DEFINE T == {i \in Nat : i \in 1 .. n => g[i] = f[i]}
  <2>1. 0 \in T
    OBVIOUS
  <2>2. ASSUME NEW i \in T
        PROVE  i + 1 \in T
    <3> SUFFICES ASSUME i + 1 \in 1 .. n
                 PROVE  g[i + 1] = f[i + 1]
      OBVIOUS
    <3>1. i = 0 \/ (i \in 1 .. n /\ g[i] = f[i] /\ i + 1 # 1)
      OBVIOUS
    <3>2. (i + 1) - 1 = i /\ i + 1 \in 1 .. n + 1
      BY <1>1
    <3> QED BY <1>1, <1>5, <1>6, <3>1, <3>2
  <2>3. T = Nat
    <3>1. T \in SUBSET Nat
      OBVIOUS
    <3> HIDE DEF T
    <3> QED BY <2>1, <2>2, <3>1, Induction
  <2>4. \A i \in 1 .. n : i \in T
    <3>1. \A i \in 1 .. n : i \in Nat
      BY <1>1
    <3> HIDE DEF T
    <3> QED BY <2>3, <3>1, Zenon
  <2> QED BY <2>4
<1>8. CASE n = 0
  <2>1. s = <<>>
    <3>1. s # <<>> => Len(s) # 0
      BY EmptySeq
    <3> QED
      BY <1>8, <3>1
  <2>2. Ext!FlattenSeq(s) = <<>>
    BY <1>3, <1>8, <2>1
  <2>3. n + 1 = 1 /\ 1 \in 1 .. n + 1
    BY <1>8
  <2>4. Ext!FlattenSeq(t) = x
    BY <1>1, <1>4, <1>6, <2>3
  <2> QED BY <2>2, <2>4, ConcatEmptySeq
<1>9. CASE n # 0
  <2>1. n + 1 \in 1 .. n + 1 /\ n + 1 # 1 /\ (n + 1) - 1 = n /\ n \in 1 .. n
    BY <1>1, <1>9
  <2>2. g[n + 1] = g[n] \o t[n + 1]
    BY <1>6, <2>1
  <2>3. g[n] = f[n] /\ t[n + 1] = x
    BY <1>1, <1>7, <2>1
  <2>4. Ext!FlattenSeq(s) = f[n]
    BY <1>3, <1>9
  <2> QED BY <1>4, <2>2, <2>3, <2>4
<1> QED
  BY <1>8, <1>9

\* No sequences make the empty one.
LEMMA FlattenNone == Ext!FlattenSeq(<<>>) = <<>>
<1>1. Len(<<>>) = 0
  BY EmptySeq
<1> QED
  BY <1>1 DEF Ext!FlattenSeq

\* What sequences over a set make is one over it.
LEMMA FlattenType ==
  ASSUME NEW S, NEW s \in Seq(Seq(S))
  PROVE  Ext!FlattenSeq(s) \in Seq(S) /\ Len(Ext!FlattenSeq(s)) \in Nat
<1> DEFINE Q == {r \in Seq(Seq(S)) : Ext!FlattenSeq(r) \in Seq(S)}
<1>1. <<>> \in Q
  BY FlattenNone, EmptySeq
<1>2. ASSUME NEW r \in Q, NEW x \in Seq(S)
      PROVE  Append(r, x) \in Q
  <2>1. Ext!FlattenSeq(Append(r, x)) = Ext!FlattenSeq(r) \o x
    BY FlattenStep
  <2> QED
    BY <2>1, ConcatProperties, AppendProperties
<1>3. Q \in SUBSET Seq(Seq(S))
  OBVIOUS
<1>4. Q = Seq(Seq(S))
  <2> HIDE DEF Q
  <2> QED
    BY <1>1, <1>2, <1>3, SeqInduction
<1> QED
  BY <1>4, LenProperties

\* To put an element at the end of the second of two sequences is to put it at the end of both.
LEMMA Associative ==
  ASSUME NEW S, NEW s \in Seq(S), NEW t \in Seq(S), NEW x \in S
  PROVE  s \o Append(t, x) = Append(s \o t, x)
<1>1. PICK one : one = <<x>>
  OBVIOUS
<1>2. one \in Seq(S) /\ s \o t \in Seq(S)
  BY <1>1, ConcatProperties
<1>3. Append(t, x) = t \o one
  BY <1>1, AppendIsConcat
<1>4. Append(s \o t, x) = (s \o t) \o one
  BY <1>1, <1>2, AppendIsConcat
<1>5. (s \o t) \o one = s \o (t \o one)
  BY <1>2, ConcatAssociative
<1> QED
  BY <1>3, <1>4, <1>5

\* What two parts make together is what one makes, and behind it what the other makes.
LEMMA FlattenConcat ==
  ASSUME NEW S, NEW s \in Seq(Seq(S)), NEW t \in Seq(Seq(S))
  PROVE  Ext!FlattenSeq(s \o t) = Ext!FlattenSeq(s) \o Ext!FlattenSeq(t)
<1> DEFINE Q == {r \in Seq(Seq(S)) : Ext!FlattenSeq(s \o r) = Ext!FlattenSeq(s) \o Ext!FlattenSeq(r)}
<1>1. <<>> \in Q
  BY FlattenNone, FlattenType, EmptySeq, ConcatEmptySeq
<1>2. ASSUME NEW r \in Q, NEW x \in Seq(S)
      PROVE  Append(r, x) \in Q
  <2>1. r \in Seq(Seq(S)) /\ Ext!FlattenSeq(s \o r) = Ext!FlattenSeq(s) \o Ext!FlattenSeq(r)
    OBVIOUS
  <2> HIDE DEF Q
  <2>2. PICK u : u = Append(r, x)
    OBVIOUS
  <2>3. PICK p : p = s \o r
    OBVIOUS
  <2>4. PICK f : f = Ext!FlattenSeq(s)
    OBVIOUS
  <2>5. PICK g : g = Ext!FlattenSeq(r)
    OBVIOUS
  <2>6. u \in Seq(Seq(S)) /\ p \in Seq(Seq(S)) /\ f \in Seq(S) /\ g \in Seq(S)
    <3>1. u \in Seq(Seq(S))
      BY <2>1, <2>2, AppendProperties
    <3>2. p \in Seq(Seq(S))
      BY <2>1, <2>3, ConcatProperties
    <3>3. f \in Seq(S) /\ g \in Seq(S)
      BY <2>1, <2>4, <2>5, FlattenType
    <3> QED
      BY <3>1, <3>2, <3>3
  <2>7. s \o u = Append(p, x)
    BY <2>1, <2>2, <2>3, Associative
  <2>8. Ext!FlattenSeq(Append(p, x)) = Ext!FlattenSeq(p) \o x /\ Ext!FlattenSeq(u) = g \o x
    BY <2>1, <2>2, <2>5, <2>6, FlattenStep
  <2>9. (f \o g) \o x = f \o (g \o x)
    BY <2>6, ConcatAssociative
  <2>10. Ext!FlattenSeq(s \o u) = f \o (g \o x)
    BY <2>1, <2>3, <2>4, <2>5, <2>7, <2>8, <2>9
  <2>11. Ext!FlattenSeq(s \o u) = Ext!FlattenSeq(s) \o Ext!FlattenSeq(u)
    BY <2>4, <2>8, <2>10
  <2> QED
    BY <2>2, <2>6, <2>11 DEF Q
<1>3. Q \in SUBSET Seq(Seq(S))
  OBVIOUS
<1>4. Q = Seq(Seq(S))
  <2> HIDE DEF Q
  <2> QED
    BY <1>1, <1>2, <1>3, SeqInduction
<1> QED
  BY <1>4

\* Nothing is added or lost.
LEMMA FlattenRange ==
  ASSUME NEW S, NEW s \in Seq(Seq(S)), NEW e
  PROVE  e \in Range(Ext!FlattenSeq(s)) <=> \E b \in 1 .. Len(s) : e \in Range(s[b])
<1> DEFINE Has(r) == e \in Range(Ext!FlattenSeq(r)) <=> \E b \in 1 .. Len(r) : e \in Range(r[b])
           Q == {r \in Seq(Seq(S)) : Has(r)}
<1>1. <<>> \in Q
  BY FlattenNone, EmptySeq DEF Range
<1>2. ASSUME NEW r \in Q, NEW x \in Seq(S)
      PROVE  Append(r, x) \in Q
  <2>1. PICK u : u = Append(r, x)
    OBVIOUS
  <2>2. Ext!FlattenSeq(u) = Ext!FlattenSeq(r) \o x /\ Ext!FlattenSeq(r) \in Seq(S)
    BY <2>1, FlattenStep, FlattenType
  <2>3. Range(Ext!FlattenSeq(u)) = Range(Ext!FlattenSeq(r)) \cup Range(x)
    BY <2>2, RangeConcatenation
  <2>4. PICK n : n = Len(r)
    OBVIOUS
  <2>5. /\ n \in Nat /\ u \in Seq(Seq(S)) /\ Len(u) = n + 1 /\ u[n + 1] = x
        /\ \A b \in 1 .. n : u[b] = r[b]
    BY <2>1, <2>4, AppendProperties, LenProperties
  <2>6. \A b : b \in 1 .. n + 1 <=> b \in 1 .. n \/ b = n + 1
    <3>1. n \in Nat
      BY <2>5
    <3> QED
      BY <3>1
  <2>7. (\E b \in 1 .. Len(u) : e \in Range(u[b])) <=> (\E b \in 1 .. n : e \in Range(r[b])) \/ e \in Range(x)
    BY <2>5, <2>6, Zenon
  <2>8. Has(r)
    OBVIOUS
  <2>9. Has(u)
    BY <2>3, <2>4, <2>7, <2>8
  <2> QED
    BY <2>1, <2>5, <2>9
<1>3. Q \in SUBSET Seq(Seq(S))
  OBVIOUS
<1>4. Q = Seq(Seq(S))
  <2> HIDE DEF Q
  <2> QED
    BY <1>1, <1>2, <1>3, SeqInduction
<1>5. Has(s)
  BY <1>4
<1> QED
  BY <1>5

\* Where the elements of a sequence are in what the sequences make together.
LEMMA FlattenAt ==
  ASSUME NEW S, NEW s \in Seq(Seq(S)), NEW b \in 1 .. Len(s), NEW x \in Seq(S), x = s[b],
         NEW w \in Seq(S), w = Ext!FlattenSeq(s),
         NEW n, n = Len(Ext!FlattenSeq(SubSeq(s, 1, b - 1)))
  PROVE  /\ n \in Nat /\ Len(w) \in Nat /\ Len(x) \in Nat
         /\ Len(Ext!FlattenSeq(SubSeq(s, 1, b))) = n + Len(x)
         /\ n + Len(x) =< Len(w)
         /\ b = Len(s) => n + Len(x) = Len(w)
         /\ \A i \in 1 .. Len(x) : w[n + i] = x[i]
<1>2. Len(s) \in Nat /\ b \in Nat /\ x \in Seq(S) /\ Len(x) \in Nat
  BY LenProperties
<1>3. PICK r : r = SubSeq(s, 1, b - 1)
  OBVIOUS
<1>4. PICK m : m = SubSeq(s, 1, b)
  OBVIOUS
<1>5. PICK t : t = SubSeq(s, b + 1, Len(s))
  OBVIOUS
<1>6. r \in Seq(Seq(S)) /\ m \in Seq(Seq(S)) /\ t \in Seq(Seq(S))
  <2>1. \A i \in 1 .. Len(s) : s[i] \in Seq(S)
    BY ElementOfSeq
  <2>2. b - 1 \in Int /\ b + 1 \in Int /\ Len(s) \in Int /\ b \in Int /\ b =< Len(s)
    BY <1>2
  <2>3. /\ \A i \in 1 .. b - 1 : s[i] \in Seq(S)
        /\ \A i \in 1 .. b : s[i] \in Seq(S)
        /\ \A i \in b + 1 .. Len(s) : s[i] \in Seq(S)
    BY <1>2, <2>1
  <2> QED
    BY <1>3, <1>4, <1>5, <2>2, <2>3, SubSeqProperties
<1>7. m = Append(r, x)
  <2>1. 1 \in 1 .. Len(s) /\ b \in 1 .. Len(s)
    BY <1>2
  <2>2. m = r \o <<x>>
    BY <1>3, <1>4, <2>1, SubSeqRecursiveSecond
  <2>3. Append(r, x) = r \o <<x>>
    BY <1>2, <1>6, AppendIsConcat
  <2> QED
    BY <2>2, <2>3
<1>8. s = m \o t
  <2>1. 1 \in 1 .. Len(s) + 1 /\ b \in 1 - 1 .. Len(s) /\ Len(s) \in b .. Len(s)
    BY <1>2
  <2>2. m \o t = SubSeq(s, 1, Len(s))
    BY <1>4, <1>5, <2>1, ConcatAdjacentSubSeq
  <2> QED
    BY <2>2, SubSeqFull
<1>9. PICK f : f = Ext!FlattenSeq(r)
  OBVIOUS
<1>10. PICK h : h = Ext!FlattenSeq(t)
  OBVIOUS
<1>11. PICK g : g = f \o x
  OBVIOUS
<1>12. f \in Seq(S) /\ h \in Seq(S) /\ Len(f) \in Nat /\ Len(h) \in Nat /\ n = Len(f)
  BY <1>3, <1>6, <1>9, <1>10, FlattenType
<1>13. g = Ext!FlattenSeq(m)
  BY <1>2, <1>6, <1>7, <1>9, <1>11, FlattenStep
<1>14. Ext!FlattenSeq(s) = g \o h
  BY <1>6, <1>8, <1>10, <1>13, FlattenConcat
<1>15. /\ g \in Seq(S) /\ Len(g) = n + Len(x)
       /\ \A i \in 1 .. n + Len(x) : g[i] = IF i =< n THEN f[i] ELSE x[i - n]
  <2>1. f \in Seq(S) /\ x \in Seq(S)
    BY <1>2, <1>12
  <2>2. /\ f \o x \in Seq(S) /\ Len(f \o x) = Len(f) + Len(x)
        /\ \A i \in 1 .. Len(f) + Len(x) : (f \o x)[i] = IF i =< Len(f) THEN f[i] ELSE x[i - Len(f)]
    BY <2>1, ConcatProperties
  <2> QED
    BY <1>11, <1>12, <2>2
<1>16. /\ Len(g \o h) = Len(g) + Len(h)
       /\ \A i \in 1 .. Len(g) + Len(h) : (g \o h)[i] = IF i =< Len(g) THEN g[i] ELSE h[i - Len(g)]
  <2>1. g \in Seq(S) /\ h \in Seq(S)
    BY <1>12, <1>15
  <2> QED
    BY <2>1, ConcatProperties
<1>17. ASSUME NEW i \in 1 .. Len(x)
       PROVE  (g \o h)[n + i] = x[i]
  <2>1. n + i \in 1 .. n + Len(x) /\ ~(n + i =< n) /\ (n + i) - n = i
    BY <1>2, <1>12
  <2>2. n + i \in 1 .. Len(g) + Len(h) /\ n + i =< Len(g)
    BY <1>2, <1>12, <1>15
  <2>3. (g \o h)[n + i] = g[n + i]
    BY <1>16, <2>2
  <2> QED
    BY <1>15, <2>1, <2>3
<1>18. b = Len(s) => Len(h) = 0
  <2>1. ASSUME b = Len(s) PROVE t = <<>>
    BY <1>2, <1>5, <2>1, SubSeqEmpty
  <2> QED
    BY <1>10, <2>1, FlattenNone, EmptySeq
<1>19. Len(Ext!FlattenSeq(s)) = (n + Len(x)) + Len(h) /\ Len(Ext!FlattenSeq(m)) = n + Len(x)
  BY <1>13, <1>14, <1>15, <1>16
<1>20. \A i \in 1 .. Len(x) : w[n + i] = x[i]
  BY <1>14, <1>17
<1>21. n \in Nat /\ Len(x) \in Nat /\ Len(h) \in Nat
  BY <1>2, <1>12
<1>22. PICK k : k = Len(w)
  OBVIOUS
<1>23. k \in Nat /\ n + Len(x) =< k /\ (b = Len(s) => n + Len(x) = k)
  <2>1. PICK a : a = Len(x)
    OBVIOUS
  <2>2. PICK c : c = Len(h)
    OBVIOUS
  <2>3. n \in Nat /\ a \in Nat /\ c \in Nat /\ k = (n + a) + c
    BY <1>19, <1>21, <1>22, <2>1, <2>2
  <2>4. k \in Nat /\ n + a =< k /\ (c = 0 => n + a = k)
    BY <2>3
  <2>5. b = Len(s) => c = 0
    BY <1>18, <2>2
  <2> QED
    BY <2>1, <2>4, <2>5
<1> QED
  BY <1>4, <1>19, <1>20, <1>21, <1>22, <1>23

-------------------------------------------------------------------------------
(* What the blocks of a list show *)

Contents == Elements \cup {Gap}
Face(block) == IF block = <<>> THEN <<Gap>> ELSE block
Faces(blocks) == [b \in DOMAIN blocks |-> Face(blocks[b])]
Text(blocks) == Ext!FlattenSeq(Faces(blocks))

\* How many places there are in the first k blocks.
Upto(blocks, k) == Len(Ext!FlattenSeq(SubSeq(Faces(blocks), 1, k)))

\* An empty block shows as one Gap, any other as itself.
LEMMA FaceIs ==
  ASSUME NEW x \in Seq(Elements), NEW y, y = Face(x)
  PROVE  /\ y \in Seq(Contents) /\ Len(y) \in Nat /\ Len(y) > 0
         /\ x = <<>> => y = <<Gap>> /\ Len(y) = 1
         /\ x # <<>> => y = x
<1>1. CASE x = <<>>
  <2>1. y = <<Gap>> /\ <<Gap>> \in Seq(Contents) /\ Len(<<Gap>>) = 1
    BY <1>1 DEF Face, Contents
  <2> QED
    BY <1>1, <2>1
<1>2. CASE x # <<>>
  <2>1. Len(x) \in Nat \ {0}
    BY <1>2, EmptySeq
  <2>2. x \in Seq(Contents)
    BY SeqMonotonic DEF Contents
  <2> QED
    BY <1>2, <2>1, <2>2 DEF Face
<1> QED
  BY <1>1, <1>2

\* A face for each block.
LEMMA FacesAre ==
  ASSUME NEW s \in Seq(Seq(Elements)), NEW f, f = Faces(s)
  PROVE  /\ f \in Seq(Seq(Contents)) /\ Len(f) = Len(s) /\ Len(s) \in Nat
         /\ \A b \in 1 .. Len(s) : f[b] = Face(s[b]) /\ s[b] \in Seq(Elements)
<1>1. Len(s) \in Nat /\ DOMAIN s = 1 .. Len(s) /\ \A b \in 1 .. Len(s) : s[b] \in Seq(Elements)
  BY LenProperties, ElementOfSeq
<1>2. f = [b \in 1 .. Len(s) |-> Face(s[b])]
  BY <1>1 DEF Faces
<1>3. \A b \in 1 .. Len(s) : Face(s[b]) \in Seq(Contents)
  BY <1>1, FaceIs
<1>4. f \in [1 .. Len(s) -> Seq(Contents)]
  BY <1>2, <1>3
<1>5. f \in Seq(Seq(Contents)) /\ Len(f) = Len(s)
  <2>1. PICK n : n = Len(s)
    OBVIOUS
  <2>2. PICK E : E = Seq(Contents)
    OBVIOUS
  <2>3. n \in Nat /\ f \in [1 .. n -> E]
    BY <1>1, <1>4, <2>1, <2>2
  <2>4. f \in Seq(E) /\ Len(f) = n
    BY <2>3
  <2> QED
    BY <2>1, <2>2, <2>4
<1> QED
  BY <1>1, <1>2, <1>5

\* The blocks of a list show elements and Gaps.
LEMMA TextType ==
  ASSUME NEW s \in Seq(Seq(Elements))
  PROVE  Text(s) \in Seq(Contents) /\ Len(Text(s)) \in Nat
<1>1. PICK f : f = Faces(s)
  OBVIOUS
<1>2. f \in Seq(Seq(Contents))
  BY <1>1, FacesAre
<1> QED
  BY <1>1, <1>2, FlattenType DEF Text

\* A chain behind another shows behind it.
LEMMA TextConcat ==
  ASSUME NEW s \in Seq(Seq(Elements)), NEW t \in Seq(Seq(Elements))
  PROVE  Text(s \o t) = Text(s) \o Text(t)
<1>1. PICK f : f = Faces(s)
  OBVIOUS
<1>2. PICK g : g = Faces(t)
  OBVIOUS
<1>3. PICK u : u = s \o t
  OBVIOUS
<1>4. PICK h : h = Faces(u)
  OBVIOUS
<1>5. /\ u \in Seq(Seq(Elements)) /\ Len(u) = Len(s) + Len(t)
      /\ \A b \in 1 .. Len(s) + Len(t) : u[b] = IF b <= Len(s) THEN s[b] ELSE t[b - Len(s)]
  BY <1>3, ConcatProperties
<1>6. /\ f \in Seq(Seq(Contents)) /\ Len(f) = Len(s) /\ Len(s) \in Nat
      /\ \A b \in 1 .. Len(s) : f[b] = Face(s[b])
  BY <1>1, FacesAre
<1>7. /\ g \in Seq(Seq(Contents)) /\ Len(g) = Len(t) /\ Len(t) \in Nat
      /\ \A b \in 1 .. Len(t) : g[b] = Face(t[b])
  BY <1>2, FacesAre
<1>8. /\ h \in Seq(Seq(Contents)) /\ Len(h) = Len(u)
      /\ \A b \in 1 .. Len(u) : h[b] = Face(u[b])
  BY <1>4, <1>5, FacesAre
<1>9. PICK k : k = f \o g
  OBVIOUS
<1>10. /\ k \in Seq(Seq(Contents)) /\ Len(k) = Len(s) + Len(t)
       /\ \A b \in 1 .. Len(s) + Len(t) : k[b] = IF b <= Len(s) THEN f[b] ELSE g[b - Len(s)]
  <2>1. f \in Seq(Seq(Contents)) /\ g \in Seq(Seq(Contents))
    BY <1>6, <1>7
  <2>2. /\ f \o g \in Seq(Seq(Contents)) /\ Len(f \o g) = Len(f) + Len(g)
        /\ \A b \in 1 .. Len(f) + Len(g) : (f \o g)[b] = IF b <= Len(f) THEN f[b] ELSE g[b - Len(f)]
    BY <2>1, ConcatProperties
  <2> QED
    BY <1>6, <1>7, <1>9, <2>2
<1>11. ASSUME NEW b \in 1 .. Len(s) + Len(t)
       PROVE  h[b] = k[b]
  <2>1. CASE b <= Len(s)
    <3>1. b \in 1 .. Len(s)
      BY <1>6, <1>7, <2>1
    <3> QED
      BY <1>5, <1>6, <1>8, <1>10, <2>1, <3>1
  <2>2. CASE ~(b <= Len(s))
    <3>1. b - Len(s) \in 1 .. Len(t)
      BY <1>6, <1>7, <2>2
    <3> QED
      BY <1>5, <1>7, <1>8, <1>10, <2>2, <3>1
  <2> QED
    BY <2>1, <2>2
<1>12. h = k
  BY <1>5, <1>8, <1>10, <1>11, SeqEqual
<1>13. Ext!FlattenSeq(f \o g) = Ext!FlattenSeq(f) \o Ext!FlattenSeq(g)
  BY <1>6, <1>7, FlattenConcat
<1> QED
  BY <1>1, <1>2, <1>3, <1>4, <1>9, <1>12, <1>13 DEF Text

\* One block shows itself.
LEMMA TextOne ==
  ASSUME NEW x \in Seq(Elements)
  PROVE  /\ <<x>> \in Seq(Seq(Elements)) /\ Text(<<x>>) = Face(x)
         /\ Text(<<>>) = <<>>
<1>1. PICK one : one = <<x>>
  OBVIOUS
<1>2. one \in Seq(Seq(Elements)) /\ Len(one) = 1 /\ one[1] = x
  BY <1>1
<1>3. PICK f : f = Faces(one)
  OBVIOUS
<1>4. f \in Seq(Seq(Contents)) /\ Len(f) = 1 /\ f[1] = Face(x)
  BY <1>2, <1>3, FacesAre
<1>5. Face(x) \in Seq(Contents)
  BY FaceIs
<1>6. f = Append(<<>>, Face(x))
  <2>1. PICK y : y = Face(x)
    OBVIOUS
  <2>2. Append(<<>>, y) = <<y>> /\ <<y>> \in Seq(Seq(Contents)) /\ Len(<<y>>) = 1 /\ <<y>>[1] = y
    BY <1>5, <2>1
  <2>3. \A i \in 1 .. 1 : f[i] = <<y>>[i]
    BY <1>4, <2>1, <2>2
  <2>4. f = <<y>>
    BY <1>4, <2>2, <2>3, SeqEqual
  <2> QED
    BY <2>1, <2>2, <2>4
<1>7. Ext!FlattenSeq(f) = Ext!FlattenSeq(<<>>) \o Face(x)
  <2>1. <<>> \in Seq(Seq(Contents))
    BY EmptySeq
  <2> QED
    BY <1>5, <1>6, <2>1, FlattenStep
<1>8. Text(one) = Face(x)
  BY <1>3, <1>5, <1>7, FlattenNone, ConcatEmptySeq DEF Text
<1>9. Faces(<<>>) = <<>>
  BY DEF Faces
<1> QED
  BY <1>1, <1>2, <1>8, <1>9, FlattenNone DEF Text

\* So does a block behind a chain.
LEMMA TextAppend ==
  ASSUME NEW s \in Seq(Seq(Elements)), NEW x \in Seq(Elements), NEW t, t = Append(s, x)
  PROVE  Text(t) = Text(s) \o Face(x)
<1>1. PICK one : one = <<x>>
  OBVIOUS
<1>2. one \in Seq(Seq(Elements)) /\ t = s \o one
  BY <1>1, AppendIsConcat
<1> QED
  BY <1>1, <1>2, TextConcat, TextOne

\* Where the places of a block are.
LEMMA TextAt ==
  ASSUME NEW s \in Seq(Seq(Elements)), NEW b \in 1 .. Len(s), NEW x \in Seq(Contents), x = Face(s[b]),
         NEW w \in Seq(Contents), w = Text(s), NEW n, n = Upto(s, b - 1)
  PROVE  /\ n \in Nat /\ Len(x) \in Nat /\ Len(x) > 0 /\ Len(w) \in Nat
         /\ Upto(s, b) = n + Len(x)
         /\ b = Len(s) => n + Len(x) = Len(w)
         /\ b # Len(s) => n + Len(x) < Len(w)
         /\ \A i \in 1 .. Len(x) : w[n + i] = x[i]
<1>1. PICK f : f = Faces(s)
  OBVIOUS
<1>2. /\ f \in Seq(Seq(Contents)) /\ Len(f) = Len(s) /\ Len(s) \in Nat
      /\ \A c \in 1 .. Len(s) : f[c] = Face(s[c]) /\ s[c] \in Seq(Elements)
  BY <1>1, FacesAre
<1>3. w = Ext!FlattenSeq(f) /\ x = f[b] /\ b \in 1 .. Len(f)
  BY <1>1, <1>2 DEF Text
<1>4. \A k : Upto(s, k) = Len(Ext!FlattenSeq(SubSeq(f, 1, k)))
  BY <1>1 DEF Upto
<1>5. /\ n \in Nat /\ Len(w) \in Nat /\ Len(x) \in Nat
      /\ Upto(s, b) = n + Len(x)
      /\ n + Len(x) =< Len(w)
      /\ b = Len(f) => n + Len(x) = Len(w)
      /\ \A i \in 1 .. Len(x) : w[n + i] = x[i]
  <2>1. n = Len(Ext!FlattenSeq(SubSeq(f, 1, b - 1)))
    BY <1>4
  <2> QED
    BY <1>2, <1>3, <1>4, <2>1, FlattenAt, SMTT(30)
<1>6. Len(x) > 0
  BY <1>2, FaceIs
<1>7. ASSUME b # Len(s)
      PROVE  n + Len(x) < Len(w)
  <2>1. b + 1 \in 1 .. Len(f) /\ (b + 1) - 1 = b /\ b + 1 \in 1 .. Len(s)
    BY <1>2, <1>7
  <2>2. PICK y : y = f[b + 1]
    OBVIOUS
  <2>3. y \in Seq(Contents) /\ Len(y) > 0
    BY <1>2, <2>1, <2>2, FaceIs
  <2>4. PICK m : m = Len(Ext!FlattenSeq(SubSeq(f, 1, (b + 1) - 1)))
    OBVIOUS
  <2>5. m + Len(y) =< Len(w) /\ m \in Nat /\ Len(y) \in Nat
    <3>1. f \in Seq(Seq(Contents)) /\ w = Ext!FlattenSeq(f)
      BY <1>2, <1>3
    <3>2. ASSUME NEW c \in 1 .. Len(f), NEW z \in Seq(Contents), NEW k, z = f[c],
                 k = Len(Ext!FlattenSeq(SubSeq(f, 1, c - 1)))
          PROVE  k + Len(z) =< Len(w) /\ k \in Nat /\ Len(z) \in Nat
      <4>1. k + Len(z) =< Len(w)
        BY <3>1, <3>2, FlattenAt
      <4>2. k \in Nat /\ Len(z) \in Nat
        BY <3>1, <3>2, FlattenAt
      <4> QED
        BY <4>1, <4>2
    <3> QED
      BY <2>1, <2>2, <2>3, <2>4, <3>2, Zenon
  <2>6. m = n + Len(x)
    BY <1>4, <1>5, <2>1, <2>4
  <2> QED
    BY <1>5, <2>3, <2>5, <2>6
<1> QED
  BY <1>2, <1>5, <1>6, <1>7

\* w is what the blocks show, x the face of block b, and n places come before it.
Place(s, b, w, x, n) ==
  /\ s \in Seq(Seq(Elements)) /\ Len(s) \in Nat /\ b \in 1 .. Len(s) /\ s[b] \in Seq(Elements)
  /\ x \in Seq(Contents) /\ x = Face(s[b]) /\ w \in Seq(Contents) /\ w = Text(s) /\ n = Upto(s, b - 1)
  /\ n \in Nat /\ Len(x) \in Nat /\ Len(x) > 0 /\ Len(w) \in Nat
  /\ Upto(s, b) = n + Len(x)
  /\ b = Len(s) => n + Len(x) = Len(w)
  /\ b # Len(s) => n + Len(x) < Len(w)
  /\ \A j \in 1 .. Len(x) : w[n + j] = x[j]

\* Each block has such a place in what a chain shows.
LEMMA PlaceIs ==
  ASSUME NEW s \in Seq(Seq(Elements)), NEW b \in 1 .. Len(s), NEW w, w = Text(s), NEW x, x = Face(s[b]),
         NEW n, n = Upto(s, b - 1)
  PROVE  Place(s, b, w, x, n)
<1>1. s[b] \in Seq(Elements) /\ Len(s) \in Nat
  BY ElementOfSeq, LenProperties
<1>2. x \in Seq(Contents)
  BY <1>1, FaceIs
<1>3. w \in Seq(Contents)
  BY TextType
<1>4. /\ n \in Nat /\ Len(x) \in Nat /\ Len(x) > 0 /\ Len(w) \in Nat
      /\ Upto(s, b) = n + Len(x)
      /\ b = Len(s) => n + Len(x) = Len(w)
      /\ b # Len(s) => n + Len(x) < Len(w)
      /\ \A j \in 1 .. Len(x) : w[n + j] = x[j]
  BY <1>2, <1>3, TextAt
<1> QED
  BY <1>1, <1>2, <1>3, <1>4 DEF Place

\* No place is in no block.
LEMMA UptoNone == ASSUME NEW s PROVE Upto(s, 0) = 0
<1>1. SubSeq(Faces(s), 1, 0) = <<>>
  BY SubSeqEmpty
<1> QED
  BY <1>1, FlattenNone, EmptySeq DEF Upto

\* What comes behind does not matter.
LEMMA UptoSame ==
  ASSUME NEW s \in Seq(Seq(Elements)), NEW t \in Seq(Seq(Elements)),
         NEW k \in Nat, k =< Len(s), k =< Len(t), \A b \in 1 .. k : s[b] = t[b]
  PROVE  Upto(s, k) = Upto(t, k)
<1>1. PICK f : f = Faces(s)
  OBVIOUS
<1>2. PICK g : g = Faces(t)
  OBVIOUS
<1>3. /\ f \in Seq(Seq(Contents)) /\ Len(f) = Len(s) /\ Len(s) \in Nat
      /\ \A b \in 1 .. Len(s) : f[b] = Face(s[b])
  BY <1>1, FacesAre
<1>4. /\ g \in Seq(Seq(Contents)) /\ Len(g) = Len(t) /\ Len(t) \in Nat
      /\ \A b \in 1 .. Len(t) : g[b] = Face(t[b])
  BY <1>2, FacesAre
<1>5. \A b \in 1 .. k : b \in 1 .. Len(s) /\ b \in 1 .. Len(t)
  BY <1>3, <1>4
<1>6. \A b \in 1 .. k : f[b] = g[b]
  BY <1>3, <1>4, <1>5
<1>7. SubSeq(f, 1, k) = SubSeq(g, 1, k)
  BY <1>6
<1> QED
  BY <1>1, <1>2, <1>7 DEF Upto

\* A sequence that is not empty, and what it is with another last element.
LEMMA FrontAndLast ==
  ASSUME NEW S, NEW s \in Seq(S), NEW n \in Nat, n = Len(s), n > 0
  PROVE  SubSeq(s, 1, n - 1) \in Seq(S) /\ s = Append(SubSeq(s, 1, n - 1), s[n])
<1>1. PICK r \in Seq(S), x \in S : s = Append(r, x)
  BY SequenceEmptyOrAppend, EmptySeq
<1>2. Len(r) = n - 1 /\ s[n] = x /\ Len(r) \in Nat
  BY <1>1, AppendProperties, LenProperties
<1>3. SubSeq(s, 1, n - 1) = r
  <2>1. PICK k : k = Len(r)
    OBVIOUS
  <2>2. k \in Nat /\ k = n - 1 /\ \A i \in 1 .. k : Append(r, x)[i] = r[i]
    BY <1>1, <1>2, <2>1, AppendProperties
  <2>3. PICK q : q = SubSeq(s, 1, k)
    OBVIOUS
  <2>4. /\ q \in Seq(S) /\ Len(q) = k
        /\ \A i \in 1 .. k : q[i] = s[i]
    <3>1. \A i \in 1 .. k : s[i] \in S
      <4>1. \A i \in 1 .. k : i \in 1 .. Len(s)
        BY <2>2
      <4> QED
        BY <4>1, ElementOfSeq
    <3> QED
      BY <2>2, <2>3, <3>1
  <2>5. \A i \in 1 .. k : q[i] = r[i]
    BY <1>1, <2>2, <2>4, Zenon
  <2>6. q = r
    BY <1>1, <2>1, <2>4, <2>5, SeqEqual
  <2> QED
    BY <2>2, <2>3, <2>6
<1> QED
  BY <1>1, <1>2, <1>3

\* A sequence with another last element is its front with that element.
LEMMA LastReplaced ==
  ASSUME NEW S, NEW s \in Seq(S), NEW n \in Nat, n = Len(s), n > 0, NEW x \in S
  PROVE  [s EXCEPT ![n] = x] = Append(SubSeq(s, 1, n - 1), x)
<1>1. PICK r : r = SubSeq(s, 1, n - 1)
  OBVIOUS
<1>2. PICK y : y = s[n]
  OBVIOUS
<1>3. y \in S
  <2>1. n \in 1 .. Len(s)
    OBVIOUS
  <2> QED
    BY <1>2, <2>1, ElementOfSeq
<1>4. r \in Seq(S) /\ s = Append(r, y)
  <2>1. SubSeq(s, 1, n - 1) \in Seq(S) /\ s = Append(SubSeq(s, 1, n - 1), s[n])
    BY FrontAndLast
  <2> QED
    BY <1>1, <1>2, <2>1, Zenon
<1>5. PICK k : k = Len(r)
  OBVIOUS
<1>6. k \in Nat /\ n = k + 1 /\ \A i \in 1 .. k : s[i] = r[i]
  <2>1. k \in Nat
    BY <1>4, <1>5, LenProperties
  <2>2. Len(Append(r, y)) = k + 1 /\ \A i \in 1 .. k : Append(r, y)[i] = r[i]
    BY <1>3, <1>4, <1>5, AppendProperties
  <2> QED
    BY <1>4, <2>1, <2>2, Zenon
<1>7. PICK d : d = [s EXCEPT ![n] = x]
  OBVIOUS
<1>8. PICK u : u = Append(r, x)
  OBVIOUS
<1>9. d \in Seq(S) /\ Len(d) = n /\ \A i \in 1 .. n : d[i] = IF i = n THEN x ELSE s[i]
  BY <1>7, ExceptSeq
<1>10. u \in Seq(S) /\ Len(u) = k + 1 /\ (\A i \in 1 .. k : u[i] = r[i]) /\ u[k + 1] = x
  BY <1>4, <1>5, <1>8, AppendProperties
<1>11. ASSUME NEW i \in 1 .. n
       PROVE  d[i] = u[i]
  <2>1. CASE i = n
    <3>1. d[i] = x
      BY <1>9, <2>1
    <3>2. u[i] = x
      BY <1>6, <1>10, <2>1
    <3> QED
      BY <3>1, <3>2
  <2>2. CASE i # n
    <3>1. i \in 1 .. k
      BY <1>6, <2>2
    <3>2. d[i] = s[i]
      BY <1>9, <2>2
    <3> QED
      BY <1>6, <1>10, <3>1, <3>2
  <2> QED
    BY <2>1, <2>2
<1>12. d = u
  BY <1>6, <1>9, <1>10, <1>11, SeqEqual
<1> QED
  BY <1>1, <1>7, <1>8, <1>12

\* yf_list_add puts an element behind the others, or in the place of a Gap.
LEMMA TextAdded ==
  ASSUME NEW list, Chain(list), list.blocks # <<>>, NEW e \in Elements, NEW m, m = Added(list, e),
         NEW w, w = Text(list.blocks)
  PROVE  /\ w # <<>>
         /\ Text(m.blocks) = Append(IF w[Len(w)] = Gap THEN SubSeq(w, 1, Len(w) - 1) ELSE w, e)
<1>1. PICK s : s = list.blocks
  OBVIOUS
<1>2. PICK n : n = Len(s)
  OBVIOUS
<1>3. /\ s \in Seq(Seq(Elements)) /\ n \in Nat /\ n > 0 /\ list.last = n
      /\ \A b \in 1 .. n : s[b] \in Seq(Elements)
  BY <1>1, <1>2, ChainHas, EmptySeq DEF Chain
<1>4. PICK t : t = s[n]
  OBVIOUS
<1>5. t \in Seq(Elements) /\ n \in 1 .. n
  BY <1>3, <1>4
<1>6. PICK r : r = SubSeq(s, 1, n - 1)
  OBVIOUS
<1>7. r \in Seq(Seq(Elements)) /\ s = Append(r, t)
  BY <1>2, <1>3, <1>4, <1>6, FrontAndLast
<1>8. PICK v : v = Text(r)
  OBVIOUS
<1>9. PICK y : y = Face(t)
  OBVIOUS
<1>10. v \in Seq(Contents) /\ y \in Seq(Contents) /\ w = v \o y /\ Len(y) \in Nat /\ Len(y) > 0
  <2>1. w = Text(s)
    BY <1>1
  <2>2. w = v \o y
    BY <1>5, <1>7, <1>8, <1>9, <2>1, TextAppend
  <2> QED
    BY <1>5, <1>7, <1>8, <1>9, <2>2, TextType, FaceIs
<1>11. /\ w \in Seq(Contents) /\ Len(w) = Len(v) + Len(y) /\ Len(v) \in Nat /\ w[Len(w)] = y[Len(y)]
       /\ w # <<>>
  <2>1. /\ v \o y \in Seq(Contents) /\ Len(v \o y) = Len(v) + Len(y)
        /\ \A i \in 1 .. Len(v) + Len(y) : (v \o y)[i] = IF i <= Len(v) THEN v[i] ELSE y[i - Len(v)]
    BY <1>10, ConcatProperties
  <2>2. Len(v) \in Nat
    BY <1>10, LenProperties
  <2>3. Len(v) + Len(y) \in 1 .. Len(v) + Len(y) /\ ~(Len(v) + Len(y) <= Len(v)) /\ (Len(v) + Len(y)) - Len(v) = Len(y)
    BY <1>10, <2>2
  <2>4. Len(w) # 0
    BY <1>10, <2>1, <2>2
  <2>5. w # <<>>
    BY <2>4, EmptySeq
  <2> QED
    BY <1>10, <2>1, <2>2, <2>3, <2>5
<1>12. e \in Contents /\ Gap \notin Elements
  BY ListAssumption DEF Contents
<1>13. PICK one : one = <<e>>
  OBVIOUS
<1>14. one \in Seq(Elements) /\ one \in Seq(Contents) /\ one # <<>> /\ Face(one) = one
  BY <1>12, <1>13 DEF Face
<1>15. CASE t = <<>>
  <2>1. y = <<Gap>> /\ Len(y) = 1 /\ y[Len(y)] = Gap
    BY <1>9, <1>15 DEF Face
  <2>2. Len(t) # BlockSize
    BY <1>15, EmptySeq, ListAssumption
  <2>3. Append(t, e) = one
    BY <1>13, <1>15
  <2>4. m.blocks = [s EXCEPT ![n] = one]
    BY <1>1, <1>3, <1>4, <2>2, <2>3 DEF Added, Chain
  <2>5. m.blocks = Append(r, one)
    BY <1>2, <1>3, <1>6, <1>14, <2>4, LastReplaced
  <2>6. Text(m.blocks) = v \o one
    BY <1>7, <1>8, <1>14, <2>5, TextAppend
  <2>7. SubSeq(w, 1, Len(w) - 1) = v
    <3>1. w = Append(v, Gap)
      <4>1. Gap \in Contents
        BY DEF Contents
      <4> QED
        BY <1>10, <2>1, <4>1, AppendIsConcat
    <3>2. Len(w) - 1 = Len(v)
      BY <1>11, <2>1
    <3>3. Gap \in Contents /\ v \in Seq(Contents)
      BY <1>10 DEF Contents
    <3> QED
      BY <3>1, <3>2, <3>3
  <2>8. Append(v, e) = v \o one
    BY <1>10, <1>12, <1>13, AppendIsConcat
  <2> QED
    BY <1>11, <2>1, <2>6, <2>7, <2>8
<1>16. CASE t # <<>>
  <2>1. y = t /\ Len(t) \in Nat /\ Len(t) > 0
    BY <1>5, <1>9, <1>10, <1>16 DEF Face
  <2>2. y[Len(y)] \in Elements
    <3>1. Len(t) \in 1 .. Len(t)
      BY <2>1
    <3> QED
      BY <1>5, <2>1, <3>1, ElementOfSeq
  <2>3. w[Len(w)] # Gap
    BY <1>11, <1>12, <2>2
  <2>4. Append(w, e) = w \o one
    BY <1>11, <1>12, <1>13, AppendIsConcat
  <2>5. CASE Len(t) = BlockSize
    <3>1. SubSeq(s, 1, n) = s
      BY <1>2, <1>3
    <3>2. m.blocks = Append(s, one)
      BY <1>1, <1>3, <1>4, <1>13, <2>5, <3>1 DEF Added
    <3>3. Text(m.blocks) = Text(s) \o one
      BY <1>3, <1>14, <3>2, TextAppend
    <3> QED
      BY <1>1, <1>11, <2>3, <2>4, <3>3
  <2>6. CASE Len(t) # BlockSize
    <3>1. PICK u : u = Append(t, e)
      OBVIOUS
    <3>2. u \in Seq(Elements) /\ u # <<>> /\ u = t \o one
      BY <1>5, <1>13, <3>1, AppendProperties, AppendIsConcat
    <3>3. m.blocks = [s EXCEPT ![n] = u]
      BY <1>1, <1>3, <1>4, <2>6, <3>1 DEF Added, Chain
    <3>4. m.blocks = Append(r, u)
      <4>1. s \in Seq(Seq(Elements)) /\ n \in Nat /\ n > 0 /\ u \in Seq(Elements)
        BY <1>3, <3>2
      <4>2. [s EXCEPT ![n] = u] = Append(SubSeq(s, 1, n - 1), u)
        BY <1>2, <4>1, LastReplaced
      <4> QED
        BY <1>6, <3>3, <4>2
    <3>5. Text(m.blocks) = v \o u
      <4>1. Face(u) = u
        BY <3>2 DEF Face
      <4> QED
        BY <1>7, <1>8, <3>2, <3>4, <4>1, TextAppend
    <3>6. (v \o y) \o one = v \o (y \o one)
      BY <1>10, <1>14, ConcatAssociative
    <3> QED
      BY <1>10, <1>11, <2>1, <2>3, <2>4, <3>2, <3>5, <3>6
  <2> QED
    BY <2>5, <2>6
<1> QED
  BY <1>15, <1>16

-------------------------------------------------------------------------------
(* The cursor *)

\* A cursor that may be used is at a place of its list, or behind the last one.
Pointing ==
  usable =>
    /\ cursor \in [list : Lists, block : Nat, index : Nat]
    /\ cursor.list \in alive
    /\ cursor.block \in 1 .. Len(Blocks(cursor.list))
    /\ \/ cursor.index < Len(Face(Here))
       \/ cursor.block = Len(Blocks(cursor.list)) /\ cursor.index = Len(Face(Here))

\* The sequences and the place of the cursor, before and after a call.
LEMMA ValueIs ==
  /\ Value = [l \in alive |-> Text(Blocks(l))]
  /\ Value' = [l \in alive' |-> Text(lists'[l].blocks)]
  /\ Before = cursor.index + Upto(Blocks(cursor.list), cursor.block - 1)
  /\ Before' = cursor'.index + Upto(lists'[cursor'.list].blocks, cursor'.block - 1)
<1>1. \A l : Shown(l) = Faces(Blocks(l))
  BY DEF Shown, Faces, Face
<1>2. \A l : Shown(l)' = Faces(lists'[l].blocks)
  BY DEF Shown, Faces, Face, Blocks
<1>3. Value = [l \in alive |-> Text(Blocks(l))]
  BY <1>1 DEF Value, Text
<1>4. Value' = [l \in alive' |-> Text(lists'[l].blocks)]
  BY <1>2 DEF Value, Text
<1>5. Before = cursor.index + Upto(Blocks(cursor.list), cursor.block - 1)
  BY <1>1 DEF Before, Upto
<1>6. Before' = cursor'.index + Upto(lists'[cursor'.list].blocks, cursor'.block - 1)
  BY DEF Before, Upto, Shown, Faces, Face, Blocks
<1> QED
  BY <1>3, <1>4, <1>5, <1>6

\* Where the cursor is among the places of its list.
LEMMA PointsAt ==
  ASSUME IInv, Pointing, usable, NEW s, s = Blocks(cursor.list), NEW b, b = cursor.block, NEW i, i = cursor.index,
         NEW w, w = Text(s), NEW x, x = Face(s[b]), NEW n, n = Upto(s, b - 1)
  PROVE  /\ Place(s, b, w, x, n)
         /\ i \in Nat /\ (i < Len(x) \/ (b = Len(s) /\ i = Len(x)))
         /\ Before = n + i
         /\ Passed <=> n + i >= Len(w)
<1>1. cursor.list \in Lists /\ i \in Nat /\ b \in 1 .. Len(s) /\ (i < Len(x) \/ (b = Len(s) /\ i = Len(x)))
  BY DEF Pointing, Here
<1>2. s \in Seq(Seq(Elements))
  BY <1>1, ChainHas DEF IInv, Types, Blocks
<1>3. Place(s, b, w, x, n)
  BY <1>1, <1>2, PlaceIs
<1>4. /\ Len(s) \in Nat /\ n \in Nat /\ Len(w) \in Nat /\ Len(x) \in Nat /\ Len(x) > 0 /\ s[b] \in Seq(Elements)
      /\ b = Len(s) => n + Len(x) = Len(w)
      /\ b # Len(s) => n + Len(x) < Len(w)
  BY <1>3 DEF Place
<1>5. Before = n + i
  BY <1>1, <1>4, ValueIs
<1>6. Passed <=> n + i >= Len(w)
  <2>1. Passed <=> i > 0 /\ i >= Len(s[b]) /\ b = Len(s)
    BY DEF Passed, Here
  <2>2. CASE s[b] = <<>>
    <3>1. Len(s[b]) = 0 /\ Len(x) = 1
      BY <1>4, <2>2, FaceIs, EmptySeq
    <3> QED
      BY <1>1, <1>4, <2>1, <3>1
  <2>3. CASE s[b] # <<>>
    <3>1. s[b] = x
      BY <1>4, <2>3, FaceIs
    <3> QED
      BY <1>1, <1>4, <2>1, <3>1
  <2> QED
    BY <2>2, <2>3
<1> QED
  BY <1>1, <1>3, <1>5, <1>6

\* Nothing that the cursor sees has changed.
LEMMA Untouched ==
  ASSUME Pointing, UNCHANGED cursor, usable' <=> usable,
         usable => cursor.list \in alive' /\ lists'[cursor.list] = lists[cursor.list]
  PROVE  Pointing' /\ Position' = Position
<1>1. CASE ~usable
  BY <1>1 DEF Pointing, Position
<1>2. CASE usable
  <2>1. cursor' = cursor /\ usable' /\ lists'[cursor.list].blocks = lists[cursor.list].blocks
    BY <1>2
  <2>2. Before' = Before
    BY <2>1, ValueIs DEF Blocks
  <2>3. Pointing'
    BY <1>2, <2>1 DEF Pointing, Here, Blocks
  <2> QED
    BY <1>2, <2>1, <2>2, <2>3 DEF Position
<1> QED
  BY <1>1, <1>2

\* A list is as before up to its last block, which may have got more.
Extends(s, d) ==
  /\ d \in Seq(Seq(Elements)) /\ Len(d) >= Len(s)
  /\ \A b \in 1 .. Len(s) : IF b < Len(s) THEN d[b] = s[b] ELSE Len(Face(d[b])) >= Len(Face(s[b]))

\* A cursor that is not at the end of a list that grows stays where it is.
LEMMA Grown ==
  ASSUME IInv, Pointing, usable, ~Passed, UNCHANGED cursor, usable', cursor.list \in alive',
         Extends(Blocks(cursor.list), lists'[cursor.list].blocks)
  PROVE  Pointing' /\ Position' = Position
<1>1. PICK s : s = Blocks(cursor.list)
  OBVIOUS
<1>2. PICK d : d = lists'[cursor.list].blocks
  OBVIOUS
<1>3. PICK b : b = cursor.block
  OBVIOUS
<1>4. PICK i : i = cursor.index
  OBVIOUS
<1>5. PICK n : n = Upto(s, b - 1)
  OBVIOUS
<1>6. PICK x : x = Face(s[b])
  OBVIOUS
<1>7. PICK w : w = Text(s)
  OBVIOUS
<1>8. /\ Place(s, b, w, x, n)
      /\ i \in Nat /\ (i < Len(x) \/ (b = Len(s) /\ i = Len(x)))
      /\ Before = n + i
      /\ Passed <=> n + i >= Len(w)
  BY <1>1, <1>3, <1>4, <1>5, <1>6, <1>7, PointsAt
<1>9. /\ s \in Seq(Seq(Elements)) /\ Len(s) \in Nat /\ b \in 1 .. Len(s) /\ i \in Nat /\ n \in Nat
      /\ Len(x) \in Nat /\ Len(w) \in Nat
      /\ i < Len(x) \/ (b = Len(s) /\ i = Len(x))
      /\ b = Len(s) => n + Len(x) = Len(w)
      /\ ~(n + i >= Len(w))
  BY <1>8, Zenon DEF Place
<1>10. i < Len(x)
  BY <1>9
<1>11. d \in Seq(Seq(Elements)) /\ Len(d) \in Nat /\ Len(d) >= Len(s)
  BY <1>1, <1>2, LenProperties DEF Extends
<1>12. PICK y : y = Face(d[b])
  OBVIOUS
<1>13. b \in 1 .. Len(d) /\ i < Len(y)
  <2>1. b \in 1 .. Len(d)
    BY <1>9, <1>11
  <2>2. d[b] \in Seq(Elements)
    BY <1>11, <2>1, ElementOfSeq
  <2>3. Len(y) \in Nat
    BY <1>12, <2>2, FaceIs
  <2>4. Len(y) >= Len(x)
    <3>1. CASE b < Len(s)
      <4>1. d[b] = s[b]
        BY <1>1, <1>2, <1>9, <3>1 DEF Extends
      <4> QED
        BY <1>6, <1>9, <1>12, <4>1
    <3>2. CASE ~(b < Len(s))
      BY <1>1, <1>2, <1>6, <1>9, <1>12, <3>2 DEF Extends
    <3> QED
      BY <3>1, <3>2
  <2> QED
    BY <1>9, <1>10, <2>1, <2>3, <2>4
<1>14. Upto(d, b - 1) = n
  <2>1. b - 1 \in Nat /\ b - 1 =< Len(s) /\ b - 1 =< Len(d)
    BY <1>9, <1>11
  <2>2. \A c \in 1 .. b - 1 : s[c] = d[c]
    <3>1. \A c \in 1 .. b - 1 : c \in 1 .. Len(s) /\ c < Len(s)
      BY <1>9
    <3> QED
      BY <1>1, <1>2, <3>1 DEF Extends
  <2> QED
    BY <1>5, <1>9, <1>11, <2>1, <2>2, UptoSame
<1>15. Before' = Before
  <2>1. Before' = cursor'.index + Upto(lists'[cursor'.list].blocks, cursor'.block - 1)
    BY ValueIs
  <2>2. Before' = i + Upto(d, b - 1)
    BY <1>2, <1>3, <1>4, <2>1
  <2>3. Before' = i + n
    BY <1>14, <2>2
  <2> QED
    <3>1. i + n = n + i
      BY <1>9
    <3>2. Before = n + i
      BY <1>8, Zenon
    <3> QED
      BY <2>3, <3>1, <3>2, Zenon
<1>16. Position' = Position
  BY <1>15 DEF Position
<1>17. Pointing'
  <2>1. cursor \in [list : Lists, block : Nat, index : Nat]
    BY DEF Pointing
  <2>2. cursor'.block \in 1 .. Len(lists'[cursor'.list].blocks)
        /\ cursor'.index < Len(Face(lists'[cursor'.list].blocks[cursor'.block]))
    BY <1>2, <1>3, <1>4, <1>12, <1>13
  <2> QED
    BY <2>1, <2>2 DEF Pointing, Here, Blocks
<1> QED
  BY <1>16, <1>17

-------------------------------------------------------------------------------
(* What the calls do to the sequences *)

\* The first place shows whether the list is empty.
LEMMA TextBegins ==
  ASSUME NEW s \in Seq(Seq(Elements)), NEW w, w = Text(s)
  PROVE  /\ w \in Seq(Contents) /\ Len(w) \in Nat
         /\ w = <<>> <=> s = <<>>
         /\ s # <<>> => (Head(w) = Gap <=> s[1] = <<>>)
<1>1. w \in Seq(Contents) /\ Len(w) \in Nat
  BY TextType
<1>2. CASE s = <<>>
  <2>1. <<>> \in Seq(Elements)
    BY EmptySeq
  <2>2. Text(<<>>) = <<>>
    BY <2>1, TextOne
  <2> QED
    BY <1>1, <1>2, <2>2
<1>3. CASE s # <<>>
  <2>1. PICK x : x = Face(s[1])
    OBVIOUS
  <2>2. 1 \in 1 .. Len(s) /\ 1 - 1 = 0
    BY <1>3, EmptySeq, LenProperties
  <2>3. Upto(s, 1 - 1) = 0
    BY <2>2, UptoNone
  <2>4. Place(s, 1, w, x, 0)
    BY <2>1, <2>2, <2>3, PlaceIs
  <2>5. /\ Len(x) \in Nat /\ Len(x) > 0 /\ s[1] \in Seq(Elements)
        /\ 1 = Len(s) => 0 + Len(x) = Len(w)
        /\ 1 # Len(s) => 0 + Len(x) < Len(w)
        /\ \A j \in 1 .. Len(x) : w[0 + j] = x[j]
    BY <2>4 DEF Place
  <2>6. Len(w) > 0 /\ w[1] = x[1]
    BY <1>1, <2>5
  <2>7. w # <<>> /\ Head(w) = x[1]
    BY <1>1, <2>6, EmptySeq, HeadTailProperties
  <2>8. x[1] = Gap <=> s[1] = <<>>
    <3>1. CASE s[1] = <<>>
      BY <2>1, <3>1 DEF Face
    <3>2. CASE s[1] # <<>>
      <4>1. x = s[1] /\ 1 \in 1 .. Len(s[1])
        BY <2>1, <2>5, <3>2 DEF Face
      <4> QED
        BY <2>5, <3>2, <4>1, ElementOfSeq, ListAssumption
    <3> QED
      BY <3>1, <3>2
  <2> QED
    BY <1>1, <1>3, <2>7, <2>8
<1> QED
  BY <1>2, <1>3

\* The sequence of a list that is alive.
LEMMA ValueAt ==
  ASSUME Types, NEW l \in alive, NEW s, s = Blocks(l), NEW w, w = Text(s)
  PROVE  /\ l \in Lists /\ s = lists[l].blocks /\ Chain(lists[l])
         /\ s \in Seq(Seq(Elements)) /\ w \in Seq(Contents) /\ Len(w) \in Nat
         /\ l \in DOMAIN Value /\ Value[l] = w
         /\ w = <<>> <=> IsNull(l)
<1>1. l \in Lists /\ Chain(lists[l]) /\ s = lists[l].blocks
  BY DEF Types, Blocks
<1>2. s \in Seq(Seq(Elements))
  BY <1>1, ChainHas
<1>3. w \in Seq(Contents) /\ Len(w) \in Nat /\ (w = <<>> <=> s = <<>>)
  BY <1>2, TextBegins
<1>4. l \in DOMAIN Value /\ Value[l] = w
  BY ValueIs
<1> QED
  BY <1>1, <1>2, <1>3, <1>4 DEF IsNull

\* The lists that have a sequence are those the client initialised.
LEMMA AliveIs == Abstract!Alive = alive
BY DEF Abstract!Alive, Value

\* The sequence of a list has the elements that its blocks have.
LEMMA SameElements ==
  ASSUME Types, NEW l \in alive
  PROVE  Abstract!In(l) = In(l)
<1>1. PICK s : s = Blocks(l)
  OBVIOUS
<1>2. PICK w : w = Text(s)
  OBVIOUS
<1>3. s \in Seq(Seq(Elements)) /\ Value[l] = w
  BY <1>1, <1>2, ValueAt
<1>4. PICK f : f = Faces(s)
  OBVIOUS
<1>5. /\ f \in Seq(Seq(Contents)) /\ Len(f) = Len(s)
      /\ \A b \in 1 .. Len(s) : f[b] = Face(s[b]) /\ s[b] \in Seq(Elements)
  BY <1>3, <1>4, FacesAre
<1>6. w = Ext!FlattenSeq(f)
  BY <1>2, <1>4 DEF Text
<1>7. \A e : e \in Range(w) <=> \E b \in 1 .. Len(s) : e \in Range(f[b])
  BY <1>5, <1>6, FlattenRange
<1>8. ASSUME NEW b \in 1 .. Len(s), NEW e
      PROVE  e \in Range(f[b]) /\ e # Gap <=> \E i \in DOMAIN s[b] : s[b][i] = e
  <2>1. PICK x : x = s[b]
    OBVIOUS
  <2>2. x \in Seq(Elements) /\ f[b] = Face(x)
    BY <1>5, <2>1
  <2>3. \A i \in DOMAIN x : x[i] \in Elements
    <3>1. DOMAIN x = 1 .. Len(x)
      BY <2>2, LenProperties
    <3> QED
      BY <2>2, <3>1, ElementOfSeq
  <2>4. CASE x = <<>>
    <3>1. f[b] = <<Gap>> /\ DOMAIN x = {} /\ DOMAIN <<Gap>> = {1} /\ <<Gap>>[1] = Gap
      BY <2>2, <2>4 DEF Face
    <3> QED
      BY <2>1, <3>1 DEF Range
  <2>5. CASE x # <<>>
    <3>1. f[b] = x
      BY <2>2, <2>5 DEF Face
    <3>2. Gap \notin Elements
      BY ListAssumption
    <3> QED
      BY <2>1, <2>3, <3>1, <3>2 DEF Range
  <2> QED
    BY <2>4, <2>5
<1>9. \A e : e \in In(l) <=> \E b \in 1 .. Len(s) : \E i \in DOMAIN s[b] : s[b][i] = e
  <2>1. DOMAIN s = 1 .. Len(s)
    BY <1>3, LenProperties
  <2>2. \A e : e \in In(l) <=> \E b \in DOMAIN Blocks(l) : \E i \in DOMAIN Blocks(l)[b] : Blocks(l)[b][i] = e
    BY DEF In
  <2> QED
    BY <1>1, <2>1, <2>2, Zenon
<1>10. \A e : e \in In(l) <=> e \in Range(w) /\ e # Gap
  BY <1>7, <1>8, <1>9, Zenon
<1>11. \A e : e \in Abstract!In(l) <=> e \in Range(w) /\ e # Gap
  BY <1>3 DEF Abstract!In, Abstract!Range, Range
<1> QED
  BY <1>10, <1>11

\* A cursor is behind its list when yf_list_next has returned -1.
LEMMA AtEndIs ==
  ASSUME IInv, Pointing, NEW l \in alive
  PROVE  Abstract!AtEnd(l) <=> Grows(l)
<1>1. CASE ~usable
  BY <1>1 DEF Abstract!AtEnd, Position, Grows, Loses
<1>2. CASE usable
  <2>1. PICK at : at = <<cursor.list, Before + 1>>
    OBVIOUS
  <2>2. Position = at /\ at # <<>> /\ at[1] = cursor.list /\ at[2] = Before + 1
    BY <1>2, <2>1 DEF Position
  <2>3. CASE cursor.list # l
    BY <2>2, <2>3 DEF Abstract!AtEnd, Grows, Loses
  <2>4. CASE cursor.list = l
    <3>1. PICK s : s = Blocks(cursor.list)
      OBVIOUS
    <3>2. PICK b : b = cursor.block
      OBVIOUS
    <3>3. PICK i : i = cursor.index
      OBVIOUS
    <3>4. PICK w : w = Text(s)
      OBVIOUS
    <3>5. PICK x : x = Face(s[b])
      OBVIOUS
    <3>6. PICK n : n = Upto(s, b - 1)
      OBVIOUS
    <3>7. Place(s, b, w, x, n) /\ i \in Nat /\ Before = n + i /\ (Passed <=> n + i >= Len(w))
      BY <1>2, <3>1, <3>2, <3>3, <3>4, <3>5, <3>6, PointsAt
    <3>8. n \in Nat /\ Len(w) \in Nat
      BY <3>7 DEF Place
    <3>9. Value[l] = w
      BY <2>4, <3>1, <3>4, ValueAt DEF IInv
    <3>10. Abstract!AtEnd(l) <=> (n + i) + 1 > Len(w)
      BY <2>2, <2>4, <3>7, <3>9 DEF Abstract!AtEnd
    <3>11. (n + i) + 1 > Len(w) <=> n + i >= Len(w)
      BY <3>7, <3>8
    <3> QED
      BY <1>2, <2>4, <3>7, <3>10, <3>11 DEF Grows, Loses
  <2> QED
    BY <2>3, <2>4
<1> QED
  BY <1>1, <1>2

\* A cursor is where it was as long as it may be used.
LEMMA CursorKept ==
  ASSUME IInv, Pointing, UNCHANGED cursor, usable' => usable,
         usable' => /\ cursor.list \in alive'
                    /\ \/ lists'[cursor.list] = lists[cursor.list]
                       \/ ~Passed /\ Extends(Blocks(cursor.list), lists'[cursor.list].blocks)
  PROVE  Pointing' /\ Position' = IF usable' THEN Position ELSE <<>>
<1>1. CASE ~usable'
  BY <1>1 DEF Pointing, Position
<1>2. CASE usable' /\ lists'[cursor.list] = lists[cursor.list]
  BY <1>2, Untouched
<1>3. CASE usable' /\ ~Passed /\ Extends(Blocks(cursor.list), lists'[cursor.list].blocks)
  BY <1>3, Grown
<1> QED
  BY <1>1, <1>2, <1>3

\* What yf_list_add leaves of the blocks.
LEMMA AddedExtends ==
  ASSUME NEW list, Chain(list), list.blocks # <<>>, NEW e \in Elements, NEW m, m = Added(list, e)
  PROVE  Extends(list.blocks, m.blocks)
<1>1. PICK s : s = list.blocks
  OBVIOUS
<1>2. PICK n : n = Len(s)
  OBVIOUS
<1>3. /\ s \in Seq(Seq(Elements)) /\ n \in Nat /\ n > 0 /\ list.last = n /\ Chain(m)
      /\ \A b \in 1 .. n : s[b] \in Seq(Elements)
  <2>1. Chain(m)
    BY AddedGains
  <2>2. s \in Seq(Seq(Elements)) /\ n \in Nat /\ n > 0 /\ list.last = n
    BY <1>1, <1>2, ChainHas, EmptySeq DEF Chain
  <2>3. \A b \in 1 .. n : s[b] \in Seq(Elements)
    BY <1>1, <1>2, ChainHas
  <2> QED
    BY <2>1, <2>2, <2>3
<1>4. PICK d : d = m.blocks
  OBVIOUS
<1>5. d \in Seq(Seq(Elements))
  BY <1>3, <1>4, ChainHas
<1>6. PICK t : t = s[n]
  OBVIOUS
<1>7. t \in Seq(Elements) /\ Len(t) \in Nat
  BY <1>3, <1>6, LenProperties
<1>8. \A b \in 1 .. n : Face(s[b]) = Face(s[b]) /\ Len(Face(s[b])) \in Nat
  BY <1>3, FaceIs
<1>9. CASE Len(t) = BlockSize
  <2>1. SubSeq(s, 1, n) = s
    BY <1>2, <1>3
  <2>2. d = Append(s, <<e>>)
    BY <1>1, <1>3, <1>4, <1>6, <1>9, <2>1 DEF Added
  <2>3. <<e>> \in Seq(Elements)
    OBVIOUS
  <2>4. Len(d) = n + 1 /\ \A b \in 1 .. n : d[b] = s[b]
    BY <1>2, <1>3, <2>2, <2>3, AppendProperties
  <2>5. Len(d) >= n /\ \A b \in 1 .. n : d[b] = s[b] /\ Len(Face(d[b])) >= Len(Face(s[b]))
    BY <1>3, <1>8, <2>4
  <2> QED
    BY <1>1, <1>2, <1>4, <1>5, <2>5 DEF Extends
<1>10. CASE Len(t) # BlockSize
  <2>1. PICK u : u = Append(t, e)
    OBVIOUS
  <2>2. u \in Seq(Elements) /\ Len(u) = Len(t) + 1
    BY <1>7, <2>1, AppendProperties
  <2>3. d = [s EXCEPT ![n] = u]
    BY <1>1, <1>3, <1>4, <1>6, <1>10, <2>1 DEF Added, Chain
  <2>4. Len(d) = n /\ \A b \in 1 .. n : d[b] = IF b = n THEN u ELSE s[b]
    BY <1>2, <1>3, <2>2, <2>3, ExceptSeq
  <2>5. Len(Face(u)) >= Len(Face(t))
    <3>1. u # <<>> /\ Face(u) = u
      BY <1>7, <2>2, EmptySeq DEF Face
    <3>2. PICK y : y = Face(t)
      OBVIOUS
    <3>3. (t = <<>> => Len(y) = 1) /\ (t # <<>> => y = t)
      BY <1>7, <3>2, FaceIs
    <3>4. t = <<>> => Len(t) = 0
      BY EmptySeq
    <3>5. Len(y) =< Len(u)
      <4>1. CASE t = <<>>
        <5>1. Len(y) = 1 /\ Len(t) = 0
          BY <3>3, <3>4, <4>1
        <5>2. PICK k : k = Len(t)
          OBVIOUS
        <5>3. Len(u) = k + 1 /\ k = 0
          BY <2>2, <5>1, <5>2
        <5> QED
          BY <5>1, <5>3
      <4>2. CASE t # <<>>
        BY <1>7, <2>2, <3>3, <4>2
      <4> QED
        BY <4>1, <4>2
    <3>6. Len(y) \in Nat /\ Len(u) \in Nat
      BY <1>7, <2>2, <3>2, FaceIs
    <3> QED
      BY <3>1, <3>2, <3>5, <3>6
  <2>6. Len(d) >= n /\ \A b \in 1 .. n : IF b < n THEN d[b] = s[b] ELSE Len(Face(d[b])) >= Len(Face(s[b]))
    <3>1. \A b \in 1 .. n : b < n <=> b # n
      BY <1>3
    <3> QED
      BY <1>3, <1>6, <2>4, <2>5, <3>1
  <2> QED
    BY <1>1, <1>2, <1>4, <1>5, <2>6 DEF Extends
<1> QED
  BY <1>9, <1>10

\* yf_list_init
LEMMA CreateImplements ==
  ASSUME IInv, Pointing, NEW l \in Lists, ListCreate(l)
  PROVE  Pointing' /\ Abstract!Create(l)
<1>1. /\ Types /\ l \notin alive /\ lists' = [lists EXCEPT ![l] = NewBlock] /\ alive' = alive \cup {l}
      /\ returned' = <<0>> /\ UNCHANGED <<freed, cursor, usable>>
  BY DEF IInv, ListCreate
<1>2. \A k \in Lists : lists'[k] = IF k = l THEN NewBlock ELSE lists[k]
  BY <1>1 DEF Types
<1>3. Text(NewBlock.blocks) = <<Gap>>
  <2>1. <<>> \in Seq(Elements)
    BY EmptySeq
  <2> QED
    BY <2>1, TextOne DEF NewBlock, Face
<1>4. Value' = [x \in alive \cup {l} |-> IF x = l THEN <<Gap>> ELSE Value[x]]
  <2>1. \A x \in alive \cup {l} : Text(lists'[x].blocks) = IF x = l THEN <<Gap>> ELSE Text(Blocks(x))
    BY <1>1, <1>2, <1>3 DEF Types, Blocks
  <2>2. \A x \in alive : Value[x] = Text(Blocks(x))
    BY ValueIs
  <2>3. Value' = [x \in alive \cup {l} |-> Text(lists'[x].blocks)]
    BY <1>1, ValueIs
  <2> QED
    BY <2>1, <2>2, <2>3
<1>5. Pointing' /\ Position' = Position
  <2>1. usable => cursor.list \in alive' /\ lists'[cursor.list] = lists[cursor.list]
    BY <1>1, <1>2 DEF Pointing, Types
  <2> QED
    BY <1>1, <2>1, Untouched
<1> QED
  BY <1>1, <1>4, <1>5, AliveIs DEF Abstract!Create

\* yf_list_add
LEMMA AddImplements ==
  ASSUME IInv, Pointing, NEW l \in Lists, NEW e \in Elements, ListAdd(l, e)
  PROVE  Pointing' /\ Abstract!Add(l, e)
<1>1. PICK list : list = IF IsNull(l) THEN NewBlock ELSE lists[l]
  OBVIOUS
<1>2. PICK m : m = Added(list, e)
  OBVIOUS
<1>3. /\ Types /\ Accounted /\ l \in alive /\ e \in own
      /\ lists' = [lists EXCEPT ![l] = m]
      /\ usable' = (usable /\ ~Grows(l))
      /\ returned' = <<0>> /\ UNCHANGED <<alive, freed, cursor>>
  BY <1>1, <1>2 DEF IInv, ListAdd
<1>4. \A k \in Lists : lists'[k] = IF k = l THEN m ELSE lists[k]
  BY <1>3 DEF Types
<1>5. Chain(list) /\ list.blocks # <<>>
  BY <1>1, <1>3, EmptyLists DEF IsNull, Blocks, Types
<1>6. PICK w : w = Value[l]
  OBVIOUS
<1>7. w = Text(Blocks(l)) /\ w \in Seq(Contents) /\ (w = <<>> <=> IsNull(l)) /\ l \in DOMAIN Value
  BY <1>3, <1>6, ValueAt
<1>8. Text(m.blocks) = Append(IF w # <<>> /\ Abstract!Last(w) = Gap THEN Abstract!Front(w) ELSE w, e)
  <2>1. PICK v : v = Text(list.blocks)
    OBVIOUS
  <2>2. v # <<>> /\ Text(m.blocks) = Append(IF v[Len(v)] = Gap THEN SubSeq(v, 1, Len(v) - 1) ELSE v, e)
    BY <1>2, <1>5, <2>1, TextAdded
  <2>3. CASE IsNull(l)
    <3>1. <<>> \in Seq(Elements)
      BY EmptySeq
    <3>2. v = <<Gap>>
      BY <1>1, <2>1, <2>3, <3>1, TextOne DEF NewBlock, Face
    <3>3. v[Len(v)] = Gap /\ SubSeq(v, 1, Len(v) - 1) = <<>>
      <4>1. Len(v) = 1 /\ v[1] = Gap /\ SubSeq(v, 1, 0) = <<>>
        BY <3>2, SubSeqEmpty
      <4> QED
        BY <4>1
    <3> QED
      BY <1>7, <2>2, <2>3, <3>3
  <2>4. CASE ~IsNull(l)
    <3>1. v = w
      BY <1>1, <1>7, <2>1, <2>4 DEF Blocks
    <3> QED
      BY <2>2, <3>1 DEF Abstract!Last, Abstract!Front
  <2> QED
    BY <2>3, <2>4
<1>9. Value' = [Value EXCEPT ![l] = Append(IF @ # <<>> /\ Abstract!Last(@) = Gap THEN Abstract!Front(@) ELSE @, e)]
  <2>1. PICK z : z = Text(m.blocks)
    OBVIOUS
  <2>2. \A x \in alive : Text(lists'[x].blocks) = IF x = l THEN z ELSE Text(Blocks(x))
    BY <1>3, <1>4, <2>1 DEF Types, Blocks
  <2>3. Value' = [x \in alive |-> Text(lists'[x].blocks)] /\ Value = [x \in alive |-> Text(Blocks(x))]
    BY <1>3, ValueIs
  <2>4. Value' = [Value EXCEPT ![l] = z]
    BY <1>3, <2>2, <2>3
  <2> QED
    BY <1>6, <1>8, <2>1, <2>4
<1>10. Pointing' /\ Position' = IF usable' THEN Position ELSE <<>>
  <2>1. ASSUME usable'
        PROVE  /\ cursor.list \in alive'
               /\ \/ lists'[cursor.list] = lists[cursor.list]
                  \/ ~Passed /\ Extends(Blocks(cursor.list), lists'[cursor.list].blocks)
    <3>1. usable /\ ~Grows(l) /\ cursor.list \in alive /\ cursor.list \in Lists
      BY <1>3, <2>1 DEF Pointing
    <3>2. CASE cursor.list # l
      BY <1>3, <1>4, <3>1, <3>2
    <3>3. CASE cursor.list = l
      <4>1. ~Passed
        BY <3>1, <3>3 DEF Grows, Loses
      <4>2. ~IsNull(l)
        <5>1. cursor.block \in 1 .. Len(Blocks(l))
          BY <3>1, <3>3 DEF Pointing
        <5> QED
          BY <5>1, EmptySeq DEF IsNull
      <4>3. list.blocks = Blocks(l) /\ lists'[l] = m
        BY <1>1, <1>4, <4>2 DEF Blocks
      <4> QED
        BY <1>2, <1>3, <1>5, <3>3, <4>1, <4>3, AddedExtends
    <3> QED
      BY <3>2, <3>3
  <2>2. usable' => usable
    BY <1>3
  <2> QED
    BY <1>3, <2>1, <2>2, CursorKept
<1>11. IF Abstract!AtEnd(l) THEN Abstract!Lose({l}) ELSE Position' = Position
  <2>1. CASE Grows(l)
    <3>1. Abstract!AtEnd(l) /\ ~usable'
      BY <1>3, <2>1, AtEndIs
    <3>2. Position' = <<>> /\ Position # <<>> /\ Position[1] = l
      BY <1>10, <3>1 DEF Abstract!AtEnd
    <3> QED
      BY <3>1, <3>2 DEF Abstract!Lose
  <2>2. CASE ~Grows(l)
    <3>1. ~Abstract!AtEnd(l) /\ (usable' <=> usable)
      BY <1>3, <2>2, AtEndIs
    <3>2. Position' = Position
      BY <1>10, <3>1 DEF Position
    <3> QED
      BY <3>1, <3>2
  <2> QED
    BY <2>1, <2>2
<1>12. e \notin freed /\ \A x \in alive : e \notin Abstract!In(x)
  <2>1. e \notin freed /\ ~Holding(e)
    BY <1>3 DEF Accounted
  <2>2. ASSUME NEW x \in alive PROVE e \notin Abstract!In(x)
    <3>1. Abstract!In(x) = In(x) /\ x \in Lists
      BY <1>3, SameElements DEF Types
    <3>2. e \notin In(x)
      BY <1>3, <2>1, <3>1, InIs DEF Holding
    <3> QED
      BY <3>1, <3>2
  <2> QED
    BY <2>1, <2>2
<1> QED
  BY <1>3, <1>9, <1>10, <1>11, <1>12, AliveIs DEF Abstract!Add

\* yf_list_merge
LEMMA MergeImplements ==
  ASSUME IInv, Pointing, NEW dst \in Lists, NEW src \in Lists, ListMerge(dst, src)
  PROVE  Pointing' /\ Abstract!Merge(dst, src)
<1>1. Types /\ UNCHANGED <<alive, freed, cursor>> /\ dst \in alive /\ src \in alive
  BY DEF ListMerge, IInv
<1>2. Value[src] = <<>> <=> IsNull(src)
  BY <1>1, ValueAt
<1>3. CASE dst = src \/ IsNull(src)
  <2>1. returned' = <<IF dst = src THEN -1 ELSE 0>> /\ UNCHANGED <<lists, usable>>
    BY <1>3 DEF ListMerge
  <2>2. Pointing' /\ Position' = Position
    <3>1. usable => cursor.list \in alive' /\ lists'[cursor.list] = lists[cursor.list]
      BY <1>1, <2>1 DEF Pointing
    <3> QED
      BY <1>1, <2>1, <3>1, Untouched
  <2>3. Value' = Value
    BY <1>1, <2>1 DEF Value, Shown, Blocks
  <2> QED
    BY <1>1, <1>2, <1>3, <2>1, <2>2, <2>3, AliveIs DEF Abstract!Merge
<1>4. CASE ~(dst = src \/ IsNull(src))
  <2>1. PICK m : m = Merged(lists[dst], lists[src])
    OBVIOUS
  <2>2. /\ lists' = [lists EXCEPT ![dst] = m, ![src] = NoBlocks]
        /\ usable' = (usable /\ ~Loses(src) /\ ~Grows(dst)) /\ returned' = <<0>>
    BY <1>4, <2>1 DEF ListMerge
  <2>3. \A k \in Lists : lists'[k] = IF k = src THEN NoBlocks ELSE IF k = dst THEN m ELSE lists[k]
    BY <1>1, <1>4, <2>2 DEF Types
  <2>4. PICK s : s = Blocks(dst)
    OBVIOUS
  <2>5. PICK t : t = Blocks(src)
    OBVIOUS
  <2>6. /\ s \in Seq(Seq(Elements)) /\ t \in Seq(Seq(Elements))
        /\ Value[dst] = Text(s) /\ Value[src] = Text(t)
    BY <1>1, <2>4, <2>5, ValueAt
  <2>7. m.blocks = s \o t
    BY <2>1, <2>4, <2>5 DEF Merged, Blocks
  <2>8. Text(m.blocks) = Value[dst] \o Value[src] /\ Text(NoBlocks.blocks) = <<>>
    <3>1. <<>> \in Seq(Elements)
      BY EmptySeq
    <3> QED
      BY <2>6, <2>7, <3>1, TextConcat, TextOne DEF NoBlocks
  <2>9. Value' = [Value EXCEPT ![dst] = @ \o Value[src], ![src] = <<>>]
    <3>1. PICK z : z = Value[dst] \o Value[src]
      OBVIOUS
    <3>2. \A x \in alive : Text(lists'[x].blocks) = IF x = src THEN <<>> ELSE IF x = dst THEN z ELSE Text(Blocks(x))
      BY <1>1, <2>3, <2>8, <3>1 DEF Types, Blocks
    <3>3. Value' = [x \in alive |-> Text(lists'[x].blocks)] /\ Value = [x \in alive |-> Text(Blocks(x))]
      BY <1>1, ValueIs
    <3>4. Value' = [Value EXCEPT ![dst] = z, ![src] = <<>>]
      BY <1>1, <1>4, <3>2, <3>3
    <3> QED
      BY <3>1, <3>4
  <2>10. Pointing' /\ Position' = IF usable' THEN Position ELSE <<>>
    <3>1. ASSUME usable'
          PROVE  /\ cursor.list \in alive'
                 /\ \/ lists'[cursor.list] = lists[cursor.list]
                    \/ ~Passed /\ Extends(Blocks(cursor.list), lists'[cursor.list].blocks)
      <4>1. usable /\ ~Grows(dst) /\ cursor.list # src /\ cursor.list \in alive /\ cursor.list \in Lists
        BY <2>2, <3>1 DEF Pointing, Loses
      <4>2. CASE cursor.list # dst
        BY <1>1, <2>3, <4>1, <4>2
      <4>3. CASE cursor.list = dst
        <5>1. ~Passed /\ lists'[cursor.list].blocks = s \o t
          BY <1>4, <2>3, <2>7, <4>1, <4>3 DEF Grows, Loses
        <5>2. PICK d : d = s \o t
          OBVIOUS
        <5>3. /\ d \in Seq(Seq(Elements)) /\ Len(d) = Len(s) + Len(t) /\ Len(s) \in Nat /\ Len(t) \in Nat
              /\ \A b \in 1 .. Len(s) + Len(t) : d[b] = IF b <= Len(s) THEN s[b] ELSE t[b - Len(s)]
          BY <2>6, <5>2, ConcatProperties, LenProperties
        <5>4. \A b \in 1 .. Len(s) : d[b] = s[b]
          <6>1. \A b \in 1 .. Len(s) : b \in 1 .. Len(s) + Len(t) /\ b <= Len(s)
            BY <5>3
          <6> QED
            BY <5>3, <6>1
        <5>5. \A b \in 1 .. Len(s) : Len(Face(s[b])) \in Nat
          BY <2>6, FaceIs, ElementOfSeq
        <5>6. Extends(s, d)
          BY <5>3, <5>4, <5>5 DEF Extends
        <5> QED
          BY <1>1, <2>4, <4>1, <4>3, <5>1, <5>2, <5>6
      <4> QED
        BY <4>2, <4>3
    <3>2. usable' => usable
      BY <2>2
    <3> QED
      BY <1>1, <3>1, <3>2, CursorKept
  <2>11. Abstract!Lose(IF Abstract!AtEnd(dst) THEN {dst, src} ELSE {src})
    <3>1. Abstract!AtEnd(dst) <=> Grows(dst)
      BY <1>1, AtEndIs
    <3>2. usable => Position # <<>> /\ Position[1] = cursor.list
      BY DEF Position
    <3>3. ~usable => Position = <<>>
      BY DEF Position
    <3>4. CASE ~usable
      BY <2>2, <2>10, <3>3, <3>4 DEF Abstract!Lose
    <3>5. CASE usable /\ Grows(dst)
      <4>1. cursor.list = dst
        BY <3>5 DEF Grows, Loses
      <4> QED
        BY <2>2, <2>10, <3>1, <3>2, <3>5, <4>1 DEF Abstract!Lose
    <3>6. CASE usable /\ ~Grows(dst)
      <4>1. usable' <=> cursor.list # src
        BY <2>2, <3>6 DEF Loses
      <4> QED
        BY <2>10, <3>1, <3>2, <3>6, <4>1 DEF Abstract!Lose
    <3> QED
      BY <3>4, <3>5, <3>6
  <2> QED
    BY <1>1, <1>2, <1>4, <2>2, <2>9, <2>10, <2>11, AliveIs DEF Abstract!Merge
<1> QED
  BY <1>3, <1>4

\* yf_list_destroy
LEMMA DestroyImplements ==
  ASSUME IInv, Pointing, NEW l \in Lists, NEW free \in BOOLEAN, ListDestroy(l, free)
  PROVE  Pointing' /\ Abstract!Destroy(l, free)
<1>1. /\ Types /\ l \in alive /\ lists' = [lists EXCEPT ![l] = NoBlocks] /\ alive' = alive \ {l}
      /\ freed' = (IF free THEN freed \cup In(l) ELSE freed)
      /\ usable' = (usable /\ ~Loses(l)) /\ returned' = <<>> /\ UNCHANGED cursor
  BY DEF IInv, ListDestroy
<1>2. \A k \in Lists : lists'[k] = IF k = l THEN NoBlocks ELSE lists[k]
  BY <1>1 DEF Types
<1>3. Value' = Abstract!Restrict(Value, alive \ {l})
  <2>1. \A x \in alive \ {l} : Text(lists'[x].blocks) = Text(Blocks(x))
    BY <1>1, <1>2 DEF Types, Blocks
  <2>2. \A x \in alive : Value[x] = Text(Blocks(x))
    BY ValueIs
  <2>3. Value' = [x \in alive \ {l} |-> Text(lists'[x].blocks)]
    BY <1>1, ValueIs
  <2> QED
    BY <2>1, <2>2, <2>3 DEF Abstract!Restrict
<1>4. Pointing' /\ Position' = IF usable' THEN Position ELSE <<>>
  <2>1. usable' => cursor.list \in alive' /\ lists'[cursor.list] = lists[cursor.list]
    BY <1>1, <1>2 DEF Pointing, Loses, Types
  <2>2. usable' => usable
    BY <1>1
  <2> QED
    BY <1>1, <2>1, <2>2, CursorKept
<1>5. Abstract!Lose({l})
  <2>1. CASE usable
    <3>1. Position # <<>> /\ Position[1] = cursor.list /\ (usable' <=> cursor.list # l)
      BY <1>1, <2>1 DEF Position, Loses
    <3> QED
      BY <1>4, <3>1 DEF Abstract!Lose
  <2>2. CASE ~usable
    <3>1. Position = <<>> /\ ~usable'
      BY <1>1, <2>2 DEF Position
    <3> QED
      BY <1>4, <3>1 DEF Abstract!Lose
  <2> QED
    BY <2>1, <2>2
<1>6. Abstract!In(l) = In(l)
  BY <1>1, SameElements
<1> QED
  BY <1>1, <1>3, <1>4, <1>5, <1>6, AliveIs DEF Abstract!Destroy

\* yf_list_reset_cursor
LEMMA ResetImplements ==
  ASSUME IInv, NEW l \in Lists, ListReset(l)
  PROVE  Pointing' /\ Abstract!Reset(l)
<1>1. /\ Types /\ l \in alive /\ ~IsNull(l) /\ cursor' = AtBlock(l, 1, 0) /\ usable' = TRUE
      /\ returned' = <<>> /\ UNCHANGED <<lists, alive, freed>>
  BY DEF IInv, ListReset
<1>2. PICK s : s = Blocks(l)
  OBVIOUS
<1>3. s \in Seq(Seq(Elements)) /\ s # <<>> /\ (Value[l] = <<>> <=> IsNull(l)) /\ lists'[l].blocks = s
  BY <1>1, <1>2, ValueAt DEF IsNull, Blocks
<1>4. 1 \in 1 .. Len(s) /\ Len(s) \in Nat
  BY <1>3, EmptySeq, LenProperties
<1>5. cursor'.list = l /\ cursor'.block = 1 /\ cursor'.index = 0 /\ cursor' \in [list : Lists, block : Nat, index : Nat]
  BY <1>1 DEF AtBlock
<1>6. Pointing'
  <2>1. 0 < Len(Face(s[1]))
    BY <1>3, <1>4, ElementOfSeq, FaceIs
  <2>2. Blocks(cursor.list)' = s /\ Here' = s[1]
    BY <1>3, <1>5 DEF Here, Blocks
  <2> QED
    BY <1>1, <1>4, <1>5, <2>1, <2>2 DEF Pointing
<1>7. Before' = 0
  <2>1. Before' = cursor'.index + Upto(lists'[cursor'.list].blocks, cursor'.block - 1)
    BY ValueIs
  <2>2. Before' = 0 + Upto(s, 0)
    BY <1>3, <1>5, <2>1
  <2> QED
    BY <2>2, UptoNone
<1>8. Position' = <<l, 1>>
  BY <1>1, <1>5, <1>7 DEF Position
<1>9. Value' = Value
  BY <1>1 DEF Value, Shown, Blocks
<1> QED
  BY <1>1, <1>3, <1>6, <1>8, <1>9, AliveIs DEF Abstract!Reset

\* What a cursor has under it, and where yf_list_next takes it.
LEMMA StepTo ==
  ASSUME NEW s, NEW b, NEW w, NEW x, NEW n, Place(s, b, w, x, n), NEW i \in Nat, i < Len(x),
         NEW l, s = Blocks(l), NEW d, d = Step(AtBlock(l, b, i))
  PROVE  /\ d.c \in [list : {l}, block : Nat, index : Nat] /\ d.c.block \in 1 .. Len(s)
         /\ d.c.index + Upto(s, d.c.block - 1) = (n + i) + 1
         /\ d.ret = IF (n + i) + 1 < Len(w) THEN 0 ELSE -1
         /\ \/ d.c.index < Len(Face(s[d.c.block]))
            \/ d.c.block = Len(s) /\ d.c.index = Len(Face(s[d.c.block]))
<1>1. /\ s \in Seq(Seq(Elements)) /\ Len(s) \in Nat /\ b \in 1 .. Len(s) /\ s[b] \in Seq(Elements)
      /\ x = Face(s[b]) /\ n = Upto(s, b - 1) /\ n \in Nat /\ Len(x) \in Nat /\ Len(x) > 0 /\ Len(w) \in Nat
      /\ Upto(s, b) = n + Len(x)
      /\ b = Len(s) => n + Len(x) = Len(w)
      /\ b # Len(s) => n + Len(x) < Len(w)
  BY DEF Place
<1>2. PICK c : c = AtBlock(l, b, i)
  OBVIOUS
<1>3. c.list = l /\ c.block = b /\ c.index = i /\ [c EXCEPT !.index = @ + 1] = AtBlock(l, b, i + 1)
  BY <1>2 DEF AtBlock
<1>4. Len(s[b]) \in Nat /\ (i + 1 < Len(s[b]) <=> i + 1 < Len(x))
  <2>1. s[b] = <<>> => Len(s[b]) = 0 /\ Len(x) = 1
    BY <1>1, FaceIs, EmptySeq
  <2>2. s[b] # <<>> => s[b] = x
    BY <1>1, FaceIs
  <2>3. Len(s[b]) \in Nat
    BY <1>1, LenProperties
  <2>4. CASE s[b] = <<>>
    <3>1. Len(s[b]) = 0 /\ Len(x) = 1 /\ ~(i + 1 < 0) /\ ~(i + 1 < 1)
      BY <2>1, <2>4
    <3> QED
      BY <2>3, <3>1
  <2>5. CASE s[b] # <<>>
    BY <2>2, <2>3, <2>5
  <2> QED
    BY <2>4, <2>5
<1>5. d = IF i + 1 < Len(x) THEN [c |-> AtBlock(l, b, i + 1), ret |-> 0]
          ELSE IF b = Len(s) THEN [c |-> AtBlock(l, b, i + 1), ret |-> -1]
          ELSE [c |-> AtBlock(l, b + 1, 0), ret |-> 0]
  BY <1>2, <1>3, <1>4 DEF Step
<1>6. CASE i + 1 < Len(x)
  <2>1. d.c.list = l /\ d.c.block = b /\ d.c.index = i + 1 /\ d.ret = 0 /\ d.c \in [list : {l}, block : Nat, index : Nat]
    <3>1. d = [c |-> AtBlock(l, b, i + 1), ret |-> 0]
      BY <1>5, <1>6, Zenon
    <3>2. d.c = [list |-> l, block |-> b, index |-> i + 1] /\ d.ret = 0
      BY <3>1 DEF AtBlock
    <3>3. b \in Nat /\ i + 1 \in Nat
      BY <1>1
    <3> QED
      BY <3>2, <3>3
  <2>2. (n + i) + 1 < Len(w) /\ (i + 1) + n = (n + i) + 1
    <3>1. PICK k, q : k = Len(x) /\ q = Len(w)
      OBVIOUS
    <3>2. k \in Nat /\ q \in Nat /\ n \in Nat /\ i + 1 < k /\ n + k =< q
      BY <1>1, <1>6, <3>1
    <3> QED
      BY <3>1, <3>2
  <2> QED
    BY <1>1, <1>6, <2>1, <2>2
<1>7. CASE ~(i + 1 < Len(x)) /\ b = Len(s)
  <2>1. d.c.list = l /\ d.c.block = b /\ d.c.index = i + 1 /\ d.ret = -1 /\ d.c \in [list : {l}, block : Nat, index : Nat]
    <3>1. d = [c |-> AtBlock(l, b, i + 1), ret |-> -1]
      BY <1>5, <1>7, Zenon
    <3>2. d.c = [list |-> l, block |-> b, index |-> i + 1] /\ d.ret = -1
      BY <3>1 DEF AtBlock
    <3>3. b \in Nat /\ i + 1 \in Nat
      BY <1>1
    <3> QED
      BY <3>2, <3>3
  <2>2. ~((n + i) + 1 < Len(w)) /\ (i + 1) + n = (n + i) + 1 /\ i + 1 = Len(x)
    BY <1>1, <1>7
  <2> QED
    BY <1>1, <1>7, <2>1, <2>2
<1>8. CASE ~(i + 1 < Len(x)) /\ b # Len(s)
  <2>1. d.c.list = l /\ d.c.block = b + 1 /\ d.c.index = 0 /\ d.ret = 0 /\ d.c \in [list : {l}, block : Nat, index : Nat]
    <3>1. d = [c |-> AtBlock(l, b + 1, 0), ret |-> 0]
      BY <1>5, <1>8, Zenon
    <3>2. d.c = [list |-> l, block |-> b + 1, index |-> 0] /\ d.ret = 0
      BY <3>1 DEF AtBlock
    <3>3. b + 1 \in Nat /\ 0 \in Nat
      BY <1>1
    <3> QED
      BY <3>2, <3>3
  <2>2. i + 1 = Len(x) /\ (n + i) + 1 = n + Len(x) /\ b + 1 \in 1 .. Len(s) /\ (b + 1) - 1 = b
    BY <1>1, <1>8
  <2>3. (n + i) + 1 < Len(w)
    BY <1>1, <1>8, <2>2
  <2>4. 0 < Len(Face(s[b + 1]))
    BY <1>1, <2>2, ElementOfSeq, FaceIs
  <2>5. 0 + Upto(s, (b + 1) - 1) = (n + i) + 1
    BY <1>1, <2>2
  <2> QED
    BY <2>1, <2>2, <2>3, <2>4, <2>5
<1> QED
  BY <1>6, <1>7, <1>8

\* yf_list_next
LEMMA NextImplements ==
  ASSUME IInv, Pointing, ListNext
  PROVE  Pointing' /\ Abstract!Move
<1>1. /\ usable /\ ~Passed /\ cursor' = Step(cursor).c /\ returned' = <<Step(cursor).ret>>
      /\ UNCHANGED <<lists, alive, freed, usable>>
  BY DEF ListNext
<1>2. PICK l : l = cursor.list
  OBVIOUS
<1>3. PICK s : s = Blocks(cursor.list)
  OBVIOUS
<1>4. PICK b : b = cursor.block
  OBVIOUS
<1>5. PICK i : i = cursor.index
  OBVIOUS
<1>6. PICK w : w = Text(s)
  OBVIOUS
<1>7. PICK x : x = Face(s[b])
  OBVIOUS
<1>8. PICK n : n = Upto(s, b - 1)
  OBVIOUS
<1>9. /\ Place(s, b, w, x, n) /\ i \in Nat /\ (i < Len(x) \/ (b = Len(s) /\ i = Len(x)))
      /\ Before = n + i /\ (Passed <=> n + i >= Len(w))
  BY <1>1, <1>3, <1>4, <1>5, <1>6, <1>7, <1>8, PointsAt
<1>10. n \in Nat /\ Len(w) \in Nat /\ Len(x) \in Nat /\ (b = Len(s) => n + Len(x) = Len(w))
  BY <1>9 DEF Place
<1>11. n + i < Len(w) /\ i < Len(x)
  BY <1>1, <1>9, <1>10
<1>12. PICK d : d = Step(AtBlock(l, b, i))
  OBVIOUS
<1>13. cursor = AtBlock(l, b, i) /\ l \in alive /\ l \in Lists
  BY <1>1, <1>2, <1>4, <1>5 DEF Pointing, AtBlock
<1>14. /\ d.c \in [list : {l}, block : Nat, index : Nat] /\ d.c.block \in 1 .. Len(s)
       /\ d.c.index + Upto(s, d.c.block - 1) = (n + i) + 1
       /\ d.ret = IF (n + i) + 1 < Len(w) THEN 0 ELSE -1
       /\ \/ d.c.index < Len(Face(s[d.c.block]))
          \/ d.c.block = Len(s) /\ d.c.index = Len(Face(s[d.c.block]))
  BY <1>2, <1>3, <1>9, <1>11, <1>12, StepTo
<1>15. cursor' = d.c /\ returned' = <<d.ret>> /\ d.c.list = l /\ lists'[l].blocks = s
  BY <1>1, <1>2, <1>3, <1>12, <1>13, <1>14 DEF Blocks
<1>16. Pointing'
  <2>1. Blocks(cursor.list)' = s /\ Here' = s[d.c.block]
    BY <1>15 DEF Here, Blocks
  <2> QED
    BY <1>1, <1>13, <1>14, <1>15, <2>1 DEF Pointing
<1>17. Before' = (n + i) + 1
  <2>1. Before' = cursor'.index + Upto(lists'[cursor'.list].blocks, cursor'.block - 1)
    BY ValueIs
  <2> QED
    BY <1>14, <1>15, <2>1
<1>18. PICK at : at = <<l, (n + i) + 1>>
  OBVIOUS
<1>19. Position = at /\ Position' = <<l, ((n + i) + 1) + 1>> /\ at # <<>> /\ at[1] = l /\ at[2] = (n + i) + 1
  BY <1>1, <1>2, <1>9, <1>15, <1>17, <1>18 DEF Position
<1>20. Value' = Value /\ Value[l] = w
  <2>1. Value' = Value
    BY <1>1 DEF Value, Shown, Blocks
  <2> QED
    BY <1>2, <1>3, <1>6, <1>13, <2>1, ValueAt DEF IInv
<1>21. Position' = [at EXCEPT ![2] = @ + 1] /\ Position'[2] = ((n + i) + 1) + 1
  BY <1>18, <1>19
<1>22. (n + i) + 1 <= Len(w) /\ (((n + i) + 1) + 1 <= Len(w) <=> (n + i) + 1 < Len(w))
  BY <1>9, <1>10, <1>11
<1>23. returned' = <<IF Position'[2] <= Len(Value[Position[1]]) THEN 0 ELSE -1>>
  BY <1>14, <1>15, <1>19, <1>20, <1>21, <1>22
<1> QED
  BY <1>1, <1>16, <1>19, <1>20, <1>21, <1>22, <1>23 DEF Abstract!Move

\* yf_list_get
LEMMA GetImplements ==
  ASSUME IInv, Pointing, ListGet
  PROVE  Pointing' /\ Abstract!Get
<1>1. /\ usable /\ UNCHANGED <<lists, alive, freed, cursor, usable>>
      /\ returned' = IF cursor.index >= Len(Here) THEN <<-1>> ELSE <<0, Here[cursor.index + 1]>>
  BY DEF ListGet
<1>2. PICK l : l = cursor.list
  OBVIOUS
<1>3. PICK s : s = Blocks(cursor.list)
  OBVIOUS
<1>4. PICK b : b = cursor.block
  OBVIOUS
<1>5. PICK i : i = cursor.index
  OBVIOUS
<1>6. PICK w : w = Text(s)
  OBVIOUS
<1>7. PICK x : x = Face(s[b])
  OBVIOUS
<1>8. PICK n : n = Upto(s, b - 1)
  OBVIOUS
<1>9. /\ Place(s, b, w, x, n) /\ i \in Nat /\ (i < Len(x) \/ (b = Len(s) /\ i = Len(x)))
      /\ Before = n + i /\ (Passed <=> n + i >= Len(w))
  BY <1>1, <1>3, <1>4, <1>5, <1>6, <1>7, <1>8, PointsAt
<1>10. /\ n \in Nat /\ Len(w) \in Nat /\ Len(x) \in Nat /\ (b = Len(s) => n + Len(x) = Len(w))
       /\ s[b] \in Seq(Elements) /\ x = Face(s[b])
       /\ \A j \in 1 .. Len(x) : w[n + j] = x[j]
  BY <1>9 DEF Place
<1>11. l \in alive /\ l \in Lists
  BY <1>1, <1>2 DEF Pointing
<1>12. PICK at : at = <<l, (n + i) + 1>>
  OBVIOUS
<1>13. Position = at /\ at # <<>> /\ at[1] = l /\ at[2] = (n + i) + 1 /\ Value[l] = w
  <2>1. Value[l] = w
    BY <1>2, <1>3, <1>6, <1>11, ValueAt DEF IInv
  <2> QED
    BY <1>1, <1>2, <1>9, <1>12, <2>1 DEF Position
<1>14. Abstract!AtEnd(l) <=> Passed
  BY <1>1, <1>2, <1>11, AtEndIs DEF Grows, Loses
<1>15. returned' = IF i >= Len(s[b]) THEN <<-1>> ELSE <<0, s[b][i + 1]>>
  BY <1>1, <1>3, <1>4, <1>5 DEF Here
<1>16. Len(s[b]) \in Nat /\ (s[b] = <<>> => Len(s[b]) = 0)
  BY <1>10, LenProperties, EmptySeq
<1>17. returned' = IF Abstract!AtEnd(l) \/ w[(n + i) + 1] = Gap THEN <<-1>> ELSE <<0, w[(n + i) + 1]>>
  <2>1. CASE Passed
    <3>1. i >= Len(s[b])
      BY <1>3, <1>4, <1>5, <2>1 DEF Passed, Here
    <3> QED
      BY <1>14, <1>15, <2>1, <3>1
  <2>2. CASE ~Passed
    <3>1. i < Len(x)
      BY <1>9, <1>10, <2>2
    <3>2. i + 1 \in 1 .. Len(x) /\ n + (i + 1) = (n + i) + 1
      BY <1>9, <1>10, <3>1
    <3>3. w[(n + i) + 1] = x[i + 1]
      BY <1>10, <3>2
    <3>4. CASE s[b] = <<>>
      <4>1. x = <<Gap>> /\ Len(x) = 1
        BY <1>10, <3>4, FaceIs
      <4>2. i = 0 /\ x[i + 1] = Gap
        BY <1>9, <3>1, <4>1
      <4>3. i >= Len(s[b])
        BY <1>16, <3>4, <4>2
      <4> QED
        BY <1>15, <3>3, <4>2, <4>3
    <3>5. CASE s[b] # <<>>
      <4>1. x = s[b]
        BY <1>10, <3>5, FaceIs
      <4>2. x[i + 1] \in Elements
        BY <1>10, <3>2, <4>1, ElementOfSeq
      <4>3. x[i + 1] # Gap
        BY <4>2, ListAssumption
      <4>4. ~(i >= Len(s[b]))
        BY <1>9, <1>10, <3>1, <4>1
      <4> QED
        BY <1>14, <1>15, <2>2, <3>3, <4>1, <4>3, <4>4
    <3> QED
      BY <3>4, <3>5
  <2> QED
    BY <2>1, <2>2
<1>18. Pointing' /\ Position' = Position
  BY <1>1, <1>2, <1>11, Untouched
<1>19. Value' = Value
  BY <1>1 DEF Value, Shown, Blocks
<1> QED
  BY <1>1, <1>13, <1>17, <1>18, <1>19 DEF Abstract!Get

\* The calls of yf_list_next that are left from a place on.
Remains(s, b, i) == (Len(Text(s)) - Upto(s, b)) + IF i + 1 < Len(s[b]) THEN Len(s[b]) - i ELSE 1

\* A call of yf_list_next leaves one less; from the first place there are as many as places.
LEMMA OneLess ==
  ASSUME NEW s \in Seq(Seq(Elements)), NEW b \in 1 .. Len(s), NEW i \in Nat
  PROVE  /\ Remains(s, b, i) \in Nat /\ Remains(s, b, i) > 0
         /\ i + 1 < Len(s[b]) => Remains(s, b, i) = 1 + Remains(s, b, i + 1)
         /\ ~(i + 1 < Len(s[b])) /\ b = Len(s) => Remains(s, b, i) = 1
         /\ ~(i + 1 < Len(s[b])) /\ b # Len(s) => b + 1 \in 1 .. Len(s) /\ Remains(s, b, i) = 1 + Remains(s, b + 1, 0)
         /\ b = 1 => Remains(s, b, 0) = Len(Text(s))
<1>1. PICK w : w = Text(s)
  OBVIOUS
<1>2. ASSUME NEW c \in 1 .. Len(s), NEW x, x = Face(s[c]), NEW n, n = Upto(s, c - 1)
      PROVE  /\ Len(s) \in Nat /\ n \in Nat /\ Len(x) \in Nat /\ Len(w) \in Nat /\ Len(s[c]) \in Nat
             /\ Upto(s, c) = n + Len(x)
             /\ c = Len(s) => n + Len(x) = Len(w)
             /\ c # Len(s) => n + Len(x) < Len(w)
             /\ Len(x) = IF 1 < Len(s[c]) THEN Len(s[c]) ELSE 1
  <2>1. Place(s, c, w, x, n)
    BY <1>1, <1>2, PlaceIs
  <2>2. /\ Len(s) \in Nat /\ n \in Nat /\ Len(x) \in Nat /\ Len(x) > 0 /\ Len(w) \in Nat /\ s[c] \in Seq(Elements)
        /\ Upto(s, c) = n + Len(x)
        /\ c = Len(s) => n + Len(x) = Len(w)
        /\ c # Len(s) => n + Len(x) < Len(w)
    BY <2>1 DEF Place
  <2>3. Len(s[c]) \in Nat
    BY <2>2, LenProperties
  <2>4. Len(x) = IF 1 < Len(s[c]) THEN Len(s[c]) ELSE 1
    <3>1. CASE s[c] = <<>>
      <4>1. Len(s[c]) = 0 /\ Len(x) = 1
        BY <1>2, <2>2, <3>1, FaceIs, EmptySeq
      <4> QED
        BY <4>1
    <3>2. CASE s[c] # <<>>
      <4>1. x = s[c]
        BY <1>2, <2>2, <3>2, FaceIs
      <4> QED
        BY <2>2, <4>1
    <3> QED
      BY <3>1, <3>2
  <2> QED
    BY <2>2, <2>3, <2>4
<1>3. PICK x : x = Face(s[b])
  OBVIOUS
<1>4. PICK n : n = Upto(s, b - 1)
  OBVIOUS
<1>5. PICK k, q, m : k = Len(x) /\ q = Len(w) /\ m = Len(s[b])
  OBVIOUS
<1>6. /\ Len(s) \in Nat /\ n \in Nat /\ k \in Nat /\ q \in Nat /\ m \in Nat
      /\ Upto(s, b) = n + k
      /\ b = Len(s) => n + k = q
      /\ b # Len(s) => n + k < q
      /\ k = IF 1 < m THEN m ELSE 1
  BY <1>2, <1>3, <1>4, <1>5
<1>7. \A j : Remains(s, b, j) = (q - (n + k)) + IF j + 1 < m THEN m - j ELSE 1
  BY <1>1, <1>5, <1>6 DEF Remains
<1>8. n + k =< q /\ q - (n + k) \in Nat
  BY <1>6
<1>9. Remains(s, b, i) \in Nat /\ Remains(s, b, i) > 0
  <2>1. PICK g \in Nat : g = q - (n + k)
    BY <1>8
  <2>2. Remains(s, b, i) = g + IF i + 1 < m THEN m - i ELSE 1
    BY <1>7, <2>1
  <2> QED
    BY <1>6, <2>2
<1>10. ASSUME i + 1 < m PROVE Remains(s, b, i) = 1 + Remains(s, b, i + 1)
  <2>1. PICK g \in Nat : g = q - (n + k)
    BY <1>8
  <2>2. Remains(s, b, i) = g + (m - i)
    BY <1>7, <1>10, <2>1
  <2>3. Remains(s, b, i + 1) = g + IF (i + 1) + 1 < m THEN m - (i + 1) ELSE 1
    BY <1>7, <2>1
  <2> QED
    BY <1>6, <1>10, <2>2, <2>3
<1>11. ASSUME ~(i + 1 < m), b = Len(s) PROVE Remains(s, b, i) = 1
  BY <1>6, <1>7, <1>11
<1>12. ASSUME ~(i + 1 < m), b # Len(s)
       PROVE  b + 1 \in 1 .. Len(s) /\ Remains(s, b, i) = 1 + Remains(s, b + 1, 0)
  <2>1. b + 1 \in 1 .. Len(s) /\ (b + 1) - 1 = b
    BY <1>6, <1>12
  <2>2. PICK y : y = Face(s[b + 1])
    OBVIOUS
  <2>3. PICK h, o : h = Len(y) /\ o = Len(s[b + 1])
    OBVIOUS
  <2>4. PICK u : u = Upto(s, (b + 1) - 1)
    OBVIOUS
  <2>5. h \in Nat /\ o \in Nat /\ Upto(s, b + 1) = u + h /\ h = IF 1 < o THEN o ELSE 1
    BY <1>2, <2>1, <2>2, <2>3, <2>4
  <2>6. u = n + k
    BY <1>6, <2>1, <2>4
  <2>7. Remains(s, b + 1, 0) = (q - (u + h)) + IF 1 < o THEN o ELSE 1
    BY <1>1, <1>5, <2>3, <2>5 DEF Remains
  <2>8. Remains(s, b + 1, 0) = q - u
    <3>1. u \in Nat
      BY <1>6, <2>6
    <3> QED
      BY <1>6, <2>5, <2>7, <3>1
  <2>9. Remains(s, b, i) = (q - (n + k)) + 1
    BY <1>7, <1>12
  <2> QED
    BY <1>6, <2>1, <2>6, <2>8, <2>9
<1>13. ASSUME b = 1 PROVE Remains(s, b, 0) = Len(Text(s))
  <2>1. n = 0
    BY <1>4, <1>13, UptoNone
  <2>2. Remains(s, b, 0) = (q - (n + k)) + IF 1 < m THEN m ELSE 1
    <3>1. Remains(s, b, 0) = (q - (n + k)) + IF 0 + 1 < m THEN m - 0 ELSE 1
      BY <1>7
    <3> QED
      BY <1>6, <3>1
  <2>3. Remains(s, b, 0) = (q - (0 + k)) + k
    BY <1>6, <2>1, <2>2
  <2> QED
    BY <1>1, <1>5, <1>6, <2>3
<1> QED
  BY <1>5, <1>9, <1>10, <1>11, <1>12, <1>13

\* yf_list_get_count counts the places, those of empty blocks included.
LEMMA StepsAre ==
  ASSUME IInv, NEW l \in alive, ~IsNull(l)
  PROVE  Steps(l) = Len(Text(Blocks(l)))
<1>1. PICK s : s = Blocks(l)
  OBVIOUS
<1>2. /\ s \in Seq(Seq(Elements)) /\ Len(s) \in Nat /\ s # <<>>
      /\ \A b \in 1 .. Len(s) : Len(s[b]) \in Nat /\ Len(s[b]) =< BlockSize
  <2>1. Chain(lists[l]) /\ s = lists[l].blocks
    BY <1>1 DEF IInv, Types, Blocks
  <2> QED
    BY <1>1, <2>1, ChainHas DEF Chain, IsNull
<1> DEFINE Dom == {AtBlock(l, b, i) : b \in 1 .. Len(Blocks(l)), i \in 0 .. BlockSize}
           Counts(F) == F = [c \in Dom |-> IF Step(c).ret = -1 THEN 1 ELSE 1 + F[Step(c).c]]
           G == CHOOSE F : Counts(F)
           H == [c \in Dom |-> Remains(s, c.block, c.index)]
<1>3. Steps(l) = G[AtBlock(l, 1, 0)]
  BY DEF Steps
<1>4. \A c \in Dom : \E b \in 1 .. Len(s) : \E i \in 0 .. BlockSize : c = AtBlock(l, b, i)
  BY <1>1
<1>5. \A b \in 1 .. Len(s) : \A i \in 0 .. BlockSize : AtBlock(l, b, i) \in Dom
  BY <1>1
<1>6. \A c \in Dom : H[c] = Remains(s, c.block, c.index)
  OBVIOUS
<1>7. DOMAIN H = Dom /\ H = [c \in Dom |-> H[c]]
  OBVIOUS
<1> HIDE DEF H, Dom
<1>8. ASSUME NEW c \in Dom
      PROVE  /\ H[c] \in Nat /\ H[c] > 0
             /\ Step(c).ret = -1 => H[c] = 1
             /\ Step(c).ret # -1 => Step(c).c \in Dom /\ H[c] = 1 + H[Step(c).c]
  <2>1. PICK b \in 1 .. Len(s), i \in 0 .. BlockSize : c = AtBlock(l, b, i)
    BY <1>4
  <2>2. i \in Nat /\ c.list = l /\ c.block = b /\ c.index = i /\ [c EXCEPT !.index = @ + 1] = AtBlock(l, b, i + 1)
    BY <2>1, ListAssumption DEF AtBlock
  <2>3. H[c] = Remains(s, b, i)
    BY <1>6, <2>2
  <2>4. H[c] \in Nat /\ H[c] > 0
    BY <1>2, <2>2, <2>3, OneLess
  <2>5. CASE i + 1 < Len(s[b])
    <3>1. Step(c) = [c |-> AtBlock(l, b, i + 1), ret |-> 0]
      BY <1>1, <2>2, <2>5 DEF Step
    <3>2. i + 1 \in 0 .. BlockSize
      BY <1>2, <2>2, <2>5, ListAssumption
    <3>3. AtBlock(l, b, i + 1) \in Dom
      BY <1>5, <3>2
    <3>4. H[AtBlock(l, b, i + 1)] = Remains(s, b, i + 1)
      BY <1>6, <3>3 DEF AtBlock
    <3>5. Remains(s, b, i) = 1 + Remains(s, b, i + 1)
      BY <1>2, <2>2, <2>5, OneLess
    <3>6. Step(c).c = AtBlock(l, b, i + 1) /\ Step(c).ret # -1
      BY <3>1
    <3> QED
      BY <2>3, <2>4, <3>3, <3>4, <3>5, <3>6
  <2>6. CASE ~(i + 1 < Len(s[b])) /\ b = Len(s)
    <3>1. Step(c).ret = -1
      BY <1>1, <2>2, <2>6 DEF Step
    <3>2. Remains(s, b, i) = 1
      BY <1>2, <2>2, <2>6, OneLess
    <3> QED
      BY <2>3, <2>4, <3>1, <3>2
  <2>7. CASE ~(i + 1 < Len(s[b])) /\ b # Len(s)
    <3>1. Step(c) = [c |-> AtBlock(l, b + 1, 0), ret |-> 0]
      BY <1>1, <2>2, <2>7 DEF Step
    <3>2. b + 1 \in 1 .. Len(s) /\ Remains(s, b, i) = 1 + Remains(s, b + 1, 0)
      BY <1>2, <2>2, <2>7, OneLess
    <3>3. AtBlock(l, b + 1, 0) \in Dom
      <4>1. 0 \in 0 .. BlockSize
        BY ListAssumption
      <4> QED
        BY <1>5, <3>2, <4>1
    <3>4. H[AtBlock(l, b + 1, 0)] = Remains(s, b + 1, 0)
      BY <1>6, <3>3 DEF AtBlock
    <3>5. Step(c).c = AtBlock(l, b + 1, 0) /\ Step(c).ret # -1
      BY <3>1
    <3> QED
      BY <2>3, <2>4, <3>2, <3>3, <3>4, <3>5
  <2> QED
    BY <2>5, <2>6, <2>7
<1>9. Counts(G)
  <2>1. \A c \in Dom : H[c] = IF Step(c).ret = -1 THEN 1 ELSE 1 + H[Step(c).c]
    BY <1>8
  <2>2. Counts(H)
    BY <1>7, <2>1
  <2> HIDE DEF Counts
  <2> QED
    BY <2>2, Zenon
<1> HIDE DEF G
<1>10. \A c \in Dom : G[c] = IF Step(c).ret = -1 THEN 1 ELSE 1 + G[Step(c).c]
  BY <1>9
<1> DEFINE T == {m \in Nat : \A c \in Dom : H[c] = m => G[c] = m}
<1>11. 0 \in T
  <2>1. \A c \in Dom : H[c] # 0
    BY <1>8
  <2> QED
    BY <2>1
<1>12. ASSUME NEW m \in T
       PROVE  m + 1 \in T
  <2>1. ASSUME NEW c \in Dom, H[c] = m + 1
        PROVE  G[c] = m + 1
    <3>1. CASE Step(c).ret = -1
      BY <1>8, <1>10, <2>1, <3>1
    <3>2. CASE Step(c).ret # -1
      <4>1. PICK d : d = Step(c).c
        OBVIOUS
      <4>2. d \in Dom /\ H[c] = 1 + H[d] /\ G[c] = 1 + G[d]
        BY <1>8, <1>10, <3>2, <4>1
      <4>3. H[d] \in Nat
        BY <1>8, <4>2
      <4>4. H[d] = m
        BY <2>1, <4>2, <4>3
      <4>5. G[d] = m
        BY <4>2, <4>4
      <4> QED
        BY <4>2, <4>5
    <3> QED
      BY <3>1, <3>2
  <2> QED
    BY <2>1
<1>13. T = Nat
  <2>1. T \in SUBSET Nat
    OBVIOUS
  <2> HIDE DEF T
  <2> QED
    BY <1>11, <1>12, <2>1, Induction
<1>14. \A c \in Dom : G[c] = H[c]
  <2>1. \A c \in Dom : H[c] \in Nat
    BY <1>8
  <2>2. \A m \in Nat : \A c \in Dom : H[c] = m => G[c] = m
    BY <1>13
  <2> QED
    BY <2>1, <2>2
<1>15. 1 \in 1 .. Len(s) /\ 0 \in 0 .. BlockSize /\ 0 \in Nat
  BY <1>2, EmptySeq, ListAssumption
<1>16. AtBlock(l, 1, 0) \in Dom
  BY <1>5, <1>15
<1>17. H[AtBlock(l, 1, 0)] = Remains(s, 1, 0)
  BY <1>6, <1>16 DEF AtBlock
<1>18. Remains(s, 1, 0) = Len(Text(s))
  BY <1>2, <1>15, OneLess
<1> QED
  BY <1>1, <1>3, <1>14, <1>16, <1>17, <1>18

\* yf_list_get_count and yf_list_is_empty
LEMMA AskImplements ==
  ASSUME IInv, Pointing, NEW l \in Lists, ListCount(l) \/ ListIsEmpty(l)
  PROVE  Pointing' /\ (Abstract!Count(l) \/ Abstract!IsEmpty(l))
<1>1. l \in alive /\ UNCHANGED <<lists, alive, freed, cursor, usable>> /\ Types
  BY DEF ListCount, ListIsEmpty, IInv
<1>2. PICK s : s = Blocks(l)
  OBVIOUS
<1>3. PICK w : w = Text(s)
  OBVIOUS
<1>4. s \in Seq(Seq(Elements)) /\ Value[l] = w /\ (w = <<>> <=> IsNull(l))
  BY <1>1, <1>2, <1>3, ValueAt
<1>5. w = <<>> \/ Head(w) = Gap <=> FirstEmpty(l)
  <2>1. s # <<>> => (Head(w) = Gap <=> s[1] = <<>>)
    BY <1>3, <1>4, TextBegins
  <2> QED
    BY <1>2, <1>4, <2>1 DEF FirstEmpty, IsNull
<1>6. Value' = Value
  BY <1>1 DEF Value, Shown, Blocks
<1>7. Pointing' /\ Position' = Position
  <2>1. usable => cursor.list \in alive' /\ lists'[cursor.list] = lists[cursor.list]
    BY <1>1 DEF Pointing
  <2> QED
    BY <1>1, <2>1, Untouched
<1>8. CASE ListCount(l)
  <2>1. returned' = <<IF FirstEmpty(l) THEN 0 ELSE Steps(l)>>
    BY <1>8 DEF ListCount
  <2>2. ~FirstEmpty(l) => Steps(l) = Len(w)
    BY <1>1, <1>2, <1>3, StepsAre DEF FirstEmpty
  <2> QED
    BY <1>1, <1>4, <1>5, <1>6, <1>7, <2>1, <2>2, AliveIs DEF Abstract!Count
<1>9. CASE ListIsEmpty(l)
  BY <1>1, <1>4, <1>5, <1>6, <1>7, <1>9, AliveIs DEF Abstract!IsEmpty, ListIsEmpty
<1> QED
  BY <1>8, <1>9

\* The blocks and the cursor are a sequence and a place in it: whatever the client does, in any order,
\* all that it sees of a list is what list.h says.
THEOREM Implements ==
  ListSpec => ImplementsList
<1>1. ListsInit => Pointing /\ Abstract!Init
  <2> SUFFICES ASSUME ListsInit PROVE Pointing /\ Abstract!Init
    OBVIOUS
  <2>1. alive = {} /\ freed = {} /\ ~usable /\ returned = <<0>>
    BY DEF ListsInit
  <2>2. Value = <<>>
    BY <2>1 DEF Value
  <2> QED
    BY <2>1, <2>2 DEF Pointing, Position, Abstract!Init
<1>2. IInv /\ Pointing /\ [ListsNext]_listVars => Pointing' /\ [Abstract!Next]_(Abstract!vars)
  <2> SUFFICES ASSUME IInv, Pointing, [ListsNext]_listVars
               PROVE  Pointing' /\ (Abstract!Next \/ UNCHANGED Abstract!vars)
    OBVIOUS
  <2>1. CASE \E l \in Lists : ListCreate(l)
    BY <2>1, CreateImplements DEF Abstract!Next
  <2>2. CASE \E l \in Lists : ListReset(l)
    BY <2>2, ResetImplements DEF Abstract!Next
  <2>3. CASE \E l \in Lists : ListCount(l) \/ ListIsEmpty(l)
    BY <2>3, AskImplements DEF Abstract!Next
  <2>4. CASE \E l \in Lists : \E e \in Elements : ListAdd(l, e)
    BY <2>4, AddImplements DEF Abstract!Next
  <2>5. CASE \E l \in Lists : \E src \in Lists : ListMerge(l, src)
    BY <2>5, MergeImplements DEF Abstract!Next
  <2>6. CASE \E l \in Lists : \E free \in BOOLEAN : ListDestroy(l, free)
    BY <2>6, DestroyImplements DEF Abstract!Next
  <2>7. CASE ListNext
    BY <2>7, NextImplements DEF Abstract!Next
  <2>8. CASE ListGet
    BY <2>8, GetImplements DEF Abstract!Next
  <2>9. CASE UNCHANGED listVars
    <3>1. UNCHANGED <<lists, alive, freed, cursor, usable, returned>>
      BY <2>9 DEF listVars
    <3>2. Value' = Value
      BY <3>1 DEF Value, Shown, Blocks
    <3>3. Pointing' /\ Position' = Position
      <4>1. usable => cursor.list \in alive' /\ lists'[cursor.list] = lists[cursor.list]
        BY <3>1 DEF Pointing
      <4> QED
        BY <3>1, <4>1, Untouched
    <3> QED
      BY <3>1, <3>2, <3>3 DEF Abstract!vars
  <2> QED
    BY <2>1, <2>2, <2>3, <2>4, <2>5, <2>6, <2>7, <2>8, <2>9 DEF ListsNext
<1> QED
  BY <1>1, <1>2, Inductive, PTL DEF ListSpec, ImplementsList, Abstract!Spec
===============================================================================
