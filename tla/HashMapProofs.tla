----------------------------- MODULE HashMapProofs -----------------------------
(***************************************************************************)
(* Proofs about HashMap for any keys, values and number of buckets, and    *)
(* for every hash function.                                                *)
(*                                                                         *)
(* The argument is about one chain first: what an update, an append and a  *)
(* removal do to it.  The map is the union of what its chains say, and     *)
(* an iteration owes what lies ahead of its cursor.                        *)
(***************************************************************************)
EXTENDS HashMap, TLAPS, SequenceTheorems, WellFoundedInduction

Entries == [key : Keys, value : Values]

\* A chain of bucket b: its keys hash to b, and none is there twice.
Tidy(b, chain) ==
  /\ chain \in Seq(Entries)
  /\ \A i \in DOMAIN chain :
       /\ Hash[chain[i].key] = b
       /\ \A j \in DOMAIN chain : chain[i].key = chain[j].key => i = j

\* d has an entry more than c.
Appends(c, d, k, v) == d = Append(c, Entry(k, v))

\* d differs from c in the value of k.
Revalues(c, d, k, v) ==
  /\ d \in Seq(Entries) /\ Len(d) = Len(c)
  /\ \A j \in 1 .. Len(c) : /\ d[j].key = c[j].key
                            /\ d[j].value = IF c[j].key = k THEN v ELSE c[j].value

Place(chain, k) == SeqExt!SelectInSeq(chain, LAMBDA e : e.key = k)

\* d says of each key but k what c says, and keeps their order.
SameBut(c, d, k) ==
  /\ \A x \in KeysIn(c) \ {k} : d[Place(d, x)].value = c[Place(c, x)].value
  /\ \A x, y \in KeysIn(c) \ {k} : Place(c, x) < Place(c, y) <=> Place(d, x) < Place(d, y)

\* Types beyond TypeOK that the proofs need.
Types ==
  /\ buckets \in [Buckets -> Seq(Entries)]
  /\ \A b \in Buckets : Tidy(b, buckets[b])
  /\ cur \in [bucket : Buckets \union {Null}, current : Keys \union {None}]

\* Where the cursor is in each phase.
Placed ==
  /\ phase \in {"start", "at", "removed", "ended", "invalid"}
  /\ phase \in {"start", "ended"} => cur = Cursor(Null, None)
  /\ phase = "at" => cur.current # None
  /\ phase \in {"at", "removed"} =>
       /\ cur.bucket \in Buckets
       /\ cur.current # None => cur.current \in KeysIn(buckets[cur.bucket])

\* The entries that the iteration has still to come to: those behind the cursor's, and after a
\* removal also the one that the cursor was moved to.
Ahead ==
  {x \in Present :
     \/ Hash[x] > cur.bucket
     \/ /\ Hash[x] = cur.bucket /\ cur.current # None
        /\ \/ Place(Chain(cur.current), cur.current) < Place(Chain(x), x)
           \/ phase = "removed" /\ x = cur.current}

\* What is owed has been visited or lies ahead, and nothing that lies ahead has been visited.
Iteration ==
  /\ visited \subseteq Present
  /\ phase = "ended" => due \subseteq visited
  /\ phase \in {"at", "removed"} => due \subseteq visited \union Ahead /\ visited \intersect Ahead = {}

IInv == Types /\ Placed /\ Iteration

-------------------------------------------------------------------------------
(* Chains *)

\* A set of natural numbers has a least element.
LEMMA Least ==
  ASSUME NEW S \in SUBSET Nat, S # {}
  PROVE  Min(S) \in S /\ \A y \in S : Min(S) =< y
<1>1. \E x \in S : \A y \in S : x =< y
  <2> DEFINE R == OpToRel(<, Nat)
  <2>1. IsWellFoundedOn(R, Nat)
    BY NatLessThanWellFounded
  <2>2. \A x, y \in S : y < x => <<y, x>> \in R
    BY DEF OpToRel
  <2> HIDE DEF R
  <2>3. PICK x \in S : \A y \in S : <<y, x>> \notin R
    BY <2>1, WFMin, Zenon
  <2>4. \A y \in S : ~(y < x)
    BY <2>2, <2>3, Zenon
  <2> QED
    BY <2>4
<1> QED
  BY <1>1 DEF Min

\* The search of yfh_cursor_find_before finds the only place of a key, if it has one.
LEMMA PlaceFinds ==
  ASSUME NEW b, NEW chain, Tidy(b, chain), NEW k
  PROVE  /\ k \in KeysIn(chain) => /\ Place(chain, k) \in DOMAIN chain
                                   /\ chain[Place(chain, k)].key = k
         /\ k \notin KeysIn(chain) => Place(chain, k) = 0
         /\ \A i \in DOMAIN chain : chain[i].key = k => Place(chain, k) = i
<1> DEFINE I == {i \in 1 .. Len(chain) : chain[i].key = k}
<1>1. DOMAIN chain = 1 .. Len(chain) /\ Len(chain) \in Nat
  BY LenProperties DEF Tidy
<1>2. Place(chain, k) = IF I # {} THEN Min(I) ELSE 0
  BY DEF Place, SeqExt!SelectInSeq, Min, SeqExt!Min
<1>3. I # {} <=> k \in KeysIn(chain)
  BY <1>1 DEF KeysIn
<1>4. I # {} => Min(I) \in I
  <2>1. I \in SUBSET Nat
    BY <1>1
  <2> HIDE DEF I
  <2> QED
    BY <2>1, Least
<1>5. \A i, j \in I : i = j
  BY <1>1 DEF Tidy
<1> QED
  BY <1>1, <1>2, <1>3, <1>4, <1>5

\* The place of an entry's key is that of the entry.
LEMMA PlaceIs ==
  ASSUME NEW b, NEW chain, Tidy(b, chain), NEW i \in DOMAIN chain
  PROVE  Place(chain, chain[i].key) = i
BY PlaceFinds

\* Two keys of a chain are at two places.
LEMMA Apart ==
  ASSUME NEW b, NEW chain, Tidy(b, chain), NEW x \in KeysIn(chain), NEW y \in KeysIn(chain), x # y
  PROVE  Place(chain, x) # Place(chain, y)
BY PlaceFinds

\* A sequence with another element at one place.
LEMMA Replaced ==
  ASSUME NEW S, NEW c \in Seq(S), NEW p \in 1 .. Len(c), NEW e \in S, NEW d, d = [c EXCEPT ![p] = e]
  PROVE  /\ d \in Seq(S) /\ Len(d) = Len(c)
         /\ \A j \in 1 .. Len(c) : d[j] = IF j = p THEN e ELSE c[j]
BY ExceptSeq

\* The append of yfh_set for a key that the chain does not have.
LEMMA Appended ==
  ASSUME NEW b, NEW c, Tidy(b, c), NEW k \in Keys, Hash[k] = b, k \notin KeysIn(c),
         NEW v \in Values, NEW d, Appends(c, d, k, v)
  PROVE  /\ Tidy(b, d) /\ KeysIn(d) = KeysIn(c) \union {k}
         /\ d[Place(d, k)].value = v /\ SameBut(c, d, k)
         /\ \A x \in KeysIn(c) : Place(d, x) = Place(c, x) /\ Place(d, x) < Place(d, k)
<1>1. Entry(k, v) \in Entries /\ Entry(k, v).key = k /\ Entry(k, v).value = v
  BY DEF Entries, Entry
<1>2. c \in Seq(Entries) /\ Len(c) \in Nat /\ DOMAIN c = 1 .. Len(c)
  BY LenProperties DEF Tidy
<1>3. /\ d \in Seq(Entries) /\ Len(d) = Len(c) + 1 /\ DOMAIN d = 1 .. Len(c) + 1
      /\ \A i \in 1 .. Len(c) : d[i] = c[i]
      /\ d[Len(c) + 1] = Entry(k, v)
  BY <1>1, <1>2, AppendProperties, LenProperties DEF Appends
<1>4. \A i \in 1 .. Len(c) : c[i].key \in KeysIn(c) /\ c[i].key # k
  BY <1>2 DEF KeysIn
<1>5. Tidy(b, d)
  <2>1. ASSUME NEW i \in 1 .. Len(c) + 1
        PROVE  /\ Hash[d[i].key] = b
               /\ \A j \in 1 .. Len(c) + 1 : d[i].key = d[j].key => i = j
    BY <1>1, <1>2, <1>3, <1>4 DEF Tidy
  <2> QED
    BY <2>1, <1>3 DEF Tidy
<1>6. KeysIn(d) = KeysIn(c) \union {k}
  BY <1>1, <1>2, <1>3 DEF KeysIn
<1>7. Place(d, k) = Len(c) + 1
  <2>1. Len(c) + 1 \in DOMAIN d /\ d[Len(c) + 1].key = k
    BY <1>1, <1>2, <1>3
  <2> QED
    BY <1>5, <2>1, PlaceIs
<1>8. ASSUME NEW x \in KeysIn(c)
      PROVE  Place(c, x) \in 1 .. Len(c) /\ Place(d, x) = Place(c, x)
  <2>1. Place(c, x) \in 1 .. Len(c) /\ c[Place(c, x)].key = x
    BY <1>2, PlaceFinds
  <2>2. Place(c, x) \in DOMAIN d /\ d[Place(c, x)].key = x
    BY <1>2, <1>3, <2>1
  <2> QED
    BY <1>5, <2>1, <2>2, PlaceIs
<1>9. SameBut(c, d, k)
  BY <1>3, <1>8 DEF SameBut
<1> QED
  BY <1>1, <1>2, <1>3, <1>5, <1>6, <1>7, <1>8, <1>9

\* A chain that differs from another in the value of one key.
LEMMA Revalued ==
  ASSUME NEW b, NEW c, Tidy(b, c), NEW k \in KeysIn(c), NEW v, NEW d, Revalues(c, d, k, v)
  PROVE  /\ Tidy(b, d) /\ KeysIn(d) = KeysIn(c)
         /\ d[Place(d, k)].value = v /\ SameBut(c, d, k)
         /\ \A x \in KeysIn(c) : Place(d, x) = Place(c, x)
<1>1. c \in Seq(Entries) /\ Len(c) \in Nat /\ DOMAIN c = 1 .. Len(c)
  BY LenProperties DEF Tidy
<1>2. DOMAIN d = 1 .. Len(c)
  BY LenProperties DEF Revalues
<1>3. Tidy(b, d)
  BY <1>1, <1>2 DEF Tidy, Revalues
<1>4. KeysIn(d) = KeysIn(c)
  BY <1>1, <1>2 DEF KeysIn, Revalues
<1>5. ASSUME NEW x \in KeysIn(c)
      PROVE  Place(c, x) \in 1 .. Len(c) /\ c[Place(c, x)].key = x /\ Place(d, x) = Place(c, x)
  <2>1. Place(c, x) \in 1 .. Len(c) /\ c[Place(c, x)].key = x
    BY <1>1, PlaceFinds
  <2>2. Place(c, x) \in DOMAIN d /\ d[Place(c, x)].key = x
    BY <1>2, <2>1 DEF Revalues
  <2> QED
    BY <1>3, <2>1, <2>2, PlaceIs
<1>6. d[Place(d, k)].value = v /\ SameBut(c, d, k)
  BY <1>5 DEF SameBut, Revalues
<1> QED
  BY <1>3, <1>4, <1>5, <1>6

\* The update of yfh_set and yfh_cursor_set of a key that the chain has.
LEMMA Updated ==
  ASSUME NEW b, NEW c, Tidy(b, c), NEW k \in KeysIn(c), NEW v \in Values,
         NEW p, p = Place(c, k), NEW e, e = [c[p] EXCEPT !.value = v],
         NEW d, d = [c EXCEPT ![p] = e]
  PROVE  Revalues(c, d, k, v)
<1>1. p \in DOMAIN c /\ c[p].key = k
  BY PlaceFinds
<1>2. c[p] \in Entries
  BY <1>1, ElementOfSeq, LenProperties DEF Tidy
<1>3. e \in Entries /\ e.key = k /\ e.value = v
  BY <1>1, <1>2 DEF Entries
<1>4. c \in Seq(Entries) /\ DOMAIN c = 1 .. Len(c)
  BY LenProperties DEF Tidy
<1>5. /\ d \in Seq(Entries) /\ Len(d) = Len(c)
      /\ \A j \in 1 .. Len(c) : d[j] = IF j = p THEN e ELSE c[j]
  BY <1>1, <1>3, <1>4, Replaced
<1>6. \A j \in 1 .. Len(c) : c[j].key = k <=> j = p
  BY <1>1, <1>4 DEF Tidy
<1>7. \A j \in 1 .. Len(c) : /\ d[j].key = c[j].key
                             /\ d[j].value = IF c[j].key = k THEN v ELSE c[j].value
  BY <1>1, <1>3, <1>5, <1>6
<1> QED
  BY <1>5, <1>7 DEF Revalues

\* The removal of an entry: the one before it takes its next pointer.
LEMMA Removed ==
  ASSUME NEW b, NEW c, Tidy(b, c), NEW k \in KeysIn(c),
         NEW d, d = SeqExt!RemoveAt(c, Place(c, k))
  PROVE  Tidy(b, d) /\ KeysIn(d) = KeysIn(c) \ {k} /\ SameBut(c, d, k)
<1>1. c \in Seq(Entries) /\ Len(c) \in Nat /\ DOMAIN c = 1 .. Len(c)
  BY LenProperties DEF Tidy
<1> DEFINE p == Place(c, k)
<1>2. p \in 1 .. Len(c) /\ c[p].key = k
  BY <1>1, PlaceFinds
<1>3. d = SubSeq(c, 1, p - 1) \o SubSeq(c, p + 1, Len(c))
  BY DEF SeqExt!RemoveAt
<1> HIDE DEF p
<1>4. /\ SubSeq(c, 1, p - 1) \in Seq(Entries) /\ Len(SubSeq(c, 1, p - 1)) = p - 1
      /\ \A i \in 1 .. p - 1 : SubSeq(c, 1, p - 1)[i] = c[i]
  BY <1>1, <1>2, ElementOfSeq, SubSeqProperties
<1>5. /\ SubSeq(c, p + 1, Len(c)) \in Seq(Entries) /\ Len(SubSeq(c, p + 1, Len(c))) = Len(c) - p
      /\ \A i \in 1 .. Len(c) - p : SubSeq(c, p + 1, Len(c))[i] = c[p + i]
  <2>1. \A i \in p + 1 .. Len(c) : c[i] \in Entries
    BY <1>1, <1>2, ElementOfSeq
  <2>2. /\ SubSeq(c, p + 1, Len(c)) \in Seq(Entries)
        /\ Len(SubSeq(c, p + 1, Len(c))) = IF p + 1 =< Len(c) THEN Len(c) - (p + 1) + 1 ELSE 0
        /\ \A i \in 1 .. Len(c) - (p + 1) + 1 : SubSeq(c, p + 1, Len(c))[i] = c[p + 1 + i - 1]
    BY <1>1, <1>2, <2>1, SubSeqProperties
  <2>3. Len(c) - (p + 1) + 1 = Len(c) - p /\ \A i \in 1 .. Len(c) - p : p + 1 + i - 1 = p + i
    BY <1>1, <1>2
  <2>4. \A i \in 1 .. Len(c) - p : SubSeq(c, p + 1, Len(c))[i] = c[p + i]
    BY <2>2, <2>3
  <2>5. CASE p < Len(c)
    <3>1. p + 1 =< Len(c)
      BY <1>1, <1>2, <2>5
    <3> QED
      BY <2>2, <2>3, <2>4, <3>1, Zenon
  <2>6. CASE p = Len(c)
    <3>1. ~(p + 1 =< Len(c)) /\ Len(c) - p = 0
      BY <1>1, <1>2, <2>6
    <3> QED
      BY <2>2, <2>4, <3>1, Zenon
  <2>7. p < Len(c) \/ p = Len(c)
    <3>1. \A m, n \in Int : m \in 1 .. n => m < n \/ m = n
      OBVIOUS
    <3>2. p \in Int /\ Len(c) \in Int
      BY <1>1, <1>2
    <3> QED
      BY <1>2, <3>1, <3>2, Zenon
  <2> QED
    BY <2>5, <2>6, <2>7, Zenon
<1>6. /\ d \in Seq(Entries) /\ Len(d) = Len(c) - 1 /\ DOMAIN d = 1 .. Len(c) - 1
      /\ \A i \in 1 .. Len(c) - 1 : d[i] = IF i < p THEN c[i] ELSE c[i + 1]
  <2> DEFINE l == SubSeq(c, 1, p - 1)
             r == SubSeq(c, p + 1, Len(c))
  <2>1. l \in Seq(Entries) /\ r \in Seq(Entries) /\ Len(l) = p - 1 /\ Len(r) = Len(c) - p
    BY <1>4, <1>5
  <2> HIDE DEF l, r
  <2>2. /\ l \o r \in Seq(Entries) /\ Len(l \o r) = Len(l) + Len(r)
        /\ \A i \in 1 .. Len(l) + Len(r) :
             (l \o r)[i] = IF i =< Len(l) THEN l[i] ELSE r[i - Len(l)]
    BY <2>1, ConcatProperties
  <2>3. d = l \o r
    BY <1>3 DEF l, r
  <2>4. d \in Seq(Entries) /\ Len(d) = Len(c) - 1
    <3>1. (p - 1) + (Len(c) - p) = Len(c) - 1
      BY <1>1, <1>2
    <3> QED
      BY <2>1, <2>2, <2>3, <3>1, Zenon
  <2>5. ASSUME NEW i \in 1 .. Len(c) - 1 PROVE d[i] = IF i < p THEN c[i] ELSE c[i + 1]
    <3>1. d[i] = IF i =< p - 1 THEN l[i] ELSE r[i - (p - 1)]
      BY <1>1, <1>2, <2>1, <2>2, <2>3
    <3>2. CASE i < p
      BY <1>1, <1>2, <1>4, <3>1, <3>2 DEF l
    <3>3. CASE i >= p
      <4>1. i - (p - 1) \in 1 .. Len(c) - p /\ p + (i - (p - 1)) = i + 1
        BY <1>1, <1>2, <3>3
      <4>2. r[i - (p - 1)] = c[p + (i - (p - 1))]
        BY <1>5, <4>1 DEF r
      <4> QED
        BY <1>2, <3>1, <3>3, <4>1, <4>2
    <3> QED
      BY <1>2, <3>2, <3>3
  <2> QED
    BY <2>4, <2>5, LenProperties
<1> DEFINE From(i) == IF i < p THEN i ELSE i + 1
           To(i) == IF i < p THEN i ELSE i - 1
<1>7. \A i \in 1 .. Len(c) - 1 : From(i) \in 1 .. Len(c) /\ From(i) # p /\ d[i] = c[From(i)]
  BY <1>1, <1>2, <1>6
<1>8. \A i \in 1 .. Len(c) : i # p => To(i) \in 1 .. Len(c) - 1 /\ From(To(i)) = i
  BY <1>1, <1>2
<1>9. \A i, j \in 1 .. Len(c) - 1 : From(i) = From(j) => i = j
  BY <1>1, <1>2
<1> HIDE DEF From
<1>10. Tidy(b, d)
  <2>1. ASSUME NEW i \in 1 .. Len(c) - 1
        PROVE  /\ Hash[d[i].key] = b
               /\ \A j \in 1 .. Len(c) - 1 : d[i].key = d[j].key => i = j
    BY <1>1, <1>7, <1>9 DEF Tidy
  <2> QED
    BY <2>1, <1>6 DEF Tidy
<1>11. ASSUME NEW x \in KeysIn(c) \ {k}
       PROVE  /\ Place(c, x) \in 1 .. Len(c) /\ Place(c, x) # p /\ c[Place(c, x)].key = x
              /\ To(Place(c, x)) \in DOMAIN d /\ d[To(Place(c, x))] = c[Place(c, x)]
              /\ Place(d, x) = To(Place(c, x))
  <2>1. Place(c, x) \in 1 .. Len(c) /\ c[Place(c, x)].key = x /\ Place(c, x) # p
    BY <1>1, <1>2, PlaceFinds
  <2>2. To(Place(c, x)) \in DOMAIN d /\ d[To(Place(c, x))] = c[Place(c, x)]
    BY <1>6, <1>7, <1>8, <2>1
  <2> QED
    BY <1>10, <2>1, <2>2, PlaceIs
<1>12. KeysIn(d) = KeysIn(c) \ {k}
  <2>1. ASSUME NEW x \in KeysIn(d) PROVE x \in KeysIn(c) \ {k}
    <3>1. PICK i \in 1 .. Len(c) - 1 : x = d[i].key
      BY <1>6 DEF KeysIn
    <3>2. x = c[From(i)].key /\ From(i) \in 1 .. Len(c) /\ From(i) # p
      BY <1>7, <3>1
    <3> QED
      BY <1>1, <1>2, <3>2 DEF KeysIn, Tidy
  <2>2. ASSUME NEW x \in KeysIn(c) \ {k} PROVE x \in KeysIn(d)
    BY <1>11 DEF KeysIn
  <2> QED
    BY <2>1, <2>2
<1>13. SameBut(c, d, k)
  <2>1. \A x \in KeysIn(c) \ {k} : d[Place(d, x)].value = c[Place(c, x)].value
    BY <1>11
  <2>2. ASSUME NEW x \in KeysIn(c) \ {k}, NEW y \in KeysIn(c) \ {k}
        PROVE  Place(c, x) < Place(c, y) <=> Place(d, x) < Place(d, y)
    BY <1>1, <1>2, <1>11
  <2> QED
    BY <2>1, <2>2 DEF SameBut
<1> QED
  BY <1>10, <1>12, <1>13

-------------------------------------------------------------------------------
(* The map that the chains make up *)

\* The place of a key in its chain.
LEMMA Finds ==
  \A x : FindBefore(x) = Place(Chain(x), x)
BY DEF FindBefore, Place

LEMMA FindsNext ==
  \A x : FindBefore(x)' = Place(buckets'[Hash[x]], x)
<1>1. (\A x : FindBefore(x) = Place(Chain(x), x))'
  BY Finds, PTL
<1> QED
  BY <1>1 DEF Chain

\* A key is present when its chain has it; and its chain is that of its bucket.
LEMMA PresentIs ==
  ASSUME Types
  PROVE  /\ \A x : x \in Present <=> x \in Keys /\ x \in KeysIn(Chain(x))
         /\ \A b \in Buckets : \A x \in KeysIn(buckets[b]) : x \in Present /\ Hash[x] = b
         /\ \A x \in Keys : Hash[x] \in Buckets /\ Tidy(Hash[x], Chain(x))
<1>1. \A x \in Keys : Hash[x] \in Buckets /\ Tidy(Hash[x], Chain(x))
  BY HashMapAssumption DEF Types, Buckets, Chain
<1>2. ASSUME NEW b \in Buckets, NEW x \in KeysIn(buckets[b])
      PROVE  x \in Present /\ Hash[x] = b /\ x \in Keys /\ x \in KeysIn(Chain(x))
  <2>1. PICK i \in DOMAIN buckets[b] : x = buckets[b][i].key
    BY DEF KeysIn
  <2>2. buckets[b][i] \in Entries /\ Hash[x] = b
    BY <2>1, ElementOfSeq, LenProperties DEF Types, Tidy
  <2> QED
    BY <2>1, <2>2 DEF Present, Chain, Entries
<1>3. \A x : x \in Keys /\ x \in KeysIn(Chain(x)) => x \in Present
  BY <1>1 DEF Present, Chain
<1>4. \A x : x \in Present => x \in Keys /\ x \in KeysIn(Chain(x))
  BY <1>2 DEF Present
<1> QED
  BY <1>1, <1>2, <1>3, <1>4

\* One chain is replaced by one that differs from it in the entry of k alone.
Edits(k, d) ==
  /\ Tidy(Hash[k], d) /\ SameBut(Chain(k), d, k)
  /\ KeysIn(d) \ {k} = KeysIn(Chain(k)) \ {k}
  /\ buckets' = [buckets EXCEPT ![Hash[k]] = d]

LEMMA EditTypes ==
  ASSUME Types, NEW k \in Keys, NEW d, Edits(k, d)
  PROVE  /\ buckets' \in [Buckets -> Seq(Entries)]
         /\ \A b \in Buckets : Tidy(b, buckets'[b])
         /\ buckets'[Hash[k]] = d
         /\ \A b \in Buckets : b # Hash[k] => buckets'[b] = buckets[b]
<1>1. Hash[k] \in Buckets
  BY PresentIs
<1> QED
  BY <1>1 DEF Types, Tidy, Edits

\* The other keys of the map keep their values and, in each chain, their order.
LEMMA EditKeeps ==
  ASSUME Types, NEW k \in Keys, NEW d, Edits(k, d)
  PROVE  /\ Present' = (Present \ {k}) \union ({k} \intersect KeysIn(d))
         /\ \A x \in Present \ {k} : ValueOf(x)' = ValueOf(x)
         /\ k \in KeysIn(d) => ValueOf(k)' = d[Place(d, k)].value
         /\ \A x, y \in Present \ {k} : Hash[x] = Hash[y] =>
              (Place(Chain(x), x) < Place(Chain(y), y)
                <=> Place(buckets'[Hash[x]], x) < Place(buckets'[Hash[y]], y))
<1>1. /\ buckets'[Hash[k]] = d
      /\ \A b \in Buckets : b # Hash[k] => buckets'[b] = buckets[b]
  BY EditTypes
<1>2. Hash[k] \in Buckets
  BY PresentIs
<1>3. Present' = UNION {KeysIn(buckets'[b]) : b \in Buckets}
  BY DEF Present, KeysIn, Buckets
<1>4. ASSUME NEW x
      PROVE  x \in Present' <=> x \in (Present \ {k}) \union ({k} \intersect KeysIn(d))
  <2>1. CASE x = k
    <3>1. ASSUME NEW b \in Buckets, b # Hash[k] PROVE k \notin KeysIn(buckets'[b])
      BY <1>1, <3>1, PresentIs
    <3> QED
      BY <1>1, <1>2, <1>3, <2>1, <3>1
  <2>2. CASE x # k
    <3>1. \A b \in Buckets : x \in KeysIn(buckets'[b]) <=> x \in KeysIn(buckets[b])
      <4>1. x \in KeysIn(d) <=> x \in KeysIn(Chain(k))
        BY <2>2 DEF Edits
      <4> QED
        BY <1>1, <1>2, <4>1 DEF Chain
    <3> QED
      BY <1>3, <2>2, <3>1 DEF Present
  <2> QED
    BY <2>1, <2>2
<1>5. \A x : ValueOf(x)' = buckets'[Hash[x]][Place(buckets'[Hash[x]], x)].value
  BY FindsNext DEF ValueOf, Chain
<1>6. \A x : ValueOf(x) = Chain(x)[Place(Chain(x), x)].value
  BY Finds DEF ValueOf
<1>7. ASSUME NEW x \in Present \ {k}
      PROVE  /\ Hash[x] \in Buckets
             /\ Hash[x] = Hash[k] => x \in KeysIn(Chain(k)) \ {k}
             /\ Hash[x] # Hash[k] => buckets'[Hash[x]] = Chain(x)
  BY <1>1, PresentIs DEF Chain
<1>8. ASSUME NEW x \in Present \ {k} PROVE ValueOf(x)' = ValueOf(x)
  <2>1. CASE Hash[x] = Hash[k]
    BY <1>1, <1>5, <1>6, <1>7, <2>1 DEF Edits, SameBut, Chain
  <2>2. CASE Hash[x] # Hash[k]
    BY <1>5, <1>6, <1>7, <2>2
  <2> QED
    BY <2>1, <2>2
<1>9. k \in KeysIn(d) => ValueOf(k)' = d[Place(d, k)].value
  BY <1>1, <1>5
<1>10. ASSUME NEW x \in Present \ {k}, NEW y \in Present \ {k}, Hash[x] = Hash[y]
       PROVE  Place(Chain(x), x) < Place(Chain(y), y)
                <=> Place(buckets'[Hash[x]], x) < Place(buckets'[Hash[y]], y)
  <2>1. CASE Hash[x] = Hash[k]
    BY <1>1, <1>7, <1>10, <2>1 DEF Edits, SameBut, Chain
  <2>2. CASE Hash[x] # Hash[k]
    BY <1>7, <1>10, <2>2
  <2> QED
    BY <2>1, <2>2
<1> QED
  BY <1>4, <1>8, <1>9, <1>10

\* The test that most functions of hashmap.c begin with.
LEMMA FoundIs ==
  ASSUME Types, NEW k \in Keys
  PROVE  /\ Found(k) <=> k \in Present
         /\ Found(k) <=> k \in KeysIn(Chain(k))
<1>1. Tidy(Hash[k], Chain(k))
  BY PresentIs
<1>2. DOMAIN Chain(k) = 1 .. Len(Chain(k)) /\ Len(Chain(k)) \in Nat
  BY <1>1, LenProperties DEF Tidy
<1>3. Place(Chain(k), k) # 0 <=> k \in KeysIn(Chain(k))
  BY <1>1, <1>2, PlaceFinds
<1> QED
  BY <1>3, PresentIs, Finds DEF Found

\* An edit after which k has value v, and no other entry has moved.
Puts(k, d, v) ==
  /\ Edits(k, d) /\ k \in KeysIn(d) /\ d[Place(d, k)].value = v
  /\ \A x \in KeysIn(Chain(k)) : Place(d, x) = Place(Chain(k), x)

\* An assignment to the value of an entry that is there.
LEMMA ValueEdits ==
  ASSUME Types, NEW k \in Keys, k \in Present, NEW v \in Values,
         buckets' = [buckets EXCEPT ![Hash[k]][FindBefore(k)].value = v]
  PROVE  \E d : Puts(k, d, v)
<1>1. PICK c : c = Chain(k)
  OBVIOUS
<1>2. PICK p : p = Place(c, k)
  OBVIOUS
<1>3. PICK e : e = [c[p] EXCEPT !.value = v]
  OBVIOUS
<1>4. PICK d : d = [c EXCEPT ![p] = e]
  OBVIOUS
<1>5. Tidy(Hash[k], c) /\ k \in KeysIn(c)
  BY <1>1, PresentIs
<1>6. Revalues(c, d, k, v)
  BY <1>2, <1>3, <1>4, <1>5, Updated
<1>7. /\ Tidy(Hash[k], d) /\ KeysIn(d) = KeysIn(c)
      /\ d[Place(d, k)].value = v /\ SameBut(c, d, k)
      /\ \A x \in KeysIn(c) : Place(d, x) = Place(c, x)
  BY <1>5, <1>6, Revalued
<1>8. buckets' = [buckets EXCEPT ![Hash[k]] = d]
  <2>1. FindBefore(k) = p
    BY <1>1, <1>2, Finds
  <2> QED
    BY <1>1, <1>3, <1>4, <2>1 DEF Chain
<1> QED
  BY <1>1, <1>5, <1>7, <1>8 DEF Edits, Puts

\* yfh_set, of a key that is there and of a new one.
LEMMA SetEdits ==
  ASSUME Types, NEW k \in Keys, NEW v \in Values, Set(k, v)
  PROVE  \E d : Puts(k, d, v)
<1>1. CASE Found(k)
  BY <1>1, FoundIs, ValueEdits DEF Set
<1>2. CASE ~Found(k)
  <2>1. PICK c : c = Chain(k)
    OBVIOUS
  <2>2. PICK d : Appends(c, d, k, v)
    BY DEF Appends
  <2>3. PICK b : b = Hash[k]
    OBVIOUS
  <2>4. Tidy(b, c) /\ k \notin KeysIn(c)
    BY <1>2, <2>1, <2>3, FoundIs, PresentIs
  <2>5. /\ Tidy(b, d) /\ KeysIn(d) = KeysIn(c) \union {k}
        /\ d[Place(d, k)].value = v /\ SameBut(c, d, k)
        /\ \A x \in KeysIn(c) : Place(d, x) = Place(c, x)
    BY <2>2, <2>3, <2>4, Appended
  <2>6. buckets' = [buckets EXCEPT ![Hash[k]] = d]
    BY <1>2, <2>1, <2>2 DEF Set, Chain, Appends
  <2> QED
    BY <2>1, <2>3, <2>5, <2>6 DEF Edits, Puts
<1> QED
  BY <1>1, <1>2

\* The removals.
LEMMA WithoutEdits ==
  ASSUME Types, NEW k \in Keys, k \in Present, buckets' = Without(k)
  PROVE  \E d : Edits(k, d) /\ k \notin KeysIn(d)
<1>1. PICK d : d = SeqExt!RemoveAt(Chain(k), Place(Chain(k), k))
  OBVIOUS
<1>2. Tidy(Hash[k], Chain(k)) /\ k \in KeysIn(Chain(k))
  BY PresentIs
<1>3. Tidy(Hash[k], d) /\ KeysIn(d) = KeysIn(Chain(k)) \ {k} /\ SameBut(Chain(k), d, k)
  BY <1>1, <1>2, Removed
<1>4. buckets' = [buckets EXCEPT ![Hash[k]] = d]
  BY <1>1, Finds DEF Without, Chain
<1> QED
  BY <1>3, <1>4 DEF Edits

-------------------------------------------------------------------------------
(* Where the cursor goes *)

\* What lies behind the entry at place i of a chain is the next one and what lies behind that.
LEMMA StepInChain ==
  ASSUME NEW b, NEW c, Tidy(b, c), NEW i \in Nat, i < Len(c), NEW n, n = c[i + 1].key
  PROVE  /\ n \in KeysIn(c) /\ Place(c, n) = i + 1
         /\ \A x \in KeysIn(c) : i < Place(c, x) <=> x = n \/ Place(c, n) < Place(c, x)
<1>1. Len(c) \in Nat /\ DOMAIN c = 1 .. Len(c)
  BY LenProperties DEF Tidy
<1>2. i + 1 \in DOMAIN c
  BY <1>1
<1>3. n \in KeysIn(c) /\ Place(c, n) = i + 1
  BY <1>2, PlaceIs DEF KeysIn
<1>4. ASSUME NEW x \in KeysIn(c)
      PROVE  i < Place(c, x) <=> x = n \/ Place(c, n) < Place(c, x)
  <2>1. Place(c, x) \in 1 .. Len(c) /\ c[Place(c, x)].key = x
    BY <1>1, PlaceFinds
  <2>2. Place(c, x) = i + 1 => x = n
    BY <2>1
  <2> QED
    BY <1>1, <1>3, <2>1, <2>2
<1> QED
  BY <1>3, <1>4

\* What lies behind a cursor that is at an entry, or before or behind a whole chain.
Behind(c) ==
  {x \in Present : \/ Hash[x] > c.bucket
                   \/ /\ Hash[x] = c.bucket /\ c.current # None
                      /\ Place(Chain(c.current), c.current) < Place(Chain(x), x)}

\* Coming to c leaves, of what was due, what lies behind c.
Reaches(c, due0) ==
  /\ c = Cursor(c.bucket, c.current)
  /\ c.current = None => c = Cursor(Null, None) /\ due0 = {}
  /\ c.current # None => /\ c.bucket \in Buckets /\ c.current \in KeysIn(buckets[c.bucket])
                         /\ c.current \in due0 /\ due0 = {c.current} \union Behind(c)
                         /\ c.current \notin Behind(c)

\* Entry n at place i + 1 of bucket b comes next.
LEMMA NextInChain ==
  ASSUME Types, NEW b \in Buckets, NEW i \in Nat, i < Len(buckets[b]), NEW n, n = buckets[b][i + 1].key,
         NEW due0, \A x : x \in due0 <=> /\ x \in Present
                                         /\ Hash[x] > b \/ (Hash[x] = b /\ i < Place(Chain(x), x))
  PROVE  n # None /\ Reaches(Cursor(b, n), due0)
<1>1. Tidy(b, buckets[b])
  BY DEF Types
<1>2. /\ n \in KeysIn(buckets[b]) /\ Place(buckets[b], n) = i + 1
      /\ \A x \in KeysIn(buckets[b]) : i < Place(buckets[b], x)
                                         <=> x = n \/ Place(buckets[b], n) < Place(buckets[b], x)
  BY <1>1, StepInChain
<1>3. n \in Keys /\ n \in Present /\ Hash[n] = b /\ n # None
  BY <1>2, PresentIs, HashMapAssumption
<1>4. \A x \in Present : Hash[x] = b => Chain(x) = buckets[b] /\ x \in KeysIn(buckets[b])
  BY PresentIs DEF Chain
<1>5. b \in Int /\ \A x \in Present : Hash[x] \in Int
  BY PresentIs DEF Buckets
<1>6. Cursor(b, n).bucket = b /\ Cursor(b, n).current = n
  BY DEF Cursor
<1>7. \A x : x \in Behind(Cursor(b, n)) <=>
               /\ x \in Present
               /\ Hash[x] > b \/ (Hash[x] = b /\ Place(buckets[b], n) < Place(buckets[b], x))
  BY <1>3, <1>4, <1>6 DEF Behind
<1>8. n \in due0 /\ n \notin Behind(Cursor(b, n))
  BY <1>2, <1>3, <1>4, <1>5, <1>7
<1>9. due0 = {n} \union Behind(Cursor(b, n))
  BY <1>2, <1>3, <1>4, <1>5, <1>7, <1>8
<1> QED
  BY <1>2, <1>3, <1>6, <1>8, <1>9 DEF Reaches, Cursor

\* Behind bucket b comes the first entry of the first bucket that has one.
LEMMA AdvanceReaches ==
  ASSUME Types, NEW b \in Buckets,
         NEW due0, \A x : x \in due0 <=> x \in Present /\ Hash[x] > b
  PROVE  Reaches(Advance(b), due0)
<1> DEFINE full == {c \in b + 1 .. NumBuckets - 1 : buckets[c] # <<>>}
<1>1. b \in Nat /\ NumBuckets \in Nat /\ full \in SUBSET Nat /\ full \subseteq Buckets
  BY HashMapAssumption DEF Buckets
<1>2. \A x \in Present : Hash[x] \in Buckets /\ x \in KeysIn(buckets[Hash[x]]) /\ buckets[Hash[x]] # <<>>
  BY PresentIs DEF Chain, KeysIn
<1>3. \A x \in due0 : Hash[x] \in full
  BY <1>1, <1>2 DEF Buckets
<1>4. Advance(b) = IF full = {} THEN Cursor(Null, None) ELSE Cursor(Min(full), First(Min(full)))
  BY DEF Advance
<1>5. CASE full = {}
  <2>1. Advance(b) = Cursor(Null, None) /\ due0 = {}
    BY <1>3, <1>4, <1>5
  <2> QED
    BY <2>1 DEF Reaches, Cursor
<1>6. CASE full # {}
  <2>1. PICK m : m = Min(full)
    OBVIOUS
  <2>2. m \in full /\ \A c \in full : m =< c
    <3> HIDE DEF full
    <3> QED
      BY <1>1, <1>6, <2>1, Least
  <2>3. m \in Buckets /\ b < m /\ buckets[m] # <<>> /\ buckets[m] \in Seq(Entries)
    BY <1>1, <2>2 DEF Types
  <2>4. Len(buckets[m]) \in Nat /\ 0 < Len(buckets[m])
    BY <2>3, EmptySeq
  <2>5. First(m) = buckets[m][0 + 1].key
    BY <2>3 DEF First
  <2>6. ASSUME NEW x
        PROVE  x \in due0 <=> /\ x \in Present
                              /\ Hash[x] > m \/ (Hash[x] = m /\ 0 < Place(Chain(x), x))
    <3>1. x \in Present => 0 < Place(Chain(x), x)
      <4>1. x \in Present => x \in KeysIn(Chain(x)) /\ Tidy(Hash[x], Chain(x))
        BY PresentIs
      <4>2. x \in Present => Place(Chain(x), x) \in DOMAIN Chain(x)
        BY <4>1, PlaceFinds
      <4>3. x \in Present => Chain(x) \in Seq(Entries)
        BY <4>1 DEF Tidy
      <4> QED
        BY <4>2, <4>3, LenProperties
    <3>2. x \in due0 => Hash[x] >= m
      BY <1>3, <2>2
    <3>3. x \in Present => Hash[x] \in Nat
      BY <1>2 DEF Buckets
    <3> QED
      BY <1>1, <2>3, <3>1, <3>2, <3>3 DEF Buckets
  <2>7. Reaches(Cursor(m, First(m)), due0)
    BY <2>3, <2>4, <2>5, <2>6, NextInChain
  <2> QED
    BY <1>4, <1>6, <2>1, <2>7
<1> QED
  BY <1>5, <1>6

\* The cursor's chain and place, while it is at an entry.
LEMMA AtEntry ==
  ASSUME Types, Placed, phase \in {"at", "removed"}, cur.current # None
  PROVE  /\ cur.current \in Keys /\ cur.current \in Present /\ Hash[cur.current] = cur.bucket
         /\ Chain(cur.current) = buckets[cur.bucket]
         /\ Place(Chain(cur.current), cur.current) \in 1 .. Len(buckets[cur.bucket])
<1>1. cur.bucket \in Buckets /\ cur.current \in KeysIn(buckets[cur.bucket])
  BY DEF Placed
<1>2. cur.current \in Keys /\ cur.current \in Present /\ Hash[cur.current] = cur.bucket
  BY <1>1, PresentIs
<1>3. Chain(cur.current) = buckets[cur.bucket]
  BY <1>2 DEF Chain
<1>4. Place(buckets[cur.bucket], cur.current) \in DOMAIN buckets[cur.bucket]
  BY <1>1, PlaceFinds DEF Types
<1>5. DOMAIN buckets[cur.bucket] = 1 .. Len(buckets[cur.bucket])
  BY <1>1, LenProperties DEF Types
<1> QED
  BY <1>2, <1>3, <1>4, <1>5

\* Before an iteration everything lies ahead.
LEMMA AllAhead ==
  ASSUME Types, Placed, phase \in {"start", "ended"}
  PROVE  Ahead = Present
<1>1. cur.bucket = -1
  BY DEF Placed, Cursor, Null
<1>2. \A x \in Present : Hash[x] > -1
  <2>1. \A x \in Present : Hash[x] \in Buckets
    BY PresentIs
  <2> QED
    BY <2>1 DEF Buckets
<1> QED
  BY <1>1, <1>2 DEF Ahead

\* yfh_cursor_next comes to the first of what lies ahead.
LEMMA NextReaches ==
  ASSUME Types, Placed, phase \in {"start", "at", "ended"} \/ (phase = "removed" /\ cur.current = None)
  PROVE  Reaches(NextCursor, Ahead)
<1>1. ASSUME NEW b \in Buckets PROVE buckets[b] \in Seq(Entries) /\ Len(buckets[b]) \in Nat
  BY LenProperties DEF Types
<1>2. \A x \in Present : /\ Hash[x] \in Buckets /\ x \in KeysIn(buckets[Hash[x]])
                         /\ Chain(x) = buckets[Hash[x]]
  BY PresentIs DEF Chain
<1>3. \A x \in Present : Place(Chain(x), x) \in 1 .. Len(buckets[Hash[x]])
  BY <1>1, <1>2, PlaceFinds, LenProperties DEF Types
<1>4. CASE phase \in {"start", "ended"}
  <2>1. cur.bucket = Null /\ Ahead = Present
    BY <1>4, AllAhead DEF Placed, Cursor
  <2>2. 0 \in Buckets
    BY HashMapAssumption DEF Buckets
  <2>3. CASE buckets[0] = <<>>
    <3>1. NextCursor = Advance(0)
      BY <2>1, <2>3 DEF NextCursor, First
    <3>2. \A x \in Present : Hash[x] > 0
      <4>1. KeysIn(<<>>) = {}
        BY DEF KeysIn
      <4> QED
        BY <1>2, <2>3, <4>1 DEF Buckets
    <3> QED
      BY <2>1, <2>2, <3>1, <3>2, AdvanceReaches
  <2>4. CASE buckets[0] # <<>>
    <3>1. 0 < Len(buckets[0]) /\ First(0) = buckets[0][0 + 1].key
      BY <1>1, <2>2, <2>4, EmptySeq DEF First
    <3>2. \A x \in Present : Hash[x] > 0 \/ (Hash[x] = 0 /\ 0 < Place(Chain(x), x))
      BY <1>2, <1>3 DEF Buckets
    <3>3. First(0) # None /\ Reaches(Cursor(0, First(0)), Ahead)
      BY <2>1, <2>2, <3>1, <3>2, NextInChain
    <3>4. NextCursor = Cursor(0, First(0))
      BY <2>1, <3>3 DEF NextCursor
    <3> QED
      BY <3>3, <3>4
  <2> QED
    BY <2>3, <2>4
<1>5. CASE phase = "at"
  <2> DEFINE k == cur.current
             b == cur.bucket
             i == Place(Chain(k), k)
  <2>1. /\ k # None /\ b \in Buckets /\ b # Null /\ Hash[k] = b /\ k \in Present
        /\ Chain(k) = buckets[b] /\ i \in 1 .. Len(buckets[b])
    BY <1>5, AtEntry DEF Placed, Buckets, Null
  <2>2. \A x : x \in Ahead <=> /\ x \in Present
                               /\ Hash[x] > b \/ (Hash[x] = b /\ i < Place(Chain(x), x))
    BY <1>5, <2>1 DEF Ahead
  <2>3. After(k) = IF i + 1 > Len(buckets[b]) THEN None ELSE buckets[b][i + 1].key
    BY <2>1, Finds DEF After
  <2>4. NextCursor = IF After(k) # None THEN Cursor(b, After(k)) ELSE Advance(b)
    BY <2>1 DEF NextCursor
  <2>5. Len(buckets[b]) \in Nat
    BY <1>1, <2>1
  <2> HIDE DEF i
  <2>6. CASE i < Len(buckets[b])
    <3>1. After(k) = buckets[b][i + 1].key
      BY <2>1, <2>3, <2>5, <2>6
    <3>2. i \in Nat
      BY <2>1
    <3>3. After(k) # None /\ Reaches(Cursor(b, After(k)), Ahead)
      BY <2>1, <2>2, <2>6, <3>1, <3>2, NextInChain
    <3> QED
      BY <2>4, <3>3
  <2>7. CASE ~(i < Len(buckets[b]))
    <3>1. After(k) = None
      BY <2>1, <2>3, <2>5, <2>7
    <3>2. \A x : x \in Ahead <=> x \in Present /\ Hash[x] > b
      BY <1>3, <2>1, <2>2, <2>5, <2>7
    <3>3. Reaches(Advance(b), Ahead)
      BY <2>1, <3>2, AdvanceReaches
    <3> QED
      BY <2>4, <3>1, <3>3
  <2> QED
    BY <2>6, <2>7
<1>6. CASE phase = "removed" /\ cur.current = None
  <2>1. cur.bucket \in Buckets /\ cur.bucket # Null
    BY <1>6 DEF Placed, Buckets, Null
  <2>2. NextCursor = Advance(cur.bucket)
    BY <1>6, <2>1 DEF NextCursor
  <2>3. \A x : x \in Ahead <=> x \in Present /\ Hash[x] > cur.bucket
    BY <1>6 DEF Ahead
  <2> QED
    BY <2>1, <2>2, <2>3, AdvanceReaches
<1> QED
  BY <1>4, <1>5, <1>6

-------------------------------------------------------------------------------
(* Each step keeps the invariant *)

\* The cursor's entry is still there after an edit, if it is not the one that was removed.
LEMMA EditPlaced ==
  ASSUME Types, Placed, NEW k \in Keys, NEW d, Edits(k, d), UNCHANGED <<cur, phase>>,
         phase \in {"at", "removed"} /\ cur.current = k => k \in KeysIn(d)
  PROVE  Types' /\ Placed'
<1>1. /\ buckets' \in [Buckets -> Seq(Entries)]
      /\ \A b \in Buckets : Tidy(b, buckets'[b])
      /\ buckets'[Hash[k]] = d
      /\ \A b \in Buckets : b # Hash[k] => buckets'[b] = buckets[b]
  BY EditTypes
<1>2. Types'
  BY <1>1 DEF Types, Buckets
<1>3. ASSUME phase \in {"at", "removed"}, cur.current # None
      PROVE  cur.current \in KeysIn(buckets'[cur.bucket])
  <2>1. cur.bucket \in Buckets /\ cur.current \in KeysIn(buckets[cur.bucket])
    BY <1>3 DEF Placed
  <2>2. CASE cur.bucket = Hash[k]
    BY <1>1, <1>3, <2>1, <2>2 DEF Edits, Chain
  <2>3. CASE cur.bucket # Hash[k]
    BY <1>1, <2>1, <2>3
  <2> QED
    BY <2>2, <2>3
<1>4. Placed'
  BY <1>3 DEF Placed, Buckets
<1> QED
  BY <1>2, <1>4

\* yfh_set and yfh_cursor_set.
LEMMA PutStep ==
  ASSUME IInv, NEW k \in Keys, NEW v, NEW d, Puts(k, d, v), UNCHANGED <<cur, phase, visited, due>>
  PROVE  IInv'
<1>1. Types /\ Placed /\ Iteration /\ Edits(k, d) /\ k \in KeysIn(d)
  BY DEF IInv, Puts
<1>2. Types' /\ Placed'
  BY <1>1, EditPlaced
<1>3. Present' = Present \union {k}
  BY <1>1, EditKeeps
<1>4. /\ buckets'[Hash[k]] = d
      /\ \A b \in Buckets : b # Hash[k] => buckets'[b] = buckets[b]
  BY <1>1, EditTypes
<1>5. ASSUME NEW x \in Present PROVE Place(buckets'[Hash[x]], x) = Place(Chain(x), x)
  <2>1. Hash[x] \in Buckets /\ x \in KeysIn(Chain(x))
    BY <1>1, PresentIs
  <2> QED
    BY <1>4, <2>1 DEF Puts, Chain
<1>6. ASSUME phase \in {"at", "removed"}
      PROVE  Ahead \subseteq Ahead' /\ Ahead' \intersect Present \subseteq Ahead
  <2>1. cur.current # None => cur.current \in Present
    BY <1>1, <1>6, AtEntry
  <2>2. cur.current # None =>
          Place(Chain(cur.current)', cur.current) = Place(Chain(cur.current), cur.current)
    BY <1>5, <2>1 DEF Chain
  <2>3. \A x \in Present : Place(Chain(x)', x) = Place(Chain(x), x)
    BY <1>5 DEF Chain
  <2>4. \A x : x \in Ahead' <=>
          /\ x \in Present'
          /\ \/ Hash[x] > cur.bucket
             \/ /\ Hash[x] = cur.bucket /\ cur.current # None
                /\ \/ Place(Chain(cur.current)', cur.current) < Place(Chain(x)', x)
                   \/ phase = "removed" /\ x = cur.current
    BY <2>2 DEF Ahead, Chain
  <2> QED
    BY <1>3, <2>2, <2>3, <2>4 DEF Ahead
<1>7. Iteration'
  BY <1>1, <1>3, <1>6 DEF Iteration
<1> QED
  BY <1>2, <1>7 DEF IInv

\* A removal elsewhere leaves ahead of the cursor what was ahead of it.
LEMMA RemoveElsewhere ==
  ASSUME IInv, NEW k \in Keys, NEW d, Edits(k, d), k \notin KeysIn(d),
         UNCHANGED <<cur, phase>>, phase \in {"at", "removed"}, cur.current # k
  PROVE  Ahead' = Ahead \ {k}
<1>1. Types /\ Placed
  BY DEF IInv
<1>2. /\ Present' = Present \ {k}
      /\ \A x, y \in Present \ {k} : Hash[x] = Hash[y] =>
              (Place(Chain(x), x) < Place(Chain(y), y)
                <=> Place(buckets'[Hash[x]], x) < Place(buckets'[Hash[y]], y))
  BY <1>1, EditKeeps
<1>3. cur.current # None => cur.current \in Present \ {k} /\ Hash[cur.current] = cur.bucket
  BY <1>1, AtEntry
<1>4. \A x : x \in Ahead' <=>
        /\ x \in Present'
        /\ \/ Hash[x] > cur.bucket
           \/ /\ Hash[x] = cur.bucket /\ cur.current # None
              /\ \/ Place(buckets'[Hash[cur.current]], cur.current) < Place(buckets'[Hash[x]], x)
                 \/ phase = "removed" /\ x = cur.current
  BY DEF Ahead, Chain
<1> QED
  BY <1>2, <1>3, <1>4 DEF Ahead

\* yfh_remove
LEMMA RemoveStep ==
  ASSUME IInv, NEW k \in Keys, Remove(k)
  PROVE  IInv'
<1>1. Types /\ Placed /\ Iteration
  BY DEF IInv
<1>2. k # None
  BY HashMapAssumption
<1>3. CASE ~Found(k)
  <2>1. k \notin Present /\ UNCHANGED <<buckets, cur>> /\ visited' = visited \ {k} /\ due' = due \ {k}
    BY <1>1, <1>3, FoundIs DEF Remove
  <2>2. phase' = phase \/ phase' = "invalid"
    BY DEF Remove
  <2>3. Types' /\ Placed' /\ Present' = Present
    BY <1>1, <2>1, <2>2 DEF Types, Placed, Buckets, Present, KeysIn
  <2>4. phase' = phase => Ahead' = Ahead
    BY <2>1, <2>3 DEF Ahead, Chain
  <2>5. Iteration'
    BY <1>1, <2>1, <2>2, <2>3, <2>4 DEF Iteration
  <2> QED
    BY <2>3, <2>5 DEF IInv
<1>4. CASE Found(k)
  <2>1. /\ buckets' = Without(k) /\ k \in Present /\ UNCHANGED cur
        /\ visited' = visited \ {k} /\ due' = due \ {k}
        /\ phase' = IF cur.current = k THEN "invalid" ELSE phase
    BY <1>1, <1>4, FoundIs DEF Remove
  <2>2. PICK d : Edits(k, d) /\ k \notin KeysIn(d)
    BY <1>1, <2>1, WithoutEdits
  <2>3. Present' = Present \ {k}
    BY <1>1, <2>2, EditKeeps
  <2>4. CASE cur.current = k
    <3>1. phase' = "invalid"
      BY <2>1, <2>4
    <3>2. Types'
      BY <1>1, <2>1, <2>2, EditTypes DEF Types, Buckets
    <3> QED
      BY <1>1, <2>1, <2>3, <3>1, <3>2 DEF IInv, Placed, Iteration
  <2>5. CASE cur.current # k
    <3>1. UNCHANGED phase
      BY <2>1, <2>5
    <3>2. Types' /\ Placed'
      BY <1>1, <2>1, <2>2, <2>5, <3>1, EditPlaced
    <3>3. phase \in {"at", "removed"} => Ahead' = Ahead \ {k}
      BY <2>1, <2>2, <2>5, <3>1, RemoveElsewhere
    <3>4. Iteration'
      BY <1>1, <2>1, <2>3, <3>1, <3>3 DEF Iteration
    <3> QED
      BY <3>2, <3>4 DEF IInv
  <2> QED
    BY <2>4, <2>5
<1> QED
  BY <1>3, <1>4

\* The entry behind that of the cursor, when that is to be removed.
LEMMA AfterIs ==
  ASSUME Types, Placed, phase = "at", NEW k, k = cur.current, NEW n, n = After(k)
  PROVE  /\ n # None => /\ n \in Present \ {k} /\ Hash[n] = cur.bucket
                        /\ \A x \in Present : Hash[x] = cur.bucket =>
                             (Place(Chain(k), k) < Place(Chain(x), x)
                               <=> x = n \/ Place(Chain(n), n) < Place(Chain(x), x))
         /\ n = None => \A x \in Present : Hash[x] = cur.bucket =>
                                             ~(Place(Chain(k), k) < Place(Chain(x), x))
<1> DEFINE b == cur.bucket
           c == buckets[b]
           i == Place(Chain(k), k)
<1>1. /\ k # None /\ b \in Buckets /\ k \in Present /\ Hash[k] = b
      /\ Chain(k) = c /\ i \in 1 .. Len(c)
  BY AtEntry DEF Placed
<1>2. Tidy(b, c) /\ Len(c) \in Nat /\ DOMAIN c = 1 .. Len(c)
  BY <1>1, LenProperties DEF Types, Tidy
<1>3. n = IF i + 1 > Len(c) THEN None ELSE c[i + 1].key
  BY <1>1, Finds DEF After
<1>4. \A x \in Present : Hash[x] = b => Chain(x) = c /\ x \in KeysIn(c)
  BY PresentIs DEF Chain
<1> HIDE DEF c, i
<1>5. CASE i < Len(c)
  <2>1. n = c[i + 1].key /\ i \in Nat
    BY <1>1, <1>2, <1>3, <1>5
  <2>2. /\ n \in KeysIn(c) /\ Place(c, n) = i + 1
        /\ \A x \in KeysIn(c) : i < Place(c, x) <=> x = n \/ Place(c, n) < Place(c, x)
    BY <1>2, <1>5, <2>1, StepInChain
  <2>3. n \in Present /\ Hash[n] = b /\ n \in Keys
    BY <1>1, <2>2, PresentIs DEF c
  <2>4. n # k /\ n # None
    <3>1. Place(c, k) = i
      BY <1>1 DEF i
    <3> QED
      BY <1>1, <2>2, <2>3, <3>1, HashMapAssumption
  <2> QED
    BY <1>4, <2>2, <2>3, <2>4 DEF i
<1>6. CASE ~(i < Len(c))
  <2>1. n = None
    BY <1>1, <1>2, <1>3, <1>6
  <2>2. \A x \in KeysIn(c) : ~(i < Place(c, x))
    BY <1>1, <1>2, <1>6, PlaceFinds
  <2> QED
    BY <1>4, <2>1, <2>2 DEF i
<1> QED
  BY <1>5, <1>6

\* yfh_remove_at
LEMMA RemoveAtStep ==
  ASSUME IInv, RemoveAtCursor, cur.current # None
  PROVE  IInv'
<1>1. Types /\ Placed /\ Iteration
  BY DEF IInv
<1>2. phase = "at"
  BY <1>1 DEF RemoveAtCursor, Placed, Cursor
<1>3. PICK k : k = cur.current
  OBVIOUS
<1>4. PICK n : n = After(k)
  OBVIOUS
<1>5. /\ buckets' = Without(k) /\ cur' = [cur EXCEPT !.current = n]
      /\ phase' = "removed" /\ visited' = visited \ {k} /\ due' = due \ {k}
  BY <1>3, <1>4 DEF RemoveAtCursor
<1>6. k \in Keys /\ k \in Present /\ Hash[k] = cur.bucket /\ cur.bucket \in Buckets
  BY <1>1, <1>2, <1>3, AtEntry DEF Placed
<1>7. PICK d : Edits(k, d) /\ k \notin KeysIn(d)
  BY <1>1, <1>5, <1>6, WithoutEdits
<1>8. /\ Present' = Present \ {k}
      /\ \A x, y \in Present \ {k} : Hash[x] = Hash[y] =>
              (Place(Chain(x), x) < Place(Chain(y), y)
                <=> Place(buckets'[Hash[x]], x) < Place(buckets'[Hash[y]], y))
  BY <1>1, <1>6, <1>7, EditKeeps
<1>9. /\ n # None => /\ n \in Present \ {k} /\ Hash[n] = cur.bucket
                     /\ \A x \in Present : Hash[x] = cur.bucket =>
                          (Place(Chain(k), k) < Place(Chain(x), x)
                            <=> x = n \/ Place(Chain(n), n) < Place(Chain(x), x))
      /\ n = None => \A x \in Present : Hash[x] = cur.bucket =>
                                          ~(Place(Chain(k), k) < Place(Chain(x), x))
  BY <1>1, <1>2, <1>3, <1>4, AfterIs
<1>10. n \in Keys \union {None}
  BY <1>1, <1>9, PresentIs
<1>11. cur'.bucket = cur.bucket /\ cur'.current = n
  BY <1>1, <1>5 DEF Types
<1>12. Types'
  <2>1. cur' \in [bucket : Buckets \union {Null}, current : Keys \union {None}]
    BY <1>1, <1>5, <1>10 DEF Types
  <2> QED
    BY <1>1, <1>6, <1>7, <2>1, EditTypes DEF Types, Buckets, Null
<1>13. Placed'
  <2>1. n # None => n \in KeysIn(buckets'[cur.bucket])
    <3>1. n # None => n \in KeysIn(Chain(k)) \ {k}
      BY <1>1, <1>6, <1>9, PresentIs DEF Chain
    <3>2. buckets'[cur.bucket] = d
      BY <1>1, <1>6, <1>7, EditTypes
    <3> QED
      BY <1>7, <3>1, <3>2 DEF Edits
  <2> QED
    BY <1>5, <1>6, <1>11, <2>1 DEF Placed, Buckets
<1>14. Ahead' = Ahead
  <2>1. \A x : x \in Ahead' <=>
          /\ x \in Present'
          /\ \/ Hash[x] > cur.bucket
             \/ /\ Hash[x] = cur.bucket /\ n # None
                /\ Place(buckets'[Hash[n]], n) < Place(buckets'[Hash[x]], x) \/ x = n
    BY <1>5, <1>11 DEF Ahead, Chain
  <2>2. \A x : x \in Ahead <=>
          /\ x \in Present
          /\ Hash[x] > cur.bucket \/ (Hash[x] = cur.bucket /\ Place(Chain(k), k) < Place(Chain(x), x))
    BY <1>2, <1>3 DEF Ahead
  <2>3. k \notin Ahead
    <3>1. ~(Hash[k] > cur.bucket)
      BY <1>6 DEF Buckets
    <3>2. Place(Chain(k), k) \in Int
      BY <1>1, <1>2, <1>3, AtEntry
    <3> QED
      BY <2>2, <3>1, <3>2
  <2>4. ASSUME NEW x \in Present \ {k}, Hash[x] = cur.bucket
        PROVE  Place(Chain(k), k) < Place(Chain(x), x) <=>
                 n # None /\ (Place(buckets'[Hash[n]], n) < Place(buckets'[Hash[x]], x) \/ x = n)
    <3>1. CASE n = None
      BY <1>9, <2>4, <3>1
    <3>2. CASE n # None
      BY <1>8, <1>9, <2>4, <3>2
    <3> QED
      BY <3>1, <3>2
  <2> QED
    BY <1>8, <2>1, <2>2, <2>3, <2>4
<1>15. Iteration'
  BY <1>1, <1>2, <1>5, <1>8, <1>14 DEF Iteration
<1> QED
  BY <1>12, <1>13, <1>15 DEF IInv

\* The cursor comes to the first entry ahead.
LEMMA ArriveStep ==
  ASSUME IInv, NEW c, Arrive(c), Reaches(c, Ahead), phase # "invalid"
  PROVE  IInv'
<1>1. Types /\ Placed /\ Iteration
  BY DEF IInv
<1> DEFINE again == phase \in {"start", "ended"}
<1>2. /\ cur' = c /\ UNCHANGED buckets
      /\ phase' = IF c.current = None THEN "ended" ELSE "at"
      /\ due' = IF again THEN Present ELSE due
      /\ visited' = (IF again THEN {} ELSE visited) \union ({c.current} \ {None})
  BY DEF Arrive
<1>3. Present' = Present
  BY <1>2 DEF Present, KeysIn, Buckets
<1>4. again => Ahead = Present
  BY <1>1, AllAhead
<1>5. ~again => phase \in {"at", "removed"}
  BY <1>1 DEF Placed
<1>6. CASE c.current = None
  <2>1. c = Cursor(Null, None) /\ Ahead = {} /\ phase' = "ended"
    BY <1>2, <1>6 DEF Reaches
  <2>2. Types' /\ Placed'
    BY <1>1, <1>2, <2>1 DEF Types, Placed, Cursor, Buckets, Null
  <2>3. Iteration'
    BY <1>1, <1>2, <1>3, <1>4, <1>5, <1>6, <2>1 DEF Iteration
  <2> QED
    BY <2>2, <2>3 DEF IInv
<1>7. CASE c.current # None
  <2>1. /\ c.bucket \in Buckets /\ c.current \in KeysIn(buckets[c.bucket])
        /\ c.current \in Ahead /\ Ahead = {c.current} \union Behind(c)
        /\ c.current \notin Behind(c) /\ phase' = "at"
    BY <1>2, <1>7 DEF Reaches
  <2>2. c.current \in Present /\ c.current \in Keys
    BY <1>1, <2>1, PresentIs
  <2>3. Types'
    <3>1. c \in [bucket : Buckets \union {Null}, current : Keys \union {None}]
      BY <2>1, <2>2 DEF Cursor, Reaches
    <3> QED
      BY <1>1, <1>2, <3>1 DEF Types, Buckets, Null
  <2>4. Placed'
    BY <1>2, <1>7, <2>1 DEF Placed, Buckets, KeysIn
  <2>5. Ahead' = Behind(c)
    <3>1. \A x : x \in Ahead' <=>
            /\ x \in Present'
            /\ \/ Hash[x] > c.bucket
               \/ /\ Hash[x] = c.bucket /\ c.current # None
                  /\ Place(buckets'[Hash[c.current]], c.current) < Place(buckets'[Hash[x]], x)
      BY <1>2, <2>1 DEF Ahead, Chain
    <3> QED
      BY <1>2, <1>3, <3>1 DEF Behind, Chain
  <2>6. visited' \subseteq Present'
    BY <1>1, <1>2, <1>3, <2>2 DEF Iteration
  <2>7. Iteration'
    <3>1. CASE again
      BY <1>2, <1>3, <1>4, <1>7, <2>1, <2>5, <2>6, <3>1 DEF Iteration
    <3>2. CASE ~again
      BY <1>1, <1>2, <1>5, <1>7, <2>1, <2>5, <2>6, <3>2 DEF Iteration
    <3> QED
      BY <3>1, <3>2
  <2> QED
    BY <2>3, <2>4, <2>7 DEF IInv
<1> QED
  BY <1>6, <1>7

\* yfh_cursor_recalibrate of a cursor that is at an entry: the one it was moved to has been visited now.
LEMMA StayStep ==
  ASSUME IInv, Arrive(cur), cur.current # None, phase \in {"at", "removed"}
  PROVE  IInv'
<1>1. Types /\ Placed /\ Iteration
  BY DEF IInv
<1>2. /\ UNCHANGED <<cur, buckets, due>> /\ phase' = "at"
      /\ visited' = visited \union {cur.current}
  BY DEF Arrive
<1>3. Types' /\ Placed' /\ Present' = Present
  BY <1>1, <1>2 DEF Types, Placed, Present, KeysIn, Buckets, Cursor
<1>4. cur.current \in Present /\ Place(Chain(cur.current), cur.current) \in Int
  BY <1>1, AtEntry
<1>5. \A x : x \in Ahead' <=>
        /\ x \in Present
        /\ \/ Hash[x] > cur.bucket
           \/ /\ Hash[x] = cur.bucket
              /\ Place(Chain(cur.current), cur.current) < Place(Chain(x), x)
  BY <1>2, <1>3 DEF Ahead, Chain
<1>6. cur.current \notin Ahead'
  <2>1. Hash[cur.current] = cur.bucket /\ cur.bucket \in Int
    BY <1>1, AtEntry DEF Placed, Buckets
  <2> QED
    BY <1>4, <1>5, <2>1
<1>7. Ahead' \subseteq Ahead /\ Ahead \subseteq Ahead' \union {cur.current}
  BY <1>5 DEF Ahead
<1>8. Iteration'
  BY <1>1, <1>2, <1>3, <1>4, <1>6, <1>7 DEF Iteration
<1> QED
  BY <1>3, <1>8 DEF IInv

\* yfh_cursor_find
LEMMA FindStep ==
  ASSUME IInv, NEW k \in Keys, CursorFind(k)
  PROVE  IInv'
<1>1. Types /\ Placed /\ Iteration /\ k # None
  BY HashMapAssumption DEF IInv
<1>2. Present' = Present /\ UNCHANGED buckets
  BY DEF CursorFind, Present, KeysIn, Buckets
<1>3. Hash[k] \in Buckets /\ (Found(k) <=> k \in Present) /\ (Found(k) <=> k \in KeysIn(Chain(k)))
  BY <1>1, PresentIs, FoundIs
<1>4. /\ cur' = Cursor(Hash[k], IF Found(k) THEN k ELSE None)
      /\ phase' = IF Found(k) THEN "at" ELSE "invalid"
      /\ visited' = {k} \intersect Present /\ due' = {}
  BY DEF CursorFind
<1>5. Types'
  BY <1>1, <1>2, <1>3, <1>4 DEF Types, Buckets, Cursor
<1>6. Placed'
  BY <1>1, <1>2, <1>3, <1>4 DEF Placed, Cursor, Buckets, Chain, KeysIn
<1>7. ASSUME Found(k) PROVE k \notin Ahead'
  <2>1. cur'.bucket = Hash[k] /\ cur'.current = k /\ phase' = "at"
    BY <1>4, <1>7 DEF Cursor
  <2>2. k \in Ahead' => \/ Hash[k] > Hash[k]
                        \/ Place(buckets'[Hash[k]], k) < Place(buckets'[Hash[k]], k)
    BY <2>1 DEF Ahead, Chain
  <2>3. Hash[k] \in Int /\ Place(buckets[Hash[k]], k) \in Int
    <3>1. Tidy(Hash[k], Chain(k)) /\ k \in KeysIn(Chain(k))
      BY <1>1, <1>3, <1>7, PresentIs
    <3>2. Place(Chain(k), k) \in DOMAIN Chain(k) /\ DOMAIN Chain(k) = 1 .. Len(Chain(k))
      BY <3>1, PlaceFinds, LenProperties DEF Tidy
    <3> QED
      BY <1>3, <3>2 DEF Buckets, Chain
  <2> QED
    BY <1>2, <2>2, <2>3
<1>8. Iteration'
  BY <1>1, <1>2, <1>3, <1>4, <1>7 DEF Iteration
<1> QED
  BY <1>5, <1>6, <1>8 DEF IInv

\* A call that changes none of what the invariant is about.
LEMMA ReadStep ==
  ASSUME IInv, UNCHANGED <<buckets, cur, phase, visited, due>>
  PROVE  IInv'
<1>1. Types' /\ Placed' /\ Present' = Present /\ Ahead' = Ahead
  BY DEF IInv, Types, Placed, Ahead, Present, KeysIn, Buckets, Chain, Cursor
<1> QED
  BY <1>1 DEF IInv, Iteration

\* yfh_cursor_set of an entry sets the value of its key.
LEMMA CursorSetPuts ==
  ASSUME IInv, NEW v \in Values, CursorSet(v), cur.current # None
  PROVE  cur.current \in Keys /\ cur.current \in Present /\ \E d : Puts(cur.current, d, v)
<1>1. Types /\ Placed
  BY DEF IInv
<1>2. phase \in {"at", "removed"}
  BY <1>1 DEF Placed, CursorSet, Cursor
<1>3. cur.current \in Keys /\ cur.current \in Present
  BY <1>1, <1>2, AtEntry
<1>4. buckets' = [buckets EXCEPT ![Hash[cur.current]][FindBefore(cur.current)].value = v]
  BY DEF CursorSet
<1> QED
  BY <1>1, <1>3, <1>4, ValueEdits

\* Where yfh_cursor_next and, with no entry under it, yfh_cursor_recalibrate take the cursor.
LEMMA MovesTo ==
  ASSUME IInv, CursorNext \/ (Recalibrate /\ cur.current = None)
  PROVE  phase # "invalid" /\ Arrive(NextCursor) /\ Reaches(NextCursor, Ahead)
<1>1. Types /\ Placed
  BY DEF IInv
<1>2. phase # "invalid" /\ Arrive(NextCursor)
  BY DEF CursorNext, Recalibrate
<1>3. phase \in {"start", "at", "ended"} \/ (phase = "removed" /\ cur.current = None)
  BY <1>1, <1>2 DEF CursorNext, Placed
<1> QED
  BY <1>1, <1>2, <1>3, NextReaches

\* Recalibrating a cursor at an entry leaves it there.
LEMMA Stays ==
  ASSUME IInv, Recalibrate, cur.current # None
  PROVE  Arrive(cur) /\ phase \in {"at", "removed"}
BY DEF IInv, Placed, Recalibrate, Cursor

\* The entries, the cursor and the iteration stay in order whatever calls the client makes, with any
\* hash function.
THEOREM Inductive == Spec => []IInv
<1>1. Init => IInv
  <2> SUFFICES ASSUME Init PROVE IInv
    OBVIOUS
  <2>1. Types
    <3>1. \A b : Tidy(b, <<>>)
      BY EmptySeq DEF Tidy
    <3> QED
      BY <3>1, EmptySeq DEF Init, Types, Cursor
  <2> QED
    BY <2>1 DEF Init, IInv, Placed, Iteration
<1>2. IInv /\ [Next]_vars => IInv'
  <2> SUFFICES ASSUME IInv, [Next]_vars PROVE IInv'
    OBVIOUS
  <2>1. ASSUME NEW k \in Keys, NEW v \in Values, Set(k, v) PROVE IInv'
    <3>1. \E d : Puts(k, d, v)
      BY <2>1, SetEdits DEF IInv
    <3> QED
      BY <2>1, <3>1, PutStep DEF Set, CursorUnchanged
  <2>2. ASSUME NEW k \in Keys, Get(k) PROVE IInv'
    BY <2>2, ReadStep DEF Get, CursorUnchanged
  <2>3. ASSUME NEW k \in Keys, Remove(k) PROVE IInv'
    BY <2>3, RemoveStep
  <2>4. ASSUME NEW k \in Keys, CursorFind(k) PROVE IInv'
    BY <2>4, FindStep
  <2>5. CASE CursorInit
    <3>1. Types' /\ Placed'
      BY <2>5 DEF CursorInit, IInv, Types, Placed, Cursor, Buckets, Null
    <3> QED
      BY <2>5, <3>1 DEF CursorInit, IInv, Iteration
  <2>6. CASE CursorNext \/ (Recalibrate /\ cur.current = None)
    BY <2>6, MovesTo, ArriveStep
  <2>7. CASE Recalibrate /\ cur.current # None
    BY <2>7, Stays, StayStep
  <2>8. CASE RemoveAtCursor
    <3>1. CASE cur.current = None
      BY <2>8, <3>1, ReadStep DEF RemoveAtCursor, CursorUnchanged
    <3>2. CASE cur.current # None
      BY <2>8, <3>2, RemoveAtStep
    <3> QED
      BY <3>1, <3>2
  <2>9. CASE CursorGet
    BY <2>9, ReadStep DEF CursorGet, CursorUnchanged
  <2>10. ASSUME NEW v \in Values, CursorSet(v) PROVE IInv'
    <3>1. CASE cur.current = None
      BY <2>10, <3>1, ReadStep DEF CursorSet, CursorUnchanged
    <3>2. CASE cur.current # None
      <4>1. PICK k : k = cur.current
        OBVIOUS
      <4>2. k \in Keys /\ \E d : Puts(k, d, v)
        BY <2>10, <3>2, <4>1, CursorSetPuts
      <4> QED
        BY <2>10, <4>2, PutStep DEF CursorSet, CursorUnchanged
    <3> QED
      BY <3>1, <3>2
  <2>11. CASE UNCHANGED vars
    BY <2>11, ReadStep DEF vars
  <2> QED
    BY <2>1, <2>2, <2>3, <2>4, <2>5, <2>6, <2>7, <2>8, <2>9, <2>10, <2>11 DEF Next
<1> QED
  BY <1>1, <1>2, PTL DEF Spec

-------------------------------------------------------------------------------
(* What follows from it *)

\* Each entry is in the bucket of its key and no key has two, and a usable cursor is at an entry of
\* its bucket, or at none (yfh_set, yfh_cursor_next).
THEOREM Typing == Spec => []TypeOK
<1>1. IInv => TypeOK
  <2> SUFFICES ASSUME IInv PROVE TypeOK
    OBVIOUS
  <2>1. Types /\ Placed
    BY DEF IInv
  <2>2. buckets \in [Buckets -> Seq([key : Keys, value : Values])]
    BY <2>1 DEF Types, Entries
  <2>3. \A b \in Buckets : \A i \in DOMAIN buckets[b] :
          /\ Hash[buckets[b][i].key] = b
          /\ \A j \in DOMAIN buckets[b] : buckets[b][i].key = buckets[b][j].key => i = j
    BY <2>1 DEF Types, Tidy
  <2>4. phase # "invalid" =>
          /\ cur.current # None => cur.current \in KeysIn(buckets[cur.bucket])
          /\ phase \in {"start", "ended"} => cur = Cursor(Null, None)
    BY <2>1 DEF Placed, Cursor
  <2> QED
    BY <2>1, <2>2, <2>3, <2>4 DEF TypeOK, Types, Placed
<1> QED
  BY <1>1, Inductive, PTL

\* A complete iteration has been at every entry that was there all the time (yfh_cursor_next).
THEOREM Complete == Spec => []VisitsAll
<1>1. IInv => VisitsAll
  BY DEF IInv, Iteration, VisitsAll
<1> QED
  BY <1>1, Inductive, PTL

\* No iteration comes to an entry twice (yfh_cursor_next, yfh_cursor_recalibrate).
THEOREM NeverTwice == Spec => VisitsOnce
<1>1. IInv /\ [Next]_vars =>
        [(CursorNext \/ Recalibrate) /\ phase \in {"at", "removed"} /\ cur'.current # cur.current
           => cur'.current \notin visited]_vars
  <2> SUFFICES ASSUME IInv, CursorNext \/ Recalibrate, phase \in {"at", "removed"},
                      cur'.current # cur.current
               PROVE  cur'.current \notin visited
    OBVIOUS
  <2>1. Types /\ Iteration
    BY DEF IInv
  <2>2. ~(Recalibrate /\ cur.current # None)
    BY DEF Recalibrate, Arrive
  <2>3. Reaches(NextCursor, Ahead) /\ cur' = NextCursor
    BY <2>2, MovesTo DEF Arrive
  <2>4. CASE NextCursor.current # None
    BY <2>1, <2>3, <2>4 DEF Reaches, Iteration
  <2>5. CASE NextCursor.current = None
    BY <2>1, <2>3, <2>5, PresentIs, HashMapAssumption DEF Iteration
  <2> QED
    BY <2>4, <2>5
<1> QED
  BY <1>1, Inductive, PTL DEF Spec, VisitsOnce

-------------------------------------------------------------------------------
(* The hash map is a dictionary *)

MapNow == [k \in Present |-> ValueOf(k)]
AtNow == IF phase = "invalid" THEN None ELSE cur.current

LEMMA MapPut ==
  ASSUME Types, NEW k \in Keys, NEW v, NEW d, Puts(k, d, v)
  PROVE  MapNow' = [x \in Present \union {k} |-> IF x = k THEN v ELSE MapNow[x]]
<1>1. /\ Present' = Present \union {k}
      /\ \A x \in Present \ {k} : ValueOf(x)' = ValueOf(x)
      /\ ValueOf(k)' = v
  BY EditKeeps DEF Puts
<1>2. MapNow' = [x \in Present' |-> ValueOf(x)']
  BY DEF MapNow
<1> QED
  BY <1>1, <1>2 DEF MapNow

LEMMA MapRemoved ==
  ASSUME Types, NEW k \in Keys, NEW d, Edits(k, d), k \notin KeysIn(d)
  PROVE  MapNow' = [x \in Present \ {k} |-> MapNow[x]]
<1>1. Present' = Present \ {k} /\ \A x \in Present \ {k} : ValueOf(x)' = ValueOf(x)
  BY EditKeeps
<1>2. MapNow' = [x \in Present' |-> ValueOf(x)']
  BY DEF MapNow
<1> QED
  BY <1>1, <1>2 DEF MapNow

LEMMA MapSame ==
  ASSUME UNCHANGED buckets
  PROVE  MapNow' = MapNow /\ Present' = Present
<1>1. Present' = Present
  BY DEF Present, KeysIn, Buckets
<1>2. \A x : ValueOf(x)' = ValueOf(x)
  BY Finds, FindsNext DEF ValueOf, Chain
<1>3. MapNow' = [x \in Present' |-> ValueOf(x)']
  BY DEF MapNow
<1> QED
  BY <1>1, <1>2, <1>3 DEF MapNow

\* What is under a usable cursor is in the map.
LEMMA AtPresent ==
  ASSUME IInv
  PROVE  AtNow # None => AtNow \in Present /\ AtNow \in Keys /\ phase \in {"at", "removed"} /\ AtNow = cur.current
BY AtEntry DEF IInv, Placed, AtNow, Cursor

\* A cursor that moves to an entry, or to none, in a map that stays as it is.
LEMMA MoveIs ==
  ASSUME IInv, NEW c, Arrive(c), c.current # None => c.current \in Present
  PROVE  Dict!Move
<1>1. MapNow' = MapNow /\ AtNow' = c.current /\ reply' = IF c.current = None THEN <<1>> ELSE <<0>>
  BY MapSame DEF Arrive, AtNow
<1>2. DOMAIN MapNow = Present
  BY DEF MapNow
<1> QED
  BY <1>1, <1>2 DEF Dict!Move, Dict!Present, MapNow, AtNow

LEMMA SetIs ==
  ASSUME IInv, NEW k \in Keys, NEW v \in Values, Set(k, v)
  PROVE  Dict!Set(k, v)
<1>1. MapNow' = [x \in Present \union {k} |-> IF x = k THEN v ELSE MapNow[x]]
  BY SetEdits, MapPut DEF IInv
<1>2. AtNow' = AtNow /\ reply' = <<0>>
  BY DEF Set, CursorUnchanged, AtNow
<1>3. DOMAIN MapNow = Present
  BY DEF MapNow
<1> QED
  BY <1>1, <1>2, <1>3 DEF Dict!Set, Dict!Present, MapNow, AtNow

LEMMA GetIs ==
  ASSUME IInv, NEW k \in Keys, Get(k)
  PROVE  Dict!Get(k)
<1>1. MapNow' = MapNow /\ AtNow' = AtNow
  BY MapSame DEF Get, CursorUnchanged, AtNow
<1>2. Found(k) <=> k \in Present
  BY FoundIs DEF IInv
<1>3. k \in Present => MapNow[k] = ValueOf(k)
  BY DEF MapNow
<1>4. DOMAIN MapNow = Present
  BY DEF MapNow
<1> QED
  BY <1>1, <1>2, <1>3, <1>4 DEF Get, Dict!Get, Dict!Present, MapNow, AtNow

LEMMA RemoveIs ==
  ASSUME IInv, NEW k \in Keys, Remove(k)
  PROVE  Dict!Remove(k)
<1>1. Found(k) <=> k \in Present
  BY FoundIs DEF IInv
<1>2. DOMAIN MapNow = Present /\ MapNow = [x \in Present |-> MapNow[x]]
  BY DEF MapNow
<1>3. MapNow' = [x \in Present \ {k} |-> MapNow[x]]
  <2>1. CASE Found(k)
    BY <1>1, <2>1, WithoutEdits, MapRemoved DEF IInv, Remove
  <2>2. CASE ~Found(k)
    <3>1. MapNow' = MapNow /\ Present \ {k} = Present
      BY <1>1, <2>2, MapSame DEF Remove
    <3> QED
      BY <1>2, <3>1
  <2> QED
    BY <2>1, <2>2
<1>4. reply' = IF k \in Present THEN <<0>> ELSE <<1>>
  BY <1>1 DEF Remove
<1>5. AtNow' = IF AtNow = k THEN None ELSE AtNow
  BY DEF Remove, AtNow
<1> QED
  BY <1>2, <1>3, <1>4, <1>5 DEF Dict!Remove, Dict!Present, Dict!Restrict, MapNow, AtNow

LEMMA RemoveAtIs ==
  ASSUME IInv, RemoveAtCursor
  PROVE  Dict!RemoveAt
<1>1. Types /\ Placed
  BY DEF IInv
<1>2. AtNow = cur.current /\ phase # "invalid"
  BY DEF RemoveAtCursor, AtNow
<1>3. DOMAIN MapNow = Present /\ MapNow = [x \in Present |-> MapNow[x]]
  BY DEF MapNow
<1>4. None \notin Present
  BY <1>1, PresentIs, HashMapAssumption
<1>5. CASE cur.current = None
  <2>1. MapNow' = MapNow /\ AtNow' = None /\ reply' = <<1>>
    BY <1>5, MapSame DEF RemoveAtCursor, CursorUnchanged, AtNow
  <2>2. Present \ {AtNow} = Present
    BY <1>2, <1>4, <1>5
  <2> QED
    BY <1>2, <1>3, <1>5, <2>1, <2>2 DEF Dict!RemoveAt, Dict!Present, Dict!Restrict, MapNow, AtNow
<1>6. CASE cur.current # None
  <2>1. phase = "at"
    BY <1>1, <1>6 DEF RemoveAtCursor, Placed, Cursor
  <2>2. PICK k : k = cur.current
    OBVIOUS
  <2>3. k \in Keys /\ k \in Present
    BY <1>1, <1>6, <2>1, <2>2, AtEntry
  <2>4. buckets' = Without(k) /\ reply' = <<0>> /\ phase' = "removed" /\ cur' = [cur EXCEPT !.current = After(k)]
    BY <1>6, <2>2 DEF RemoveAtCursor
  <2>5. MapNow' = [x \in Present \ {k} |-> MapNow[x]]
    BY <1>1, <2>3, <2>4, WithoutEdits, MapRemoved
  <2>6. AtNow' = After(k)
    BY <1>1, <2>4 DEF AtNow, Types
  <2>7. After(k) # None => After(k) \in Present \ {k}
    BY <1>1, <2>1, <2>2, AfterIs
  <2> QED
    BY <1>2, <1>3, <1>6, <2>2, <2>4, <2>5, <2>6, <2>7
       DEF Dict!RemoveAt, Dict!Present, Dict!Restrict, MapNow, AtNow
<1> QED
  BY <1>5, <1>6

LEMMA FindIs ==
  ASSUME IInv, NEW k \in Keys, CursorFind(k)
  PROVE  Dict!Find(k)
<1>1. MapNow' = MapNow
  BY MapSame DEF CursorFind
<1>2. Found(k) <=> k \in Present
  BY FoundIs DEF IInv
<1>3. AtNow' = IF k \in Present THEN k ELSE None
  BY <1>2 DEF CursorFind, AtNow, Cursor
<1>4. k \in Present => MapNow[k] = ValueOf(k)
  BY DEF MapNow
<1>5. DOMAIN MapNow = Present
  BY DEF MapNow
<1>6. reply' = IF k \in Present THEN <<0, ValueOf(k)>> ELSE <<1>>
  BY <1>2 DEF CursorFind
<1> QED
  BY <1>1, <1>3, <1>4, <1>5, <1>6 DEF Dict!Find, Dict!Present, MapNow, AtNow

LEMMA GetAtIs ==
  ASSUME IInv, CursorGet
  PROVE  Dict!GetAt
<1>1. MapNow' = MapNow /\ AtNow' = AtNow /\ AtNow = cur.current
  BY MapSame DEF CursorGet, CursorUnchanged, AtNow
<1>2. AtNow # None => MapNow[AtNow] = ValueOf(cur.current)
  BY <1>1, AtPresent DEF MapNow
<1>3. reply' = IF AtNow = None THEN <<1>> ELSE <<0, AtNow, MapNow[AtNow]>>
  BY <1>1, <1>2 DEF CursorGet
<1> QED
  BY <1>1, <1>3 DEF Dict!GetAt, MapNow, AtNow

LEMMA SetAtIs ==
  ASSUME IInv, NEW v \in Values, CursorSet(v)
  PROVE  Dict!SetAt(v)
<1>1. AtNow' = AtNow /\ AtNow = cur.current
  BY DEF CursorSet, CursorUnchanged, AtNow
<1>2. CASE cur.current = None
  <2>1. MapNow' = MapNow /\ reply' = <<1>>
    BY <1>2, MapSame DEF CursorSet
  <2> QED
    BY <1>1, <1>2, <2>1 DEF Dict!SetAt, MapNow, AtNow
<1>3. CASE cur.current # None
  <2>1. PICK k : k = cur.current
    OBVIOUS
  <2>2. k \in Keys /\ k \in Present /\ \E d : Puts(k, d, v)
    BY <1>3, <2>1, CursorSetPuts
  <2>3. MapNow' = [x \in Present \union {k} |-> IF x = k THEN v ELSE MapNow[x]]
    BY <2>2, MapPut DEF IInv
  <2>4. MapNow' = [MapNow EXCEPT ![k] = v]
    BY <2>2, <2>3 DEF MapNow
  <2>5. reply' = <<0>>
    BY <1>3 DEF CursorSet
  <2> QED
    BY <1>1, <1>3, <2>1, <2>4, <2>5 DEF Dict!SetAt, MapNow, AtNow
<1> QED
  BY <1>2, <1>3

LEMMA ResetIs ==
  ASSUME CursorInit
  PROVE  Dict!Reset
<1>1. MapNow' = MapNow /\ AtNow' = None /\ reply' = reply
  BY MapSame DEF CursorInit, AtNow, Cursor
<1> QED
  BY <1>1 DEF Dict!Reset, MapNow, AtNow

\* Every call does to the map that the chains make up what hashmap.h says, and returns what it says.
THEOREM Implements == Spec => ImplementsDictionary
<1>1. Init => Dict!Init
  <2> SUFFICES ASSUME Init PROVE Dict!Init
    OBVIOUS
  <2>1. Present = {}
    BY DEF Init, Present, KeysIn
  <2> QED
    BY <2>1 DEF Init, Dict!Init, Cursor
<1>2. IInv /\ [Next]_vars => [Dict!Next]_Dict!vars
  <2> SUFFICES ASSUME IInv, [Next]_vars PROVE Dict!Next \/ UNCHANGED Dict!vars
    OBVIOUS
  <2>1. ASSUME NEW k \in Keys, NEW v \in Values, Set(k, v) PROVE Dict!Next
    BY <2>1, SetIs DEF Dict!Next
  <2>2. ASSUME NEW k \in Keys, Get(k) PROVE Dict!Next
    BY <2>2, GetIs DEF Dict!Next
  <2>3. ASSUME NEW k \in Keys, Remove(k) PROVE Dict!Next
    BY <2>3, RemoveIs DEF Dict!Next
  <2>4. ASSUME NEW k \in Keys, CursorFind(k) PROVE Dict!Next
    BY <2>4, FindIs DEF Dict!Next
  <2>5. CASE CursorInit
    BY <2>5, ResetIs DEF Dict!Next
  <2>6. CASE CursorNext \/ (Recalibrate /\ cur.current = None)
    <3>1. Arrive(NextCursor) /\ Reaches(NextCursor, Ahead)
      BY <2>6, MovesTo
    <3>2. NextCursor.current # None => NextCursor.current \in Present
      BY <3>1 DEF Reaches, Ahead
    <3> QED
      BY <3>1, <3>2, MoveIs DEF Dict!Next
  <2>7. CASE Recalibrate /\ cur.current # None
    <3>1. Arrive(cur) /\ cur.current \in Present
      BY <2>7, Stays, AtEntry DEF IInv
    <3> QED
      BY <3>1, MoveIs DEF Dict!Next
  <2>8. CASE RemoveAtCursor
    BY <2>8, RemoveAtIs DEF Dict!Next
  <2>9. CASE CursorGet
    BY <2>9, GetAtIs DEF Dict!Next
  <2>10. ASSUME NEW v \in Values, CursorSet(v) PROVE Dict!Next
    BY <2>10, SetAtIs DEF Dict!Next
  <2>11. CASE UNCHANGED vars
    <3>1. MapNow' = MapNow /\ AtNow' = AtNow /\ reply' = reply
      BY <2>11, MapSame DEF vars, AtNow
    <3> QED
      BY <3>1 DEF Dict!vars, MapNow, AtNow
  <2> QED
    BY <2>1, <2>2, <2>3, <2>4, <2>5, <2>6, <2>7, <2>8, <2>9, <2>10, <2>11 DEF Next
<1> QED
  BY <1>1, <1>2, Inductive, PTL DEF Spec, ImplementsDictionary, Dict!Spec
===============================================================================
