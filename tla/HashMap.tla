------------------------------ MODULE HashMap ------------------------------
(***************************************************************************)
(* util/hashmap.c: buckets that chain the entries whose keys hash alike,   *)
(* and one cursor.  The client makes the calls in any order, as far as     *)
(* hashmap.h allows: after an entry has been removed under the cursor it   *)
(* recalibrates or resets it, and it does not use a cursor whose entry     *)
(* yfh_remove has freed.                                                   *)
(***************************************************************************)
EXTENDS Integers, Sequences, FiniteSetsExt

CONSTANTS Keys, Values, None,
          NumBuckets,  \* num_buckets
          Hash         \* the bucket of each key: hash(key) % num_buckets

ASSUME HashMapAssumption ==
  /\ NumBuckets \in Nat /\ NumBuckets > 0
  /\ Hash \in [Keys -> 0 .. NumBuckets - 1]
  /\ None \notin Keys

SeqExt == INSTANCE SequencesExt

VARIABLES buckets, \* bucket -> its entries, in the order of their next pointers
          cur,     \* the cursor: bucket is -1 and current None where the code has NULL
          reply,   \* what the last call returned
          phase,   \* what the client may do with the cursor
          visited, \* entries the cursor has been at in this iteration
          due      \* entries present at its start and never removed since

vars == <<buckets, cur, reply, phase, visited, due>>

Buckets == 0 .. NumBuckets - 1
Null == -1
Entry(k, v) == [key |-> k, value |-> v]
Cursor(b, k) == [bucket |-> b, current |-> k]

-----------------------------------------------------------------------------

Chain(k) == buckets[Hash[k]]

\* yfh_cursor_find_before: the place of k in its chain, 0 if it has none.
FindBefore(k) == SeqExt!SelectInSeq(Chain(k), LAMBDA e : e.key = k)
Found(k) == FindBefore(k) # 0

ValueOf(k) == Chain(k)[FindBefore(k)].value

KeysIn(chain) == {chain[i].key : i \in DOMAIN chain}
Present == UNION {KeysIn(buckets[b]) : b \in Buckets}

First(b) == IF buckets[b] = <<>> THEN None ELSE Head(buckets[b]).key

\* current->next
After(k) == LET i == FindBefore(k) + 1
            IN  IF i > Len(Chain(k)) THEN None ELSE Chain(k)[i].key

\* Mutant: the pointer before the entry becomes NULL.
Without_Truncates(k) == [buckets EXCEPT ![Hash[k]] = SubSeq(@, 1, FindBefore(k) - 1)]

\* buckets without the entry of k: the pointer before it takes its next pointer.
Without(k) == [buckets EXCEPT ![Hash[k]] = SeqExt!RemoveAt(@, FindBefore(k))]

Init ==
  /\ buckets = [b \in Buckets |-> <<>>]
  /\ cur = Cursor(Null, None)
  /\ reply = <<0>>
  /\ phase = "start"
  /\ visited = {} /\ due = {}

CursorUnchanged == UNCHANGED <<cur, phase, visited, due>>

\* Mutant: an entry is appended without a look at the chain.
Set_NoLookup(k, v) ==
  /\ buckets' = [buckets EXCEPT ![Hash[k]] = Append(@, Entry(k, v))]
  /\ reply' = <<0>>
  /\ CursorUnchanged

\* yfh_set
Set(k, v) ==
  /\ buckets' = IF Found(k)
                THEN [buckets EXCEPT ![Hash[k]][FindBefore(k)].value = v]
                ELSE [buckets EXCEPT ![Hash[k]] = Append(@, Entry(k, v))]
  /\ reply' = <<0>>
  /\ CursorUnchanged

\* yfh_get
Get(k) ==
  /\ reply' = IF Found(k) THEN <<0, ValueOf(k)>> ELSE <<1>>
  /\ UNCHANGED buckets /\ CursorUnchanged

\* yfh_remove: frees the entry, the cursor that points to it included.
Remove(k) ==
  /\ IF Found(k)
     THEN /\ buckets' = Without(k)
          /\ reply' = <<0>>
     ELSE /\ reply' = <<1>>
          /\ UNCHANGED buckets
  /\ phase' = IF cur.current = k THEN "invalid" ELSE phase
  /\ visited' = visited \ {k}
  /\ due' = due \ {k}
  /\ UNCHANGED cur

\* Mutant: at the end of its bucket the cursor is reset to the beginning.
RemoveAtCursor_Rewinds ==
  /\ phase \notin {"removed", "invalid"} /\ cur.current # None
  /\ buckets' = Without(cur.current)
  /\ cur' = IF After(cur.current) = None THEN Cursor(Null, None)
            ELSE Cursor(cur.bucket, After(cur.current))
  /\ reply' = <<0>>
  /\ phase' = "removed"
  /\ visited' = visited \ {cur.current}
  /\ due' = due \ {cur.current}

\* yfh_remove_at
RemoveAtCursor ==
  /\ phase \notin {"removed", "invalid"}
  /\ IF cur.current = None
     THEN /\ reply' = <<1>>
          /\ UNCHANGED buckets /\ CursorUnchanged
     ELSE /\ buckets' = Without(cur.current)
          /\ cur' = [cur EXCEPT !.current = After(@)]
          /\ reply' = <<0>>
          /\ phase' = "removed"
          /\ visited' = visited \ {cur.current}
          /\ due' = due \ {cur.current}

\* yfh_cursor_init
CursorInit ==
  /\ cur' = Cursor(Null, None)
  /\ phase' = "start"
  /\ visited' = {} /\ due' = {}
  /\ UNCHANGED <<buckets, reply>>

\* Mutant: the bucket pointer is advanced twice.
Advance_SkipsOne(b) ==
  LET full == {c \in b + 2 .. NumBuckets - 1 : buckets[c] # <<>>}
  IN  IF full = {} THEN Cursor(Null, None) ELSE Cursor(Min(full), First(Min(full)))

\* The first entry behind bucket b.
Advance(b) ==
  LET full == {c \in b + 1 .. NumBuckets - 1 : buckets[c] # <<>>}
  IN  IF full = {} THEN Cursor(Null, None) ELSE Cursor(Min(full), First(Min(full)))

\* yfh_cursor_next; the end looks like the beginning, so that the next call starts again.
NextCursor ==
  LET b == IF cur.bucket = Null THEN 0 ELSE cur.bucket
      k == IF cur.bucket = Null THEN First(0)
           ELSE IF cur.current = None THEN None ELSE After(cur.current)
  IN  IF k # None THEN Cursor(b, k) ELSE Advance(b)

\* What a cursor that has come to c means for the client, and for the iteration it is in.
Arrive(c) ==
  /\ cur' = c
  /\ reply' = IF c.current = None THEN <<1>> ELSE <<0>>
  /\ phase' = IF c.current = None THEN "ended" ELSE "at"
  /\ LET again == phase \in {"start", "ended"}
     IN  /\ due' = IF again THEN Present ELSE due
         /\ visited' = (IF again THEN {} ELSE visited) \cup ({c.current} \ {None})
  /\ UNCHANGED buckets

CursorNext == phase \in {"start", "at", "ended"} /\ Arrive(NextCursor)

\* yfh_cursor_recalibrate
Recalibrate ==
  /\ phase # "invalid"
  /\ Arrive(IF cur.current # None THEN cur ELSE NextCursor)

\* yfh_cursor_find: an iteration that goes on from here owes nothing.
CursorFind(k) ==
  /\ cur' = Cursor(Hash[k], IF Found(k) THEN k ELSE None)
  /\ reply' = IF Found(k) THEN <<0, ValueOf(k)>> ELSE <<1>>
  /\ phase' = IF Found(k) THEN "at" ELSE "invalid"
  /\ visited' = {k} \cap Present
  /\ due' = {}
  /\ UNCHANGED buckets

\* yfh_cursor_get
CursorGet ==
  /\ phase # "invalid"
  /\ reply' = IF cur.current = None THEN <<1>> ELSE <<0, cur.current, ValueOf(cur.current)>>
  /\ UNCHANGED buckets /\ CursorUnchanged

\* yfh_cursor_set
CursorSet(v) ==
  /\ phase # "invalid"
  /\ IF cur.current = None
     THEN reply' = <<1>> /\ UNCHANGED buckets
     ELSE LET k == cur.current IN
          /\ buckets' = [buckets EXCEPT ![Hash[k]][FindBefore(k)].value = v]
          /\ reply' = <<0>>
  /\ CursorUnchanged

Next ==
  \/ \E k \in Keys, v \in Values : Set(k, v)
  \/ \E k \in Keys : Get(k) \/ Remove(k) \/ CursorFind(k)
  \/ CursorInit \/ CursorNext \/ Recalibrate \/ RemoveAtCursor \/ CursorGet
  \/ \E v \in Values : CursorSet(v)

Spec == Init /\ [][Next]_vars

-----------------------------------------------------------------------------
(* Properties. *)

\* Each entry is in the bucket of its key, no key has two entries, and a cursor the client may
\* use is NULL or at an entry of its bucket, or behind the last one (yfh_set, yfh_cursor_next).
TypeOK ==
  /\ buckets \in [Buckets -> Seq([key : Keys, value : Values])]
  /\ \A b \in Buckets : \A i \in DOMAIN buckets[b] :
       /\ Hash[buckets[b][i].key] = b
       /\ \A j \in DOMAIN buckets[b] : buckets[b][i].key = buckets[b][j].key => i = j
  /\ cur.bucket \in Buckets \cup {Null}
  /\ phase \in {"start", "at", "removed", "ended", "invalid"}
  /\ phase # "invalid" =>
       /\ cur.current # None => cur.current \in KeysIn(buckets[cur.bucket])
       /\ phase \in {"start", "ended"} => cur = Cursor(Null, None)

\* An iteration that has come to its end has been at every entry that was there from its start
\* to its end, whatever was added, changed and removed meanwhile (yfh_cursor_next).
VisitsAll == phase = "ended" => due \subseteq visited

\* No iteration comes to an entry twice (yfh_cursor_next, yfh_cursor_recalibrate).
VisitsOnce ==
  [][(CursorNext \/ Recalibrate) /\ phase \in {"at", "removed"} /\ cur'.current # cur.current
       => cur'.current \notin visited]_vars

\* The hash map is the dictionary of hashmap.h: what is set is what is got, by key or under the
\* cursor, whatever else hashes to the same bucket.
Dict == INSTANCE Dictionary WITH
          map <- [k \in Present |-> ValueOf(k)],
          at <- IF phase = "invalid" THEN None ELSE cur.current

ImplementsDictionary == Dict!Spec
=============================================================================
