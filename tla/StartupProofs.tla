---------------------------- MODULE StartupProofs ----------------------------
(***************************************************************************)
(* Proofs about Startup, and the modules Args and ProjectFiles it is made  *)
(* of, for any argument lists and any trees of folders.                    *)
(*                                                                         *)
(* What a command line means is said of it as a whole, with the number of  *)
(* value options before each place; the parser only knows what it wants    *)
(* next.  Prefix says that a parser that has found nothing wrong has read  *)
(* the arguments before i as they are meant.                               *)
(***************************************************************************)
EXTENDS Startup, Integers, TLAPS, SequenceTheorems, WellFoundedInduction, FiniteSetTheorems

(* Places *)

\* A bounded set of natural numbers has a greatest element.
LEMMA Greatest ==
  ASSUME NEW n \in Nat, NEW S \in SUBSET (0 .. n), S # {}
  PROVE  Max(S) \in S /\ \A y \in S : Max(S) >= y
<1> DEFINE R == OpToRel(<, Nat)
           T == {n - y : y \in S}
<1>1. IsWellFoundedOn(R, Nat)
  BY NatLessThanWellFounded
<1>2. T \subseteq Nat /\ T # {}
  <2>1. ASSUME NEW y \in S PROVE n - y \in Nat
    <3>1. y \in 0 .. n
      OBVIOUS
    <3> QED
      BY <3>1
  <2>2. T \subseteq Nat
    BY <2>1, Zenon
  <2>3. T # {}
    BY Zenon
  <2> QED
    BY <2>2, <2>3
<1>3. \A x, y \in T : y < x => <<y, x>> \in R
  BY <1>2 DEF OpToRel
<1> HIDE DEF R
<1>4. \E x \in T : \A y \in T : <<y, x>> \notin R
  <2> HIDE DEF T
  <2> QED
    BY <1>1, <1>2, WFMin, Zenon
<1>5. PICK x \in T : \A y \in T : <<y, x>> \notin R
  BY <1>4
<1>6. \A y \in T : ~(y < x)
  BY <1>3, <1>5, Zenon
<1>7. PICK m \in S : x = n - m
  BY <1>5
<1>8. \A y \in S : m >= y
  <2> SUFFICES ASSUME NEW y \in S PROVE m >= y
    OBVIOUS
  <2>1. n - y \in T
    OBVIOUS
  <2>2. ~(n - y < n - m)
    BY <1>6, <1>7, <2>1
  <2> QED
    BY <2>2
<1> QED
  BY <1>8 DEF Max

\* The lengths of the runs of value options that end just before j.
Runs(v, j) == {n \in 0 .. j - 1 : \A m \in j - n .. j - 1 : v[m] \in ValueOptions}

\* The run that IsValue takes is one, and the longest.
LEMMA LongestRun ==
  ASSUME NEW v, NEW j \in Nat \ {0}
  PROVE  Max(Runs(v, j)) \in Runs(v, j) /\ \A n \in Runs(v, j) : Max(Runs(v, j)) >= n
<1>1. j - 1 \in Nat
  OBVIOUS
<1>2. Runs(v, j) \in SUBSET (0 .. (j - 1))
  BY DEF Runs
<1>3. 0 \in Runs(v, j)
  BY DEF Runs
<1> QED
  BY <1>1, <1>2, <1>3, Greatest, Zenon

\* An argument is a value just when the one before it is a value option and not itself a value.
LEMMA ValuePlaces ==
  ASSUME NEW v
  PROVE  /\ ~IsValue(v, 1)
         /\ \A j \in Nat \ {0} : IsValue(v, j + 1) <=> v[j] \in ValueOptions /\ ~IsValue(v, j)
<1>1. \A j : IsValue(v, j) <=> Max(Runs(v, j)) % 2 = 1
  BY DEF IsValue, Runs
<1>2. ~IsValue(v, 1)
  <2>1. Max(Runs(v, 1)) \in 0 .. 1 - 1
    BY LongestRun DEF Runs
  <2>2. Max(Runs(v, 1)) = 0
    BY <2>1
  <2> QED
    BY <1>1, <2>2
<1>3. ASSUME NEW j \in Nat \ {0}
      PROVE  IsValue(v, j + 1) <=> v[j] \in ValueOptions /\ ~IsValue(v, j)
  <2>1. PICK k : k = Max(Runs(v, j))
    OBVIOUS
  <2>2. PICK l : l = Max(Runs(v, j + 1))
    OBVIOUS
  <2>3. k \in Runs(v, j) /\ \A n \in Runs(v, j) : k >= n
    BY <2>1, LongestRun
  <2>4. l \in Runs(v, j + 1) /\ \A n \in Runs(v, j + 1) : l >= n
    <3>1. j + 1 \in Nat \ {0}
      OBVIOUS
    <3> QED
      BY <2>2, <3>1, LongestRun
  <2>5. (IsValue(v, j) <=> k % 2 = 1) /\ (IsValue(v, j + 1) <=> l % 2 = 1)
    BY <1>1, <2>1, <2>2
  <2>6. k \in 0 .. j - 1 /\ l \in 0 .. j
    BY <2>3, <2>4 DEF Runs
  <2>7. CASE v[j] \notin ValueOptions
    <3>1. l = 0
      <4> SUFFICES ASSUME l # 0 PROVE FALSE
        OBVIOUS
      <4>1. j \in (j + 1) - l .. (j + 1) - 1
        BY <2>6
      <4>2. v[j] \in ValueOptions
        BY <2>4, <4>1 DEF Runs
      <4> QED
        BY <2>7, <4>2
    <3> QED
      BY <2>5, <2>7, <3>1
  <2>8. CASE v[j] \in ValueOptions
    <3>1. k + 1 \in Runs(v, j + 1)
      <4> SUFFICES ASSUME NEW m \in (j + 1) - (k + 1) .. (j + 1) - 1 PROVE v[m] \in ValueOptions
        BY <2>6 DEF Runs
      <4>1. m = j \/ m \in j - k .. j - 1
        BY <2>6
      <4> QED
        BY <2>3, <2>8, <4>1 DEF Runs
    <3>2. l >= k + 1
      BY <2>4, <3>1
    <3>3. l - 1 \in Runs(v, j)
      <4> SUFFICES ASSUME NEW m \in j - (l - 1) .. j - 1 PROVE v[m] \in ValueOptions
        BY <2>6, <3>2 DEF Runs
      <4>1. m \in (j + 1) - l .. (j + 1) - 1
        BY <2>6
      <4> QED
        BY <2>4, <4>1 DEF Runs
    <3>4. k >= l - 1
      BY <2>3, <3>3
    <3>5. l = k + 1
      BY <2>6, <3>2, <3>4
    <3>6. (k + 1) % 2 = 1 <=> ~(k % 2 = 1)
      BY <2>6
    <3> QED
      BY <2>5, <2>8, <3>5, <3>6
  <2> QED
    BY <2>7, <2>8
<1> QED
  BY <1>2, <1>3

\* What an argument list is.
LEMMA Line ==
  ASSUME NEW v \in Argvs
  PROVE  /\ Len(v) \in Nat /\ DOMAIN v = 1 .. Len(v)
         /\ \A j \in DOMAIN v : v[j] # None
<1> DEFINE W == {v[j] : j \in DOMAIN v} \ {None}
<1>1. v \in Seq(W)
  BY ArgsAssumption, Zenon
<1> HIDE DEF W
<1>2. Len(v) \in Nat /\ DOMAIN v = 1 .. Len(v) /\ \A j \in DOMAIN v : v[j] \in W
  BY <1>1
<1> QED
  BY <1>2 DEF W

-----------------------------------------------------------------------------
(* What has been read before the argument n of a line v *)

Seen(v, n, o) == {j \in At(v, o) : j < n}
Used(v, n, o) == {j \in At(v, o) : j + 1 < n}  \* value options whose value has been read too
WordsSeen(v, n) == {w \in Words(v) : w < n}

AtMostOne(S) == \A x, y \in S : x = y

\* x is the value of the option o, None while it has none.
ValueRead(v, n, o, x) ==
  /\ x # None <=> Used(v, n, o) # {}
  /\ AtMostOne(Used(v, n, o))
  /\ \A j \in Used(v, n, o) : v[j + 1] = x

ValuesRead(v, n, a) ==
  /\ ValueRead(v, n, "native-compiler", a.compiler)
  /\ ValueRead(v, n, "compiler-type", a.compiler_class)
  /\ \A j \in Used(v, n, "compiler-type") : v[j + 1] \in CompilerTypes

OptionsRead(v, n, a) ==
  /\ \A o \in InfoOptions \cup {"unknown"} : Seen(v, n, o) = {}
  /\ \A o \in DOMAIN StageFlag : a[StageFlag[o]] <=> Seen(v, n, o) # {}
  /\ \A o, p \in DOMAIN StageFlag : Seen(v, n, o) # {} /\ Seen(v, n, p) # {} => o = p
  /\ a.project <=> Seen(v, n, "project") # {} \/ Seen(v, n, "dump-projfiles") # {}
  /\ a.run_c_comp <=> Seen(v, n, "just-gen") = {}
  /\ a.profile <=> Seen(v, n, "benchmark") # {}
  /\ AtMostOne(Seen(v, n, "benchmark"))
  /\ a.dump_projfiles <=> Seen(v, n, "dump-projfiles") # {}
  /\ a.simulate_run <=> Seen(v, n, "simulate-run") # {}
  /\ a.dump_commands <=> Seen(v, n, "simulate-run") # {} \/ Seen(v, n, "dump-commands") # {}

FilesRead(v, n, files) ==
  /\ Len(files) = Cardinality(WordsSeen(v, n))
  /\ \A w \in WordsSeen(v, n) : files[Cardinality({u \in Words(v) : u <= w})] = v[w]

\* No project before or after a word, but for --dump-projfiles after it.
OrderRead(v, n) ==
  /\ Seen(v, n, "project") # {} => WordsSeen(v, n) = {}
  /\ \A j \in Seen(v, n, "dump-projfiles"), w \in WordsSeen(v, n) : w < j

\* The arguments before n give no reason to refuse the line, and a is what they say.
Prefix(v, n, a) ==
  ValuesRead(v, n, a) /\ OptionsRead(v, n, a) /\ FilesRead(v, n, a.files) /\ OrderRead(v, n)

\* A value: no option and no word.
LEMMA PastValue ==
  ASSUME NEW v \in Argvs, NEW n \in DOMAIN v, IsValue(v, n)
  PROVE  /\ \A o : Seen(v, n + 1, o) = Seen(v, n, o)
         /\ \A o \in ValueOptions :
              Used(v, n + 1, o) = IF v[n - 1] = o THEN Used(v, n, o) \cup {n - 1} ELSE Used(v, n, o)
         /\ WordsSeen(v, n + 1) = WordsSeen(v, n)
         /\ n - 1 \in At(v, v[n - 1]) /\ v[n - 1] \in ValueOptions
         /\ \A o : n - 1 \notin Used(v, n, o)
<1>1. Len(v) \in Nat /\ DOMAIN v = 1 .. Len(v)
  BY Line
<1>2. \A o : n \notin At(v, o)
  BY DEF At
<1>3. n \notin Words(v)
  BY DEF Words
<1>4. (\A o : At(v, o) \subseteq DOMAIN v) /\ Words(v) \subseteq DOMAIN v
  BY DEF At, Words
<1>5. \A o : Seen(v, n + 1, o) = Seen(v, n, o)
  BY <1>1, <1>2, <1>4 DEF Seen
<1>6. WordsSeen(v, n + 1) = WordsSeen(v, n)
  BY <1>1, <1>3, <1>4 DEF WordsSeen
<1>7. n \in Nat \ {0} /\ n # 1
  <2>1. n # 1
    BY ValuePlaces, Zenon
  <2> QED
    BY <1>1, <2>1
<1>8. PICK m \in Nat \ {0} : n = m + 1
  <2>1. n - 1 \in Nat \ {0} /\ n = (n - 1) + 1
    BY <1>7
  <2> QED
    BY <2>1
<1>9. n - 1 = m
  BY <1>8
<1>10. v[m] \in ValueOptions /\ ~IsValue(v, m)
  BY <1>8, ValuePlaces
<1>11. m \in At(v, v[m])
  BY <1>1, <1>8, <1>10 DEF At
<1>12. ASSUME NEW o \in ValueOptions
       PROVE  Used(v, n + 1, o) = IF v[m] = o THEN Used(v, n, o) \cup {m} ELSE Used(v, n, o)
  <2>1. m \in At(v, o) <=> v[m] = o
    BY <1>11 DEF At
  <2>2. \A j \in At(v, o) : j + 1 < n + 1 <=> j + 1 < n \/ j = m
    BY <1>1, <1>4, <1>8
  <2>3. m + 1 < n + 1
    BY <1>8
  <2> QED
    BY <2>1, <2>2, <2>3 DEF Used
<1>13. \A o : m \notin Used(v, n, o)
  BY <1>8 DEF Used
<1> QED
  BY <1>5, <1>6, <1>9, <1>10, <1>11, <1>12, <1>13

\* Elsewhere no value option waits for its value.
LEMMA PastOther ==
  ASSUME NEW v \in Argvs, NEW n \in 1 .. Len(v) + 1, ~IsValue(v, n)
  PROVE  \A o \in ValueOptions :
           /\ Used(v, n + 1, o) = Used(v, n, o)
           /\ Seen(v, n, o) = Used(v, n, o)
<1> SUFFICES ASSUME NEW o \in ValueOptions
             PROVE  Used(v, n + 1, o) = Used(v, n, o) /\ Seen(v, n, o) = Used(v, n, o)
  OBVIOUS
<1>1. Len(v) \in Nat /\ DOMAIN v = 1 .. Len(v)
  BY Line
<1>2. At(v, o) \subseteq DOMAIN v
  BY DEF At
<1>3. ASSUME NEW j \in At(v, o) PROVE j + 1 # n
  <2>1. j \in Nat \ {0} /\ v[j] \in ValueOptions /\ ~IsValue(v, j)
    BY <1>1 DEF At
  <2> QED
    BY <2>1, ValuePlaces
<1>4. \A j \in At(v, o) : (j < n <=> j + 1 < n) /\ (j + 1 < n + 1 <=> j + 1 < n)
  BY <1>1, <1>2, <1>3
<1> QED
  BY <1>4 DEF Used, Seen

\* An option: it is seen, and nothing else changes.
LEMMA PastOption ==
  ASSUME NEW v \in Argvs, NEW n \in DOMAIN v, ~IsValue(v, n), v[n] \in Options
  PROVE  /\ \A o : v[n] # o => Seen(v, n + 1, o) = Seen(v, n, o)
         /\ Seen(v, n + 1, v[n]) = Seen(v, n, v[n]) \cup {n}
         /\ \A o \in ValueOptions : Used(v, n + 1, o) = Used(v, n, o)
         /\ WordsSeen(v, n + 1) = WordsSeen(v, n)
         /\ n \in At(v, v[n])
         /\ \A o : n \notin Seen(v, n, o)
<1>1. Len(v) \in Nat /\ DOMAIN v = 1 .. Len(v)
  BY Line
<1>2. (\A o : At(v, o) \subseteq DOMAIN v) /\ Words(v) \subseteq DOMAIN v
  BY DEF At, Words
<1>3. \A o : n \in At(v, o) <=> v[n] = o
  BY DEF At
<1>4. n \notin Words(v)
  BY DEF Words
<1>5. \A j \in DOMAIN v : j < n + 1 <=> j < n \/ j = n
  BY <1>1
<1>6. n < n + 1 /\ ~(n < n)
  BY <1>1
<1>7. ASSUME NEW o
      PROVE  /\ v[n] # o => Seen(v, n + 1, o) = Seen(v, n, o)
             /\ v[n] = o => Seen(v, n + 1, o) = Seen(v, n, o) \cup {n}
  BY <1>2, <1>3, <1>5, <1>6 DEF Seen
<1>8. WordsSeen(v, n + 1) = WordsSeen(v, n)
  BY <1>2, <1>4, <1>5 DEF WordsSeen
<1>9. \A o \in ValueOptions : Used(v, n + 1, o) = Used(v, n, o)
  <2>1. n \in 1 .. Len(v) + 1
    BY <1>1
  <2> QED
    BY <2>1, PastOther, Zenon
<1>10. \A o : n \notin Seen(v, n, o)
  BY <1>6 DEF Seen
<1> QED
  BY <1>3, <1>7, <1>8, <1>9, <1>10

\* A word: no option.
LEMMA PastWord ==
  ASSUME NEW v \in Argvs, NEW n \in DOMAIN v, ~IsValue(v, n), v[n] \notin Options
  PROVE  /\ \A o \in Options : Seen(v, n + 1, o) = Seen(v, n, o)
         /\ \A o \in ValueOptions : Used(v, n + 1, o) = Used(v, n, o)
         /\ WordsSeen(v, n + 1) = WordsSeen(v, n) \cup {n}
         /\ n \in Words(v) /\ n \notin WordsSeen(v, n)
<1>1. Len(v) \in Nat /\ DOMAIN v = 1 .. Len(v)
  BY Line
<1>2. (\A o : At(v, o) \subseteq DOMAIN v) /\ Words(v) \subseteq DOMAIN v
  BY DEF At, Words
<1>3. \A o \in Options : n \notin At(v, o)
  BY DEF At
<1>4. n \in Words(v)
  BY DEF Words
<1>5. \A j \in DOMAIN v : j < n + 1 <=> j < n \/ j = n
  BY <1>1
<1>6. n < n + 1 /\ ~(n < n)
  BY <1>1
<1>7. ASSUME NEW o \in Options PROVE Seen(v, n + 1, o) = Seen(v, n, o)
  BY <1>2, <1>3, <1>5 DEF Seen
<1>8. WordsSeen(v, n + 1) = WordsSeen(v, n) \cup {n}
  BY <1>2, <1>4, <1>5, <1>6 DEF WordsSeen
<1>9. \A o \in ValueOptions : Used(v, n + 1, o) = Used(v, n, o)
  <2>1. n \in 1 .. Len(v) + 1
    BY <1>1
  <2> QED
    BY <2>1, PastOther, Zenon
<1>10. n \notin WordsSeen(v, n)
  BY <1>6 DEF WordsSeen
<1> QED
  BY <1>4, <1>7, <1>8, <1>9, <1>10

-----------------------------------------------------------------------------
(* The meaning of a line, without counting *)

\* A finite set has at most one element just when its cardinality says so.
LEMMA CountAtMostOne ==
  ASSUME NEW S, IsFiniteSet(S)
  PROVE  Cardinality(S) <= 1 <=> AtMostOne(S)
<1>1. CASE S = {}
  <2>1. Cardinality(S) = 0
    BY <1>1, FS_EmptySet
  <2> QED
    BY <1>1, <2>1 DEF AtMostOne
<1>2. CASE S # {}
  <2>1. PICK x : x \in S
    BY <1>2
  <2>2. Cardinality(S) \in Nat
    BY FS_CardinalityType
  <2>3. Cardinality(S) # 0
    BY <1>2, FS_EmptySet
  <2>4. Cardinality(S) = 1 <=> \E y : S = {y}
    BY FS_Singleton
  <2>5. AtMostOne(S) <=> \E y : S = {y}
    <3>1. AtMostOne(S) => S = {x}
      BY <2>1 DEF AtMostOne
    <3>2. ASSUME NEW y, S = {y} PROVE AtMostOne(S)
      BY <3>2 DEF AtMostOne
    <3> QED
      BY <3>1, <3>2
  <2> QED
    BY <2>2, <2>3, <2>4, <2>5
<1> QED
  BY <1>1, <1>2

\* What Acceptable says.
Meant(v) ==
  /\ \A o \in InfoOptions \cup {"unknown"} : At(v, o) = {}
  /\ \A o \in ValueOptions \cup {"benchmark"} : AtMostOne(At(v, o))
  /\ \A o \in ValueOptions : Len(v) \notin At(v, o)
  /\ \A j \in At(v, "compiler-type") : v[j + 1] \in CompilerTypes
  /\ \A o, p \in DOMAIN StageFlag : At(v, o) # {} /\ At(v, p) # {} => o = p
  /\ At(v, "project") # {} => Words(v) = {}
  /\ \A j \in At(v, "dump-projfiles"), w \in Words(v) : w < j
  /\ At(v, "project") # {} \/ At(v, "dump-projfiles") # {} \/ Words(v) # {}

\* At most one option, and at most one kind of option, need no counting.
LEMMA Meaning ==
  ASSUME NEW v \in Argvs
  PROVE  Acceptable(v) <=> Meant(v)
<1> DEFINE G == {o \in DOMAIN StageFlag : Given(v, o)}
<1>1. \A o : Cardinality(At(v, o)) <= 1 <=> AtMostOne(At(v, o))
  <2> SUFFICES ASSUME NEW o PROVE Cardinality(At(v, o)) <= 1 <=> AtMostOne(At(v, o))
    OBVIOUS
  <2>1. PICK n \in Nat : DOMAIN v = 1 .. n
    BY Line
  <2>2. IsFiniteSet(1 .. n)
    BY FS_Interval
  <2>3. At(v, o) \in SUBSET (1 .. n)
    BY <2>1 DEF At
  <2>4. IsFiniteSet(At(v, o))
    BY <2>2, <2>3, FS_Subset, Zenon
  <2> QED
    BY <2>4, CountAtMostOne, Zenon
<1>2. Cardinality(G) <= 1 <=> AtMostOne(G)
  <2>1. DOMAIN StageFlag = {"dump-tokens", "dump-cst", "just-semantics"}
    BY DEF StageFlag
  <2>2. IsFiniteSet({"dump-tokens"} \cup {"dump-cst"} \cup {"just-semantics"})
    <3>1. IsFiniteSet({"dump-tokens"})
      BY FS_Singleton
    <3>2. IsFiniteSet({"dump-tokens"} \cup {"dump-cst"})
      BY <3>1, FS_AddElement
    <3> QED
      BY <3>2, FS_AddElement
  <2>3. G \in SUBSET ({"dump-tokens"} \cup {"dump-cst"} \cup {"just-semantics"})
    BY <2>1
  <2>4. IsFiniteSet(G)
    BY <2>2, <2>3, FS_Subset, Zenon
  <2> HIDE DEF G
  <2> QED
    BY <2>4, CountAtMostOne, Zenon
<1>3. AtMostOne(G) <=> \A o, p \in DOMAIN StageFlag : At(v, o) # {} /\ At(v, p) # {} => o = p
  BY DEF AtMostOne, Given
<1>4. /\ Acceptable(v) <=>
           /\ \A o \in InfoOptions \cup {"unknown"} : ~Given(v, o)
           /\ \A o \in ValueOptions \cup {"benchmark"} : Cardinality(At(v, o)) <= 1
           /\ \A o \in ValueOptions : Len(v) \notin At(v, o)
           /\ \A j \in At(v, "compiler-type") : v[j + 1] \in CompilerTypes
           /\ Cardinality(G) <= 1
           /\ Given(v, "project") => Words(v) = {}
           /\ \A j \in At(v, "dump-projfiles"), w \in Words(v) : w < j
           /\ Given(v, "project") \/ Given(v, "dump-projfiles") \/ Words(v) # {}
  BY Zenon DEF Acceptable
<1> HIDE DEF G
<1> QED
  BY <1>1, <1>2, <1>3, <1>4, Zenon DEF Meant, Given

-----------------------------------------------------------------------------
(* One argument more *)

Arg(v) == {v[j] : j \in DOMAIN v} \cup {None}

\* struct yf_args
ArgsOf(v) ==
  [compiler : Arg(v), compiler_class : Arg(v), files : Seq(Arg(v)),
   tdump : BOOLEAN, cstdump : BOOLEAN, just_semantics : BOOLEAN, project : BOOLEAN,
   run_c_comp : BOOLEAN, profile : BOOLEAN, dump_projfiles : BOOLEAN,
   dump_commands : BOOLEAN, simulate_run : BOOLEAN,
   wanted_output : {"none", "error", "no_args"} \cup InfoOptions, error : BOOLEAN]

\* Before the first argument nothing is read.
LEMMA Nothing ==
  ASSUME NEW v \in Argvs
  PROVE  NoArgs \in ArgsOf(v) /\ Prefix(v, 1, NoArgs)
<1>1. Len(v) \in Nat /\ DOMAIN v = 1 .. Len(v)
  BY Line
<1>2. (\A o : At(v, o) \subseteq DOMAIN v) /\ Words(v) \subseteq DOMAIN v
  BY DEF At, Words
<1>3. \A o : Seen(v, 1, o) = {} /\ Used(v, 1, o) = {}
  <2> SUFFICES ASSUME NEW o PROVE Seen(v, 1, o) = {} /\ Used(v, 1, o) = {}
    OBVIOUS
  <2>1. \A j \in At(v, o) : ~(j < 1) /\ ~(j + 1 < 1)
    BY <1>1, <1>2
  <2> QED
    BY <2>1 DEF Seen, Used
<1>4. WordsSeen(v, 1) = {}
  BY <1>1, <1>2 DEF WordsSeen
<1>5. NoArgs \in ArgsOf(v)
  BY DEF NoArgs, ArgsOf, Arg
<1>6. ValuesRead(v, 1, NoArgs)
  BY <1>3 DEF ValuesRead, ValueRead, AtMostOne, NoArgs
<1>7. OptionsRead(v, 1, NoArgs)
  BY <1>3 DEF OptionsRead, AtMostOne, NoArgs, StageFlag
<1>8. FilesRead(v, 1, NoArgs.files)
  <2>1. Cardinality({}) = 0
    BY FS_EmptySet
  <2> QED
    BY <1>4, <2>1 DEF FilesRead, NoArgs
<1>9. OrderRead(v, 1)
  BY <1>3, <1>4 DEF OrderRead
<1> QED
  BY <1>5, <1>6, <1>7, <1>8, <1>9 DEF Prefix

\* After the last argument, what was read is the line.
LEMMA Whole ==
  ASSUME NEW v \in Argvs, NEW a, Prefix(v, Len(v) + 1, a), ~IsValue(v, Len(v) + 1)
  PROVE  /\ Acceptable(v) <=> a.project \/ Words(v) # {}
         /\ Effects(v, a)
<1> DEFINE n == Len(v) + 1
<1>1. Len(v) \in Nat /\ DOMAIN v = 1 .. Len(v)
  BY Line
<1>2. (\A o : At(v, o) \subseteq DOMAIN v) /\ Words(v) \subseteq DOMAIN v
  BY DEF At, Words
<1>3. \A j \in DOMAIN v : j < n
  BY <1>1
<1>4. \A o : Seen(v, n, o) = At(v, o)
  BY <1>2, <1>3 DEF Seen
<1>5. WordsSeen(v, n) = Words(v)
  BY <1>2, <1>3 DEF WordsSeen
<1>6. n \in 1 .. Len(v) + 1 /\ ~IsValue(v, n)
  BY <1>1
<1>7. \A o \in ValueOptions : Used(v, n, o) = At(v, o)
  <2> HIDE DEF n
  <2> QED
    BY <1>4, <1>6, PastOther, Zenon
<1>8. \A o \in ValueOptions : Len(v) \notin At(v, o)
  <2> SUFFICES ASSUME NEW o \in ValueOptions, Len(v) \in At(v, o) PROVE FALSE
    OBVIOUS
  <2>1. Len(v) \in Used(v, n, o)
    BY <1>7
  <2>2. Len(v) + 1 < n
    BY <2>1 DEF Used
  <2> QED
    BY <1>1, <2>2
<1>9. Prefix(v, n, a)
  OBVIOUS
<1> HIDE DEF n
<1>10. "native-compiler" \in ValueOptions /\ "compiler-type" \in ValueOptions
  BY DEF ValueOptions
<1>11. /\ AtMostOne(At(v, "native-compiler")) /\ AtMostOne(At(v, "compiler-type"))
       /\ \A j \in At(v, "native-compiler") : v[j + 1] = a.compiler
       /\ \A j \in At(v, "compiler-type") : v[j + 1] = a.compiler_class /\ v[j + 1] \in CompilerTypes
  BY <1>7, <1>9, <1>10 DEF Prefix, ValuesRead, ValueRead
<1>12. /\ \A o \in InfoOptions \cup {"unknown"} : At(v, o) = {}
       /\ \A o \in DOMAIN StageFlag : a[StageFlag[o]] <=> At(v, o) # {}
       /\ \A o, p \in DOMAIN StageFlag : At(v, o) # {} /\ At(v, p) # {} => o = p
       /\ a.project <=> At(v, "project") # {} \/ At(v, "dump-projfiles") # {}
       /\ a.run_c_comp <=> At(v, "just-gen") = {}
       /\ a.profile <=> At(v, "benchmark") # {}
       /\ AtMostOne(At(v, "benchmark"))
       /\ a.dump_projfiles <=> At(v, "dump-projfiles") # {}
       /\ a.simulate_run <=> At(v, "simulate-run") # {}
       /\ a.dump_commands <=> At(v, "simulate-run") # {} \/ At(v, "dump-commands") # {}
  BY <1>4, <1>9, Zenon DEF Prefix, OptionsRead
<1>13. /\ Len(a.files) = Cardinality(Words(v))
       /\ \A w \in Words(v) : a.files[Cardinality({u \in Words(v) : u <= w})] = v[w]
  BY <1>5, <1>9, Zenon DEF Prefix, FilesRead
<1>14. /\ At(v, "project") # {} => Words(v) = {}
       /\ \A j \in At(v, "dump-projfiles"), w \in Words(v) : w < j
  BY <1>4, <1>5, <1>9, Zenon DEF Prefix, OrderRead
<1>15. Meant(v) <=> a.project \/ Words(v) # {}
  <2>1. \A o \in ValueOptions \cup {"benchmark"} : AtMostOne(At(v, o))
    BY <1>11, <1>12, Zenon DEF ValueOptions
  <2> QED
    BY <1>8, <1>11, <1>12, <1>14, <2>1, Zenon DEF Meant
<1>16. Effects(v, a)
  BY <1>11, <1>12, <1>13, Zenon DEF Effects, Given
<1> QED
  BY <1>15, <1>16, Meaning

\* The flag of each option that stops early.
LEMMA Stages ==
  /\ DOMAIN StageFlag = {"dump-tokens", "dump-cst", "just-semantics"}
  /\ StageFlag["dump-tokens"] = "tdump"
  /\ StageFlag["dump-cst"] = "cstdump"
  /\ StageFlag["just-semantics"] = "just_semantics"
BY Zenon DEF StageFlag

\* What an option that is not for this part of the arguments leaves as it is.
LEMMA OptionKeeps ==
  ASSUME NEW v \in Argvs, NEW n \in DOMAIN v, ~IsValue(v, n), v[n] \in Options,
         NEW a, NEW b, Prefix(v, n, a),
         b.compiler = a.compiler, b.compiler_class = a.compiler_class, b.files = a.files
  PROVE  /\ ValuesRead(v, n + 1, b)
         /\ FilesRead(v, n + 1, b.files)
         /\ v[n] \notin {"project", "dump-projfiles"} => OrderRead(v, n + 1)
<1>1. "native-compiler" \in ValueOptions /\ "compiler-type" \in ValueOptions
  BY DEF ValueOptions
<1>2. ValuesRead(v, n + 1, b)
  <2>1. \A o \in ValueOptions : Used(v, n + 1, o) = Used(v, n, o)
    BY PastOption, Zenon
  <2> QED
    BY <1>1, <2>1, Zenon DEF Prefix, ValuesRead, ValueRead
<1>3. WordsSeen(v, n + 1) = WordsSeen(v, n)
  BY PastOption, Zenon
<1>4. FilesRead(v, n + 1, b.files)
  BY <1>3, Zenon DEF Prefix, FilesRead
<1>5. ASSUME v[n] \notin {"project", "dump-projfiles"} PROVE OrderRead(v, n + 1)
  <2>1. \A o : v[n] # o => Seen(v, n + 1, o) = Seen(v, n, o)
    BY PastOption, Zenon
  <2>2. /\ Seen(v, n + 1, "project") = Seen(v, n, "project")
        /\ Seen(v, n + 1, "dump-projfiles") = Seen(v, n, "dump-projfiles")
    BY <1>5, <2>1
  <2> QED
    BY <1>3, <2>2, Zenon DEF Prefix, OrderRead
<1> QED
  BY <1>2, <1>4, <1>5

\* PastOption for an option by its name.
LEMMA NextOption ==
  ASSUME NEW v \in Argvs, NEW n \in DOMAIN v, ~IsValue(v, n), v[n] \in Options, NEW p, v[n] = p
  PROVE  /\ \A o \in Options \ {p} : Seen(v, n + 1, o) = Seen(v, n, o)
         /\ Seen(v, n + 1, p) = Seen(v, n, p) \cup {n}
<1>1. \A o : v[n] # o => Seen(v, n + 1, o) = Seen(v, n, o)
  BY PastOption, Zenon
<1>2. Seen(v, n + 1, v[n]) = Seen(v, n, v[n]) \cup {n}
  BY PastOption, Zenon
<1> QED
  BY <1>1, <1>2, Zenon

\* --native-compiler and --compiler-type have no effect before their value is read.
LEMMA ReadValueOption ==
  ASSUME NEW v \in Argvs, NEW n \in DOMAIN v, ~IsValue(v, n), v[n] \in ValueOptions,
         NEW a, Prefix(v, n, a)
  PROVE  Prefix(v, n + 1, a)
<1>1. v[n] \in Options
  BY DEF Options
<1>2. \A o \in Options \ ValueOptions : Seen(v, n + 1, o) = Seen(v, n, o)
  <2>1. \A o : v[n] # o => Seen(v, n + 1, o) = Seen(v, n, o)
    BY <1>1, PastOption, Zenon
  <2> QED
    BY <2>1, Zenon
<1>3. InfoOptions \cup {"unknown", "project", "dump-projfiles", "just-gen", "benchmark",
                        "simulate-run", "dump-commands"}
        \cup DOMAIN StageFlag \subseteq Options \ ValueOptions
  BY Stages DEF Options, ValueOptions, InfoOptions
<1>4. OptionsRead(v, n, a)
  BY DEF Prefix
<1>5. OptionsRead(v, n + 1, a)
  BY <1>2, <1>3, <1>4 DEF OptionsRead
<1>6. v[n] \notin {"project", "dump-projfiles"}
  BY DEF ValueOptions
<1> QED
  BY <1>1, <1>5, <1>6, OptionKeeps DEF Prefix

\* --project, while there are no files.
LEMMA ReadProject ==
  ASSUME NEW v \in Argvs, NEW n \in DOMAIN v, ~IsValue(v, n), v[n] = "project",
         NEW a \in ArgsOf(v), Prefix(v, n, a), a.files = <<>>
  PROVE  Prefix(v, n + 1, [a EXCEPT !.project = TRUE])
<1>1. PICK b : b = [a EXCEPT !.project = TRUE]
  OBVIOUS
<1>2. /\ b.project = TRUE
      /\ b.compiler = a.compiler /\ b.compiler_class = a.compiler_class /\ b.files = a.files
      /\ b.tdump = a.tdump /\ b.cstdump = a.cstdump /\ b.just_semantics = a.just_semantics
      /\ b.run_c_comp = a.run_c_comp /\ b.profile = a.profile
      /\ b.dump_projfiles = a.dump_projfiles
      /\ b.simulate_run = a.simulate_run /\ b.dump_commands = a.dump_commands
  BY <1>1 DEF ArgsOf
<1>3. v[n] \in Options
  BY DEF Options
<1>4. /\ \A o \in Options \ {"project"} : Seen(v, n + 1, o) = Seen(v, n, o)
      /\ Seen(v, n + 1, "project") # {}
  BY <1>3, NextOption
<1>5. InfoOptions \cup {"unknown", "dump-projfiles", "just-gen", "benchmark",
                        "simulate-run", "dump-commands"}
        \cup DOMAIN StageFlag \subseteq Options \ {"project"}
  BY Stages DEF Options, ValueOptions, InfoOptions
<1>6. OptionsRead(v, n, a)
  BY DEF Prefix
<1>7. OptionsRead(v, n + 1, b)
  BY <1>2, <1>4, <1>5, <1>6, Stages DEF OptionsRead
<1>8. OrderRead(v, n + 1)
  <2>1. Len(a.files) = 0
    BY DEF ArgsOf
  <2>2. WordsSeen(v, n) = {}
    <3>1. PICK m \in Nat : DOMAIN v = 1 .. m
      BY Line
    <3>2. IsFiniteSet(1 .. m)
      BY FS_Interval
    <3>3. WordsSeen(v, n) \in SUBSET (1 .. m)
      BY <3>1 DEF WordsSeen, Words
    <3>4. IsFiniteSet(WordsSeen(v, n))
      BY <3>2, <3>3, FS_Subset, Zenon
    <3>5. Cardinality(WordsSeen(v, n)) = 0
      BY <2>1 DEF Prefix, FilesRead
    <3> QED
      BY <3>4, <3>5, FS_EmptySet, Zenon
  <2>3. WordsSeen(v, n + 1) = {}
    BY <1>3, <2>2, PastOption, Zenon
  <2> QED
    BY <2>3 DEF OrderRead
<1> QED
  BY <1>1, <1>2, <1>3, <1>7, <1>8, OptionKeeps DEF Prefix

\* --just-gen
LEMMA ReadJustGen ==
  ASSUME NEW v \in Argvs, NEW n \in DOMAIN v, ~IsValue(v, n), v[n] = "just-gen",
         NEW a \in ArgsOf(v), Prefix(v, n, a)
  PROVE  Prefix(v, n + 1, [a EXCEPT !.run_c_comp = FALSE])
<1>1. PICK b : b = [a EXCEPT !.run_c_comp = FALSE]
  OBVIOUS
<1>2. /\ b.run_c_comp = FALSE
      /\ b.compiler = a.compiler /\ b.compiler_class = a.compiler_class
      /\ b.files = a.files /\ b.tdump = a.tdump
      /\ b.cstdump = a.cstdump /\ b.just_semantics = a.just_semantics
      /\ b.project = a.project /\ b.profile = a.profile
      /\ b.dump_projfiles = a.dump_projfiles /\ b.simulate_run = a.simulate_run
      /\ b.dump_commands = a.dump_commands
  BY <1>1 DEF ArgsOf
<1>3. v[n] \in Options
  BY DEF Options
<1>4. /\ \A o \in Options \ {"just-gen"} : Seen(v, n + 1, o) = Seen(v, n, o)
      /\ Seen(v, n + 1, "just-gen") = Seen(v, n, "just-gen") \cup {n}
  BY <1>3, NextOption
<1>5. InfoOptions \cup DOMAIN StageFlag
        \cup {"unknown", "dump-projfiles", "benchmark", "simulate-run",
              "dump-commands", "project"} \subseteq Options \ {"just-gen"}
  BY Stages DEF Options, InfoOptions
<1>6. OptionsRead(v, n, a)
  BY DEF Prefix
<1>7. OptionsRead(v, n + 1, b)
  BY <1>2, <1>4, <1>5, <1>6, Stages DEF OptionsRead
<1> QED
  BY <1>1, <1>2, <1>3, <1>7, OptionKeeps DEF Prefix

\* --benchmark, for the first time.
LEMMA ReadBenchmark ==
  ASSUME NEW v \in Argvs, NEW n \in DOMAIN v, ~IsValue(v, n), v[n] = "benchmark",
         NEW a \in ArgsOf(v), Prefix(v, n, a),
         ~a.profile
  PROVE  Prefix(v, n + 1, [a EXCEPT !.profile = TRUE])
<1>1. PICK b : b = [a EXCEPT !.profile = TRUE]
  OBVIOUS
<1>2. /\ b.profile = TRUE
      /\ b.compiler = a.compiler /\ b.compiler_class = a.compiler_class
      /\ b.files = a.files /\ b.tdump = a.tdump
      /\ b.cstdump = a.cstdump /\ b.just_semantics = a.just_semantics
      /\ b.project = a.project /\ b.run_c_comp = a.run_c_comp
      /\ b.dump_projfiles = a.dump_projfiles /\ b.simulate_run = a.simulate_run
      /\ b.dump_commands = a.dump_commands
  BY <1>1 DEF ArgsOf
<1>3. v[n] \in Options
  BY DEF Options
<1>4. /\ \A o \in Options \ {"benchmark"} : Seen(v, n + 1, o) = Seen(v, n, o)
      /\ Seen(v, n + 1, "benchmark") = Seen(v, n, "benchmark") \cup {n}
  BY <1>3, NextOption
<1>5. InfoOptions \cup DOMAIN StageFlag
        \cup {"unknown", "dump-projfiles", "just-gen", "simulate-run",
              "dump-commands", "project"} \subseteq Options \ {"benchmark"}
  BY Stages DEF Options, InfoOptions
<1>6. OptionsRead(v, n, a)
  BY DEF Prefix
<1>7. OptionsRead(v, n + 1, b)
  BY <1>2, <1>4, <1>5, <1>6, Stages DEF OptionsRead, AtMostOne
<1> QED
  BY <1>1, <1>2, <1>3, <1>7, OptionKeeps DEF Prefix

\* --dump-projfiles: the words that were read come before it.
LEMMA ReadDumpProjfiles ==
  ASSUME NEW v \in Argvs, NEW n \in DOMAIN v, ~IsValue(v, n), v[n] = "dump-projfiles",
         NEW a \in ArgsOf(v), Prefix(v, n, a)
  PROVE  Prefix(v, n + 1, [a EXCEPT !.dump_projfiles = TRUE, !.project = TRUE])
<1>1. PICK b : b = [a EXCEPT !.dump_projfiles = TRUE, !.project = TRUE]
  OBVIOUS
<1>2. /\ b.dump_projfiles = TRUE
      /\ b.project = TRUE
      /\ b.compiler = a.compiler /\ b.compiler_class = a.compiler_class
      /\ b.files = a.files /\ b.tdump = a.tdump
      /\ b.cstdump = a.cstdump /\ b.just_semantics = a.just_semantics
      /\ b.run_c_comp = a.run_c_comp /\ b.profile = a.profile
      /\ b.simulate_run = a.simulate_run /\ b.dump_commands = a.dump_commands
  BY <1>1 DEF ArgsOf
<1>3. v[n] \in Options
  BY DEF Options
<1>4. /\ \A o \in Options \ {"dump-projfiles"} : Seen(v, n + 1, o) = Seen(v, n, o)
      /\ Seen(v, n + 1, "dump-projfiles") = Seen(v, n, "dump-projfiles") \cup {n}
  BY <1>3, NextOption
<1>5. InfoOptions \cup DOMAIN StageFlag
        \cup {"unknown", "just-gen", "benchmark", "simulate-run",
              "dump-commands", "project"} \subseteq Options \ {"dump-projfiles"}
  BY Stages DEF Options, InfoOptions
<1>6. OptionsRead(v, n, a)
  BY DEF Prefix
<1>7. OptionsRead(v, n + 1, b)
  BY <1>2, <1>4, <1>5, <1>6, Stages DEF OptionsRead
<1>8. OrderRead(v, n + 1)
  <2>1. \A w \in WordsSeen(v, n) : w < n
    BY DEF WordsSeen
  <2>2. WordsSeen(v, n + 1) = WordsSeen(v, n)
    BY <1>3, PastOption, Zenon
  <2> QED
    BY <1>4, <1>5, <2>1, <2>2 DEF Prefix, OrderRead
<1> QED
  BY <1>1, <1>2, <1>3, <1>7, <1>8, OptionKeeps DEF Prefix

\* --dump-commands
LEMMA ReadDumpCommands ==
  ASSUME NEW v \in Argvs, NEW n \in DOMAIN v, ~IsValue(v, n), v[n] = "dump-commands",
         NEW a \in ArgsOf(v), Prefix(v, n, a)
  PROVE  Prefix(v, n + 1, [a EXCEPT !.dump_commands = TRUE])
<1>1. PICK b : b = [a EXCEPT !.dump_commands = TRUE]
  OBVIOUS
<1>2. /\ b.dump_commands = TRUE
      /\ b.compiler = a.compiler /\ b.compiler_class = a.compiler_class
      /\ b.files = a.files /\ b.tdump = a.tdump
      /\ b.cstdump = a.cstdump /\ b.just_semantics = a.just_semantics
      /\ b.project = a.project /\ b.run_c_comp = a.run_c_comp
      /\ b.profile = a.profile /\ b.dump_projfiles = a.dump_projfiles
      /\ b.simulate_run = a.simulate_run
  BY <1>1 DEF ArgsOf
<1>3. v[n] \in Options
  BY DEF Options
<1>4. /\ \A o \in Options \ {"dump-commands"} : Seen(v, n + 1, o) = Seen(v, n, o)
      /\ Seen(v, n + 1, "dump-commands") = Seen(v, n, "dump-commands") \cup {n}
  BY <1>3, NextOption
<1>5. InfoOptions \cup DOMAIN StageFlag
        \cup {"unknown", "dump-projfiles", "just-gen", "benchmark",
              "simulate-run", "project"} \subseteq Options \ {"dump-commands"}
  BY Stages DEF Options, InfoOptions
<1>6. OptionsRead(v, n, a)
  BY DEF Prefix
<1>7. OptionsRead(v, n + 1, b)
  BY <1>2, <1>4, <1>5, <1>6, Stages DEF OptionsRead
<1> QED
  BY <1>1, <1>2, <1>3, <1>7, OptionKeeps DEF Prefix

\* --simulate-run
LEMMA ReadSimulateRun ==
  ASSUME NEW v \in Argvs, NEW n \in DOMAIN v, ~IsValue(v, n), v[n] = "simulate-run",
         NEW a \in ArgsOf(v), Prefix(v, n, a)
  PROVE  Prefix(v, n + 1, [a EXCEPT !.simulate_run = TRUE, !.dump_commands = TRUE])
<1>1. PICK b : b = [a EXCEPT !.simulate_run = TRUE, !.dump_commands = TRUE]
  OBVIOUS
<1>2. /\ b.simulate_run = TRUE
      /\ b.dump_commands = TRUE
      /\ b.compiler = a.compiler /\ b.compiler_class = a.compiler_class
      /\ b.files = a.files /\ b.tdump = a.tdump
      /\ b.cstdump = a.cstdump /\ b.just_semantics = a.just_semantics
      /\ b.project = a.project /\ b.run_c_comp = a.run_c_comp
      /\ b.profile = a.profile /\ b.dump_projfiles = a.dump_projfiles
  BY <1>1 DEF ArgsOf
<1>3. v[n] \in Options
  BY DEF Options
<1>4. /\ \A o \in Options \ {"simulate-run"} : Seen(v, n + 1, o) = Seen(v, n, o)
      /\ Seen(v, n + 1, "simulate-run") = Seen(v, n, "simulate-run") \cup {n}
  BY <1>3, NextOption
<1>5. InfoOptions \cup DOMAIN StageFlag
        \cup {"unknown", "dump-projfiles", "just-gen", "benchmark",
              "dump-commands", "project"} \subseteq Options \ {"simulate-run"}
  BY Stages DEF Options, InfoOptions
<1>6. OptionsRead(v, n, a)
  BY DEF Prefix
<1>7. OptionsRead(v, n + 1, b)
  BY <1>2, <1>4, <1>5, <1>6, Stages DEF OptionsRead
<1> QED
  BY <1>1, <1>2, <1>3, <1>7, OptionKeeps DEF Prefix

\* --dump-tokens, --dump-cst and --just-semantics, while no other of them is set.
LEMMA ReadStage ==
  ASSUME NEW v \in Argvs, NEW n \in DOMAIN v, ~IsValue(v, n), NEW o \in DOMAIN StageFlag, v[n] = o,
         NEW a \in ArgsOf(v), Prefix(v, n, a),
         \A f \in StageFlags \ {StageFlag[o]} : ~a[f]
  PROVE  Prefix(v, n + 1, [a EXCEPT ![StageFlag[o]] = TRUE])
<1>1. PICK f : f = StageFlag[o]
  OBVIOUS
<1>2. PICK b : b = [a EXCEPT ![f] = TRUE]
  OBVIOUS
<1>3. /\ f \in StageFlags
      /\ \A p \in DOMAIN StageFlag : StageFlag[p] \in StageFlags /\ (StageFlag[p] = f <=> p = o)
  BY <1>1, Stages DEF StageFlags
<1>4. b[f] = TRUE /\ \A g \in StageFlags \ {f} : b[g] = a[g]
  BY <1>2, <1>3 DEF ArgsOf, StageFlags
<1>5. /\ b.compiler = a.compiler /\ b.compiler_class = a.compiler_class
      /\ b.files = a.files /\ b.project = a.project
      /\ b.run_c_comp = a.run_c_comp /\ b.profile = a.profile
      /\ b.dump_projfiles = a.dump_projfiles
      /\ b.simulate_run = a.simulate_run /\ b.dump_commands = a.dump_commands
  BY <1>2, <1>3 DEF ArgsOf, StageFlags
<1>6. v[n] \in Options
  BY DEF Options
<1>7. /\ \A p \in Options \ {o} : Seen(v, n + 1, p) = Seen(v, n, p)
      /\ Seen(v, n + 1, o) = Seen(v, n, o) \cup {n}
  BY <1>6, NextOption
<1>8. /\ InfoOptions \cup {"unknown", "dump-projfiles", "just-gen", "benchmark",
                           "simulate-run", "dump-commands", "project"} \subseteq Options \ {o}
      /\ DOMAIN StageFlag \subseteq Options
  BY Stages DEF Options, InfoOptions
<1>9. OptionsRead(v, n, a)
  BY DEF Prefix
<1>10. /\ \A p \in DOMAIN StageFlag : b[StageFlag[p]] <=> Seen(v, n + 1, p) # {}
       /\ \A p \in DOMAIN StageFlag : Seen(v, n + 1, p) # {} => p = o
  <2> SUFFICES ASSUME NEW p \in DOMAIN StageFlag
               PROVE  /\ b[StageFlag[p]] <=> Seen(v, n + 1, p) # {}
                      /\ Seen(v, n + 1, p) # {} => p = o
    BY Zenon
  <2>1. CASE p = o
    BY <1>1, <1>4, <1>7, <2>1
  <2>2. CASE p # o
    <3>1. StageFlag[p] \in StageFlags \ {f}
      BY <1>3, <2>2, Zenon
    <3>2. ~a[StageFlag[p]] /\ b[StageFlag[p]] = a[StageFlag[p]]
      BY <1>1, <1>4, <3>1, Zenon
    <3>3. a[StageFlag[p]] <=> Seen(v, n, p) # {}
      BY <1>9, Zenon DEF OptionsRead
    <3>4. Seen(v, n + 1, p) = Seen(v, n, p)
      BY <1>7, <1>8, <2>2
    <3> QED
      BY <3>2, <3>3, <3>4, Zenon
  <2> QED
    BY <2>1, <2>2
<1>11. OptionsRead(v, n + 1, b)
  BY <1>5, <1>7, <1>8, <1>9, <1>10 DEF OptionsRead
<1>12. v[n] \notin {"project", "dump-projfiles"}
  BY Stages
<1> QED
  BY <1>1, <1>2, <1>5, <1>6, <1>11, <1>12, OptionKeeps DEF Prefix

\* What a value leaves as it is.
LEMMA ValueKeeps ==
  ASSUME NEW v \in Argvs, NEW n \in DOMAIN v, IsValue(v, n),
         NEW a, NEW b, Prefix(v, n, a),
         b.tdump = a.tdump, b.cstdump = a.cstdump, b.just_semantics = a.just_semantics,
         b.project = a.project, b.run_c_comp = a.run_c_comp, b.profile = a.profile,
         b.dump_projfiles = a.dump_projfiles, b.simulate_run = a.simulate_run,
         b.dump_commands = a.dump_commands, b.files = a.files
  PROVE  OptionsRead(v, n + 1, b) /\ FilesRead(v, n + 1, b.files) /\ OrderRead(v, n + 1)
<1>1. \A o : Seen(v, n + 1, o) = Seen(v, n, o)
  BY PastValue, Zenon
<1>2. WordsSeen(v, n + 1) = WordsSeen(v, n)
  BY PastValue, Zenon
<1>3. OptionsRead(v, n, a) /\ FilesRead(v, n, a.files) /\ OrderRead(v, n)
  BY DEF Prefix
<1>4. \A o \in DOMAIN StageFlag : b[StageFlag[o]] <=> a[StageFlag[o]]
  BY Stages
<1>5. OptionsRead(v, n + 1, b)
  BY <1>1, <1>3, <1>4 DEF OptionsRead
<1>6. FilesRead(v, n + 1, b.files)
  BY <1>2, <1>3, Zenon DEF FilesRead
<1>7. OrderRead(v, n + 1)
  BY <1>1, <1>2, <1>3, Zenon DEF OrderRead
<1> QED
  BY <1>5, <1>6, <1>7

\* The first value of an option o, and what it leaves of the other one, p.
LEMMA FirstValue ==
  ASSUME NEW v \in Argvs, NEW n \in DOMAIN v, IsValue(v, n), NEW o, v[n - 1] = o,
         NEW p \in ValueOptions, p # o, NEW x, ValueRead(v, n, o, None), ValueRead(v, n, p, x)
  PROVE  /\ ValueRead(v, n + 1, o, v[n]) /\ ValueRead(v, n + 1, p, x)
         /\ Used(v, n + 1, p) = Used(v, n, p)
<1>1. Used(v, n, o) = {}
  BY DEF ValueRead
<1>2. Used(v, n + 1, o) = {n - 1}
  BY <1>1, PastValue
<1>3. Used(v, n + 1, p) = Used(v, n, p)
  BY PastValue
<1>4. (n - 1) + 1 = n /\ v[n] # None
  BY Line
<1>5. ValueRead(v, n + 1, o, v[n])
  BY <1>2, <1>4 DEF ValueRead, AtMostOne
<1>6. ValueRead(v, n + 1, p, x)
  BY <1>3, Zenon DEF ValueRead
<1> QED
  BY <1>3, <1>5, <1>6

\* The first value of --native-compiler.
LEMMA ReadName ==
  ASSUME NEW v \in Argvs, NEW n \in DOMAIN v, IsValue(v, n), v[n - 1] = "native-compiler",
         NEW a \in ArgsOf(v), Prefix(v, n, a), a.compiler = None
  PROVE  Prefix(v, n + 1, [a EXCEPT !.compiler = v[n]])
<1>1. PICK b : b = [a EXCEPT !.compiler = v[n]]
  OBVIOUS
<1>2. /\ b.compiler = v[n] /\ b.compiler_class = a.compiler_class
      /\ b.tdump = a.tdump /\ b.cstdump = a.cstdump /\ b.just_semantics = a.just_semantics
      /\ b.project = a.project /\ b.run_c_comp = a.run_c_comp /\ b.profile = a.profile
      /\ b.dump_projfiles = a.dump_projfiles /\ b.simulate_run = a.simulate_run
      /\ b.dump_commands = a.dump_commands /\ b.files = a.files
  BY <1>1 DEF ArgsOf
<1>3. ValuesRead(v, n, a)
  BY DEF Prefix
<1>4. "compiler-type" \in ValueOptions
  BY DEF ValueOptions
<1>5. ValuesRead(v, n + 1, b)
  BY <1>2, <1>3, <1>4, FirstValue DEF ValuesRead
<1> QED
  BY <1>1, <1>2, <1>5, ValueKeeps DEF Prefix

\* The first value of --compiler-type, if it is known.
LEMMA ReadType ==
  ASSUME NEW v \in Argvs, NEW n \in DOMAIN v, IsValue(v, n), v[n - 1] = "compiler-type",
         NEW a \in ArgsOf(v), Prefix(v, n, a), a.compiler_class = None, v[n] \in CompilerTypes
  PROVE  Prefix(v, n + 1, [a EXCEPT !.compiler_class = v[n]])
<1>1. PICK b : b = [a EXCEPT !.compiler_class = v[n]]
  OBVIOUS
<1>2. /\ b.compiler_class = v[n] /\ b.compiler = a.compiler
      /\ b.tdump = a.tdump /\ b.cstdump = a.cstdump /\ b.just_semantics = a.just_semantics
      /\ b.project = a.project /\ b.run_c_comp = a.run_c_comp /\ b.profile = a.profile
      /\ b.dump_projfiles = a.dump_projfiles /\ b.simulate_run = a.simulate_run
      /\ b.dump_commands = a.dump_commands /\ b.files = a.files
  BY <1>1 DEF ArgsOf
<1>3. ValuesRead(v, n, a)
  BY DEF Prefix
<1>4. "native-compiler" \in ValueOptions
  BY DEF ValueOptions
<1>5. /\ ValueRead(v, n + 1, "compiler-type", v[n])
      /\ ValueRead(v, n + 1, "native-compiler", a.compiler)
  BY <1>3, <1>4, FirstValue DEF ValuesRead
<1>6. \A j \in Used(v, n + 1, "compiler-type") : v[j + 1] \in CompilerTypes
  BY <1>5 DEF ValueRead
<1>7. ValuesRead(v, n + 1, b)
  BY <1>2, <1>5, <1>6 DEF ValuesRead
<1> QED
  BY <1>1, <1>2, <1>7, ValueKeeps DEF Prefix

\* A word goes to the end of the files.
LEMMA ReadWord ==
  ASSUME NEW v \in Argvs, NEW n \in DOMAIN v, ~IsValue(v, n), v[n] \notin Options,
         NEW a \in ArgsOf(v), Prefix(v, n, a), ~a.project
  PROVE  Prefix(v, n + 1, [a EXCEPT !.files = Append(@, v[n])])
<1>1. PICK b : b = [a EXCEPT !.files = Append(@, v[n])]
  OBVIOUS
<1>2. /\ b.files = Append(a.files, v[n])
      /\ b.compiler = a.compiler /\ b.compiler_class = a.compiler_class
      /\ b.tdump = a.tdump /\ b.cstdump = a.cstdump /\ b.just_semantics = a.just_semantics
      /\ b.project = a.project /\ b.run_c_comp = a.run_c_comp /\ b.profile = a.profile
      /\ b.dump_projfiles = a.dump_projfiles /\ b.simulate_run = a.simulate_run
      /\ b.dump_commands = a.dump_commands
  BY <1>1 DEF ArgsOf
<1>3. /\ ValuesRead(v, n, a) /\ OptionsRead(v, n, a) /\ FilesRead(v, n, a.files)
  BY DEF Prefix
<1>4. \A o \in Options : Seen(v, n + 1, o) = Seen(v, n, o)
  BY PastWord, Zenon
<1>5. ValuesRead(v, n + 1, b)
  <2>1. \A o \in ValueOptions : Used(v, n + 1, o) = Used(v, n, o)
    BY PastWord, Zenon
  <2>2. "native-compiler" \in ValueOptions /\ "compiler-type" \in ValueOptions
    BY DEF ValueOptions
  <2> QED
    BY <1>2, <1>3, <2>1, <2>2, Zenon DEF ValuesRead, ValueRead
<1>6. /\ InfoOptions \cup {"unknown", "dump-projfiles", "just-gen", "benchmark",
                           "simulate-run", "dump-commands", "project"} \subseteq Options
      /\ DOMAIN StageFlag \subseteq Options
  BY Stages DEF Options, InfoOptions
<1>7. OptionsRead(v, n + 1, b)
  <2>1. \A o \in DOMAIN StageFlag : b[StageFlag[o]] <=> a[StageFlag[o]]
    BY <1>2, Stages
  <2> QED
    BY <1>2, <1>3, <1>4, <1>6, <2>1 DEF OptionsRead
<1>8. OrderRead(v, n + 1)
  <2>1. Seen(v, n, "project") = {} /\ Seen(v, n, "dump-projfiles") = {}
    BY <1>3 DEF OptionsRead
  <2>2. Seen(v, n + 1, "project") = {} /\ Seen(v, n + 1, "dump-projfiles") = {}
    BY <1>4, <1>6, <2>1
  <2> QED
    BY <2>2 DEF OrderRead
<1>9. FilesRead(v, n + 1, b.files)
  <2>1. PICK W : W = WordsSeen(v, n)
    OBVIOUS
  <2>2. PICK m \in Nat : DOMAIN v = 1 .. m
    BY Line
  <2>3. IsFiniteSet(W)
    <3>1. IsFiniteSet(1 .. m)
      BY FS_Interval
    <3>2. W \in SUBSET (1 .. m)
      BY <2>1, <2>2 DEF WordsSeen, Words
    <3> QED
      BY <3>1, <3>2, FS_Subset, Zenon
  <2>4. PICK c : c = Cardinality(W)
    OBVIOUS
  <2>5. c \in Nat
    BY <2>3, <2>4, FS_CardinalityType
  <2>6. WordsSeen(v, n + 1) = W \cup {n} /\ n \in Words(v) /\ n \notin W
    BY <2>1, PastWord
  <2>7. Cardinality(W \cup {n}) = c + 1
    BY <2>3, <2>4, <2>6, FS_AddElement
  <2>8. PICK F : F = a.files
    OBVIOUS
  <2>9. F \in Seq(Arg(v)) /\ Len(F) = c
    BY <1>3, <2>1, <2>4, <2>8 DEF ArgsOf, FilesRead
  <2>10. PICK G : G = b.files
    OBVIOUS
  <2>11. /\ Len(G) = c + 1 /\ G[c + 1] = v[n]
         /\ \A k \in 1 .. c : G[k] = F[k]
    BY <1>2, <2>5, <2>8, <2>9, <2>10
  <2>12. \A u \in Words(v) : u <= n <=> u \in W \/ u = n
    <3>1. Words(v) \subseteq 1 .. m
      BY <2>2 DEF Words
    <3> QED
      BY <2>1, <2>2, <3>1 DEF WordsSeen
  <2>13. G[Cardinality({u \in Words(v) : u <= n})] = v[n]
    <3>1. {u \in Words(v) : u <= n} = W \cup {n}
      BY <2>1, <2>6, <2>12 DEF WordsSeen
    <3> QED
      BY <2>7, <2>11, <3>1
  <2>14. ASSUME NEW w \in W PROVE G[Cardinality({u \in Words(v) : u <= w})] = v[w]
    <3>1. PICK S : S = {u \in Words(v) : u <= w}
      OBVIOUS
    <3>2. S \in SUBSET W /\ w \in S
      <4>1. Words(v) \subseteq 1 .. m
        BY <2>2 DEF Words
      <4> QED
        BY <2>1, <2>2, <3>1, <4>1 DEF WordsSeen
    <3>3. IsFiniteSet(S) /\ Cardinality(S) <= c
      BY <2>3, <2>4, <3>2, FS_Subset
    <3>4. Cardinality(S) \in Nat /\ Cardinality(S) # 0
      BY <3>2, <3>3, FS_CardinalityType, FS_EmptySet
    <3>5. Cardinality(S) \in 1 .. c
      BY <2>5, <3>3, <3>4
    <3>6. F[Cardinality(S)] = v[w]
      BY <1>3, <2>1, <2>8, <3>1 DEF FilesRead
    <3> QED
      BY <2>11, <3>1, <3>5, <3>6
  <2>15. Len(G) = Cardinality(WordsSeen(v, n + 1))
    BY <2>6, <2>7, <2>11
  <2> QED
    BY <2>6, <2>10, <2>13, <2>14, <2>15 DEF FilesRead
<1> QED
  BY <1>1, <1>5, <1>7, <1>8, <1>9 DEF Prefix

-----------------------------------------------------------------------------
(* The parser *)

\* While it parses, want says whether the next argument is a value, and of what; and the line can
\* still be accepted only if nothing was found.
ParsingInv ==
  /\ IsValue(argv, i) <=> want # None
  /\ want = "name" => argv[i - 1] = "native-compiler"
  /\ want = "type" => argv[i - 1] = "compiler-type"
  /\ want # None => i <= Len(argv)
  /\ args.wanted_output = "none" => Prefix(argv, i, args)
  /\ args.wanted_output # "none" => ~Acceptable(argv)
  /\ args.error <=> args.wanted_output = "error"

ArgsInv ==
  /\ argv \in Argvs /\ i \in 1 .. Len(argv) + 1 /\ want \in {None, "name", "type"}
  /\ args \in ArgsOf(argv) /\ parse \in {"parsing", "parsed"}
  /\ parse = "parsing" => ParsingInv
  /\ args.wanted_output \in InfoOptions => Given(argv, args.wanted_output)
  /\ ParsedRight

\* What yf_set_error leaves.
LEMMA ErrorType ==
  ASSUME NEW v, NEW a \in ArgsOf(v)
  PROVE  /\ SetError(a) \in ArgsOf(v)
         /\ SetError(a).wanted_output = "error" /\ SetError(a).error = TRUE
BY DEF SetError, ArgsOf

\* The parser stops, for good reason.
LEMMA Refuses ==
  ASSUME ArgsInv, ~Acceptable(argv), NEW b \in ArgsOf(argv), Stop(SetError(b))
  PROVE  ArgsInv'
<1>1. /\ args' = SetError(b) /\ parse' = "parsed"
      /\ argv' = argv /\ i' = i /\ want' = want
  BY DEF Stop
<1>2. args' \in ArgsOf(argv) /\ args'.wanted_output = "error"
  BY <1>1, ErrorType, Zenon
<1>3. ParsedRight'
  BY <1>1, <1>2 DEF ParsedRight, ShouldCompile
<1>4. args'.wanted_output \notin InfoOptions
  BY <1>2 DEF InfoOptions
<1> QED
  BY <1>1, <1>2, <1>3, <1>4 DEF ArgsInv

\* The parser goes on.
LEMMA GoesOn ==
  ASSUME ArgsInv, parse = "parsing", i <= Len(argv),
         NEW b \in ArgsOf(argv), NEW w \in {None, "name", "type"}, Continue(b, w),
         IsValue(argv, i + 1) <=> w # None,
         w = "name" => argv[i] = "native-compiler",
         w = "type" => argv[i] = "compiler-type",
         w # None => i # Len(argv),
         b.wanted_output = "none" => Prefix(argv, i + 1, b),
         b.wanted_output # "none" => ~Acceptable(argv),
         b.error <=> b.wanted_output = "error",
         b.wanted_output \in InfoOptions => Given(argv, b.wanted_output)
  PROVE  ArgsInv'
<1>1. /\ args' = b /\ want' = w /\ i' = i + 1
      /\ argv' = argv /\ parse' = "parsing"
  BY DEF Continue
<1>2. Len(argv) \in Nat /\ i \in 1 .. Len(argv) + 1
  BY Line DEF ArgsInv
<1>3. i + 1 \in 1 .. Len(argv) + 1 /\ (i + 1) - 1 = i /\ (i # Len(argv) => i + 1 <= Len(argv))
  BY <1>2
<1>4. ParsingInv'
  BY <1>1, <1>3 DEF ParsingInv
<1>5. ParsedRight'
  BY <1>1 DEF ParsedRight
<1>6. args'.wanted_output \in InfoOptions => Given(argv', args'.wanted_output)
  BY <1>1, Zenon
<1> QED
  BY <1>1, <1>3, <1>4, <1>5, <1>6 DEF ArgsInv

\* An argument that only has its effect.
LEMMA HasEffect ==
  ASSUME ArgsInv, parse = "parsing", i <= Len(argv),
         want # None \/ argv[i] \notin ValueOptions,
         NEW b \in ArgsOf(argv), Continue(b, None),
         b.wanted_output = args.wanted_output, b.error = args.error,
         args.wanted_output = "none" => Prefix(argv, i + 1, b)
  PROVE  ArgsInv'
<1>1. ParsingInv /\ (b.wanted_output \in InfoOptions => Given(argv, b.wanted_output))
  BY DEF ArgsInv
<1>2. ~IsValue(argv, i + 1)
  <2>1. i \in Nat \ {0}
    BY DEF ArgsInv
  <2> QED
    BY <1>1, <2>1, ValuePlaces DEF ParsingInv
<1>3. None \notin {"name", "type"}
  BY ArgsAssumption
<1> QED
  BY <1>1, <1>2, <1>3, GoesOn DEF ParsingInv

\* Init establishes the invariant.
LEMMA InitInv == ArgsInit => ArgsInv
<1> SUFFICES ASSUME ArgsInit PROVE ArgsInv
  OBVIOUS
<1>1. argv \in Argvs /\ i = 1 /\ want = None /\ args = NoArgs /\ parse = "parsing"
  BY DEF ArgsInit
<1>2. NoArgs \in ArgsOf(argv) /\ Prefix(argv, 1, NoArgs)
  BY <1>1, Nothing, Zenon
<1>3. ~IsValue(argv, 1)
  BY ValuePlaces, Zenon
<1>4. Len(argv) \in Nat /\ 1 \in 1 .. Len(argv) + 1
  BY <1>1, Line
<1>5. NoArgs.wanted_output = "none" /\ NoArgs.error = FALSE /\ "none" \notin InfoOptions
  BY DEF NoArgs, InfoOptions
<1>6. None \notin {"name", "type"}
  BY ArgsAssumption
<1>7. ParsingInv
  BY <1>1, <1>2, <1>3, <1>5, <1>6 DEF ParsingInv
<1>8. ParsedRight
  BY <1>1 DEF ParsedRight
<1> QED
  BY <1>1, <1>2, <1>4, <1>5, <1>7, <1>8 DEF ArgsInv

-----------------------------------------------------------------------------
(* One lemma for each branch of the loop *)

\* What is known where the loop looks at an argument.
LEMMA AtArgument ==
  ASSUME ArgsInv, NEW w, Reading(w)
  PROVE  /\ argv \in Argvs /\ i \in DOMAIN argv /\ args \in ArgsOf(argv) /\ argv[i] \in Arg(argv)
         /\ parse = "parsing" /\ i <= Len(argv) /\ want = w
         /\ IsValue(argv, i) <=> w # None
         /\ args.wanted_output = "none" => Prefix(argv, i, args)
         /\ args.wanted_output # "none" => ~Acceptable(argv)
         /\ args.error <=> args.wanted_output = "error"
         /\ None \notin {"name", "type"}
<1>1. argv \in Argvs /\ i \in 1 .. Len(argv) + 1 /\ args \in ArgsOf(argv)
  BY DEF ArgsInv
<1>2. parse = "parsing" /\ i <= Len(argv) /\ want = w
  BY DEF Reading
<1>3. i \in DOMAIN argv
  BY <1>1, <1>2, Line
<1>4. argv[i] \in Arg(argv)
  BY <1>3 DEF Arg
<1>5. ParsingInv
  BY <1>2 DEF ArgsInv
<1> QED
  BY <1>1, <1>2, <1>3, <1>4, <1>5, ArgsAssumption DEF ParsingInv

\* The value options whose value has been read leave no room for another one.
LEMMA SecondValue ==
  ASSUME NEW v \in Argvs, NEW n \in DOMAIN v, IsValue(v, n), NEW x, x # None,
         ValueRead(v, n, v[n - 1], x)
  PROVE  ~Acceptable(v)
<1>1. PICK o : o = v[n - 1]
  OBVIOUS
<1>2. n - 1 \in At(v, o) /\ o \in ValueOptions /\ n - 1 \notin Used(v, n, o)
  BY <1>1, PastValue
<1>3. PICK j \in Used(v, n, o) : TRUE
  BY <1>1 DEF ValueRead
<1>4. j \in At(v, o) /\ j # n - 1
  BY <1>2, <1>3 DEF Used
<1>5. ~AtMostOne(At(v, o))
  BY <1>2, <1>4 DEF AtMostOne
<1> QED
  BY <1>2, <1>5, Meaning DEF Meant

\* The name after --native-compiler.
LEMMA NameStep == ArgsInv /\ CompilerName => ArgsInv'
<1> SUFFICES ASSUME ArgsInv, CompilerName PROVE ArgsInv'
  OBVIOUS
<1>1. Reading("name")
  BY DEF CompilerName
<1>2. "name" # None
  BY <1>1, AtArgument
<1>3. argv[i - 1] = "native-compiler"
  BY <1>1 DEF ArgsInv, ParsingInv, Reading
<1>4. CASE args.compiler = None /\ Continue([args EXCEPT !.compiler = argv[i]], None)
  <2>1. PICK b : b = [args EXCEPT !.compiler = argv[i]]
    OBVIOUS
  <2>2. b \in ArgsOf(argv) /\ b.wanted_output = args.wanted_output /\ b.error = args.error
    BY <1>1, <2>1, AtArgument DEF ArgsOf
  <2>3. args.wanted_output = "none" => Prefix(argv, i + 1, b)
    BY <1>1, <1>2, <1>3, <1>4, <2>1, AtArgument, ReadName
  <2>4. Continue(b, None)
    BY <1>4, <2>1
  <2>5. parse = "parsing" /\ i <= Len(argv) /\ want # None
    BY <1>1, <1>2, AtArgument
  <2> QED
    BY <2>2, <2>3, <2>4, <2>5, HasEffect
<1>5. CASE args.compiler # None /\ Stop(SetError(args))
  <2>1. args.wanted_output = "none" => ValueRead(argv, i, argv[i - 1], args.compiler)
    BY <1>1, <1>3, AtArgument DEF Prefix, ValuesRead
  <2>2. ~Acceptable(argv)
    BY <1>1, <1>2, <1>5, <2>1, AtArgument, SecondValue
  <2>3. args \in ArgsOf(argv)
    BY <1>1, AtArgument
  <2> QED
    BY <1>5, <2>2, <2>3, Refuses
<1> QED
  BY <1>4, <1>5 DEF CompilerName

\* The type after --compiler-type.
LEMMA TypeStep == ArgsInv /\ CompilerType => ArgsInv'
<1> SUFFICES ASSUME ArgsInv, CompilerType PROVE ArgsInv'
  OBVIOUS
<1>1. Reading("type")
  BY DEF CompilerType
<1>2. "type" # None
  BY <1>1, AtArgument
<1>3. argv[i - 1] = "compiler-type"
  BY <1>1 DEF ArgsInv, ParsingInv, Reading
<1>4. parse = "parsing" /\ i <= Len(argv) /\ want # None
  BY <1>1, <1>2, AtArgument
<1>5. CASE args.compiler_class # None /\ Stop(SetError(args))
  <2>1. args.wanted_output = "none" => ValueRead(argv, i, argv[i - 1], args.compiler_class)
    BY <1>1, <1>3, AtArgument DEF Prefix, ValuesRead
  <2>2. ~Acceptable(argv)
    BY <1>1, <1>2, <1>5, <2>1, AtArgument, SecondValue
  <2>3. args \in ArgsOf(argv)
    BY <1>1, AtArgument
  <2> QED
    BY <1>5, <2>2, <2>3, Refuses
<1>6. CASE /\ args.compiler_class = None /\ argv[i] \in CompilerTypes
           /\ Continue([args EXCEPT !.compiler_class = argv[i]], None)
  <2>1. PICK b : b = [args EXCEPT !.compiler_class = argv[i]]
    OBVIOUS
  <2>2. b \in ArgsOf(argv) /\ b.wanted_output = args.wanted_output /\ b.error = args.error
    BY <1>1, <2>1, AtArgument DEF ArgsOf
  <2>3. args.wanted_output = "none" => Prefix(argv, i + 1, b)
    BY <1>1, <1>2, <1>3, <1>6, <2>1, AtArgument, ReadType
  <2>4. Continue(b, None)
    BY <1>6, <2>1
  <2> QED
    BY <1>4, <2>2, <2>3, <2>4, HasEffect
<1>7. CASE argv[i] \notin CompilerTypes /\ Continue(SetError(args), None)
  <2>1. PICK b : b = SetError(args)
    OBVIOUS
  <2>2. /\ b \in ArgsOf(argv) /\ b.wanted_output = "error" /\ b.error = TRUE
        /\ "error" \notin InfoOptions
    <3>1. args \in ArgsOf(argv)
      BY <1>1, AtArgument
    <3>2. "error" \notin InfoOptions
      BY DEF InfoOptions
    <3> QED
      BY <2>1, <3>1, <3>2, ErrorType, Zenon
  <2>3. ~Acceptable(argv)
    <3>1. i - 1 \in At(argv, "compiler-type") /\ (i - 1) + 1 = i
      BY <1>1, <1>2, <1>3, AtArgument, PastValue, Line
    <3> QED
      BY <1>1, <1>7, <3>1, AtArgument, Meaning DEF Meant
  <2>4. ~IsValue(argv, i + 1)
    <3>1. i \in Nat \ {0} /\ IsValue(argv, i)
      BY <1>1, <1>2, AtArgument DEF ArgsInv
    <3> QED
      BY <3>1, ValuePlaces
  <2>5. Continue(b, None)
    BY <1>7, <2>1
  <2>6. None \notin {"name", "type"}
    BY <1>1, AtArgument
  <2> QED
    BY <1>4, <2>2, <2>3, <2>4, <2>5, <2>6, GoesOn
<1> QED
  BY <1>5, <1>6, <1>7 DEF CompilerType

\* --help and --version.
LEMMA InfoStep == ArgsInv /\ Info => ArgsInv'
<1> SUFFICES ASSUME ArgsInv, NEW o \in InfoOptions, Option(o), Continue(CheckAction(args, o), None)
             PROVE  ArgsInv'
  BY DEF Info
<1>1. Reading(None) /\ argv[i] = o
  BY DEF Option
<1>2. PICK b : b = CheckAction(args, o)
  OBVIOUS
<1>3. /\ b \in ArgsOf(argv) /\ b.wanted_output # "none" /\ (b.error <=> b.wanted_output = "error")
      /\ b.wanted_output \in InfoOptions => b.wanted_output = o
  <2>1. args \in ArgsOf(argv) /\ (args.error <=> args.wanted_output = "error")
    BY <1>1, AtArgument
  <2>2. CASE args.wanted_output # "none"
    BY <1>2, <2>1, <2>2, ErrorType DEF CheckAction, InfoOptions
  <2>3. CASE args.wanted_output = "none"
    BY <1>2, <2>1, <2>3 DEF CheckAction, ArgsOf, InfoOptions
  <2> QED
    BY <2>2, <2>3
<1>4. o \in Options
  BY DEF Options
<1>5. ~IsValue(argv, i) /\ argv \in Argvs /\ i \in DOMAIN argv
  BY <1>1, AtArgument
<1>6. ~Acceptable(argv) /\ Given(argv, o)
  <2>1. i \in At(argv, o)
    BY <1>1, <1>4, <1>5, PastOption
  <2> QED
    BY <1>5, <2>1, Meaning DEF Meant, Given
<1>7. ~IsValue(argv, i + 1)
  <2>1. i \in Nat \ {0} /\ argv[i] \notin ValueOptions
    BY <1>1 DEF ArgsInv, InfoOptions, ValueOptions
  <2> QED
    BY <2>1, ValuePlaces
<1>8. parse = "parsing" /\ i <= Len(argv) /\ None \notin {"name", "type"}
  BY <1>1, AtArgument
<1>9. Continue(b, None)
  BY <1>2
<1> QED
  BY <1>3, <1>6, <1>7, <1>8, <1>9, GoesOn

\* --native-compiler and --compiler-type.
LEMMA ValueOptionStep == ArgsInv /\ ValueOption => ArgsInv'
<1> SUFFICES ASSUME ArgsInv, NEW o \in ValueOptions, Option(o),
                    IF i = Len(argv)
                    THEN Stop(SetError(args))
                    ELSE Continue(args, IF o = "native-compiler" THEN "name" ELSE "type")
             PROVE  ArgsInv'
  BY DEF ValueOption
<1>1. Reading(None) /\ argv[i] = o
  BY DEF Option
<1>2. /\ ~IsValue(argv, i) /\ argv \in Argvs /\ i \in DOMAIN argv /\ args \in ArgsOf(argv)
      /\ o \in Options
  BY <1>1, AtArgument DEF Options
<1>3. CASE i = Len(argv)
  <2>1. i \in At(argv, o)
    BY <1>1, <1>2, PastOption
  <2>2. ~Acceptable(argv)
    BY <1>2, <1>3, <2>1, Meaning DEF Meant
  <2> QED
    BY <1>2, <1>3, <2>2, Refuses
<1>4. CASE i # Len(argv)
  <2>1. PICK w : w = IF o = "native-compiler" THEN "name" ELSE "type"
    OBVIOUS
  <2>2. /\ w \in {"name", "type"}
        /\ w = "name" => argv[i] = "native-compiler"
        /\ w = "type" => argv[i] = "compiler-type"
    BY <1>1, <2>1 DEF ValueOptions
  <2>3. IsValue(argv, i + 1)
    <3>1. i \in Nat \ {0}
      BY DEF ArgsInv
    <3> QED
      BY <1>1, <1>2, <3>1, ValuePlaces
  <2>4. args.wanted_output = "none" => Prefix(argv, i + 1, args)
    BY <1>1, <1>2, AtArgument, ReadValueOption
  <2>5. Continue(args, w)
    BY <1>4, <2>1
  <2>6. /\ parse = "parsing" /\ i <= Len(argv) /\ None \notin {"name", "type"}
        /\ args.wanted_output # "none" => ~Acceptable(argv)
        /\ args.error <=> args.wanted_output = "error"
        /\ args.wanted_output \in InfoOptions => Given(argv, args.wanted_output)
    BY <1>1, AtArgument DEF ArgsInv
  <2> QED
    BY <1>2, <1>4, <2>2, <2>3, <2>4, <2>5, <2>6, GoesOn
<1> QED
  BY <1>3, <1>4

\* --project, which no word may come before.
LEMMA ProjectStep == ArgsInv /\ Project => ArgsInv'
<1> SUFFICES ASSUME ArgsInv, Project PROVE ArgsInv'
  OBVIOUS
<1>1. Reading(None) /\ argv[i] = "project"
  BY DEF Project, Option
<1>2. PICK b : b = [args EXCEPT !.project = TRUE]
  OBVIOUS
<1>3. b \in ArgsOf(argv) /\ b.wanted_output = args.wanted_output /\ b.error = args.error
  BY <1>1, <1>2, AtArgument DEF ArgsOf
<1>4. CASE args.files = <<>> /\ Continue(b, None)
  <2>1. args.wanted_output = "none" => Prefix(argv, i + 1, b)
    BY <1>1, <1>2, <1>4, AtArgument, ReadProject
  <2>2. parse = "parsing" /\ i <= Len(argv) /\ argv[i] \notin ValueOptions
    BY <1>1, AtArgument DEF ValueOptions
  <2> QED
    BY <1>3, <1>4, <2>1, <2>2, HasEffect
<1>5. CASE args.files # <<>> /\ Stop(SetError(b))
  <2>1. argv \in Argvs /\ i \in DOMAIN argv /\ ~IsValue(argv, i) /\ argv[i] \in Options
    BY <1>1, AtArgument DEF Options
  <2>2. CASE args.wanted_output # "none"
    BY <1>1, <1>3, <1>5, <2>2, AtArgument, Refuses
  <2>3. CASE args.wanted_output = "none"
    <3>1. At(argv, "project") # {}
      BY <1>1, <2>1, PastOption
    <3>2. Len(args.files) # 0
      BY <1>1, <1>5, AtArgument DEF ArgsOf
    <3>3. FilesRead(argv, i, args.files)
      BY <1>1, <2>3, AtArgument DEF Prefix
    <3>4. WordsSeen(argv, i) # {}
      BY <3>2, <3>3, FS_EmptySet DEF FilesRead
    <3>5. Words(argv) # {}
      BY <3>4 DEF WordsSeen
    <3>6. ~Acceptable(argv)
      BY <2>1, <3>1, <3>5, Meaning DEF Meant
    <3> QED
      BY <1>3, <1>5, <3>6, Refuses
  <2> QED
    BY <2>2, <2>3
<1> QED
  BY <1>2, <1>4, <1>5 DEF Project

\* --just-gen.
LEMMA JustGenStep == ArgsInv /\ JustGen => ArgsInv'
<1> SUFFICES ASSUME ArgsInv, JustGen PROVE ArgsInv'
  OBVIOUS
<1>1. Reading(None) /\ argv[i] = "just-gen"
  BY DEF JustGen, Option
<1>2. PICK b : b = [args EXCEPT !.run_c_comp = FALSE]
  OBVIOUS
<1>3. b \in ArgsOf(argv) /\ b.wanted_output = args.wanted_output /\ b.error = args.error
  BY <1>1, <1>2, AtArgument DEF ArgsOf
<1>4. args.wanted_output = "none" => Prefix(argv, i + 1, b)
  BY <1>1, <1>2, AtArgument, ReadJustGen
<1>5. parse = "parsing" /\ i <= Len(argv) /\ argv[i] \notin ValueOptions
  BY <1>1, AtArgument DEF ValueOptions
<1>6. Continue(b, None)
  BY <1>2 DEF JustGen
<1> QED
  BY <1>3, <1>4, <1>5, <1>6, HasEffect

\* --dump-projfiles, which makes a project of what words may come before.
LEMMA DumpProjfilesStep == ArgsInv /\ DumpProjfiles => ArgsInv'
<1> SUFFICES ASSUME ArgsInv, DumpProjfiles PROVE ArgsInv'
  OBVIOUS
<1>1. Reading(None) /\ argv[i] = "dump-projfiles"
  BY DEF DumpProjfiles, Option
<1>2. PICK b : b = [args EXCEPT !.dump_projfiles = TRUE, !.project = TRUE]
  OBVIOUS
<1>3. b \in ArgsOf(argv) /\ b.wanted_output = args.wanted_output /\ b.error = args.error
  BY <1>1, <1>2, AtArgument DEF ArgsOf
<1>4. args.wanted_output = "none" => Prefix(argv, i + 1, b)
  BY <1>1, <1>2, AtArgument, ReadDumpProjfiles
<1>5. parse = "parsing" /\ i <= Len(argv) /\ argv[i] \notin ValueOptions
  BY <1>1, AtArgument DEF ValueOptions
<1>6. Continue(b, None)
  BY <1>2 DEF DumpProjfiles
<1> QED
  BY <1>3, <1>4, <1>5, <1>6, HasEffect

\* --dump-commands.
LEMMA DumpCommandsStep == ArgsInv /\ DumpCommands => ArgsInv'
<1> SUFFICES ASSUME ArgsInv, DumpCommands PROVE ArgsInv'
  OBVIOUS
<1>1. Reading(None) /\ argv[i] = "dump-commands"
  BY DEF DumpCommands, Option
<1>2. PICK b : b = [args EXCEPT !.dump_commands = TRUE]
  OBVIOUS
<1>3. b \in ArgsOf(argv) /\ b.wanted_output = args.wanted_output /\ b.error = args.error
  BY <1>1, <1>2, AtArgument DEF ArgsOf
<1>4. args.wanted_output = "none" => Prefix(argv, i + 1, b)
  BY <1>1, <1>2, AtArgument, ReadDumpCommands
<1>5. parse = "parsing" /\ i <= Len(argv) /\ argv[i] \notin ValueOptions
  BY <1>1, AtArgument DEF ValueOptions
<1>6. Continue(b, None)
  BY <1>2 DEF DumpCommands
<1> QED
  BY <1>3, <1>4, <1>5, <1>6, HasEffect

\* --simulate-run.
LEMMA SimulateRunStep == ArgsInv /\ SimulateRun => ArgsInv'
<1> SUFFICES ASSUME ArgsInv, SimulateRun PROVE ArgsInv'
  OBVIOUS
<1>1. Reading(None) /\ argv[i] = "simulate-run"
  BY DEF SimulateRun, Option
<1>2. PICK b : b = [args EXCEPT !.simulate_run = TRUE, !.dump_commands = TRUE]
  OBVIOUS
<1>3. b \in ArgsOf(argv) /\ b.wanted_output = args.wanted_output /\ b.error = args.error
  BY <1>1, <1>2, AtArgument DEF ArgsOf
<1>4. args.wanted_output = "none" => Prefix(argv, i + 1, b)
  BY <1>1, <1>2, AtArgument, ReadSimulateRun
<1>5. parse = "parsing" /\ i <= Len(argv) /\ argv[i] \notin ValueOptions
  BY <1>1, AtArgument DEF ValueOptions
<1>6. Continue(b, None)
  BY <1>2 DEF SimulateRun
<1> QED
  BY <1>3, <1>4, <1>5, <1>6, HasEffect

\* The three options that exclude each other.
LEMMA StopEarlyStep == ArgsInv /\ StopEarly => ArgsInv'
<1> SUFFICES ASSUME ArgsInv, NEW o \in DOMAIN StageFlag, Option(o),
                    IF \E f \in StageFlags \ {StageFlag[o]} : args[f]
                    THEN Stop(SetError(args))
                    ELSE Continue([args EXCEPT ![StageFlag[o]] = TRUE], None)
             PROVE  ArgsInv'
  BY DEF StopEarly
<1>1. Reading(None) /\ argv[i] = o
  BY DEF Option
<1>2. /\ argv \in Argvs /\ i \in DOMAIN argv /\ ~IsValue(argv, i) /\ argv[i] \in Options
      /\ args \in ArgsOf(argv)
  BY <1>1, AtArgument DEF Options
<1>3. CASE \A f \in StageFlags \ {StageFlag[o]} : ~args[f]
  <2>1. PICK b : b = [args EXCEPT ![StageFlag[o]] = TRUE]
    OBVIOUS
  <2>2. b \in ArgsOf(argv) /\ b.wanted_output = args.wanted_output /\ b.error = args.error
    <3>1. StageFlag[o] \in {"tdump", "cstdump", "just_semantics"}
      BY Stages
    <3> QED
      BY <1>2, <2>1, <3>1 DEF ArgsOf
  <2>3. args.wanted_output = "none" => Prefix(argv, i + 1, b)
    BY <1>1, <1>2, <1>3, <2>1, AtArgument, ReadStage
  <2>4. parse = "parsing" /\ i <= Len(argv) /\ argv[i] \notin ValueOptions
    BY <1>1, AtArgument, Stages DEF ValueOptions
  <2>5. Continue(b, None)
    BY <1>3, <2>1
  <2> QED
    BY <2>2, <2>3, <2>4, <2>5, HasEffect
<1>4. CASE \E f \in StageFlags \ {StageFlag[o]} : args[f]
  <2>1. Stop(SetError(args))
    BY <1>4
  <2>2. CASE args.wanted_output # "none"
    BY <1>1, <1>2, <2>1, <2>2, AtArgument, Refuses
  <2>3. CASE args.wanted_output = "none"
    <3>1. PICK f \in StageFlags \ {StageFlag[o]} : args[f]
      BY <1>4
    <3>2. PICK p \in DOMAIN StageFlag : f = StageFlag[p]
      BY <3>1, Stages DEF StageFlags
    <3>3. p # o
      BY <3>1, <3>2
    <3>4. OptionsRead(argv, i, args)
      BY <1>1, <2>3, AtArgument DEF Prefix
    <3>5. Seen(argv, i, p) # {}
      BY <3>1, <3>2, <3>4 DEF OptionsRead
    <3>6. At(argv, p) # {}
      BY <3>5 DEF Seen
    <3>7. At(argv, o) # {}
      BY <1>1, <1>2, PastOption
    <3>8. ~Acceptable(argv)
      BY <1>2, <3>3, <3>6, <3>7, Meaning DEF Meant
    <3> QED
      BY <1>2, <2>1, <3>8, Refuses
  <2> QED
    BY <2>2, <2>3
<1> QED
  BY <1>3, <1>4

\* --benchmark, once.
LEMMA BenchmarkStep == ArgsInv /\ Benchmark => ArgsInv'
<1> SUFFICES ASSUME ArgsInv, Benchmark PROVE ArgsInv'
  OBVIOUS
<1>1. Reading(None) /\ argv[i] = "benchmark"
  BY DEF Benchmark, Option
<1>2. /\ argv \in Argvs /\ i \in DOMAIN argv /\ ~IsValue(argv, i) /\ argv[i] \in Options
      /\ args \in ArgsOf(argv)
  BY <1>1, AtArgument DEF Options
<1>3. CASE ~args.profile /\ args.wanted_output = "none"
  <2>1. PICK b : b = [args EXCEPT !.profile = TRUE]
    OBVIOUS
  <2>2. b \in ArgsOf(argv) /\ b.wanted_output = args.wanted_output /\ b.error = args.error
    BY <1>2, <2>1 DEF ArgsOf
  <2>3. args.wanted_output = "none" => Prefix(argv, i + 1, b)
    BY <1>1, <1>3, <2>1, AtArgument, ReadBenchmark
  <2>4. parse = "parsing" /\ i <= Len(argv) /\ argv[i] \notin ValueOptions
    BY <1>1, AtArgument DEF ValueOptions
  <2>5. Continue(b, None)
    BY <1>3, <2>1 DEF Benchmark
  <2> QED
    BY <2>2, <2>3, <2>4, <2>5, HasEffect
<1>4. CASE args.profile \/ args.wanted_output # "none"
  <2>1. Stop(SetError(args))
    BY <1>4 DEF Benchmark
  <2>2. CASE args.wanted_output # "none"
    BY <1>1, <1>2, <2>1, <2>2, AtArgument, Refuses
  <2>3. CASE args.wanted_output = "none"
    <3>1. OptionsRead(argv, i, args)
      BY <1>1, <2>3, AtArgument DEF Prefix
    <3>2. PICK j : j \in Seen(argv, i, "benchmark")
      BY <1>4, <2>3, <3>1 DEF OptionsRead
    <3>3. i \in At(argv, "benchmark") /\ i \notin Seen(argv, i, "benchmark")
      BY <1>1, <1>2, PastOption
    <3>4. j \in At(argv, "benchmark") /\ j # i
      BY <3>2, <3>3 DEF Seen
    <3>5. ~AtMostOne(At(argv, "benchmark"))
      BY <3>3, <3>4 DEF AtMostOne
    <3>6. ~Acceptable(argv)
      BY <1>2, <3>5, Meaning DEF Meant
    <3> QED
      BY <1>2, <2>1, <3>6, Refuses
  <2> QED
    BY <2>2, <2>3
<1> QED
  BY <1>3, <1>4

\* An option that there is not.
LEMMA UnknownStep == ArgsInv /\ UnknownOption => ArgsInv'
<1> SUFFICES ASSUME ArgsInv, UnknownOption PROVE ArgsInv'
  OBVIOUS
<1>1. Reading(None) /\ argv[i] = "unknown" /\ Stop(SetError(args))
  BY DEF UnknownOption, Option
<1>2. /\ argv \in Argvs /\ i \in DOMAIN argv /\ ~IsValue(argv, i) /\ argv[i] \in Options
      /\ args \in ArgsOf(argv)
  BY <1>1, AtArgument DEF Options
<1>3. At(argv, "unknown") # {}
  BY <1>1, <1>2, PastOption
<1>4. ~Acceptable(argv)
  BY <1>2, <1>3, Meaning DEF Meant
<1> QED
  BY <1>1, <1>2, <1>4, Refuses

\* A word (yf_add_file).
LEMMA FileStep == ArgsInv /\ AddFile => ArgsInv'
<1> SUFFICES ASSUME ArgsInv, AddFile PROVE ArgsInv'
  OBVIOUS
<1>1. Reading(None) /\ argv[i] \notin Options
  BY DEF AddFile
<1>2. /\ argv \in Argvs /\ i \in DOMAIN argv /\ ~IsValue(argv, i) /\ argv[i] \in Arg(argv)
      /\ args \in ArgsOf(argv)
  BY <1>1, AtArgument
<1>3. CASE args.wanted_output # "none"
  <2>1. Stop(SetError(args))
    BY <1>3 DEF AddFile
  <2> QED
    BY <1>1, <1>2, <1>3, <2>1, AtArgument, Refuses
<1>4. CASE args.wanted_output = "none" /\ args.project
  <2>1. Stop(SetError(args))
    BY <1>4 DEF AddFile
  <2>2. OptionsRead(argv, i, args)
    BY <1>1, <1>4, AtArgument DEF Prefix
  <2>3. i \in Words(argv)
    BY <1>1, <1>2, PastWord
  <2>4. CASE Seen(argv, i, "project") # {}
    <3>1. At(argv, "project") # {}
      BY <2>4 DEF Seen
    <3>2. ~Acceptable(argv)
      BY <1>2, <2>3, <3>1, Meaning DEF Meant
    <3> QED
      BY <1>2, <2>1, <3>2, Refuses
  <2>5. CASE Seen(argv, i, "dump-projfiles") # {}
    <3>1. PICK j \in At(argv, "dump-projfiles") : j < i
      BY <2>5 DEF Seen
    <3>2. j \in 1 .. Len(argv) /\ i \in 1 .. Len(argv) /\ Len(argv) \in Nat
      BY <1>2, Line DEF At
    <3>3. ~(i < j)
      BY <3>1, <3>2
    <3>4. ~Acceptable(argv)
      BY <1>2, <2>3, <3>3, Meaning DEF Meant
    <3> QED
      BY <1>2, <2>1, <3>4, Refuses
  <2> QED
    BY <1>4, <2>2, <2>4, <2>5 DEF OptionsRead
<1>5. CASE args.wanted_output = "none" /\ ~args.project
  <2>1. PICK b : b = [args EXCEPT !.files = Append(@, argv[i])]
    OBVIOUS
  <2>2. b \in ArgsOf(argv) /\ b.wanted_output = args.wanted_output /\ b.error = args.error
    <3>1. Append(args.files, argv[i]) \in Seq(Arg(argv))
      BY <1>2 DEF ArgsOf
    <3> QED
      BY <1>2, <2>1, <3>1 DEF ArgsOf
  <2>3. args.wanted_output = "none" => Prefix(argv, i + 1, b)
    BY <1>1, <1>2, <1>5, <2>1, AtArgument, ReadWord
  <2>4. parse = "parsing" /\ i <= Len(argv) /\ argv[i] \notin ValueOptions
    BY <1>1, AtArgument DEF Options
  <2>5. Continue(b, None)
    BY <1>5, <2>1 DEF AddFile
  <2> QED
    BY <2>2, <2>3, <2>4, <2>5, HasEffect
<1> QED
  BY <1>3, <1>4, <1>5

\* The end of the line, where Prefix has become Acceptable.
LEMMA EndStep == ArgsInv /\ EndOfArgs => ArgsInv'
<1> SUFFICES ASSUME ArgsInv, EndOfArgs PROVE ArgsInv'
  OBVIOUS
<1>1. PICK b : b = IF args.wanted_output = "none" /\ ~args.project /\ args.files = <<>>
                   THEN [args EXCEPT !.error = TRUE, !.wanted_output = "no_args"]
                   ELSE args
  OBVIOUS
<1>2. /\ args' = b /\ parse' = "parsed" /\ argv' = argv /\ i' = i /\ want' = want
      /\ parse = "parsing" /\ i > Len(argv)
  BY <1>1 DEF EndOfArgs, Stop
<1>3. argv \in Argvs /\ args \in ArgsOf(argv) /\ i \in 1 .. Len(argv) + 1 /\ ParsingInv
  BY <1>2 DEF ArgsInv
<1>4. i = Len(argv) + 1 /\ ~(i <= Len(argv))
  BY <1>2, <1>3, Line
<1>5. ~IsValue(argv, Len(argv) + 1)
  BY <1>3, <1>4 DEF ParsingInv
<1>6. b \in ArgsOf(argv)
  BY <1>1, <1>3 DEF ArgsOf
<1>7. /\ b.wanted_output = "none" <=> Acceptable(argv)
      /\ b.wanted_output = "none" => Effects(argv, b)
  <2>1. CASE args.wanted_output # "none"
    BY <1>1, <1>3, <2>1 DEF ParsingInv
  <2>2. CASE args.wanted_output = "none"
    <3>1. Prefix(argv, Len(argv) + 1, args)
      BY <1>3, <1>4, <2>2 DEF ParsingInv
    <3>2. /\ Acceptable(argv) <=> args.project \/ Words(argv) # {}
          /\ Effects(argv, args)
      BY <1>3, <1>5, <3>1, Whole, Zenon
    <3>3. args.files = <<>> <=> Words(argv) = {}
      <4>1. IsFiniteSet(Words(argv))
        <5>1. PICK m \in Nat : DOMAIN argv = 1 .. m
          BY <1>3, Line
        <5>2. IsFiniteSet(1 .. m)
          BY FS_Interval
        <5>3. Words(argv) \in SUBSET (1 .. m)
          BY <5>1 DEF Words
        <5> QED
          BY <5>2, <5>3, FS_Subset, Zenon
      <4>2. Cardinality(Words(argv)) = 0 <=> Words(argv) = {}
        BY <4>1, FS_EmptySet, Zenon
      <4>3. Len(args.files) = Cardinality(Words(argv))
        BY <3>2, Zenon DEF Effects
      <4>4. args.files = <<>> <=> Len(args.files) = 0
        BY <1>3 DEF ArgsOf
      <4> QED
        BY <4>2, <4>3, <4>4
    <3>4. CASE ~args.project /\ args.files = <<>>
      <4>1. b.wanted_output = "no_args"
        BY <1>1, <1>3, <2>2, <3>4 DEF ArgsOf
      <4> QED
        BY <3>2, <3>3, <3>4, <4>1
    <3>5. CASE args.project \/ args.files # <<>>
      BY <1>1, <2>2, <3>2, <3>3, <3>5
    <3> QED
      BY <3>4, <3>5
  <2> QED
    BY <2>1, <2>2
<1>8. ParsedRight'
  BY <1>2, <1>7 DEF ParsedRight, ShouldCompile
<1>9. want \in {None, "name", "type"}
  BY DEF ArgsInv
<1>10. b.wanted_output \in InfoOptions => Given(argv, b.wanted_output)
  BY <1>1, <1>3 DEF ArgsInv, ArgsOf, InfoOptions
<1> QED
  BY <1>2, <1>3, <1>6, <1>8, <1>9, <1>10 DEF ArgsInv

-----------------------------------------------------------------------------
(* Paths and trees *)

\* A path below src/.
Rooted(path) ==
  /\ path \in Seq(Range(path)) /\ Len(path) >= 2
  /\ path[1] = "src" /\ path[2] = "/"

\* snprintf of a folder, a slash and a name.
LEMMA SubIs ==
  ASSUME NEW T, "/" \in T, NEW f \in Seq(T), NEW n \in Seq(T)
  PROVE  /\ Sub(f, n) \in Seq(T)
         /\ Len(Sub(f, n)) = Len(f) + 1 + Len(n)
         /\ Len(f) \in Nat /\ Len(n) \in Nat /\ ~(Len(Sub(f, n)) <= Len(f))
         /\ Len(f) >= 1 => Len(Sub(f, n)) >= 2
         /\ \A j \in 1 .. Len(f) : Sub(f, n)[j] = f[j]
         /\ Sub(f, n)[Len(f) + 1] = "/"
BY DEF Sub

\* A sequence over some set is one over its own elements.
LEMMA InItsRange ==
  ASSUME NEW S, NEW s \in Seq(S)
  PROVE  s \in Seq(Range(s))
BY DEF Range

\* A nonempty set has an element where a natural number is least.
LEMMA Nearest ==
  ASSUME NEW S, S # {}, NEW f \in [S -> Nat]
  PROVE  \E x \in S : \A y \in S : f[x] <= f[y]
<1> DEFINE R == OpToRel(<, Nat)
           T == {f[x] : x \in S}
<1>1. IsWellFoundedOn(R, Nat)
  BY NatLessThanWellFounded
<1>2. T \subseteq Nat /\ T # {}
  OBVIOUS
<1>3. \A x, y \in T : y < x => <<y, x>> \in R
  BY <1>2 DEF OpToRel
<1> HIDE DEF R
<1>4. PICK x \in T : \A y \in T : <<y, x>> \notin R
  <2> HIDE DEF T
  <2> QED
    BY <1>1, <1>2, WFMin, Zenon
<1>5. \A y \in T : ~(y < x)
  BY <1>3, <1>4
<1>6. PICK s \in S : x = f[s]
  BY <1>4
<1> QED
  BY <1>5, <1>6

\* The names of a tree, its folders and its paths are sequences over one set.
LEMMA Tokens ==
  ASSUME NEW S, IsTree(S)
  PROVE  \E T : \A e \in S :
           /\ e.name \in Seq(T) /\ e.folder \in Seq(T) /\ Path(e) \in Seq(T)
           /\ Len(Path(e)) = Len(e.folder) + 1 + Len(e.name)
           /\ Len(e.folder) \in Nat /\ Len(e.name) \in Nat /\ ~(Len(Path(e)) <= Len(e.folder))
           /\ Len(e.folder) >= 1 => Len(Path(e)) >= 2
           /\ \A j \in 1 .. Len(e.folder) : Path(e)[j] = e.folder[j]
           /\ Path(e)[Len(e.folder) + 1] = "/"
<1> DEFINE T == UNION ({Range(e.name) : e \in S} \cup {Range(e.folder) : e \in S} \cup {{"/"}})
<1>1. ASSUME NEW e \in S
      PROVE  e.name \in Seq(T) /\ e.folder \in Seq(T)
  <2>1. Range(e.name) \subseteq T /\ Range(e.folder) \subseteq T
    OBVIOUS
  <2>2. e.name \in Seq(Range(e.name)) /\ e.folder \in Seq(Range(e.folder))
    BY Zenon DEF IsTree
  <2> HIDE DEF T
  <2> QED
    BY <2>1, <2>2, SeqMonotonic, Zenon
<1>2. "/" \in T
  OBVIOUS
<1> HIDE DEF T
<1>3. ASSUME NEW e \in S
      PROVE  /\ Path(e) \in Seq(T)
             /\ Len(Path(e)) = Len(e.folder) + 1 + Len(e.name)
             /\ Len(e.folder) \in Nat /\ Len(e.name) \in Nat /\ ~(Len(Path(e)) <= Len(e.folder))
             /\ Len(e.folder) >= 1 => Len(Path(e)) >= 2
             /\ \A j \in 1 .. Len(e.folder) : Path(e)[j] = e.folder[j]
             /\ Path(e)[Len(e.folder) + 1] = "/"
  <2>1. PICK f \in Seq(T), n \in Seq(T) : f = e.folder /\ n = e.name
    BY <1>1
  <2>2. Path(e) = Sub(f, n)
    BY <2>1 DEF Path
  <2>3. /\ Sub(f, n) \in Seq(T)
        /\ Len(Sub(f, n)) = Len(f) + 1 + Len(n)
        /\ Len(f) \in Nat /\ Len(n) \in Nat /\ ~(Len(Sub(f, n)) <= Len(f))
        /\ Len(f) >= 1 => Len(Sub(f, n)) >= 2
        /\ \A j \in 1 .. Len(f) : Sub(f, n)[j] = f[j]
        /\ Sub(f, n)[Len(f) + 1] = "/"
    BY <1>2, SubIs
  <2> QED
    BY <2>1, <2>2, <2>3, Zenon
<1> QED
  BY <1>1, <1>3

\* What is true of src/, and passes from a folder to its entries, is true of a tree.
LEMMA TreeInduction ==
  ASSUME NEW S, IsTree(S), NEW V \in SUBSET S,
         \A e \in S : /\ e.folder = Root => e \in V
                      /\ \A d \in V : d.kind = "dir" /\ e.folder = Path(d) => e \in V
  PROVE  V = S
<1> DEFINE B == S \ V
           f == [e \in B |-> Len(e.folder)]
<1> SUFFICES ASSUME B # {} PROVE FALSE
  OBVIOUS
<1>1. \A e \in S : e.folder = Root \/ \E d \in S : d.kind = "dir" /\ e.folder = Path(d)
  BY Zenon DEF IsTree, Path
<1>2. PICK T : \A e \in S :
           /\ e.name \in Seq(T) /\ e.folder \in Seq(T) /\ Path(e) \in Seq(T)
           /\ Len(Path(e)) = Len(e.folder) + 1 + Len(e.name)
           /\ Len(e.folder) \in Nat /\ Len(e.name) \in Nat /\ ~(Len(Path(e)) <= Len(e.folder))
           /\ Len(e.folder) >= 1 => Len(Path(e)) >= 2
           /\ \A j \in 1 .. Len(e.folder) : Path(e)[j] = e.folder[j]
           /\ Path(e)[Len(e.folder) + 1] = "/"
  BY Tokens
<1>3. f \in [B -> Nat]
  BY <1>2
<1>4. PICK e \in B : \A y \in B : f[e] <= f[y]
  <2> HIDE DEF B, f
  <2> QED
    BY <1>3, Nearest
<1>5. e \in S /\ e \notin V /\ e.folder # Root
  OBVIOUS
<1>6. PICK d \in S : d.kind = "dir" /\ e.folder = Path(d)
  BY <1>1, <1>5
<1>7. d \in B
  BY <1>5, <1>6
<1>8. ~(Len(e.folder) <= Len(d.folder))
  BY <1>2, <1>6, Zenon
<1>9. f[e] = Len(e.folder) /\ f[d] = Len(d.folder)
  BY <1>7
<1> QED
  BY <1>4, <1>7, <1>8, <1>9, Zenon

\* The paths of a tree are below src/.
LEMMA TreePaths ==
  ASSUME NEW S, IsTree(S)
  PROVE  \A e \in S : /\ Rooted(Path(e))
                      /\ Len(Path(e)) = Len(e.folder) + 1 + Len(e.name)
                      /\ Len(e.folder) \in Nat /\ Len(e.name) \in Nat
<1>1. PICK T : \A e \in S :
           /\ e.name \in Seq(T) /\ e.folder \in Seq(T) /\ Path(e) \in Seq(T)
           /\ Len(Path(e)) = Len(e.folder) + 1 + Len(e.name)
           /\ Len(e.folder) \in Nat /\ Len(e.name) \in Nat /\ ~(Len(Path(e)) <= Len(e.folder))
           /\ Len(e.folder) >= 1 => Len(Path(e)) >= 2
           /\ \A j \in 1 .. Len(e.folder) : Path(e)[j] = e.folder[j]
           /\ Path(e)[Len(e.folder) + 1] = "/"
  BY Tokens
<1>2. ASSUME NEW e \in S
      PROVE  /\ Path(e) \in Seq(Range(Path(e)))
             /\ Len(e.folder) \in Nat /\ Len(e.name) \in Nat
  <2>1. Path(e) \in Seq(T) /\ e.folder \in Seq(T) /\ e.name \in Seq(T)
    BY <1>1, Zenon
  <2>2. Path(e) \in Seq(Range(Path(e)))
    BY <2>1, InItsRange, Zenon
  <2> QED
    BY <2>1, <2>2
<1> DEFINE V == {e \in S : Rooted(Path(e))}
<1>3. ASSUME NEW e \in S, e.folder = Root PROVE e \in V
  <2>1. Len(e.folder) = 1 /\ e.folder[1] = "src"
    BY <1>3 DEF Root
  <2>2. Len(e.name) \in Nat
    BY <1>2
  <2>3. Path(e)[1] = e.folder[1] /\ Path(e)[2] = "/"
    <3>1. 1 \in 1 .. Len(e.folder) /\ Len(e.folder) + 1 = 2
      BY <2>1
    <3> QED
      BY <1>1, <3>1, Zenon
  <2>4. Len(Path(e)) >= 2
    <3>1. Len(e.folder) >= 1
      BY <2>1
    <3> QED
      BY <1>1, <3>1, Zenon
  <2> QED
    BY <1>2, <2>1, <2>3, <2>4 DEF Rooted
<1>4. ASSUME NEW e \in S, NEW d \in V, e.folder = Path(d) PROVE e \in V
  <2>1. Len(e.name) \in Nat /\ Len(e.folder) \in Nat
    BY <1>2
  <2>2. Rooted(e.folder)
    BY <1>4
  <2>3. Len(e.folder) >= 2 /\ e.folder[1] = "src" /\ e.folder[2] = "/"
    BY <2>2 DEF Rooted
  <2>4. Path(e)[1] = e.folder[1] /\ Path(e)[2] = e.folder[2]
    <3>1. 1 \in 1 .. Len(e.folder) /\ 2 \in 1 .. Len(e.folder)
      BY <2>1, <2>3
    <3> QED
      BY <1>1, <3>1, Zenon
  <2>5. Len(Path(e)) >= 2
    <3>1. Len(e.folder) >= 1
      BY <2>1, <2>3
    <3> QED
      BY <1>1, <3>1, Zenon
  <2> QED
    BY <1>2, <2>3, <2>4, <2>5 DEF Rooted
<1>5. V = S
  <2> HIDE DEF V
  <2>1. V \in SUBSET S
    BY DEF V
  <2> QED
    BY <1>3, <1>4, <2>1, TreeInduction
<1>6. \A e \in S : Rooted(Path(e))
  BY <1>5
<1> QED
  BY <1>1, <1>2, <1>6

\* A path that is cut is still one below src/.
LEMMA CutPath ==
  ASSUME NEW path, Rooted(path), MaxPath \in Nat, MaxPath > 2
  PROVE  Rooted(Truncated(path))
<1>1. CASE Len(path) < MaxPath
  BY <1>1 DEF Truncated
<1>2. CASE ~(Len(path) < MaxPath)
  <2>1. Len(path) \in Nat /\ path \in Seq(Range(path))
    BY DEF Rooted
  <2>2. PICK q : q = SubSeq(path, 1, MaxPath - 1)
    OBVIOUS
  <2>3. Truncated(path) = q
    BY <1>2, <2>2 DEF Truncated
  <2>4. q \in Seq(Range(path)) /\ Len(q) = MaxPath - 1 /\ \A j \in 1 .. MaxPath - 1 : q[j] = path[j]
    BY <1>2, <2>1, <2>2
  <2>5. q \in Seq(Range(q))
    BY <2>4, InItsRange
  <2>6. Len(q) >= 2 /\ q[1] = path[1] /\ q[2] = path[2]
    BY <2>4
  <2> QED
    BY <2>3, <2>5, <2>6 DEF Rooted
<1> QED
  BY <1>1, <1>2

\* Min, where the least element is known.
LEMMA MinIs ==
  ASSUME NEW S \in SUBSET Nat, NEW m \in S, \A y \in S : m <= y
  PROVE  Min(S) = m
<1>1. \A x \in S : (\A y \in S : x <= y) => x = m
  <2> SUFFICES ASSUME NEW x \in S, \A y \in S : x <= y PROVE x = m
    OBVIOUS
  <2>1. x <= m /\ m <= x /\ x \in Nat /\ m \in Nat
    OBVIOUS
  <2> QED
    BY <2>1
<1> QED
  BY <1>1 DEF Min

\* Max, where the greatest element is known.
LEMMA MaxIs ==
  ASSUME NEW S \in SUBSET Nat, NEW m \in S, \A y \in S : y <= m
  PROVE  Max(S) = m
<1>1. \A y \in S : m >= y
  OBVIOUS
<1>2. \A x \in S : (\A y \in S : x >= y) => x = m
  <2> SUFFICES ASSUME NEW x \in S, \A y \in S : x >= y PROVE x = m
    OBVIOUS
  <2>1. x >= m /\ x <= m /\ x \in Nat /\ m \in Nat
    OBVIOUS
  <2> QED
    BY <2>1
<1> QED
  BY <1>1, <1>2 DEF Max

\* What follows src/.
LEMMA RestIs ==
  ASSUME NEW p, Rooted(p)
  PROVE  /\ Rest(p) \in Seq(Range(p)) /\ Len(Rest(p)) = Len(p) - 2
         /\ \A j \in 1 .. Len(p) - 2 : Rest(p)[j] = p[j + 2]
<1>1. p \in Seq(Range(p)) /\ Len(p) >= 2 /\ p[1] = "src" /\ p[2] = "/"
  BY DEF Rooted
<1>2. PICK n \in Nat : n = Len(p)
  BY <1>1
<1>3. n >= 2
  BY <1>1, <1>2
<1> DEFINE S == {j \in 1 .. Len(p) : p[j] = "/"}
<1>4. 2 \in S /\ S \in SUBSET Nat
  BY <1>1, <1>2
<1>5. \A y \in S : 2 <= y
  <2> SUFFICES ASSUME NEW y \in S PROVE 2 <= y
    OBVIOUS
  <2>1. y # 1 /\ y \in 1 .. n
    BY <1>1, <1>2
  <2> QED
    BY <2>1
<1>6. Min(S) = 2
  <2> HIDE DEF S
  <2> QED
    BY <1>4, <1>5, MinIs
<1>7. SelectInSeq(p, LAMBDA t : t = "/") = 2
  BY <1>4, <1>6 DEF SelectInSeq
<1>8. Rest(p) = SubSeq(p, 3, n)
  <2>1. 2 + 1 = 3
    OBVIOUS
  <2> QED
    BY <1>2, <1>7, <2>1 DEF Rest
<1>9. PICK q : q = SubSeq(p, 3, n)
  OBVIOUS
<1>10. PICK T : p \in Seq(T) /\ T = Range(p)
  BY <1>1
<1>11. q \in Seq(T) /\ Len(q) = n - 2 /\ \A j \in 1 .. n - 2 : q[j] = p[j + 2]
  <2>1. n - 3 + 1 = n - 2
    BY <1>2
  <2>2. \A j \in 3 .. n : p[j] \in T
    BY <1>2, <1>10
  <2>3. q = [k \in 1 .. n - 2 |-> p[3 + k - 1]]
    BY <1>9, <2>1
  <2>4. \A k \in 1 .. n - 2 : 3 + k - 1 = k + 2 /\ k + 2 \in 3 .. n
    BY <1>2
  <2>5. \A k \in 1 .. n - 2 : q[k] = p[k + 2] /\ q[k] \in T
    BY <2>2, <2>3, <2>4
  <2>6. n - 2 \in Nat
    BY <1>2, <1>3
  <2>7. q \in [1 .. n - 2 -> T]
    BY <2>3, <2>5
  <2> QED
    BY <2>5, <2>6, <2>7
<1> QED
  BY <1>2, <1>8, <1>9, <1>10, <1>11, Zenon

\* The path with its slashes turned into dots.
LEMMA DottedSeq ==
  ASSUME NEW p, Rooted(p), NEW T, Range(p) \cup {"."} \subseteq T
  PROVE  Dotted(p) \in Seq(T) /\ Len(Dotted(p)) = Len(Rest(p))
<1>1. PICK r : r = Rest(p)
  OBVIOUS
<1>2. r \in Seq(Range(p))
  BY <1>1, RestIs, Zenon
<1>3. PICK n \in Nat : n = Len(r)
  BY <1>2
<1>4. DOMAIN r = 1 .. n /\ \A j \in 1 .. n : r[j] \in T
  BY <1>2, <1>3
<1>5. Dotted(p) = [j \in 1 .. n |-> IF r[j] = "/" THEN "." ELSE r[j]]
  BY <1>1, <1>4, Zenon DEF Dotted
<1> QED
  BY <1>1, <1>3, <1>4, <1>5

\* What strrchr finds.
LEMMA LastDotIs ==
  ASSUME NEW T, NEW s \in Seq(T)
  PROVE  /\ LastDot(s) \in 0 .. Len(s)
         /\ LastDot(s) # 0 => s[LastDot(s)] = "."
         /\ \A j \in 1 .. Len(s) : s[j] = "." => j <= LastDot(s)
<1>1. PICK n \in Nat : n = Len(s)
  OBVIOUS
<1> DEFINE S == {j \in 1 .. Len(s) : s[j] = "."}
<1>2. LastDot(s) = IF S # {} THEN Max(S) ELSE 0
  BY DEF LastDot, SelectLastInSeq
<1>3. CASE S = {}
  BY <1>1, <1>2, <1>3
<1>4. CASE S # {}
  <2>1. S \in SUBSET (0 .. n)
    BY <1>1
  <2>2. Max(S) \in S /\ \A y \in S : Max(S) >= y
    <3> HIDE DEF S
    <3> QED
      BY <1>4, <2>1, Greatest
  <2>3. LastDot(s) \in S /\ \A y \in S : LastDot(s) >= y
    BY <1>2, <1>4, <2>2, Zenon
  <2>4. LastDot(s) \in 1 .. n /\ s[LastDot(s)] = "."
    BY <1>1, <2>3
  <2>5. \A j \in 1 .. n : s[j] = "." => j <= LastDot(s)
    BY <1>1, <2>3, <2>4
  <2> QED
    BY <1>1, <2>4, <2>5
<1> QED
  BY <1>3, <1>4

\* A dot of the name is one of the name and what is behind it, and the last of both is the last of the
\* name unless it is behind it.
LEMMA CutAt ==
  ASSUME NEW T, NEW d \in Seq(T), NEW rest \in Seq(T)
  PROVE  /\ LastDot(d) <= LastDot(d \o rest)
         /\ LastDot(d) # 0 /\ Len(UpToDot(d \o rest)) < Len(d) => UpToDot(d \o rest) = UpToDot(d)
<1>1. PICK s : s = d \o rest
  OBVIOUS
<1>2. PICK n \in Nat, l \in Nat : n = Len(d) /\ l = Len(rest)
  OBVIOUS
<1>3. s \in Seq(T) /\ Len(s) = n + l /\ \A j \in 1 .. n : s[j] = d[j]
  BY <1>1, <1>2
<1>4. PICK a, b : a = LastDot(d) /\ b = LastDot(s)
  OBVIOUS
<1>5. /\ a \in 0 .. n /\ (a # 0 => d[a] = ".") /\ \A j \in 1 .. n : d[j] = "." => j <= a
      /\ b \in 0 .. n + l /\ (b # 0 => s[b] = ".") /\ \A j \in 1 .. n + l : s[j] = "." => j <= b
  <2>1. a \in 0 .. n /\ (a # 0 => d[a] = ".") /\ \A j \in 1 .. n : d[j] = "." => j <= a
    BY <1>2, <1>4, LastDotIs, Zenon
  <2>2. b \in 0 .. n + l /\ (b # 0 => s[b] = ".") /\ \A j \in 1 .. n + l : s[j] = "." => j <= b
    BY <1>3, <1>4, LastDotIs, Zenon
  <2> QED
    BY <2>1, <2>2
<1>6. a <= b
  <2>1. CASE a = 0
    BY <1>2, <1>5, <2>1
  <2>2. CASE a # 0
    <3>1. a \in 1 .. n /\ a \in 1 .. n + l /\ s[a] = "."
      BY <1>2, <1>3, <1>5, <2>2
    <3> QED
      BY <1>5, <3>1
  <2> QED
    BY <2>1, <2>2
<1>7. ASSUME a # 0, Len(UpToDot(s)) < n PROVE UpToDot(s) = UpToDot(d)
  <2>1. UpToDot(s) = SubSeq(s, 1, b - 1) /\ UpToDot(d) = SubSeq(d, 1, a - 1)
    BY <1>4, Zenon DEF UpToDot
  <2>2. b \in 1 .. n + l /\ a \in 1 .. n /\ a <= b
    BY <1>2, <1>5, <1>6, <1>7
  <2>3. PICK k \in Nat : k = b - 1
    BY <2>2
  <2>4. k \in 0 .. n + l
    BY <1>2, <2>2, <2>3
  <2>5. SubSeq(s, 1, k) = [j \in 1 .. k |-> s[j]]
    BY <1>2, <1>3, <2>4
  <2>6. Len(SubSeq(s, 1, k)) = k
    BY <2>5
  <2>7. b \in 1 .. n
    BY <1>2, <1>7, <2>1, <2>2, <2>3, <2>6
  <2>8. d[b] = "."
    BY <1>3, <1>5, <2>7
  <2>9. a = b
    BY <1>2, <1>5, <2>2, <2>7, <2>8
  <2>10. SubSeq(d, 1, k) = [j \in 1 .. k |-> d[j]]
    BY <1>2, <2>3, <2>7
  <2>11. \A j \in 1 .. k : s[j] = d[j]
    BY <1>2, <1>3, <2>3, <2>7
  <2>12. SubSeq(s, 1, k) = SubSeq(d, 1, k)
    BY <2>5, <2>10, <2>11
  <2> QED
    BY <2>1, <2>3, <2>9, <2>12
<1> QED
  BY <1>1, <1>2, <1>4, <1>6, <1>7, Zenon

-----------------------------------------------------------------------------
(* The scan and what follows it *)

Pending == UNION {dirs[k].left : k \in DOMAIN dirs}

\* V is what readdir has given so far: nothing of src/ can be missed any more, for what is not in V
\* waits in an activation or is below a folder that does, and the units are the files in V.
Visited(V) ==
  /\ V \subseteq src
  /\ In(src, Root) \subseteq V \cup Pending
  /\ \A d \in V : d.kind \in FolderKinds =>
       d.kind = "dir" /\ Len(Path(d)) < MaxPath /\ In(src, Path(d)) \subseteq V \cup Pending
  /\ DOMAIN units = {Truncated(Path(e)) : e \in {x \in V : x.kind = "file"}}

ScanningInv ==
  /\ IsTree(src)
  /\ dirs \in Seq([path : {Root} \cup {Path(e) : e \in src}, left : SUBSET src]) /\ dirs # <<>>
  /\ \A k \in DOMAIN dirs : dirs[k].left \subseteq In(src, dirs[k].path)
  /\ \E V \in SUBSET src : Visited(V)

\* What yf_get_identifier_prefix can make of a path.
PossiblePrefixes(path) == {IdentifierPrefix(path, rest) : rest \in Unwritten}

\* What a unit is called, and by whom.
UnitsInv ==
  /\ scan = "idle" => DOMAIN units = {}
  /\ scan # "named" => \A p \in DOMAIN units :
       Rooted(p) /\ units[p].file_prefix \in PossiblePrefixes(p) /\ units[p].sym_file = SymFileName(p)
  /\ scan = "named" => \A p \in DOMAIN units : Len(p) = 1 /\ units[p].parse_anew

\* The entry that readdir gives.
LEMMA EntryHere ==
  ASSUME ScanningInv, NEW e \in Here.left
  PROVE  /\ e \in src /\ Sub(Here.path, e.name) = Path(e) /\ Rooted(Path(e))
         /\ Len(Path(e)) = Len(Here.path) + 1 + Len(e.name)
         /\ Len(Here.path) \in Nat /\ Len(e.name) \in Nat
<1>1. Len(dirs) \in DOMAIN dirs
  BY DEF ScanningInv
<1>2. e \in In(src, Here.path)
  BY <1>1, Zenon DEF ScanningInv, Here, Last
<1>3. e \in src /\ e.folder = Here.path
  BY <1>2 DEF In
<1>4. Sub(Here.path, e.name) = Path(e)
  BY <1>3, Zenon DEF Path
<1>5. IsTree(src)
  BY DEF ScanningInv
<1>6. /\ Rooted(Path(e)) /\ Len(Path(e)) = Len(e.folder) + 1 + Len(e.name)
      /\ Len(e.folder) \in Nat /\ Len(e.name) \in Nat
  BY <1>3, <1>5, TreePaths, Zenon
<1> QED
  BY <1>3, <1>4, <1>6, Zenon

\* When readdir has given e, what was pending still is, but for e.
LEMMA AfterReadDir ==
  ASSUME ScanningInv, NEW e \in Here.left, NEW d, d = [dirs EXCEPT ![Len(dirs)].left = @ \ {e}]
  PROVE  /\ d \in Seq([path : {Root} \cup {Path(x) : x \in src}, left : SUBSET src])
         /\ Len(d) = Len(dirs) /\ Len(d) \in Nat \ {0} /\ d # <<>>
         /\ \A k \in DOMAIN d : d[k].left \subseteq In(src, d[k].path)
         /\ \A x \in Pending : x = e \/ \E k \in DOMAIN d : x \in d[k].left
<1> DEFINE D == [path : {Root} \cup {Path(x) : x \in src}, left : SUBSET src]
<1>1. dirs \in Seq(D) /\ dirs # <<>> /\ Len(dirs) \in Nat \ {0} /\ Len(dirs) \in DOMAIN dirs
      /\ DOMAIN dirs = 1 .. Len(dirs)
  BY DEF ScanningInv
<1>2. PICK n : n = Len(dirs)
  OBVIOUS
<1>3. \A k \in DOMAIN dirs : dirs[k] \in D
  <2> HIDE DEF D
  <2> QED
    BY <1>1
<1>4. DOMAIN d = DOMAIN dirs
  BY Zenon
<1>5. \A k \in DOMAIN dirs : k # n => d[k] = dirs[k]
  BY <1>1, <1>2
<1>6. d[n] = [dirs[n] EXCEPT !.left = @ \ {e}]
  BY <1>1, <1>2
<1>7. d[n] \in D /\ d[n].path = dirs[n].path /\ d[n].left = dirs[n].left \ {e}
  BY <1>1, <1>2, <1>3, <1>6
<1> HIDE DEF D
<1>8. \A k \in 1 .. n : d[k] \in D
  BY <1>1, <1>2, <1>3, <1>5, <1>7, Zenon
<1>9. d \in Seq(D) /\ Len(d) = n
  <2>1. d = [k \in 1 .. n |-> d[k]]
    BY <1>1, <1>2
  <2>2. PICK c : c = [k \in 1 .. n |-> d[k]]
    OBVIOUS
  <2>3. c \in [1 .. n -> D]
    BY <1>8, <2>2
  <2>4. n \in Nat
    BY <1>1, <1>2
  <2>5. c \in Seq(D) /\ Len(c) = n
    BY <2>3, <2>4
  <2> QED
    BY <2>1, <2>2, <2>5, Zenon
<1>10. \A k \in DOMAIN dirs : dirs[k].left \subseteq In(src, dirs[k].path)
  BY DEF ScanningInv
<1>11. \A k \in DOMAIN d : d[k].left \subseteq In(src, d[k].path)
  BY <1>4, <1>5, <1>7, <1>10
<1>12. ASSUME NEW x \in Pending, x # e PROVE \E k \in DOMAIN d : x \in d[k].left
  <2>1. PICK k \in DOMAIN dirs : x \in dirs[k].left
    BY DEF Pending
  <2> QED
    BY <1>4, <1>5, <1>7, <1>12, <2>1
<1> QED
  BY <1>1, <1>2, <1>9, <1>11, <1>12 DEF D

\* An entry that is no folder.
LEMMA PastEntry ==
  ASSUME ScanningInv, NEW e \in Here.left, e.kind \notin FolderKinds, ReadDir(e), src' = src,
         e.kind = "file" => DOMAIN units' = DOMAIN units \cup {Truncated(Path(e))},
         e.kind # "file" => units' = units
  PROVE  ScanningInv'
<1> DEFINE D == [path : {Root} \cup {Path(x) : x \in src}, left : SUBSET src]
<1>1. PICK d : d = [dirs EXCEPT ![Len(dirs)].left = @ \ {e}]
  OBVIOUS
<1>2. dirs' = d
  BY <1>1 DEF ReadDir
<1>3. /\ d \in Seq(D) /\ d # <<>>
      /\ \A k \in DOMAIN d : d[k].left \subseteq In(src, d[k].path)
      /\ \A x \in Pending : x = e \/ \E k \in DOMAIN d : x \in d[k].left
  BY <1>1, AfterReadDir
<1>4. PICK V \in SUBSET src : Visited(V)
  BY DEF ScanningInv
<1>5. e \in src
  BY EntryHere
<1>6. PICK W : W = V \cup {e}
  OBVIOUS
<1>7. Pending \subseteq Pending' \cup {e}
  BY <1>2, <1>3 DEF Pending
<1>8. \A path : In(src, path)' = In(src, path)
  BY DEF In
<1>9. \A x : Path(x)' = Path(x)
  BY DEF Path
<1>10. Visited(W)'
  <2>1. W \subseteq src'
    BY <1>5, <1>6
  <2>2. In(src, Root)' \subseteq W \cup Pending'
    BY <1>4, <1>6, <1>7, <1>8 DEF Visited
  <2>3. ASSUME NEW c \in W, c.kind \in FolderKinds
        PROVE  /\ c.kind = "dir" /\ Len(Path(c)) < MaxPath
               /\ In(src', Path(c)) \subseteq W \cup Pending'
    <3>1. c \in V
      BY <1>6, <2>3
    <3>2. c.kind = "dir" /\ Len(Path(c)) < MaxPath /\ In(src, Path(c)) \subseteq V \cup Pending
      BY <1>4, <2>3, <3>1, Zenon DEF Visited
    <3> QED
      BY <1>6, <1>7, <3>2
  <2>4. DOMAIN units = {Truncated(Path(c)) : c \in {x \in V : x.kind = "file"}}
    BY <1>4, Zenon DEF Visited
  <2>5. DOMAIN units' = {Truncated(Path(c)) : c \in {x \in W : x.kind = "file"}}
    BY <1>6, <2>4
  <2> QED
    BY <2>1, <2>2, <2>3, <2>5 DEF Visited
<1>11. IsTree(src')
  BY DEF ScanningInv
<1> QED
  BY <1>2, <1>3, <1>5, <1>6, <1>10, <1>11 DEF ScanningInv

\* A folder whose activation is made.
LEMMA PastFolder ==
  ASSUME ScanningInv, NEW e \in Here.left, e.kind = "dir", Len(Path(e)) < MaxPath,
         dirs' = Append([dirs EXCEPT ![Len(dirs)].left = @ \ {e}], SubDir(e)),
         src' = src, units' = units
  PROVE  ScanningInv'
<1> DEFINE D == [path : {Root} \cup {Path(x) : x \in src}, left : SUBSET src]
<1>1. PICK d : d = [dirs EXCEPT ![Len(dirs)].left = @ \ {e}]
  OBVIOUS
<1>2. dirs' = Append(d, SubDir(e))
  BY <1>1
<1>3. /\ d \in Seq(D) /\ Len(d) \in Nat
      /\ \A k \in DOMAIN d : d[k].left \subseteq In(src, d[k].path)
      /\ \A x \in Pending : x = e \/ \E k \in DOMAIN d : x \in d[k].left
  BY <1>1, AfterReadDir
<1>4. PICK V \in SUBSET src : Visited(V)
  BY DEF ScanningInv
<1>5. e \in src /\ Sub(Here.path, e.name) = Path(e)
  BY EntryHere
<1>6. PICK s : s = SubDir(e)
  OBVIOUS
<1>7. s.path = Path(e) /\ s.left = In(src, Path(e))
  BY <1>5, <1>6 DEF SubDir, Dir
<1>8. s \in D
  <2>1. In(src, Path(e)) \subseteq src
    BY DEF In
  <2> QED
    BY <1>5, <1>6, <2>1 DEF SubDir, Dir
<1> HIDE DEF D
<1>9. PICK q : q = Append(d, s)
  OBVIOUS
<1>10. /\ q \in Seq(D) /\ q # <<>> /\ Len(d) + 1 \in DOMAIN q /\ q[Len(d) + 1] = s
       /\ \A k \in DOMAIN d : k \in DOMAIN q /\ q[k] = d[k]
       /\ \A k \in DOMAIN q : k \in DOMAIN d \/ k = Len(d) + 1
  BY <1>3, <1>8, <1>9
<1>11. dirs' = q
  BY <1>2, <1>6, <1>9
<1>12. \A k \in DOMAIN q : q[k].left \subseteq In(src, q[k].path)
  BY <1>3, <1>7, <1>10, Zenon
<1>13. \A x \in Pending \cup In(src, Path(e)) : x = e \/ \E k \in DOMAIN q : x \in q[k].left
  <2>1. \A x \in In(src, Path(e)) : \E k \in DOMAIN q : x \in q[k].left
    BY <1>7, <1>10, Zenon
  <2>2. \A x \in Pending : x = e \/ \E k \in DOMAIN q : x \in q[k].left
    BY <1>3, <1>10, Zenon
  <2> QED
    BY <2>1, <2>2
<1>14. PICK W : W = V \cup {e}
  OBVIOUS
<1>15. Pending \subseteq Pending' \cup {e} /\ In(src, Path(e)) \subseteq Pending' \cup {e}
  BY <1>11, <1>13 DEF Pending
<1>16. Visited(W)'
  <2>1. W \subseteq src'
    BY <1>5, <1>14
  <2>2. In(src', Root) \subseteq W \cup Pending'
    BY <1>4, <1>14, <1>15 DEF Visited
  <2>3. ASSUME NEW c \in W, c.kind \in FolderKinds
        PROVE  /\ c.kind = "dir" /\ Len(Path(c)) < MaxPath
               /\ In(src', Path(c)) \subseteq W \cup Pending'
    <3>1. CASE c = e
      BY <1>14, <1>15, <3>1
    <3>2. CASE c # e
      <4>1. c \in V
        BY <1>14, <3>2
      <4>2. c.kind = "dir" /\ Len(Path(c)) < MaxPath /\ In(src, Path(c)) \subseteq V \cup Pending
        BY <1>4, <2>3, <4>1, Zenon DEF Visited
      <4> QED
        BY <1>14, <1>15, <4>2
    <3> QED
      BY <3>1, <3>2
  <2>4. DOMAIN units = {Truncated(Path(c)) : c \in {x \in V : x.kind = "file"}}
    BY <1>4, Zenon DEF Visited
  <2>5. {x \in W : x.kind = "file"} = {x \in V : x.kind = "file"}
    BY <1>14
  <2> QED
    BY <1>14, <2>1, <2>2, <2>3, <2>4, <2>5 DEF Visited
<1>17. IsTree(src')
  BY DEF ScanningInv
<1> QED
  BY <1>5, <1>10, <1>11, <1>12, <1>14, <1>16, <1>17 DEF ScanningInv, D

\* The folder at the end of dirs is done, and it was not the first.
LEMMA PastDone ==
  ASSUME ScanningInv, Here.left = {}, dirs' = Front(dirs), Len(dirs) # 1, src' = src,
         units' = units
  PROVE  ScanningInv'
<1> DEFINE D == [path : {Root} \cup {Path(x) : x \in src}, left : SUBSET src]
<1>1. dirs \in Seq(D) /\ Len(dirs) \in Nat \ {0} /\ DOMAIN dirs = 1 .. Len(dirs)
      /\ \A k \in DOMAIN dirs : dirs[k].left \subseteq In(src, dirs[k].path)
  BY DEF ScanningInv
<1> HIDE DEF D
<1>2. PICK n \in Nat \ {0, 1} : n = Len(dirs)
  BY <1>1
<1>3. PICK d : d = SubSeq(dirs, 1, n - 1)
  OBVIOUS
<1>4. dirs' = d
  BY <1>2, <1>3 DEF Front
<1>5. d \in Seq(D) /\ Len(d) = n - 1 /\ \A k \in 1 .. n - 1 : d[k] = dirs[k]
  BY <1>1, <1>2, <1>3
<1>6. DOMAIN d = 1 .. n - 1 /\ d # <<>>
  BY <1>2, <1>5
<1>7. \A k \in 1 .. n - 1 : k \in 1 .. n
  BY <1>2
<1>8. \A k \in DOMAIN d : d[k].left \subseteq In(src, d[k].path)
  BY <1>1, <1>2, <1>5, <1>6, <1>7, Zenon
<1>9. \A x \in Pending : \E k \in DOMAIN d : x \in d[k].left
  <2> SUFFICES ASSUME NEW x \in Pending PROVE \E k \in DOMAIN d : x \in d[k].left
    OBVIOUS
  <2>1. PICK k \in 1 .. n : x \in dirs[k].left
    BY <1>1, <1>2 DEF Pending
  <2>2. k # n
    BY <1>2, <2>1 DEF Here, Last
  <2>3. k \in 1 .. n - 1
    BY <1>2, <2>2
  <2> QED
    BY <1>5, <1>6, <2>1, <2>3, Zenon
<1>10. Pending \subseteq Pending'
  BY <1>4, <1>9 DEF Pending
<1>11. PICK V \in SUBSET src : Visited(V)
  BY DEF ScanningInv
<1>12. Visited(V)'
  <2>1. /\ V \subseteq src /\ In(src, Root) \subseteq V \cup Pending
        /\ DOMAIN units = {Truncated(Path(c)) : c \in {x \in V : x.kind = "file"}}
    BY <1>11, Zenon DEF Visited
  <2>2. ASSUME NEW c \in V, c.kind \in FolderKinds
        PROVE  c.kind = "dir" /\ Len(Path(c)) < MaxPath /\ In(src, Path(c)) \subseteq V \cup Pending
    BY <1>11, <2>2, Zenon DEF Visited
  <2>3. In(src', Root) \subseteq V \cup Pending'
    BY <1>10, <2>1
  <2>4. \A c \in V : c.kind \in FolderKinds =>
          c.kind = "dir" /\ Len(Path(c)) < MaxPath /\ In(src', Path(c)) \subseteq V \cup Pending'
    BY <1>10, <2>2
  <2> QED
    BY <2>1, <2>3, <2>4 DEF Visited
<1>13. IsTree(src')
  BY DEF ScanningInv
<1> QED
  BY <1>4, <1>5, <1>6, <1>8, <1>11, <1>12, <1>13 DEF ScanningInv, D

\* The first folder is done: readdir has given all of src/.
LEMMA AllDone ==
  ASSUME ScanningInv, Here.left = {}, Len(dirs) = 1
  PROVE  DOMAIN units = {Truncated(path) : path \in Files} /\ ~Unscannable
<1>1. PICK V \in SUBSET src : Visited(V)
  BY DEF ScanningInv
<1>2. Pending = {}
  <2>1. DOMAIN dirs = {1}
    BY DEF ScanningInv
  <2>2. dirs[1].left = {}
    BY DEF Here, Last
  <2> QED
    BY <2>1, <2>2 DEF Pending
<1>3. V = src
  <2>1. IsTree(src)
    BY DEF ScanningInv
  <2>2. ASSUME NEW e \in src
        PROVE  /\ e.folder = Root => e \in V
               /\ \A d \in V : d.kind = "dir" /\ e.folder = Path(d) => e \in V
    <3>1. In(src, Root) \subseteq V
      BY <1>1, <1>2 DEF Visited
    <3>2. ASSUME NEW d \in V, d.kind = "dir" PROVE In(src, Path(d)) \subseteq V
      <4>1. d.kind \in FolderKinds
        BY <3>2 DEF FolderKinds
      <4> QED
        BY <1>1, <1>2, <4>1 DEF Visited
    <3> QED
      BY <3>1, <3>2 DEF In
  <2> QED
    BY <2>1, <2>2, TreeInduction
<1>4. /\ DOMAIN units = {Truncated(Path(e)) : e \in {x \in src : x.kind = "file"}}
      /\ \A d \in src : d.kind \in FolderKinds => d.kind = "dir" /\ Len(Path(d)) < MaxPath
  BY <1>1, <1>3, Zenon DEF Visited
<1>5. ~Unscannable
  <2>1. ASSUME NEW d \in src PROVE Len(Path(d)) \in Nat
    <3>1. IsTree(src)
      BY DEF ScanningInv
    <3>2. Rooted(Path(d))
      BY <3>1, TreePaths, Zenon
    <3> QED
      BY <3>2 DEF Rooted
  <2>2. \A d \in src : d.kind \in FolderKinds => ~(Len(Path(d)) >= MaxPath)
    BY <1>4, <2>1, StartupAssumption
  <2> QED
    BY <1>4, <2>2 DEF Unscannable
<1>6. DOMAIN units = {Truncated(path) : path \in Files}
  BY <1>4 DEF Files
<1> QED
  BY <1>5, <1>6

ScanInv == (scan = "scanning" => ScanningInv) /\ ScanRight

\* A folder is entered, or the scan fails because of it.
LEMMA EnterStep == ScanInv /\ Scanning /\ EnterFolder => ScanInv'
<1> SUFFICES ASSUME ScanInv, scan = "scanning", EnterFolder PROVE ScanInv'
  BY DEF Scanning
<1>1. ScanningInv
  BY DEF ScanInv
<1>2. PICK e \in Here.left :
        /\ e.kind \in FolderKinds
        /\ IF Len(Here.path) + Len(e.name) + 2 > MaxPath \/ e.kind = "locked"
           THEN Fail
           ELSE /\ dirs' = Append([dirs EXCEPT ![Len(dirs)].left = @ \ {e}], SubDir(e))
                /\ UNCHANGED <<src, units, scan>>
  BY Zenon DEF EnterFolder
<1>3. PICK m \in Nat, n \in Nat, l \in Nat : m = Len(Here.path) /\ n = Len(e.name) /\ l = Len(Path(e))
  <2> Len(Path(e)) \in Nat
    BY <1>1, EntryHere
  <2> QED
    BY <1>1, EntryHere
<1>4. l = m + 1 + n /\ e \in src
  BY <1>1, <1>3, EntryHere, Zenon
<1>5. MaxPath \in Nat
  BY StartupAssumption
<1>6. CASE m + n + 2 > MaxPath \/ e.kind = "locked"
  <2>1. l >= MaxPath \/ e.kind = "locked"
    BY <1>4, <1>5, <1>6
  <2>2. Unscannable
    BY <1>2, <1>3, <1>4, <2>1, Zenon DEF Unscannable
  <2>3. Fail
    BY <1>2, <1>3, <1>6
  <2>4. scan' = "failed" /\ src' = src
    BY <2>3 DEF Fail
  <2>5. Unscannable'
    BY <2>2, <2>4, Zenon DEF Unscannable
  <2> QED
    BY <2>4, <2>5 DEF ScanInv, ScanRight
<1>7. CASE ~(m + n + 2 > MaxPath \/ e.kind = "locked")
  <2>1. l < MaxPath
    BY <1>4, <1>5, <1>7
  <2>2. e.kind = "dir"
    BY <1>2, <1>7 DEF FolderKinds
  <2>3. /\ dirs' = Append([dirs EXCEPT ![Len(dirs)].left = @ \ {e}], SubDir(e))
        /\ src' = src /\ units' = units /\ scan' = scan
    BY <1>2, <1>3, <1>7
  <2>4. ScanningInv'
    BY <1>1, <1>3, <2>1, <2>2, <2>3, PastFolder, Zenon
  <2>5. scan' = "scanning"
    BY <2>3
  <2> QED
    BY <2>4, <2>5 DEF ScanInv, ScanRight
<1> QED
  BY <1>6, <1>7

\* A file becomes a unit, or the scan crashes for want of a dot.
LEMMA FoundStep == ScanInv /\ Scanning /\ FoundFile => ScanInv'
<1> SUFFICES ASSUME ScanInv, scan = "scanning", FoundFile PROVE ScanInv'
  BY DEF Scanning
<1>1. ScanningInv
  BY DEF ScanInv
<1>2. PICK e \in Here.left, rest \in Unwritten :
        /\ e.kind = "file"
        /\ LET path == Truncated(Sub(Here.path, e.name)) IN
           IF LastDot(Dotted(path) \o rest) = 0
           THEN scan' = "crashed" /\ UNCHANGED <<src, dirs, units>>
           ELSE /\ \E upToDate \in BOOLEAN :
                     /\ upToDate => path = Sub(Here.path, e.name)
                     /\ AddUnit(path, rest, upToDate)
                /\ ReadDir(e)
                /\ UNCHANGED <<src, scan>>
  BY Zenon DEF FoundFile
<1>3. e \in src /\ Sub(Here.path, e.name) = Path(e) /\ Rooted(Path(e))
  BY <1>1, EntryHere
<1>4. PICK path : path = Truncated(Path(e)) /\ Rooted(path)
  BY <1>3, CutPath, StartupAssumption
<1>5. CASE LastDot(Dotted(path) \o rest) = 0
  <2>1. scan' = "crashed" /\ src' = src
    BY <1>2, <1>3, <1>4, <1>5
  <2>2. Path(e) \in Files
    BY <1>2, <1>3 DEF Files
  <2>3. LastDot(Dotted(path)) = 0
    <3>1. PICK T : T = Range(path) \cup {"."} \cup Range(rest)
      OBVIOUS
    <3>2. rest \in Seq(Range(rest))
      BY StartupAssumption
    <3>3. rest \in Seq(T)
      BY <3>1, <3>2
    <3>4. Dotted(path) \in Seq(T)
      BY <1>4, <3>1, DottedSeq
    <3>5. LastDot(Dotted(path)) <= 0 /\ LastDot(Dotted(path)) \in 0 .. Len(Dotted(path))
      BY <1>5, <3>3, <3>4, CutAt, LastDotIs
    <3> QED
      BY <3>4, <3>5
  <2>4. NoDot
    BY <1>4, <2>2, <2>3, Zenon DEF NoDot
  <2>5. NoDot'
    BY <2>1, <2>4, Zenon DEF NoDot, Files
  <2> QED
    BY <2>1, <2>5 DEF ScanInv, ScanRight
<1>6. CASE LastDot(Dotted(path) \o rest) # 0
  <2>1. /\ \E upToDate \in BOOLEAN : AddUnit(path, rest, upToDate)
        /\ ReadDir(e) /\ src' = src /\ scan' = scan
    BY <1>2, <1>3, <1>4, <1>6
  <2>2. DOMAIN units' = DOMAIN units \cup {path}
    BY <2>1 DEF AddUnit
  <2>3. e.kind \notin FolderKinds /\ e.kind = "file"
    BY <1>2 DEF FolderKinds
  <2>4. ScanningInv'
    BY <1>1, <1>4, <2>1, <2>2, <2>3, PastEntry, Zenon
  <2>5. scan' = "scanning"
    BY <2>1
  <2> QED
    BY <2>4, <2>5 DEF ScanInv, ScanRight
<1> QED
  BY <1>5, <1>6

\* What is neither is passed over.
LEMMA OtherStep == ScanInv /\ Scanning /\ OtherEntry => ScanInv'
<1> SUFFICES ASSUME ScanInv, scan = "scanning", OtherEntry PROVE ScanInv'
  BY DEF Scanning
<1>1. ScanningInv
  BY DEF ScanInv
<1>2. PICK e \in Here.left :
        e.kind = "other" /\ ReadDir(e) /\ src' = src /\ units' = units /\ scan' = scan
  BY DEF OtherEntry
<1>3. e.kind \notin FolderKinds /\ e.kind # "file"
  BY <1>2 DEF FolderKinds
<1>4. ScanningInv'
  BY <1>1, <1>2, <1>3, PastEntry
<1>5. scan' = "scanning"
  BY <1>2
<1> QED
  BY <1>4, <1>5 DEF ScanInv, ScanRight

\* readdir has no more to give.
LEMMA DoneStep == ScanInv /\ Scanning /\ FolderDone => ScanInv'
<1> SUFFICES ASSUME ScanInv, scan = "scanning", FolderDone PROVE ScanInv'
  BY DEF Scanning
<1>1. ScanningInv
  BY DEF ScanInv
<1>2. Here.left = {} /\ dirs' = Front(dirs) /\ src' = src /\ units' = units
  BY DEF FolderDone
<1>3. CASE Len(dirs) = 1
  <2>1. scan' = "scanned"
    BY <1>3 DEF FolderDone
  <2>2. DOMAIN units = {Truncated(path) : path \in Files} /\ ~Unscannable
    BY <1>1, <1>2, <1>3, AllDone
  <2>3. (DOMAIN units = {Truncated(path) : path \in Files} /\ ~Unscannable)'
    BY <1>2, <2>2, Zenon DEF Files, Unscannable
  <2> QED
    BY <2>1, <2>3 DEF ScanInv, ScanRight
<1>4. CASE Len(dirs) # 1
  <2>1. scan' = "scanning"
    BY <1>4 DEF FolderDone
  <2>2. ScanningInv'
    BY <1>1, <1>2, <1>4, PastDone
  <2> QED
    BY <2>1, <2>2 DEF ScanInv, ScanRight
<1> QED
  BY <1>3, <1>4

\* The scan starts with what is in src/ itself.
LEMMA FindStep ==
  ASSUME NEW folder \in Folders, FindProjfiles(folder), DOMAIN units = {}
  PROVE  ScanInv'
<1>1. src' = folder /\ units' = units
  BY DEF FindProjfiles
<1>2. CASE folder = NoFolder
  BY <1>1, <1>2 DEF FindProjfiles, ScanInv, ScanRight
<1>3. CASE folder # NoFolder
  <2>1. scan' = "scanning" /\ dirs' = <<Dir(Root, In(folder, Root))>>
    BY <1>3 DEF FindProjfiles
  <2>2. IsTree(folder)
    BY <1>3, StartupAssumption
  <2>3. PICK d : d = Dir(Root, In(folder, Root))
    OBVIOUS
  <2>4. /\ d \in [path : {Root} \cup {Path(x) : x \in folder}, left : SUBSET folder]
        /\ d.left = In(folder, Root) /\ d.path = Root
    BY <2>3 DEF Dir, In
  <2>5. dirs' = <<d>>
    BY <2>1, <2>3
  <2>6. /\ <<d>> \in Seq([path : {Root} \cup {Path(x) : x \in folder}, left : SUBSET folder])
        /\ <<d>> # <<>> /\ DOMAIN <<d>> = {1} /\ <<d>>[1] = d
    BY <2>4
  <2>7. Pending' = In(folder, Root)
    BY <2>4, <2>5, <2>6 DEF Pending
  <2>8. Visited({})'
    BY <1>1, <2>7 DEF Visited
  <2>9. ScanningInv'
    BY <1>1, <2>2, <2>4, <2>5, <2>6, <2>8 DEF ScanningInv
  <2> QED
    BY <2>1, <2>9 DEF ScanInv, ScanRight
<1> QED
  BY <1>2, <1>3
-----------------------------------------------------------------------------
(* The names of units *)

\* A path that ends in .yf and has no other dot.
LEMMA PlainPath ==
  ASSUME NEW p, Rooted(p), Plain(p)
  PROVE  /\ Len(p) \in Nat /\ Len(p) >= 4 /\ p \in Seq(Range(p))
         /\ p[1] = "src" /\ p[2] = "/" /\ p[Len(p) - 1] = "." /\ p[Len(p)] = "yf"
         /\ \A j \in 1 .. Len(p) - 2 : p[j] # "."
<1>1. p \in Seq(Range(p)) /\ Len(p) >= 2 /\ p[1] = "src" /\ p[2] = "/"
  BY DEF Rooted
<1>2. PICK n \in Nat : n = Len(p)
  BY <1>1
<1>3. DOMAIN p = 1 .. n
  BY <1>1, <1>2
<1>4. n >= 2
  BY <1>1, <1>2
<1>5. PICK e : e = <<".", "yf">>
  OBVIOUS
<1>6. PICK r : r = Reverse(e)
  OBVIOUS
<1>7. r = [k \in 1 .. 2 |-> e[2 - k + 1]]
  BY <1>5, <1>6 DEF Reverse
<1>8. r[1] = "yf" /\ r[2] = "." /\ Len(r) = 2
  BY <1>5, <1>7
<1>9. PICK b : b = Reverse(p)
  OBVIOUS
<1>10. b = [k \in 1 .. n |-> p[n - k + 1]]
  BY <1>2, <1>9 DEF Reverse
<1>11. b[1] = p[n] /\ b[2] = p[n - 1]
  BY <1>4, <1>10
<1>12. SubSeq(r, 1, 2) = SubSeq(b, 1, 2)
  BY <1>5, <1>6, <1>8, <1>9, Zenon DEF Plain, IsYf, IsSuffix, IsPrefix
<1>13. SubSeq(r, 1, 2)[1] = r[1] /\ SubSeq(r, 1, 2)[2] = r[2]
  <2>1. SubSeq(r, 1, 2) = [k \in 1 .. 2 |-> r[1 + k - 1]]
    OBVIOUS
  <2> QED
    BY <2>1
<1>14. SubSeq(b, 1, 2)[1] = b[1] /\ SubSeq(b, 1, 2)[2] = b[2]
  <2>1. SubSeq(b, 1, 2) = [k \in 1 .. 2 |-> b[1 + k - 1]]
    OBVIOUS
  <2> QED
    BY <2>1
<1>15. p[n] = "yf" /\ p[n - 1] = "."
  BY <1>8, <1>11, <1>12, <1>13, <1>14, Zenon
<1>16. n # 2 /\ n # 3
  <2>1. "." # "src" /\ "." # "/"
    OBVIOUS
  <2>2. ASSUME n = 2 PROVE FALSE
    <3>1. n - 1 = 1
      BY <2>2
    <3> QED
      BY <1>1, <1>15, <2>1, <3>1, Zenon
  <2>3. ASSUME n = 3 PROVE FALSE
    <3>1. n - 1 = 2
      BY <2>3
    <3> QED
      BY <1>1, <1>15, <2>1, <3>1, Zenon
  <2> QED
    BY <2>2, <2>3
<1>17. n >= 4
  BY <1>4, <1>16
<1> DEFINE S == {j \in DOMAIN p : p[j] = "."}
<1>18. Cardinality(S) = 1
  BY DEF Plain
<1>19. IsFiniteSet(S)
  <2>1. IsFiniteSet(1 .. n)
    BY FS_Interval
  <2>2. S \in SUBSET (1 .. n)
    BY <1>3
  <2> HIDE DEF S
  <2> QED
    BY <2>1, <2>2, FS_Subset
<1>20. PICK x : S = {x}
  <2> HIDE DEF S
  <2> QED
    BY <1>18, <1>19, FS_Singleton
<1>21. n - 1 \in S
  <2>1. n - 1 \in 1 .. n
    BY <1>4
  <2> QED
    BY <1>3, <1>15, <2>1
<1>22. \A j \in 1 .. n - 2 : p[j] # "."
  <2> SUFFICES ASSUME NEW j \in 1 .. n - 2, p[j] = "." PROVE FALSE
    OBVIOUS
  <2>1. j \in 1 .. n /\ j # n - 1
    OBVIOUS
  <2>2. j \in S
    BY <1>3, <2>1
  <2> QED
    BY <1>20, <1>21, <2>1, <2>2
<1> QED
  BY <1>1, <1>2, <1>15, <1>17, <1>22, Zenon

\* What yf_get_identifier_prefix makes of a plain path, place by place.
LEMMA DottedIs ==
  ASSUME NEW p, Rooted(p), Plain(p)
  PROVE  /\ LastDot(Dotted(p)) = Len(p) - 3
         /\ \A j \in 1 .. Len(p) - 2 : Dotted(p)[j] = IF p[j + 2] = "/" THEN "." ELSE p[j + 2]
         /\ Len(Dotted(p)) = Len(p) - 2
<1>1. PICK n \in Nat : n = Len(p)
  BY PlainPath
<1>2. n >= 4 /\ p[n - 1] = "." /\ p[n] = "yf"
  BY <1>1, PlainPath, Zenon
<1>3. PICK r : r = Rest(p)
  OBVIOUS
<1>4. r \in Seq(Range(p)) /\ Len(r) = n - 2 /\ \A j \in 1 .. n - 2 : r[j] = p[j + 2]
  BY <1>1, <1>3, RestIs, Zenon
<1>5. DOMAIN r = 1 .. n - 2
  BY <1>4
<1>6. PICK d : d = Dotted(p)
  OBVIOUS
<1>7. d = [j \in 1 .. n - 2 |-> IF r[j] = "/" THEN "." ELSE r[j]]
  BY <1>3, <1>5, <1>6, Zenon DEF Dotted
<1>8. n - 2 \in Nat
  BY <1>2
<1>9. Len(d) = n - 2 /\ \A j \in 1 .. n - 2 : d[j] = IF p[j + 2] = "/" THEN "." ELSE p[j + 2]
  BY <1>4, <1>7, <1>8
<1>10. n - 3 \in 1 .. n - 2 /\ n - 2 \in 1 .. n - 2 /\ n - 3 + 2 = n - 1 /\ n - 2 + 2 = n
  BY <1>2
<1>11. d[n - 3] = "."
  BY <1>2, <1>9, <1>10
<1>12. d[n - 2] # "."
  BY <1>2, <1>9, <1>10
<1> DEFINE S == {j \in 1 .. Len(d) : d[j] = "."}
<1>13. n - 3 \in S /\ S \in SUBSET Nat
  BY <1>9, <1>10, <1>11
<1>14. \A y \in S : y <= n - 3
  <2> SUFFICES ASSUME NEW y \in S PROVE y <= n - 3
    OBVIOUS
  <2>1. y \in 1 .. n - 2 /\ y # n - 2
    BY <1>9, <1>12
  <2> QED
    BY <2>1
<1>15. Max(S) = n - 3
  <2> HIDE DEF S
  <2> QED
    BY <1>13, <1>14, MaxIs
<1>16. LastDot(d) = n - 3
  BY <1>13, <1>15 DEF LastDot, SelectLastInSeq
<1> QED
  BY <1>1, <1>6, <1>9, <1>16, Zenon

\* A prefix that is shorter than the path was cut at the last dot of the path.
LEMMA CutIsOwn ==
  ASSUME NEW p, Rooted(p), Plain(p), NEW prefix \in PossiblePrefixes(p), Len(prefix) < Len(Rest(p))
  PROVE  prefix = UpToDot(Dotted(p))
<1>1. PICK rest \in Unwritten : prefix = UpToDot(Dotted(p) \o rest)
  BY DEF PossiblePrefixes, IdentifierPrefix
<1>2. PICK T : T = Range(p) \cup {"."} \cup Range(rest)
  OBVIOUS
<1>3. rest \in Seq(T)
  <2>1. rest \in Seq(Range(rest))
    BY StartupAssumption
  <2> QED
    BY <1>2, <2>1
<1>4. Dotted(p) \in Seq(T) /\ Len(Dotted(p)) = Len(Rest(p))
  BY <1>2, DottedSeq
<1>5. LastDot(Dotted(p)) # 0
  <2>1. PICK n \in Nat : n = Len(p) /\ n >= 4
    BY PlainPath
  <2>2. LastDot(Dotted(p)) = n - 3
    BY <2>1, DottedIs, Zenon
  <2>3. n - 3 # 0
    BY <2>1
  <2> QED
    BY <2>2, <2>3
<1> QED
  BY <1>1, <1>3, <1>4, <1>5, CutAt

\* Plain paths that agree below src/ are the same.
LEMMA SamePath ==
  ASSUME NEW p, NEW q, Rooted(p), Rooted(q), Plain(p), Plain(q), Len(p) = Len(q),
         \A j \in 3 .. Len(p) - 2 : p[j] = q[j]
  PROVE  p = q
<1>1. PICK n \in Nat : n = Len(p)
  BY PlainPath
<1>2. n = Len(q)
  BY <1>1
<1>3. /\ n >= 4 /\ p \in Seq(Range(p)) /\ q \in Seq(Range(q))
      /\ p[1] = q[1] /\ p[2] = q[2] /\ p[n - 1] = q[n - 1] /\ p[n] = q[n]
  <2>1. /\ n >= 4 /\ p \in Seq(Range(p))
        /\ p[1] = "src" /\ p[2] = "/" /\ p[n - 1] = "." /\ p[n] = "yf"
    BY <1>1, PlainPath, Zenon
  <2>2. /\ q \in Seq(Range(q))
        /\ q[1] = "src" /\ q[2] = "/" /\ q[n - 1] = "." /\ q[n] = "yf"
    BY <1>2, PlainPath, Zenon
  <2> QED
    BY <2>1, <2>2
<1>4. \A j \in 1 .. n : j = 1 \/ j = 2 \/ j = n - 1 \/ j = n \/ j \in 3 .. n - 2
  BY <1>3
<1>5. \A j \in 3 .. n - 2 : p[j] = q[j]
  BY <1>1, Zenon
<1>6. \A j \in 1 .. n : p[j] = q[j]
  BY <1>3, <1>4, <1>5, Zenon
<1>7. PICK S, T : p \in Seq(S) /\ q \in Seq(T)
  BY <1>3, Zenon
<1>8. p = [j \in 1 .. n |-> p[j]] /\ q = [j \in 1 .. n |-> q[j]]
  BY <1>1, <1>2, <1>7
<1> QED
  BY <1>6, <1>8

\* yf_get_identifier_prefix tells plain paths from each other, if it cuts them at a dot of theirs: what
\* it turns into a dot is a slash.
LEMMA PrefixTells ==
  ASSUME NEW p, NEW q, Rooted(p), Rooted(q), Plain(p), Plain(q),
         UpToDot(Dotted(p)) = UpToDot(Dotted(q))
  PROVE  p = q
<1>1. PICK n \in Nat, m \in Nat : n = Len(p) /\ m = Len(q)
  BY PlainPath
<1>2. n >= 4 /\ m >= 4
  BY <1>1, PlainPath, Zenon
<1>3. PICK d, e : d = Dotted(p) /\ e = Dotted(q)
  OBVIOUS
<1>4. /\ LastDot(d) = n - 3 /\ LastDot(e) = m - 3
      /\ \A j \in 1 .. n - 2 : d[j] = IF p[j + 2] = "/" THEN "." ELSE p[j + 2]
      /\ \A j \in 1 .. m - 2 : e[j] = IF q[j + 2] = "/" THEN "." ELSE q[j + 2]
  BY <1>1, <1>3, DottedIs, Zenon
<1>5. n - 3 - 1 = n - 4 /\ m - 3 - 1 = m - 4 /\ n - 4 \in Nat /\ m - 4 \in Nat
  BY <1>2
<1>6. SubSeq(d, 1, n - 4) = SubSeq(e, 1, m - 4)
  BY <1>3, <1>4, <1>5, Zenon DEF UpToDot
<1>7. /\ SubSeq(d, 1, n - 4) = [k \in 1 .. n - 4 |-> d[1 + k - 1]]
      /\ SubSeq(e, 1, m - 4) = [k \in 1 .. m - 4 |-> e[1 + k - 1]]
  <2>1. (n - 4) - 1 + 1 = n - 4 /\ (m - 4) - 1 + 1 = m - 4
    BY <1>5
  <2> QED
    BY <2>1
<1>8. 1 .. n - 4 = 1 .. m - 4
  BY <1>6, <1>7, Zenon
<1>9. n = m
  <2>1. n - 4 = m - 4
    <3>1. \A a, b \in Nat : a > b => a \in 1 .. a /\ a \notin 1 .. b
      OBVIOUS
    <3> QED
      BY <1>5, <1>8, <3>1
  <2> QED
    BY <2>1
<1>10. \A k \in 1 .. n - 4 : 1 + k - 1 = k
  BY <1>5
<1>11. \A k \in 1 .. n - 4 : d[k] = e[k]
  BY <1>6, <1>7, <1>8, <1>10, Zenon
<1>12. (\A j \in 1 .. n - 2 : p[j] # ".") /\ (\A j \in 1 .. m - 2 : q[j] # ".")
  BY <1>1, PlainPath, Zenon
<1>13. ASSUME NEW j \in 3 .. n - 2 PROVE p[j] = q[j]
  <2>1. PICK k \in 1 .. n - 4 : j = k + 2 /\ k \in 1 .. n - 2 /\ k \in 1 .. m - 2
                                /\ j \in 1 .. n - 2 /\ j \in 1 .. m - 2
    <3>1. j - 2 \in 1 .. n - 4 /\ j = (j - 2) + 2 /\ j - 2 \in 1 .. n - 2
      BY <1>2
    <3> QED
      BY <1>9, <3>1
  <2>2. d[k] = e[k]
    BY <1>11
  <2>3. p[j] # "." /\ q[j] # "."
    BY <1>12, <2>1
  <2>4. d[k] = IF p[j] = "/" THEN "." ELSE p[j]
    BY <1>4, <2>1, Zenon
  <2>5. e[k] = IF q[j] = "/" THEN "." ELSE q[j]
    BY <1>4, <2>1, Zenon
  <2> QED
    BY <2>2, <2>3, <2>4, <2>5
<1> QED
  BY <1>1, <1>9, <1>13, SamePath

\* A last element that is the same can be taken away.
LEMMA SameFront ==
  ASSUME NEW T, NEW a \in Seq(T), NEW b \in Seq(T), NEW x \in T, a \o <<x>> = b \o <<x>>
  PROVE  a = b
<1>1. PICK c, d : c = a \o <<x>> /\ d = b \o <<x>>
  OBVIOUS
<1>2. Len(c) = Len(a) + 1 /\ Len(d) = Len(b) + 1
  BY <1>1
<1>3. Len(a) = Len(b)
  BY <1>1, <1>2
<1>4. \A j \in 1 .. Len(a) : c[j] = a[j] /\ d[j] = b[j]
  BY <1>1, <1>3
<1>5. \A j \in 1 .. Len(a) : a[j] = b[j]
  BY <1>1, <1>4
<1> QED
  BY <1>3, <1>5

\* A beginning that is the same can be taken away.
LEMMA SameBack ==
  ASSUME NEW T, NEW h \in Seq(T), NEW r \in Seq(T), NEW s \in Seq(T), h \o r = h \o s
  PROVE  r = s
<1>1. PICK c, d : c = h \o r /\ d = h \o s
  OBVIOUS
<1>2. Len(c) = Len(h) + Len(r) /\ Len(d) = Len(h) + Len(s)
  BY <1>1
<1>3. Len(r) = Len(s)
  BY <1>1, <1>2
<1>4. \A j \in 1 .. Len(r) : c[Len(h) + j] = r[j] /\ d[Len(h) + j] = s[j]
  BY <1>1, <1>3
<1>5. \A j \in 1 .. Len(r) : r[j] = s[j]
  BY <1>1, <1>4
<1> QED
  BY <1>3, <1>5

\* The places of a path and of what follows src/ in it.
LEMMA RestTells ==
  ASSUME NEW p, NEW q, Rooted(p), Rooted(q), Plain(p), Plain(q),
         Len(Rest(p)) = Len(Rest(q)), \A j \in 1 .. Len(Rest(p)) - 1 : Rest(p)[j] = Rest(q)[j]
  PROVE  p = q
<1>1. PICK n \in Nat, m \in Nat : n = Len(p) /\ m = Len(q)
  BY PlainPath
<1>2. n >= 4 /\ m >= 4
  BY <1>1, PlainPath, Zenon
<1>3. PICK r : r = Rest(p)
  OBVIOUS
<1>4. PICK s : s = Rest(q)
  OBVIOUS
<1>5. Len(r) = n - 2 /\ \A j \in 1 .. n - 2 : r[j] = p[j + 2]
  BY <1>1, <1>3, RestIs, Zenon
<1>6. Len(s) = m - 2 /\ \A j \in 1 .. m - 2 : s[j] = q[j + 2]
  BY <1>1, <1>4, RestIs, Zenon
<1>7. n - 2 = m - 2
  BY <1>3, <1>4, <1>5, <1>6, Zenon
<1>8. n = m
  BY <1>7
<1>9. \A j \in 1 .. n - 2 - 1 : r[j] = s[j]
  BY <1>3, <1>4, <1>5, Zenon
<1>10. ASSUME NEW j \in 3 .. n - 2 PROVE p[j] = q[j]
  <2>1. PICK k \in 1 .. n - 2 : j = k + 2 /\ k \in 1 .. n - 2 - 1 /\ k \in 1 .. m - 2
    <3>1. j - 2 \in 1 .. n - 2 /\ j = (j - 2) + 2 /\ j - 2 \in 1 .. n - 2 - 1
      BY <1>2
    <3> QED
      BY <1>8, <3>1
  <2> QED
    BY <1>5, <1>6, <1>9, <2>1, Zenon
<1> QED
  BY <1>1, <1>8, <1>10, SamePath

\* yf_get_sym_file_name
LEMMA SymTells ==
  ASSUME NEW p, NEW q, Rooted(p), Rooted(q), Plain(p), Plain(q), SymFileName(p) = SymFileName(q)
  PROVE  p = q
<1>1. PICK T : T = Range(p) \cup Range(q) \cup {"bin", "/", "sym"}
  OBVIOUS
<1>2. PICK r : r = Rest(p)
  OBVIOUS
<1>3. PICK s : s = Rest(q)
  OBVIOUS
<1>4. r \in Seq(T) /\ s \in Seq(T)
  <2>1. Range(p) \subseteq T /\ Range(q) \subseteq T
    BY <1>1
  <2> QED
    BY <1>2, <1>3, <2>1, RestIs, SeqMonotonic, Zenon
<1>5. PICK h : h = <<"bin", "/", "sym", "/">>
  OBVIOUS
<1>6. h \in Seq(T) /\ "sym" \in T
  BY <1>1, <1>5
<1>7. (h \o r) \o <<"sym">> = (h \o s) \o <<"sym">>
  BY <1>2, <1>3, <1>5, Zenon DEF SymFileName
<1>8. h \o r \in Seq(T) /\ h \o s \in Seq(T)
  BY <1>4, <1>6
<1>9. h \o r = h \o s
  BY <1>6, <1>7, <1>8, SameFront, Zenon
<1>10. r = s
  BY <1>4, <1>6, <1>9, SameBack, Zenon
<1> QED
  BY <1>2, <1>3, <1>10, RestTells, Zenon

\* Where the elements of r are behind h.
LEMMA Behind ==
  ASSUME NEW T, NEW h \in Seq(T), NEW r \in Seq(T)
  PROVE  /\ h \o r \in Seq(T) /\ Len(h \o r) = Len(h) + Len(r)
         /\ \A j \in 1 .. Len(r) : (h \o r)[Len(h) + j] = r[j]
OBVIOUS

\* create_output_file_name
LEMMA OutputTells ==
  ASSUME NEW p, NEW q, Rooted(p), Rooted(q), Plain(p), Plain(q), OutputFile(p) = OutputFile(q)
  PROVE  p = q
<1>1. PICK T : T = Range(p) \cup Range(q) \cup {"bin", "/", "c"}
  OBVIOUS
<1>2. PICK r : r = Rest(p)
  OBVIOUS
<1>3. PICK s : s = Rest(q)
  OBVIOUS
<1>4. r \in Seq(T) /\ s \in Seq(T)
  <2>1. Range(p) \subseteq T /\ Range(q) \subseteq T
    BY <1>1
  <2> QED
    BY <1>2, <1>3, <2>1, RestIs, SeqMonotonic, Zenon
<1>5. PICK h : h = <<"bin", "/", "c", "/">>
  OBVIOUS
<1>6. h \in Seq(T) /\ "c" \in T /\ Len(h) = 4
  BY <1>1, <1>5
<1>7. IsYf(p) /\ IsYf(q)
  BY Zenon DEF Plain
<1>8. PICK a : a = h \o r
  OBVIOUS
<1>9. PICK b : b = h \o s
  OBVIOUS
<1>10. OutputFile(p) = Front(a) \o <<"c">> /\ OutputFile(q) = Front(b) \o <<"c">>
  <2>1. OutputFile(p) = Front(a) \o <<"c">>
    BY <1>2, <1>5, <1>7, <1>8 DEF OutputFile, Output
  <2>2. OutputFile(q) = Front(b) \o <<"c">>
    BY <1>3, <1>5, <1>7, <1>9 DEF OutputFile, Output
  <2> QED
    BY <2>1, <2>2
<1>11. PICK n \in Nat, m \in Nat : n = Len(r) /\ m = Len(s)
  BY <1>4
<1>12. /\ a \in Seq(T) /\ Len(a) = 4 + n /\ \A j \in 1 .. n : a[4 + j] = r[j]
       /\ b \in Seq(T) /\ Len(b) = 4 + m /\ \A j \in 1 .. m : b[4 + j] = s[j]
  <2>1. a \in Seq(T) /\ Len(a) = Len(h) + Len(r) /\ \A j \in 1 .. Len(r) : a[Len(h) + j] = r[j]
    <3>1. /\ h \o r \in Seq(T) /\ Len(h \o r) = Len(h) + Len(r)
          /\ \A j \in 1 .. Len(r) : (h \o r)[Len(h) + j] = r[j]
      <4>1. h \in Seq(T) /\ r \in Seq(T)
        BY <1>4, <1>6, Zenon
      <4> QED
        BY <4>1, Behind, Zenon
    <3> QED
      BY <1>8, <3>1, Zenon
  <2>2. b \in Seq(T) /\ Len(b) = Len(h) + Len(s) /\ \A j \in 1 .. Len(s) : b[Len(h) + j] = s[j]
    <3>1. /\ h \o s \in Seq(T) /\ Len(h \o s) = Len(h) + Len(s)
          /\ \A j \in 1 .. Len(s) : (h \o s)[Len(h) + j] = s[j]
      <4>1. h \in Seq(T) /\ s \in Seq(T)
        BY <1>4, <1>6, Zenon
      <4> QED
        BY <4>1, Behind, Zenon
    <3> QED
      BY <1>9, <3>1, Zenon
  <2>3. a \in Seq(T) /\ Len(a) = 4 + n /\ \A j \in 1 .. n : a[4 + j] = r[j]
    BY <1>6, <1>11, <2>1, Zenon
  <2>4. b \in Seq(T) /\ Len(b) = 4 + m /\ \A j \in 1 .. m : b[4 + j] = s[j]
    BY <1>6, <1>11, <2>2, Zenon
  <2> QED
    BY <2>3, <2>4
<1>13. PICK f : f = Front(a)
  OBVIOUS
<1>14. PICK g : g = Front(b)
  OBVIOUS
<1>16. f = SubSeq(a, 1, n + 3) /\ g = SubSeq(b, 1, m + 3)
  <2>1. Len(a) - 1 = n + 3 /\ Len(b) - 1 = m + 3
    <3>1. Len(a) = 4 + n /\ Len(b) = 4 + m
      BY <1>12, Zenon
    <3> QED
      BY <1>11, <3>1
  <2>2. Front(a) = SubSeq(a, 1, n + 3)
    BY <2>1 DEF Front
  <2>3. Front(b) = SubSeq(b, 1, m + 3)
    BY <2>1 DEF Front
  <2> QED
    BY <1>13, <1>14, <2>2, <2>3
<1>17. /\ f \in Seq(T) /\ Len(f) = n + 3 /\ \A j \in 1 .. n + 3 : f[j] = a[j]
       /\ g \in Seq(T) /\ Len(g) = m + 3 /\ \A j \in 1 .. m + 3 : g[j] = b[j]
  BY <1>11, <1>12, <1>16
<1>18. f = g
  BY <1>6, <1>10, <1>13, <1>14, <1>17, SameFront, Zenon
<1>19. n = m
  <2>1. n + 3 = m + 3
    BY <1>17, <1>18, Zenon
  <2> QED
    BY <2>1
<1>20. ASSUME NEW j \in 1 .. n - 1 PROVE r[j] = s[j]
  <2>1. PICK k \in 1 .. n + 3 : k = 4 + j /\ j \in 1 .. n /\ j \in 1 .. m /\ k \in 1 .. m + 3
    BY <1>11, <1>19
  <2> QED
    BY <1>12, <1>17, <1>18, <2>1, Zenon
<1>21. Len(Rest(p)) = Len(Rest(q))
  BY <1>2, <1>3, <1>11, <1>19
<1>22. \A j \in 1 .. Len(Rest(p)) - 1 : Rest(p)[j] = Rest(q)[j]
  BY <1>2, <1>3, <1>11, <1>20
<1> QED
  BY <1>21, <1>22, RestTells, Zenon

\* A file named on the command line is one word.
LEMMA WordNotPlain ==
  ASSUME NEW p, Len(p) = 1
  PROVE  ~Plain(p)
<1>1. PICK r : r = Reverse(<<".", "yf">>)
  OBVIOUS
<1>2. r = [k \in 1 .. 2 |-> <<".", "yf">>[2 - k + 1]]
  BY <1>1 DEF Reverse
<1>3. Len(r) = 2
  BY <1>2
<1>4. PICK b : b = Reverse(p)
  OBVIOUS
<1>5. b = [k \in 1 .. 1 |-> p[1 - k + 1]]
  BY <1>4 DEF Reverse
<1>6. Len(b) = 1
  BY <1>5
<1>7. ~(Len(r) <= Len(b))
  BY <1>3, <1>6
<1> QED
  BY <1>1, <1>4, <1>7, Zenon DEF Plain, IsYf, IsSuffix, IsPrefix
-----------------------------------------------------------------------------
(* main *)

\* The files of an accepted line are the words in it.
LEMMA FilesAreWords ==
  ASSUME NEW v \in Argvs, NEW a \in ArgsOf(v), Effects(v, a)
  PROVE  Range(a.files) = {v[w] : w \in Words(v)}
<1>1. Len(v) \in Nat /\ DOMAIN v = 1 .. Len(v)
  BY Line
<1>2. Words(v) \subseteq 1 .. Len(v)
  BY <1>1 DEF Words
<1>3. IsFiniteSet(1 .. Len(v))
  BY <1>1, FS_Interval
<1>4. IsFiniteSet(Words(v)) /\ Cardinality(Words(v)) \in Nat
  BY <1>2, <1>3, FS_Subset, FS_CardinalityType
<1> DEFINE Upto(w) == {u \in Words(v) : u <= w}
           rank == [w \in Words(v) |-> Cardinality(Upto(w))]
<1>5. PICK f : f = a.files
  OBVIOUS
<1>6. PICK n \in Nat : n = Cardinality(Words(v))
  BY <1>4
<1>7. Len(f) = n /\ \A w \in Words(v) : f[rank[w]] = v[w]
  BY <1>5, <1>6 DEF Effects
<1>8. \A w \in Words(v) : IsFiniteSet(Upto(w)) /\ Cardinality(Upto(w)) \in Nat
                          /\ Cardinality(Upto(w)) <= n
  <2> SUFFICES ASSUME NEW w \in Words(v)
               PROVE  IsFiniteSet(Upto(w)) /\ Cardinality(Upto(w)) \in Nat
                      /\ Cardinality(Upto(w)) <= n
    OBVIOUS
  <2>1. Upto(w) \in SUBSET Words(v)
    OBVIOUS
  <2> HIDE DEF Upto
  <2> QED
    BY <1>4, <1>6, <2>1, FS_Subset, FS_CardinalityType
<1>9. \A w \in Words(v) : Cardinality(Upto(w)) # 0
  <2> SUFFICES ASSUME NEW w \in Words(v) PROVE Cardinality(Upto(w)) # 0
    OBVIOUS
  <2>1. w \in Upto(w)
    BY <1>2
  <2>2. Upto(w) # {}
    BY <2>1
  <2> HIDE DEF Upto
  <2> QED
    BY <1>8, <2>2, FS_EmptySet
<1>10. \A w \in Words(v) : rank[w] = Cardinality(Upto(w))
  OBVIOUS
<1>11. \A x, y \in Words(v) : rank[x] = rank[y] => x = y
  <2>1. ASSUME NEW x \in Words(v), NEW y \in Words(v), x < y PROVE rank[x] # rank[y]
    <3>1. x \in 1 .. Len(v) /\ y \in 1 .. Len(v)
      BY <1>2
    <3>2. Upto(x) \in SUBSET Upto(y)
      BY <1>2, <2>1, <3>1
    <3>3. y \in Upto(y) /\ y \notin Upto(x)
      BY <2>1, <3>1
    <3>4. IsFiniteSet(Upto(y))
      BY <1>8
    <3> HIDE DEF Upto
    <3>5. Cardinality(Upto(x)) # Cardinality(Upto(y))
      BY <3>2, <3>3, <3>4, FS_Subset
    <3> QED
      BY <1>10, <3>5
  <2>2. \A x, y \in Words(v) : x < y \/ y < x \/ x = y
    BY <1>1, <1>2
  <2> HIDE DEF rank
  <2> QED
    BY <2>1, <2>2
<1>12. rank \in Injection(Words(v), 1 .. n)
  <2>1. \A w \in Words(v) : Cardinality(Upto(w)) \in 1 .. n
    <3> HIDE DEF Upto
    <3> QED
      BY <1>8, <1>9
  <2>2. rank \in [Words(v) -> 1 .. n]
    <3> HIDE DEF Upto
    <3> QED
      BY <2>1
  <2> HIDE DEF rank
  <2> QED
    BY <1>11, <2>2 DEF Injection, IsInjective
<1>13. IsFiniteSet(1 .. n) /\ Cardinality(1 .. n) = n
  BY FS_Interval
<1>14. rank \in Surjection(Words(v), 1 .. n)
  <2> HIDE DEF rank
  <2> QED
    BY <1>6, <1>12, <1>13, FS_Injection
<1> HIDE DEF rank
<1>15. /\ \A k \in 1 .. n : \E w \in Words(v) : rank[w] = k
       /\ \A w \in Words(v) : rank[w] \in 1 .. n
  BY <1>12, <1>14 DEF Surjection, Injection
<1>16. DOMAIN f = 1 .. n
  <2>1. f \in Seq({v[j] : j \in DOMAIN v} \cup {None})
    BY <1>5 DEF ArgsOf, Arg
  <2>2. PICK S : f \in Seq(S)
    BY <2>1
  <2> QED
    BY <1>7, <2>2
<1>17. \A x : x \in Range(f) <=> \E w \in Words(v) : x = v[w]
  <2>1. \A x : x \in Range(f) <=> \E k \in 1 .. n : x = f[k]
    BY <1>16 DEF Range
  <2>2. ASSUME NEW w \in Words(v) PROVE v[w] \in Range(f)
    BY <1>7, <1>15, <2>1, Zenon
  <2>3. ASSUME NEW x \in Range(f) PROVE \E w \in Words(v) : x = v[w]
    <3>1. PICK k \in 1 .. n : x = f[k]
      BY <2>1
    <3>2. PICK w \in Words(v) : rank[w] = k
      BY <1>15
    <3> QED
      BY <1>7, <3>1, <3>2, Zenon
  <2> QED
    BY <2>2, <2>3, Zenon
<1> QED
  BY <1>5, <1>17

\* Who has come how far.
OrderInv ==
  /\ scan # "idle" => parse = "parsed" /\ ShouldCompile /\ (args.project <=> scan # "named")
  /\ scan = "named" => DOMAIN units = {<<w>> : w \in Range(args.files)}
  /\ exit \in {0, 1, None}
  /\ exit # None => parse = "parsed"
  /\ exit # None /\ ShouldCompile => args.project /\ scan \in {"idle", "failed"}
  /\ exit = 0 => args.wanted_output \in InfoOptions

Inv == ArgsInv /\ ScanInv /\ UnitsInv /\ OrderInv

\* It holds before the first argument is read.
LEMMA InitAll == Init => Inv
<1> SUFFICES ASSUME Init PROVE Inv
  OBVIOUS
<1>1. ArgsInit /\ scan = "idle" /\ units = <<>> /\ exit = None
  BY DEF Init, ScanInit
<1>2. ArgsInv
  BY <1>1, InitInv
<1>3. ScanInv
  BY <1>1 DEF ScanInv, ScanRight
<1>4. UnitsInv
  BY <1>1 DEF UnitsInv
<1>5. OrderInv
  BY <1>1, StartupAssumption DEF OrderInv
<1> QED
  BY <1>2, <1>3, <1>4, <1>5 DEF Inv

\* Nothing changes for the parser while its variables stay.
LEMMA SameArgs == ArgsInv /\ UNCHANGED argsVars => ArgsInv'
BY DEF ArgsInv, ParsingInv, ParsedRight, ShouldCompile, argsVars

\* Nor for the scan.
LEMMA SameScan == ScanInv /\ UNCHANGED scanVars => ScanInv'
<1> SUFFICES ASSUME ScanInv, src' = src, dirs' = dirs, units' = units, scan' = scan
             PROVE  ScanInv'
  BY DEF scanVars
<1>1. \A V : Visited(V) => Visited(V)'
  BY Zenon DEF Visited, Pending
<1>2. ScanningInv => ScanningInv'
  BY <1>1, Zenon DEF ScanningInv
<1>3. ScanRight => ScanRight'
  BY Zenon DEF ScanRight, Files, Unscannable, NoDot
<1> QED
  BY <1>2, <1>3 DEF ScanInv

\* Nor for the units.
LEMMA SameUnits == UnitsInv /\ UNCHANGED scanVars => UnitsInv'
BY DEF UnitsInv, scanVars

\* Before the last argument nothing else happens.
LEMMA ParseStep == Inv /\ Parse => Inv'
<1> SUFFICES ASSUME Inv, Parse PROVE Inv'
  OBVIOUS
<1>1. ArgsInv'
  BY NameStep, TypeStep, InfoStep, ValueOptionStep, ProjectStep, JustGenStep, StopEarlyStep,
     BenchmarkStep, DumpProjfilesStep, DumpCommandsStep, SimulateRunStep, UnknownStep,
     FileStep, EndStep
     DEF Inv, Parse, ParseArgs
<1>2. parse = "parsing"
  BY DEF Parse, ParseArgs, CompilerName, CompilerType, Info, ValueOption, Project, JustGen,
         StopEarly, Benchmark, DumpProjfiles, DumpCommands, SimulateRun, UnknownOption, AddFile,
         EndOfArgs, Option, Reading
<1>3. UNCHANGED scanVars /\ exit' = exit
  BY DEF Parse
<1>4. scan = "idle" /\ exit = None
  BY <1>2 DEF Inv, OrderInv
<1>5. OrderInv'
  BY <1>3, <1>4, StartupAssumption DEF OrderInv, scanVars
<1> QED
  BY <1>1, <1>3, <1>5, SameScan, SameUnits DEF Inv

\* A message is printed.
LEMMA OutputInfoStep == Inv /\ OutputInfo => Inv'
<1> SUFFICES ASSUME Inv, OutputInfo PROVE Inv'
  OBVIOUS
<1>1. UNCHANGED argsVars /\ UNCHANGED scanVars
  BY DEF OutputInfo
<1>2. parse = "parsed" /\ ~ShouldCompile
      /\ exit' = IF args.wanted_output \in InfoOptions THEN 0 ELSE 1
  BY DEF OutputInfo
<1>3. scan = "idle"
  BY <1>2 DEF Inv, OrderInv
<1>4. OrderInv'
  BY <1>1, <1>2, <1>3, StartupAssumption DEF OrderInv, ShouldCompile, argsVars, scanVars
<1> QED
  BY <1>1, <1>4, SameArgs, SameScan, SameUnits DEF Inv

\* There is no name for the project.
LEMMA NoProjectNameStep == Inv /\ NoProjectName => Inv'
<1> SUFFICES ASSUME Inv, NoProjectName PROVE Inv'
  OBVIOUS
<1>1. UNCHANGED argsVars /\ UNCHANGED scanVars
  BY DEF NoProjectName
<1>2. parse = "parsed" /\ args.project /\ scan = "idle" /\ exit' = 1
  BY DEF NoProjectName
<1>3. OrderInv'
  BY <1>1, <1>2, StartupAssumption DEF OrderInv, ShouldCompile, argsVars, scanVars
<1> QED
  BY <1>1, <1>3, SameArgs, SameScan, SameUnits DEF Inv

\* The scan starts.
LEMMA CompileProjectStep == Inv /\ CompileProject => Inv'
<1> SUFFICES ASSUME Inv, CompileProject PROVE Inv'
  OBVIOUS
<1>1. parse = "parsed" /\ ShouldCompile /\ args.project /\ exit = None /\ exit' = exit
      /\ UNCHANGED argsVars
  BY DEF CompileProject
<1>2. PICK folder \in Folders : FindProjfiles(folder)
  BY DEF CompileProject
<1>3. scan = "idle" /\ units' = units /\ scan' \in {"failed", "scanning"}
  BY <1>2 DEF FindProjfiles
<1>4. DOMAIN units = {}
  BY <1>3 DEF Inv, UnitsInv
<1>5. ScanInv'
  BY <1>2, <1>4, FindStep
<1>6. UnitsInv'
  BY <1>3, <1>4 DEF UnitsInv
<1>7. OrderInv'
  BY <1>1, <1>3, StartupAssumption DEF OrderInv, ShouldCompile, argsVars
<1> QED
  BY <1>1, <1>5, <1>6, <1>7, SameArgs DEF Inv

\* The scan goes on, and the units keep their names.
LEMMA ScanStep == Inv /\ Scan => Inv'
<1> SUFFICES ASSUME Inv, Scan PROVE Inv'
  OBVIOUS
<1>1. UNCHANGED argsVars /\ exit' = exit /\ scan = "scanning" /\ Scanning
      /\ (EnterFolder \/ FoundFile \/ OtherEntry \/ FolderDone)
  BY DEF Scan, ScanFolder, Scanning
<1>2. ScanInv'
  BY <1>1, EnterStep, FoundStep, OtherStep, DoneStep DEF Inv
<1>3. scan' \in {"scanning", "failed", "crashed", "scanned"}
  BY <1>1 DEF EnterFolder, Fail, FoundFile, OtherEntry, FolderDone
<1>4. UnitsInv'
  <2>1. CASE units' = units
    <3>1. \A p \in DOMAIN units :
       Rooted(p) /\ units[p].file_prefix \in PossiblePrefixes(p) /\ units[p].sym_file = SymFileName(p)
      BY <1>1, Zenon DEF Inv, UnitsInv
    <3> QED
      BY <1>3, <2>1, <3>1 DEF UnitsInv
  <2>2. CASE FoundFile /\ units' # units
    <3>1. PICK e \in Here.left, rest \in Unwritten, u \in BOOLEAN :
            AddUnit(Truncated(Sub(Here.path, e.name)), rest, u)
      BY <2>2 DEF FoundFile
    <3>2. ScanningInv
      BY <1>1 DEF Inv, ScanInv
    <3>3. Rooted(Path(e)) /\ Sub(Here.path, e.name) = Path(e)
      BY <3>2, EntryHere
    <3>4. PICK path : path = Truncated(Path(e)) /\ Rooted(path)
      BY <3>3, CutPath, StartupAssumption
    <3>5. AddUnit(path, rest, u)
      BY <3>1, <3>3, <3>4
    <3>6. /\ DOMAIN units' = DOMAIN units \cup {path}
          /\ units'[path] = Unit(IdentifierPrefix(path, rest), SymFileName(path), ~u)
          /\ \A p \in DOMAIN units : p # path => units'[p] = units[p]
      BY <3>5 DEF AddUnit
    <3>7. \A p \in DOMAIN units :
       Rooted(p) /\ units[p].file_prefix \in PossiblePrefixes(p) /\ units[p].sym_file = SymFileName(p)
      BY <1>1, Zenon DEF Inv, UnitsInv
    <3>8. /\ units'[path].file_prefix \in PossiblePrefixes(path)
          /\ units'[path].sym_file = SymFileName(path)
      BY <3>6 DEF Unit, PossiblePrefixes
    <3>9. \A p \in DOMAIN units' :
            /\ Rooted(p) /\ units'[p].file_prefix \in PossiblePrefixes(p)
            /\ units'[p].sym_file = SymFileName(p)
      BY <3>4, <3>6, <3>7, <3>8
    <3> QED
      BY <1>3, <3>9 DEF UnitsInv
  <2>3. units' = units \/ FoundFile
    BY <1>1 DEF EnterFolder, Fail, OtherEntry, FolderDone
  <2> QED
    BY <2>1, <2>2, <2>3
<1>5. OrderInv'
  BY <1>1, <1>3 DEF Inv, OrderInv, ShouldCompile, argsVars
<1> QED
  BY <1>1, <1>2, <1>4, <1>5, SameArgs DEF Inv

\* The scan's failure becomes the exit code.
LEMMA ProjectFailsStep == Inv /\ ProjectFails => Inv'
<1> SUFFICES ASSUME Inv, ProjectFails PROVE Inv'
  OBVIOUS
<1>1. UNCHANGED argsVars /\ UNCHANGED scanVars /\ scan = "failed" /\ exit' = 1
  BY DEF ProjectFails
<1>2. OrderInv'
  BY <1>1, StartupAssumption DEF Inv, OrderInv, ShouldCompile, argsVars, scanVars
<1> QED
  BY <1>1, <1>2, SameArgs, SameScan, SameUnits DEF Inv

\* The words of the line become units.
LEMMA CompileFilesStep == Inv /\ CompileFiles => Inv'
<1> SUFFICES ASSUME Inv, CompileFiles PROVE Inv'
  OBVIOUS
<1>1. parse = "parsed" /\ ShouldCompile /\ ~args.project /\ scan = "idle" /\ scan' = "named"
      /\ UNCHANGED argsVars /\ exit' = exit
      /\ units' = [name \in {<<w>> : w \in Range(args.files)} |-> Unit(<<>>, <<>>, TRUE)]
  BY DEF CompileFiles
<1>2. ScanInv'
  BY <1>1 DEF ScanInv, ScanRight
<1>3. DOMAIN units' = {<<w>> : w \in Range(args.files)}
      /\ \A p \in DOMAIN units' : units'[p] = Unit(<<>>, <<>>, TRUE)
  BY <1>1
<1>4. UnitsInv'
  <2>1. \A p \in DOMAIN units' : Len(p) = 1
    BY <1>3
  <2>2. \A p \in DOMAIN units' : units'[p].parse_anew
    BY <1>3 DEF Unit
  <2> QED
    BY <1>1, <2>1, <2>2 DEF UnitsInv
<1>5. exit = None
  BY <1>1 DEF Inv, OrderInv
<1>6. args' = args /\ parse' = parse
  BY <1>1 DEF argsVars
<1>7. OrderInv'
  BY <1>1, <1>3, <1>5, <1>6, StartupAssumption DEF OrderInv, ShouldCompile
<1> QED
  BY <1>1, <1>2, <1>4, <1>7, SameArgs DEF Inv

\* The parser refuses what cannot become acceptable, and nothing else; the scan loses no entry; and
\* files are collected only for a line that was accepted (main, yf_parse_args, yf_folder_scan,
\* yf_compile_files).
THEOREM Inductive == Spec => []Inv
<1>1. Inv /\ [Next]_vars => Inv'
  <2> SUFFICES ASSUME Inv, [Next]_vars PROVE Inv'
    OBVIOUS
  <2>1. CASE UNCHANGED vars
    <3>1. UNCHANGED argsVars /\ UNCHANGED scanVars /\ exit' = exit
      BY <2>1 DEF vars
    <3>2. OrderInv'
      BY <3>1 DEF Inv, OrderInv, ShouldCompile, argsVars, scanVars
    <3> QED
      BY <3>1, <3>2, SameArgs, SameScan, SameUnits DEF Inv
  <2>2. Finished => UNCHANGED vars
    BY DEF Finished
  <2> QED
    BY <2>1, <2>2, ParseStep, OutputInfoStep, NoProjectNameStep, CompileProjectStep, ScanStep,
       ProjectFailsStep, CompileFilesStep DEF Next
<1> QED
  BY <1>1, InitAll, PTL DEF Spec

\* A command line is accepted exactly when, read as a whole, it is acceptable, and then it has its
\* effects, whatever the argument lists are (yf_parse_args).
THEOREM Parsing == Spec => []ParsedRight
<1>1. Inv => ParsedRight
  BY DEF Inv, ArgsInv
<1> QED
  BY <1>1, Inductive, PTL

\* In any tree, whatever order its entries come in, the scan finds every file or fails as it should
\* (yf_find_projfiles, yf_folder_scan, yf_add_file).
THEOREM Scanned == Spec => []ScanRight
<1>1. Inv => ScanRight
  BY DEF Inv, ScanInv
<1> QED
  BY <1>1, Inductive, PTL

\* Of any number of files, in folders however deep, no two with plain names share a symbol file or,
\* as far as output_file has room for it, a C file; and whatever the memory behind the prefixes holds,
\* two of them share one only if that is where one of them was cut (yfd_get_identifier_prefix,
\* yfd_get_sym_file_name, create_output_file_name).
THEOREM Distinct == Spec => []NamesDistinct
<1>1. Inv => NamesDistinct
  <2> SUFFICES ASSUME Inv, NEW p \in DOMAIN units, NEW q \in DOMAIN units, Plain(p), Plain(q), p # q
               PROVE  /\ CutInPath(p) /\ CutInPath(q) =>
                           units[p].file_prefix # units[q].file_prefix
                      /\ units[p].sym_file # units[q].sym_file
                      /\ OutputFile(p) # OutputFile(q)
    BY Zenon DEF NamesDistinct
  <2>1. scan # "named"
    <3>1. scan = "named" => Len(p) = 1
      BY DEF Inv, UnitsInv
    <3> QED
      BY <3>1, WordNotPlain
  <2>2. /\ Rooted(p) /\ units[p].file_prefix \in PossiblePrefixes(p)
        /\ units[p].sym_file = SymFileName(p)
    BY <2>1, Zenon DEF Inv, UnitsInv
  <2>3. /\ Rooted(q) /\ units[q].file_prefix \in PossiblePrefixes(q)
        /\ units[q].sym_file = SymFileName(q)
    BY <2>1, Zenon DEF Inv, UnitsInv
  <2>4. ASSUME CutInPath(p), CutInPath(q) PROVE units[p].file_prefix # units[q].file_prefix
    <3>1. units[p].file_prefix = UpToDot(Dotted(p))
      BY <2>2, <2>4, CutIsOwn DEF CutInPath
    <3>2. units[q].file_prefix = UpToDot(Dotted(q))
      BY <2>3, <2>4, CutIsOwn DEF CutInPath
    <3> QED
      BY <2>2, <2>3, <3>1, <3>2, PrefixTells
  <2>5. SymFileName(p) # SymFileName(q)
    BY <2>2, <2>3, SymTells
  <2>6. OutputFile(p) # OutputFile(q)
    BY <2>2, <2>3, OutputTells
  <2> QED
    BY <2>2, <2>3, <2>4, <2>5, <2>6, Zenon
<1> QED
  BY <1>1, Inductive, PTL

\* What is compiled is what was asked for (main, yf_compile_files, yf_output_info).
THEOREM Collected == Spec => []UnitsRight
<1>1. Inv => UnitsRight
  <2> SUFFICES ASSUME Inv PROVE UnitsRight
    OBVIOUS
  <2>1. /\ scan # "idle" => parse = "parsed" /\ ShouldCompile /\ (args.project <=> scan # "named")
        /\ scan = "named" => DOMAIN units = {<<w>> : w \in Range(args.files)}
        /\ exit \in {0, 1, None}
        /\ exit # None => parse = "parsed"
        /\ exit # None /\ ShouldCompile => args.project /\ scan \in {"idle", "failed"}
        /\ exit = 0 => args.wanted_output \in InfoOptions
    BY DEF Inv, OrderInv
  <2>2. scan # "idle" => Acceptable(argv) /\ Effects(argv, args)
    BY <2>1 DEF Inv, ArgsInv, ParsedRight
  <2>3. scan = "named" => /\ DOMAIN units = {<<argv[w]>> : w \in Words(argv)}
                          /\ Words(argv) # {}
                          /\ \A u \in DOMAIN units : units[u].parse_anew
    <3> SUFFICES ASSUME scan = "named"
                 PROVE  /\ DOMAIN units = {<<argv[w]>> : w \in Words(argv)}
                        /\ Words(argv) # {}
                        /\ \A u \in DOMAIN units : units[u].parse_anew
      OBVIOUS
    <3>1. Acceptable(argv) /\ Effects(argv, args) /\ ~args.project
          /\ DOMAIN units = {<<w>> : w \in Range(args.files)}
      BY <2>1, <2>2
    <3>2. argv \in Argvs /\ args \in ArgsOf(argv)
      BY DEF Inv, ArgsInv
    <3>3. Range(args.files) = {argv[w] : w \in Words(argv)}
      BY <3>1, <3>2, FilesAreWords
    <3>4. Words(argv) # {}
      BY <3>1, Zenon DEF Acceptable, Effects
    <3>5. \A u \in DOMAIN units : units[u].parse_anew
      BY DEF Inv, UnitsInv
    <3> QED
      BY <3>1, <3>3, <3>4, <3>5
  <2>4. exit = 0 => \E o \in InfoOptions : Given(argv, o)
    BY <2>1 DEF Inv, ArgsInv
  <2>5. exit # None => scan \in {"idle", "failed"}
    BY <2>1
  <2> QED
    BY <2>2, <2>3, <2>4, <2>5 DEF UnitsRight
<1> QED
  BY <1>1, Inductive, PTL

\* An error in the arguments is never forgotten (yf_set_error, yf_check_action).
THEOREM Sticking == Spec => ErrorSticks
<1>1. Inv /\ [Next]_vars =>
        [args.error => args'.error /\ args'.wanted_output = args.wanted_output]_argsVars
  <2> SUFFICES ASSUME ArgsInv, ParseArgs, args.error
               PROVE  args'.error /\ args'.wanted_output = args.wanted_output
    <3>1. Next \/ UNCHANGED vars => ParseArgs \/ UNCHANGED argsVars
      BY DEF Next, Parse, OutputInfo, NoProjectName, CompileProject, Scan, ProjectFails,
             CompileFiles, Finished, vars
    <3> QED
      BY <3>1 DEF Inv
  <2>1. parse = "parsing"
    BY DEF ParseArgs, CompilerName, CompilerType, Info, ValueOption, Project, JustGen, StopEarly,
           Benchmark, DumpProjfiles, DumpCommands, SimulateRun, UnknownOption, AddFile, EndOfArgs,
           Option, Reading
  <2>2. args \in ArgsOf(argv) /\ args.wanted_output = "error" /\ args.error = TRUE
    BY <2>1 DEF ArgsInv, ParsingInv, ArgsOf
  <2> DEFINE Kept(b) == b.error = TRUE /\ b.wanted_output = "error"
  <2>3. \A b \in ArgsOf(argv) : Kept(SetError(b))
    BY ErrorType
  <2>4. CASE CompilerName
    <3>1. Kept([args EXCEPT !.compiler = argv[i]])
      BY <2>2 DEF ArgsOf
    <3> QED
      BY <2>2, <2>3, <2>4, <3>1 DEF CompilerName, Continue, Stop
  <2>5. CASE CompilerType
    <3>1. Kept([args EXCEPT !.compiler_class = argv[i]])
      BY <2>2 DEF ArgsOf
    <3> QED
      BY <2>2, <2>3, <2>5, <3>1 DEF CompilerType, Continue, Stop
  <2>6. CASE Info
    <3>1. \A o : CheckAction(args, o) = SetError(args)
      BY <2>2 DEF CheckAction
    <3> QED
      BY <2>2, <2>3, <2>6, <3>1 DEF Info, Continue
  <2>7. CASE ValueOption
    BY <2>2, <2>3, <2>7 DEF ValueOption, Continue, Stop
  <2>8. CASE Project
    <3>1. PICK b : b = [args EXCEPT !.project = TRUE]
      OBVIOUS
    <3>2. b \in ArgsOf(argv) /\ Kept(b)
      BY <2>2, <3>1 DEF ArgsOf
    <3>3. Continue(b, None) \/ Stop(SetError(b))
      BY <2>8, <3>1 DEF Project
    <3> QED
      BY <2>2, <2>3, <3>2, <3>3 DEF Continue, Stop
  <2>9. CASE JustGen
    BY <2>2, <2>9 DEF JustGen, Continue, ArgsOf
  <2>10. CASE StopEarly
    <3>1. PICK o \in DOMAIN StageFlag :
            args' = SetError(args) \/ args' = [args EXCEPT ![StageFlag[o]] = TRUE]
      BY <2>10 DEF StopEarly, Continue, Stop
    <3>2. StageFlag[o] \in {"tdump", "cstdump", "just_semantics"}
      BY Stages
    <3>3. Kept([args EXCEPT ![StageFlag[o]] = TRUE])
      BY <2>2, <3>2 DEF ArgsOf
    <3> QED
      BY <2>2, <2>3, <3>1, <3>3
  <2>11. CASE Benchmark
    BY <2>2, <2>3, <2>11 DEF Benchmark, Stop
  <2>12. CASE DumpProjfiles
    BY <2>2, <2>12 DEF DumpProjfiles, Continue, ArgsOf
  <2>13. CASE DumpCommands
    BY <2>2, <2>13 DEF DumpCommands, Continue, ArgsOf
  <2>14. CASE SimulateRun
    BY <2>2, <2>14 DEF SimulateRun, Continue, ArgsOf
  <2>15. CASE UnknownOption
    BY <2>2, <2>3, <2>15 DEF UnknownOption, Stop
  <2>16. CASE AddFile
    BY <2>2, <2>3, <2>16 DEF AddFile, Stop
  <2>17. CASE EndOfArgs
    BY <2>2, <2>17 DEF EndOfArgs, Stop
  <2> QED
    BY <2>2, <2>4, <2>5, <2>6, <2>7, <2>8, <2>9, <2>10, <2>11, <2>12, <2>13, <2>14, <2>15, <2>16,
       <2>17 DEF ParseArgs
<1> QED
  BY <1>1, Inductive, PTL DEF Spec, ErrorSticks
=============================================================================
