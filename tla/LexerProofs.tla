------------------------------ MODULE LexerProofs ------------------------------
(***************************************************************************)
(* Proofs about Lexer for any texts, keywords, size of a token's buffer    *)
(* and size of the buffer of tokens put back.                              *)
(*                                                                         *)
(* Putting back what was just read restores the reader's position, line    *)
(* and column.  The exception is the end of the text, which is read        *)
(* without moving on; what is put back after it is followed through the    *)
(* tokens the client has and the tokens it put back.                       *)
(*                                                                         *)
(* The tokens themselves are compared with a definition by recursion on    *)
(* the text: the tokens given, followed by those the definition finds in   *)
(* the text that is left, are those it finds in the whole text.            *)
(***************************************************************************)
EXTENDS Lexer, TLAPS, SequenceTheorems, WellFoundedInduction, FiniteSetTheorems

Kinds == {"none", EOF, "keyword", "identifier", "literal", "namespace", "colon", "separator", "operator"}

Tokens == [kind : Kinds, data : Seq(Chars \union {EOF}), line : Nat, column : Nat]

Readers == [pos : 1 .. Len(src) + 1, line : Nat \ {0}, column : Nat \ {0}, prev_col : Nat]

\* Types beyond TypeOK that the proofs need.
Types ==
  /\ src \in Seq(Chars)
  /\ in \in Readers
  /\ pc \in {"idle", "blanks", "comment?", "comment", "token", "in_token"} \union Failed
  /\ skipped \in BOOLEAN
  /\ token \in Tokens
  /\ unlexed \in Seq(Tokens) /\ held \in Seq(Tokens) /\ lexed \in Seq(Tokens)

\* The two buffers are not overrun.
Bounded == Len(token.data) < MaxToken /\ Len(unlexed) =< UnlexCap

\* The lexer is only at work when nothing is put back.
Stream == /\ held \o Reverse(unlexed) = lexed
          /\ pc # "idle" => unlexed = <<>>

\* A token that has begun has a first character, and has read the end of the text only if nothing ends it.
Begun ==
  pc = "in_token" =>
    /\ token.data # <<>>
    /\ EOF \in ToSet(token.data) => EndTypes(token.data[1]) = {}

\* The end of the text has been given to the client.
Finished == pc = "idle" /\ lexed # <<>> /\ Last(lexed).data = <<EOF>>

\* The line and the column of a reader are those of its position.
Right(r) == r.line = Where(r.pos).line /\ r.column = Where(r.pos).column

\* The reader's line and column are right unless it has read the end of the text for good.
Located ==
  \/ pc \in Failed \/ Finished
  \/ pc = "in_token" /\ EOF \in ToSet(token.data)
  \/ Right(in)

IInv == Types /\ Bounded /\ Stream /\ Begun /\ Located

-------------------------------------------------------------------------------
(* Sequences *)

\* The last element and what is before it.
LEMMA FrontLast ==
  ASSUME NEW S, NEW s \in Seq(S), s # <<>>
  PROVE  /\ Front(s) \in Seq(S) /\ Last(s) \in S /\ s = Append(Front(s), Last(s))
         /\ Len(Front(s)) = Len(s) - 1
<1>1. Len(s) \in Nat /\ Len(s) > 0
  BY EmptySeq
<1>2. \A i \in 1 .. Len(s) - 1 : s[i] \in S
  BY <1>1, ElementOfSeq
<1>3. /\ Front(s) \in Seq(S) /\ Len(Front(s)) = Len(s) - 1
      /\ \A i \in 1 .. Len(s) - 1 : Front(s)[i] = s[i]
  <2>1. /\ SubSeq(s, 1, Len(s) - 1) \in Seq(S)
        /\ Len(SubSeq(s, 1, Len(s) - 1)) = IF 1 =< Len(s) - 1 THEN Len(s) - 1 - 1 + 1 ELSE 0
        /\ \A i \in 1 .. Len(s) - 1 - 1 + 1 : SubSeq(s, 1, Len(s) - 1)[i] = s[1 + i - 1]
    BY <1>1, <1>2, SubSeqProperties
  <2>2. \A i \in 1 .. Len(s) - 1 : 1 + i - 1 = i
    BY <1>1
  <2>3. Len(s) - 1 - 1 + 1 = Len(s) - 1 /\ (1 =< Len(s) - 1 \/ Len(s) - 1 = 0)
    <3>1. \A n \in Nat : n > 0 => n - 1 - 1 + 1 = n - 1 /\ (1 =< n - 1 \/ n - 1 = 0)
      OBVIOUS
    <3> QED
      BY <1>1, <3>1, Zenon
  <2> QED
    BY <2>1, <2>2, <2>3, Zenon DEF Front
<1>4. Last(s) \in S
  BY <1>1, ElementOfSeq DEF Last
<1>5. /\ Append(Front(s), Last(s)) \in Seq(S) /\ Len(Append(Front(s), Last(s))) = Len(s)
      /\ \A i \in 1 .. Len(s) - 1 : Append(Front(s), Last(s))[i] = s[i]
      /\ Append(Front(s), Last(s))[Len(s)] = s[Len(s)]
  BY <1>1, <1>3, <1>4, AppendProperties DEF Last
<1>6. s = Append(Front(s), Last(s))
  BY <1>1, <1>5, SeqEqual
<1> QED
  BY <1>3, <1>4, <1>6

LEMMA ReverseSeq ==
  ASSUME NEW S, NEW s \in Seq(S)
  PROVE  /\ Reverse(s) \in Seq(S) /\ Len(Reverse(s)) = Len(s)
         /\ \A i \in 1 .. Len(s) : Reverse(s)[i] = s[Len(s) - i + 1]
<1>1. Len(s) \in Nat
  BY LenProperties
<1>2. \A i \in 1 .. Len(s) : s[Len(s) - i + 1] \in S
  BY <1>1, ElementOfSeq
<1>3. Reverse(s) \in [1 .. Len(s) -> S]
  BY <1>2 DEF Reverse
<1>4. Reverse(s) \in Seq(S)
  BY <1>1, <1>3, SeqDef
<1>5. DOMAIN Reverse(s) = 1 .. Len(s)
  BY DEF Reverse
<1>6. Len(Reverse(s)) = Len(s)
  BY <1>1, <1>4, <1>5, LenProperties
<1> QED
  BY <1>4, <1>6 DEF Reverse

\* What is put back last comes first.
LEMMA ReverseAppend ==
  ASSUME NEW S, NEW s \in Seq(S), NEW e \in S
  PROVE  Reverse(Append(s, e)) = <<e>> \o Reverse(s)
<1>1. Len(s) \in Nat /\ <<e>> \in Seq(S) /\ Len(<<e>>) = 1 /\ <<e>>[1] = e
  BY LenProperties
<1>2. PICK t : t = Append(s, e)
  OBVIOUS
<1>3. /\ t \in Seq(S) /\ Len(t) = Len(s) + 1
      /\ \A i \in 1 .. Len(s) : t[i] = s[i]
      /\ t[Len(s) + 1] = e
  BY <1>2, AppendProperties
<1> DEFINE l == Reverse(t)
           q == Reverse(s)
           r == <<e>> \o q
<1>4. /\ q \in Seq(S) /\ Len(q) = Len(s)
      /\ \A i \in 1 .. Len(s) : q[i] = s[Len(s) - i + 1]
  BY ReverseSeq
<1>5. /\ l \in Seq(S) /\ Len(l) = Len(s) + 1
      /\ \A i \in 1 .. Len(s) + 1 : l[i] = t[Len(s) + 1 - i + 1]
  BY <1>3, ReverseSeq
<1> HIDE DEF q
<1>6. /\ r \in Seq(S) /\ Len(r) = 1 + Len(s)
      /\ \A i \in 1 .. 1 + Len(s) : r[i] = IF i =< 1 THEN <<e>>[i] ELSE q[i - 1]
  BY <1>1, <1>4, ConcatProperties
<1> HIDE DEF l, r
<1>7. ASSUME NEW i \in 1 .. Len(s) + 1 PROVE l[i] = r[i]
  <2>1. CASE i = 1
    BY <1>1, <1>3, <1>5, <1>6, <2>1
  <2>2. CASE i # 1
    <3>1. /\ i - 1 \in 1 .. Len(s) /\ Len(s) - (i - 1) + 1 = Len(s) + 1 - i + 1
          /\ Len(s) + 1 - i + 1 \in 1 .. Len(s) /\ i \in 1 .. 1 + Len(s) /\ ~(i =< 1)
      BY <1>1, <2>2
    <3>2. r[i] = s[Len(s) + 1 - i + 1]
      BY <1>4, <1>6, <3>1, Zenon
    <3> QED
      BY <1>3, <1>5, <3>1, <3>2, Zenon
  <2> QED
    BY <2>1, <2>2
<1>8. l = r
  BY <1>1, <1>5, <1>6, <1>7, SeqEqual
<1> QED
  BY <1>2, <1>8 DEF l, r, q

LEMMA ReverseEmpty ==
  Reverse(<<>>) = <<>>
<1>1. <<>> \in Seq({})
  BY EmptySeq
<1> QED
  BY <1>1, ReverseSeq, EmptySeq

-------------------------------------------------------------------------------
(* Locations *)

\* A bounded set of natural numbers has a greatest element.
LEMMA Greatest ==
  ASSUME NEW n \in Nat, NEW S \in SUBSET (0 .. n), S # {}
  PROVE  Max(S) \in S /\ \A y \in S : Max(S) >= y
<1> DEFINE R == OpToRel(<, Nat)
           T == {n - y : y \in S}
<1>1. IsWellFoundedOn(R, Nat)
  BY NatLessThanWellFounded
<1>2. T \subseteq Nat /\ T # {}
  <2>1. ASSUME NEW y \in S PROVE n - y \in Nat
    <3>1. y \in 0 .. n
      OBVIOUS
    <3> QED
      BY <3>1
  <2>2. T \subseteq Nat
    BY <2>1, Zenon
  <2>3. T # {}
    BY Zenon
  <2> QED
    BY <2>2, <2>3
<1>3. \A x, y \in T : y < x => <<y, x>> \in R
  BY <1>2 DEF OpToRel
<1> HIDE DEF R
<1>4. \E x \in T : \A y \in T : <<y, x>> \notin R
  <2> HIDE DEF T
  <2> QED
    BY <1>1, <1>2, WFMin, Zenon
<1>5. PICK x \in T : \A y \in T : <<y, x>> \notin R
  BY <1>4
<1>6. \A y \in T : ~(y < x)
  BY <1>3, <1>5, Zenon
<1>7. PICK m \in S : x = n - m
  BY <1>5
<1>8. \A y \in S : m >= y
  <2> SUFFICES ASSUME NEW y \in S PROVE m >= y
    OBVIOUS
  <2>1. n - y \in T
    OBVIOUS
  <2>2. ~(n - y < n - m)
    BY <1>6, <1>7, <2>1
  <2> QED
    BY <2>2
<1> QED
  BY <1>8 DEF Max

\* Where yfl_getc and yfl_ungetc keep the lines: the breaks before a position.
Breaks(p) == {q \in 1 .. p - 1 : src[q] = "\n"}

LEMMA WhereIs ==
  \A p : /\ Where(p).line = 1 + Cardinality(Breaks(p))
         /\ Where(p).column = p - Max(Breaks(p) \union {0})
BY DEF Where, Breaks

\* The text begins at the first column of the first line.
LEMMA WhereFirst ==
  Where(1).line = 1 /\ Where(1).column = 1
<1>1. Breaks(1) = {}
  BY DEF Breaks
<1>2. Cardinality({}) = 0
  BY FS_EmptySet
<1>3. Max({0}) = 0
  BY DEF Max
<1> QED
  BY <1>1, <1>2, <1>3, WhereIs

\* A line break begins a line, and any other character is one column.
LEMMA WhereNext ==
  ASSUME src \in Seq(Chars), NEW p \in 1 .. Len(src), NEW n, n = p + 1
  PROVE  /\ Where(p).line \in Nat \ {0} /\ Where(p).column \in Nat \ {0}
         /\ Where(n).line = IF src[p] = "\n" THEN Where(p).line + 1 ELSE Where(p).line
         /\ Where(n).column = IF src[p] = "\n" THEN 1 ELSE Where(p).column + 1
<1>1. p \in Nat /\ p > 0
  BY LenProperties
<1>2. IsFiniteSet(Breaks(p)) /\ Cardinality(Breaks(p)) \in Nat
  <2>1. IsFiniteSet(1 .. p - 1) /\ Breaks(p) \subseteq 1 .. p - 1
    BY <1>1, FS_Interval DEF Breaks
  <2> QED
    BY <2>1, FS_Subset, FS_CardinalityType
<1>3. PICK M : M = Breaks(p) \union {0}
  OBVIOUS
<1>4. M \in SUBSET (0 .. p - 1) /\ M # {}
  BY <1>1, <1>3 DEF Breaks
<1>5. Max(M) \in M /\ \A y \in M : Max(M) >= y
  <2>1. p - 1 \in Nat
    BY <1>1
  <2> QED
    BY <1>4, <2>1, Greatest, Zenon
<1>6. Where(p).line = 1 + Cardinality(Breaks(p)) /\ Where(p).column = p - Max(M)
  BY <1>3, WhereIs
<1>7. Max(M) \in 0 .. p - 1
  BY <1>4, <1>5
<1>8. CASE src[p] = "\n"
  <2>1. Breaks(n) = Breaks(p) \union {p} /\ p \notin Breaks(p)
    BY <1>1, <1>8 DEF Breaks
  <2>2. Cardinality(Breaks(n)) = Cardinality(Breaks(p)) + 1
    BY <1>2, <2>1, FS_AddElement
  <2>3. Max(Breaks(n) \union {0}) = p
    <3>1. PICK N : N = Breaks(n) \union {0}
      OBVIOUS
    <3>2. N \in SUBSET (0 .. p) /\ p \in N
      BY <1>1, <2>1, <3>1 DEF Breaks
    <3>3. Max(N) \in N /\ Max(N) >= p
      BY <1>1, <3>2, Greatest, Zenon
    <3>4. \A m \in 0 .. p : m >= p => m = p
      BY <1>1
    <3>5. Max(N) = p
      BY <3>2, <3>3, <3>4, Zenon
    <3> QED
      BY <3>1, <3>5
  <2>4. Where(n).line = 1 + (Cardinality(Breaks(p)) + 1) /\ Where(n).column = n - p
    <3>1. /\ Where(n).line = 1 + Cardinality(Breaks(n))
          /\ Where(n).column = n - Max(Breaks(n) \union {0})
      BY WhereIs, Zenon
    <3> QED
      BY <2>2, <2>3, <3>1
  <2> QED
    BY <1>1, <1>2, <1>6, <1>8, <1>7, <2>4
<1>9. CASE src[p] # "\n"
  <2>1. Breaks(n) = Breaks(p)
    BY <1>1, <1>9 DEF Breaks
  <2>2. Where(n).line = Where(p).line /\ Where(n).column = n - Max(M)
    <3>1. /\ Where(n).line = 1 + Cardinality(Breaks(n))
          /\ Where(n).column = n - Max(Breaks(n) \union {0})
      BY WhereIs, Zenon
    <3> QED
      BY <1>3, <1>6, <2>1, <3>1
  <2> QED
    BY <1>1, <1>2, <1>6, <1>9, <1>7, <2>2
<1> QED
  BY <1>8, <1>9

-------------------------------------------------------------------------------
(* Reading and putting back *)

\* A reader that has the place of another.
SamePlace(r, s) == r.pos = s.pos /\ r.line = s.line /\ r.column = s.column

LEMMA CharIs ==
  ASSUME src \in Seq(Chars), NEW p \in 1 .. Len(src) + 1
  PROVE  /\ p = Len(src) + 1 => CharAt(p) = EOF
         /\ p # Len(src) + 1 => p \in 1 .. Len(src) /\ CharAt(p) = src[p] /\ CharAt(p) \in Chars
         /\ CharAt(p) \in Chars \union {EOF} /\ EOF \notin Chars
<1>1. Len(src) \in Nat
  BY LenProperties
<1>2. \A q \in 1 .. Len(src) : src[q] \in Chars
  BY ElementOfSeq
<1>3. EOF \notin Chars
  BY DEF Chars, EOF
<1>4. CASE p = Len(src) + 1
  BY <1>1, <1>3, <1>4 DEF CharAt
<1>5. CASE p # Len(src) + 1
  <2>1. p \in 1 .. Len(src)
    BY <1>1, <1>5
  <2> QED
    BY <1>2, <1>3, <1>5, <2>1 DEF CharAt
<1> QED
  BY <1>4, <1>5

LEMMA GetcIs ==
  ASSUME src \in Seq(Chars), NEW r \in Readers, NEW c, c = CharAt(r.pos), NEW g, g = Getc(r)
  PROVE  /\ g \in Readers
         /\ g.pos = IF c = EOF THEN r.pos ELSE r.pos + 1
         /\ g.line = IF c = "\n" THEN r.line + 1 ELSE r.line
         /\ g.column = IF c = "\n" THEN 1 ELSE r.column + 1
         /\ c = "\n" => g.prev_col = r.column
<1>1. Len(src) \in Nat
  BY LenProperties
<1>2. r.pos \in 1 .. Len(src) + 1 /\ r.line \in Nat \ {0} /\ r.column \in Nat \ {0} /\ r.prev_col \in Nat
  BY DEF Readers
<1>3. c # EOF => r.pos \in 1 .. Len(src)
  BY <1>2, CharIs
<1>4. g = [pos |-> IF c = EOF THEN r.pos ELSE r.pos + 1,
           line |-> IF c = "\n" THEN r.line + 1 ELSE r.line,
           column |-> IF c = "\n" THEN 1 ELSE r.column + 1,
           prev_col |-> IF c = "\n" THEN r.column ELSE r.prev_col]
  BY DEF Getc
<1>5. g \in Readers
  BY <1>1, <1>2, <1>3, <1>4 DEF Readers
<1> QED
  BY <1>4, <1>5

\* Putting back what was just read.
LEMMA UngetcIs ==
  ASSUME src \in Seq(Chars), NEW r \in Readers, NEW c, c = CharAt(r.pos), NEW g, g = Getc(r),
         NEW h \in Readers, SamePlace(h, g), c = "\n" => h.prev_col = g.prev_col,
         NEW u, u = Ungetc(h, c)
  PROVE  u \in Readers /\ SamePlace(u, r)
<1>1. /\ g \in Readers
      /\ g.pos = IF c = EOF THEN r.pos ELSE r.pos + 1
      /\ g.line = IF c = "\n" THEN r.line + 1 ELSE r.line
      /\ g.column = IF c = "\n" THEN 1 ELSE r.column + 1
      /\ c = "\n" => g.prev_col = r.column
  BY GetcIs
<1>2. u = [h EXCEPT !.pos = IF c = EOF THEN h.pos ELSE h.pos - 1,
                    !.line = IF c = "\n" THEN h.line - 1 ELSE h.line,
                    !.column = IF c = "\n" THEN h.prev_col ELSE h.column - 1]
  BY DEF Ungetc
<1>3. /\ u.pos = IF c = EOF THEN h.pos ELSE h.pos - 1
      /\ u.line = IF c = "\n" THEN h.line - 1 ELSE h.line
      /\ u.column = IF c = "\n" THEN h.prev_col ELSE h.column - 1
      /\ u = [pos |-> u.pos, line |-> u.line, column |-> u.column, prev_col |-> h.prev_col]
      /\ h.prev_col \in Nat
  BY <1>2 DEF Readers
<1>4. r.pos \in 1 .. Len(src) + 1 /\ r.line \in Nat \ {0} /\ r.column \in Nat \ {0} /\ Len(src) \in Nat
  BY LenProperties DEF Readers
<1>5. u.pos = r.pos /\ u.line = r.line /\ u.column = r.column
  BY <1>1, <1>3, <1>4 DEF SamePlace
<1> QED
  BY <1>3, <1>4, <1>5 DEF SamePlace, Readers

\* One character, read and put back.
LEMMA BackOne ==
  ASSUME src \in Seq(Chars), NEW r \in Readers, NEW u, u = Ungetc(Getc(r), CharAt(r.pos))
  PROVE  u \in Readers /\ SamePlace(u, r)
<1>1. PICK g : g = Getc(r)
  OBVIOUS
<1>2. PICK c : c = CharAt(r.pos)
  OBVIOUS
<1>3. g \in Readers
  BY <1>1, <1>2, GetcIs
<1>4. SamePlace(g, g)
  BY DEF SamePlace
<1> QED
  BY <1>1, <1>2, <1>3, <1>4, UngetcIs

\* A tilde and what follows it, read and put back.
LEMMA BackTwo ==
  ASSUME src \in Seq(Chars), NEW r \in Readers, CharAt(r.pos) = "~",
         NEW u, u = Ungetc(Ungetc(Getc(Getc(r)), CharAt(Getc(r).pos)), "~")
  PROVE  u \in Readers /\ SamePlace(u, r)
<1>1. PICK g : g = Getc(r)
  OBVIOUS
<1>2. PICK c : c = CharAt(r.pos)
  OBVIOUS
<1>3. g \in Readers
  BY <1>1, <1>2, GetcIs
<1>4. PICK h : h = Ungetc(Getc(g), CharAt(g.pos))
  OBVIOUS
<1>5. h \in Readers /\ SamePlace(h, g)
  BY <1>3, <1>4, BackOne
<1>6. u = Ungetc(h, c) /\ c # "\n"
  BY <1>1, <1>2, <1>4
<1> QED
  BY <1>1, <1>2, <1>5, <1>6, UngetcIs

\* Reading a character keeps the location right, except at the end of the text.
LEMMA GetcRight ==
  ASSUME src \in Seq(Chars), NEW r \in Readers, CharAt(r.pos) # EOF, Right(r)
  PROVE  Getc(r) \in Readers /\ Right(Getc(r))
<1>1. PICK c : c = CharAt(r.pos)
  OBVIOUS
<1>2. PICK g : g = Getc(r)
  OBVIOUS
<1>3. /\ g \in Readers
      /\ g.pos = r.pos + 1
      /\ g.line = IF c = "\n" THEN r.line + 1 ELSE r.line
      /\ g.column = IF c = "\n" THEN 1 ELSE r.column + 1
  BY <1>1, <1>2, GetcIs
<1>4. r.pos \in 1 .. Len(src) /\ c = src[r.pos]
  BY <1>1, CharIs DEF Readers
<1>5. PICK n : n = g.pos
  OBVIOUS
<1>6. PICK p : p = r.pos
  OBVIOUS
<1>7. /\ Where(n).line = IF src[p] = "\n" THEN Where(p).line + 1 ELSE Where(p).line
      /\ Where(n).column = IF src[p] = "\n" THEN 1 ELSE Where(p).column + 1
  BY <1>3, <1>4, <1>5, <1>6, WhereNext
<1>8. Right(g)
  BY <1>3, <1>4, <1>5, <1>6, <1>7 DEF Right
<1> QED
  BY <1>2, <1>3, <1>8

-------------------------------------------------------------------------------
(* Each step keeps the invariant *)

Work == {"blanks", "comment?", "comment", "token"}

\* Every next text is the same text.
LEMMA RightNext ==
  ASSUME UNCHANGED src, NEW r, r = in'
  PROVE  Right(in)' <=> Right(r)
BY DEF Right, Where

\* At work on blanks and comments the location is right.
LEMMA RightAtWork ==
  ASSUME Located, pc \in Work
  PROVE  Right(in)
BY DEF Located, Work, Failed, Finished

\* A step that reads and puts back, and does nothing else.
LEMMA ReadStep ==
  ASSUME IInv, pc \in Work, UNCHANGED <<src, token, unlexed, held, lexed>>,
         NEW r, r = in', r \in Readers, pc' \in Work \union Failed, skipped' \in BOOLEAN,
         pc' \in Failed \/ Right(r)
  PROVE  IInv'
<1>1. Types /\ Bounded /\ Stream
  BY DEF IInv
<1>2. Types'
  BY <1>1 DEF Types, Readers, Work, Failed
<1>3. Bounded' /\ Begun'
  BY <1>1 DEF Bounded, Begun, Work, Failed
<1>4. Stream'
  BY <1>1 DEF Stream, Work
<1>5. Located'
  BY RightNext DEF Located, Failed
<1> QED
  BY <1>2, <1>3, <1>4, <1>5 DEF IInv

\* The place decides whether a location is right.
LEMMA RightPlace ==
  ASSUME NEW r, NEW s, SamePlace(r, s), Right(s)
  PROVE  Right(r)
BY DEF SamePlace, Right

LEMMA BackOneStep ==
  ASSUME IInv, pc \in Work, UNCHANGED <<src, token, unlexed, held, lexed>>,
         in' = Ungetc(Getc(in), Next1), pc' \in Work, skipped' \in BOOLEAN
  PROVE  IInv'
<1>1. src \in Seq(Chars) /\ in \in Readers /\ Right(in)
  BY RightAtWork DEF IInv, Types
<1>2. PICK r : r = in'
  OBVIOUS
<1>3. r \in Readers /\ SamePlace(r, in)
  BY <1>1, <1>2, BackOne DEF Next1
<1> QED
  BY <1>1, <1>2, <1>3, RightPlace, ReadStep

LEMMA BackTwoStep ==
  ASSUME IInv, pc \in Work, UNCHANGED <<src, token, unlexed, held, lexed>>, Next1 = "~",
         in' = Ungetc(Ungetc(Getc(Getc(in)), Next2), "~"), pc' \in Work \union Failed, skipped' \in BOOLEAN
  PROVE  IInv'
<1>1. src \in Seq(Chars) /\ in \in Readers /\ Right(in)
  BY RightAtWork DEF IInv, Types
<1>2. PICK r : r = in'
  OBVIOUS
<1>3. r \in Readers /\ SamePlace(r, in)
  BY <1>1, <1>2, BackTwo DEF Next1, Next2
<1> QED
  BY <1>1, <1>2, <1>3, RightPlace, ReadStep

\* One character read.
LEMMA GetOneStep ==
  ASSUME IInv, pc \in Work, UNCHANGED <<src, token, unlexed, held, lexed>>, Next1 # EOF,
         in' = Getc(in), pc' \in Work, skipped' \in BOOLEAN
  PROVE  IInv'
<1>1. src \in Seq(Chars) /\ in \in Readers /\ Right(in)
  BY RightAtWork DEF IInv, Types
<1>2. PICK r : r = in'
  OBVIOUS
<1>3. r \in Readers /\ Right(r)
  BY <1>1, <1>2, GetcRight DEF Next1
<1> QED
  BY <1>2, <1>3, ReadStep

\* The two tildes that begin or end a comment.
LEMMA GetTwoStep ==
  ASSUME IInv, pc \in Work, UNCHANGED <<src, token, unlexed, held, lexed>>, Next1 # EOF, Next2 # EOF,
         in' = Getc(Getc(in)), pc' \in Work, skipped' \in BOOLEAN
  PROVE  IInv'
<1>1. src \in Seq(Chars) /\ in \in Readers /\ Right(in)
  BY RightAtWork DEF IInv, Types
<1>2. PICK g : g = Getc(in)
  OBVIOUS
<1>3. g \in Readers /\ Right(g)
  BY <1>1, <1>2, GetcRight DEF Next1
<1>4. PICK r : r = in'
  OBVIOUS
<1>5. r \in Readers /\ Right(r)
  BY <1>1, <1>2, <1>3, <1>4, GetcRight DEF Next2
<1> QED
  BY <1>4, <1>5, ReadStep

\* yfl_skip_all
LEMMA SkipSteps ==
  ASSUME IInv, \/ SkipBlank \/ BlanksDone \/ OpenComment \/ NoComment \/ InComment
               \/ CloseComment \/ LoneTilde \/ UnclosedComment
  PROVE  IInv'
<1>1. Types
  BY DEF IInv
<1>2. CASE SkipBlank
  <2>1. Next1 # EOF
    BY <1>2 DEF SkipBlank, IsSpace, Type, EOF
  <2> QED
    BY <1>2, <2>1, GetOneStep DEF SkipBlank, Work
<1>3. CASE BlanksDone
  BY <1>1, <1>3, BackOneStep DEF BlanksDone, Work, Types
<1>4. CASE OpenComment
  BY <1>1, <1>4, GetTwoStep DEF OpenComment, Work, EOF, Types
<1>5. CASE NoComment
  <2>1. CASE Next1 = "~"
    BY <1>5, <2>1, BackTwoStep DEF NoComment, Work
  <2>2. CASE Next1 # "~"
    BY <1>5, <2>2, BackOneStep DEF NoComment, Work
  <2> QED
    BY <2>1, <2>2
<1>6. CASE InComment
  BY <1>1, <1>6, GetOneStep DEF InComment, Work, Types
<1>7. CASE CloseComment
  BY <1>7, GetTwoStep DEF CloseComment, Work, EOF
<1>8. CASE LoneTilde
  BY <1>1, <1>8, BackTwoStep DEF LoneTilde, Work, Failed, Types
<1>9. CASE UnclosedComment
  <2>1. PICK r : r = in'
    OBVIOUS
  <2>2. r \in Readers
    <3>1. src \in Seq(Chars) /\ in \in Readers /\ r = Getc(in)
      BY <1>1, <1>9, <2>1 DEF UnclosedComment, Types
    <3>2. PICK c : c = CharAt(in.pos)
      OBVIOUS
    <3> QED
      BY <3>1, <3>2, GetcIs
  <2> QED
    BY <1>1, <1>9, <2>1, <2>2, ReadStep DEF UnclosedComment, Work, Failed, Types
<1> QED
  BY <1>2, <1>3, <1>4, <1>5, <1>6, <1>7, <1>8, <1>9

\* yfl_core_lex begins a token.
LEMMA StartStep ==
  ASSUME IInv, StartToken
  PROVE  IInv'
<1>1. Types /\ Stream /\ Right(in) /\ Next1 # EOF /\ UNCHANGED <<src, skipped, unlexed, held, lexed>>
  BY RightAtWork DEF IInv, StartToken, Work
<1>2. PICK r : r = in'
  OBVIOUS
<1>3. r \in Readers /\ Right(r)
  BY <1>1, <1>2, GetcRight DEF StartToken, Types, Next1
<1>4. PICK c : c = Next1
  OBVIOUS
<1>5. c \in Chars
  BY <1>1, <1>4, CharIs DEF Types, Readers, Next1
<1>6. token' = [kind |-> "none", data |-> <<c>>, line |-> in.line, column |-> in.column]
  BY <1>4 DEF StartToken, NoToken
<1>7. token' \in Tokens /\ Len(token'.data) = 1 /\ token'.data # <<>> /\ token'.data[1] = c
  BY <1>1, <1>5, <1>6 DEF Tokens, Kinds, Types, Readers
<1>8. pc' = "in_token" /\ pc # "idle"
  BY DEF StartToken
<1>9. Types'
  BY <1>1, <1>2, <1>3, <1>7, <1>8 DEF Types, Readers
<1>10. Bounded'
  BY <1>1, <1>7, LexerAssumption DEF IInv, Bounded
<1>11. Stream'
  BY <1>1, <1>8 DEF Stream
<1>12. EOF \notin ToSet(token'.data)
  BY <1>1, <1>4, <1>6, <1>7 DEF ToSet
<1>13. Begun' /\ Located'
  BY <1>1, <1>2, <1>3, <1>7, <1>12, RightNext DEF Begun, Located
<1> QED
  BY <1>9, <1>10, <1>11, <1>13 DEF IInv

\* The token made is the last of all.
LEMMA GiveStream ==
  ASSUME Types, Stream, pc # "idle", NEW t \in Tokens, Give(t), UNCHANGED unlexed
  PROVE  /\ held' \in Seq(Tokens) /\ lexed' \in Seq(Tokens) /\ held' \o Reverse(unlexed') = lexed'
         /\ lexed' # <<>> /\ Last(lexed') = t
<1>1. unlexed = <<>> /\ held \in Seq(Tokens) /\ lexed \in Seq(Tokens)
  BY DEF Types, Stream
<1>2. held = lexed
  BY <1>1, ReverseEmpty, ConcatEmptySeq DEF Stream
<1>3. held' = Append(held, t) /\ lexed' = Append(lexed, t)
  BY DEF Give
<1>4. /\ Append(lexed, t) \in Seq(Tokens) /\ Len(Append(lexed, t)) = Len(lexed) + 1
      /\ Append(lexed, t)[Len(lexed) + 1] = t /\ Append(lexed, t) # <<>>
  BY <1>1, AppendProperties
<1>5. held' \o Reverse(unlexed') = lexed'
  BY <1>1, <1>2, <1>3, <1>4, ReverseEmpty, ConcatEmptySeq
<1> QED
  BY <1>2, <1>3, <1>4, <1>5 DEF Last

\* The end of the text.
LEMMA EndOfTextStep ==
  ASSUME IInv, EndOfText
  PROVE  IInv'
<1>1. /\ Types /\ Bounded /\ Stream /\ pc # "idle"
      /\ pc' = "idle" /\ UNCHANGED <<src, skipped, token, unlexed>>
  BY DEF IInv, EndOfText
<1>2. PICK r : r = in'
  OBVIOUS
<1>3. r \in Readers
  <2>1. PICK c : c = CharAt(in.pos)
    OBVIOUS
  <2> QED
    BY <1>1, <1>2, <2>1, GetcIs DEF EndOfText, Types
<1>4. PICK t : t = [kind |-> EOF, data |-> <<EOF>>, line |-> in.line, column |-> in.column]
  OBVIOUS
<1>5. t \in Tokens /\ t.data = <<EOF>> /\ Give(t)
  BY <1>1, <1>4 DEF Tokens, Kinds, Types, Readers, EndOfText
<1>6. /\ held' \in Seq(Tokens) /\ lexed' \in Seq(Tokens) /\ held' \o Reverse(unlexed') = lexed'
      /\ lexed' # <<>> /\ Last(lexed') = t
  BY <1>1, <1>5, GiveStream
<1>7. Types' /\ Bounded' /\ Stream' /\ Begun'
  BY <1>1, <1>2, <1>3, <1>6 DEF Types, Readers, Bounded, Stream, Begun
<1>8. Located'
  BY <1>1, <1>5, <1>6 DEF Located, Finished
<1> QED
  BY <1>7, <1>8 DEF IInv

\* A character more.
LEMMA ExtendStep ==
  ASSUME IInv, ExtendToken
  PROVE  IInv'
<1>1. /\ Types /\ Bounded /\ Stream /\ Begun /\ Located /\ pc = "in_token" /\ pc' = "in_token"
      /\ UNCHANGED <<src, skipped, unlexed, held, lexed>> /\ Len(token.data) < MaxToken - 1
  BY DEF IInv, ExtendToken
<1>2. PICK r : r = in'
  OBVIOUS
<1>3. PICK c : c = Next1
  OBVIOUS
<1>4. in \in Readers /\ c \in Chars \union {EOF} /\ src \in Seq(Chars)
  BY <1>1, <1>3, CharIs DEF Types, Readers, Next1
<1>5. r \in Readers
  BY <1>2, <1>3, <1>4, GetcIs DEF ExtendToken, Next1
<1>6. PICK data : data = token.data
  OBVIOUS
<1>7. data \in Seq(Chars \union {EOF}) /\ Len(data) \in Nat /\ data # <<>> /\ Len(data) > 0
  BY <1>1, <1>6, EmptySeq DEF Types, Tokens, Begun
<1>8. PICK more : more = Append(data, c)
  OBVIOUS
<1>9. /\ more \in Seq(Chars \union {EOF}) /\ Len(more) = Len(data) + 1
      /\ \A i \in 1 .. Len(data) : more[i] = data[i]
      /\ more[Len(data) + 1] = c /\ more # <<>>
  BY <1>4, <1>7, <1>8, AppendProperties
<1>10. more[1] = data[1]
  BY <1>7, <1>9
<1>11. ToSet(more) = ToSet(data) \union {c}
  BY <1>7, <1>9, LenProperties DEF ToSet
<1>12. token' = [token EXCEPT !.data = more]
  BY <1>3, <1>6, <1>8 DEF ExtendToken
<1>13. token' \in Tokens /\ token'.data = more
  BY <1>1, <1>9, <1>12 DEF Types, Tokens
<1>14. Types' /\ Stream'
  BY <1>1, <1>2, <1>5, <1>13 DEF Types, Readers, Stream
<1>15. Bounded'
  <2>1. Len(more) < MaxToken
    BY <1>1, <1>6, <1>7, <1>9, LexerAssumption
  <2> QED
    BY <1>1, <1>13, <2>1 DEF Bounded
<1>16. c = EOF => EndTypes(data[1]) = {}
  BY <1>3, <1>6 DEF ExtendToken, Ends, Joins, EndTypes, Type, EOF
<1>17. Begun'
  BY <1>1, <1>6, <1>9, <1>10, <1>11, <1>13, <1>16 DEF Begun
<1>18. Located'
  <2>1. CASE EOF \in ToSet(more)
    BY <1>1, <1>13, <2>1 DEF Located
  <2>2. CASE EOF \notin ToSet(more)
    <3>1. Right(in) /\ c # EOF
      BY <1>1, <1>6, <1>11, <2>2 DEF Located, Failed, Finished
    <3>2. Right(r)
      BY <1>2, <1>3, <1>4, <3>1, GetcRight DEF ExtendToken, Next1
    <3> QED
      BY <1>1, <1>2, <3>2, RightNext DEF Located
  <2> QED
    BY <2>1, <2>2
<1> QED
  BY <1>14, <1>15, <1>17, <1>18 DEF IInv

\* A token that is too long.
LEMMA OverflowStep ==
  ASSUME IInv, Overflow
  PROVE  IInv'
<1>1. /\ Types /\ Bounded /\ Stream /\ pc = "in_token" /\ pc' = "overflow"
      /\ UNCHANGED <<src, skipped, token, unlexed, held, lexed>>
  BY DEF IInv, Overflow
<1>2. PICK r : r = in'
  OBVIOUS
<1>3. r \in Readers
  <2>1. PICK c : c = CharAt(in.pos)
    OBVIOUS
  <2> QED
    BY <1>1, <1>2, <2>1, GetcIs DEF Overflow, Types
<1> QED
  BY <1>1, <1>2, <1>3 DEF IInv, Types, Readers, Bounded, Stream, Begun, Located, Failed

\* The end of a token: what was read behind it is put back.
LEMMA EndStep ==
  ASSUME IInv, EndToken
  PROVE  IInv'
<1>1. /\ Types /\ Bounded /\ Stream /\ Begun /\ Located /\ pc = "in_token" /\ pc' = "idle"
      /\ UNCHANGED <<src, skipped, token, unlexed>>
  BY DEF IInv, EndToken
<1>2. PICK r : r = in'
  OBVIOUS
<1>3. r \in Readers /\ SamePlace(r, in)
  BY <1>1, <1>2, BackOne DEF EndToken, Next1, Types
<1>4. PICK t : t = [token EXCEPT !.kind = Kind(token.data)]
  OBVIOUS
<1>5. t \in Tokens /\ Give(t)
  <2>1. Kind(token.data) \in Kinds
    BY DEF Kind, Kinds
  <2> QED
    BY <1>1, <1>4, <2>1 DEF EndToken, Types, Tokens
<1>6. held' \in Seq(Tokens) /\ lexed' \in Seq(Tokens) /\ held' \o Reverse(unlexed') = lexed'
  BY <1>1, <1>5, GiveStream
<1>7. Types' /\ Bounded' /\ Stream' /\ Begun'
  BY <1>1, <1>2, <1>3, <1>6 DEF Types, Readers, Bounded, Stream, Begun
<1>8. EndTypes(token.data[1]) # {}
  BY DEF EndToken, Ends
<1>9. Right(in)
  BY <1>1, <1>8 DEF Located, Begun, Failed, Finished
<1>10. Located'
  BY <1>1, <1>2, <1>3, <1>9, RightPlace, RightNext DEF Located
<1> QED
  BY <1>7, <1>10 DEF IInv

-------------------------------------------------------------------------------
(* The client *)

\* The last token put back is the next one taken.
LEMMA LexUnlexedStep ==
  ASSUME IInv, LexUnlexed
  PROVE  IInv'
<1>1. /\ Types /\ Bounded /\ Stream /\ Located /\ pc = "idle" /\ unlexed # <<>>
      /\ held' = Append(held, Last(unlexed)) /\ unlexed' = Front(unlexed)
      /\ UNCHANGED <<src, in, pc, skipped, token, lexed>>
  BY DEF IInv, LexUnlexed
<1>2. unlexed \in Seq(Tokens) /\ held \in Seq(Tokens)
  BY <1>1 DEF Types
<1>3. PICK u : u = unlexed
  OBVIOUS
<1>4. PICK f : f = Front(u)
  OBVIOUS
<1>5. PICK e : e = Last(u)
  OBVIOUS
<1>6. f \in Seq(Tokens) /\ e \in Tokens /\ u = Append(f, e) /\ Len(f) = Len(u) - 1
  BY <1>1, <1>2, <1>3, <1>4, <1>5, FrontLast
<1>7. Append(held, e) \in Seq(Tokens)
  BY <1>2, <1>6, AppendProperties
<1>8. Append(held, e) \o Reverse(f) = held \o Reverse(u)
  <2>1. Reverse(u) = <<e>> \o Reverse(f)
    BY <1>6, ReverseAppend
  <2>2. Append(held, e) = held \o <<e>>
    BY <1>2, <1>6, AppendIsConcat
  <2>3. <<e>> \in Seq(Tokens) /\ Reverse(f) \in Seq(Tokens)
    BY <1>6, ReverseSeq
  <2>4. (held \o <<e>>) \o Reverse(f) = held \o (<<e>> \o Reverse(f))
    BY <1>2, <2>3, ConcatAssociative
  <2> QED
    BY <2>1, <2>2, <2>4
<1>9. Types'
  BY <1>1, <1>3, <1>4, <1>5, <1>6, <1>7 DEF Types, Readers
<1>10. Bounded'
  BY <1>1, <1>2, <1>3, <1>4, <1>6, LenProperties, LexerAssumption DEF Bounded
<1>11. Stream'
  BY <1>1, <1>3, <1>4, <1>5, <1>8 DEF Stream
<1>12. Begun' /\ Located'
  BY <1>1, RightNext DEF Begun, Located, Finished
<1> QED
  BY <1>9, <1>10, <1>11, <1>12 DEF IInv

\* A token taken is put back.
LEMMA UnlexStep ==
  ASSUME IInv, Unlex
  PROVE  IInv'
<1>1. /\ Types /\ Bounded /\ Stream /\ Located /\ pc = "idle" /\ held # <<>> /\ Len(unlexed) < UnlexCap
      /\ unlexed' = Append(unlexed, Last(held)) /\ held' = Front(held)
      /\ UNCHANGED <<src, in, pc, skipped, token, lexed>>
  BY DEF IInv, Unlex
<1>2. unlexed \in Seq(Tokens) /\ held \in Seq(Tokens)
  BY <1>1 DEF Types
<1>3. PICK h : h = held
  OBVIOUS
<1>4. PICK f : f = Front(h)
  OBVIOUS
<1>5. PICK e : e = Last(h)
  OBVIOUS
<1>6. f \in Seq(Tokens) /\ e \in Tokens /\ h = Append(f, e)
  BY <1>1, <1>2, <1>3, <1>4, <1>5, FrontLast
<1>7. PICK u : u = Append(unlexed, e)
  OBVIOUS
<1>8. u \in Seq(Tokens) /\ Len(u) = Len(unlexed) + 1
  BY <1>2, <1>6, <1>7, AppendProperties
<1>9. f \o Reverse(u) = h \o Reverse(unlexed)
  <2>1. Reverse(u) = <<e>> \o Reverse(unlexed)
    BY <1>2, <1>6, <1>7, ReverseAppend
  <2>2. h = f \o <<e>>
    BY <1>6, AppendIsConcat
  <2>3. <<e>> \in Seq(Tokens) /\ Reverse(unlexed) \in Seq(Tokens)
    BY <1>2, <1>6, ReverseSeq
  <2>4. (f \o <<e>>) \o Reverse(unlexed) = f \o (<<e>> \o Reverse(unlexed))
    BY <1>6, <2>3, ConcatAssociative
  <2> QED
    BY <2>1, <2>2, <2>4
<1>10. Types'
  BY <1>1, <1>3, <1>4, <1>5, <1>6, <1>7, <1>8 DEF Types, Readers
<1>11. Bounded'
  <2>1. Len(unlexed) \in Nat
    BY <1>2, LenProperties
  <2>2. Len(u) =< UnlexCap
    BY <1>1, <1>8, <2>1, LexerAssumption
  <2> QED
    BY <1>1, <1>3, <1>5, <1>7, <2>2 DEF Bounded
<1>12. Stream'
  BY <1>1, <1>3, <1>4, <1>5, <1>7, <1>9 DEF Stream
<1>13. Begun' /\ Located'
  BY <1>1, RightNext DEF Begun, Located, Finished
<1> QED
  BY <1>10, <1>11, <1>12, <1>13 DEF IInv

\* A call begins where the reader is right: with nothing put back, the client that has
\* not taken the end of the text has not been given it.
LEMMA CallLexStep ==
  ASSUME IInv, CallLex
  PROVE  IInv'
<1>1. /\ Types /\ Bounded /\ Stream /\ Located /\ pc = "idle" /\ ~AtEnd /\ unlexed = <<>>
      /\ pc' = "blanks" /\ skipped' = FALSE /\ UNCHANGED <<src, in, token, unlexed, held, lexed>>
  BY DEF IInv, CallLex
<1>2. held = lexed
  BY <1>1, ReverseEmpty, ConcatEmptySeq DEF Types, Stream
<1>3. Right(in)
  BY <1>1, <1>2 DEF Located, Failed, Finished, AtEnd
<1>4. Types' /\ Bounded' /\ Stream' /\ Begun'
  BY <1>1 DEF Types, Readers, Bounded, Stream, Begun
<1>5. Located'
  BY <1>1, <1>3, RightNext DEF Located
<1> QED
  BY <1>4, <1>5 DEF IInv

-------------------------------------------------------------------------------
(* The theorems *)

\* The lexer begins at the first character, with nothing made and nothing put back.
LEMMA Begins ==
  Init => IInv
<1> SUFFICES ASSUME Init PROVE IInv
  OBVIOUS
<1>1. src \in Seq(Chars) /\ Len(src) \in Nat
  BY LexerAssumption, LenProperties DEF Init
<1>2. in \in Readers
  BY <1>1 DEF Init, Readers
<1>3. token \in Tokens /\ Len(token.data) = 0
  BY EmptySeq DEF Init, NoToken, Tokens, Kinds
<1>4. <<>> \in Seq(Tokens) /\ Len(<<>>) = 0
  BY EmptySeq
<1>5. Types
  BY <1>1, <1>2, <1>3, <1>4 DEF Types, Init
<1>6. Bounded
  BY <1>3, <1>4, LexerAssumption DEF Bounded, Init
<1>7. Stream
  BY <1>4, ReverseEmpty, ConcatEmptySeq DEF Stream, Init
<1>8. Begun /\ Located
  BY WhereFirst DEF Begun, Located, Right, Init
<1> QED
  BY <1>5, <1>6, <1>7, <1>8 DEF IInv

\* The invariant is kept by every step of the lexer and of its client.
THEOREM Inductive ==
  Spec => []IInv
<1>1. Init => IInv
  BY Begins
<1>2. IInv /\ [Next]_vars => IInv'
  <2> SUFFICES ASSUME IInv, [Next]_vars PROVE IInv'
    OBVIOUS
  <2>1. CASE LexUnlexed
    BY <2>1, LexUnlexedStep
  <2>2. CASE CallLex
    BY <2>2, CallLexStep
  <2>3. CASE Unlex
    BY <2>3, UnlexStep
  <2>4. CASE \/ SkipBlank \/ BlanksDone \/ OpenComment \/ NoComment \/ InComment
             \/ CloseComment \/ LoneTilde \/ UnclosedComment
    BY <2>4, SkipSteps
  <2>5. CASE StartToken
    BY <2>5, StartStep
  <2>6. CASE EndOfText
    BY <2>6, EndOfTextStep
  <2>7. CASE ExtendToken
    BY <2>7, ExtendStep
  <2>8. CASE Overflow
    BY <2>8, OverflowStep
  <2>9. CASE EndToken
    BY <2>9, EndStep
  <2>10. CASE UNCHANGED vars
    <3>1. UNCHANGED <<src, in, pc, skipped, token, unlexed, held, lexed>>
      BY <2>10 DEF vars
    <3>2. Types' /\ Bounded' /\ Stream' /\ Begun'
      BY <3>1 DEF IInv, Types, Readers, Bounded, Stream, Begun
    <3>3. Located'
      BY <3>1, RightNext DEF IInv, Located, Finished
    <3> QED
      BY <3>2, <3>3 DEF IInv
  <2> QED
    BY <2>1, <2>2, <2>3, <2>4, <2>5, <2>6, <2>7, <2>8, <2>9, <2>10 DEF Next, CoreLex
<1> QED
  BY <1>1, <1>2, PTL DEF Spec

\* The reader is always at a character of the text or at its end, on a line and in a column counted
\* from 1, and neither the buffer of the token nor that of the tokens put back is ever overrun.
THEOREM Typing ==
  Spec => []TypeOK
<1>1. IInv => TypeOK
  BY DEF IInv, Types, Bounded, Readers, TypeOK
<1> QED
  BY <1>1, Inductive, PTL

\* Whatever yfl_ungetc put back, line breaks too, the reader's line and column are those of its position:
\* every token and every error gets the location of its first character.
THEOREM Locations ==
  Spec => []LocRight
<1>1. IInv => LocRight
  BY DEF IInv, Located, Finished, Right, LocRight
<1> QED
  BY <1>1, Inductive, PTL

\* However the client of yfl_lex and yfl_unlex goes back and forth, no token is lost, repeated or
\* given in another order.
THEOREM Unlexing ==
  Spec => []StreamIntact
<1>1. IInv => StreamIntact
  BY DEF IInv, Stream, StreamIntact
<1> QED
  BY <1>1, Inductive, PTL

-------------------------------------------------------------------------------
(* Recursion on the text *)

\* A set of natural numbers has a least element.
LEMMA Least ==
  ASSUME NEW S \in SUBSET Nat, S # {}
  PROVE  Min(S) \in S /\ \A y \in S : Min(S) =< y
<1>1. \E x \in S : \A y \in S : x =< y
  <2> DEFINE R == OpToRel(<, Nat)
  <2>1. IsWellFoundedOn(R, Nat)
    BY NatLessThanWellFounded
  <2>2. \A x, y \in S : y < x => <<y, x>> \in R
    BY DEF OpToRel
  <2> HIDE DEF R
  <2>3. PICK x \in S : \A y \in S : <<y, x>> \notin R
    BY <2>1, WFMin, Zenon
  <2>4. \A y \in S : ~(y < x)
    BY <2>2, <2>3, Zenon
  <2> QED
    BY <2>4
<1> QED
  BY <1>1 DEF Min

\* What holds of a position when it holds of all behind it holds of every position.
LEMMA FromTheEnd ==
  ASSUME NEW m \in Nat, NEW S \in SUBSET (1 .. m),
         \A p \in 1 .. m : (\A q \in p + 1 .. m : q \in S) => p \in S
  PROVE  S = 1 .. m
<1> DEFINE T == (1 .. m) \ S
<1> SUFFICES ASSUME T # {} PROVE FALSE
  OBVIOUS
<1>1. T \in SUBSET (0 .. m)
  OBVIOUS
<1> HIDE DEF T
<1>2. Max(T) \in T /\ \A y \in T : Max(T) >= y
  BY <1>1, Greatest
<1>3. PICK p : p = Max(T)
  OBVIOUS
<1>4. p \in 1 .. m /\ p \notin S
  BY <1>2, <1>3 DEF T
<1>5. \A q \in p + 1 .. m : q \notin T
  BY <1>1, <1>2, <1>3, <1>4
<1>6. \A q \in p + 1 .. m : q \in S
  BY <1>4, <1>5 DEF T
<1> QED
  BY <1>4, <1>6

\* What a step makes of a function at a position depends on the function at positions behind it.
LooksAhead(m, R, Step) ==
  \A p \in 1 .. m : \A f, g \in [1 .. m -> R] :
    (\A q \in p + 1 .. m : f[q] = g[q]) => Step[p][f] = Step[p][g]

Solvable(m, R, Step) == \E f \in [1 .. m -> R] : \A p \in 1 .. m : f[p] = Step[p][f]

\* A function defined by recursion on what is left of the text exists.
LEMMA Recursion ==
  ASSUME NEW m \in Nat, NEW R, R # {}, NEW Step \in [1 .. m -> [[1 .. m -> R] -> R]],
         LooksAhead(m, R, Step)
  PROVE  Solvable(m, R, Step)
<1> DEFINE Good(k, f) == \A p \in k .. m : f[p] = Step[p][f]
           K == {k \in 1 .. m + 1 : \E f \in [1 .. m -> R] : Good(k, f)}
<1>1. ASSUME NEW k \in 1 .. m + 1, \A l \in k + 1 .. m + 1 : l \in K
      PROVE  k \in K
  <2>1. CASE k = m + 1
    <3>1. PICK r \in R : TRUE
      OBVIOUS
    <3>2. [p \in 1 .. m |-> r] \in [1 .. m -> R]
      OBVIOUS
    <3>3. \A f : Good(k, f)
      BY <2>1
    <3> HIDE DEF Good
    <3> QED
      BY <3>2, <3>3
  <2>2. CASE k \in 1 .. m
    <3>1. k + 1 \in K
      <4>1. k + 1 \in k + 1 .. m + 1
        BY <2>2
      <4> HIDE DEF K
      <4> QED
        BY <1>1, <4>1
    <3>2. PICK f \in [1 .. m -> R] : Good(k + 1, f)
      BY <3>1
    <3> DEFINE g == [p \in 1 .. m |-> Step[p][f]]
    <3>3. g \in [1 .. m -> R] /\ \A p \in 1 .. m : g[p] = Step[p][f]
      OBVIOUS
    <3> HIDE DEF g
    <3>4. ASSUME NEW p \in k .. m
          PROVE  g[p] = Step[p][g]
      <4>1. p \in 1 .. m
        BY <2>2
      <4>2. \A q \in p + 1 .. m : q \in k + 1 .. m /\ q \in 1 .. m
        BY <2>2
      <4>3. \A q \in p + 1 .. m : f[q] = g[q]
        BY <3>2, <3>3, <4>2
      <4>4. Step[p][f] = Step[p][g]
        BY <3>3, <4>1, <4>3, Zenon DEF LooksAhead
      <4> QED
        BY <3>3, <4>1, <4>4
    <3> QED
      BY <3>3, <3>4
  <2> QED
    BY <2>1, <2>2
<1>2. K = 1 .. m + 1
  <2>1. K \in SUBSET (1 .. m + 1) /\ m + 1 \in Nat
    OBVIOUS
  <2> HIDE DEF K
  <2> QED
    BY <1>1, <2>1, FromTheEnd
<1>3. 1 \in K
  <2> HIDE DEF K
  <2>1. 1 \in 1 .. m + 1
    OBVIOUS
  <2> QED
    BY <1>2, <2>1
<1> QED
  BY <1>3 DEF Solvable

-------------------------------------------------------------------------------
(* Blanks and comments *)

\* The positions of the two tildes that close a comment, from p on.
Closing(p) == {q \in p .. Len(src) - 1 : src[q] = "~" /\ src[q + 1] = "~"}

\* The first position that is neither in a comment that is open at p nor in what follows it, given
\* those of the positions behind.
AfterComment(p, f) == IF Closing(p) = {} THEN 0 ELSE f[Min(Closing(p)) + 2]

Opens(p) == CharAt(p) = "~" /\ CharAt(p + 1) = "~"

AfterBlanks(p, f) ==
  CASE IsSpace(CharAt(p)) -> f[p + 1]
    [] Opens(p)           -> AfterComment(p + 2, f)
    [] OTHER              -> p

\* A blank and an open comment is before the end of the text, and one who closes it too.
LEMMA BlankPlaces ==
  ASSUME src \in Seq(Chars), NEW p \in 1 .. Len(src) + 1
  PROVE  /\ IsSpace(CharAt(p)) => p + 1 \in 1 .. Len(src) + 1 /\ p \in 1 .. Len(src)
         /\ Opens(p) => p + 2 \in 1 .. Len(src) + 1 /\ p \in 1 .. Len(src) - 1
         /\ ~(IsSpace(CharAt(p)) /\ Opens(p))
         /\ Closing(p) # {} => /\ Min(Closing(p)) \in p .. Len(src) - 1
                               /\ Min(Closing(p)) \in Closing(p)
                               /\ \A q \in Closing(p) : Min(Closing(p)) =< q
<1>1. Len(src) \in Nat
  BY LenProperties
<1>2. ~IsSpace(EOF) /\ EOF # "~" /\ ~IsSpace("~")
  BY DEF IsSpace, Type, EOF
<1>3. IsSpace(CharAt(p)) => p + 1 \in 1 .. Len(src) + 1 /\ p \in 1 .. Len(src)
  BY <1>1, <1>2 DEF CharAt
<1>4. Opens(p) => p + 2 \in 1 .. Len(src) + 1 /\ p \in 1 .. Len(src) - 1
  BY <1>1, <1>2 DEF CharAt, Opens
<1>5. ASSUME Closing(p) # {}
      PROVE  /\ Min(Closing(p)) \in Closing(p)
             /\ \A q \in Closing(p) : Min(Closing(p)) =< q
  <2>1. Closing(p) \in SUBSET Nat
    BY <1>1 DEF Closing
  <2> QED
    BY <1>5, <2>1, Least
<1>6. Closing(p) # {} => Min(Closing(p)) \in p .. Len(src) - 1
  BY <1>5 DEF Closing
<1> QED
  BY <1>2, <1>3, <1>4, <1>5, <1>6 DEF Opens

\* BlankEnd is defined at each position of the text and at its end.
LEMMA BlankEndDefined ==
  ASSUME src \in Seq(Chars)
  PROVE  \A p \in 1 .. Len(src) + 1 :
           BlankEnd[p] = AfterBlanks(p, BlankEnd) /\ BlankEnd[p] \in 0 .. Len(src) + 1
<1> DEFINE m == Len(src) + 1
           R == 0 .. m
           Step == [p \in 1 .. m |-> [f \in [1 .. m -> R] |-> AfterBlanks(p, f)]]
<1>1. m \in Nat /\ R # {}
  BY LenProperties
<1>2. ASSUME NEW p \in 1 .. m, NEW f, \A q \in p + 1 .. m : f[q] \in R
      PROVE  AfterBlanks(p, f) \in R
  <2>1. CASE IsSpace(CharAt(p))
    <3>1. p + 1 \in p + 1 .. m
      BY <1>1, <2>1, BlankPlaces
    <3>2. AfterBlanks(p, f) = f[p + 1]
      BY <2>1, BlankPlaces, Zenon DEF AfterBlanks
    <3> QED
      BY <1>2, <3>1, <3>2
  <2>2. CASE Opens(p)
    <3>1. p + 2 \in 1 .. m /\ AfterBlanks(p, f) = AfterComment(p + 2, f)
      BY <2>2, BlankPlaces DEF AfterBlanks
    <3>2. CASE Closing(p + 2) = {}
      BY <1>1, <3>1, <3>2 DEF AfterComment
    <3>3. CASE Closing(p + 2) # {}
      <4>1. Min(Closing(p + 2)) \in p + 2 .. Len(src) - 1
        BY <3>1, <3>3, BlankPlaces
      <4>2. Min(Closing(p + 2)) + 2 \in p + 1 .. m
        BY <1>1, <4>1
      <4> QED
        BY <1>2, <3>1, <3>3, <4>2 DEF AfterComment
    <3> QED
      BY <3>2, <3>3
  <2>3. CASE ~IsSpace(CharAt(p)) /\ ~Opens(p)
    BY <1>1, <2>3 DEF AfterBlanks
  <2> QED
    BY <2>1, <2>2, <2>3
<1>3. ASSUME NEW p \in 1 .. m, NEW f, NEW g, \A q \in p + 1 .. m : f[q] = g[q]
      PROVE  AfterBlanks(p, f) = AfterBlanks(p, g)
  <2>1. CASE IsSpace(CharAt(p))
    <3>1. p + 1 \in p + 1 .. m
      BY <1>1, <2>1, BlankPlaces
    <3>2. AfterBlanks(p, f) = f[p + 1] /\ AfterBlanks(p, g) = g[p + 1]
      BY <2>1, BlankPlaces, Zenon DEF AfterBlanks
    <3> QED
      BY <1>3, <3>1, <3>2
  <2>2. CASE Opens(p)
    <3>1. p + 2 \in 1 .. m /\ \A h : AfterBlanks(p, h) = AfterComment(p + 2, h)
      BY <2>2, BlankPlaces DEF AfterBlanks
    <3>2. CASE Closing(p + 2) = {}
      BY <3>1, <3>2 DEF AfterComment
    <3>3. CASE Closing(p + 2) # {}
      <4>1. Min(Closing(p + 2)) \in p + 2 .. Len(src) - 1
        BY <3>1, <3>3, BlankPlaces
      <4>2. Min(Closing(p + 2)) + 2 \in p + 1 .. m
        BY <1>1, <4>1
      <4> QED
        BY <1>3, <3>1, <3>3, <4>2 DEF AfterComment
    <3> QED
      BY <3>2, <3>3
  <2>3. CASE ~IsSpace(CharAt(p)) /\ ~Opens(p)
    BY <2>3 DEF AfterBlanks
  <2> QED
    BY <2>1, <2>2, <2>3
<1>4. Step \in [1 .. m -> [[1 .. m -> R] -> R]]
  <2> SUFFICES ASSUME NEW p \in 1 .. m, NEW f \in [1 .. m -> R]
               PROVE  AfterBlanks(p, f) \in R
    OBVIOUS
  <2>1. \A q \in p + 1 .. m : q \in 1 .. m
    BY <1>1
  <2>2. \A q \in p + 1 .. m : f[q] \in R
    BY <2>1
  <2> HIDE DEF m, R
  <2> QED
    BY <1>2, <2>2
<1>5. LooksAhead(m, R, Step)
  <2> SUFFICES ASSUME NEW p \in 1 .. m, NEW f \in [1 .. m -> R], NEW g \in [1 .. m -> R],
                      \A q \in p + 1 .. m : f[q] = g[q]
               PROVE  AfterBlanks(p, f) = AfterBlanks(p, g)
    BY DEF LooksAhead
  <2> HIDE DEF m, R
  <2> QED
    BY <1>3
<1>6. Solvable(m, R, Step)
  <2> HIDE DEF Step, R, m
  <2> QED
    BY <1>1, <1>4, <1>5, Recursion
<1>7. PICK f \in [1 .. m -> R] : \A p \in 1 .. m : f[p] = AfterBlanks(p, f)
  BY <1>6 DEF Solvable
<1>8. f = [p \in 1 .. m |-> AfterBlanks(p, f)]
  BY <1>7
<1>9. BlankEnd = [p \in 1 .. m |-> AfterBlanks(p, BlankEnd)]
  <2>1. BlankEnd = CHOOSE g : g = [p \in 1 .. m |-> AfterBlanks(p, g)]
    BY DEF BlankEnd, AfterBlanks, AfterComment, Closing, Opens
  <2> HIDE DEF m
  <2> QED
    BY <1>8, <2>1
<1>10. {p \in 1 .. m : BlankEnd[p] \in R} = 1 .. m
  <2> DEFINE S == {p \in 1 .. m : BlankEnd[p] \in R}
  <2>1. S \in SUBSET (1 .. m)
    OBVIOUS
  <2>2. ASSUME NEW p \in 1 .. m, \A q \in p + 1 .. m : q \in S
        PROVE  p \in S
    <3>1. AfterBlanks(p, BlankEnd) \in R
      BY <1>2, <2>2
    <3> QED
      BY <1>9, <3>1
  <2> HIDE DEF S, m
  <2>3. S = 1 .. m
    BY <1>1, <2>1, <2>2, FromTheEnd
  <2> QED
    BY <2>3 DEF S
<1> QED
  BY <1>9, <1>10

-------------------------------------------------------------------------------
(* The tokens of the text *)

\* Tokens without their kinds, and errors.
Untypeds == [data : Seq(Chars \union {EOF} \union Failed), line : Nat, column : Nat]

MoreTokens(p, f) ==
  LET b == BlankEnd[p]
      e == Min(TokenEnds(b))
  IN IF b = 0 THEN <<ErrorToken("open_comment")>>
     ELSE IF b = Len(src) + 1 THEN <<TokenAt(b, <<EOF>>)>>
     ELSE IF TokenEnds(b) = {} THEN <<ErrorToken("overflow")>>
     ELSE <<TokenAt(b, SubSeq(src, b, e - 1))>> \o f[e]

\* Every position has a line and a column.
LEMMA WhereTypes ==
  ASSUME src \in Seq(Chars), NEW p \in 1 .. Len(src) + 1
  PROVE  Where(p).line \in Nat \ {0} /\ Where(p).column \in Nat \ {0}
<1>1. Len(src) \in Nat
  BY LenProperties
<1>2. CASE p \in 1 .. Len(src)
  <2>1. PICK n : n = p + 1
    OBVIOUS
  <2> QED
    BY <1>2, <2>1, WhereNext
<1>3. CASE p = 1
  BY <1>3, WhereFirst
<1>4. CASE p # 1 /\ p \notin 1 .. Len(src)
  <2>1. PICK q : q = p - 1
    OBVIOUS
  <2>2. q \in 1 .. Len(src) /\ p = q + 1
    BY <1>1, <1>4, <2>1
  <2>3. /\ Where(q).line \in Nat \ {0} /\ Where(q).column \in Nat \ {0}
        /\ Where(p).line = IF src[q] = "\n" THEN Where(q).line + 1 ELSE Where(q).line
        /\ Where(p).column = IF src[q] = "\n" THEN 1 ELSE Where(q).column + 1
    BY <2>2, WhereNext
  <2> QED
    BY <2>3
<1> QED
  BY <1>2, <1>3, <1>4

LEMMA UntypedsAre ==
  ASSUME src \in Seq(Chars)
  PROVE  /\ \A what \in Failed : ErrorToken(what) \in Untypeds
         /\ \A p \in 1 .. Len(src) + 1 : TokenAt(p, <<EOF>>) \in Untypeds
         /\ \A p, e \in 1 .. Len(src) + 1 : p < e => TokenAt(p, SubSeq(src, p, e - 1)) \in Untypeds
<1> DEFINE C == Chars \union {EOF} \union Failed
<1>1. \A what \in Failed : ErrorToken(what) \in Untypeds
  <2> SUFFICES ASSUME NEW what \in Failed PROVE ErrorToken(what) \in Untypeds
    OBVIOUS
  <2>1. <<what>> \in Seq(C)
    OBVIOUS
  <2> QED
    BY <2>1 DEF ErrorToken, Untypeds
<1>2. ASSUME NEW p \in 1 .. Len(src) + 1, NEW data \in Seq(C)
      PROVE  TokenAt(p, data) \in Untypeds
  BY WhereTypes DEF TokenAt, Untypeds
<1>3. <<EOF>> \in Seq(C)
  OBVIOUS
<1>4. ASSUME NEW p \in 1 .. Len(src) + 1, NEW e \in 1 .. Len(src) + 1, p < e
      PROVE  SubSeq(src, p, e - 1) \in Seq(C)
  <2>1. Len(src) \in Nat /\ src \in Seq(C)
    <3>1. \A i \in 1 .. Len(src) : src[i] \in C
      BY ElementOfSeq
    <3> QED
      BY <3>1, LenProperties
  <2>2. p \in 1 .. Len(src) + 1 /\ e - 1 \in p - 1 .. Len(src)
    BY <1>4, <2>1
  <2> HIDE DEF C
  <2> QED
    BY <2>1, <2>2, SubSeqProperties, ElementOfSeq
<1> HIDE DEF C
<1> QED
  BY <1>1, <1>2, <1>3, <1>4, Zenon

\* Where a token may end.
LEMMA EndPlaces ==
  ASSUME src \in Seq(Chars), NEW b \in 1 .. Len(src)
  PROVE  /\ TokenEnds(b) \subseteq b + 1 .. Len(src) + 1
         /\ TokenEnds(b) # {} => /\ Min(TokenEnds(b)) \in TokenEnds(b)
                                 /\ Min(TokenEnds(b)) \in b + 1 .. Len(src) + 1
                                 /\ \A e \in TokenEnds(b) : Min(TokenEnds(b)) =< e
<1>1. Len(src) \in Nat
  BY LenProperties
<1>2. TokenEnds(b) \subseteq b + 1 .. Len(src) + 1
  <2>1. PICK first : first = IF Joins(<<src[b]>>, CharAt(b + 1)) THEN b + 2 ELSE b + 1
    OBVIOUS
  <2>2. first \in Nat /\ first >= b + 1
    BY <1>1, <2>1
  <2>3. TokenEnds(b) = {q \in first .. b + MaxToken - 1 : q =< Len(src) + 1 /\ Type(CharAt(q)) \intersect EndTypes(src[b]) # {}}
    BY <2>1 DEF TokenEnds
  <2> QED
    BY <1>1, <2>2, <2>3, LexerAssumption
<1>3. ASSUME TokenEnds(b) # {}
      PROVE  Min(TokenEnds(b)) \in TokenEnds(b) /\ \A e \in TokenEnds(b) : Min(TokenEnds(b)) =< e
  <2>1. TokenEnds(b) \in SUBSET Nat
    BY <1>1, <1>2
  <2> QED
    BY <1>3, <2>1, Least
<1> QED
  BY <1>2, <1>3

\* BlankEnd never goes back.
LEMMA BlankEndBehind ==
  ASSUME src \in Seq(Chars)
  PROVE  \A p \in 1 .. Len(src) + 1 : BlankEnd[p] = 0 \/ BlankEnd[p] \in p .. Len(src) + 1
<1> DEFINE m == Len(src) + 1
           S == {p \in 1 .. m : BlankEnd[p] = 0 \/ BlankEnd[p] \in p .. m}
<1>1. m \in Nat
  BY LenProperties
<1>2. ASSUME NEW p \in 1 .. m, \A q \in p + 1 .. m : q \in S
      PROVE  p \in S
  <2>1. BlankEnd[p] = AfterBlanks(p, BlankEnd)
    BY BlankEndDefined
  <2>2. \A q \in p + 1 .. m : BlankEnd[q] = 0 \/ BlankEnd[q] \in p .. m
    BY <1>2
  <2>3. CASE IsSpace(CharAt(p))
    <3>1. p + 1 \in p + 1 .. m
      BY <1>1, <2>3, BlankPlaces
    <3>2. AfterBlanks(p, BlankEnd) = BlankEnd[p + 1]
      BY <2>3, BlankPlaces, Zenon DEF AfterBlanks
    <3> QED
      BY <2>1, <2>2, <3>1, <3>2
  <2>4. CASE Opens(p)
    <3>1. p + 2 \in 1 .. m /\ AfterBlanks(p, BlankEnd) = AfterComment(p + 2, BlankEnd)
      BY <2>4, BlankPlaces DEF AfterBlanks
    <3>2. CASE Closing(p + 2) = {}
      BY <1>1, <2>1, <3>1, <3>2 DEF AfterComment
    <3>3. CASE Closing(p + 2) # {}
      <4>1. Min(Closing(p + 2)) \in p + 2 .. Len(src) - 1
        BY <3>1, <3>3, BlankPlaces
      <4>2. Min(Closing(p + 2)) + 2 \in p + 1 .. m
        BY <1>1, <4>1
      <4> QED
        BY <2>1, <2>2, <3>1, <3>3, <4>2 DEF AfterComment
    <3> QED
      BY <3>2, <3>3
  <2>5. CASE ~IsSpace(CharAt(p)) /\ ~Opens(p)
    BY <1>1, <2>1, <2>5 DEF AfterBlanks
  <2> QED
    BY <2>3, <2>4, <2>5
<1>3. S \in SUBSET (1 .. m)
  OBVIOUS
<1>4. S = 1 .. m
  <2> HIDE DEF S, m
  <2> QED
    BY <1>1, <1>2, <1>3, FromTheEnd
<1> QED
  BY <1>4

\* TokensFrom is defined at each position of the text and at its end.
LEMMA TokensFromDefined ==
  ASSUME src \in Seq(Chars)
  PROVE  \A p \in 1 .. Len(src) + 1 :
           TokensFrom[p] = MoreTokens(p, TokensFrom) /\ TokensFrom[p] \in Seq(Untypeds)
<1> DEFINE m == Len(src) + 1
           R == Seq(Untypeds)
           Step == [p \in 1 .. m |-> [f \in [1 .. m -> R] |-> MoreTokens(p, f)]]
<1>1. m \in Nat /\ R # {}
  <2>1. <<>> \in R
    OBVIOUS
  <2>2. m \in Nat
    BY LenProperties
  <2> QED
    BY <2>1, <2>2, Zenon
<1>2. ASSUME NEW p \in 1 .. m, NEW f, \A q \in p + 1 .. m : f[q] \in R
      PROVE  MoreTokens(p, f) \in R
  <2>1. PICK b : b = BlankEnd[p]
    OBVIOUS
  <2>2. b = 0 \/ b \in p .. m
    BY <2>1, BlankEndBehind
  <2>3. CASE b = 0
    <3>1. ErrorToken("open_comment") \in Untypeds
      BY UntypedsAre DEF Failed
    <3>2. MoreTokens(p, f) = <<ErrorToken("open_comment")>>
      BY <2>1, <2>3 DEF MoreTokens
    <3> QED
      BY <3>1, <3>2
  <2>4. CASE b = m
    <3>1. TokenAt(b, <<EOF>>) \in Untypeds
      BY <1>1, <2>4, UntypedsAre
    <3>2. MoreTokens(p, f) = <<TokenAt(b, <<EOF>>)>>
      BY <1>1, <2>1, <2>4 DEF MoreTokens
    <3> QED
      BY <3>1, <3>2
  <2>5. CASE b \in p .. m /\ b # m /\ TokenEnds(b) = {}
    <3>1. ErrorToken("overflow") \in Untypeds
      BY UntypedsAre DEF Failed
    <3>2. MoreTokens(p, f) = <<ErrorToken("overflow")>>
      BY <1>1, <2>1, <2>5 DEF MoreTokens
    <3> QED
      BY <3>1, <3>2
  <2>6. CASE b \in p .. m /\ b # m /\ TokenEnds(b) # {}
    <3>1. PICK e : e = Min(TokenEnds(b))
      OBVIOUS
    <3>2. b \in 1 .. Len(src)
      BY <1>1, <2>6
    <3>3. e \in b + 1 .. m
      BY <2>6, <3>1, <3>2, EndPlaces
    <3>4. e \in p + 1 .. m /\ e \in 1 .. m /\ b \in 1 .. m /\ b < e
      BY <1>1, <2>6, <3>3
    <3>5. TokenAt(b, SubSeq(src, b, e - 1)) \in Untypeds
      BY <3>4, UntypedsAre
    <3>6. MoreTokens(p, f) = <<TokenAt(b, SubSeq(src, b, e - 1))>> \o f[e]
      BY <1>1, <2>1, <2>6, <3>1 DEF MoreTokens
    <3>7. f[e] \in R /\ <<TokenAt(b, SubSeq(src, b, e - 1))>> \in R
      BY <1>2, <3>4, <3>5
    <3> QED
      BY <3>6, <3>7, ConcatProperties
  <2> QED
    BY <2>2, <2>3, <2>4, <2>5, <2>6
<1>3. ASSUME NEW p \in 1 .. m, NEW f, NEW g, \A q \in p + 1 .. m : f[q] = g[q]
      PROVE  MoreTokens(p, f) = MoreTokens(p, g)
  <2>1. PICK b : b = BlankEnd[p]
    OBVIOUS
  <2>2. b = 0 \/ b \in p .. m
    BY <2>1, BlankEndBehind
  <2>3. CASE b = 0 \/ b = m \/ TokenEnds(b) = {}
    BY <2>1, <2>3 DEF MoreTokens
  <2>4. CASE b # 0 /\ b # m /\ TokenEnds(b) # {}
    <3>1. PICK e : e = Min(TokenEnds(b))
      OBVIOUS
    <3>2. b \in 1 .. Len(src) /\ b \in p .. m
      BY <1>1, <2>2, <2>4
    <3>3. e \in b + 1 .. m
      BY <2>4, <3>1, <3>2, EndPlaces
    <3>4. e \in p + 1 .. m
      BY <1>1, <3>2, <3>3
    <3>5. \A h : MoreTokens(p, h) = <<TokenAt(b, SubSeq(src, b, e - 1))>> \o h[e]
      BY <1>1, <2>1, <2>4, <3>1 DEF MoreTokens
    <3> QED
      BY <1>3, <3>4, <3>5
  <2> QED
    BY <2>3, <2>4
<1>4. Step \in [1 .. m -> [[1 .. m -> R] -> R]]
  <2> SUFFICES ASSUME NEW p \in 1 .. m, NEW f \in [1 .. m -> R]
               PROVE  MoreTokens(p, f) \in R
    OBVIOUS
  <2>1. \A q \in p + 1 .. m : q \in 1 .. m
    BY <1>1
  <2>2. \A q \in p + 1 .. m : f[q] \in R
    BY <2>1
  <2> HIDE DEF m, R
  <2> QED
    BY <1>2, <2>2
<1>5. LooksAhead(m, R, Step)
  <2> SUFFICES ASSUME NEW p \in 1 .. m, NEW f \in [1 .. m -> R], NEW g \in [1 .. m -> R],
                      \A q \in p + 1 .. m : f[q] = g[q]
               PROVE  MoreTokens(p, f) = MoreTokens(p, g)
    BY DEF LooksAhead
  <2> HIDE DEF m, R
  <2> QED
    BY <1>3
<1>6. Solvable(m, R, Step)
  <2> HIDE DEF Step, R, m
  <2> QED
    BY <1>1, <1>4, <1>5, Recursion
<1>7. PICK f \in [1 .. m -> R] : \A p \in 1 .. m : f[p] = MoreTokens(p, f)
  BY <1>6 DEF Solvable
<1>8. f = [p \in 1 .. m |-> MoreTokens(p, f)]
  BY <1>7
<1>9. TokensFrom = [p \in 1 .. m |-> MoreTokens(p, TokensFrom)]
  <2>1. TokensFrom = CHOOSE g : g = [p \in 1 .. m |-> MoreTokens(p, g)]
    BY DEF TokensFrom, MoreTokens
  <2> HIDE DEF m
  <2> QED
    BY <1>8, <2>1
<1>10. {p \in 1 .. m : TokensFrom[p] \in R} = 1 .. m
  <2> DEFINE S == {p \in 1 .. m : TokensFrom[p] \in R}
  <2>1. S \in SUBSET (1 .. m)
    OBVIOUS
  <2>2. ASSUME NEW p \in 1 .. m, \A q \in p + 1 .. m : q \in S
        PROVE  p \in S
    <3>1. MoreTokens(p, TokensFrom) \in R
      BY <1>2, <2>2
    <3> QED
      BY <1>9, <3>1
  <2> HIDE DEF S, m
  <2>3. S = 1 .. m
    BY <1>1, <2>1, <2>2, FromTheEnd
  <2> QED
    BY <2>3 DEF S
<1> QED
  BY <1>9, <1>10

-------------------------------------------------------------------------------
(* How far the lexer has come *)

\* The tokens made so far, without their kinds.
Made == [i \in DOMAIN lexed |-> Untyped(lexed[i])]

\* They and those from p on are the tokens of the text.
LeftFrom(p) == Made \o TokensFrom[p] = TokensFrom[1]

BehindComment(p) == AfterComment(p, BlankEnd)

\* The token that begins at b has been read up to the reader, and does not end before it.
Reading(b) ==
  /\ b \in 1 .. Len(src) /\ LeftFrom(b) /\ BlankEnd[b] = b
  /\ token.data # <<>> /\ token.data[1] = src[b]
  /\ token.line = Where(b).line /\ token.column = Where(b).column
  /\ EndTypes(src[b]) # {} =>
       /\ in.pos = b + Len(token.data)
       /\ token.data = SubSeq(src, b, in.pos - 1)
       /\ \A e \in TokenEnds(b) : e >= in.pos

\* What is left of the text makes the tokens that are left.
Ahead ==
  /\ pc \in {"blanks", "comment?", "token"} => LeftFrom(in.pos)
  /\ pc = "idle" => IF Finished THEN Made = TokensFrom[1] ELSE LeftFrom(in.pos)
  /\ pc = "comment?" => ~IsSpace(Next1)
  /\ pc = "token" => BlankEnd[in.pos] = in.pos
  /\ pc = "comment" => \E b \in 1 .. Len(src) + 1 : LeftFrom(b) /\ BlankEnd[b] = BehindComment(in.pos)
  /\ pc = "in_token" => \E b \in 1 .. Len(src) : Reading(b)
  /\ pc \in Failed => Append(Made, ErrorToken(pc)) = TokensFrom[1]

\* Only the text and the tokens made decide what is left.
LEMMA SameText ==
  ASSUME UNCHANGED src
  PROVE  /\ BlankEnd' = BlankEnd /\ TokensFrom' = TokensFrom
         /\ \A p : /\ BehindComment(p)' = BehindComment(p)
                   /\ TokenEnds(p)' = TokenEnds(p)
                   /\ Where(p)' = Where(p)
                   /\ CharAt(p)' = CharAt(p)
<1>1. \A p : CharAt(p)' = CharAt(p) /\ Where(p)' = Where(p)
  BY DEF CharAt, Where
<1>2. BlankEnd' = BlankEnd
  BY DEF BlankEnd, CharAt
<1>3. TokensFrom' = TokensFrom
  BY DEF TokensFrom, BlankEnd, TokenEnds, TokenAt, Where, CharAt
<1>4. \A p : BehindComment(p)' = BehindComment(p)
  BY <1>2 DEF BehindComment, AfterComment, Closing
<1>5. \A p : TokenEnds(p)' = TokenEnds(p)
  BY DEF TokenEnds, CharAt
<1> QED
  BY <1>1, <1>2, <1>3, <1>4, <1>5

LEMMA SameMade ==
  ASSUME UNCHANGED <<src, lexed>>
  PROVE  Made' = Made /\ \A p : LeftFrom(p)' <=> LeftFrom(p)
<1>1. Made' = Made
  BY DEF Made
<1>2. TokensFrom' = TokensFrom
  BY SameText
<1> QED
  BY <1>1, <1>2 DEF LeftFrom

LEMMA UntypedType ==
  ASSUME NEW t \in Tokens
  PROVE  Untyped(t) \in Untypeds
<1>1. t.data \in Seq(Chars \union {EOF} \union Failed)
  <2>1. t.data \in Seq(Chars \union {EOF})
    BY DEF Tokens
  <2>2. Len(t.data) \in Nat /\ \A i \in 1 .. Len(t.data) : t.data[i] \in Chars \union {EOF} \union Failed
    BY <2>1, LenProperties, ElementOfSeq
  <2> QED
    BY <2>1, <2>2
<1> QED
  BY <1>1 DEF Tokens, Untyped, Untypeds

LEMMA MadeTypes ==
  ASSUME Types
  PROVE  Made \in Seq(Untypeds)
<1>1. lexed \in Seq(Tokens) /\ Len(lexed) \in Nat /\ DOMAIN lexed = 1 .. Len(lexed)
  BY LenProperties DEF Types
<1>2. \A t \in Tokens : Untyped(t) \in Untypeds
  BY UntypedType
<1>3. \A i \in 1 .. Len(lexed) : Untyped(lexed[i]) \in Untypeds
  BY <1>1, <1>2, ElementOfSeq
<1>4. Made \in [1 .. Len(lexed) -> Untypeds]
  BY <1>1, <1>3 DEF Made
<1> QED
  BY <1>1, <1>4, SeqDef

\* One token more.
LEMMA GiveMade ==
  ASSUME Types, NEW t \in Tokens, Give(t)
  PROVE  Made' = Append(Made, Untyped(t))
<1>1. lexed \in Seq(Tokens) /\ Len(lexed) \in Nat /\ DOMAIN lexed = 1 .. Len(lexed)
  BY LenProperties DEF Types
<1>2. PICK n : n = Len(lexed)
  OBVIOUS
<1>3. PICK s : s = Append(lexed, t)
  OBVIOUS
<1>4. /\ s \in Seq(Tokens) /\ DOMAIN s = 1 .. n + 1
      /\ \A i \in 1 .. n : s[i] = lexed[i]
      /\ s[n + 1] = t
  BY <1>1, <1>2, <1>3, AppendProperties, LenProperties
<1>5. lexed' = s
  BY <1>3 DEF Give
<1>6. Made' = [i \in 1 .. n + 1 |-> Untyped(s[i])]
  BY <1>4, <1>5 DEF Made
<1>7. Made \in Seq(Untypeds) /\ Len(Made) = n
  <2>1. Made \in Seq(Untypeds) /\ DOMAIN Made = 1 .. n
    BY <1>1, <1>2, MadeTypes DEF Made
  <2> QED
    BY <1>1, <1>2, <2>1, LenProperties
<1>8. PICK a : a = Append(Made, Untyped(t))
  OBVIOUS
<1>9. /\ a \in Seq(Untypeds) /\ Len(a) = n + 1
      /\ \A i \in 1 .. n : a[i] = Made[i]
      /\ a[n + 1] = Untyped(t)
  BY <1>7, <1>8, UntypedType, AppendProperties
<1>10. a = [i \in 1 .. n + 1 |-> a[i]]
  BY <1>9, LenProperties
<1>11. \A i \in 1 .. n + 1 : Untyped(s[i]) = a[i]
  BY <1>1, <1>2, <1>4, <1>9 DEF Made
<1> QED
  BY <1>6, <1>8, <1>10, <1>11

\* The blanks decide what the tokens from a position on are.
LEMMA SameBlanks ==
  ASSUME src \in Seq(Chars), NEW p \in 1 .. Len(src) + 1, NEW q \in 1 .. Len(src) + 1,
         BlankEnd[p] = BlankEnd[q]
  PROVE  LeftFrom(p) <=> LeftFrom(q)
<1>1. MoreTokens(p, TokensFrom) = MoreTokens(q, TokensFrom)
  BY DEF MoreTokens
<1>2. TokensFrom[p] = TokensFrom[q]
  BY <1>1, TokensFromDefined
<1> QED
  BY <1>2 DEF LeftFrom

\* The character the reader is at, and the next one.
LEMMA Reads ==
  ASSUME Types
  PROVE  /\ src \in Seq(Chars) /\ Len(src) \in Nat /\ in \in Readers /\ in.pos \in 1 .. Len(src) + 1
         /\ Next1 = EOF => in.pos = Len(src) + 1 /\ Getc(in).pos = in.pos
         /\ Next1 # EOF => /\ in.pos \in 1 .. Len(src) /\ Next1 = src[in.pos] /\ Next1 \in Chars
                           /\ Getc(in).pos = in.pos + 1 /\ Next2 = CharAt(in.pos + 1)
<1>1. src \in Seq(Chars) /\ Len(src) \in Nat /\ in \in Readers /\ in.pos \in 1 .. Len(src) + 1
  BY LenProperties DEF Types, Readers
<1>2. PICK c : c = CharAt(in.pos)
  OBVIOUS
<1>3. Getc(in).pos = IF c = EOF THEN in.pos ELSE in.pos + 1
  BY <1>1, <1>2, GetcIs
<1>4. c = EOF => in.pos = Len(src) + 1
  BY <1>1, <1>2, CharIs
<1>5. c # EOF => in.pos \in 1 .. Len(src) /\ c = src[in.pos] /\ c \in Chars
  BY <1>1, <1>2, CharIs
<1> QED
  BY <1>1, <1>2, <1>3, <1>4, <1>5 DEF Next1, Next2

\* Where the reader is after putting back what it read.
LEMMA PutBack ==
  ASSUME Types
  PROVE  /\ in' = Ungetc(Getc(in), Next1) => in'.pos = in.pos
         /\ Next1 = "~" /\ in' = Ungetc(Ungetc(Getc(Getc(in)), Next2), "~") => in'.pos = in.pos
<1>1. src \in Seq(Chars) /\ in \in Readers
  BY DEF Types
<1>2. ASSUME NEW u, u = Ungetc(Getc(in), Next1) PROVE u.pos = in.pos
  BY <1>1, <1>2, BackOne DEF Next1, SamePlace
<1>3. ASSUME Next1 = "~", NEW u, u = Ungetc(Ungetc(Getc(Getc(in)), Next2), "~") PROVE u.pos = in.pos
  BY <1>1, <1>3, BackTwo DEF Next1, Next2, SamePlace
<1> QED
  BY <1>2, <1>3

-------------------------------------------------------------------------------
(* Each step keeps what is left *)

\* A step on blanks and comments makes no token; what it owes depends on where it goes.
LEMMA SkipAhead ==
  ASSUME IInv, Ahead, \/ SkipBlank \/ BlanksDone \/ OpenComment \/ NoComment \/ InComment
                      \/ CloseComment \/ LoneTilde \/ UnclosedComment
  PROVE  Ahead'
<1> DEFINE m == Len(src) + 1
<1>1. Types /\ UNCHANGED <<src, lexed>>
  BY DEF IInv, SkipBlank, BlanksDone, OpenComment, NoComment, InComment, CloseComment, LoneTilde, UnclosedComment
<1>2. /\ Made' = Made /\ \A q : LeftFrom(q)' <=> LeftFrom(q)
      /\ BlankEnd' = BlankEnd /\ TokensFrom' = TokensFrom
      /\ \A q : BehindComment(q)' = BehindComment(q) /\ CharAt(q)' = CharAt(q)
  BY <1>1, SameMade, SameText
<1>3. PICK p : p = in.pos
  OBVIOUS
<1>4. /\ src \in Seq(Chars) /\ Len(src) \in Nat /\ p \in 1 .. m
      /\ Next1 = EOF => p = m
      /\ Next1 # EOF => /\ p \in 1 .. Len(src) /\ Next1 = src[p] /\ Next1 \in Chars
                        /\ Getc(in).pos = p + 1 /\ Next2 = CharAt(p + 1)
      /\ Next1 = CharAt(p)
  BY <1>1, <1>3, Reads DEF Next1
<1>5. \A q \in 1 .. m : BlankEnd[q] = AfterBlanks(q, BlankEnd) /\ BlankEnd[q] \in 0 .. m
  BY <1>4, BlankEndDefined
<1>6. PICK r : r = in'.pos
  OBVIOUS
<1>7. Next1 = "~" /\ Next2 = "~" <=> Opens(p)
  BY <1>4 DEF Opens, EOF
<1>8. CASE SkipBlank
  <2>1. IsSpace(CharAt(p)) /\ Next1 # EOF /\ pc = "blanks" /\ pc' = "blanks" /\ in' = Getc(in)
    BY <1>4, <1>8 DEF SkipBlank, IsSpace, Type, EOF
  <2>2. r = p + 1 /\ r \in 1 .. m
    BY <1>4, <1>6, <2>1
  <2>3. BlankEnd[p] = BlankEnd[r]
    BY <1>4, <1>5, <2>1, <2>2, BlankPlaces, Zenon DEF AfterBlanks
  <2>4. LeftFrom(r)
    BY <1>3, <1>4, <2>1, <2>2, <2>3, SameBlanks DEF Ahead
  <2>5. LeftFrom(in.pos)'
    BY <1>2, <1>6, <2>4 DEF LeftFrom
  <2> QED
    BY <2>1, <2>5 DEF Ahead, Failed
<1>9. CASE BlanksDone
  <2>1. ~IsSpace(CharAt(p)) /\ pc = "blanks" /\ pc' = "comment?" /\ r = p
    BY <1>1, <1>3, <1>4, <1>6, <1>9, PutBack DEF BlanksDone
  <2>2. LeftFrom(p)
    BY <1>3, <2>1 DEF Ahead
  <2>3. LeftFrom(in.pos)' /\ ~IsSpace(Next1)'
    BY <1>2, <1>6, <2>1, <2>2 DEF LeftFrom, Next1, IsSpace, Type
  <2> QED
    BY <2>1, <2>3 DEF Ahead, Failed
<1>10. CASE OpenComment
  <2>1. Opens(p) /\ pc = "comment?" /\ pc' = "comment" /\ in' = Getc(Getc(in))
    BY <1>7, <1>10 DEF OpenComment
  <2>2. p + 2 \in 1 .. m /\ BlankEnd[p] = BehindComment(p + 2)
    BY <1>4, <1>5, <2>1, BlankPlaces DEF AfterBlanks, BehindComment
  <2>3. r = p + 2
    <3>1. Getc(in).pos = p + 1 /\ CharAt(p + 1) # EOF
      BY <1>4, <2>1 DEF Opens, EOF
    <3>2. Getc(Getc(in)).pos = Getc(in).pos + 1
      BY <3>1 DEF Getc
    <3> QED
      BY <1>4, <1>6, <2>1, <3>1, <3>2
  <2>4. LeftFrom(p)
    BY <1>3, <2>1 DEF Ahead
  <2>5. \E b \in 1 .. Len(src) + 1 : LeftFrom(b) /\ BlankEnd[b] = BehindComment(r)
    BY <1>4, <2>2, <2>3, <2>4
  <2>6. (\E b \in 1 .. Len(src) + 1 : LeftFrom(b) /\ BlankEnd[b] = BehindComment(in.pos))'
    BY <1>1, <1>2, <1>6, <2>5 DEF LeftFrom, BehindComment, AfterComment, Closing
  <2> QED
    BY <2>1, <2>6 DEF Ahead, Failed
<1>11. CASE NoComment
  <2>1. ~Opens(p) /\ pc = "comment?" /\ pc' \in {"blanks", "token"} /\ r = p
    <3>1. in' = Ungetc(Getc(in), Next1) \/ (Next1 = "~" /\ in' = Ungetc(Ungetc(Getc(Getc(in)), Next2), "~"))
      BY <1>11 DEF NoComment
    <3>2. r = p
      BY <1>1, <1>3, <1>6, <3>1, PutBack
    <3> QED
      BY <1>7, <1>11, <3>2 DEF NoComment
  <2>2. LeftFrom(p) /\ ~IsSpace(CharAt(p))
    BY <1>3, <1>4, <2>1 DEF Ahead
  <2>3. BlankEnd[p] = p
    BY <1>4, <1>5, <2>1, <2>2 DEF AfterBlanks
  <2>4. LeftFrom(in.pos)' /\ (BlankEnd[in.pos] = in.pos)'
    BY <1>2, <1>6, <2>1, <2>2, <2>3 DEF LeftFrom
  <2> QED
    BY <2>1, <2>4 DEF Ahead, Failed
<1>12. ASSUME pc = "comment"
       PROVE  \E b \in 1 .. Len(src) + 1 : LeftFrom(b) /\ BlankEnd[b] = BehindComment(p)
  BY <1>3, <1>12 DEF Ahead
<1>13. ASSUME NEW b \in 1 .. Len(src) + 1, LeftFrom(b), BlankEnd[b] = 0
       PROVE  Append(Made, ErrorToken("open_comment")) = TokensFrom[1]
  <2>1. TokensFrom[b] = <<ErrorToken("open_comment")>>
    BY <1>4, <1>13, TokensFromDefined DEF MoreTokens
  <2>2. Made \in Seq(Untypeds) /\ ErrorToken("open_comment") \in Untypeds
    BY <1>1, <1>4, MadeTypes, UntypedsAre DEF Failed
  <2>3. Append(Made, ErrorToken("open_comment")) = Made \o <<ErrorToken("open_comment")>>
    BY <2>2, AppendIsConcat
  <2> QED
    BY <1>13, <2>1, <2>3 DEF LeftFrom
<1>14. CASE InComment
  <2>1. pc = "comment" /\ pc' = "comment" /\ in' = Getc(in) /\ Next1 # "~" /\ Next1 # EOF
    BY <1>14 DEF InComment
  <2>2. r = p + 1 /\ src[p] # "~"
    BY <1>4, <1>6, <2>1
  <2>3. Closing(p) = Closing(r)
    BY <1>4, <2>2 DEF Closing
  <2>4. BehindComment(p) = BehindComment(r)
    BY <2>3 DEF BehindComment, AfterComment
  <2>5. \E b \in 1 .. Len(src) + 1 : LeftFrom(b) /\ BlankEnd[b] = BehindComment(r)
    BY <1>12, <2>1, <2>4
  <2>6. (\E b \in 1 .. Len(src) + 1 : LeftFrom(b) /\ BlankEnd[b] = BehindComment(in.pos))'
    BY <1>1, <1>2, <1>6, <2>5 DEF LeftFrom, BehindComment, AfterComment, Closing
  <2> QED
    BY <2>1, <2>6 DEF Ahead, Failed
<1>15. CASE CloseComment
  <2>1. Opens(p) /\ pc = "comment" /\ pc' = "blanks" /\ in' = Getc(Getc(in))
    BY <1>7, <1>15 DEF CloseComment
  <2>2. r = p + 2
    <3>1. Getc(in).pos = p + 1 /\ CharAt(p + 1) # EOF
      BY <1>4, <2>1 DEF Opens, EOF
    <3>2. Getc(Getc(in)).pos = Getc(in).pos + 1
      BY <3>1 DEF Getc
    <3> QED
      BY <1>4, <1>6, <2>1, <3>1, <3>2
  <2>3. p \in Closing(p) /\ r \in 1 .. m
    <3>1. p \in 1 .. Len(src) - 1 /\ r \in 1 .. m
      BY <1>4, <2>1, <2>2, BlankPlaces
    <3>2. src[p] = "~" /\ src[p + 1] = "~"
      BY <1>4, <2>1, <3>1 DEF Opens, CharAt
    <3> QED
      BY <3>1, <3>2 DEF Closing
  <2>4. Min(Closing(p)) = p
    <3>1. Min(Closing(p)) \in p .. Len(src) - 1 /\ Min(Closing(p)) =< p
      BY <1>4, <2>3, BlankPlaces
    <3> QED
      BY <1>4, <3>1
  <2>5. BehindComment(p) = BlankEnd[r]
    <3>1. Closing(p) # {}
      BY <2>3
    <3> QED
      BY <2>2, <2>4, <3>1 DEF BehindComment, AfterComment
  <2>6. LeftFrom(r)
    BY <1>4, <1>12, <2>1, <2>3, <2>5, SameBlanks
  <2>7. LeftFrom(in.pos)'
    BY <1>2, <1>6, <2>6 DEF LeftFrom
  <2> QED
    BY <2>1, <2>7 DEF Ahead, Failed
<1>16. CASE LoneTilde
  <2>1. pc = "comment" /\ Next1 = "~" /\ r = p
    BY <1>1, <1>3, <1>6, <1>16, PutBack DEF LoneTilde
  <2>2. CASE Next2 # EOF
    <3>1. pc' = "comment"
      BY <1>16, <2>2 DEF LoneTilde
    <3>2. \E b \in 1 .. Len(src) + 1 : LeftFrom(b) /\ BlankEnd[b] = BehindComment(r)
      BY <1>12, <2>1
    <3>3. (\E b \in 1 .. Len(src) + 1 : LeftFrom(b) /\ BlankEnd[b] = BehindComment(in.pos))'
      BY <1>1, <1>2, <1>6, <3>2 DEF LeftFrom, BehindComment, AfterComment, Closing
    <3> QED
      BY <3>1, <3>3 DEF Ahead, Failed
  <2>3. CASE Next2 = EOF
    <3>1. pc' = "open_comment"
      BY <1>16, <2>3 DEF LoneTilde
    <3>2. p = Len(src)
      <4>1. p \in 1 .. Len(src) /\ CharAt(p + 1) = EOF
        BY <1>4, <2>1, <2>3 DEF EOF
      <4>2. p + 1 \in 1 .. m
        BY <1>4, <4>1
      <4>3. p + 1 = m
        BY <1>4, <4>1, <4>2, CharIs
      <4> QED
        BY <1>4, <4>3
    <3>3. Closing(p) = {}
      BY <1>4, <3>2 DEF Closing
    <3>4. BehindComment(p) = 0
      BY <3>3 DEF BehindComment, AfterComment
    <3>5. Append(Made, ErrorToken("open_comment")) = TokensFrom[1]
      BY <1>12, <1>13, <2>1, <3>4
    <3>6. (Append(Made, ErrorToken(pc)) = TokensFrom[1])'
      BY <1>2, <3>1, <3>5 DEF ErrorToken
    <3> QED
      BY <3>1, <3>6 DEF Ahead, Failed
  <2> QED
    BY <2>2, <2>3
<1>17. CASE UnclosedComment
  <2>1. pc = "comment" /\ pc' = "open_comment" /\ p = m
    BY <1>4, <1>17 DEF UnclosedComment
  <2>2. Closing(p) = {}
    BY <1>4, <2>1 DEF Closing
  <2>3. BehindComment(p) = 0
    BY <2>2 DEF BehindComment, AfterComment
  <2>4. Append(Made, ErrorToken("open_comment")) = TokensFrom[1]
    BY <1>12, <1>13, <2>1, <2>3
  <2>5. (Append(Made, ErrorToken(pc)) = TokensFrom[1])'
    BY <1>2, <2>1, <2>4 DEF ErrorToken
  <2> QED
    BY <2>1, <2>5 DEF Ahead, Failed
<1> QED
  BY <1>8, <1>9, <1>10, <1>11, <1>14, <1>15, <1>16, <1>17

\* A call to the client makes no token.
LEMMA ClientAhead ==
  ASSUME IInv, Ahead, LexUnlexed \/ Unlex \/ CallLex \/ UNCHANGED vars
  PROVE  Ahead'
<1>1. Types /\ Stream /\ UNCHANGED <<src, in, lexed, token>>
  BY DEF IInv, LexUnlexed, Unlex, CallLex, vars
<1>2. /\ Made' = Made /\ \A q : LeftFrom(q)' <=> LeftFrom(q)
      /\ BlankEnd' = BlankEnd /\ TokensFrom' = TokensFrom
      /\ \A q : BehindComment(q)' = BehindComment(q) /\ CharAt(q)' = CharAt(q) /\ Where(q)' = Where(q)
                /\ TokenEnds(q)' = TokenEnds(q)
  BY <1>1, SameMade, SameText
<1>3. LeftFrom(in.pos)' <=> LeftFrom(in.pos)
  BY <1>1, <1>2 DEF LeftFrom
<1>4. CASE LexUnlexed \/ Unlex
  <2>1. pc = "idle" /\ pc' = "idle"
    BY <1>4 DEF LexUnlexed, Unlex
  <2>2. Finished' <=> Finished
    BY <1>1, <2>1 DEF Finished
  <2> QED
    BY <1>2, <1>3, <2>1, <2>2 DEF Ahead, Failed
<1>5. CASE CallLex
  <2>1. pc = "idle" /\ pc' = "blanks" /\ ~AtEnd /\ unlexed = <<>>
    BY <1>5 DEF CallLex
  <2>2. held = lexed
    BY <1>1, <2>1, ReverseEmpty, ConcatEmptySeq DEF Types, Stream
  <2>3. ~Finished
    BY <2>1, <2>2 DEF Finished, AtEnd
  <2> QED
    BY <1>3, <2>1, <2>3 DEF Ahead, Failed
<1>6. CASE UNCHANGED vars
  <2>1. pc' = pc
    BY <1>6 DEF vars
  <2>2. (Finished' <=> Finished) /\ (IsSpace(Next1)' <=> IsSpace(Next1))
    BY <1>1, <2>1 DEF Finished, Next1, CharAt, IsSpace, Type
  <2>3. pc = "comment" =>
          (\E b \in 1 .. Len(src) + 1 : LeftFrom(b) /\ BlankEnd[b] = BehindComment(in.pos))'
    BY <1>1, <1>2, <2>1 DEF Ahead, LeftFrom, BehindComment, AfterComment, Closing
  <2>4. pc = "in_token" => (\E b \in 1 .. Len(src) : Reading(b))'
    <3>1. ASSUME NEW b, Reading(b)
          PROVE  Reading(b)'
      BY <1>1, <1>2, <3>1 DEF Reading, LeftFrom
    <3> HIDE DEF Reading
    <3> QED
      BY <1>1, <3>1 DEF Ahead
  <2>5. pc \in Failed => (Append(Made, ErrorToken(pc)) = TokensFrom[1])'
    BY <1>2, <2>1 DEF Ahead, ErrorToken
  <2>6. pc = "token" => (BlankEnd[in.pos] = in.pos)'
    BY <1>1, <1>2, <2>1 DEF Ahead
  <2>7. pc = "idle" => (IF Finished THEN Made = TokensFrom[1] ELSE LeftFrom(in.pos))'
    BY <1>2, <1>3, <2>2 DEF Ahead
  <2> QED
    BY <1>3, <2>1, <2>2, <2>3, <2>4, <2>5, <2>6, <2>7 DEF Ahead
<1> QED
  BY <1>4, <1>5, <1>6

\* A part of a text, and one character more.
LEMMA SubSeqOneMore ==
  ASSUME NEW S, NEW s \in Seq(S), NEW b \in 1 .. Len(s), NEW e \in b .. Len(s)
  PROVE  SubSeq(s, b, e) = Append(SubSeq(s, b, e - 1), s[e])
<1>1. Len(s) \in Nat /\ \A i \in 1 .. Len(s) : s[i] \in S
  BY LenProperties, ElementOfSeq
<1>2. PICK u : u = SubSeq(s, b, e)
  OBVIOUS
<1>3. PICK v : v = SubSeq(s, b, e - 1)
  OBVIOUS
<1>4. /\ u \in Seq(S) /\ Len(u) = e - b + 1
      /\ \A i \in 1 .. e - b + 1 : u[i] = s[b + i - 1]
  BY <1>1, <1>2, SubSeqProperties
<1>5. /\ v \in Seq(S) /\ Len(v) = e - b
      /\ \A i \in 1 .. e - b : v[i] = s[b + i - 1]
  <2>1. CASE b =< e - 1
    BY <1>1, <1>3, <2>1, SubSeqProperties
  <2>2. CASE ~(b =< e - 1)
    BY <1>1, <1>3, <2>2, SubSeqProperties
  <2> QED
    BY <2>1, <2>2
<1>6. PICK w : w = Append(v, s[e])
  OBVIOUS
<1>7. /\ w \in Seq(S) /\ Len(w) = e - b + 1
      /\ \A i \in 1 .. e - b : w[i] = v[i]
      /\ w[e - b + 1] = s[e]
  BY <1>1, <1>5, <1>6, AppendProperties
<1>8. \A i \in 1 .. e - b + 1 : u[i] = w[i]
  <2> SUFFICES ASSUME NEW i \in 1 .. e - b + 1 PROVE u[i] = w[i]
    OBVIOUS
  <2>1. CASE i = e - b + 1
    BY <1>1, <1>4, <1>7, <2>1
  <2>2. CASE i \in 1 .. e - b
    BY <1>1, <1>4, <1>5, <1>7, <2>2
  <2> QED
    BY <1>1, <2>1, <2>2
<1> QED
  BY <1>2, <1>3, <1>4, <1>6, <1>7, <1>8, SeqEqual

\* What makes a token one that is being read after a step.
LEMMA ReadingNext ==
  ASSUME UNCHANGED <<src, lexed>>, NEW b \in 1 .. Len(src), LeftFrom(b), BlankEnd[b] = b,
         NEW t, t = token', NEW r, r = in'.pos,
         t.data # <<>>, t.data[1] = src[b],
         t.line = Where(b).line, t.column = Where(b).column,
         EndTypes(src[b]) # {} =>
           r = b + Len(t.data) /\ t.data = SubSeq(src, b, r - 1) /\ \A e \in TokenEnds(b) : e >= r
  PROVE  (\E c \in 1 .. Len(src) : Reading(c))'
<1>1. /\ \A q : LeftFrom(q)' <=> LeftFrom(q)
      /\ BlankEnd' = BlankEnd
      /\ \A q : Where(q)' = Where(q) /\ TokenEnds(q)' = TokenEnds(q)
  BY SameMade, SameText
<1>2. Reading(b)'
  BY <1>1 DEF Reading, LeftFrom
<1> HIDE DEF Reading
<1> QED
  BY <1>2

LEMMA StartAhead ==
  ASSUME IInv, Ahead, StartToken
  PROVE  Ahead'
<1>1. /\ Types /\ Right(in) /\ UNCHANGED <<src, lexed>> /\ pc = "token" /\ pc' = "in_token"
      /\ Next1 # EOF /\ in' = Getc(in)
  BY RightAtWork DEF IInv, StartToken, Work
<1>2. PICK b : b = in.pos
  OBVIOUS
<1>3. /\ src \in Seq(Chars) /\ Len(src) \in Nat
      /\ b \in 1 .. Len(src) /\ Next1 = src[b] /\ in'.pos = b + 1
  BY <1>1, <1>2, Reads
<1>4. PICK t : t = token'
  OBVIOUS
<1>5. t.data = <<src[b]>> /\ t.line = in.line /\ t.column = in.column
  BY <1>3, <1>4 DEF StartToken, NoToken
<1>6. LeftFrom(b) /\ BlankEnd[b] = b
  BY <1>1, <1>2 DEF Ahead
<1>7. t.line = Where(b).line /\ t.column = Where(b).column
  BY <1>1, <1>2, <1>5 DEF Right
<1>8. SubSeq(src, b, b) = <<src[b]>>
  <2>1. SubSeq(src, b, b) = Append(SubSeq(src, b, b - 1), src[b])
    BY <1>3, SubSeqOneMore
  <2>2. SubSeq(src, b, b - 1) = <<>>
    <3>1. b - 1 \in Int /\ ~(b =< b - 1)
      BY <1>3
    <3> QED
      BY <1>3, <3>1, SubSeqProperties, EmptySeq
  <2>3. Append(<<>>, src[b]) = <<src[b]>>
    OBVIOUS
  <2> QED
    BY <2>1, <2>2, <2>3
<1>9. \A e \in TokenEnds(b) : e >= b + 1
  BY <1>3, EndPlaces
<1>10. PICK r : r = in'.pos
  OBVIOUS
<1>11. r = b + 1 /\ r - 1 = b /\ Len(t.data) = 1 /\ t.data # <<>> /\ t.data[1] = src[b]
  BY <1>3, <1>5, <1>10
<1>12. (\E c \in 1 .. Len(src) : Reading(c))'
  BY <1>1, <1>3, <1>4, <1>5, <1>6, <1>7, <1>8, <1>9, <1>10, <1>11, ReadingNext
<1> QED
  BY <1>1, <1>12 DEF Ahead, Failed

LEMMA EndOfTextAhead ==
  ASSUME IInv, Ahead, EndOfText
  PROVE  Ahead'
<1>1. /\ Types /\ Stream /\ Right(in) /\ UNCHANGED src /\ pc = "token" /\ pc' = "idle"
      /\ Next1 = EOF /\ UNCHANGED unlexed
  BY RightAtWork DEF IInv, EndOfText, Work
<1>2. PICK b : b = in.pos
  OBVIOUS
<1>3. src \in Seq(Chars) /\ Len(src) \in Nat /\ b \in 1 .. Len(src) + 1 /\ b = Len(src) + 1
  BY <1>1, <1>2, Reads
<1>4. PICK t : t = [kind |-> EOF, data |-> <<EOF>>, line |-> in.line, column |-> in.column]
  OBVIOUS
<1>5. t \in Tokens /\ t.data = <<EOF>> /\ Give(t)
  BY <1>1, <1>4 DEF Tokens, Kinds, Types, Readers, EndOfText
<1>6. Untyped(t) = TokenAt(b, <<EOF>>)
  BY <1>1, <1>2, <1>4 DEF Right, Untyped, TokenAt
<1>7. lexed' # <<>> /\ Last(lexed') = t
  BY <1>1, <1>5, GiveStream
<1>8. Finished'
  BY <1>1, <1>5, <1>7 DEF Finished
<1>9. LeftFrom(b) /\ BlankEnd[b] = b
  BY <1>1, <1>2 DEF Ahead
<1>10. TokensFrom[b] = <<TokenAt(b, <<EOF>>)>>
  <2>1. b # 0
    BY <1>3
  <2>2. MoreTokens(b, TokensFrom) = <<TokenAt(b, <<EOF>>)>>
    BY <1>3, <1>9, <2>1, Zenon DEF MoreTokens
  <2> QED
    BY <1>3, <2>2, TokensFromDefined
<1>11. Made' = Append(Made, TokenAt(b, <<EOF>>))
  BY <1>1, <1>5, <1>6, GiveMade
<1>12. Append(Made, TokenAt(b, <<EOF>>)) = Made \o <<TokenAt(b, <<EOF>>)>>
  BY <1>1, <1>5, <1>6, MadeTypes, UntypedType, AppendIsConcat
<1>13. (Made = TokensFrom[1])'
  BY <1>1, <1>9, <1>10, <1>11, <1>12, SameText DEF LeftFrom
<1> QED
  BY <1>1, <1>8, <1>13 DEF Ahead, Failed

\* A token that does not end here does not end at the reader.
LEMMA NotEnded ==
  ASSUME Types, NEW b, Reading(b), EndTypes(src[b]) # {}, ~Ends(token.data, Next1)
  PROVE  Next1 # EOF /\ \A e \in TokenEnds(b) : e > in.pos
<1>1. /\ b \in 1 .. Len(src) /\ token.data[1] = src[b] /\ in.pos = b + Len(token.data)
      /\ \A e \in TokenEnds(b) : e >= in.pos
  BY DEF Reading
<1>2. Len(token.data) \in Nat /\ src \in Seq(Chars) /\ Len(src) \in Nat
  BY LenProperties DEF Types, Tokens
<1>3. Next1 # EOF
  BY <1>1 DEF Ends, Joins, EndTypes, Type, EOF
<1>4. in.pos \notin TokenEnds(b)
  <2>1. CASE Type(Next1) \intersect EndTypes(src[b]) = {}
    BY <2>1 DEF TokenEnds, Next1
  <2>2. CASE Type(Next1) \intersect EndTypes(src[b]) # {}
    <3>1. Joins(token.data, Next1)
      BY <1>1, <2>2 DEF Ends
    <3>2. Len(token.data) = 1 /\ in.pos = b + 1
      BY <1>1, <3>1 DEF Joins
    <3>3. Joins(<<src[b]>>, CharAt(b + 1))
      BY <1>1, <3>1, <3>2 DEF Joins, Next1
    <3>4. \A e \in TokenEnds(b) : e \in b + 2 .. b + MaxToken - 1
      BY <3>3 DEF TokenEnds
    <3> QED
      BY <1>1, <3>2, <3>4, LexerAssumption
  <2> QED
    BY <2>1, <2>2
<1>5. \A e \in TokenEnds(b) : e \in Nat
  BY <1>1, <1>2, EndPlaces
<1> QED
  BY <1>1, <1>2, <1>3, <1>4, <1>5

LEMMA ExtendAhead ==
  ASSUME IInv, Ahead, ExtendToken
  PROVE  Ahead'
<1>1. /\ Types /\ UNCHANGED <<src, lexed>> /\ pc = "in_token" /\ pc' = "in_token"
      /\ in' = Getc(in) /\ ~Ends(token.data, Next1)
  BY DEF IInv, ExtendToken
<1>2. PICK b \in 1 .. Len(src) : Reading(b)
  BY <1>1 DEF Ahead
<1>3. PICK data : data = token.data
  OBVIOUS
<1>4. PICK more : more = Append(data, Next1)
  OBVIOUS
<1>5. PICK t : t = token'
  OBVIOUS
<1>6. t.data = more /\ t.line = token.line /\ t.column = token.column
  BY <1>1, <1>3, <1>4, <1>5 DEF ExtendToken, Types, Tokens
<1>7. data \in Seq(Chars \union {EOF}) /\ data # <<>> /\ data[1] = src[b]
  BY <1>1, <1>2, <1>3 DEF Types, Tokens, Reading
<1>8. /\ Len(data) \in Nat /\ Len(data) > 0 /\ Len(more) = Len(data) + 1
      /\ more # <<>> /\ more[1] = src[b]
  <2>1. Next1 \in Chars \union {EOF}
    BY <1>1, Reads
  <2>2. Len(data) \in Nat /\ Len(data) > 0
    BY <1>7, EmptySeq
  <2>3. /\ more \in Seq(Chars \union {EOF}) /\ Len(more) = Len(data) + 1
        /\ \A i \in 1 .. Len(data) : more[i] = data[i]
    BY <1>4, <1>7, <2>1, AppendProperties
  <2>4. more # <<>> /\ 1 \in 1 .. Len(data)
    BY <2>2, <2>3
  <2> QED
    BY <1>7, <2>2, <2>3, <2>4
<1>9. PICK r : r = in'.pos
  OBVIOUS
<1>10. ASSUME EndTypes(src[b]) # {}
       PROVE  r = b + Len(more) /\ more = SubSeq(src, b, r - 1) /\ \A e \in TokenEnds(b) : e >= r
  <2>1. Next1 # EOF /\ \A e \in TokenEnds(b) : e > in.pos
    BY <1>1, <1>2, <1>10, NotEnded
  <2>2. /\ src \in Seq(Chars) /\ Len(src) \in Nat /\ in.pos \in 1 .. Len(src) /\ Next1 = src[in.pos]
        /\ r = in.pos + 1
    BY <1>1, <1>9, <2>1, Reads
  <2>3. in.pos = b + Len(data) /\ data = SubSeq(src, b, in.pos - 1)
    BY <1>2, <1>3, <1>10 DEF Reading
  <2>4. in.pos \in b .. Len(src) /\ r = b + Len(more) /\ r - 1 = in.pos
    BY <1>8, <2>2, <2>3
  <2>5. SubSeq(src, b, in.pos) = Append(data, src[in.pos])
    BY <2>2, <2>3, <2>4, SubSeqOneMore
  <2>6. \A e \in TokenEnds(b) : e \in Nat
    BY <2>2, EndPlaces
  <2>7. \A e \in TokenEnds(b) : e >= r
    BY <2>1, <2>2, <2>6
  <2> QED
    BY <1>4, <2>2, <2>4, <2>5, <2>7
<1>11. LeftFrom(b) /\ BlankEnd[b] = b /\ t.line = Where(b).line /\ t.column = Where(b).column
  BY <1>2, <1>6 DEF Reading
<1>12. (\E c \in 1 .. Len(src) : Reading(c))'
  BY <1>1, <1>5, <1>6, <1>8, <1>9, <1>10, <1>11, ReadingNext
<1> QED
  BY <1>1, <1>12 DEF Ahead, Failed

LEMMA OverflowAhead ==
  ASSUME IInv, Ahead, Overflow
  PROVE  Ahead'
<1>1. /\ Types /\ UNCHANGED <<src, lexed>> /\ pc = "in_token" /\ pc' = "overflow"
      /\ ~Ends(token.data, Next1) /\ Len(token.data) = MaxToken - 1
  BY DEF IInv, Overflow
<1>2. PICK b \in 1 .. Len(src) : Reading(b)
  BY <1>1 DEF Ahead
<1>3. src \in Seq(Chars) /\ Len(src) \in Nat
  BY <1>1, Reads
<1>4. TokenEnds(b) = {}
  <2>1. CASE EndTypes(src[b]) = {}
    BY <2>1 DEF TokenEnds
  <2>2. CASE EndTypes(src[b]) # {}
    <3>1. \A e \in TokenEnds(b) : e > in.pos
      BY <1>1, <1>2, <2>2, NotEnded
    <3>2. in.pos = b + MaxToken - 1
      BY <1>1, <1>2, <2>2, LexerAssumption DEF Reading
    <3>3. \A e \in TokenEnds(b) : e =< b + MaxToken - 1 /\ e \in Nat
      <4>1. \A e \in TokenEnds(b) : e \in Nat
        BY <1>3, EndPlaces
      <4>2. \A e \in TokenEnds(b) : \E first \in {b + 1, b + 2} : e \in first .. b + MaxToken - 1
        BY DEF TokenEnds
      <4> QED
        BY <1>3, <4>1, <4>2, LexerAssumption
    <3> QED
      BY <1>3, <3>1, <3>2, <3>3, LexerAssumption
  <2> QED
    BY <2>1, <2>2
<1>5. LeftFrom(b) /\ BlankEnd[b] = b
  BY <1>2 DEF Reading
<1>6. TokensFrom[b] = <<ErrorToken("overflow")>>
  <2>1. b # 0 /\ b # Len(src) + 1 /\ b \in 1 .. Len(src) + 1
    BY <1>3
  <2> QED
    BY <1>3, <1>4, <1>5, <2>1, TokensFromDefined DEF MoreTokens
<1>7. Append(Made, ErrorToken("overflow")) = Made \o <<ErrorToken("overflow")>>
  BY <1>1, <1>3, MadeTypes, UntypedsAre, AppendIsConcat DEF Failed
<1>8. Append(Made, ErrorToken("overflow")) = TokensFrom[1]
  BY <1>5, <1>6, <1>7 DEF LeftFrom
<1>9. (Append(Made, ErrorToken(pc)) = TokensFrom[1])'
  BY <1>1, <1>8, SameMade, SameText DEF ErrorToken
<1> QED
  BY <1>1, <1>9 DEF Ahead, Failed

LEMMA EndAhead ==
  ASSUME IInv, Ahead, EndToken
  PROVE  Ahead'
<1>1. /\ Types /\ Bounded /\ Stream /\ UNCHANGED <<src, unlexed>> /\ pc = "in_token" /\ pc' = "idle"
      /\ in' = Ungetc(Getc(in), Next1) /\ Ends(token.data, Next1)
  BY DEF IInv, EndToken
<1>2. PICK b \in 1 .. Len(src) : Reading(b)
  BY <1>1 DEF Ahead
<1>3. PICK e : e = in.pos
  OBVIOUS
<1>4. src \in Seq(Chars) /\ Len(src) \in Nat /\ e \in 1 .. Len(src) + 1 /\ in'.pos = e
  BY <1>1, <1>3, Reads, PutBack
<1>5. PICK data : data = token.data
  OBVIOUS
<1>6. /\ data \in Seq(Chars \union {EOF}) /\ Len(data) \in Nat /\ Len(data) > 0
      /\ data[1] = src[b] /\ Len(data) < MaxToken
  BY <1>1, <1>2, <1>5, EmptySeq DEF Types, Tokens, Reading, Bounded
<1>7. EndTypes(src[b]) # {} /\ Type(CharAt(e)) \intersect EndTypes(src[b]) # {} /\ ~Joins(data, CharAt(e))
  BY <1>1, <1>3, <1>5, <1>6 DEF Ends, Next1
<1>8. e = b + Len(data) /\ data = SubSeq(src, b, e - 1) /\ \A f \in TokenEnds(b) : f >= e
  BY <1>2, <1>3, <1>5, <1>7 DEF Reading
<1>9. e \in TokenEnds(b)
  <2>1. PICK first : first = IF Joins(<<src[b]>>, CharAt(b + 1)) THEN b + 2 ELSE b + 1
    OBVIOUS
  <2>2. TokenEnds(b) = {q \in first .. b + MaxToken - 1 : q =< Len(src) + 1 /\ Type(CharAt(q)) \intersect EndTypes(src[b]) # {}}
    BY <2>1 DEF TokenEnds
  <2>3. Len(data) = 1 => ~Joins(<<src[b]>>, CharAt(b + 1))
    BY <1>6, <1>7, <1>8 DEF Joins
  <2>4. first =< e /\ first \in Nat
    <3>1. CASE Len(data) = 1
      <4>1. first = b + 1
        BY <2>1, <2>3, <3>1
      <4> QED
        BY <1>4, <1>8, <3>1, <4>1
    <3>2. CASE Len(data) # 1
      <4>1. b \in Nat /\ Len(data) \in Nat /\ Len(data) >= 2 /\ e = b + Len(data)
        <5>1. PICK n : n = Len(data)
          OBVIOUS
        <5>2. n \in Nat /\ n > 0
          BY <1>6, <5>1
        <5>3. n # 1
          BY <3>2, <5>1
        <5>4. n >= 2
          BY <5>2, <5>3
        <5>5. b \in Nat
          BY <1>4
        <5>6. e = b + n
          BY <1>8, <5>1
        <5> QED
          BY <5>1, <5>2, <5>4, <5>5, <5>6
      <4>2. CASE first = b + 1
        BY <4>1, <4>2
      <4>3. CASE first = b + 2
        BY <4>1, <4>3
      <4> QED
        BY <2>1, <4>2, <4>3
    <3> QED
      BY <3>1, <3>2
  <2>5. e \in first .. b + MaxToken - 1
    BY <1>4, <1>6, <1>8, <2>4, LexerAssumption
  <2> QED
    BY <1>4, <1>7, <2>2, <2>5
<1>10. Min(TokenEnds(b)) = e
  <2>1. TokenEnds(b) # {}
    BY <1>9
  <2>2. /\ Min(TokenEnds(b)) \in TokenEnds(b) /\ Min(TokenEnds(b)) \in b + 1 .. Len(src) + 1
        /\ Min(TokenEnds(b)) =< e
    BY <1>4, <1>9, <2>1, EndPlaces
  <2>3. Min(TokenEnds(b)) >= e
    BY <1>8, <2>2
  <2> QED
    BY <1>4, <2>2, <2>3
<1>11. PICK u : u = TokenAt(b, data)
  OBVIOUS
<1>12. LeftFrom(b) /\ BlankEnd[b] = b
  BY <1>2 DEF Reading
<1>13. TokensFrom[b] = <<u>> \o TokensFrom[e]
  <2>1. b # 0 /\ b # Len(src) + 1 /\ b \in 1 .. Len(src) + 1 /\ TokenEnds(b) # {}
    BY <1>4, <1>9
  <2> QED
    BY <1>4, <1>8, <1>10, <1>11, <1>12, <2>1, TokensFromDefined DEF MoreTokens
<1>14. PICK t : t = [token EXCEPT !.kind = Kind(token.data)]
  OBVIOUS
<1>15. t \in Tokens /\ Give(t) /\ t.data = data
  <2>1. Kind(token.data) \in Kinds
    BY DEF Kind, Kinds
  <2> QED
    BY <1>1, <1>5, <1>14, <2>1 DEF EndToken, Types, Tokens
<1>16. Untyped(t) = u
  <2>1. t.line = Where(b).line /\ t.column = Where(b).column
    BY <1>1, <1>2, <1>14 DEF Reading, Types, Tokens
  <2> QED
    BY <1>11, <1>15, <2>1 DEF Untyped, TokenAt
<1>17. Made' = Append(Made, u)
  BY <1>1, <1>15, <1>16, GiveMade
<1>18. Append(Made, u) \o TokensFrom[e] = TokensFrom[1]
  <2>1. Made \in Seq(Untypeds) /\ u \in Untypeds /\ TokensFrom[e] \in Seq(Untypeds)
    BY <1>1, <1>4, <1>15, <1>16, MadeTypes, UntypedType, TokensFromDefined
  <2>2. Append(Made, u) = Made \o <<u>> /\ <<u>> \in Seq(Untypeds)
    BY <2>1, AppendIsConcat
  <2>3. (Made \o <<u>>) \o TokensFrom[e] = Made \o (<<u>> \o TokensFrom[e])
    <3>1. PICK x : x = Made
      OBVIOUS
    <3>2. PICK y : y = <<u>>
      OBVIOUS
    <3>3. PICK z : z = TokensFrom[e]
      OBVIOUS
    <3>4. PICK S : S = Untypeds
      OBVIOUS
    <3>5. x \in Seq(S) /\ y \in Seq(S) /\ z \in Seq(S)
      BY <2>1, <2>2, <3>1, <3>2, <3>3, <3>4
    <3>6. (x \o y) \o z = x \o (y \o z)
      BY <3>5, ConcatAssociative
    <3> QED
      BY <3>1, <3>2, <3>3, <3>6, Zenon
  <2> QED
    BY <1>12, <1>13, <2>2, <2>3 DEF LeftFrom
<1>19. LeftFrom(in.pos)'
  BY <1>1, <1>4, <1>17, <1>18, SameText DEF LeftFrom
<1>20. ~Finished'
  <2>1. lexed' # <<>> /\ Last(lexed') = t
    BY <1>1, <1>15, GiveStream
  <2>2. data[1] # EOF
    <3>1. src[b] \in Chars
      BY <1>4, ElementOfSeq
    <3> QED
      BY <1>6, <3>1 DEF Chars, EOF
  <2>3. data # <<EOF>>
    BY <2>2
  <2> QED
    BY <1>15, <2>1, <2>3 DEF Finished
<1> QED
  BY <1>1, <1>19, <1>20 DEF Ahead, Failed

-------------------------------------------------------------------------------
(* What the kinds tell *)

\* What can follow a character of punctuation in its token.
Continues(data, k) ==
  Type(data[k]) = {} \/ (k = 2 /\ (data[2] = "=" \/ (data[1] = ":" /\ data[2] = ":")))

Shaped(data) ==
  /\ data # <<>> /\ data \in Seq(Chars \union {EOF})
  /\ Type(data[1]) = {"punct"} => \A k \in 2 .. Len(data) : Continues(data, k)

\* The parser learns of every token what it is, but for what a separator swallows.
Tells(t) == Told(t) = t.data \/ Swallows(t)

Telling ==
  /\ pc = "in_token" => Shaped(token.data)
  /\ \A i \in DOMAIN lexed : Tells(lexed[i])

\* The kind of a token of one or two characters is enough to know it; a longer one that begins
\* with a colon or a bracket has a character without a type.
LEMMA KindTells ==
  ASSUME NEW data, Shaped(data), NEW t, t.data = data, t.kind = Kind(data)
  PROVE  Tells(t)
<1>1. /\ Len(data) \in Nat /\ Len(data) > 0 /\ DOMAIN data = 1 .. Len(data)
      /\ data \in Seq(Chars \union {EOF})
  BY EmptySeq, LenProperties DEF Shaped
<1>2. ASSUME NEW c, data[1] = c, c \in {":", ")"}, data # <<":", ":">>, data # <<c>>
      PROVE  Swallows(t)
  <2>1. Type(data[1]) = {"punct"}
    <3>1. CASE c = ":"
      <4>1. Type(":") = {"punct"}
        BY DEF Type, EOF
      <4> QED
        BY <1>2, <3>1, <4>1
    <3>2. CASE c = ")"
      <4>1. Type(")") = {"punct"}
        BY DEF Type, EOF
      <4> QED
        BY <1>2, <3>2, <4>1
    <3> QED
      BY <1>2, <3>1, <3>2
  <2>2. Len(data) # 1
    <3> SUFFICES ASSUME Len(data) = 1 PROVE FALSE
      OBVIOUS
    <3>1. data = <<data[1]>>
      BY <1>1
    <3> QED
      BY <1>2, <3>1
  <2>3. CASE Len(data) = 2
    <3>1. Continues(data, 2)
      BY <2>1, <2>3 DEF Shaped
    <3>2. CASE data[2] = "="
      BY <1>1, <2>3, <3>2 DEF Swallows
    <3>3. CASE Type(data[2]) = {}
      <4>1. data[2] \in Range(data)
        BY <1>1, <2>3 DEF Range
      <4> QED
        BY <3>3, <4>1 DEF Swallows
    <3>4. CASE data[1] = ":" /\ data[2] = ":"
      <4>1. data = <<data[1], data[2]>>
        BY <1>1, <2>3
      <4> QED
        BY <1>2, <3>4, <4>1
    <3> QED
      BY <3>1, <3>2, <3>3, <3>4 DEF Continues
  <2>4. CASE Len(data) > 2
    <3>1. Continues(data, 3) /\ 3 \in DOMAIN data
      BY <1>1, <2>1, <2>4 DEF Shaped
    <3>2. Type(data[3]) = {} /\ data[3] \in Range(data)
      BY <3>1 DEF Continues, Range
    <3> QED
      BY <3>2 DEF Swallows
  <2> QED
    BY <1>1, <2>2, <2>3, <2>4
<1>3. CASE t.kind = "namespace"
  <2>1. data = <<":", ":">>
    BY <1>3 DEF Kind
  <2> QED
    BY <1>3, <2>1 DEF Tells, Told
<1>4. CASE t.kind = "colon"
  <2>1. data[1] = ":" /\ data # <<":", ":">>
    BY <1>4 DEF Kind
  <2>2. Told(t) = <<":">>
    BY <1>4 DEF Told
  <2> QED
    BY <1>2, <2>1, <2>2 DEF Tells
<1>5. CASE t.kind = "separator"
  <2>1. data[1] = ")"
    BY <1>5 DEF Kind
  <2>2. Told(t) = <<")">> /\ data # <<":", ":">>
    BY <1>5, <2>1 DEF Told
  <2> QED
    BY <1>2, <2>1, <2>2 DEF Tells
<1>6. CASE t.kind \notin {"namespace", "colon", "separator"}
  BY <1>6 DEF Tells, Told
<1> QED
  BY <1>3, <1>4, <1>5, <1>6

LEMMA TellingStep ==
  ASSUME IInv, Telling, [Next]_vars
  PROVE  Telling'
<1>1. Types
  BY DEF IInv
<1>2. ASSUME UNCHANGED <<lexed>>, pc' = "in_token" => Shaped(token.data)'
      PROVE  Telling'
  BY <1>2 DEF Telling
<1>3. CASE LexUnlexed \/ CallLex \/ Unlex \/ UNCHANGED vars
  BY <1>3 DEF Telling, LexUnlexed, CallLex, Unlex, vars
<1>4. CASE \/ SkipBlank \/ BlanksDone \/ OpenComment \/ NoComment \/ InComment
           \/ CloseComment \/ LoneTilde \/ UnclosedComment \/ Overflow
  BY <1>2, <1>4 DEF SkipBlank, BlanksDone, OpenComment, NoComment, InComment,
                    CloseComment, LoneTilde, UnclosedComment, Overflow
<1>5. CASE StartToken
  <2>1. PICK c : c = Next1
    OBVIOUS
  <2>2. token'.data = <<c>> /\ UNCHANGED lexed
    BY <1>5, <2>1 DEF StartToken, NoToken
  <2>3. c \in Chars \union {EOF}
    BY <1>1, <2>1, Reads
  <2>4. Shaped(<<c>>)
    BY <2>3 DEF Shaped
  <2> QED
    BY <1>2, <2>2, <2>4
<1>6. ASSUME NEW t \in Tokens, Give(t), Tells(t), pc' = "idle"
      PROVE  Telling'
  <2>1. lexed \in Seq(Tokens)
    BY <1>1 DEF Types
  <2>2. PICK s : s = Append(lexed, t)
    OBVIOUS
  <2>3. /\ s \in Seq(Tokens) /\ Len(s) = Len(lexed) + 1
        /\ \A i \in 1 .. Len(lexed) : s[i] = lexed[i]
        /\ s[Len(lexed) + 1] = t
    BY <2>1, <2>2, AppendProperties
  <2>4. DOMAIN lexed = 1 .. Len(lexed) /\ DOMAIN s = 1 .. Len(lexed) + 1 /\ Len(lexed) \in Nat
    BY <2>1, <2>3, LenProperties
  <2>5. \A i \in DOMAIN s : Tells(s[i])
    <3> SUFFICES ASSUME NEW i \in DOMAIN s PROVE Tells(s[i])
      OBVIOUS
    <3>1. i \in 1 .. Len(lexed) \/ i = Len(lexed) + 1
      BY <2>4
    <3> QED
      BY <1>6, <2>3, <2>4, <3>1 DEF Telling
  <2>6. lexed' = s
    BY <1>6, <2>2 DEF Give
  <2> QED
    BY <1>6, <2>5, <2>6 DEF Telling
<1>7. CASE EndOfText
  <2>1. PICK t : t = [kind |-> EOF, data |-> <<EOF>>, line |-> in.line, column |-> in.column]
    OBVIOUS
  <2>2. t \in Tokens /\ Give(t) /\ pc' = "idle"
    BY <1>1, <1>7, <2>1 DEF Tokens, Kinds, Types, Readers, EndOfText
  <2>3. Told(t) = t.data
    BY <2>1 DEF Told, EOF
  <2> QED
    BY <1>6, <2>2, <2>3 DEF Tells
<1>8. CASE ExtendToken
  <2>1. PICK data : data = token.data
    OBVIOUS
  <2>2. PICK c : c = Next1
    OBVIOUS
  <2>3. PICK more : more = Append(data, c)
    OBVIOUS
  <2>4. /\ token'.data = more /\ UNCHANGED lexed /\ pc = "in_token" /\ ~Ends(data, c)
    BY <1>1, <1>8, <2>1, <2>2, <2>3 DEF ExtendToken, Types, Tokens
  <2>5. Shaped(data) /\ c \in Chars \union {EOF}
    BY <1>1, <2>1, <2>2, <2>4, Reads DEF Telling
  <2>6. Len(data) \in Nat /\ Len(data) > 0
    BY <2>5, EmptySeq, LenProperties DEF Shaped
  <2>7. /\ more \in Seq(Chars \union {EOF}) /\ Len(more) = Len(data) + 1
        /\ \A i \in 1 .. Len(data) : more[i] = data[i]
        /\ more[Len(data) + 1] = c /\ more # <<>> /\ more[1] = data[1]
    BY <2>3, <2>5, <2>6, AppendProperties DEF Shaped
  <2>8. ASSUME Type(data[1]) = {"punct"}, NEW k \in 2 .. Len(more)
        PROVE  Continues(more, k)
    <3>1. CASE k \in 2 .. Len(data)
      <4>1. Continues(data, k) /\ k \in 1 .. Len(data) /\ 1 \in 1 .. Len(data) /\ 2 \in 1 .. Len(data)
        BY <2>5, <2>6, <2>8, <3>1 DEF Shaped
      <4> QED
        BY <2>7, <4>1, Zenon DEF Continues
    <3>2. CASE k = Len(data) + 1
      <4>1. EndTypes(data[1]) = {"ident", "num", "punct", "space", "eof"}
        BY <2>8 DEF EndTypes
      <4>2. Type(c) = {} \/ Joins(data, c)
        BY <2>4, <4>1 DEF Ends, Type
      <4>3. Joins(data, c) => k = 2 /\ (c = "=" \/ (data[1] = ":" /\ c = ":"))
        BY <2>8, <3>2 DEF Joins
      <4> QED
        BY <2>7, <3>2, <4>2, <4>3 DEF Continues
    <3> QED
      BY <2>6, <2>7, <3>1, <3>2
  <2>9. Shaped(more)
    BY <2>7, <2>8 DEF Shaped
  <2> QED
    BY <1>2, <2>4, <2>9
<1>9. CASE EndToken
  <2>1. PICK t : t = [token EXCEPT !.kind = Kind(token.data)]
    OBVIOUS
  <2>2. Kind(token.data) \in Kinds
    BY DEF Kind, Kinds
  <2>3. t \in Tokens /\ Give(t) /\ pc' = "idle" /\ t.data = token.data /\ t.kind = Kind(token.data)
    BY <1>1, <1>9, <2>1, <2>2 DEF EndToken, Types, Tokens
  <2>4. Shaped(token.data)
    BY <1>9 DEF EndToken, Telling
  <2>5. Tells(t)
    BY <2>3, <2>4, KindTells
  <2> QED
    BY <1>6, <2>3, <2>5
<1> QED
  BY <1>3, <1>4, <1>5, <1>7, <1>8, <1>9 DEF Next, CoreLex

\* The lexer has made no token when it begins.
LEMMA BeginsAhead ==
  ASSUME Init
  PROVE  Ahead /\ Telling
<1>1. IInv
  BY Begins
<1>2. lexed = <<>> /\ pc = "idle" /\ in.pos = 1
  BY DEF Init
<1>3. Len(<<>>) = 0 /\ DOMAIN <<>> = {}
  OBVIOUS
<1>4. Made = <<>>
  BY <1>2 DEF Made
<1>5. src \in Seq(Chars) /\ 1 \in 1 .. Len(src) + 1
  BY <1>1, <1>2, Reads DEF IInv
<1>6. <<>> \o TokensFrom[1] = TokensFrom[1]
  BY <1>5, TokensFromDefined, ConcatEmptySeq
<1>7. Ahead
  BY <1>2, <1>4, <1>6 DEF Ahead, LeftFrom, Failed, Finished
<1>8. Telling
  BY <1>2 DEF Telling
<1> QED
  BY <1>7, <1>8

\* A sequence is at the beginning of what it makes with another one.
LEMMA ConcatPrefix ==
  ASSUME NEW S, NEW s \in Seq(S), NEW t \in Seq(S)
  PROVE  IsPrefix(s, s \o t)
<1>1. PICK u : u = s \o t
  OBVIOUS
<1>2. Len(s) \in Nat /\ Len(t) \in Nat
  BY LenProperties
<1>3. u \in Seq(S) /\ Len(u) = Len(s) + Len(t) /\ \A i \in 1 .. Len(s) : u[i] = s[i]
  BY <1>1, <1>2, ConcatProperties
<1>4. SubSeq(s, 1, Len(s)) = [i \in 1 .. Len(s) |-> s[i]]
  BY <1>2
<1>5. SubSeq(u, 1, Len(s)) = [i \in 1 .. Len(s) |-> u[i]]
  BY <1>2, <1>3
<1>6. SubSeq(s, 1, Len(s)) = SubSeq(u, 1, Len(s))
  BY <1>3, <1>4, <1>5
<1>7. Len(s) =< Len(u)
  BY <1>2, <1>3
<1> QED
  BY <1>1, <1>6, <1>7 DEF IsPrefix

\* The tokens of a text are those of the definition that reads it as a whole, whatever the blanks,
\* comments and characters in it, however the client goes back and forth, and wherever a call fails.
THEOREM Lexing ==
  Spec => []TokensRight
<1>1. Init => Ahead /\ Telling
  BY BeginsAhead
<1>2. IInv /\ Ahead /\ Telling /\ [Next]_vars => Ahead' /\ Telling'
  <2> SUFFICES ASSUME IInv, Ahead, Telling, [Next]_vars
               PROVE  Ahead' /\ Telling'
    OBVIOUS
  <2>1. Telling'
    BY TellingStep
  <2>2. CASE LexUnlexed \/ Unlex \/ CallLex \/ UNCHANGED vars
    BY <2>1, <2>2, ClientAhead
  <2>3. CASE \/ SkipBlank \/ BlanksDone \/ OpenComment \/ NoComment \/ InComment
             \/ CloseComment \/ LoneTilde \/ UnclosedComment
    BY <2>1, <2>3, SkipAhead
  <2>4. CASE StartToken
    BY <2>1, <2>4, StartAhead
  <2>5. CASE EndOfText
    BY <2>1, <2>5, EndOfTextAhead
  <2>6. CASE ExtendToken
    BY <2>1, <2>6, ExtendAhead
  <2>7. CASE Overflow
    BY <2>1, <2>7, OverflowAhead
  <2>8. CASE EndToken
    BY <2>1, <2>8, EndAhead
  <2> QED
    BY <2>2, <2>3, <2>4, <2>5, <2>6, <2>7, <2>8 DEF Next, CoreLex
<1>3. IInv /\ Ahead /\ Telling => TokensRight
  <2> SUFFICES ASSUME IInv, Ahead, Telling PROVE TokensRight
    OBVIOUS
  <2>1. Types /\ src \in Seq(Chars) /\ in.pos \in 1 .. Len(src) + 1 /\ 1 \in 1 .. Len(src) + 1
    BY Reads, LenProperties DEF IInv
  <2>2. \A q \in 1 .. Len(src) + 1 : TokensFrom[q] \in Seq(Untypeds)
    BY <2>1, TokensFromDefined
  <2>3. Made \in Seq(Untypeds)
    BY <2>1, MadeTypes
  <2>4. ASSUME NEW q \in 1 .. Len(src) + 1, LeftFrom(q)
        PROVE  IsPrefix(Made, TokensFrom[1])
    BY <2>2, <2>3, <2>4, ConcatPrefix DEF LeftFrom
  <2>5. IF pc \in Failed THEN Append(Made, ErrorToken(pc)) = TokensFrom[1] ELSE IsPrefix(Made, TokensFrom[1])
    <3>1. CASE pc \in Failed
      BY <3>1 DEF Ahead
    <3>2. CASE pc \in {"blanks", "comment?", "token"} \/ (pc = "idle" /\ ~Finished)
      <4>1. LeftFrom(in.pos) /\ pc \notin Failed
        BY <3>2 DEF Ahead, Failed
      <4> QED
        BY <2>1, <2>4, <4>1
    <3>3. CASE pc \in {"comment", "in_token"}
      <4>1. \E b \in 1 .. Len(src) + 1 : LeftFrom(b)
        <5>1. pc = "in_token" => \E b \in 1 .. Len(src) : LeftFrom(b)
          BY DEF Ahead, Reading
        <5>2. 1 .. Len(src) \subseteq 1 .. Len(src) + 1
          BY <2>1, LenProperties
        <5> QED
          BY <3>3, <5>1, <5>2 DEF Ahead
      <4> QED
        BY <2>4, <3>3, <4>1 DEF Failed
    <3>4. CASE pc = "idle" /\ Finished
      <4>1. Made = TokensFrom[1] /\ pc \notin Failed
        BY <3>4 DEF Ahead, Failed
      <4>2. <<>> \in Seq(Untypeds) /\ Made \o <<>> = Made
        BY <2>3, ConcatEmptySeq
      <4> QED
        BY <2>3, <4>1, <4>2, ConcatPrefix
    <3> QED
      BY <2>1, <3>1, <3>2, <3>3, <3>4 DEF Types
  <2>6. \A t \in Range(lexed) : Tells(t)
    BY DEF Telling, Range
  <2> QED
    BY <2>5, <2>6 DEF TokensRight, Made, Tells
<1> QED
  BY <1>1, <1>2, <1>3, Inductive, PTL DEF Spec
===============================================================================
