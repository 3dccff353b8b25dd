---------------------------- MODULE ParserProofs ----------------------------
(***************************************************************************)
(* Proofs about Parser, for any texts, however deep what they have is      *)
(* nested, and any number of operands.                                     *)
(*                                                                         *)
(* The functions of the parser are on a stack.  What each of them has      *)
(* found so far depends on what it waits for, or on what it does next.     *)
(***************************************************************************)
EXTENDS Parser, TLAPS, WellFoundedInduction

-----------------------------------------------------------------------------
(* The invariant *)

Over == {"failed", "overrun", "closed"}
Notes == {"message", "middle"}

\* A sequence; of what does not matter.
IsStack(s) == s \in Seq(Range(s))

IsNode(f) == f = Node(f.of, f.at, f.kids, f.marks) /\ IsStack(f.kids) /\ IsStack(f.marks)

\* An activation has not found more than there is room for.
Roomy(f) ==
  /\ IsNode(f) /\ f.of \in Kinds
  /\ f.of = "if" => Len(f.kids) =< 3
  /\ f.of = "expr" => Len(f.kids) =< MaxOperands /\ Len(f.marks) < MaxOperands

\* Where a function may be.
Labels(of) ==
  CASE of = "program" -> {"decl", "semicolon"}
    [] of = "funcdecl" -> {"param", "result", "body"}
    [] of = "vardecl" -> {"type"}
    [] of = "bstmt" -> {"stmt"}
    [] of = "if" -> {"close", "stmt", "else"}
    [] of = "expr" -> {"operand", "operator", "close"}
    [] of = "call" -> {"argument"}
    [] OTHER -> {"semicolon"}

\* What the running function has found, when it is at label.
Runs(f, label) ==
  /\ label \in Labels(f.of) \cup {"end", "done"}
  /\ f.of = "if" => /\ label = "close" => Len(f.kids) = 1
                    /\ label = "stmt" => Len(f.kids) \in {1, 2}
                    /\ label = "else" => Len(f.kids) = 2
                    /\ label \in {"end", "done"} => Len(f.kids) \in {2, 3}
  /\ f.of = "expr" => Len(f.kids) = Len(f.marks) + IF label = "operand" THEN 0 ELSE 1

\* What a function has found that waits for one of another kind.
Waits(f, of) ==
  /\ of \in Callees(f.of)
  /\ f.of = "if" => Len(f.kids) \in IF of = "expr" THEN {0} ELSE {1, 2}
  /\ f.of = "expr" => Len(f.kids) = Len(f.marks)

Reads == tokens \in Seq(Tokens) /\ pos \in 1 .. Len(tokens) + 3 /\ notes \subseteq Notes

\* Each of the functions on stack s waits for the one above it.
Calls(s) ==
  /\ IsStack(s) /\ s # <<>>
  /\ \A i \in DOMAIN s : Roomy(s[i])
  /\ \A i \in 1 .. Len(s) - 1 : Waits(s[i], s[i + 1].of)

\* While the parser runs the end of the text has not been read.
IInv ==
  /\ Reads /\ Calls(stack)
  /\ pc \in Over \/ (Runs(Top, pc) /\ pos =< Len(tokens) + 1)

\* The type invariant of the parser follows.
LEMMA TypeOKHolds == IInv => TypeOK
<1> SUFFICES ASSUME IInv PROVE TypeOK
  OBVIOUS
<1> DEFINE n == Len(stack)
<1>1. n \in Nat \ {0} /\ DOMAIN stack = 1 .. n
  BY DEF IInv, Calls, IsStack
<1>2. /\ pos \in 1 .. Len(tokens) + 3 /\ notes \subseteq {"message", "middle"}
  BY DEF IInv, Reads, Notes
<1>3. Roomy(Top) /\ Top = stack[n]
  BY <1>1 DEF IInv, Calls, Top, Last
<1>4. pc \in {"decl", "type", "param", "result", "body", "stmt", "semicolon", "else", "operand", "operator",
             "close", "argument", "end", "done", "failed", "overrun", "closed"}
  BY DEF IInv, Over, Runs, Labels
<1>5. ASSUME NEW i \in 1 .. n
      PROVE  LET f == stack[i] IN
       /\ f.of \in Kinds
       /\ i < n => stack[i + 1].of \in Callees(f.of)
       /\ f.of = "if" => Len(f.kids) <= 3
       /\ f.of = "expr" =>
            /\ Len(f.kids) <= MaxOperands /\ Len(f.marks) < MaxOperands
            /\ pc \notin {"failed", "overrun", "closed"} =>
                 Len(f.kids) = Len(f.marks)
                               + IF i = n /\ pc \in {"operator", "close", "end", "done"} THEN 1 ELSE 0
  <2> DEFINE f == stack[i]
  <2>1. Roomy(f)
    BY <1>1 DEF IInv, Calls
  <2>2. f.of \in Kinds /\ (f.of = "if" => Len(f.kids) <= 3)
    BY <2>1 DEF Roomy
  <2>3. f.of = "expr" => Len(f.kids) <= MaxOperands /\ Len(f.marks) < MaxOperands
    BY <2>1 DEF Roomy
  <2>4. Len(f.kids) \in Nat /\ Len(f.marks) \in Nat
    BY <2>1 DEF Roomy, IsNode, IsStack
  <2>5. i < n => Waits(f, stack[i + 1].of)
    BY <1>1 DEF IInv, Calls
  <2>6. i < n => stack[i + 1].of \in Callees(f.of)
    BY <2>5 DEF Waits
  <2>7. i < n => (f.of = "expr" => Len(f.kids) = Len(f.marks))
    BY <2>5 DEF Waits
  <2>8. i = n /\ pc \notin Over => Runs(f, pc)
    BY <1>3 DEF IInv
  <2> HIDE DEF f, n
  <2>9. i = n /\ pc \notin Over /\ f.of = "expr" =>
          Len(f.kids) = Len(f.marks) + IF pc \in {"operator", "close", "end", "done"} THEN 1 ELSE 0
    BY <2>8 DEF Runs, Labels
  <2>10. i < n \/ i = n
    BY <1>1
  <2>11. f.of = "expr" /\ pc \notin Over =>
           Len(f.kids) = Len(f.marks)
                         + IF i = n /\ pc \in {"operator", "close", "end", "done"} THEN 1 ELSE 0
    <3>1. PICK k \in Nat, m \in Nat : k = Len(f.kids) /\ m = Len(f.marks)
      BY <2>4
    <3>2. CASE i < n
      <4>1. i # n
        BY <1>1, <3>2
      <4>2. f.of = "expr" => k = m
        BY <2>7, <3>1, <3>2
      <4>3. m = m + 0
        OBVIOUS
      <4> QED
        BY <3>1, <4>1, <4>2, <4>3
    <3>3. CASE i = n
      BY <2>9, <3>3
    <3> QED
      BY <2>10, <3>2, <3>3
  <2> QED
    BY <2>2, <2>3, <2>6, <2>11 DEF Over, f
<1> QED
  BY <1>1, <1>2, <1>4, <1>5 DEF TypeOK

-----------------------------------------------------------------------------
(* Stacks and nodes *)

\* A sequence is a sequence of its own elements.
LEMMA SeqIsStack ==
  ASSUME NEW S, NEW s \in Seq(S)
  PROVE  IsStack(s)
<1>1. ASSUME NEW T, T = Range(s)
      PROVE  s \in Seq(T)
  <2>1. Len(s) \in Nat /\ s \in [1 .. Len(s) -> Range(s)]
    BY DEF Range
  <2> QED
    BY <1>1, <2>1
<1> QED
  BY <1>1, Zenon DEF IsStack

LEMMA EmptyStack == IsStack(<<>>) /\ Len(<<>>) = 0
<1>1. <<>> \in Seq({})
  OBVIOUS
<1> QED
  BY <1>1, SeqIsStack

\* Stack t is stack s with x on it, with x as its top, or without its top.
Grown(s, t, x) ==
  IsStack(t) /\ Len(t) = Len(s) + 1 /\ t[Len(t)] = x /\ \A i \in 1 .. Len(s) : t[i] = s[i]
Topped(s, t, x) ==
  IsStack(t) /\ Len(t) = Len(s) /\ t[Len(t)] = x /\ \A i \in 1 .. Len(s) - 1 : t[i] = s[i]
Shrunk(s, t) ==
  IsStack(t) /\ Len(t) = Len(s) - 1 /\ \A i \in 1 .. Len(s) - 1 : t[i] = s[i]

LEMMA StackMoves ==
  ASSUME NEW s, IsStack(s)
  PROVE  /\ Len(s) \in Nat /\ DOMAIN s = 1 .. Len(s)
         /\ \A x : Grown(s, Append(s, x), x)
         /\ s # <<>> => Len(s) > 0 /\ Shrunk(s, Front(s)) /\ \A x : Topped(s, Append(Front(s), x), x)
<1>1. PICK S : S = Range(s)
  OBVIOUS
<1>2. s \in Seq(S)
  BY <1>1, Zenon DEF IsStack
<1> HIDE <1>1
<1>3. ASSUME NEW T, NEW t \in Seq(T), NEW x
      PROVE  Grown(t, Append(t, x), x)
  <2>1. t \in Seq(T \cup {x}) /\ x \in T \cup {x}
    OBVIOUS
  <2>2. PICK u : u = Append(t, x)
    OBVIOUS
  <2>3. u \in Seq(T \cup {x}) /\ Len(u) = Len(t) + 1 /\ u[Len(u)] = x /\ \A i \in 1 .. Len(t) : u[i] = t[i]
    BY <2>1, <2>2
  <2>4. IsStack(u)
    BY <2>3, SeqIsStack, Zenon
  <2> QED
    BY <2>2, <2>3, <2>4 DEF Grown
<1>4. ASSUME s # <<>>
      PROVE  Len(s) > 0 /\ Shrunk(s, Front(s)) /\ \A x : Topped(s, Append(Front(s), x), x)
  <2>1. Len(s) \in Nat \ {0}
    BY <1>2, <1>4
  <2>2. PICK t : t = Front(s)
    OBVIOUS
  <2>3. t \in Seq(S) /\ Len(t) = Len(s) - 1 /\ \A i \in 1 .. Len(s) - 1 : t[i] = s[i]
    <3>1. /\ SubSeq(s, 1, Len(s) - 1) \in Seq(S) /\ Len(SubSeq(s, 1, Len(s) - 1)) = Len(s) - 1
          /\ \A i \in 1 .. Len(s) - 1 : SubSeq(s, 1, Len(s) - 1)[i] = s[i]
      <4>1. PICK n \in Nat \ {0} : n = Len(s)
        BY <2>1
      <4>2. DOMAIN s = 1 .. n /\ \A i \in 1 .. n : s[i] \in S
        BY <1>2, <4>1
      <4> QED
        BY <1>2, <4>1, <4>2
    <3> QED
      BY <2>2, <3>1, Zenon DEF Front
  <2>4. Shrunk(s, t)
    BY <2>3, SeqIsStack, Zenon DEF Shrunk
  <2>5. ASSUME NEW x
        PROVE  Topped(s, Append(t, x), x)
    <3>1. Grown(t, Append(t, x), x)
      BY <1>3, <2>3, Zenon
    <3> QED
      BY <2>1, <2>3, <3>1 DEF Grown, Topped
  <2> QED
    BY <2>1, <2>2, <2>4, <2>5
<1>5. \A x : Grown(s, Append(s, x), x)
  BY <1>2, <1>3, Zenon
<1> QED
  BY <1>2, <1>4, <1>5

\* A new node.
LEMMA NewNode ==
  ASSUME NEW of, NEW at
  PROVE  LET f == Frame(of, at) IN
         IsNode(f) /\ f.of = of /\ f.kids = <<>> /\ f.marks = <<>> /\ Len(f.kids) = 0 /\ Len(f.marks) = 0
BY EmptyStack DEF Frame, Node, IsNode

\* A node with another child, or another place.
LEMMA MoreNode ==
  ASSUME NEW f, IsNode(f), NEW x
  PROVE  /\ IsNode(AddTo(f, x)) /\ AddTo(f, x).of = f.of /\ AddTo(f, x).marks = f.marks
         /\ Len(AddTo(f, x).kids) = Len(f.kids) + 1
         /\ IsNode(Mark(f, x)) /\ Mark(f, x).of = f.of /\ Mark(f, x).kids = f.kids
         /\ Len(Mark(f, x).marks) = Len(f.marks) + 1
         /\ Len(f.kids) \in Nat /\ Len(f.marks) \in Nat
<1>1. PICK o, a, k, m : f = [of |-> o, at |-> a, kids |-> k, marks |-> m] /\ IsStack(k) /\ IsStack(m)
  BY DEF IsNode, Node
<1>2. f.of = o /\ f.kids = k /\ f.marks = m
  BY <1>1
<1>3. Grown(k, Append(k, x), x) /\ Grown(m, Append(m, x), x) /\ Len(k) \in Nat /\ Len(m) \in Nat
  BY <1>1, StackMoves, Zenon
<1>4. \A q, r : IsStack(q) /\ IsStack(r) => IsNode([of |-> o, at |-> a, kids |-> q, marks |-> r])
  BY DEF IsNode, Node
<1>5. PICK q, r : q = Append(k, x) /\ r = Append(m, x)
  OBVIOUS
<1>6. IsStack(q) /\ Len(q) = Len(k) + 1 /\ IsStack(r) /\ Len(r) = Len(m) + 1
  BY <1>3, <1>5, Zenon DEF Grown
<1>7. AddTo(f, x) = [of |-> o, at |-> a, kids |-> q, marks |-> m]
  <2>1. AddTo(f, x) = [f EXCEPT !.kids = q]
    BY <1>2, <1>5, Zenon DEF AddTo
  <2> QED
    BY <1>1, <2>1
<1>8. Mark(f, x) = [of |-> o, at |-> a, kids |-> k, marks |-> r]
  <2>1. Mark(f, x) = [f EXCEPT !.marks = r]
    BY <1>2, <1>5, Zenon DEF Mark
  <2> QED
    BY <1>1, <2>1
<1>9. IsNode(AddTo(f, x)) /\ IsNode(Mark(f, x))
  BY <1>1, <1>4, <1>6, <1>7, <1>8
<1>10. /\ AddTo(f, x).of = o /\ AddTo(f, x).marks = m /\ AddTo(f, x).kids = q
       /\ Mark(f, x).of = o /\ Mark(f, x).marks = r /\ Mark(f, x).kids = k
  BY <1>7, <1>8
<1> QED
  BY <1>2, <1>3, <1>6, <1>9, <1>10

-----------------------------------------------------------------------------
(* Calls and returns *)

LEMMA TopCalled ==
  ASSUME NEW s, Calls(s)
  PROVE  Len(s) \in Nat \ {0} /\ Last(s) = s[Len(s)] /\ Roomy(Last(s)) /\ IsNode(Last(s))
BY DEF Calls, IsStack, Last, Roomy

\* The running function calls another.
LEMMA PushCalls ==
  ASSUME NEW s, Calls(s), NEW f, Roomy(f), Waits(Last(s), f.of)
  PROVE  Calls(Append(s, f)) /\ Last(Append(s, f)) = f
<1>1. PICK n : n = Len(s)
  OBVIOUS
<1>2. IsStack(s) /\ n \in Nat \ {0} /\ Last(s) = s[n] /\ DOMAIN s = 1 .. n
  BY <1>1, TopCalled, StackMoves DEF Calls
<1>3. PICK t : t = Append(s, f)
  OBVIOUS
<1>4. IsStack(t) /\ Len(t) = n + 1 /\ t[n + 1] = f /\ \A i \in 1 .. n : t[i] = s[i]
  BY <1>1, <1>2, <1>3, StackMoves DEF Grown
<1>5. DOMAIN t = 1 .. n + 1 /\ t # <<>>
  BY <1>2, <1>4, StackMoves, EmptyStack
<1>6. \A i \in 1 .. n + 1 : Roomy(t[i])
  BY <1>2, <1>4 DEF Calls
<1>7. ASSUME NEW i \in 1 .. n
      PROVE  Waits(t[i], t[i + 1].of)
  <2>1. CASE i = n
    BY <1>2, <1>4, <2>1
  <2>2. CASE i # n
    <3>1. i \in 1 .. Len(s) - 1 /\ i + 1 \in 1 .. n
      BY <1>1, <1>2, <2>2
    <3>2. t[i] = s[i] /\ t[i + 1] = s[i + 1]
      BY <1>4, <3>1
    <3> QED
      BY <3>1, <3>2, Zenon DEF Calls
  <2> QED
    BY <2>1, <2>2
<1>8. Calls(t)
  BY <1>2, <1>4, <1>5, <1>6, <1>7 DEF Calls
<1> QED
  BY <1>3, <1>4, <1>8 DEF Last

\* It goes on with another node of its kind.
LEMMA ChangeCalls ==
  ASSUME NEW s, Calls(s), NEW f, Roomy(f), f.of = Last(s).of
  PROVE  Calls(Append(Front(s), f)) /\ Last(Append(Front(s), f)) = f
<1>1. PICK n : n = Len(s)
  OBVIOUS
<1>2. IsStack(s) /\ n \in Nat \ {0} /\ Last(s) = s[n] /\ DOMAIN s = 1 .. n /\ s # <<>>
  BY <1>1, TopCalled, StackMoves DEF Calls
<1>3. PICK t : t = Append(Front(s), f)
  OBVIOUS
<1>4. IsStack(t) /\ Len(t) = n /\ t[n] = f /\ \A i \in 1 .. n - 1 : t[i] = s[i]
  BY <1>1, <1>2, <1>3, StackMoves DEF Topped
<1>5. DOMAIN t = 1 .. n /\ t # <<>>
  BY <1>2, <1>4, StackMoves, EmptyStack
<1>6. \A i \in 1 .. n : Roomy(t[i])
  BY <1>2, <1>4 DEF Calls
<1>7. ASSUME NEW i \in 1 .. n - 1
      PROVE  Waits(t[i], t[i + 1].of)
  <2>1. t[i] = s[i] /\ t[i + 1].of = s[i + 1].of
    <3>1. CASE i + 1 = n
      BY <1>2, <1>4, <3>1
    <3>2. CASE i + 1 # n
      BY <1>2, <1>4, <3>2
    <3> QED
      BY <3>1, <3>2
  <2>2. Waits(s[i], s[i + 1].of)
    BY <1>1 DEF Calls
  <2> QED
    BY <2>1, <2>2
<1>8. Calls(t)
  BY <1>2, <1>4, <1>5, <1>6, <1>7 DEF Calls
<1> QED
  BY <1>3, <1>4, <1>8 DEF Last

\* It returns.
LEMMA PopCalls ==
  ASSUME NEW s, Calls(s), Len(s) > 1
  PROVE  Calls(Front(s)) /\ Waits(Last(Front(s)), Last(s).of)
<1>1. PICK n : n = Len(s)
  OBVIOUS
<1>2. IsStack(s) /\ n \in Nat /\ n > 1 /\ Last(s) = s[n] /\ DOMAIN s = 1 .. n /\ s # <<>>
  BY <1>1, TopCalled, StackMoves DEF Calls
<1>3. PICK t : t = Front(s)
  OBVIOUS
<1>4. IsStack(t) /\ Len(t) = n - 1 /\ \A i \in 1 .. n - 1 : t[i] = s[i]
  BY <1>1, <1>2, <1>3, StackMoves DEF Shrunk
<1>5. DOMAIN t = 1 .. n - 1 /\ t # <<>>
  BY <1>2, <1>4, StackMoves, EmptyStack
<1>6. \A i \in 1 .. n - 1 : Roomy(t[i])
  BY <1>2, <1>4 DEF Calls
<1>7. \A i \in 1 .. n - 1 : Waits(s[i], s[i + 1].of)
  BY <1>1 DEF Calls
<1>8. \A i \in 1 .. n - 1 - 1 : Waits(t[i], t[i + 1].of)
  BY <1>2, <1>4, <1>7
<1>9. Calls(t)
  BY <1>4, <1>5, <1>6, <1>8 DEF Calls
<1>10. Last(t) = s[n - 1] /\ Waits(s[n - 1], s[n].of)
  BY <1>2, <1>4, <1>7 DEF Last
<1> QED
  BY <1>2, <1>3, <1>9, <1>10

\* Two calls at once.
LEMMA PushTwo ==
  ASSUME NEW s, Calls(s), NEW f, Roomy(f), Waits(Last(s), f.of), NEW g, Roomy(g), Waits(f, g.of)
  PROVE  Calls(s \o <<f, g>>) /\ Last(s \o <<f, g>>) = g
<1>1. Calls(Append(s, f)) /\ Last(Append(s, f)) = f
  BY PushCalls
<1>2. PICK t : t = Append(s, f)
  OBVIOUS
<1>3. Calls(Append(t, g)) /\ Last(Append(t, g)) = g
  BY <1>1, <1>2, PushCalls
<1>4. s \o <<f, g>> = Append(t, g)
  <2>1. PICK S : s \in Seq(S)
    BY Zenon DEF Calls, IsStack
  <2>2. s \in Seq(S \cup {f, g}) /\ f \in S \cup {f, g} /\ g \in S \cup {f, g}
    BY <2>1
  <2> QED
    BY <1>2, <2>2
<1> QED
  BY <1>3, <1>4

-----------------------------------------------------------------------------
(* Identifiers *)

\* A set of natural numbers has a least element.
LEMMA Least ==
  ASSUME NEW S \in SUBSET Nat, S # {}
  PROVE  Min(S) \in S
<1>1. \E x \in S : \A y \in S : x =< y
  <2> DEFINE R == OpToRel(<, Nat)
  <2>1. IsWellFoundedOn(R, Nat)
    BY NatLessThanWellFounded
  <2>2. \A x, y \in S : y < x => <<y, x>> \in R
    BY DEF OpToRel
  <2> HIDE DEF R
  <2>3. PICK x \in S : \A y \in S : <<y, x>> \notin R
    BY <2>1, WFMin, Zenon
  <2>4. \A y \in S : ~(y < x)
    BY <2>2, <2>3, Zenon
  <2> QED
    BY <2>4
<1> QED
  BY <1>1 DEF Min

\* What is not the end of the text is in the text.
LEMMA TokenAt ==
  ASSUME tokens \in Seq(Tokens), NEW p \in Nat, Token(p) # "eof"
  PROVE  p =< Len(tokens) /\ Len(tokens) \in Nat /\ p + 1 \in 1 .. Len(tokens) + 1
<1>1. p =< Len(tokens)
  BY Zenon DEF Token
<1> QED
  BY <1>1

\* An identifier ends behind its first token, and not behind the end of the text.
LEMMA IdentEnds ==
  ASSUME tokens \in Seq(Tokens), NEW p \in 1 .. Len(tokens) + 1
  PROVE  /\ Ident(p).ok \in BOOLEAN /\ Ident(p).end \in p + 1 .. Len(tokens) + 2
         /\ Ident(p).ok => Ident(p).end =< Len(tokens) + 1 /\ Token(p) = "id"
<1> DEFINE Joins(q) == Token(q) = "." \/ (Token(q) = "::" /\ \A i \in p .. q - 1 : tokens[i] # "::")
           Ends == {q \in p + 1 .. Len(tokens) + 1 : (q - p) % 2 = 1 /\ ~(Joins(q) /\ Token(q + 1) = "id")}
           last == Min(Ends)
<1>1. CASE Token(p) # "id"
  BY <1>1 DEF Ident
<1>2. CASE Token(p) = "id"
  <2>1. PICK n \in Nat : n = Len(tokens)
    OBVIOUS
  <2>2. p \in Nat /\ p =< n
    BY <1>2, <2>1, TokenAt
  <2>3. \E q \in Ends : TRUE
    <3>1. PICK q \in {n, n + 1} : q >= p + 1 /\ (q - p) % 2 = 1
      BY <2>1, <2>2
    <3>2. ~(q + 1 =< n)
      BY <2>1, <3>1
    <3>3. Token(q + 1) # "id"
      BY <2>1, <3>2 DEF Token
    <3>4. q \in p + 1 .. Len(tokens) + 1
      BY <2>1, <2>2, <3>1
    <3> HIDE DEF Joins
    <3> QED
      BY <3>1, <3>3, <3>4
  <2>4. last \in Ends
    <3>1. Ends \in SUBSET Nat
      BY <2>1, <2>2
    <3> HIDE DEF Ends
    <3> QED
      BY <2>3, <3>1, Least
  <2>5. last \in p + 1 .. Len(tokens) + 1
    BY <2>4
  <2>6. Joins(last) => last =< Len(tokens)
    BY <2>5, TokenAt
  <2>7. Ident(p) = IF Joins(last) THEN [ok |-> FALSE, end |-> last + 2] ELSE [ok |-> TRUE, end |-> last]
    BY <1>2 DEF Ident
  <2> HIDE DEF last, Joins
  <2>8. CASE Joins(last)
    BY <2>1, <2>5, <2>6, <2>7, <2>8
  <2>9. CASE ~Joins(last)
    BY <1>2, <2>1, <2>5, <2>7, <2>9
  <2> QED
    BY <2>8, <2>9
<1> QED
  BY <1>1, <1>2

-----------------------------------------------------------------------------
(* Steps *)

\* A step that leaves the text alone.
Moves(label, frames, p) ==
  pc' = label /\ stack' = frames /\ pos' = p /\ tokens' = tokens /\ notes' \subseteq Notes

LEMMA GotoMoves ==
  ASSUME IInv, NEW label, NEW frames, NEW p, Goto(label, frames, p)
  PROVE  Moves(label, frames, p)
BY DEF IInv, Reads, Goto, Moves

\* The invariant in the form in which the steps use it.
LEMMA Running ==
  ASSUME IInv, pc \notin Over
  PROVE  /\ tokens \in Seq(Tokens) /\ Len(tokens) \in Nat /\ pos \in 1 .. Len(tokens) + 1
         /\ Calls(stack) /\ Runs(Top, pc) /\ Roomy(Top) /\ IsNode(Top)
         /\ Len(Top.kids) \in Nat /\ Len(Top.marks) \in Nat
<1>1. /\ tokens \in Seq(Tokens) /\ Len(tokens) \in Nat /\ pos \in 1 .. Len(tokens) + 1
      /\ Calls(stack) /\ Runs(Top, pc)
  BY DEF IInv, Reads
<1>2. Roomy(Top) /\ IsNode(Top)
  BY <1>1, TopCalled DEF Top
<1>3. Len(Top.kids) \in Nat /\ Len(Top.marks) \in Nat
  BY <1>2, MoreNode
<1> QED
  BY <1>1, <1>2, <1>3

\* The parser goes on, with a stack that is as it should be.
LEMMA GoesOn ==
  ASSUME IInv, NEW label, NEW frames, NEW p, Moves(label, frames, p),
         Calls(frames), Runs(Last(frames), label), p \in 1 .. Len(tokens) + 1
  PROVE  IInv'
<1>1. Reads'
  BY DEF IInv, Reads, Moves
<1>2. Calls(stack)'
  <2>1. Calls(stack')
    BY DEF Moves
  <2> QED
    BY <2>1 DEF Calls, Roomy, IsNode, IsStack, Waits
<1>3. (Runs(Top, pc) /\ pos =< Len(tokens) + 1)'
  <2>1. Runs(Last(stack'), pc') /\ pos' =< Len(tokens') + 1
    BY DEF Moves
  <2> QED
    BY <2>1, Zenon DEF Top, Runs, Last, Labels
<1> QED
  BY <1>1, <1>2, <1>3 DEF IInv

\* The parser stops, with the stack that it has.
LEMMA Stops ==
  ASSUME IInv, NEW label \in Over, NEW p \in 1 .. Len(tokens) + 3, Moves(label, stack, p)
  PROVE  IInv'
BY DEF IInv, Reads, Moves

LEMMA Fails ==
  ASSUME IInv, NEW p \in 1 .. Len(tokens) + 3, Fail(p)
  PROVE  IInv'
<1>1. PICK label \in Over : Goto(label, stack, p)
  BY DEF Fail, Over
<1> QED
  BY <1>1, GotoMoves, Stops

LEMMA CalleesAre ==
  /\ Callees("program") = {"funcdecl", "vardecl"}
  /\ Callees("funcdecl") = {"vardecl", "bstmt"}
  /\ Callees("vardecl") = {"expr"} /\ Callees("return") = {"expr"} /\ Callees("call") = {"expr"}
  /\ Callees("bstmt") = {"bstmt", "empty", "statement", "return", "if"}
  /\ Callees("if") = {"expr", "bstmt", "empty", "statement", "return", "if"}
  /\ Callees("statement") = {"vardecl", "expr"}
  /\ Callees("expr") = {"expr", "call"}
  /\ Callees("empty") = {}
BY DEF Callees

LEMMA LabelsAre ==
  /\ Labels("program") = {"decl", "semicolon"}
  /\ Labels("funcdecl") = {"param", "result", "body"}
  /\ Labels("vardecl") = {"type"}
  /\ Labels("bstmt") = {"stmt"}
  /\ Labels("if") = {"close", "stmt", "else"}
  /\ Labels("expr") = {"operand", "operator", "close"}
  /\ Labels("call") = {"argument"}
  /\ Labels("empty") = {"semicolon"} /\ Labels("statement") = {"semicolon"} /\ Labels("return") = {"semicolon"}
BY DEF Labels

\* Which function runs at a label.
LEMMA WhoRuns ==
  ASSUME NEW f, Roomy(f), NEW label, Runs(f, label)
  PROVE  /\ label = "decl" => f.of = "program"
         /\ label = "type" => f.of = "vardecl"
         /\ label \in {"param", "result", "body"} => f.of = "funcdecl"
         /\ label = "stmt" => f.of \in {"bstmt", "if"}
         /\ label = "semicolon" => f.of \in {"program", "empty", "statement", "return"}
         /\ label = "else" => f.of = "if"
         /\ label \in {"operand", "operator"} => f.of = "expr"
         /\ label = "close" => f.of \in {"if", "expr"}
         /\ label = "argument" => f.of = "call"
<1>1. PICK of : of = f.of
  OBVIOUS
<1>2. of \in Kinds /\ label \in Labels(of) \cup {"end", "done"}
  BY <1>1, Zenon DEF Roomy, Runs
<1>3. of \in {"program", "funcdecl", "vardecl", "bstmt", "empty", "statement", "return", "if", "expr", "call"}
  BY <1>2 DEF Kinds
<1> QED
  BY <1>1, <1>2, <1>3, LabelsAre

\* A node that is new.
LEMMA NewFrame ==
  ASSUME NEW of \in Kinds, NEW at
  PROVE  LET f == Frame(of, at) IN
         Roomy(f) /\ f.of = of /\ f.kids = <<>> /\ f.marks = <<>> /\ Len(f.kids) = 0 /\ Len(f.marks) = 0
<1>1. PICK f : f = Frame(of, at)
  OBVIOUS
<1>2. IsNode(f) /\ f.of = of /\ f.kids = <<>> /\ f.marks = <<>> /\ Len(f.kids) = 0 /\ Len(f.marks) = 0
  BY <1>1, NewNode
<1>3. Roomy(f)
  BY <1>2, ParserAssumption DEF Roomy
<1> QED
  BY <1>1, <1>2, <1>3

\* Another label, the same stack.
LEMMA Turns ==
  ASSUME IInv, pc \notin Over, NEW label, NEW p \in 1 .. Len(tokens) + 1, Moves(label, stack, p),
         Runs(Top, label)
  PROVE  IInv'
BY Running, GoesOn DEF Top

\* Another node in the place of the running one.
LEMMA Changes ==
  ASSUME IInv, pc \notin Over, NEW label, NEW f, NEW p \in 1 .. Len(tokens) + 1,
         Moves(label, Append(Callers, f), p), f.of = Top.of, Roomy(f), Runs(f, label)
  PROVE  IInv'
<1>1. Calls(stack) /\ f.of = Last(stack).of
  BY Running DEF Top
<1>2. PICK s : s = Append(Front(stack), f)
  OBVIOUS
<1>3. Calls(s) /\ Last(s) = f
  BY <1>1, <1>2, ChangeCalls
<1>4. Moves(label, s, p)
  BY <1>2 DEF Callers
<1> QED
  BY <1>3, <1>4, GoesOn

\* A call of a function.
LEMMA Enters ==
  ASSUME IInv, pc \notin Over, NEW label, NEW f, NEW p \in 1 .. Len(tokens) + 1,
         Moves(label, Append(stack, f), p), Waits(Top, f.of), Roomy(f), Runs(f, label)
  PROVE  IInv'
<1>1. Calls(stack) /\ Waits(Last(stack), f.of)
  BY Running DEF Top
<1>2. PICK s : s = Append(stack, f)
  OBVIOUS
<1>3. Calls(s) /\ Last(s) = f
  BY <1>1, <1>2, PushCalls
<1>4. Moves(label, s, p)
  BY <1>2
<1> QED
  BY <1>3, <1>4, GoesOn

\* A call of a function that calls another.
LEMMA EntersTwo ==
  ASSUME IInv, pc \notin Over, NEW label, NEW f, NEW g, NEW p \in 1 .. Len(tokens) + 1,
         Moves(label, stack \o <<f, g>>, p), Waits(Top, f.of), Roomy(f), Waits(f, g.of), Roomy(g), Runs(g, label)
  PROVE  IInv'
<1>1. Calls(stack) /\ Waits(Last(stack), f.of)
  BY Running DEF Top
<1>2. PICK s : s = stack \o <<f, g>>
  OBVIOUS
<1>3. Calls(s) /\ Last(s) = g
  BY <1>1, <1>2, PushTwo
<1>4. Moves(label, s, p)
  BY <1>2
<1> QED
  BY <1>3, <1>4, GoesOn

\* A new node runs, or waits.
LEMMA NewRuns ==
  ASSUME NEW of \in Kinds, NEW at, NEW label \in Labels(of) \cup {"end", "done"}, of # "if",
         of = "expr" => label = "operand"
  PROVE  Runs(Frame(of, at), label)
<1>1. PICK f : f = Frame(of, at)
  OBVIOUS
<1>2. f.of = of /\ Len(f.kids) = 0 /\ Len(f.marks) = 0
  BY <1>1, NewFrame
<1>3. Runs(f, label)
  BY <1>2 DEF Runs
<1> QED
  BY <1>1, <1>3

LEMMA NewWaits ==
  ASSUME NEW of \in Kinds, NEW at, NEW called \in Callees(of), of = "if" => called = "expr"
  PROVE  Waits(Frame(of, at), called)
<1>1. PICK f : f = Frame(of, at)
  OBVIOUS
<1>2. f.of = of /\ Len(f.kids) = 0 /\ Len(f.marks) = 0
  BY <1>1, NewFrame
<1>3. Waits(f, called)
  BY <1>2 DEF Waits
<1> QED
  BY <1>1, <1>3

\* A statement may be called wherever one is read.
LEMMA StmtWaits ==
  ASSUME IInv, pc = "stmt", NEW of \in {"bstmt", "empty", "statement", "return", "if"}
  PROVE  Waits(Top, of)
<1>1. pc \notin Over
  BY DEF Over
<1>2. PICK f : f = Top
  OBVIOUS
<1>3. Roomy(f) /\ Runs(f, "stmt")
  BY <1>1, <1>2, Running
<1>4. f.of \in {"bstmt", "if"} /\ (f.of = "if" => Len(f.kids) \in {1, 2})
  BY <1>3, WhoRuns DEF Runs
<1>5. Waits(f, of)
  BY <1>4, CalleesAre DEF Waits
<1> QED
  BY <1>2, <1>5

-----------------------------------------------------------------------------
(* Declarations *)

LEMMA DeclarationKeeps ==
  ASSUME IInv, Declaration
  PROVE  IInv'
<1>1. pc = "decl" /\ pc \notin Over
  BY DEF Declaration, Over
<1>2. PICK id : id = Ident(pos)
  OBVIOUS
<1>3. /\ tokens \in Seq(Tokens) /\ Len(tokens) \in Nat /\ pos \in 1 .. Len(tokens) + 1
      /\ Roomy(Top) /\ Runs(Top, "decl") /\ Len(Top.kids) \in Nat
  BY <1>1, Running
<1>4. id.ok \in BOOLEAN /\ id.end \in pos + 1 .. Len(tokens) + 2 /\ (id.ok => id.end =< Len(tokens) + 1)
  BY <1>2, <1>3, IdentEnds
<1>5. PICK next :
        /\ next = CASE Closed(id.end) -> [pc |-> "closed", stack |-> stack]
                    [] Token(id.end) = ":" -> [pc |-> "type", stack |-> Append(stack, Frame("vardecl", pos))]
                    [] Token(id.end) = "(" -> [pc |-> "param", stack |-> Append(stack, Frame("funcdecl", pos))]
                    [] OTHER -> [pc |-> "failed", stack |-> stack]
        /\ pc' = next.pc /\ stack' = next.stack /\ pos' = id.end + 1
        /\ notes' = IF id.ok THEN notes ELSE notes \cup {"message"}
        /\ tokens' = tokens
  BY <1>2, Zenon DEF Declaration
<1>6. notes' \subseteq Notes
  BY <1>5 DEF IInv, Reads, Notes
<1>7. Moves(next.pc, next.stack, id.end + 1)
  BY <1>5, <1>6 DEF Moves
<1>8. Closed(id.end) => Token(id.end) = "eof"
  BY <1>3, <1>4 DEF Closed, Token
<1>9. CASE Closed(id.end) \/ Token(id.end) \notin {":", "("}
  <2>1. next = [pc |-> "closed", stack |-> stack] \/ next = [pc |-> "failed", stack |-> stack]
    BY <1>5, <1>8, <1>9
  <2>2. next.pc \in Over /\ next.stack = stack
    BY <2>1 DEF Over
  <2>3. id.end + 1 \in 1 .. Len(tokens) + 3
    BY <1>3, <1>4
  <2> QED
    BY <1>7, <2>2, <2>3, Stops
<1>10. CASE ~Closed(id.end) /\ Token(id.end) \in {":", "("}
  <2>1. PICK label \in {"type", "param"}, of \in {"vardecl", "funcdecl"} :
          /\ label = "type" <=> of = "vardecl"
          /\ next.pc = label /\ next.stack = Append(stack, Frame(of, pos))
    <3>1. CASE Token(id.end) = ":"
      <4>1. next = [pc |-> "type", stack |-> Append(stack, Frame("vardecl", pos))]
        BY <1>5, <1>10, <3>1
      <4> QED
        BY <4>1
    <3>2. CASE Token(id.end) = "("
      <4>1. next = [pc |-> "param", stack |-> Append(stack, Frame("funcdecl", pos))]
        BY <1>5, <1>10, <3>2
      <4> QED
        BY <4>1
    <3> QED
      BY <1>10, <3>1, <3>2
  <2>2. id.end + 1 \in 1 .. Len(tokens) + 1
    BY <1>3, <1>4, <1>10, TokenAt
  <2>3. Waits(Top, of)
    <3>1. Top.of = "program"
      BY <1>3, WhoRuns
    <3> QED
      BY <3>1, CalleesAre DEF Waits
  <2>4. PICK f : f = Frame(of, pos)
    OBVIOUS
  <2>5. f.of = of /\ Roomy(f) /\ Runs(f, label)
    BY <2>1, <2>4, NewFrame, NewRuns, LabelsAre DEF Kinds
  <2>6. Moves(label, Append(stack, f), id.end + 1)
    BY <1>7, <2>1, <2>4
  <2> QED
    BY <1>1, <2>2, <2>3, <2>5, <2>6, Enters
<1> QED
  BY <1>9, <1>10

LEMMA EndProgramKeeps ==
  ASSUME IInv, EndProgram
  PROVE  IInv'
<1>1. pc = "decl" /\ pc \notin Over /\ Moves("end", stack, pos)
  BY GotoMoves DEF EndProgram, Over
<1>2. pos \in 1 .. Len(tokens) + 1 /\ Top.of = "program"
  BY <1>1, Running, WhoRuns
<1>3. Runs(Top, "end")
  BY <1>2 DEF Runs
<1> QED
  BY <1>1, <1>2, <1>3, Turns

\* Another place in the running node.
LEMMA MarkTop ==
  ASSUME IInv, pc \notin Over, Top.of # "expr", NEW x
  PROVE  /\ Roomy(Mark(Top, x)) /\ Mark(Top, x).of = Top.of /\ Mark(Top, x).kids = Top.kids
         /\ Calls(Append(Callers, Mark(Top, x))) /\ Last(Append(Callers, Mark(Top, x))) = Mark(Top, x)
<1>1. Calls(stack) /\ Roomy(Top) /\ IsNode(Top)
  BY Running
<1>2. PICK f : f = Mark(Top, x)
  OBVIOUS
<1>3. IsNode(f) /\ f.of = Top.of /\ f.kids = Top.kids
  BY <1>1, <1>2, MoreNode
<1>4. Roomy(f)
  BY <1>1, <1>3 DEF Roomy
<1>5. Calls(Append(Front(stack), f)) /\ Last(Append(Front(stack), f)) = f
  BY <1>1, <1>3, <1>4, ChangeCalls DEF Top
<1> QED
  BY <1>2, <1>3, <1>4, <1>5 DEF Callers

LEMMA TypeKeeps ==
  ASSUME IInv, Type
  PROVE  IInv'
<1>1. pc = "type" /\ pc \notin Over
  BY DEF Type, Over
<1>2. /\ tokens \in Seq(Tokens) /\ Len(tokens) \in Nat /\ pos \in 1 .. Len(tokens) + 1
      /\ Top.of = "vardecl"
  BY <1>1, Running, WhoRuns
<1>3. PICK typed : typed = Append(Callers, Mark(Top, pos))
  OBVIOUS
<1>4. PICK f : f = Mark(Top, pos)
  OBVIOUS
<1>5. Roomy(f) /\ f.of = "vardecl" /\ Calls(typed) /\ Last(typed) = f
  BY <1>1, <1>2, <1>3, <1>4, MarkTop
<1>6. CASE Token(pos) # "id"
  <2>1. Fail(pos + 1)
    BY <1>6, Zenon DEF Type
  <2> QED
    BY <1>2, <2>1, Fails
<1>7. CASE Token(pos) = "id"
  <2>1. pos =< Len(tokens)
    BY <1>2, <1>7, TokenAt
  <2>2. CASE Token(pos + 1) = "="
    <3>1. PICK g : g = Frame("expr", pos + 2)
      OBVIOUS
    <3>2. Goto("operand", Append(typed, g), pos + 2)
      BY <1>3, <1>7, <2>2, <3>1 DEF Type
    <3>3. Moves("operand", Append(typed, g), pos + 2)
      BY <3>2, GotoMoves
    <3>4. Roomy(g) /\ g.of = "expr" /\ Runs(g, "operand")
      BY <3>1, NewFrame, NewRuns, LabelsAre DEF Kinds
    <3>5. Waits(f, "expr")
      BY <1>5, CalleesAre DEF Waits
    <3>6. Calls(Append(typed, g)) /\ Last(Append(typed, g)) = g
      BY <1>5, <3>4, <3>5, PushCalls
    <3>7. pos + 2 \in 1 .. Len(tokens) + 1
      BY <1>2, <2>2, TokenAt
    <3> QED
      BY <3>3, <3>4, <3>6, <3>7, GoesOn
  <2>3. CASE Token(pos + 1) \in OpTokens \ {"="}
    <3>1. Fail(pos + 2)
      BY <1>7, <2>3 DEF Type
    <3> QED
      BY <1>2, <2>1, <3>1, Fails
  <2>4. CASE Token(pos + 1) \notin OpTokens \cup {"="}
    <3>1. Goto("end", typed, pos + 1)
      BY <1>3, <1>7, <2>4 DEF Type
    <3>2. Moves("end", typed, pos + 1)
      BY <3>1, GotoMoves
    <3>3. Runs(f, "end")
      BY <1>5 DEF Runs
    <3> QED
      BY <1>2, <1>5, <2>1, <3>2, <3>3, GoesOn
  <2> QED
    BY <2>2, <2>3, <2>4
<1> QED
  BY <1>6, <1>7

\* Where the next parameter or argument begins.
LEMMA EntryAt ==
  ASSUME tokens \in Seq(Tokens), pos \in 1 .. Len(tokens) + 1, ~NoComma
  PROVE  Entry \in 1 .. Len(tokens) + 1
<1> pos \in Nat
  OBVIOUS
<1>1. CASE Top.kids = <<>>
  BY <1>1, Zenon DEF Entry
<1>2. CASE Top.kids # <<>>
  <2>1. Token(pos) = "," /\ Entry = pos + 1
    BY <1>2, Zenon DEF Entry, NoComma
  <2> QED
    BY <2>1, TokenAt
<1> QED
  BY <1>1, <1>2

LEMMA ParameterKeeps ==
  ASSUME IInv, Parameter
  PROVE  IInv'
<1>1. pc = "param" /\ pc \notin Over
  BY DEF Parameter, Over
<1>2. /\ tokens \in Seq(Tokens) /\ Len(tokens) \in Nat /\ pos \in 1 .. Len(tokens) + 1
      /\ Top.of = "funcdecl"
  BY <1>1, Running, WhoRuns
<1>3. CASE NoComma
  <2>1. Fail(pos + 1)
    BY <1>3, Zenon DEF Parameter
  <2> QED
    BY <1>2, <2>1, Fails
<1>4. CASE ~NoComma
  <2>1. PICK id : id = Ident(Entry)
    OBVIOUS
  <2>2. Entry \in 1 .. Len(tokens) + 1
    BY <1>2, <1>4, EntryAt
  <2>3. id.ok \in BOOLEAN /\ id.end \in 2 .. Len(tokens) + 2 /\ (id.ok => id.end =< Len(tokens) + 1)
    BY <1>2, <2>1, <2>2, IdentEnds
  <2>4. CASE ~id.ok
    <3>1. Fail(id.end)
      BY <1>4, <2>1, <2>4 DEF Parameter
    <3> QED
      BY <2>3, <3>1, <1>2, Fails
  <2>5. CASE id.ok /\ Token(id.end) # ":"
    <3>1. Fail(id.end + 1)
      BY <1>4, <2>1, <2>5 DEF Parameter
    <3> QED
      BY <2>3, <2>5, <3>1, <1>2, Fails
  <2>6. CASE id.ok /\ Token(id.end) = ":"
    <3>1. PICK f : f = Frame("vardecl", Entry)
      OBVIOUS
    <3>2. Goto("type", Append(stack, f), id.end + 1)
      BY <1>4, <2>1, <2>6, <3>1 DEF Parameter, Enter
    <3>3. Moves("type", Append(stack, f), id.end + 1)
      BY <3>2, GotoMoves
    <3>4. Roomy(f) /\ f.of = "vardecl" /\ Runs(f, "type")
      BY <3>1, NewFrame, NewRuns, LabelsAre DEF Kinds
    <3>5. Waits(Top, "vardecl")
      BY <1>2, CalleesAre DEF Waits
    <3>6. id.end + 1 \in 1 .. Len(tokens) + 1
      BY <1>2, <2>3, <2>6, TokenAt
    <3> QED
      BY <1>1, <3>3, <3>4, <3>5, <3>6, Enters
  <2> QED
    BY <2>3, <2>4, <2>5, <2>6
<1> QED
  BY <1>3, <1>4

LEMMA EndParametersKeeps ==
  ASSUME IInv, EndParameters
  PROVE  IInv'
<1>1. pc = "param" /\ pc \notin Over /\ Moves("result", stack, pos + 1)
  BY GotoMoves DEF EndParameters, Over
<1>2. /\ tokens \in Seq(Tokens) /\ Len(tokens) \in Nat /\ pos \in 1 .. Len(tokens) + 1
      /\ Top.of = "funcdecl"
  BY <1>1, Running, WhoRuns
<1>3. pos + 1 \in 1 .. Len(tokens) + 1
  BY <1>2, TokenAt DEF EndParameters
<1>4. Runs(Top, "result")
  BY <1>2, LabelsAre DEF Runs
<1> QED
  BY <1>1, <1>3, <1>4, Turns

LEMMA ReturnTypeKeeps ==
  ASSUME IInv, ReturnType
  PROVE  IInv'
<1>1. pc = "result" /\ pc \notin Over /\ Token(pos) = ":"
  BY DEF ReturnType, Over
<1>2. /\ tokens \in Seq(Tokens) /\ Len(tokens) \in Nat /\ pos \in 1 .. Len(tokens) + 1
      /\ Top.of = "funcdecl"
  BY <1>1, Running, WhoRuns
<1>3. pos =< Len(tokens)
  BY <1>1, <1>2, TokenAt
<1>4. CASE Token(pos + 1) = "id"
  <2>1. PICK f : f = Mark(Top, pos + 1)
    OBVIOUS
  <2>2. Goto("body", Append(Callers, f), pos + 2)
    BY <1>4, <2>1 DEF ReturnType
  <2>3. Moves("body", Append(Callers, f), pos + 2)
    BY <2>2, GotoMoves
  <2>4. Roomy(f) /\ f.of = Top.of
    BY <1>1, <1>2, <2>1, MarkTop
  <2>5. Runs(f, "body")
    BY <1>2, <2>4, LabelsAre DEF Runs
  <2>6. pos + 2 \in 1 .. Len(tokens) + 1
    BY <1>2, <1>4, TokenAt
  <2> QED
    BY <1>1, <2>3, <2>4, <2>5, <2>6, Changes
<1>5. CASE Token(pos + 1) # "id"
  BY <1>2, <1>3, <1>5, Fails DEF ReturnType
<1> QED
  BY <1>4, <1>5

LEMMA NoReturnTypeKeeps ==
  ASSUME IInv, NoReturnType
  PROVE  IInv'
<1>1. pc = "result" /\ pc \notin Over
  BY DEF NoReturnType, Over
<1>2. pos \in 1 .. Len(tokens) + 1 /\ Top.of = "funcdecl"
  BY <1>1, Running, WhoRuns
<1>3. PICK f : f = Mark(Top, 0)
  OBVIOUS
<1>4. Moves("body", Append(Callers, f), pos)
  BY <1>3 DEF NoReturnType, Moves, IInv, Reads, Notes
<1>5. Roomy(f) /\ f.of = Top.of
  BY <1>1, <1>2, <1>3, MarkTop
<1>6. Runs(f, "body")
  BY <1>2, <1>5, LabelsAre DEF Runs
<1> QED
  BY <1>1, <1>2, <1>4, <1>5, <1>6, Changes

LEMMA BodyKeeps ==
  ASSUME IInv, Body
  PROVE  IInv'
<1>1. pc = "body" /\ pc \notin Over
  BY DEF Body, Over
<1>2. /\ tokens \in Seq(Tokens) /\ Len(tokens) \in Nat /\ pos \in 1 .. Len(tokens) + 1
      /\ Top.of = "funcdecl"
  BY <1>1, Running, WhoRuns
<1>3. Token(pos) # "eof" => pos + 1 \in 1 .. Len(tokens) + 1
  BY <1>2, TokenAt
<1>4. CASE Token(pos) = "extc" /\ Len(Top.marks) = 1
  <2>1. PICK f : f = Mark(Top, pos)
    OBVIOUS
  <2>2. Goto("body", Append(Callers, f), pos + 1)
    BY <1>4, <2>1 DEF Body
  <2>3. Moves("body", Append(Callers, f), pos + 1)
    BY <2>2, GotoMoves
  <2>4. Roomy(f) /\ f.of = Top.of
    BY <1>1, <1>2, <2>1, MarkTop
  <2>5. Runs(f, "body")
    BY <1>2, <2>4, LabelsAre DEF Runs
  <2> QED
    BY <1>1, <1>3, <1>4, <2>3, <2>4, <2>5, Changes
<1>5. CASE Token(pos) = ";"
  <2>1. Goto("end", stack, pos + 1)
    BY <1>5 DEF Body
  <2>2. Moves("end", stack, pos + 1)
    BY <2>1, GotoMoves
  <2>3. Runs(Top, "end")
    BY <1>2 DEF Runs
  <2> QED
    BY <1>1, <1>3, <1>5, <2>2, <2>3, Turns
<1>6. CASE Token(pos) = "{"
  <2>1. PICK f : f = Frame("bstmt", pos)
    OBVIOUS
  <2>2. Goto("stmt", Append(stack, f), pos + 1)
    BY <1>6, <2>1 DEF Body, Enter
  <2>3. Moves("stmt", Append(stack, f), pos + 1)
    BY <2>2, GotoMoves
  <2>4. Roomy(f) /\ f.of = "bstmt" /\ Runs(f, "stmt")
    BY <2>1, NewFrame, NewRuns, LabelsAre DEF Kinds
  <2>5. Waits(Top, "bstmt")
    BY <1>2, CalleesAre DEF Waits
  <2> QED
    BY <1>1, <1>3, <1>6, <2>3, <2>4, <2>5, Enters
<1>7. CASE ~(Token(pos) = "extc" /\ Len(Top.marks) = 1) /\ Token(pos) \notin {";", "{"}
  <2>1. Fail(pos + 1)
    BY <1>7 DEF Body
  <2> QED
    BY <1>2, <2>1, Fails
<1> QED
  BY <1>4, <1>5, <1>6, <1>7

-----------------------------------------------------------------------------
(* Statements *)

LEMMA EndBlockKeeps ==
  ASSUME IInv, EndBlock
  PROVE  IInv'
<1>1. pc = "stmt" /\ pc \notin Over /\ Token(pos) = "}" /\ Top.of = "bstmt"
  BY DEF EndBlock, Over
<1>2. Moves("end", stack, pos + 1)
  BY GotoMoves DEF EndBlock
<1>3. tokens \in Seq(Tokens) /\ Len(tokens) \in Nat /\ pos \in 1 .. Len(tokens) + 1
  BY <1>1, Running
<1>4. pos + 1 \in 1 .. Len(tokens) + 1
  <2>1. Token(pos) # "eof"
    BY <1>1, Zenon
  <2> QED
    BY <1>3, <2>1, TokenAt
<1>5. Runs(Top, "end")
  BY <1>1 DEF Runs
<1> QED
  BY <1>1, <1>2, <1>4, <1>5, Turns

LEMMA StmtBlockKeeps ==
  ASSUME IInv, StmtBlock
  PROVE  IInv'
<1>1. pc = "stmt" /\ pc \notin Over /\ Token(pos) = "{"
  BY DEF StmtBlock, Over
<1>2. tokens \in Seq(Tokens) /\ Len(tokens) \in Nat /\ pos \in 1 .. Len(tokens) + 1
  BY <1>1, Running
<1>3. pos + 1 \in 1 .. Len(tokens) + 1
  <2>1. Token(pos) # "eof"
    BY <1>1, Zenon
  <2> QED
    BY <1>2, <2>1, TokenAt
<1>4. PICK f : f = Frame("bstmt", pos)
  OBVIOUS
<1>5. Moves("stmt", Append(stack, f), pos + 1)
  BY <1>4, GotoMoves DEF StmtBlock, Enter
<1>6. Roomy(f) /\ f.of = "bstmt" /\ Runs(f, "stmt")
  BY <1>4, NewFrame, NewRuns, LabelsAre DEF Kinds
<1>7. Waits(Top, "bstmt")
  BY <1>1, StmtWaits
<1> QED
  BY <1>1, <1>3, <1>5, <1>6, <1>7, Enters

LEMMA StmtEmptyKeeps ==
  ASSUME IInv, StmtEmpty
  PROVE  IInv'
<1>1. pc = "stmt" /\ pc \notin Over
  BY DEF StmtEmpty, Over
<1>2. pos \in 1 .. Len(tokens) + 1
  BY <1>1, Running
<1>3. PICK f : f = Frame("empty", pos)
  OBVIOUS
<1>4. Moves("semicolon", Append(stack, f), pos)
  BY <1>3, GotoMoves DEF StmtEmpty, Enter
<1>5. Roomy(f) /\ f.of = "empty" /\ Runs(f, "semicolon")
  BY <1>3, NewFrame, NewRuns, LabelsAre DEF Kinds
<1>6. Waits(Top, "empty")
  BY <1>1, StmtWaits
<1> QED
  BY <1>1, <1>2, <1>4, <1>5, <1>6, Enters

\* A statement that calls yfp_expr.
LEMMA EntersExpr ==
  ASSUME IInv, pc = "stmt", NEW of \in {"statement", "return", "if"}, NEW at, NEW p \in 1 .. Len(tokens) + 1,
         Goto("operand", stack \o <<Frame(of, at), Frame("expr", p)>>, p)
  PROVE  IInv'
<1>1. pc \notin Over
  BY DEF Over
<1>2. PICK f, g : f = Frame(of, at) /\ g = Frame("expr", p)
  OBVIOUS
<1>3. Moves("operand", stack \o <<f, g>>, p)
  BY <1>2, GotoMoves
<1>4. Roomy(f) /\ f.of = of /\ Roomy(g) /\ g.of = "expr"
  BY <1>2, NewFrame DEF Kinds
<1>5. Waits(Top, of) /\ Waits(f, "expr")
  BY <1>2, StmtWaits, NewWaits, CalleesAre DEF Kinds
<1>6. Runs(g, "operand")
  BY <1>2, NewRuns, LabelsAre DEF Kinds
<1> QED
  BY <1>1, <1>3, <1>4, <1>5, <1>6, EntersTwo

LEMMA StmtParenthesisKeeps ==
  ASSUME IInv, StmtParenthesis
  PROVE  IInv'
<1>1. pc = "stmt" /\ pc \notin Over
  BY DEF StmtParenthesis, Over
<1>2. pos \in 1 .. Len(tokens) + 1
  BY <1>1, Running
<1>3. Goto("operand", stack \o <<Frame("statement", pos), Frame("expr", pos)>>, pos)
  BY DEF StmtParenthesis
<1> QED
  BY <1>1, <1>2, <1>3, EntersExpr

LEMMA StmtReturnKeeps ==
  ASSUME IInv, StmtReturn
  PROVE  IInv'
<1>1. pc = "stmt" /\ pc \notin Over /\ Token(pos) = "return"
  BY DEF StmtReturn, Over
<1>2. tokens \in Seq(Tokens) /\ Len(tokens) \in Nat /\ pos \in 1 .. Len(tokens) + 1
  BY <1>1, Running
<1>3. pos + 1 \in 1 .. Len(tokens) + 1
  BY <1>1, <1>2, TokenAt
<1>4. CASE Token(pos + 1) = ";"
  <2>1. PICK f : f = Frame("return", pos)
    OBVIOUS
  <2>2. Goto("semicolon", Append(stack, f), pos + 1)
    BY <1>4, <2>1 DEF StmtReturn, Enter
  <2>3. Moves("semicolon", Append(stack, f), pos + 1)
    BY <2>2, GotoMoves
  <2>4. Roomy(f) /\ f.of = "return" /\ Runs(f, "semicolon")
    BY <2>1, NewFrame, NewRuns, LabelsAre DEF Kinds
  <2>5. Waits(Top, "return")
    BY <1>1, StmtWaits
  <2> QED
    BY <1>1, <1>3, <2>3, <2>4, <2>5, Enters
<1>5. CASE Token(pos + 1) # ";"
  <2>1. Goto("operand", stack \o <<Frame("return", pos), Frame("expr", pos + 1)>>, pos + 1)
    BY <1>5 DEF StmtReturn
  <2> QED
    BY <1>1, <1>3, <2>1, EntersExpr
<1> QED
  BY <1>4, <1>5

LEMMA StmtIfKeeps ==
  ASSUME IInv, StmtIf
  PROVE  IInv'
<1>1. pc = "stmt" /\ pc \notin Over /\ Token(pos) = "if"
  BY DEF StmtIf, Over
<1>2. tokens \in Seq(Tokens) /\ Len(tokens) \in Nat /\ pos \in 1 .. Len(tokens) + 1
  BY <1>1, Running
<1>3. pos =< Len(tokens)
  BY <1>1, <1>2, TokenAt
<1>4. CASE Token(pos + 1) = "("
  <2>1. Goto("operand", stack \o <<Frame("if", pos), Frame("expr", pos + 2)>>, pos + 2)
    BY <1>4 DEF StmtIf
  <2>2. pos + 2 \in 1 .. Len(tokens) + 1
    BY <1>2, <1>4, TokenAt
  <2> QED
    BY <1>1, <2>1, <2>2, EntersExpr
<1>5. CASE Token(pos + 1) # "("
  <2>1. Fail(pos + 2)
    BY <1>5 DEF StmtIf
  <2> QED
    BY <1>2, <1>3, <2>1, Fails
<1> QED
  BY <1>4, <1>5

LEMMA StmtVardeclKeeps ==
  ASSUME IInv, StmtVardecl
  PROVE  IInv'
<1>1. pc = "stmt" /\ pc \notin Over /\ Ident(pos).ok /\ Token(Ident(pos).end) = ":"
  BY DEF StmtVardecl, Over
<1>2. tokens \in Seq(Tokens) /\ Len(tokens) \in Nat /\ pos \in 1 .. Len(tokens) + 1
  BY <1>1, Running
<1>3. PICK end : end = Ident(pos).end
  OBVIOUS
<1>4. end \in 2 .. Len(tokens) + 2
  BY <1>2, <1>3, IdentEnds
<1>5. end + 1 \in 1 .. Len(tokens) + 1
  BY <1>1, <1>2, <1>3, <1>4, TokenAt
<1>6. PICK f, g : f = Frame("statement", pos) /\ g = Frame("vardecl", pos)
  OBVIOUS
<1>7. Goto("type", stack \o <<f, g>>, end + 1)
  BY <1>3, <1>6 DEF StmtVardecl
<1>8. Moves("type", stack \o <<f, g>>, end + 1)
  BY <1>7, GotoMoves
<1>9. Roomy(f) /\ f.of = "statement" /\ Roomy(g) /\ g.of = "vardecl"
  BY <1>6, NewFrame DEF Kinds
<1>10. Waits(Top, "statement") /\ Waits(f, "vardecl")
  BY <1>1, <1>6, StmtWaits, NewWaits, CalleesAre DEF Kinds
<1>11. Runs(g, "type")
  BY <1>6, NewRuns, LabelsAre DEF Kinds
<1> QED
  BY <1>1, <1>5, <1>8, <1>9, <1>10, <1>11, EntersTwo

LEMMA StmtMiddleKeeps ==
  ASSUME IInv, StmtMiddle
  PROVE  IInv'
<1>1. /\ pc = "stmt" /\ pc \notin Over
      /\ Token(Ident(pos).end) \in OpTokens \cup {"("}
  BY DEF StmtMiddle, Over
<1>2. tokens \in Seq(Tokens) /\ Len(tokens) \in Nat /\ pos \in 1 .. Len(tokens) + 1
  BY <1>1, Running
<1>3. PICK end : end = Ident(pos).end
  OBVIOUS
<1>4. end \in 2 .. Len(tokens) + 2
  BY <1>2, <1>3, IdentEnds
<1>5. Token(end) # "eof"
  BY <1>1, <1>3 DEF OpTokens, Operators, Tiers, Assignments, Range
<1>6. end + 1 \in 1 .. Len(tokens) + 1
  BY <1>2, <1>4, <1>5, TokenAt
<1>7. PICK f, e, g : f = Frame("statement", pos) /\ e = Frame("expr", pos) /\ g = AddTo(e, Leaf(pos))
  OBVIOUS
<1>8. Moves("operator", stack \o <<f, g>>, end + 1)
  BY <1>3, <1>7 DEF StmtMiddle, Moves, IInv, Reads, Notes
<1>9. Roomy(f) /\ f.of = "statement" /\ IsNode(e) /\ e.of = "expr" /\ Len(e.kids) = 0 /\ Len(e.marks) = 0
  BY <1>7, NewFrame DEF Kinds, Roomy
<1>10. IsNode(g) /\ g.of = "expr" /\ Len(g.kids) = 1 /\ Len(g.marks) = 0
  <2>1. IsNode(g) /\ g.of = e.of /\ Len(g.kids) = Len(e.kids) + 1 /\ g.marks = e.marks
    BY <1>7, <1>9, MoreNode, Zenon
  <2> QED
    BY <1>9, <2>1
<1>11. Roomy(g)
  BY <1>10, ParserAssumption DEF Roomy, Kinds
<1>12. Waits(Top, "statement") /\ Waits(f, "expr")
  BY <1>1, <1>7, StmtWaits, NewWaits, CalleesAre DEF Kinds
<1>13. Runs(g, "operator")
  BY <1>10, LabelsAre DEF Runs
<1> QED
  BY <1>1, <1>6, <1>8, <1>9, <1>10, <1>11, <1>12, <1>13, EntersTwo

LEMMA StmtErrorKeeps ==
  ASSUME IInv, StmtError
  PROVE  IInv'
<1>1. pc = "stmt" /\ pc \notin Over
  BY DEF StmtError, Over
<1>2. tokens \in Seq(Tokens) /\ Len(tokens) \in Nat /\ pos \in 1 .. Len(tokens) + 1
  BY <1>1, Running
<1>3. PICK id : id = Ident(pos)
  OBVIOUS
<1>4. id.ok \in BOOLEAN /\ id.end \in 2 .. Len(tokens) + 2 /\ (id.ok => id.end =< Len(tokens) + 1)
  BY <1>2, <1>3, IdentEnds
<1>5. Fail(pos) \/ (~id.ok /\ Fail(id.end)) \/ (id.ok /\ Fail(id.end + 1))
  BY <1>3, Zenon DEF StmtError
<1>6. PICK p : Fail(p) /\ p \in 1 .. Len(tokens) + 3
  BY <1>2, <1>4, <1>5
<1> QED
  BY <1>6, Fails

LEMMA SemicolonKeeps ==
  ASSUME IInv, Semicolon
  PROVE  IInv'
<1>1. pc = "semicolon" /\ pc \notin Over
  BY DEF Semicolon, Over
<1>2. /\ tokens \in Seq(Tokens) /\ Len(tokens) \in Nat /\ pos \in 1 .. Len(tokens) + 1
      /\ Top.of \in {"program", "empty", "statement", "return"}
  BY <1>1, Running, WhoRuns
<1>3. CASE Token(pos) = ";"
  <2>1. PICK label : label = IF Top.of = "program" THEN "decl" ELSE "end"
    OBVIOUS
  <2>2. Goto(label, stack, pos + 1)
    BY <1>3, <2>1, Zenon DEF Semicolon
  <2>3. Moves(label, stack, pos + 1)
    BY <2>2, GotoMoves
  <2>4. Runs(Top, label)
    BY <1>2, <2>1, LabelsAre DEF Runs
  <2>5. pos + 1 \in 1 .. Len(tokens) + 1
    <3>1. Token(pos) # "eof"
      BY <1>3, Zenon
    <3> QED
      BY <1>2, <3>1, TokenAt
  <2> QED
    BY <1>1, <2>3, <2>4, <2>5, Turns
<1>4. CASE Token(pos) # ";"
  <2>1. Fail(pos + 1)
    BY <1>4, Zenon DEF Semicolon
  <2> QED
    BY <1>2, <2>1, Fails
<1> QED
  BY <1>3, <1>4

LEMMA ElseKeeps ==
  ASSUME IInv, Else
  PROVE  IInv'
<1>1. pc = "else" /\ pc \notin Over
  BY DEF Else, Over
<1>2. /\ tokens \in Seq(Tokens) /\ Len(tokens) \in Nat /\ pos \in 1 .. Len(tokens) + 1
      /\ Top.of = "if" /\ Len(Top.kids) = 2
  BY <1>1, Running, WhoRuns DEF Runs
<1>3. Runs(Top, "stmt") /\ Runs(Top, "end")
  BY <1>2, LabelsAre DEF Runs
<1>4. CASE Token(pos) = "else"
  <2>1. Goto("stmt", stack, pos + 1)
    BY <1>4 DEF Else
  <2>2. Moves("stmt", stack, pos + 1)
    BY <2>1, GotoMoves
  <2>3. pos + 1 \in 1 .. Len(tokens) + 1
    BY <1>2, <1>4, TokenAt
  <2> QED
    BY <1>1, <1>3, <2>2, <2>3, Turns
<1>5. CASE Token(pos) # "else"
  <2>1. Goto("end", stack, pos)
    BY <1>5 DEF Else
  <2>2. Moves("end", stack, pos)
    BY <2>1, GotoMoves
  <2> QED
    BY <1>1, <1>2, <1>3, <2>2, Turns
<1> QED
  BY <1>4, <1>5

-----------------------------------------------------------------------------
(* Expressions *)

\* An operand more.
LEMMA AtomTop ==
  ASSUME IInv, pc = "operand", NEW atom, NEW p \in 1 .. Len(tokens) + 1,
         Goto("operator", AddAtom(atom), p)
  PROVE  IInv'
<1>1. pc \notin Over
  BY DEF Over
<1>2. /\ Roomy(Top) /\ IsNode(Top) /\ Top.of = "expr"
      /\ Len(Top.kids) = Len(Top.marks) + 0 /\ Len(Top.marks) \in Nat
  BY <1>1, Running, WhoRuns DEF Runs
<1>3. PICK f : f = AddTo(Top, atom)
  OBVIOUS
<1>4. IsNode(f) /\ f.of = "expr" /\ f.marks = Top.marks /\ Len(f.kids) = Len(Top.kids) + 1
  BY <1>2, <1>3, MoreNode
<1>5. Len(f.kids) = Len(f.marks) + 1 /\ Len(f.marks) < MaxOperands
  BY <1>2, <1>4 DEF Roomy
<1>6. Roomy(f)
  BY <1>2, <1>4, <1>5, ParserAssumption DEF Roomy, Kinds
<1>7. Runs(f, "operator")
  BY <1>4, <1>5, LabelsAre DEF Runs
<1>8. Moves("operator", Append(Callers, f), p)
  BY <1>3, GotoMoves DEF AddAtom
<1> QED
  BY <1>1, <1>2, <1>4, <1>6, <1>7, <1>8, Changes

LEMMA OperandKeeps ==
  ASSUME IInv, Operand
  PROVE  IInv'
<1>1. pc = "operand" /\ pc \notin Over
  BY DEF Operand, Over
<1>2. /\ tokens \in Seq(Tokens) /\ Len(tokens) \in Nat /\ pos \in 1 .. Len(tokens) + 1
      /\ Top.of = "expr" /\ Len(Top.kids) = Len(Top.marks) + 0 /\ Len(Top.marks) \in Nat
  BY <1>1, Running, WhoRuns DEF Runs
<1>3. PICK id : id = Ident(pos)
  OBVIOUS
<1>4. id.ok \in BOOLEAN /\ id.end \in 2 .. Len(tokens) + 2 /\ (id.ok => id.end =< Len(tokens) + 1)
  BY <1>2, <1>3, IdentEnds
<1>5. Token(pos) # "eof" => pos + 1 \in 1 .. Len(tokens) + 1
  BY <1>2, TokenAt
<1>6. CASE Token(pos) = "lit"
  <2>1. Goto("operator", AddAtom(Leaf(pos)), pos + 1)
    BY <1>6 DEF Operand
  <2> QED
    BY <1>1, <1>5, <1>6, <2>1, AtomTop
<1>7. CASE Token(pos) = "("
  <2>1. PICK f : f = Frame("expr", pos + 1)
    OBVIOUS
  <2>2. Goto("operand", Append(stack, f), pos + 1)
    BY <1>7, <2>1 DEF Operand, Enter
  <2>3. Moves("operand", Append(stack, f), pos + 1)
    BY <2>2, GotoMoves
  <2>4. Roomy(f) /\ f.of = "expr" /\ Runs(f, "operand")
    BY <2>1, NewFrame, NewRuns, LabelsAre DEF Kinds
  <2>5. Waits(Top, "expr")
    BY <1>2, CalleesAre DEF Waits
  <2> QED
    BY <1>1, <1>5, <1>7, <2>3, <2>4, <2>5, Enters
<1>8. CASE Token(pos) = "id" /\ id.ok
  <2>1. CASE Token(id.end) = "("
    <3>1. PICK f : f = Frame("call", pos)
      OBVIOUS
    <3>2. Goto("argument", Append(stack, f), id.end + 1)
      BY <1>3, <1>8, <2>1, <3>1 DEF Operand, Enter
    <3>3. Moves("argument", Append(stack, f), id.end + 1)
      BY <3>2, GotoMoves
    <3>4. Roomy(f) /\ f.of = "call" /\ Runs(f, "argument")
      BY <3>1, NewFrame, NewRuns, LabelsAre DEF Kinds
    <3>5. Waits(Top, "call")
      BY <1>2, CalleesAre DEF Waits
    <3>6. id.end + 1 \in 1 .. Len(tokens) + 1
      BY <1>2, <1>4, <2>1, TokenAt
    <3> QED
      BY <1>1, <3>3, <3>4, <3>5, <3>6, Enters
  <2>2. CASE Token(id.end) # "("
    <3>1. Goto("operator", AddAtom(Leaf(pos)), id.end)
      BY <1>3, <1>8, <2>2 DEF Operand
    <3>2. id.end \in 1 .. Len(tokens) + 1
      BY <1>2, <1>4, <1>8
    <3> QED
      BY <1>1, <3>1, <3>2, AtomTop
  <2> QED
    BY <2>1, <2>2
<1>9. CASE Token(pos) \notin {"lit", "("} /\ ~(Token(pos) = "id" /\ id.ok)
  <2>1. Fail(id.end)
    BY <1>3, <1>9 DEF Operand
  <2>2. id.end \in 1 .. Len(tokens) + 3
    BY <1>2, <1>4
  <2> QED
    BY <2>1, <2>2, Fails
<1> QED
  BY <1>6, <1>7, <1>8, <1>9

LEMMA CloseKeeps ==
  ASSUME IInv, Close
  PROVE  IInv'
<1>1. pc = "close" /\ pc \notin Over
  BY DEF Close, Over
<1>2. /\ tokens \in Seq(Tokens) /\ Len(tokens) \in Nat /\ pos \in 1 .. Len(tokens) + 1
      /\ Top.of \in {"if", "expr"} /\ Runs(Top, "close")
  BY <1>1, Running, WhoRuns
<1>3. CASE Token(pos) = ")"
  <2>1. PICK label : label = IF Top.of = "if" THEN "stmt" ELSE "operator"
    OBVIOUS
  <2>2. Goto(label, stack, pos + 1)
    BY <1>3, <2>1, Zenon DEF Close
  <2>3. Moves(label, stack, pos + 1)
    BY <2>2, GotoMoves
  <2>4. Runs(Top, label)
    BY <1>2, <2>1, LabelsAre DEF Runs
  <2>5. pos + 1 \in 1 .. Len(tokens) + 1
    <3>1. Token(pos) # "eof"
      BY <1>3, Zenon
    <3> QED
      BY <1>2, <3>1, TokenAt
  <2> QED
    BY <1>1, <2>3, <2>4, <2>5, Turns
<1>4. CASE Token(pos) # ")"
  <2>1. Fail(pos + 1)
    BY <1>4, Zenon DEF Close
  <2> QED
    BY <1>2, <2>1, Fails
<1> QED
  BY <1>3, <1>4

LEMMA EndArgumentsKeeps ==
  ASSUME IInv, EndArguments
  PROVE  IInv'
<1>1. pc = "argument" /\ pc \notin Over /\ Token(pos) = ")"
  BY DEF EndArguments, Over
<1>2. Moves("end", stack, pos + 1)
  BY GotoMoves DEF EndArguments
<1>3. /\ tokens \in Seq(Tokens) /\ Len(tokens) \in Nat /\ pos \in 1 .. Len(tokens) + 1
      /\ Top.of = "call"
  BY <1>1, Running, WhoRuns
<1>4. pos + 1 \in 1 .. Len(tokens) + 1
  <2>1. Token(pos) # "eof"
    BY <1>1, Zenon
  <2> QED
    BY <1>3, <2>1, TokenAt
<1>5. Runs(Top, "end")
  BY <1>3 DEF Runs
<1> QED
  BY <1>1, <1>2, <1>4, <1>5, Turns

LEMMA ArgumentKeeps ==
  ASSUME IInv, Argument
  PROVE  IInv'
<1>1. pc = "argument" /\ pc \notin Over
  BY DEF Argument, Over
<1>2. /\ tokens \in Seq(Tokens) /\ Len(tokens) \in Nat /\ pos \in 1 .. Len(tokens) + 1
      /\ Top.of = "call"
  BY <1>1, Running, WhoRuns
<1>3. CASE NoComma
  <2>1. Fail(pos + 1)
    BY <1>3, Zenon DEF Argument
  <2> QED
    BY <1>2, <2>1, Fails
<1>4. CASE ~NoComma
  <2>1. PICK f : f = Frame("expr", Entry)
    OBVIOUS
  <2>2. Goto("operand", Append(stack, f), Entry)
    BY <1>4, <2>1, Zenon DEF Argument, Enter
  <2>3. Moves("operand", Append(stack, f), Entry)
    BY <2>2, GotoMoves
  <2>4. Roomy(f) /\ f.of = "expr" /\ Runs(f, "operand")
    BY <2>1, NewFrame, NewRuns, LabelsAre DEF Kinds
  <2>5. Waits(Top, "expr")
    BY <1>2, CalleesAre DEF Waits
  <2>6. Entry \in 1 .. Len(tokens) + 1
    BY <1>2, <1>4, EntryAt
  <2> QED
    BY <1>1, <2>3, <2>4, <2>5, <2>6, Enters
<1> QED
  BY <1>3, <1>4

LEMMA OperatorKeeps ==
  ASSUME IInv, Operator
  PROVE  IInv'
<1>1. pc = "operator" /\ pc \notin Over /\ Token(pos) \in OpTokens
  BY DEF Operator, Over
<1>2. /\ tokens \in Seq(Tokens) /\ Len(tokens) \in Nat /\ pos \in 1 .. Len(tokens) + 1
      /\ Roomy(Top) /\ IsNode(Top) /\ Top.of = "expr"
      /\ Len(Top.kids) = Len(Top.marks) + 1 /\ Len(Top.marks) \in Nat
  BY <1>1, Running, WhoRuns DEF Runs
<1>3. CASE Token(pos) \notin Operators /\ Len(Top.marks) # MaxOperands - 1
  <2>1. Fail(pos + 1)
    BY <1>3 DEF Operator
  <2> QED
    BY <1>2, <2>1, Fails
<1>4. CASE Len(Top.marks) = MaxOperands - 1
  <2>1. Goto("overrun", stack, pos)
    BY <1>4 DEF Operator
  <2>2. Moves("overrun", stack, pos)
    BY <2>1, GotoMoves
  <2>3. "overrun" \in Over /\ pos \in 1 .. Len(tokens) + 3
    BY <1>2 DEF Over
  <2> QED
    BY <2>2, <2>3, Stops
<1>5. CASE Token(pos) \in Operators /\ Len(Top.marks) # MaxOperands - 1
  <2>1. PICK f : f = Mark(Top, pos)
    OBVIOUS
  <2>2. Goto("operand", Append(Callers, f), pos + 1)
    BY <1>5, <2>1 DEF Operator
  <2>3. Moves("operand", Append(Callers, f), pos + 1)
    BY <2>2, GotoMoves
  <2>4. IsNode(f) /\ f.of = "expr" /\ f.kids = Top.kids /\ Len(f.marks) = Len(Top.marks) + 1
    BY <1>2, <2>1, MoreNode
  <2>5. Len(Top.marks) < MaxOperands /\ Len(Top.kids) =< MaxOperands
    BY <1>2 DEF Roomy
  <2>6. Len(f.marks) < MaxOperands /\ Len(f.kids) =< MaxOperands /\ Len(f.kids) = Len(f.marks) + 0
    BY <1>2, <1>5, <2>4, <2>5, ParserAssumption
  <2>7. Roomy(f)
    BY <2>4, <2>6 DEF Roomy, Kinds
  <2>8. Runs(f, "operand")
    BY <2>4, <2>6, LabelsAre DEF Runs
  <2>9. pos + 1 \in 1 .. Len(tokens) + 1
    <3>1. Token(pos) # "eof"
      BY <1>1 DEF OpTokens, Operators, Tiers, Assignments, Range
    <3> QED
      BY <1>2, <3>1, TokenAt
  <2> QED
    BY <1>1, <1>2, <2>3, <2>4, <2>7, <2>8, <2>9, Changes
<1> QED
  BY <1>3, <1>4, <1>5

LEMMA EndExprKeeps ==
  ASSUME IInv, EndExpr
  PROVE  IInv'
<1>1. pc = "operator" /\ pc \notin Over /\ Moves("end", stack, pos)
  BY GotoMoves DEF EndExpr, Over
<1>2. pos \in 1 .. Len(tokens) + 1 /\ Top.of = "expr" /\ Runs(Top, "operator")
  BY <1>1, Running, WhoRuns
<1>3. Runs(Top, "end")
  BY <1>2 DEF Runs
<1> QED
  BY <1>1, <1>2, <1>3, Turns

-----------------------------------------------------------------------------
(* Returns *)

\* What a function does when the one that it called has returned.
LEMMA Resumes ==
  ASSUME NEW c, Roomy(c), NEW of, Waits(c, of), NEW result
  PROVE  LET f == AddTo(c, result) IN Roomy(f) /\ f.of = c.of /\ Runs(f, Resume(c, of))
<1>1. PICK f : f = AddTo(c, result)
  OBVIOUS
<1>2. IsNode(c) /\ Len(c.kids) \in Nat /\ Len(c.marks) \in Nat
  BY MoreNode DEF Roomy
<1>3. IsNode(f) /\ f.of = c.of /\ f.marks = c.marks /\ Len(f.kids) = Len(c.kids) + 1
  BY <1>1, <1>2, MoreNode
<1>4. PICK kind \in Kinds : kind = c.of
  BY DEF Roomy
<1>5. of \in Callees(kind)
  BY <1>4, Zenon DEF Waits
<1>6. CASE kind \notin {"if", "expr"}
  <2>1. Roomy(f)
    BY <1>3, <1>4, <1>6 DEF Roomy
  <2>2. PICK label : label = Resume(c, of)
    OBVIOUS
  <2>3. label \in Labels(kind) \cup {"end"}
    <3>1. CASE kind = "program"
      BY <1>4, <2>2, <3>1, LabelsAre DEF Resume
    <3>2. CASE kind = "funcdecl"
      BY <1>4, <2>2, <3>2, LabelsAre DEF Resume
    <3>3. CASE kind = "vardecl"
      BY <1>4, <2>2, <3>3, LabelsAre DEF Resume
    <3>4. CASE kind = "bstmt"
      BY <1>4, <2>2, <3>4, LabelsAre DEF Resume
    <3>5. CASE kind \in {"statement", "return"}
      BY <1>4, <2>2, <3>5, LabelsAre DEF Resume
    <3>6. CASE kind = "call"
      BY <1>4, <2>2, <3>6, LabelsAre DEF Resume
    <3>7. CASE kind = "empty"
      BY <1>5, <3>7, CalleesAre
    <3> QED
      BY <1>6, <3>1, <3>2, <3>3, <3>4, <3>5, <3>6, <3>7 DEF Kinds
  <2>4. Runs(f, label)
    BY <1>3, <1>4, <1>6, <2>3 DEF Runs
  <2> QED
    BY <1>1, <1>3, <2>1, <2>2, <2>4
<1>7. CASE kind = "if"
  <2>1. /\ of = "expr" => Len(c.kids) = 0
        /\ of # "expr" => Len(c.kids) \in {1, 2}
    BY <1>4, <1>7 DEF Waits
  <2>2. Roomy(f)
    <3>1. Len(c.kids) \in {0, 1, 2}
      BY <2>1
    <3>2. Len(f.kids) =< 3
      <4>1. PICK k, l : k = Len(c.kids) /\ l = Len(f.kids)
        OBVIOUS
      <4>2. k \in {0, 1, 2} /\ l = k + 1
        BY <1>3, <3>1, <4>1
      <4>3. l \in {1, 2, 3}
        BY <4>2
      <4>4. l =< 3
        BY <4>3
      <4> QED
        BY <4>1, <4>4, Zenon
    <3>3. IsNode(f) /\ f.of = "if"
      BY <1>3, <1>4, <1>7, Zenon
    <3> QED
      BY <3>2, <3>3 DEF Roomy, Kinds
  <2>3. Resume(c, of) = <<"close", "else", "end">>[Len(c.kids) + 1]
    BY <1>4, <1>7, Zenon DEF Resume
  <2>4. Runs(f, Resume(c, of))
    <3>1. CASE Len(c.kids) = 0
      <4>1. Resume(c, of) = "close"
        BY <2>3, <3>1
      <4> QED
        BY <1>3, <1>4, <1>7, <3>1, <4>1, LabelsAre DEF Runs
    <3>2. CASE Len(c.kids) = 1
      <4>1. Resume(c, of) = "else"
        BY <2>3, <3>2
      <4> QED
        BY <1>3, <1>4, <1>7, <3>2, <4>1, LabelsAre DEF Runs
    <3>3. CASE Len(c.kids) = 2
      <4>1. Resume(c, of) = "end"
        BY <2>3, <3>3
      <4> QED
        BY <1>3, <1>4, <1>7, <3>3, <4>1, LabelsAre DEF Runs
    <3> QED
      BY <2>1, <3>1, <3>2, <3>3
  <2> QED
    BY <1>1, <1>3, <2>2, <2>4
<1>8. CASE kind = "expr"
  <2>1. Len(c.kids) = Len(c.marks) /\ Len(c.marks) < MaxOperands
    BY <1>4, <1>8 DEF Waits, Roomy
  <2>2. Len(f.kids) = Len(f.marks) + 1 /\ Len(f.kids) =< MaxOperands
    BY <1>2, <1>3, <2>1, ParserAssumption
  <2>3. Roomy(f)
    BY <1>3, <1>4, <1>8, <2>1, <2>2 DEF Roomy
  <2>4. Resume(c, of) = IF of = "expr" THEN "close" ELSE "operator"
    BY <1>4, <1>8 DEF Resume
  <2>5. Runs(f, Resume(c, of))
    BY <1>3, <1>4, <1>8, <2>2, <2>4, LabelsAre DEF Runs
  <2> QED
    BY <1>1, <1>3, <2>3, <2>5
<1> QED
  BY <1>6, <1>7, <1>8

LEMMA ReturnKeeps ==
  ASSUME IInv, Return
  PROVE  IInv'
<1>1. pc = "end" /\ pc \notin Over /\ Len(stack) > 1
  BY DEF Return, Over
<1>2. Calls(stack) /\ pos \in 1 .. Len(tokens) + 1
  BY <1>1, Running
<1>3. PICK s, c : s = Front(stack) /\ c = Last(s)
  OBVIOUS
<1>4. Calls(s) /\ Waits(c, Top.of)
  BY <1>1, <1>2, <1>3, PopCalls DEF Top
<1>5. Roomy(c)
  BY <1>3, <1>4, TopCalled
<1>6. PICK f, label : f = AddTo(c, Result(Top)) /\ label = Resume(c, Top.of)
  OBVIOUS
<1>7. Roomy(f) /\ f.of = c.of /\ Runs(f, label)
  BY <1>4, <1>5, <1>6, Resumes
<1>8. Calls(Append(Front(s), f)) /\ Last(Append(Front(s), f)) = f
  BY <1>3, <1>4, <1>7, ChangeCalls
<1>9. Goto(label, Append(Front(s), f), pos)
  BY <1>3, <1>6, Zenon DEF Return, Callers
<1>10. Moves(label, Append(Front(s), f), pos)
  BY <1>9, GotoMoves
<1> QED
  BY <1>2, <1>7, <1>8, <1>10, GoesOn

LEMMA DoneKeeps ==
  ASSUME IInv, Done
  PROVE  IInv'
<1>1. pc = "end" /\ pc \notin Over /\ Moves("done", stack, pos)
  BY GotoMoves DEF Done, Over
<1>2. pos \in 1 .. Len(tokens) + 1 /\ Runs(Top, "end")
  BY <1>1, Running
<1>3. Runs(Top, "done")
  BY <1>2 DEF Runs
<1> QED
  BY <1>1, <1>2, <1>3, Turns

-----------------------------------------------------------------------------
(* The theorems *)

LEMMA StutterKeeps ==
  ASSUME IInv, UNCHANGED vars
  PROVE  IInv'
<1>1. Moves(pc, stack, pos)
  BY DEF vars, Moves, IInv, Reads
<1>2. CASE pc \in Over
  BY <1>1, <1>2, Stops DEF IInv, Reads
<1>3. CASE pc \notin Over
  BY <1>1, <1>3, Running, Turns
<1> QED
  BY <1>2, <1>3

LEMMA InitHolds == Init => IInv
<1> SUFFICES ASSUME Init PROVE IInv
  OBVIOUS
<1> DEFINE Starts(of, at, label) == stack = <<Frame(of, at)>> /\ pc = label
<1>1. PICK of, at, label : Starts(of, at, label) /\ <<of, label>> \in {<<"program", "decl">>, <<"expr", "operand">>}
  <2>1. CASE Starts("program", 0, "decl")
    BY <2>1
  <2>2. CASE Starts("expr", 1, "operand")
    BY <2>2
  <2> QED
    BY <2>1, <2>2 DEF Init
<1>2. PICK f : f = Frame(of, at)
  OBVIOUS
<1>3. Roomy(f) /\ Runs(f, label)
  <2>1. CASE of = "program" /\ label = "decl"
    BY <1>2, <2>1, NewFrame, NewRuns, LabelsAre DEF Kinds
  <2>2. CASE of = "expr" /\ label = "operand"
    BY <1>2, <2>2, NewFrame, NewRuns, LabelsAre DEF Kinds
  <2> QED
    BY <1>1, <2>1, <2>2
<1>4. stack \in Seq({f}) /\ Len(stack) = 1 /\ DOMAIN stack = {1} /\ stack[1] = f /\ stack # <<>>
  BY <1>1, <1>2
<1>5. Calls(stack) /\ Top = f
  BY <1>3, <1>4, SeqIsStack DEF Calls, Top, Last
<1>6. Reads /\ pos = 1
  BY ParserAssumption DEF Init, Reads, Notes
<1>7. pos =< Len(tokens) + 1
  BY <1>6 DEF Reads
<1> QED
  BY <1>1, <1>3, <1>5, <1>6, <1>7 DEF IInv

LEMMA NextKeeps == IInv /\ [Next]_vars => IInv'
<1> SUFFICES ASSUME IInv, [Next]_vars PROVE IInv'
  OBVIOUS
<1>1. CASE UNCHANGED vars
  BY <1>1, StutterKeeps
<1>2. CASE Declaration \/ EndProgram \/ Type \/ Parameter \/ EndParameters \/ ReturnType \/ NoReturnType \/ Body
  BY <1>2, DeclarationKeeps, EndProgramKeeps, TypeKeeps, ParameterKeeps, EndParametersKeeps, ReturnTypeKeeps,
     NoReturnTypeKeeps, BodyKeeps
<1>3. CASE \/ EndBlock \/ StmtBlock \/ StmtEmpty \/ StmtParenthesis \/ StmtReturn \/ StmtIf
           \/ StmtVardecl \/ StmtMiddle \/ StmtError \/ Semicolon \/ Else
  BY <1>3, EndBlockKeeps, StmtBlockKeeps, StmtEmptyKeeps, StmtParenthesisKeeps, StmtReturnKeeps, StmtIfKeeps,
     StmtVardeclKeeps, StmtMiddleKeeps, StmtErrorKeeps, SemicolonKeeps, ElseKeeps
<1>4. CASE Operand \/ Close \/ EndArguments \/ Argument \/ Operator \/ EndExpr
  BY <1>4, OperandKeeps, CloseKeeps, EndArgumentsKeeps, ArgumentKeeps, OperatorKeeps, EndExprKeeps
<1>5. CASE Return \/ Done \/ Finished
  BY <1>5, ReturnKeeps, DoneKeeps, StutterKeeps DEF Finished
<1> QED
  BY <1>1, <1>2, <1>3, <1>4, <1>5 DEF Next

\* Whatever the text and however deep it is nested, each function of the parser on the stack was called by
\* one that may call it and has found what it should have by then, and while none has failed the end of the
\* text has not been read (yfp_program, yfp_funcdecl, yfp_stmt, yfp_if, yfp_expr, yfp_funccall).
THEOREM Inductive == Spec => []IInv
BY InitHolds, NextKeeps, PTL DEF Spec

\* An expression never has more operands or operators than its arrays have room for, but for the write that
\* `overrun' stands for, and as many of these as of those while it goes on (yfp_expr).
THEOREM Typing == Spec => []TypeOK
BY Inductive, TypeOKHolds, PTL
=============================================================================
