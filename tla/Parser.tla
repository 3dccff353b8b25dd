------------------------------- MODULE Parser -------------------------------
(***************************************************************************)
(* The recursive-descent parser (parser/).  `stack' holds the activations  *)
(* of its functions, the running one at its end; an activation is the node *)
(* it is filling in, and `Return' hands the finished node to the caller.   *)
(*                                                                         *)
(* A token put back is one that was not consumed: `pos' is the next token. *)
(***************************************************************************)
EXTENDS Expr, FiniteSets

CONSTANTS MaxOperands,  \* length of atomics[]: 64 in the code
          Units,        \* the token sequences that are parsed as a file
          Expressions   \* ... and those that are parsed as an expression, by any caller

\* What the lexer gives, up to the texts of identifiers and literals.
Tokens == OpTokens \cup {"id", "lit", "(", ")", "{", "}", ",", ";", ":", ".", "::",
                        "return", "if", "else", "extc"}

ASSUME ParserAssumption ==
  /\ MaxOperands \in Nat /\ MaxOperands > 1
  /\ Units \subseteq Seq(Tokens) /\ Expressions \subseteq Seq(Tokens)

VARIABLES tokens, \* what the lexer gives, token by token
          pos,    \* the next token
          stack,  \* the activations
          pc,     \* what the running activation does next
          notes   \* "message": an error message was printed, and parsing went on;
                  \* "middle": yfp_expr was entered in the middle of an expression

vars == <<tokens, pos, stack, pc, notes>>

-----------------------------------------------------------------------------

Token(p) == IF p <= Len(tokens) THEN tokens[p] ELSE "eof"
Closed(p) == p > Len(tokens) + 1   \* the end of file was consumed, and the file closed

Frame(of, at) == Node(of, at, <<>>, <<>>)
Top == Last(stack)
Callers == Front(stack)

Init ==
  /\ \/ tokens \in Units /\ stack = <<Frame("program", 0)>> /\ pc = "decl"
     \/ tokens \in Expressions /\ stack = <<Frame("expr", 1)>> /\ pc = "operand"
  /\ pos = 1
  /\ notes = {}

Goto(label, frames, p) ==
  /\ pc' = label
  /\ stack' = frames
  /\ pos' = p
  /\ UNCHANGED <<tokens, notes>>

Enter(label, frame, p) == Goto(label, Append(stack, frame), p)

AddTo(frame, kid) == [frame EXCEPT !.kids = Append(@, kid)]
Mark(frame, p) == [frame EXCEPT !.marks = Append(@, p)]

\* Every caller passes a failure on.  A statement that ends in a semicolon asks for it even then: it
\* reads one more token, from a closed file if the failure was to find the end of the text.
Fail(p) ==
  Goto(IF Closed(p) /\ \E i \in 1 .. Len(stack) - 1 : stack[i].of \in {"statement", "return"}
       THEN "closed" ELSE "failed",
       stack, p)

\* yfp_ident at p: names with dots between them, and one "::" at most.  A second "::" prints a
\* message and ends the identifier, and whatever the caller wants there it is not that.
Ident(p) ==
  LET Joins(q) == Token(q) = "." \/ (Token(q) = "::" /\ \A i \in p .. q - 1 : tokens[i] # "::")
      last == Min({q \in p + 1 .. Len(tokens) + 1 : (q - p) % 2 = 1 /\ ~(Joins(q) /\ Token(q + 1) = "id")})
  IN  CASE Token(p) # "id" -> [ok |-> FALSE, end |-> p + 1]
        [] Token(p) = "id" /\ Joins(last) -> [ok |-> FALSE, end |-> last + 2]
        [] OTHER -> [ok |-> TRUE, end |-> last]

-----------------------------------------------------------------------------
(* Declarations. *)

\* yfp_program: the result of yfp_ident is not looked at, so what was no identifier is skipped.
Declaration ==
  /\ pc = "decl" /\ Token(pos) # "eof"
  /\ LET id == Ident(pos)
         start(label, of) == [pc |-> label, stack |-> Append(stack, Frame(of, pos))]
         next == CASE Closed(id.end) -> [pc |-> "closed", stack |-> stack]
                   [] Token(id.end) = ":" -> start("type", "vardecl")
                   [] Token(id.end) = "(" -> start("param", "funcdecl")
                   [] OTHER -> [pc |-> "failed", stack |-> stack]
     IN  /\ pc' = next.pc /\ stack' = next.stack /\ pos' = id.end + 1
         /\ notes' = IF id.ok THEN notes ELSE notes \cup {"message"}
  /\ UNCHANGED tokens

EndProgram ==
  /\ pc = "decl" /\ Token(pos) = "eof"
  /\ Goto("end", stack, pos)

\* yfp_vardecl, with yfp_type: a type, and an initialiser if an operator follows.
Type ==
  /\ pc = "type"
  /\ LET typed == Append(Callers, Mark(Top, pos)) IN
     CASE Token(pos) # "id" -> Fail(pos + 1)
       [] Token(pos) = "id" /\ Token(pos + 1) = "=" ->
            Goto("operand", Append(typed, Frame("expr", pos + 2)), pos + 2)
       [] Token(pos) = "id" /\ Token(pos + 1) \in OpTokens \ {"="} -> Fail(pos + 2)
       [] OTHER -> Goto("end", typed, pos + 1)

\* A list of parameters or arguments goes on: after its first entry a comma is wanted.
Entry == IF Top.kids = <<>> THEN pos ELSE pos + 1
NoComma == Top.kids # <<>> /\ Token(pos) # ","

\* yfp_funcdecl: a parameter is a vardecl, its initialiser included.
Parameter ==
  /\ pc = "param" /\ Token(pos) # ")"
  /\ LET id == Ident(Entry) IN
     CASE NoComma -> Fail(pos + 1)
       [] ~NoComma /\ ~id.ok -> Fail(id.end)
       [] ~NoComma /\ id.ok /\ Token(id.end) # ":" -> Fail(id.end + 1)
       [] OTHER -> Enter("type", Frame("vardecl", Entry), id.end + 1)

EndParameters ==
  /\ pc = "param" /\ Token(pos) = ")"
  /\ Goto("result", stack, pos + 1)

\* yfp_funcdecl: a colon and a type; mark 0 is void.
ReturnType ==
  /\ pc = "result" /\ Token(pos) = ":"
  /\ IF Token(pos + 1) = "id"
     THEN Goto("body", Append(Callers, Mark(Top, pos + 1)), pos + 2)
     ELSE Fail(pos + 2)

\* ... or neither: anything but a brace gets a message, but only that.
NoReturnType ==
  /\ pc = "result" /\ Token(pos) # ":"
  /\ pc' = "body"
  /\ stack' = Append(Callers, Mark(Top, 0))
  /\ notes' = IF Token(pos) = "{" THEN notes ELSE notes \cup {"message"}
  /\ UNCHANGED <<tokens, pos>>

\* Label semicolon of yfp_funcdecl; only extc, allowed once, adds a second mark.
Body ==
  /\ pc = "body"
  /\ CASE Token(pos) = "extc" /\ Len(Top.marks) = 1 ->
            Goto("body", Append(Callers, Mark(Top, pos)), pos + 1)
       [] Token(pos) = ";" -> Goto("end", stack, pos + 1)
       [] Token(pos) = "{" -> Enter("stmt", Frame("bstmt", pos), pos + 1)
       [] OTHER -> Fail(pos + 1)

-----------------------------------------------------------------------------
(* Statements: yfp_stmt, called by yfp_bstmt and yfp_if. *)

EndBlock ==
  /\ pc = "stmt" /\ Token(pos) = "}" /\ Top.of = "bstmt"
  /\ Goto("end", stack, pos + 1)

StmtBlock ==
  /\ pc = "stmt" /\ Token(pos) = "{"
  /\ Enter("stmt", Frame("bstmt", pos), pos + 1)

StmtEmpty ==
  /\ pc = "stmt" /\ Token(pos) = ";"
  /\ Enter("semicolon", Frame("empty", pos), pos)

StmtParenthesis ==
  /\ pc = "stmt" /\ Token(pos) = "("
  /\ Goto("operand", stack \o <<Frame("statement", pos), Frame("expr", pos)>>, pos)

StmtReturn ==
  /\ pc = "stmt" /\ Token(pos) = "return"
  /\ IF Token(pos + 1) = ";"
     THEN Enter("semicolon", Frame("return", pos), pos + 1)
     ELSE Goto("operand", stack \o <<Frame("return", pos), Frame("expr", pos + 1)>>, pos + 1)

\* yfp_if up to its condition.
StmtIf ==
  /\ pc = "stmt" /\ Token(pos) = "if"
  /\ IF Token(pos + 1) = "("
     THEN Goto("operand", stack \o <<Frame("if", pos), Frame("expr", pos + 2)>>, pos + 2)
     ELSE Fail(pos + 2)

\* A local variable.
StmtVardecl ==
  /\ pc = "stmt" /\ Token(pos) = "id" /\ Ident(pos).ok /\ Token(Ident(pos).end) = ":"
  /\ Goto("type", stack \o <<Frame("statement", pos), Frame("vardecl", pos)>>, Ident(pos).end + 1)

\* An expression or a call: the operator or parenthesis was lexed to see this, and is not put back.
StmtMiddle ==
  /\ pc = "stmt" /\ Token(pos) = "id" /\ Ident(pos).ok
  /\ Token(Ident(pos).end) \in OpTokens \cup {"("}
  /\ pc' = "operator"
  /\ stack' = stack \o <<Frame("statement", pos), AddTo(Frame("expr", pos), Leaf(pos))>>
  /\ pos' = Ident(pos).end + 1
  /\ notes' = notes \cup {"middle"}
  /\ UNCHANGED tokens

StmtError ==
  /\ pc = "stmt"
  /\ \/ /\ Token(pos) = "id"
        /\ LET id == Ident(pos) IN
           IF ~id.ok THEN Fail(id.end)
           ELSE Token(id.end) \notin OpTokens \cup {":", "("} /\ Fail(id.end + 1)
     \/ /\ Token(pos) \notin {"{", "id", "(", "return", "if", ";"}
        /\ ~(Token(pos) = "}" /\ Top.of = "bstmt")
        /\ Fail(pos)

\* What yfp_program and yfp_stmt want at the end of a declaration or statement.
Semicolon ==
  /\ pc = "semicolon"
  /\ IF Token(pos) = ";"
     THEN Goto(IF Top.of = "program" THEN "decl" ELSE "end", stack, pos + 1)
     ELSE Fail(pos + 1)

\* Mutant: an else goes to the outermost if statement.
Else_Outermost ==
  /\ pc = "else"
  /\ IF Token(pos) = "else" /\ ~ \E i \in 1 .. Len(stack) - 1 : stack[i].of = "if"
     THEN Goto("stmt", stack, pos + 1)
     ELSE Goto("end", stack, pos)

\* yfp_if after its first branch.
Else ==
  /\ pc = "else"
  /\ IF Token(pos) = "else" THEN Goto("stmt", stack, pos + 1) ELSE Goto("end", stack, pos)

-----------------------------------------------------------------------------
(* Expressions: yfp_expr, yfp_atomic_expr and yfp_funccall. *)

AddAtom(atom) == Append(Callers, AddTo(Top, atom))

\* yfp_atomic_expr: a literal, an identifier, a call, or parentheses.
Operand ==
  /\ pc = "operand"
  /\ LET id == Ident(pos) IN
     CASE Token(pos) = "lit" -> Goto("operator", AddAtom(Leaf(pos)), pos + 1)
       [] Token(pos) = "(" -> Enter("operand", Frame("expr", pos + 1), pos + 1)
       [] Token(pos) = "id" /\ id.ok ->
            IF Token(id.end) = "(" THEN Enter("argument", Frame("call", pos), id.end + 1)
            ELSE Goto("operator", AddAtom(Leaf(pos)), id.end)
       [] OTHER -> Fail(id.end)

\* The closing parenthesis that yfp_atomic_expr and yfp_if want.
Close ==
  /\ pc = "close"
  /\ IF Token(pos) = ")"
     THEN Goto(IF Top.of = "if" THEN "stmt" ELSE "operator", stack, pos + 1)
     ELSE Fail(pos + 1)

EndArguments ==
  /\ pc = "argument" /\ Token(pos) = ")"
  /\ Goto("end", stack, pos + 1)

Argument ==
  /\ pc = "argument" /\ Token(pos) # ")"
  /\ IF NoComma THEN Fail(pos + 1) ELSE Enter("operand", Frame("expr", Entry), Entry)

\* Mutant: no limit.
Operator_NoLimit ==
  /\ pc = "operator" /\ Token(pos) \in OpTokens
  /\ IF Token(pos) \notin Operators THEN Fail(pos + 1)
     ELSE Goto("operand", Append(Callers, Mark(Top, pos)), pos + 1)

\* yfp_expr: there is room for MaxOperands - 1 operators; the next one, valid or not, is written behind
\* the array.
Operator ==
  /\ pc = "operator" /\ Token(pos) \in OpTokens
  /\ IF Len(Top.marks) = MaxOperands - 1 THEN Goto("overrun", stack, pos)
     ELSE IF Token(pos) \notin Operators THEN Fail(pos + 1)
     ELSE Goto("operand", Append(Callers, Mark(Top, pos)), pos + 1)

\* yfp_expr: any other token is put back and ends the expression.
EndExpr ==
  /\ pc = "operator" /\ Token(pos) \notin OpTokens
  /\ Goto("end", stack, pos)

-----------------------------------------------------------------------------

\* The node that an activation returns; a statement fills in the node of the expression or variable.
Result(frame) ==
  CASE frame.of = "expr" ->
         SortExprTree(frame.kids, [i \in DOMAIN frame.marks |-> tokens[frame.marks[i]]], frame.marks)
    [] frame.of = "statement" -> frame.kids[1]
    [] OTHER -> frame

\* Where a caller goes on when an activation has returned.
Resume(caller, of) ==
  CASE caller.of = "program" -> IF of = "vardecl" THEN "semicolon" ELSE "decl"
    [] caller.of = "funcdecl" -> IF of = "vardecl" THEN "param" ELSE "end"
    [] caller.of = "vardecl" -> "end"
    [] caller.of = "bstmt" -> "stmt"
    [] caller.of \in {"statement", "return"} -> "semicolon"
    [] caller.of = "if" -> <<"close", "else", "end">>[Len(caller.kids) + 1]
    [] caller.of = "expr" -> IF of = "expr" THEN "close" ELSE "operator"
    [] caller.of = "call" -> "argument"

Return ==
  /\ pc = "end" /\ Len(stack) > 1
  /\ Goto(Resume(Last(Callers), Top.of),
          Append(Front(Callers), AddTo(Last(Callers), Result(Top))), pos)

Done ==
  /\ pc = "end" /\ Len(stack) = 1
  /\ Goto("done", stack, pos)

\* Nothing follows the end; after an overrun or a read of the closed file, what follows is undefined.
Finished ==
  /\ pc \in {"done", "failed", "overrun", "closed"}
  /\ UNCHANGED vars

Next ==
  \/ Declaration \/ EndProgram \/ Type \/ Parameter \/ EndParameters
  \/ ReturnType \/ NoReturnType \/ Body
  \/ EndBlock \/ StmtBlock \/ StmtEmpty \/ StmtParenthesis \/ StmtReturn \/ StmtIf
  \/ StmtVardecl \/ StmtMiddle \/ StmtError \/ Semicolon \/ Else
  \/ Operand \/ Close \/ EndArguments \/ Argument \/ Operator \/ EndExpr
  \/ Return \/ Done \/ Finished

Spec == Init /\ [][Next]_vars

-----------------------------------------------------------------------------
(* Properties. *)

Kinds == {"program", "funcdecl", "vardecl", "bstmt", "empty", "statement", "return", "if", "expr", "call"}

\* Who may call whom.
Callees(of) ==
  CASE of = "program" -> {"funcdecl", "vardecl"}
    [] of = "funcdecl" -> {"vardecl", "bstmt"}
    [] of \in {"vardecl", "return", "call"} -> {"expr"}
    [] of = "bstmt" -> {"bstmt", "empty", "statement", "return", "if"}
    [] of = "if" -> {"expr", "bstmt", "empty", "statement", "return", "if"}
    [] of = "statement" -> {"vardecl", "expr"}
    [] of = "expr" -> {"expr", "call"}
    [] OTHER -> {}

\* Every activation has a legal caller, and an expression has room for its operands and operators, and
\* as many of these as it should (yfp_program, yfp_funcdecl, yfp_stmt, yfp_if, yfp_expr, yfp_funccall).
TypeOK ==
  /\ pos \in 1 .. Len(tokens) + 3
  /\ pc \in {"decl", "type", "param", "result", "body", "stmt", "semicolon", "else", "operand", "operator",
             "close", "argument", "end", "done", "failed", "overrun", "closed"}
  /\ notes \subseteq {"message", "middle"}
  /\ \A i \in DOMAIN stack :
       LET f == stack[i] IN
       /\ f.of \in Kinds
       /\ i < Len(stack) => stack[i + 1].of \in Callees(f.of)
       /\ f.of = "if" => Len(f.kids) <= 3
       /\ f.of = "expr" =>
            /\ Len(f.kids) <= MaxOperands /\ Len(f.marks) < MaxOperands
            /\ pc \notin {"failed", "overrun", "closed"} =>
                 Len(f.kids) = Len(f.marks)
                               + IF i = Len(stack) /\ pc \in {"operator", "close", "end", "done"} THEN 1 ELSE 0
=============================================================================
