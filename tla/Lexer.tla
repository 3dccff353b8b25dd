--------------------------------- MODULE Lexer ---------------------------------
(***************************************************************************)
(* src/lexer/lexer.c: one lexer over one source text, and a client that    *)
(* lexes tokens and puts back the last ones it took, as the parser does    *)
(* when it peeks.                                                          *)
(*                                                                         *)
(* yfl_lex is a small machine: a step is one iteration of one of its       *)
(* loops, or the code between two loops.  Characters are abstracted to one *)
(* of each kind that the lexer distinguishes.                              *)
(***************************************************************************)
EXTENDS Integers, Sequences, SequencesExt, FiniteSetsExt

CONSTANTS
  Sources,     \* the source texts, sequences over Chars
  MaxToken,    \* size of a token's buffer: 256 in the code
  UnlexCap,    \* size of unlex_buf: 16 in the code
  Keywords     \* the words of keywords.c, as sequences over Chars

EOF   == "EOF"
\* A letter, an underscore, a digit, an operator, a colon, another separator (one of . , ; and the
\* brackets), a tilde, blanks, and a control character.
Chars == {"a", "_", "1", "=", ":", ")", "~", " ", "\n", "?"}

ASSUME LexerAssumption ==
  /\ \A s \in Sources \union Keywords : s \in Seq(Chars)
  /\ MaxToken \in Nat /\ MaxToken > 1
  /\ UnlexCap \in Nat \ {0}

\* yfl_get_type: the character's type, a bit in the code and a one-element set here.
Type(c) == CASE c \in {"a", "_"} -> {"ident"}
             [] c = "1" -> {"num"}
             [] c \in {"=", ":", ")", "~"} -> {"punct"}
             [] c \in {" ", "\n"} -> {"space"}
             [] c = EOF -> {"eof"}
             [] OTHER -> {}

\* yfl_end_types: the types that end a token whose first character is c.
EndTypes(c) == CASE Type(c) \in {{"ident"}, {"num"}} -> {"punct", "space", "eof"}
                 [] Type(c) = {"punct"} -> {"ident", "num", "punct", "space", "eof"}
                 [] OTHER -> {}

IsSpace(c) == Type(c) = {"space"}

VARIABLES
  src,      \* the text
  in,       \* where the reader is: [pos, line, column, prev_col]
  pc,       \* where yfl_lex is; "idle" between two calls
  skipped,  \* yfl_skip_all's skipped
  token,    \* the token being filled: [kind, data, line, column]
  unlexed,  \* unlex_buf, its top last
  held,     \* the tokens the client has taken and not put back
  lexed     \* all tokens made so far

vars == <<src, in, pc, skipped, token, unlexed, held, lexed>>

-------------------------------------------------------------------------------
(* Reading characters *)

CharAt(p) == IF p \in 1 .. Len(src) THEN src[p] ELSE EOF

\* yfl_getc: where the reader is after one more character; at the end of the text
\* only the column moves.
Getc(r) ==
  LET c == CharAt(r.pos)
  IN [pos      |-> IF c = EOF THEN r.pos ELSE r.pos + 1,
      line     |-> IF c = "\n" THEN r.line + 1 ELSE r.line,
      column   |-> IF c = "\n" THEN 1 ELSE r.column + 1,
      prev_col |-> IF c = "\n" THEN r.column ELSE r.prev_col]

\* Mutant: prev_col is not used.
Ungetc_NoPrevCol(r, c) ==
  [r EXCEPT !.pos    = IF c = EOF THEN @ ELSE @ - 1,
            !.line   = IF c = "\n" THEN @ - 1 ELSE @,
            !.column = @ - 1]

\* yfl_ungetc of a character c just read.
Ungetc(r, c) ==
  [r EXCEPT !.pos    = IF c = EOF THEN @ ELSE @ - 1,
            !.line   = IF c = "\n" THEN @ - 1 ELSE @,
            !.column = IF c = "\n" THEN r.prev_col ELSE @ - 1]

Next1 == CharAt(in.pos)              \* the character that Getc would give
Next2 == CharAt(Getc(in).pos)        \* and the one after it

NoToken == [kind |-> "none", data |-> <<>>, line |-> 0, column |-> 0]

Init ==
  /\ src \in Sources
  /\ in = [pos |-> 1, line |-> 1, column |-> 1, prev_col |-> 0]
  /\ pc = "idle" /\ skipped = FALSE /\ token = NoToken
  /\ unlexed = <<>> /\ held = <<>> /\ lexed = <<>>

-------------------------------------------------------------------------------
(* The client *)

AtEnd == held # <<>> /\ Last(held).data = <<EOF>>

\* Mutant: the oldest of the tokens put back comes first.
LexUnlexed_Fifo ==
  /\ pc = "idle" /\ ~AtEnd /\ unlexed # <<>>
  /\ held' = Append(held, Head(unlexed))
  /\ unlexed' = Tail(unlexed)
  /\ UNCHANGED <<src, in, pc, skipped, token, lexed>>

\* yfl_lex with something put back: no character is read.
LexUnlexed ==
  /\ pc = "idle" /\ ~AtEnd /\ unlexed # <<>>
  /\ held' = Append(held, Last(unlexed))
  /\ unlexed' = Front(unlexed)
  /\ UNCHANGED <<src, in, pc, skipped, token, lexed>>

\* yfl_lex otherwise: yfl_core_lex begins with yfl_skip_all.
CallLex ==
  /\ pc = "idle" /\ ~AtEnd /\ unlexed = <<>>
  /\ pc' = "blanks" /\ skipped' = FALSE
  /\ UNCHANGED <<src, in, token, unlexed, held, lexed>>

\* Mutant: one token more than fits is put back.
Unlex_OffByOne ==
  /\ pc = "idle" /\ held # <<>> /\ Len(unlexed) =< UnlexCap
  /\ unlexed' = Append(unlexed, Last(held))
  /\ held' = Front(held)
  /\ UNCHANGED <<src, in, pc, skipped, token, lexed>>

\* yfl_unlex of the last token taken.  One token more than fits is refused, and is lost to a caller
\* that does not look; this is left out, as the parser puts back only the token it has just taken.
Unlex ==
  /\ pc = "idle" /\ held # <<>> /\ Len(unlexed) < UnlexCap
  /\ unlexed' = Append(unlexed, Last(held))
  /\ held' = Front(held)
  /\ UNCHANGED <<src, in, pc, skipped, token, lexed>>

-------------------------------------------------------------------------------
(* yfl_skip_all: blanks and comments, until a round skips neither *)

SkipBlank ==
  /\ pc = "blanks" /\ IsSpace(Next1)
  /\ in' = Getc(in) /\ skipped' = TRUE
  /\ UNCHANGED <<src, pc, token, unlexed, held, lexed>>

BlanksDone ==
  /\ pc = "blanks" /\ ~IsSpace(Next1)
  /\ in' = Ungetc(Getc(in), Next1) /\ pc' = "comment?"
  /\ UNCHANGED <<src, skipped, token, unlexed, held, lexed>>

OpenComment ==
  /\ pc = "comment?" /\ Next1 = "~" /\ Next2 = "~"
  /\ in' = Getc(Getc(in)) /\ pc' = "comment"
  /\ UNCHANGED <<src, skipped, token, unlexed, held, lexed>>

\* Mutant: skipped is not set back to 0 for the next round.
NoComment_NoReset ==
  /\ pc = "comment?" /\ ~(Next1 = "~" /\ Next2 = "~")
  /\ pc' = IF skipped THEN "blanks" ELSE "token"
  /\ UNCHANGED <<src, in, skipped, token, unlexed, held, lexed>>

\* No comment here: what was read is put back, and either another round begins or
\* the token does.
NoComment ==
  /\ pc = "comment?" /\ ~(Next1 = "~" /\ Next2 = "~")
  /\ in' = IF Next1 = "~" THEN Ungetc(Ungetc(Getc(Getc(in)), Next2), "~")
                          ELSE Ungetc(Getc(in), Next1)
  /\ pc' = IF skipped THEN "blanks" ELSE "token"
  /\ skipped' = FALSE
  /\ UNCHANGED <<src, token, unlexed, held, lexed>>

InComment ==
  /\ pc = "comment" /\ Next1 \notin {"~", EOF}
  /\ in' = Getc(in)
  /\ UNCHANGED <<src, pc, skipped, token, unlexed, held, lexed>>

CloseComment ==
  /\ pc = "comment" /\ Next1 = "~" /\ Next2 = "~"
  /\ in' = Getc(Getc(in)) /\ pc' = "blanks" /\ skipped' = FALSE
  /\ UNCHANGED <<src, token, unlexed, held, lexed>>

\* One tilde alone: it and what follows are read and put back, and the loop goes on
\* from where it was.
LoneTilde ==
  /\ pc = "comment" /\ Next1 = "~" /\ Next2 # "~"
  /\ in' = Ungetc(Ungetc(Getc(Getc(in)), Next2), "~")
  /\ pc' = IF Next2 = EOF THEN "open_comment" ELSE "comment"
  /\ UNCHANGED <<src, skipped, token, unlexed, held, lexed>>

UnclosedComment ==
  /\ pc = "comment" /\ Next1 = EOF
  /\ in' = Getc(in) /\ pc' = "open_comment"
  /\ UNCHANGED <<src, skipped, token, unlexed, held, lexed>>

-------------------------------------------------------------------------------
(* yfl_core_lex after the blanks *)

StartToken ==
  /\ pc = "token" /\ Next1 # EOF
  /\ token' = [NoToken EXCEPT !.data = <<Next1>>, !.line = in.line, !.column = in.column]
  /\ in' = Getc(in) /\ pc' = "in_token"
  /\ UNCHANGED <<src, skipped, unlexed, held, lexed>>

Give(t) == held' = Append(held, t) /\ lexed' = Append(lexed, t)

\* The end of the text is a token too, and the input is closed.
EndOfText ==
  /\ pc = "token" /\ Next1 = EOF
  /\ Give([kind |-> EOF, data |-> <<EOF>>, line |-> in.line, column |-> in.column])
  /\ in' = Getc(in) /\ pc' = "idle"
  /\ UNCHANGED <<src, skipped, token, unlexed>>

\* Mutant: operators are joined however long they have become.
Joins_Greedy(data, c) == \/ Type(data[1]) = {"punct"} /\ c = "="
                         \/ data[1] = ":" /\ c = ":"

\* An operator may be joined by one "=", and a colon by another colon.
Joins(data, c) == /\ Len(data) = 1
                  /\ \/ Type(data[1]) = {"punct"} /\ c = "="
                     \/ data[1] = ":" /\ c = ":"

Ends(data, c) == Type(c) \intersect EndTypes(data[1]) # {} /\ ~Joins(data, c)

ExtendToken ==
  /\ pc = "in_token" /\ ~Ends(token.data, Next1) /\ Len(token.data) < MaxToken - 1
  /\ token' = [token EXCEPT !.data = Append(@, Next1)]
  /\ in' = Getc(in)
  /\ UNCHANGED <<src, pc, skipped, unlexed, held, lexed>>

\* The character that would fill the buffer is stored, and the call fails.
Overflow ==
  /\ pc = "in_token" /\ ~Ends(token.data, Next1) /\ Len(token.data) = MaxToken - 1
  /\ in' = Getc(in) /\ pc' = "overflow"
  /\ UNCHANGED <<src, skipped, token, unlexed, held, lexed>>

\* get_type: the kind of a token, most often by its first character.  A word that starts with an
\* underscore is punctuation to it.
Kind(data) ==
  IF data \in Keywords THEN "keyword"
  ELSE CASE data[1] = "a"        -> "identifier"
         [] data[1] = "1"        -> "literal"
         [] data = <<":", ":">>  -> "namespace"
         [] data[1] = ":" /\ data # <<":", ":">> -> "colon"
         [] data[1] = ")"        -> "separator"
         [] OTHER                -> "operator"

EndToken ==
  /\ pc = "in_token" /\ Ends(token.data, Next1)
  /\ in' = Ungetc(Getc(in), Next1)
  /\ Give([token EXCEPT !.kind = Kind(token.data)]) /\ pc' = "idle"
  /\ UNCHANGED <<src, skipped, token, unlexed>>

CoreLex == \/ SkipBlank \/ BlanksDone
           \/ OpenComment \/ NoComment \/ InComment \/ CloseComment \/ LoneTilde \/ UnclosedComment
           \/ StartToken \/ EndOfText \/ ExtendToken \/ Overflow \/ EndToken

Next == LexUnlexed \/ CallLex \/ Unlex \/ CoreLex

\* A call that has begun goes on; the client is free to stop calling.
Spec == Init /\ [][Next]_vars /\ WF_vars(CoreLex)

-------------------------------------------------------------------------------
(* What the tokens of a text should be *)

\* The location of position p.
Where(p) ==
  LET breaks == {q \in 1 .. p - 1 : src[q] = "\n"}
  IN [line |-> 1 + Cardinality(breaks), column |-> p - Max(breaks \union {0})]

TokenAt(p, data) == [data |-> data, line |-> Where(p).line, column |-> Where(p).column]
ErrorToken(what) == [data |-> <<what>>, line |-> 0, column |-> 0]
Untyped(t) == [data |-> t.data, line |-> t.line, column |-> t.column]

\* What the parser learns of a token: the kind of a separator, and the characters of any other.
Told(t) ==
  CASE t.kind = "namespace" -> <<":", ":">>
    [] t.kind = "colon"     -> <<":">>
    [] t.kind = "separator" -> <<")">>
    [] OTHER                -> t.data

\* An "=" behind a separator becomes a part of it, as behind an operator, and so does a character of
\* no type behind anything.
Swallows(t) ==
  \/ Len(t.data) = 2 /\ t.data[2] = "="
  \/ \E c \in Range(t.data) : Type(c) = {}

\* Comments run from "~~" to the next "~~"; BlankEnd[p] is the first position from p
\* on that is in neither a comment nor a blank, and 0 if a comment does not end.
BlankEnd[p \in 1 .. Len(src) + 1] ==
  LET closing == {q \in p + 2 .. Len(src) - 1 : src[q] = "~" /\ src[q + 1] = "~"}
  IN CASE IsSpace(CharAt(p))                          -> BlankEnd[p + 1]
       [] CharAt(p) = "~" /\ CharAt(p + 1) = "~"      ->
            IF closing = {} THEN 0 ELSE BlankEnd[Min(closing) + 2]
       [] OTHER                                       -> p

\* The positions at which a token that starts at p can end.
TokenEnds(p) ==
  LET first == IF Joins(<<src[p]>>, CharAt(p + 1)) THEN p + 2 ELSE p + 1
  IN {q \in first .. p + MaxToken - 1 : q =< Len(src) + 1 /\ Type(CharAt(q)) \intersect EndTypes(src[p]) # {}}

\* The tokens from p on; an error takes the place of the token it prevents.
TokensFrom[p \in 1 .. Len(src) + 1] ==
  LET b == BlankEnd[p]
      e == Min(TokenEnds(b))
  IN IF b = 0 THEN <<ErrorToken("open_comment")>>
     ELSE IF b = Len(src) + 1 THEN <<TokenAt(b, <<EOF>>)>>
     ELSE IF TokenEnds(b) = {} THEN <<ErrorToken("overflow")>>
     ELSE <<TokenAt(b, SubSeq(src, b, e - 1))>> \o TokensFrom[e]

-------------------------------------------------------------------------------
(* Properties *)

Failed == {"open_comment", "overflow"}

TypeOK ==
  /\ in.pos \in 1 .. Len(src) + 1 /\ {in.line, in.column} \subseteq Nat \ {0}
  /\ pc \in {"idle", "blanks", "comment?", "comment", "token", "in_token"} \union Failed
  /\ skipped \in BOOLEAN
  /\ Len(token.data) < MaxToken /\ Len(unlexed) =< UnlexCap

\* The reader's line and column are those of its position, however many characters
\* and line breaks were put back on the way (a lexer at the end of the text counts on).
LocRight ==
  \/ pc \in Failed \/ EOF \in ToSet(token.data)
  \/ lexed # <<>> /\ Last(lexed).data = <<EOF>>
  \/ in.line = Where(in.pos).line /\ in.column = Where(in.pos).column

\* Putting tokens back and taking them again loses, repeats and reorders none.
StreamIntact == held \o Reverse(unlexed) = lexed

\* The tokens are those of the text, with their locations; their kinds tell the parser of every
\* character, except those that a separator swallows; and a failing call fails at the token that is at fault.
TokensRight ==
  LET tokens == [i \in DOMAIN lexed |-> Untyped(lexed[i])] IN
  /\ IF pc \in Failed THEN Append(tokens, ErrorToken(pc)) = TokensFrom[1] ELSE IsPrefix(tokens, TokensFrom[1])
  /\ \A t \in Range(lexed) : Told(t) = t.data \/ Swallows(t)

\* A comment with one tilde alone in it, not at the end of the text.
Trapped == pc = "comment" /\ Next1 = "~" /\ Next2 \notin {"~", EOF}

\* Every call of the lexer returns, unless it meets such a comment.
CallsReturnUnlessTrapped == pc = "blanks" ~> pc \in {"idle"} \union Failed \/ Trapped

\* The comment in yfl_skip_comment says that such a tilde is skipped like any other
\* character.  Refuted: both characters are put back, so the loop reads them for ever.
CallsReturn == pc = "blanks" ~> pc \in {"idle"} \union Failed
===============================================================================
