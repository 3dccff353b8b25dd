-------------------------------- MODULE MCLexer --------------------------------
(* Model checking of Lexer: all texts of up to four characters, and texts with *)
(* one or two comments, in which blanks, tokens and tildes meet.               *)
EXTENDS Lexer

Commented ==
  {<<"~", "~">> \o s \o <<"~", "~">> \o t :
     s \in BoundedSeq({"a", "~", "\n"}, 2), t \in BoundedSeq({"a", "~", " ", "\n"}, 3)}

\* One word of two letters, so that longer and shorter ones are not.
MCKeywords == {<<"a", "a">>}

MCSources == BoundedSeq(Chars, 4) \union Commented
===============================================================================
