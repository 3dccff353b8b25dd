------------------------------ MODULE MCParser ------------------------------
EXTENDS Grammar

MCMaxOperands == 5

\* Every expression text of up to five tokens; every flat expression of four operators of different tiers;
\* and operands with calls and parentheses on both sides of two operators.
Short == BoundedSeq({"id", "(", ")", ",", "-", "="}, 5)
OfEachTier == {"=", "&", "<", "-", "*"}
Flat == {<<"id", a, "id", b, "lit", c, "id", d, "id", e>> :
           a, b, c, d \in OfEachTier, e \in {";", "+="}}
Operands == {<<"lit">>, <<"(", "id", "=", "lit", ")">>,
             <<"id", "(", ")">>, <<"id", ".", "id", "(", "id", "+", "lit", ",", "id", ")">>}
Nested == {x \o <<op1>> \o y \o <<op2>> \o z \o <<end>> :
             x, y, z \in Operands, op1, op2 \in {"+=", "-", "/"}, end \in {";", "!", ")"}}
MCExpressions == Short \cup Flat \cup Nested

\* Files: every file of up to three tokens; every function body of up to four; functions with nested
\* if statements; and files with everything in them, from which one token is missing or in which
\* one is replaced, or which are cut off.
Header == <<"id", "(", ")", "{">>
Alphabet == {"id", "lit", "(", ")", "{", "}", ",", ";", ":", "=", "!", ".", "::", "return", "if", "else", "extc"}
Bodies == BoundedSeq({"id", "lit", "(", "{", "}", ";", ":", "=", "-", "return"}, 4)
Cond == <<"if", "(", "id", ")">>
Ifs2 == {Header \o a \o b \o c \o d \o <<"}">> :
           a \in {Cond}, b \in {Cond, <<";">>, <<"{">> \o Cond},
           c \in {<<";">>, <<";", "else", ";">>, <<";", "else">> \o Cond \o <<";">>, <<"return", ";", "}">>},
           d \in {<<>>, <<"else", ";">>, <<"else">> \o Cond \o <<";", "else", ";">>, <<"}", "else", ";">>}}
Full == { <<"id", ":", "id", "=", "id", "(", "lit", ",", "lit", "-", "lit", ")", ";",
            "id", "(", "id", ":", "id", ",", "id", ":", "id", ")", ":", "id", "{", "}">>,
          <<"id", "(", ")", ":", "id", "extc", ";", "id", "::", "id", ".", "id", "(", "id", ":", "id", ")", "{",
            "id", ":", "id", ";", "return", "id", ";", "}">>,
          Header \o Cond \o <<"{", "(", "id", "-", "lit", ")", ";", "}", "else", "return", ";", "}">> }
MCUnits == BoundedSeq(Alphabet, 3) \cup {Header \o b \o <<"}">> : b \in Bodies} \cup Ifs2 \cup Full
           \cup UNION {{RemoveAt(t, i) : i \in DOMAIN t} : t \in Full}
           \cup UNION {{SubSeq(t, 1, i) : i \in DOMAIN t} : t \in Full}
           \cup UNION {{ReplaceAt(t, i, x) : i \in DOMAIN t, x \in Alphabet} : t \in Full}
=============================================================================
