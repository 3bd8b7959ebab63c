----------------------------- MODULE MCLtlBuchi -----------------------------
EXTENDS LtlBuchi
W(s) == s
B(s) == <<"(">> \o s \o <<")">>
MCWords == Words({"p", "q"}, 2)
P == <<"p">>
Q == <<"q">>
NotP == <<"!", "p">>
Literals == {P, Q, NotP, <<"tt">>, <<"ff">>}
Pairs(S) == {B(a) \o <<op>> \o B(b) : a \in S, b \in S, op \in {"U", "R", "AND", "OR", "&", "->"}}
Units(S) == {<<op>> \o B(a) : a \in S, op \in {"!", "[]", "<>", "X"}}
One == Pairs(Literals) \cup Units(Literals)
(* Formulas with two or three operators in brackets.                       *)
Two == Units(One) \cup {B(a) \o <<op>> \o P : a \in One, op \in {"U", "R", "AND", "OR"}}
                  \cup {Q \o <<op>> \o B(a) : a \in One, op \in {"U", "R", "AND", "OR"}}
(* Rows of operators without brackets, in brackets, and below an operator. *)
RowOps == {"U", "AND", "OR", "->", "&", "="}
Rows == {l \o <<o>> \o m \o <<k>> \o r : o \in RowOps, k \in RowOps, l \in {P, <<"<>">> \o Q, <<"!">> \o Q},
                                          m \in {Q, <<"!", "[]">> \o P}, r \in {P, <<"!">> \o Q}}
Long == {P \o <<o>> \o Q \o <<k>> \o NotP \o <<l>> \o Q : o \in RowOps, k \in RowOps, l \in RowOps}
Bracketed == {<<"<>">> \o B(P \o <<o>> \o Q \o <<k>> \o NotP) \o <<l>> \o Q : o \in RowOps, k \in RowOps, l \in {"U", "&", "<"}}
(* All short texts, and all shorter ones over all kinds of lexemes.        *)
AllOver(lexemes, m) == UNION {[1 .. n -> lexemes] : n \in 0 .. m}
Short == AllOver({"p", "!", "<>", "U", "->", "(", ")"}, 4)
         \cup AllOver({"p", "1", "tt", "!", "[]", "X", "R", "AND", "&", "<=", "(", ")"}, 3)
MCSimple == {<<o>> \o l : o \in {"[]", "<>"}, l \in {P, Q, NotP}} \cup {<<"[]", "<>">> \o l : l \in {P, Q, NotP}}
            \cup {P, Q, NotP, P \o <<"&">> \o Q}
MCTexts == Literals \cup One \cup Two \cup Rows \cup Long \cup Bracketed \cup Short \cup MCSimple
=============================================================================
