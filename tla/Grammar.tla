------------------------------- MODULE Grammar -------------------------------
(***************************************************************************)
(* The grammar of the reference manual (Docs/ss02-grm.tex) as data, and    *)
(* what it means for a text to be derived from a symbol, or to be the      *)
(* beginning of a derived text.  This is what the parser is checked        *)
(* against; nothing here is taken from parse.c.                            *)
(***************************************************************************)
EXTENDS Naturals, Sequences

CONSTANTS Ids, Ints, Strs

Levels(nt, ops, lower) == {<<nt, op, lower>> : op \in ops} \cup {<<lower>>}

Rules ==
  [ Command_Form |-> {<<"(", "define", "ID", "(", "ID_Seq", ")", "Agent_Exp", ")">>,
                      <<"(", "definit", "(", "ID_Seq", ")", "(", "Value_Seq", ")", ")">>,
                      <<"(", "bind", "ID", "Strings", ")">>,
                      <<"(", "Agent_Exp", ")">>, <<"(", ")">>},
    Agent_Exp    |-> {<<"if", "(", "B_Exp", ")", "Agent_Exp", "Agent_Exp">>,
                      <<"A_Binary_Exp">>},
    A_Binary_Exp |-> Levels("A_Binary_Exp", {"++", "||"}, "A_Label_Exp"),
    A_Label_Exp  |-> {<<"A_Label_Exp", "[", "ID_Seq", "]">>,
                      <<"A_Label_Exp", "{", "Relabel_Seq", "}">>, <<"A_Unary_Exp">>},
    A_Unary_Exp  |-> {<<"ID", "(", "Value_Seq", ")", ":", "A_Unary_Exp">>,
                      <<"ID", ":", "A_Unary_Exp">>,
                      <<"~", "ID", "(", "Value_Seq", ")", ":", "A_Unary_Exp">>,
                      <<"~", "ID", ":", "A_Unary_Exp">>,
                      <<"ID", "(", "Value_Seq", ")">>, <<"ID">>,
                      <<"(", "Agent_Exp", ")">>},
    ID_Seq       |-> {<<"ID_Seq", ",", "ID">>, <<"ID_Seq", ",", "~", "ID">>,
                      <<"ID">>, <<"~", "ID">>, <<>>},
    Relabel_Seq  |-> {<<"Relabel_Seq", ",", "ID", "/", "ID">>,
                      <<"Relabel_Seq", ",", "~", "ID", "/", "~", "ID">>,
                      <<"ID", "/", "ID">>, <<"~", "ID", "/", "~", "ID">>},
    Value_Seq    |-> Levels("Value_Seq", {","}, "B_Exp"),
    B_Exp        |-> Levels("B_Exp", {"|", "&"}, "C_Exp"),
    C_Exp        |-> Levels("C_Exp", {"<", "<=", ">", ">=", "="}, "V_Exp"),
    V_Exp        |-> Levels("V_Exp", {"+", "-"}, "V_Term"),
    V_Term       |-> Levels("V_Term", {"*", "/", "%"}, "V_Unary_Exp"),
    V_Unary_Exp  |-> {<<"!", "V_Unary_Exp">>, <<"Fact">>},
    Fact         |-> {<<"Iconst">>, <<"Strings">>, <<"TRUE">>, <<"FALSE">>,
                      <<"ID">>, <<"(", "B_Exp", ")">>} ]

(* The lexical classes; the manual writes keywords in both cases.          *)
Lexemes(t) == CASE t = "ID" -> Ids [] t = "Iconst" -> Ints [] t = "Strings" -> Strs
                [] t = "TRUE" -> {"TRUE", "true"} [] t = "FALSE" -> {"FALSE", "false"}
                [] OTHER -> {t}

(* Only ID_Seq derives the empty text: what follows a symbol in a rule     *)
(* bounds how much of the text is left to it, so left recursion ends.      *)
Least(rhs) == Len(SelectSeq(rhs, LAMBDA t : t # "ID_Seq"))

(* How much of s the first symbol of rhs may take, the rest beginning with *)
(* the token that stands second in rhs, if one does.                       *)
Splits(rhs, s, least) ==
  {k \in 0 .. Len(s) - least :
     \/ Len(rhs) = 1 \/ rhs[2] \in DOMAIN Rules
     \/ k < Len(s) /\ s[k + 1] \in Lexemes(rhs[2])}

RECURSIVE Derives(_, _), DerivesAll(_, _), Begins(_, _), BeginsAll(_, _, _)
Derives(t, s) == IF t \in DOMAIN Rules THEN \E rhs \in Rules[t] : DerivesAll(rhs, s)
                 ELSE Len(s) = 1 /\ s[1] \in Lexemes(t)
DerivesAll(rhs, s) ==
  CASE rhs = <<>> -> s = <<>>
    [] Len(rhs) = 1 -> Derives(rhs[1], s)
    [] Len(rhs) > 1 /\ rhs[1] \notin DOMAIN Rules ->
         s # <<>> /\ s[1] \in Lexemes(rhs[1]) /\ DerivesAll(Tail(rhs), Tail(s))
    [] OTHER -> \E k \in Splits(rhs, s, Least(Tail(rhs))) :
                  /\ DerivesAll(Tail(rhs), SubSeq(s, k + 1, Len(s)))
                  /\ Derives(rhs[1], SubSeq(s, 1, k))

(* s is the beginning of a text derived from t (from all of rhs).          *)
Begins(t, s) ==
  \/ s = <<>>
  \/ t \notin DOMAIN Rules /\ Len(s) = 1 /\ s[1] \in Lexemes(t)
  \/ t \in DOMAIN Rules /\ \E rhs \in Rules[t] : BeginsAll(t, rhs, s)
(* A rule that begins with its own symbol adds something only if that      *)
(* symbol derives a part of s.                                             *)
BeginsAll(t, rhs, s) ==
  \/ s = <<>>
  \/ /\ rhs # <<>>
     /\ \/ rhs[1] # t /\ Begins(rhs[1], s)
        \/ \E k \in Splits(rhs, s, IF rhs[1] = "ID_Seq" THEN 0 ELSE 1) :
             /\ k > 0 \/ rhs[1] = "ID_Seq"
             /\ Derives(rhs[1], SubSeq(s, 1, k))
             /\ Len(rhs) > 1 /\ BeginsAll("-", Tail(rhs), SubSeq(s, k + 1, Len(s)))
=============================================================================
