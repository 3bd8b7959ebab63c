----------------------------- MODULE LtlGrammar -----------------------------
(***************************************************************************)
(* What a text means as a formula: the trees that a grammar gives it.  Two *)
(* grammars: that of the manual (Docs/manual-ltlgrm.tex), which derives    *)
(* some texts in several ways, and a plain one, that says that unary       *)
(* operators bind closest and binary ones are taken from the left, and     *)
(* gives every text one tree at most.  Nothing here is taken from          *)
(* ltl-parser.c.                                                           *)
(***************************************************************************)
EXTENDS Naturals, Sequences, FiniteSetsExt

Unary == {"!", "[]", "<>", "X"}
Comparisons == {"=", "<", ">", "<=", ">="}
Binary == {"AND", "OR", "->", "U", "R", "&", "|", "+", "-"} \cup Comparisons
IsSymbol(l) == l \notin Unary \cup Binary \cup {"(", ")"}

Levels(nt, ops, operand) == {<<nt, op, operand>> : op \in ops}

(* Path formulas are written with AND and OR for /\ and \/.                *)
ManualRules ==
  [ Start       |-> Levels("Start", {"AND", "OR", "->"}, "Path") \cup {<<"!", "Start">>, <<"Path">>},
    Path        |-> {<<"<>", "Path">>, <<"[]", "Path">>, <<"X", "Path">>,
                     <<"Path", "U", "Start">>, <<"Proposition">>},
    Proposition |-> Levels("Proposition", {"&", "|", "->"}, "Atom") \cup {<<"!", "Proposition">>, <<"Atom">>},
    Atom        |-> Levels("Atom", Comparisons, "Exp") \cup {<<"Exp">>},
    Exp         |-> Levels("Exp", {"+", "-"}, "Term") \cup {<<"Term">>},
    Term        |-> {<<"symbol">>, <<"(", "Start", ")">>} ]

PlainRules ==
  [ Start   |-> Levels("Start", Binary, "Operand") \cup {<<"Operand">>},
    Operand |-> {<<op, "Operand">> : op \in Unary} \cup {<<"symbol">>, <<"(", "Start", ")">>} ]

(* A tree is the operator and the trees of its operands, and brackets are  *)
(* an operator.                                                            *)
RECURSIVE Trees(_, _, _)
TreesBy(rules, rhs, s) ==
  LET n == Len(s)
  IN  CASE rhs = <<"symbol">> -> {t \in {s} : n = 1 /\ IsSymbol(s[1])}
        [] Len(rhs) = 1 -> Trees(rules, rhs[1], s)
        [] Len(rhs) = 2 -> IF n < 2 \/ s[1] # rhs[1] THEN {}
                           ELSE {<<rhs[1], t>> : t \in Trees(rules, rhs[2], Tail(s))}
        [] rhs[1] = "(" -> IF n < 3 \/ s[1] # "(" \/ s[n] # ")" THEN {}
                           ELSE {<<"(", t>> : t \in Trees(rules, rhs[2], SubSeq(s, 2, n - 1))}
        [] OTHER -> UNION {{<<rhs[2], l, r>> : l \in Trees(rules, rhs[1], SubSeq(s, 1, i - 1)),
                                               r \in Trees(rules, rhs[3], SubSeq(s, i + 1, n))} :
                           i \in {j \in 2 .. n - 1 : s[j] = rhs[2]}}
Trees(rules, nt, s) == UNION {TreesBy(rules, rhs, s) : rhs \in rules[nt]}

Manual(s) == Trees(ManualRules, "Start", s)
Plain(s) == Trees(PlainRules, "Start", s)

-----------------------------------------------------------------------------
(* Where the two agree.  The bracket that place i stands in, 0 for none,   *)
(* and what stands between it and i.                                       *)
Closed(s, k, i) == LET Count(l) == Cardinality({j \in k .. i : s[j] = l}) IN Count(")") >= Count("(")
Opening(s, i) == LET open == {k \in 1 .. i - 1 : \A j \in k .. i - 1 : ~Closed(s, k, j)}
                 IN  Max(open \cup {0})
LeftPart(s, i) == SubSeq(s, Opening(s, i) + 1, i - 1)

Row(s, i) == {j \in i + 1 .. Len(s) : s[j] \in Binary /\ Opening(s, j) = Opening(s, i)}

(* How close an operator binds in the manual, and the symbol that its left *)
(* operand is derived from.  -> stands at two levels, and when a closer    *)
(* operator than a path's follows in the row only the second will do.      *)
LevelOf(op) == CASE op \in {"AND", "OR", "->"} -> 1 [] op = "U" -> 2 [] op \in {"&", "|"} -> 3
                 [] op \in Comparisons -> 4 [] op \in {"+", "-"} -> 5
Level(s, i) == IF s[i] = "->" /\ \E j \in Row(s, i) : LevelOf(s[j]) > 1 THEN 3 ELSE LevelOf(s[i])
LeftOf == <<"Start", "Path", "Proposition", "Atom", "Exp">>

(* Some operator does not get all that stands to its left in the manual:   *)
(* it cannot be its operand, or a closer operator follows and takes a part.*)
Regrouped(s) ==
  \E i \in {j \in DOMAIN s : s[j] \in Binary} :
    \/ Trees(ManualRules, LeftOf[Level(s, i)], LeftPart(s, i)) = {}
    \/ \E j \in Row(s, i) : Level(s, j) > Level(s, i)
=============================================================================
