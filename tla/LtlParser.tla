----------------------------- MODULE LtlParser ------------------------------
(***************************************************************************)
(* The parser of LTL formulas and their normal form.  The parser is fed    *)
(* one lexeme at a time and keeps a tree of tokens that point to their     *)
(* parents: a full token is left upwards, a token that misses an operand   *)
(* takes what comes.  Unary operators bind closest; binary ones are taken  *)
(* from the left, whatever they are.  A symbol is an identifier, a number  *)
(* or tt or ff; strings are left out, which the translation cannot compare *)
(* (ltl-token.c:99) and takes for brackets (:173).                         *)
(***************************************************************************)
EXTENDS Naturals, Sequences, FiniteSets, SequencesExt

Null == 0
get_token_type(l) == CASE l \in {"!", "[]", "<>", "X"} -> "unary"
                       [] l \in {"U", "R", "AND", "OR", "&", "|", "->", "=", "<=", "<", ">=", ">", "+", "-"} -> "binary"
                       [] l \in {"(", ")"} -> "brackets"
                       [] l = "EOT" -> "unknown"
                       [] OTHER -> "symbol"

(* ltl_parser_state: the tokens, the last one processed and the top of the *)
(* tree.  info.arg and info.left are one field of a union.                 *)
Start == [tokens |-> <<>>, last |-> Null, top |-> Null, refused |-> FALSE]
new_ltl_token(l, parent, left) == [lex |-> l, parent |-> parent, left |-> left, right |-> Null]

Full(t) == \/ get_token_type(t.lex) = "symbol"
           \/ get_token_type(t.lex) = "unary" /\ t.left # Null
           \/ get_token_type(t.lex) = "binary" /\ t.right # Null

RECURSIVE climb_up(_, _)
climb_up(tokens, i) == IF i = Null \/ ~Full(tokens[i]) THEN i ELSE climb_up(tokens, tokens[i].parent)

Refuse(st) == [st EXCEPT !.refused = TRUE]

(* Above the top: the first token, or an operator with all that was read   *)
(* for its left operand.                                                   *)
(* Mutated form: an operator takes the last operand of the one before it.  *)
AtTop_Last(st, l) ==
  LET n == Len(st.tokens) + 1
      t == st.tokens[st.top]
  IN  IF l = "EOT" THEN [st EXCEPT !.last = Null]
      ELSE IF st.top = Null /\ (l = "(" \/ get_token_type(l) \in {"unary", "symbol"})
      THEN [st EXCEPT !.tokens = Append(@, new_ltl_token(l, Null, Null)), !.top = n, !.last = n]
      ELSE IF st.top # Null /\ get_token_type(l) = "binary" /\ t.right # Null
      THEN [st EXCEPT !.tokens = Append([@ EXCEPT ![st.top].right = n], new_ltl_token(l, st.top, t.right)), !.last = n]
      ELSE IF st.top # Null /\ get_token_type(l) = "binary"
      THEN [st EXCEPT !.tokens = Append(@, new_ltl_token(l, Null, st.top)), !.top = n, !.last = n]
      ELSE Refuse(st)
AtTop(st, l) ==
  LET n == Len(st.tokens) + 1
  IN  IF l = "EOT" THEN [st EXCEPT !.last = Null]
      ELSE IF st.top = Null /\ (l = "(" \/ get_token_type(l) \in {"unary", "symbol"})
      THEN [st EXCEPT !.tokens = Append(@, new_ltl_token(l, Null, Null)), !.top = n, !.last = n]
      ELSE IF st.top # Null /\ get_token_type(l) = "binary"
      THEN [st EXCEPT !.tokens = Append(@, new_ltl_token(l, Null, st.top)), !.top = n, !.last = n]
      ELSE Refuse(st)

(* In brackets that have their argument.                                   *)
(* Mutated form: the operator does not take what stands to the left of it. *)
InBrackets_Drop(st, i, l) ==
  LET n == Len(st.tokens) + 1
  IN  CASE get_token_type(l) = "binary" ->
             [st EXCEPT !.tokens = Append([@ EXCEPT ![i].left = n], new_ltl_token(l, i, Null)), !.last = n]
        [] l = ")" -> [st EXCEPT !.last = st.tokens[i].parent]
        [] OTHER -> Refuse(st)
InBrackets(st, i, l) ==
  LET n == Len(st.tokens) + 1
  IN  CASE get_token_type(l) = "binary" ->
             [st EXCEPT !.tokens = Append([@ EXCEPT ![i].left = n],
                                          new_ltl_token(l, i, st.tokens[i].left)), !.last = n]
        [] l = ")" -> [st EXCEPT !.last = st.tokens[i].parent]
        [] OTHER -> Refuse(st)

(* The operand that a token misses.  Any token will do, an operator too.   *)
Operand(st, i, l) ==
  LET n == Len(st.tokens) + 1
      binary == get_token_type(st.tokens[i].lex) = "binary"
  IN  IF l \in {")", "EOT"} THEN Refuse(st)
      ELSE [st EXCEPT !.tokens = Append(IF binary THEN [@ EXCEPT ![i].right = n] ELSE [@ EXCEPT ![i].left = n],
                                        new_ltl_token(l, i, Null)), !.last = n]

ltl_parse(st, l) ==
  LET i == climb_up(st.tokens, st.last)
  IN  IF i = Null THEN AtTop(st, l)
      ELSE IF st.tokens[i].lex = "(" /\ st.tokens[i].left # Null THEN InBrackets(st, i, l)
      ELSE Operand(st, i, l)

-----------------------------------------------------------------------------
(* Formulas: <<op, operands ...>>.                                         *)
Misses(st) == \/ st.top = Null
              \/ \E i \in DOMAIN st.tokens : get_token_type(st.tokens[i].lex) = "binary" /\ st.tokens[i].left = Null

RECURSIVE Tree(_, _)
Tree(tokens, i) ==
  LET t == tokens[i]
  IN  CASE get_token_type(t.lex) = "symbol" -> <<t.lex>>
        [] get_token_type(t.lex) = "binary" -> <<t.lex, Tree(tokens, t.left), Tree(tokens, t.right)>>
        [] OTHER -> <<t.lex, Tree(tokens, t.left)>>

RECURSIVE rewrite_to_basic_ops(_)
rewrite_to_basic_ops(f) ==
  CASE f[1] = "("  -> rewrite_to_basic_ops(f[2])
    [] f[1] = "[]" -> <<"R", <<"ff">>, rewrite_to_basic_ops(f[2])>>
    [] f[1] = "<>" -> <<"U", <<"tt">>, rewrite_to_basic_ops(f[2])>>
    [] OTHER -> [i \in DOMAIN f |-> IF i = 1 THEN f[1] ELSE rewrite_to_basic_ops(f[i])]

RECURSIVE is_proposition(_), is_true(_), is_false(_)
is_proposition(f) == /\ f[1] \notin {"X", "U", "R", "AND", "OR"}
                     /\ \A i \in 2 .. Len(f) : is_proposition(f[i])
is_true(f) == f = <<"tt">> \/ (f[1] = "!" /\ is_false(f[2]))
is_false(f) == f = <<"ff">> \/ (f[1] = "!" /\ is_true(f[2]))

RECURSIVE untils_from_ltl_formula(_)
untils_from_ltl_formula(f) ==
  (IF f[1] = "U" THEN {f} ELSE {}) \cup UNION {untils_from_ltl_formula(f[i]) : i \in 2 .. Len(f)}

RECURSIVE Implies(_)
(* ltl_token_details2ccs() knows no implication.                           *)
Implies(f) == f[1] = "->" \/ \E i \in 2 .. Len(f) : Implies(f[i])
=============================================================================
