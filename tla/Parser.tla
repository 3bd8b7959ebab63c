------------------------------- MODULE Parser -------------------------------
(***************************************************************************)
(* The recursive-descent parser of parse.c.  A token is a string, a source *)
(* a sequence of tokens.  Every operator takes the position p of the       *)
(* parser, whose first token is the lookahead lah, and returns a result:   *)
(* its status, the tree, and the position after it.  error() leaves the    *)
(* parser by longjmp(), which Then and the operators after it express.     *)
(*                                                                         *)
(* A tree is a sequence whose head names its root.  The code builds lists  *)
(* of arguments in reverse, and so do these definitions.  All occurrences  *)
(* of an identifier share one symbol, whose role (action or agent) is      *)
(* overwritten by addattr(); p.marks lists these assignments in order.     *)
(***************************************************************************)
EXTENDS Naturals, Sequences

CONSTANTS Ids,    \* identifiers
          Ints,   \* integer constants
          Strs    \* strings

Values == Ints \cup Strs

EOF == "EOF"                 \* lah = NIL
NIL == <<"NIL">>             \* the null pointer as a tree
Empty == <<"()">>            \* the empty agent, makenull()
BoolOps == {"|", "&", "!"}
CompOps == {"<", "<=", ">", ">=", "="}
AgentOps == {":", "~", "++", "||"}

(* The operators that v_term_left(), v_exp_left(), c_exp_left() and        *)
(* b_exp_left() take: the level of a binary operator.                      *)
Ops == << {"*", "/", "%"}, {"+", "-"}, CompOps, {"|", "&"} >>

(***************************************************************************)
(* Positions and results.                                                  *)
(***************************************************************************)
Source(s) == [in |-> s, marks |-> <<>>]
lah(p) == IF p.in = <<>> THEN EOF ELSE Head(p.in)
scanner(p) == IF p.in = <<>> THEN p ELSE [p EXCEPT !.in = Tail(@)]
addattr(p, id, role) == [p EXCEPT !.marks = Append(@, <<id, role>>)]

Ok(t, p) == [st |-> "ok", t |-> t, p |-> p]

(* error(WARNING): the next call of the parser drops the lookahead.  At    *)
(* the end of a source lah is NIL and reading its kind is a SIGSEGV.       *)
SyntaxError(p) == [st |-> IF lah(p) = EOF THEN "segv" ELSE "warning",
                   t |-> NIL, p |-> scanner(p)]

(* The call of error() in ex_a_unary_exp() passes one argument for two %s: *)
(* undefined behaviour, which the build answers with a SIGSEGV.            *)
BadFormat(p) == [st |-> "undefined", t |-> NIL, p |-> scanner(p)]

Then(r, F(_, _)) == IF r.st = "ok" THEN F(r.t, r.p) ELSE r
Need(tok, p, F(_)) == IF lah(p) = tok THEN F(scanner(p)) ELSE SyntaxError(p)
NeedId(p, F(_, _)) == IF lah(p) \in Ids THEN F(lah(p), scanner(p))
                                         ELSE SyntaxError(p)

(***************************************************************************)
(* Expressions.  v_unary_exp() returns NIL, and reads nothing, when a `|'  *)
(* or `&' stands where an operand is expected.                             *)
(***************************************************************************)
RECURSIVE b_exp(_), v_unary_exp(_), Exp(_, _), ExpLeft(_, _, _)

fact(p) ==
  CASE lah(p) \in Ids \cup Values  -> Ok(<<lah(p)>>, scanner(p))
    [] lah(p) \in {"true", "TRUE"}   -> Ok(<<"1">>, scanner(p))
    [] lah(p) \in {"false", "FALSE"} -> Ok(<<"0">>, scanner(p))
    [] lah(p) = "(" -> Then(b_exp(scanner(p)),
                            LAMBDA t, q : Need(")", q, LAMBDA r : Ok(t, r)))
    [] OTHER -> SyntaxError(p)

v_unary_exp(p) ==
  CASE lah(p) = "!" -> Then(v_unary_exp(scanner(p)),
                            LAMBDA t, q : Ok(<<"!", t>>, q))
    [] lah(p) \in BoolOps \ {"!"} -> Ok(NIL, p)
    [] OTHER -> fact(p)

(* Mutant: the right operand takes everything at its level. *)
ExpLeft_Right(n, inp, p) ==
  IF lah(p) \in Ops[n]
  THEN Then(Exp(n, scanner(p)), LAMBDA t, q : Ok(<<lah(p), inp, t>>, q))
  ELSE Ok(inp, p)

ExpLeft(n, inp, p) ==
  IF lah(p) \in Ops[n]
  THEN Then(Exp(n - 1, scanner(p)),
            LAMBDA t, q : ExpLeft(n, <<lah(p), inp, t>>, q))
  ELSE Ok(inp, p)

Exp(n, p) == IF n = 0 THEN v_unary_exp(p)
             ELSE Then(Exp(n - 1, p), LAMBDA t, q : ExpLeft(n, t, q))

v_term(p) == Exp(1, p)
v_exp(p) == Exp(2, p)
c_exp(p) == Exp(3, p)
b_exp(p) == Exp(4, p)

RECURSIVE value_seq_left(_, _)
value_seq_left(inp, p) ==
  IF lah(p) = "," THEN Then(b_exp(scanner(p)),
                            LAMBDA t, q : value_seq_left(<<t>> \o inp, q))
                  ELSE Ok(inp, p)
(* Mutant: the first argument must not be a comparison. *)
value_seq_First(p) == Then(v_exp(p), LAMBDA t, q : value_seq_left(<<t>>, q))
value_seq(p) == Then(b_exp(p), LAMBDA t, q : value_seq_left(<<t>>, q))

(***************************************************************************)
(* Lists of names and of pairs of names.  ex_id_seq_left() returns NIL     *)
(* without a word when no name follows the comma; after a pair of co-names *)
(* the last name is not skipped.                                           *)
(***************************************************************************)
RECURSIVE id_seq_left(_, _), relabel_seq_left(_, _)

AnId(inp, p, Else(_)) ==
  LET q == IF lah(p) = "~" THEN scanner(p) ELSE p IN
  IF lah(q) \in Ids
  THEN id_seq_left(<<lah(q)>> \o inp, addattr(scanner(q), lah(q), "ACT"))
  ELSE Else(q)

ex_id_seq_left(inp, p) == AnId(inp, p, LAMBDA q : Ok(NIL, q))
id_seq_left(inp, p) == IF lah(p) = "," THEN ex_id_seq_left(inp, scanner(p))
                                       ELSE Ok(inp, p)
id_seq(p) == AnId(<<>>, p, SyntaxError)

APair(inp, p) ==
  IF lah(p) = "~"
  THEN NeedId(scanner(p), LAMBDA a, q :
       Need("/", addattr(q, a, "ACT"), LAMBDA r :
       Need("~", r, LAMBDA s :
       IF lah(s) \in Ids
       THEN relabel_seq_left(<<<<a, lah(s)>>>> \o inp, addattr(s, lah(s), "ACT"))
       ELSE SyntaxError(s))))
  ELSE NeedId(p, LAMBDA a, q :
       Need("/", addattr(q, a, "ACT"), LAMBDA r :
       NeedId(r, LAMBDA b, s :
       relabel_seq_left(<<<<a, b>>>> \o inp, addattr(s, b, "ACT")))))

relabel_seq_left(inp, p) == IF lah(p) = "," THEN APair(inp, scanner(p))
                                            ELSE Ok(inp, p)
relabel_seq(p) == APair(<<>>, p)

(***************************************************************************)
(* Agents.                                                                 *)
(***************************************************************************)
RECURSIVE agent_exp(_), a_unary_exp(_), a_label_exp_left(_, _),
          a_binary_exp_left(_, _)

(* After `)' the end of the source is noticed here, and only here.         *)
ex_a_fact(p) ==
  IF lah(p) = ")" THEN Ok(Empty, scanner(p))
  ELSE Then(agent_exp(p), LAMBDA t, q :
       Need(")", q, LAMBDA r :
       IF lah(r) = EOF THEN [st |-> "warning", t |-> NIL, p |-> r] ELSE Ok(t, r)))
a_fact(p) == Need("(", p, ex_a_fact)

(* `fix (X = (P))': the last parenthesis is looked at and not skipped.     *)
a_fix_exp(p) ==
  IF lah(p) # "fix" THEN a_fact(p)
  ELSE Need("(", scanner(p), LAMBDA q :
       NeedId(q, LAMBDA id, r :
       Need("=", r, LAMBDA s :
       Then(a_fact(s), LAMBDA t, u :
       IF lah(u) = ")" THEN Ok(<<"CLS", id, t>>, addattr(u, id, "A_VAR"))
                       ELSE SyntaxError(u)))))

(* Mutant: a label does not get its role. *)
Prefix_NoRole(kind, id, args, p) ==
  Then(a_unary_exp(p), LAMBDA t, q : Ok(<<kind, <<id>>, args, t>>, q))
Prefix(kind, id, args, p) ==
  Then(a_unary_exp(p), LAMBDA t, q :
  Ok(<<kind, <<id>>, args, t>>, addattr(q, id, "ACT")))

ex_a_unary_exp(p) ==
  LET id == lah(p)  q == scanner(p) IN
  CASE id = EOF -> SyntaxError(p)
    [] id \notin Ids \cup {EOF} -> BadFormat(p)
    [] id \in Ids /\ lah(q) = "(" ->
         Then(value_seq(scanner(q)), LAMBDA args, r :
         Need(")", r, LAMBDA s :
         Need(":", s, LAMBDA u : Prefix("SEND", id, args, u))))
    [] OTHER -> Need(":", q, LAMBDA u : Prefix("SEND", id, <<>>, u))

(* A name not followed by `:' is the constant of an agent.                 *)
ex_a_unary_exp_id_val_seq2(id, args, p) ==
  IF lah(p) = ":" THEN Prefix("RECV", id, args, scanner(p))
  ELSE Ok(<<"CON", <<id>>, args>>, addattr(p, id, "A_CON"))
ex_a_unary_exp_id(id, p) ==
  IF lah(p) = "("
  THEN Then(value_seq(scanner(p)), LAMBDA args, q :
       Need(")", q, LAMBDA r : ex_a_unary_exp_id_val_seq2(id, args, r)))
  ELSE ex_a_unary_exp_id_val_seq2(id, <<>>, p)

a_unary_exp(p) ==
  CASE lah(p) \in Ids -> ex_a_unary_exp_id(lah(p), scanner(p))
    [] lah(p) = "~"   -> ex_a_unary_exp(scanner(p))
    [] OTHER          -> a_fix_exp(p)

(* Mutant: a stray bracket is passed over. *)
a_label_exp_left_Stray(inp, p) ==
  CASE lah(p) \in {"]", "}"} -> a_label_exp_left(inp, scanner(p))
    [] OTHER -> Ok(inp, p)
a_label_exp_left(inp, p) ==
  CASE lah(p) = "[" -> Then(id_seq(scanner(p)), LAMBDA ids, q :
                       Need("]", q, LAMBDA r :
                       a_label_exp_left(<<"RES", inp, ids>>, r)))
    [] lah(p) = "{" -> Then(relabel_seq(scanner(p)), LAMBDA ids, q :
                       Need("}", q, LAMBDA r :
                       a_label_exp_left(<<"REL", inp, ids>>, r)))
    [] lah(p) \in {"]", "}"} -> SyntaxError(p)
    [] OTHER -> Ok(inp, p)
a_label_exp(p) == Then(a_unary_exp(p), a_label_exp_left)

a_binary_exp_left(inp, p) ==
  CASE lah(p) \in {"++", "||"} ->
         Then(a_label_exp(scanner(p)), LAMBDA t, q :
              a_binary_exp_left(<<lah(p), inp, t>>, q))
    [] lah(p) \in AgentOps \ {"++", "||"} -> SyntaxError(p)
    [] OTHER -> Ok(inp, p)
a_binary_exp(p) == Then(a_label_exp(p), a_binary_exp_left)

(* define, bind, if and definit.  bind and definit leave their last        *)
(* parenthesis to the caller.                                              *)
Define(p) ==
  LET Body(id, ids, q) == Then(agent_exp(q), LAMBDA t, r :
                          Ok(<<"DEF", <<id>>, ids, t>>, addattr(r, id, "A_CON")))
  IN NeedId(p, LAMBDA id, q :
     Need("(", q, LAMBDA r :
     IF lah(r) = ")" THEN Body(id, <<>>, scanner(r))
     ELSE Then(id_seq(r), LAMBDA ids, s :
          Need(")", s, LAMBDA u : Body(id, ids, u)))))
Bind(p) ==
  NeedId(p, LAMBDA id, q :
    IF lah(q) \notin Strs THEN SyntaxError(q)
    ELSE IF lah(scanner(q)) # ")" THEN SyntaxError(scanner(q))
    ELSE Ok(<<"BIND", <<id>>, <<lah(q)>>>>, addattr(scanner(q), id, "ACT")))
If(p) ==
  Need("(", p, LAMBDA q :
  Then(b_exp(q), LAMBDA c, r :
  Need(")", r, LAMBDA s :
  Then(agent_exp(s), LAMBDA t, u :
  Then(agent_exp(u), LAMBDA e, v : Ok(<<"IF", c, t, e>>, v))))))
Definit(p) ==
  Need("(", p, LAMBDA q :
  Then(id_seq(q), LAMBDA ids, r :
  Need(")", r, LAMBDA s :
  Need("(", s, LAMBDA u :
  Then(value_seq(u), LAMBDA vals, v :
  Need(")", v, LAMBDA w :
  IF lah(w) = ")" THEN Ok(<<"DEFINIT", ids, vals>>, w) ELSE SyntaxError(w)))))))

agent_exp(p) ==
  CASE lah(p) = "define"  -> Define(scanner(p))
    [] lah(p) = "bind"    -> Bind(scanner(p))
    [] lah(p) = "if"      -> If(scanner(p))
    [] lah(p) = "definit" -> Definit(scanner(p))
    [] OTHER              -> a_binary_exp(p)

start(p) ==
  IF lah(p) = ")" THEN Ok(Empty, scanner(p))
  ELSE Then(agent_exp(p), LAMBDA t, q : Need(")", q, LAMBDA r : Ok(t, r)))

parser(p) == IF lah(p) = EOF THEN [st |-> "eof", t |-> NIL, p |-> p]
                             ELSE Need("(", p, start)
=============================================================================
