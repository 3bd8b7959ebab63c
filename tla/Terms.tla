------------------------------- MODULE Terms -------------------------------
(***************************************************************************)
(* Agent expressions of rccs as eval() sees them, and the pure functions   *)
(* of driver.c on them: the test for a derivative, closures, and the       *)
(* continuations (contexts with a hole) by which eval() walks through a    *)
(* parallel composition.                                                   *)
(*                                                                         *)
(* An expression is a record with the operator of the list that stands for *)
(* it in the program; the empty list, which is the hole of a continuation  *)
(* and the continuation that is none, is Hole.  An environment is the list *)
(* of its pairs, newest first.                                             *)
(*                                                                         *)
(* Recursion over expressions is by recursive functions on the set of the  *)
(* expressions up to a height.                                             *)
(***************************************************************************)
EXTENDS ChannelList

CONSTANTS
  Label,   \* the labels of inner actions
  Procs,   \* the definitions: a function from names to [params, body]
  Height,  \* bound: how deep an expression is nested
  Bound,   \* the labels that (bind ..) has connected to a socket or a breakpoint
  BreakPoints,  \* those that are connected to a breakpoint; there is no target
  Shadows  \* whether environments keep the pairs that lookup1() cannot reach, as
           \* the program does; only the verifier compares environments

Hole == [op |-> "NULL"]

RECV(l, xs, k) == [op |-> "RECV", label |-> l, vars |-> xs, body |-> k]
SEND(l, es, k) == [op |-> "SEND", label |-> l, vals |-> es, body |-> k]
SUM(l, r)      == [op |-> "SUM", left |-> l, right |-> r]
COM(l, r)      == [op |-> "COM", left |-> l, right |-> r]
IF3(b, t, e)   == [op |-> "IF", cond |-> b, then |-> t, else |-> e]
CON(n, es)     == [op |-> "CON", name |-> n, args |-> es]
CLS(e, env)    == [op |-> "CLS", body |-> e, env |-> env]

Outer == {"key", "display", "accept"} \cup Bound
isouter_action(l) == l \in Outer
isstop(n)     == n \in {"stop", "zero", "abort"}
isabort(n)    == n \in {"abort", "abortion"}   \* any name that begins with abort
isprimagnt(n) == n \in {"quit", "load"}

-----------------------------------------------------------------------------
(* Values: a literal, a variable, or the comparison of two values.         *)
Lit(v)   == [tk |-> "VALUE", val |-> v]
Id(x)    == [tk |-> "ID", id |-> x]
Eq(d, e) == [tk |-> "EQ", operands |-> <<d, e>>]

(* lookup1 in an environment.                                              *)
lookup1(x, env) == LET i == SelectInSeq(env, LAMBDA p : p.var = x)
                   IN  IF i = 0 THEN Nil ELSE env[i].val

(* An environment without the pairs that cannot be reached, in an order    *)
(* that depends on nothing but its contents.                               *)
Reachable(env) == SetToSeq({p \in Range(env) : lookup1(p.var, env) = p.val})

(* The value expressions whose operands are in X, and those that nest at   *)
(* most n comparisons.                                                     *)
Valued(X) ==
  [tk : {"VALUE"}, val : Int]
    \cup [tk : {"ID"}, id : STRING]
    \cup [tk : {"EQ"}, operands : {s \in Seq(X) : Len(s) = 2}]

ValueTo[n \in Nat] == Valued(IF n = 0 THEN {} ELSE ValueTo[n - 1])

ValueExp == ValueTo[Height]

(* evalval: Nil stands for the warning about an unbound variable.          *)
evalval(e, env) ==
  LET value[x \in ValueExp] ==
        IF x.tk = "VALUE" THEN x.val
        ELSE IF x.tk = "ID" THEN lookup1(x.id, env)
        ELSE LET d == value[x.operands[1]]
                 f == value[x.operands[2]]
             IN  IF Nil \in {d, f} THEN Nil ELSE IF d = f THEN 1 ELSE 0
  IN  value[e]

evalval_ls(es, env) ==
  LET vs == [i \in DOMAIN es |-> evalval(es[i], env)]
  IN  IF Nil \in Range(vs) THEN Nil ELSE vs

(* n_boundls: one pair after the other goes in front; Nil stands for the   *)
(* warning about two lists of different lengths.                           *)
n_boundls(xs, vs, env) ==
  IF vs = Nil \/ Len(xs) # Len(vs) THEN Nil
  ELSE LET env1 == Reverse([i \in DOMAIN xs |-> [var |-> xs[i], val |-> vs[i]]]) \o env
       IN  IF Shadows THEN env1 ELSE Reachable(env1)
-----------------------------------------------------------------------------
Env == Seq([var : STRING, val : Int])

(* The expressions whose parts are in X.                                   *)
Built(X) ==
  [op : {"CON"}, name : STRING, args : Seq(ValueExp)]
    \cup [op : {"RECV"}, label : Label \cup Outer, vars : Seq(STRING), body : X]
    \cup [op : {"SEND"}, label : Label \cup Outer, vals : Seq(ValueExp), body : X]
    \cup [op : {"SUM", "COM"}, left : X, right : X]
    \cup [op : {"IF"}, cond : ValueExp, then : X, else : X]
    \cup [op : {"CLS"}, body : X, env : Env]

(* The expressions, and the continuations, which have holes: those of a    *)
(* height up to n, and those that the model is about.                      *)
ExpressionTo[n \in Nat] == {Hole} \cup Built(IF n = 0 THEN {} ELSE ExpressionTo[n - 1])

Expression == ExpressionTo[Height]
-----------------------------------------------------------------------------
(* The test for a derivative, given the labels that carry a message (Nil   *)
(* when the channel is NIL): "yes", "no", or the error that the test met.  *)
derivatives1(op, l, full) ==
  IF isouter_action(l) THEN "yes"
  ELSE IF full = Nil THEN "fatal"
  ELSE IF (op = "RECV") = (l \in full) THEN "yes" ELSE "no"

(* The tests of all expressions, given those of the bodies of constants.   *)
Tests(unfolded, full) ==
  LET test[x \in Expression] ==
        IF x.op \in {"RECV", "SEND"} THEN derivatives1(x.op, x.label, full)
        ELSE IF x.op \in {"SUM", "COM"}
             THEN LET l == test[x.left]
                  IN  IF l = "no" THEN test[x.right] ELSE l
        ELSE IF x.op = "IF" THEN "yes"
        ELSE IF x.op = "CLS" THEN test[x.body]
        ELSE IF isabort(x.name) THEN "yes"
        ELSE IF isstop(x.name) THEN "no"
        ELSE IF isprimagnt(x.name) THEN "yes"
        ELSE IF x.name \notin DOMAIN Procs THEN "warning"
        ELSE IF x.args # <<>> /\ Len(x.args) # Len(Procs[x.name].params) THEN "warning"
        ELSE unfolded[Procs[x.name].body]
  IN  test

(* A constant that is unfolded while it is unfolded already is unfolded    *)
(* for ever: "diverged".                                                   *)
derivatives(e, full) ==
  LET unfolding[n \in Nat] ==
        Tests(IF n = 0 THEN [x \in Expression |-> "diverged"] ELSE unfolding[n - 1], full)
  IN  unfolding[Cardinality(DOMAIN Procs)][e]
-----------------------------------------------------------------------------
(* Mutated form: a closure loses its environment.                          *)
make_cls_Raw(e, env) == e

make_cls(e, env) == IF e.op = "CLS" THEN e ELSE CLS(e, env)

isbinary(c) == c.op \in {"SUM", "COM"}

resume_out_most[c \in Expression] ==
  IF ~isbinary(c) THEN c
  ELSE IF Hole \in {c.left, c.right} THEN Hole
  ELSE IF Hole \in {resume_out_most[c.left], resume_out_most[c.right]} THEN Hole
  ELSE c

ishole(c) == resume_out_most[c] = Hole

(* resume with an expression: every hole of the continuation is filled.    *)
Filled(e, c) ==
  LET filled[x \in Expression] ==
        IF x = Hole THEN e
        ELSE IF isbinary(x) THEN [op |-> x.op, left |-> filled[x.left], right |-> filled[x.right]]
        ELSE x
  IN  filled[c]

(* resume without one: the operand beside the outermost one with a hole.   *)
Sibling(c) ==
  IF ~isbinary(c) THEN c
  ELSE IF ishole(c.left) THEN c.right
  ELSE IF ishole(c.right) THEN c.left
  ELSE c

resume(e, c) == IF e = Hole THEN Sibling(c) ELSE Filled(e, c)

(* make_cont for one operand of a parallel composition: the other one is   *)
(* closed with the environment and the whole fills the continuation.       *)
make_cont(side, e, c, env) ==
  LET inner == IF side = "LEFT"
               THEN COM(Hole, make_cls(e.right, env))
               ELSE COM(make_cls(e.left, env), Hole)
  IN  resume(inner, c)

(* Mutated form of make_switch: the hole is filled and none is made.       *)
make_switch_Filled(e, c) == resume(e, c)

(* make_cont(SWITCH,..): the hole moves to the operand that Sibling gives. *)
make_switch(e, c) ==
  LET whole == resume(e, c)
  IN  IF ~isbinary(c) THEN c
      ELSE IF ishole(c.left) THEN [whole EXCEPT !.right = Hole]
      ELSE IF ishole(c.right) THEN [whole EXCEPT !.left = Hole]
      ELSE c
-----------------------------------------------------------------------------
(* The processes of an expression from left to right, each with the        *)
(* environment it runs in; a hole contributes the sequence `inside'.       *)
Leaves(e, env, inside) ==
  LET leaves[x \in Expression] ==
        [en \in Env |->
           IF x = Hole THEN inside
           ELSE IF x.op = "COM" THEN leaves[x.left][en] \o leaves[x.right][en]
           ELSE IF x.op = "CLS" THEN leaves[x.body][x.env]
           ELSE <<[exp |-> x, env |-> en]>>]
  IN  leaves[e][env]

(* The holes of a continuation that resume() reaches.                      *)
Holes[e \in Expression] ==
  IF e = Hole THEN 1
  ELSE IF isbinary(e) THEN Holes[e.left] + Holes[e.right] ELSE 0

(* Agent expressions: there is no hole anywhere.                           *)
NoHole[e \in Expression] ==
  /\ e # Hole
  /\ e.op \in {"RECV", "SEND", "CLS"} => NoHole[e.body]
  /\ e.op \in {"SUM", "COM"} => NoHole[e.left] /\ NoHole[e.right]
  /\ e.op = "IF" => NoHole[e.then] /\ NoHole[e.else]

AgentExp == {e \in Expression : NoHole[e]}

ASSUME BreakPointsAssumption == BreakPoints \subseteq Bound

ASSUME TermsAssumption ==
  /\ Height \in Nat
  /\ Nil \notin Int \cup STRING \cup Seq(Int) \cup Env /\ \A s \in SUBSET Label : s # Nil
  /\ Nil \notin Seq([label : Label \cup Outer, value : Seq(Int)])
  /\ IsFiniteSet(DOMAIN Procs)
  /\ \A n \in DOMAIN Procs : Procs[n].body \in AgentExp /\ Procs[n].params \in Seq(STRING)
=============================================================================
