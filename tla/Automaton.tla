----------------------------- MODULE Automaton -----------------------------
(***************************************************************************)
(* The automaton of an LTL formula.  The translator writes it as a set of  *)
(* definitions, one conditional or one prefix `accept' per node, that      *)
(* become part of the program's definitions; eval() steps through them     *)
(* when g_step_exec is set.                                                *)
(***************************************************************************)
EXTENDS Terms

CONSTANT ACC_WEAKLY   \* acceptance_condition == ACC_WEAKLY

isaccept(a) == a.op = "RECV" /\ a.label = "accept"
Aborts(a) == a.op = "CON" /\ isabort(a.name)
Body(a) == IF isaccept(a) THEN a.body ELSE a

(* The step of the automaton (g_step_exec == TRUE): eval() stops at accept *)
(* or with the branch of a conditional, where one conditional more is      *)
(* evaluated.  An unbound variable jumps back to the outer conditional,    *)
(* which then takes the branch of the acceptance condition; there the same *)
(* jump repeats itself ("diverged").                                       *)
Branch(e, env, v) == IF (IF v = Nil THEN ACC_WEAKLY ELSE v # 0) THEN e.then ELSE e.else

Jumped(e, env) ==
  LET b == Branch(e, env, Nil)
  IN  IF b.op # "IF" THEN b
      ELSE IF evalval(b.cond, env) = Nil THEN [op |-> "diverged"]
      ELSE Branch(b, env, evalval(b.cond, env))

RECURSIVE eval_step(_, _)
eval_step(a, env) ==
  CASE a.op = "CON" ->
         IF isabort(a.name) THEN a
         ELSE IF a.name \notin DOMAIN Procs THEN [op |-> "warning"]
         ELSE eval_step(Procs[a.name].body, env)
    [] a.op = "IF" ->
         LET v == evalval(a.cond, env)
             b == Branch(a, env, v)
         IN  IF v = Nil THEN Jumped(a, env)
             ELSE IF b.op # "IF" THEN b
             ELSE IF evalval(b.cond, env) = Nil THEN Jumped(a, env)
             ELSE Branch(b, env, evalval(b.cond, env))
    [] OTHER -> a
=============================================================================
