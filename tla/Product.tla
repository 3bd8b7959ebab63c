------------------------------ MODULE Product ------------------------------
(***************************************************************************)
(* The reference for the model checker: the product of an agent expression *)
(* and an automaton, by the rules of the language instead of the search.   *)
(*                                                                         *)
(* A node is a sequence of processes, a state of the automaton and the set *)
(* of the messages in transit.  Outputs are silent; an input makes the     *)
(* automaton read the environment in which the receiver has waited.        *)
(***************************************************************************)
EXTENDS Automaton

RECURSIVE Unfolded(_)
(* A process as it is: a constant is what its definition says, and of its  *)
(* environment only what can be looked up counts.                          *)
Unfolded(p) ==
  IF p.exp.op = "CON" /\ p.exp.name \in DOMAIN Procs
  THEN LET d == Procs[p.exp.name]
           ps == Leaves(d.body, n_boundls(d.params, evalval_ls(p.exp.args, p.env), p.env), <<>>)
       IN  FlattenSeq([i \in DOMAIN ps |-> Unfolded(ps[i])])
  ELSE <<[p EXCEPT !.env = Reachable(@)]>>

Agents(e, env) == LET ps == Leaves(e, env, <<>>)
                     IN  FlattenSeq([i \in DOMAIN ps |-> Unfolded(ps[i])])

RECURSIVE Moves(_, _)
(* The prefixes by which an expression can move, with what stands to the   *)
(* left and to the right of them when they have done so.                   *)
Moves(e, env) ==
  CASE e.op \in {"RECV", "SEND"} -> {[act |-> e, env |-> env, left |-> <<>>, right |-> <<>>]}
    [] e.op = "SUM" -> Moves(e.left, env) \cup Moves(e.right, env)
    [] e.op = "COM" ->
         {[m EXCEPT !.right = @ \o Agents(e.right, env)] : m \in Moves(e.left, env)}
           \cup {[m EXCEPT !.left = Agents(e.left, env) \o @] : m \in Moves(e.right, env)}
    [] e.op = "IF" -> Moves(IF evalval(e.cond, env) # 0 THEN e.then ELSE e.else, env)
    [] e.op = "CLS" -> Moves(e.body, e.env)
    [] e.op = "CON" ->
         IF e.name \notin DOMAIN Procs THEN {}
         ELSE Moves(Procs[e.name].body,
                    n_boundls(Procs[e.name].params, evalval_ls(e.args, env), env))

(* The processes after the i-th one has made the move m.                   *)
After(ps, i, m, env) ==
  SubSeq(ps, 1, i - 1) \o m.left \o Agents(m.act.body, env) \o m.right
    \o SubSeq(ps, i + 1, Len(ps))

MovesOf(n, op) ==
  UNION {{[i |-> i, m |-> m] : m \in {k \in Moves(n.procs[i].exp, n.procs[i].env) : k.act.op = op}}
         : i \in DOMAIN n.procs}

OutputsOf(n) ==
  {[n EXCEPT !.procs = After(@, s.i, s.m, s.m.env),
             !.ch = IF isouter_action(s.m.act.label) THEN @
                    ELSE @ \cup {Msg(s.m.act.label, evalval_ls(s.m.act.vals, s.m.env))}]
     : s \in {t \in MovesOf(n, "SEND") : \A c \in n.ch : c.label # t.m.act.label}}

InputsOf(n) ==
  UNION {{[procs |-> After(n.procs, s.i, s.m, n_boundls(s.m.act.vars, c.value, s.m.env)),
           aut |-> eval_step(n.aut, s.m.env), ch |-> n.ch \ {c}]
            : c \in {d \in n.ch : d.label = s.m.act.label}}
         : s \in MovesOf(n, "RECV")}

Stuck(n) == OutputsOf(n) = {} /\ InputsOf(n) = {}

RECURSIVE Silently(_, _)
(* What outputs lead to from the nodes `front', with those that are known. *)
Silently(known, front) ==
  IF front = {} THEN known
  ELSE LET new == UNION {OutputsOf(n) : n \in front} \ known
       IN  Silently(known \cup new, new)

(* The nodes that one input leads to, possibly after some outputs.         *)
Inputs(n) == UNION {InputsOf(s) : s \in Silently({n}, {n})}

Successors(n) == IF Aborts(n.aut) THEN {} ELSE Inputs([n EXCEPT !.aut = Body(@)])

RECURSIVE Entering(_, _)
(* The same for inputs.                                                    *)
Entering(known, front) ==
  IF front = {} THEN known
  ELSE LET new == UNION {Successors(n) : n \in front} \ known
       IN  Entering(known \cup new, new)

Closure(S) == Entering(S, S)

NodeOf(e, aut, c) == [procs |-> Agents(e, <<>>), aut |-> aut, ch |-> Range(c)]

Start(f) == NodeOf(CLS(f.exp, f.env), f.automaton, <<>>)
Entered(f) == Closure(Inputs(Start(f)))

(* The form has a computation on which the automaton accepts for ever.     *)
AcceptingCycle(f) == \E n \in Entered(f) : isaccept(n.aut) /\ n \in Closure(Successors(n))
=============================================================================
