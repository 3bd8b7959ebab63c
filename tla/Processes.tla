----------------------------- MODULE Processes -----------------------------
(***************************************************************************)
(* What eval() of driver.c makes of an agent expression, without the       *)
(* machinery by which it does so (continuations, closures, the list that   *)
(* is the channel): a row of processes, each with an environment of its    *)
(* own, that share the registers of MessageMedia.  A step is taken by one  *)
(* process, which becomes what the branch of eval() or evalprefix() for    *)
(* its operator makes of it; the others, and their environments, stay as   *)
(* they are.                                                               *)
(*                                                                         *)
(* Evaluator implements this specification: TLC checks it on the programs  *)
(* of MCEvaluator, and Evaluator_proofs proves it.                         *)
(***************************************************************************)
EXTENDS Terms

CONSTANTS
  Programs,   \* the agent expressions that may be typed in
  Input       \* the lists of values that an outer label may deliver

VARIABLES
  procs,       \* the processes, from left to right: [exp, env]
  slot,        \* the register of every inner label
  shown,       \* what the last output on an outer label wrote
  interactive  \* whether the user chooses the operands

Media == INSTANCE MessageMedia WITH Value <- Seq(Int), Empty <- Nil

full == {l \in Label : slot[l] # Nil}

(* Process i turns into the processes of an expression.                    *)
Become(i, e, env) ==
  procs' = SubSeq(procs, 1, i - 1) \o Leaves(e, env, <<>>)
             \o SubSeq(procs, i + 1, Len(procs))

Init == /\ \E e \in Programs : procs = Leaves(e, <<>>, <<>>)
        /\ slot = [l \in Label |-> Nil]
        /\ shown = <<>>
        /\ interactive \in BOOLEAN

Send(i) ==
  LET p == procs[i]
  IN  /\ p.exp.op = "SEND" /\ ~isouter_action(p.exp.label)
      /\ evalval_ls(p.exp.vals, p.env) # Nil
      /\ Media!Write(p.exp.label, evalval_ls(p.exp.vals, p.env))
      /\ Become(i, p.exp.body, p.env)
      /\ UNCHANGED <<shown, interactive>>

Receive(i) ==
  LET p == procs[i]
  IN  /\ p.exp.op = "RECV" /\ ~isouter_action(p.exp.label)
      /\ Media!Read(p.exp.label)
      /\ LET env == n_boundls(p.exp.vars, slot[p.exp.label], p.env)
         IN  env # Nil /\ Become(i, p.exp.body, env)
      /\ UNCHANGED <<shown, interactive>>

(* An output action on an outer label.                                     *)
Write(i) ==
  LET p == procs[i]
  IN  /\ p.exp.op = "SEND" /\ isouter_action(p.exp.label) /\ p.exp.label \notin BreakPoints
      /\ evalval_ls(p.exp.vals, p.env) # Nil
      /\ shown' = evalval_ls(p.exp.vals, p.env)
      /\ Become(i, p.exp.body, p.env)
      /\ UNCHANGED <<slot, interactive>>

(* An input action on an outer label: evalprefix() returns no channel, so  *)
(* every message in transit is lost.                                       *)
Read(i) ==
  LET p == procs[i]
  IN  /\ p.exp.op = "RECV" /\ isouter_action(p.exp.label)
      /\ p.exp.label \notin BreakPoints \cup {"accept"}
      /\ \E data \in Input :
           LET env == n_boundls(p.exp.vars, data, p.env)
           IN  env # Nil /\ Become(i, p.exp.body, env)
      /\ slot' = [l \in Label |-> Nil]
      /\ UNCHANGED <<shown, interactive>>

(* accept is passed without an effect.                                     *)
Accept(i) ==
  LET p == procs[i]
  IN  /\ p.exp.op = "RECV" /\ p.exp.label = "accept"
      /\ Become(i, p.exp.body, p.env)
      /\ UNCHANGED <<slot, shown, interactive>>

(* A sum becomes an operand that has a derivative; a user may choose any.  *)
Choose(i) ==
  LET p == procs[i]
  IN  /\ p.exp.op = "SUM"
      /\ \E e \in {p.exp.left, p.exp.right} :
           /\ interactive \/ derivatives(e, full) = "yes"
           /\ Become(i, e, p.env)
      /\ UNCHANGED <<slot, shown, interactive>>

Test(i) ==
  LET p == procs[i]
  IN  /\ p.exp.op = "IF" /\ evalval(p.exp.cond, p.env) # Nil
      /\ Become(i, IF evalval(p.exp.cond, p.env) # 0 THEN p.exp.then ELSE p.exp.else, p.env)
      /\ UNCHANGED <<slot, shown, interactive>>

(* A constant becomes its definition, in the environment of the caller     *)
(* extended with the arguments (scoping is dynamic).                       *)
Unfold(i) ==
  LET p == procs[i]
  IN  /\ p.exp.op = "CON" /\ p.exp.name \in DOMAIN Procs
      /\ LET env == n_boundls(Procs[p.exp.name].params, evalval_ls(p.exp.args, p.env), p.env)
         IN  env # Nil /\ Become(i, Procs[p.exp.name].body, env)
      /\ UNCHANGED <<slot, shown, interactive>>

(* Abort terminates the whole.                                             *)
Abort(i) == /\ procs[i].exp.op = "CON" /\ isabort(procs[i].exp.name)
            /\ procs' = <<procs[i]>>
            /\ UNCHANGED <<slot, shown, interactive>>

(* The user stops choosing.                                                *)
Continue == /\ interactive /\ interactive' = FALSE
            /\ UNCHANGED <<procs, slot, shown>>

Step(i) == \/ Send(i) \/ Receive(i) \/ Write(i) \/ Read(i) \/ Accept(i)
           \/ Choose(i) \/ Test(i) \/ Unfold(i) \/ Abort(i)

Next == Continue \/ \E i \in 1..Len(procs) : Step(i)

Spec == Init /\ [][Next]_<<procs, slot, shown, interactive>>
=============================================================================
