----------------------------- MODULE Evaluator -----------------------------
(***************************************************************************)
(* eval() of driver.c in simulation mode with the default channel.         *)
(*                                                                         *)
(* eval() is tail recursive: every branch ends in return(eval(...)) or     *)
(* returns a value.  A state holds the arguments of the call that is about *)
(* to run, and a step is the body of that call up to the next one.  The    *)
(* parallel composition is interleaved by one thread that carries the rest *)
(* of the program in the continuation `cont', an expression with a hole    *)
(* where `exp' belongs.                                                    *)
(***************************************************************************)
EXTENDS Terms

CONSTANTS
  Programs,   \* the agent expressions that may be typed in
  Typings,    \* of what labels carry and constants need, where programs are well formed
  Input       \* what n_recv() may read from an outer label: lists of values

ASSUME ProgramsAssumption == Programs \subseteq AgentExp /\ Input \subseteq Seq(Int)

VARIABLES
  exp, env, cont, ch,   \* the arguments of eval(); `procedures' is Procs
  interactive,          \* interactive_mode == ON
  shown,                \* what the last n_send() wrote
  status,               \* "running", "returned", "aborted", "driver" (quit or
                        \* load), "warning" or "fatal"
  program               \* history: what was typed in

vars == <<exp, env, cont, ch, interactive, shown, status, program>>

Full == IF ch = Nil THEN Nil ELSE {l \in Label : istrans_in_act(ch, l)}

istrans(e) == derivatives(e, Full)

Running(ops) == status = "running" /\ exp.op \in ops

(* return(eval(e, env1, c, ch, procedures)).                               *)
Call(e, env1, c) == /\ {e, c} \subseteq Expression
                    /\ exp' = e /\ env' = env1 /\ cont' = c
                    /\ UNCHANGED <<interactive, status, program>>

Stop(s) == /\ status' = s
           /\ UNCHANGED <<exp, env, cont, ch, interactive, shown, program>>

Init == /\ exp \in Programs
        /\ env = <<>> /\ cont = Hole /\ ch = <<>>
        /\ interactive \in BOOLEAN
        /\ shown = <<>>
        /\ status = "running"
        /\ program = exp
-----------------------------------------------------------------------------
(* The calls that begin with istrans(): all of SUM and COM is tested, from *)
(* left to right, unless the user is asked.                                *)
Tested == \/ Running({"RECV", "SEND", "CLS"})
          \/ Running({"SUM", "COM"}) /\ ~interactive

(* The test itself ends in error().                                        *)
TestFails == /\ Tested /\ istrans(exp) \in {"warning", "fatal"}
             /\ Stop(istrans(exp))

(* No derivative and nothing else to run: eval() returns the expression.   *)
Return == /\ Tested /\ istrans(exp) = "no" /\ cont = Hole
          /\ Stop("returned")

(* No derivative: the expression goes back into its hole, and eval()       *)
(* starts over with the whole.                                             *)
Park == /\ Tested /\ istrans(exp) = "no" /\ cont # Hole
        /\ Call(resume(IF isbinary(exp) THEN exp ELSE make_cls(exp, env), cont), env, Hole)
        /\ UNCHANGED <<ch, shown>>

(* evalprefix: the values of an output, a list of parameters that does not *)
(* fit, and an output to a breakpoint end in a warning, an input from a    *)
(* breakpoint in a violated assertion.                                     *)
Output == evalval_ls(exp.vals, env)
OuterInput == Running({"RECV"}) /\ isouter_action(exp.label) /\ exp.label # "accept"

PrefixFails ==
  /\ \/ Running({"SEND"}) /\ Output = Nil
     \/ Running({"SEND"}) /\ isouter_action(exp.label) /\ exp.label \in BreakPoints
     \/ /\ Running({"RECV"}) /\ ~isouter_action(exp.label)
        /\ Full # Nil
        /\ n_boundls(exp.vars, lookup_ch1(ch, exp.label), env) = Nil
     \/ /\ OuterInput /\ exp.label \notin BreakPoints
        /\ \E data \in Input : n_boundls(exp.vars, data, env) = Nil
  /\ istrans(exp) = "yes"
  /\ Stop("warning")

NoTarget == OuterInput /\ exp.label \in BreakPoints /\ Stop("fatal")

(* SEND: the sender waits in the continuation, the turn goes to the        *)
(* process beside it.                                                      *)
AfterSend == IF cont # Hole
             THEN Call(resume(Hole, cont), env, make_switch(make_cls(exp.body, env), cont))
             ELSE Call(IF isouter_action(exp.label) THEN make_cls(exp.body, env)
                                                    ELSE exp.body, env, Hole)

SendInner ==
  /\ Running({"SEND"}) /\ ~isouter_action(exp.label)
  /\ istrans(exp) = "yes" /\ Output # Nil
  /\ ch' = n_bound_ch(ch, exp.label, Output)
  /\ AfterSend
  /\ UNCHANGED shown

SendOuter ==
  /\ Running({"SEND"}) /\ isouter_action(exp.label)
  /\ exp.label \notin BreakPoints /\ Output # Nil
  /\ shown' = Output
  /\ AfterSend
  /\ UNCHANGED ch

RecvInner ==
  /\ Running({"RECV"}) /\ ~isouter_action(exp.label)
  /\ istrans(exp) = "yes"
  /\ LET data == lookup_ch1(ch, exp.label)
         env1 == n_boundls(exp.vars, data, env)
     IN  /\ env1 # Nil
         /\ ch' = delete(Msg(exp.label, data), ch)
         /\ Call(resume(make_cls(exp.body, env1), cont), env, Hole)
  /\ UNCHANGED shown

(* RECV accept: the body runs in the environment of the call.              *)
RecvAccept ==
  /\ Running({"RECV"}) /\ exp.label = "accept"
  /\ Call(resume(exp.body, cont), env, Hole)
  /\ UNCHANGED <<ch, shown>>

(* RECV on another outer label: n_recv() reads, and new_ch stays NIL.      *)
RecvOuter ==
  /\ OuterInput /\ exp.label \notin BreakPoints
  /\ \E data \in Input :
       /\ n_boundls(exp.vars, data, env) # Nil
       /\ Call(resume(make_cls(exp.body, n_boundls(exp.vars, data, env)), cont), env, Hole)
  /\ ch' = Nil
  /\ UNCHANGED shown
-----------------------------------------------------------------------------
(* Mutated form of Operand: the left operand has precedence, blocked or not. *)
Operand_Left(side) ==
  /\ Running({"SUM", "COM"})
  /\ interactive \/ (istrans(exp) = "yes" /\ side = "LEFT")
  /\ Call(IF side = "LEFT" THEN exp.left ELSE exp.right, env,
          IF exp.op = "SUM" THEN cont ELSE make_cont(side, exp, cont, env))
  /\ UNCHANGED <<ch, shown>>

(* SUM and COM: the user enters l, r or c; otherwise the left operand is   *)
(* taken when it has a derivative, else the right one.                     *)
Operand(side) ==
  /\ Running({"SUM", "COM"})
  /\ interactive \/ /\ istrans(exp) = "yes"
                    /\ (side = "LEFT") = (istrans(exp.left) = "yes")
  /\ Call(IF side = "LEFT" THEN exp.left ELSE exp.right, env,
          IF exp.op = "SUM" THEN cont ELSE make_cont(side, exp, cont, env))
  /\ UNCHANGED <<ch, shown>>

Continue == /\ Running({"SUM", "COM"}) /\ interactive
            /\ interactive' = FALSE
            /\ UNCHANGED <<exp, env, cont, ch, shown, status, program>>

IfFails == Running({"IF"}) /\ evalval(exp.cond, env) = Nil /\ Stop("warning")

If == /\ Running({"IF"}) /\ evalval(exp.cond, env) # Nil
      /\ Call(IF evalval(exp.cond, env) # 0 THEN exp.then ELSE exp.else, env, cont)
      /\ UNCHANGED <<ch, shown>>

(* CLS: the body runs in the environment of the closure.                   *)
Open == /\ Running({"CLS"}) /\ istrans(exp) = "yes"
        /\ Call(exp.body, exp.env, cont)
        /\ UNCHANGED <<ch, shown>>

(* CON: abort drops the rest of the program.                               *)
Abort == /\ Running({"CON"}) /\ isabort(exp.name)
         /\ cont' = Hole /\ status' = "aborted"
         /\ UNCHANGED <<exp, env, ch, interactive, shown, program>>

(* Mutated form: the first process that stops ends the program.            *)
ConStop_All == Running({"CON"}) /\ isstop(exp.name) /\ ~isabort(exp.name) /\ Stop("returned")

ConStop == /\ Running({"CON"}) /\ isstop(exp.name) /\ ~isabort(exp.name)
           /\ IF cont # Hole
              THEN Call(resume(exp, cont), env, Hole) /\ UNCHANGED <<ch, shown>>
              ELSE Stop("returned")

(* quit leaves the driver loop and load enters another one.                *)
Primitive == Running({"CON"}) /\ isprimagnt(exp.name) /\ evalval_ls(exp.args, env) # Nil /\ Stop("driver")

PrimitiveFails ==
  Running({"CON"}) /\ isprimagnt(exp.name) /\ evalval_ls(exp.args, env) = Nil /\ Stop("warning")

Defined == /\ Running({"CON"})
           /\ ~(isabort(exp.name) \/ isstop(exp.name) \/ isprimagnt(exp.name))

Arguments == IF exp.name \in DOMAIN Procs
             THEN n_boundls(Procs[exp.name].params, evalval_ls(exp.args, env), env)
             ELSE Nil

UnfoldFails == Defined /\ Arguments = Nil /\ Stop("warning")

Unfold == /\ Defined /\ Arguments # Nil
          /\ Call(resume(make_cls(Procs[exp.name].body, Arguments), cont), env, Hole)
          /\ UNCHANGED <<ch, shown>>

Prefix == SendInner \/ SendOuter \/ RecvInner \/ RecvAccept \/ RecvOuter

Next == \/ Prefix \/ PrefixFails \/ NoTarget \/ TestFails \/ Return \/ Park
        \/ Operand("LEFT") \/ Operand("RIGHT") \/ Continue
        \/ If \/ IfFails \/ Open
        \/ Abort \/ ConStop \/ Primitive \/ PrimitiveFails \/ Unfold \/ UnfoldFails

Spec == Init /\ [][Next]_vars

(* eval() runs to its end by itself: there is no other thread.             *)
FairSpec == Spec /\ WF_vars(Next)
-----------------------------------------------------------------------------
(* The processes that the arguments of eval() stand for.                   *)
procs == LET running == Leaves(exp, env, <<>>)
         IN  IF cont = Hole THEN running ELSE Leaves(cont, env, running)

(* resume() fills every hole of a continuation with the same expression:   *)
(* there must be exactly one, or a process is lost or duplicated, and none *)
(* in an expression that is about to be evaluated.                         *)
OneHole == /\ Holes[exp] = 0
           /\ cont # Hole => Holes[cont] = 1

(* eval() returns only when no process of the program has a derivative: it *)
(* does not give up because the processes it looked at last are blocked.   *)
StuckWhenReturned ==
  status = "returned" => \A p \in Range(procs) : istrans(p.exp) = "no"

(* The variables of values, and those that an environment binds.           *)
Vars[x \in ValueExp] ==
  IF x.tk = "VALUE" THEN {}
  ELSE IF x.tk = "ID" THEN {x.id}
  ELSE Vars[x.operands[1]] \cup Vars[x.operands[2]]

Named(es) == UNION {Vars[es[i]] : i \in DOMAIN es}

Known(env1) == {env1[i].var : i \in DOMAIN env1}

Flaw(sound) == IF sound THEN {} ELSE {Nil}

(* What an expression lacks: the variables that the environment has to     *)
(* bind, and Nil if no environment will do.  A typing says how many values *)
(* an inner label carries, and which variables of its caller the           *)
(* definition of a constant reads.                                         *)
Lacking(e, typing) ==
  LET lacks[x \in Expression] ==
        IF x = Hole THEN {}
        ELSE IF x.op = "RECV"
             THEN IF x.label = "accept" THEN lacks[x.body]
                  ELSE (lacks[x.body] \ Range(x.vars))
                         \cup Flaw(~isouter_action(x.label) /\ Len(x.vars) = typing.carries[x.label])
        ELSE IF x.op = "SEND"
             THEN lacks[x.body] \cup Named(x.vals)
                    \cup Flaw(IF isouter_action(x.label) THEN x.label \notin BreakPoints
                              ELSE Len(x.vals) = typing.carries[x.label])
        ELSE IF isbinary(x) THEN lacks[x.left] \cup lacks[x.right]
        ELSE IF x.op = "IF" THEN Vars[x.cond] \cup lacks[x.then] \cup lacks[x.else]
        ELSE IF x.op = "CLS" THEN Flaw(lacks[x.body] \subseteq Known(x.env))
        ELSE IF isabort(x.name) \/ isstop(x.name) THEN {}
        ELSE IF isprimagnt(x.name) THEN Named(x.args)
        ELSE IF x.name \notin DOMAIN typing.needs THEN {Nil}
        ELSE Named(x.args) \cup typing.needs[x.name]
               \cup Flaw(Len(x.args) = Len(Procs[x.name].params))
  IN  lacks[e]

(* A program is closed under a typing when it lacks nothing and each       *)
(* definition lacks no more than its parameters and what it needs.  A      *)
(* closed program reads nothing from outside.                              *)
ClosedUnder(typing, p) ==
  /\ DOMAIN typing.needs \subseteq DOMAIN Procs
  /\ \A n \in DOMAIN typing.needs :
       /\ typing.needs[n] \subseteq STRING
       /\ Lacking(Procs[n].body, typing) \subseteq typing.needs[n] \cup Range(Procs[n].params)
  /\ Lacking(p, typing) = {}

(* Every variable that is bound where it stands in the program is bound    *)
(* where eval() evaluates it, inputs find the number of values they expect *)
(* and no channel is lost: a closed program ends in no error.              *)
NoError ==
  status \in {"warning", "fatal"} => \A typing \in Typings : ~ClosedUnder(typing, program)

(* The walk through the continuation is invisible: every step of eval() is *)
(* a step of one process, in its own environment, or changes no process.   *)
Abstract == INSTANCE Processes
              WITH slot <- [l \in Label |-> IF ch = Nil THEN Nil ELSE lookup_ch1(ch, l)]
ProcessesSpec == Abstract!Spec

(* eval() never walks around for ever: once the user lets it go, it        *)
(* returns, or performs actions or unfolds constants again and again.      *)
Progress == <>~interactive =>
              <>(status # "running") \/ []<><<Prefix \/ Unfold>>_vars

(* The rules Sum(1), Sum(2), If(1) and If(2) of Docs/manual-sem.tex: a sum *)
(* moves as an operand that itself moves, and a conditional moves only if  *)
(* the branch that its condition selects does.                             *)
Moves(e, env1) ==
  LET moves[x \in Expression] ==
        [en \in Env |->
           CASE x.op \in {"SUM", "COM"} -> moves[x.left][en] \/ moves[x.right][en]
             [] x.op = "IF" -> moves[IF evalval(x.cond, en) # 0 THEN x.then ELSE x.else][en]
             [] x.op = "CLS" -> moves[x.body][x.env]
             [] OTHER -> istrans(x) = "yes"]
  IN  moves[e][env1]

SumCommitsToMovingOperand ==
  [][exp.op = "SUM" /\ ~interactive /\ exp' \in {exp.left, exp.right} => Moves(exp', env)]_vars
=============================================================================
