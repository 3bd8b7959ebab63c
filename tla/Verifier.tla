------------------------------ MODULE Verifier ------------------------------
(***************************************************************************)
(* The model checker of rccs (verifier.c) with the default channel and     *)
(* without a program under GDB: a nested depth-first search over the       *)
(* product of an agent expression and the automaton of an LTL formula,     *)
(* which is a set of definitions, too.                                     *)
(*                                                                         *)
(* The functions call each other and return; a state holds the arguments   *)
(* of the call that is about to run and the stack of those that wait, a    *)
(* step is one body up to the next call or return.  The two queues of      *)
(* visited states are global: every call gets pointers to their headers,   *)
(* q_append() changes them in place, and the queue that a function returns *)
(* is one of the two pointers.                                             *)
(***************************************************************************)
EXTENDS Product

CONSTANTS
  Forms,                \* what may be typed in: [exp, env, automaton]
  DEPTH_LIMIT,          \* 128 in the program
  MAX_COUNTEREXAMPLES,  \* 3 in the program
  MaxForms              \* bound of the model: the number of forms verified

ASSUME LimitsAssumption ==
  /\ DEPTH_LIMIT \in Nat \ {0} /\ MAX_COUNTEREXAMPLES \in Nat \ {0} /\ MaxForms \in Nat

VARIABLES
  form,         \* the form that is verified (initial_form)
  call,         \* the arguments of the call that is about to run, or NoCall
  stack,        \* the calls that wait for a result, innermost first
  result,       \* the queue that the last call returned
  queue,        \* the contents of the two queues: [first, second]
  g_emptyness, g_counter, g_step_exec,
  status,       \* "idle", "running", "returned", "warning", "fatal",
                \* "limit" (a warning, too), "driver" (quit), "diverged" (a
                \* loop in eval) or "undefined" (a jump into a function
                \* that has returned)
  forms,        \* the number of forms so far
  seen          \* history, per form: how many cycles and truncations were
                \* reported, whether a path was cut at DEPTH_LIMIT and
                \* whether an outer output was performed

search == <<call, stack, result, queue>>
globals == <<g_emptyness, g_counter, g_step_exec>>
vars == <<form, search, globals, status, forms, seen>>

(* A call is a record of the arguments, by their names in the program, and *)
(* a history: `root' is the whole that is searched.                        *)
NoCall == [fn |-> "none"]
DFS == {"firstDFS", "secondDFS"}
DFS2 == {"firstDFS2", "secondDFS2"}
First == {"firstDFS", "firstDFS2"}

Fulness(c) == IF c = Nil THEN Nil ELSE {c[i].label : i \in DOMAIN c}
istrans(e, c) == derivatives(e, Fulness(c))

make_current_state(c) == [exp |-> resume(c.exp, c.cont), aut |-> c.aut, ch |-> c.ch]

(* The queue that a call tests and appends to, and returns.                *)
Own(c) == IF c.fn \in First THEN "first" ELSE c.second
Visited(c) == make_current_state(c) \in queue[Own(c)]
-----------------------------------------------------------------------------
Idle == [cycles |-> 0, truncations |-> 0, cut |-> FALSE, outer |-> FALSE]

Init == /\ form = Nil /\ call = NoCall /\ stack = <<>> /\ result = "first"
        /\ queue = [first |-> {}, second |-> {}]
        /\ g_emptyness = FALSE /\ g_counter = 0 /\ g_step_exec = FALSE
        /\ status = "idle" /\ forms = 0 /\ seen = Idle

(* The call of firstDFS in verifier().                                     *)
Outermost(f) == [fn |-> "firstDFS", exp |-> f.exp, aut |-> f.automaton, env |-> f.env,
                 cont |-> Hole, ch |-> <<>>, second |-> "second", depth |-> 0,
                 sw |-> FALSE, root |-> CLS(f.exp, f.env)]

(* Mutated form: the answer to the last form stands.                       *)
Verify_KeepAnswer(f) ==
  /\ status \in {"idle", "returned", "warning", "limit"} /\ forms < MaxForms
  /\ form' = f /\ call' = Outermost(f) /\ stack' = <<>>
  /\ queue' = [first |-> {}, second |-> {}]
  /\ seen' = Idle
  /\ status' = "running" /\ forms' = forms + 1
  /\ UNCHANGED <<result, globals>>

(* verifier(): the queues are new, the counter of counterexamples is not.  *)
Verify(f) ==
  /\ status \in {"idle", "returned", "warning", "limit"} /\ forms < MaxForms
  /\ form' = f /\ call' = Outermost(f) /\ stack' = <<>>
  /\ queue' = [first |-> {}, second |-> {}]
  /\ g_emptyness' = FALSE /\ seen' = Idle
  /\ status' = "running" /\ forms' = forms + 1
  /\ UNCHANGED <<result, g_counter, g_step_exec>>

Stop(s) == /\ status' = s
           /\ UNCHANGED <<form, search, globals, forms, seen>>

Push(q, x) == queue' = [queue EXCEPT ![q] = @ \cup {x}]

(* return(..) with one of the queues.                                      *)
Return(q) == /\ call' = NoCall /\ result' = q
             /\ UNCHANGED <<form, stack, status, forms>>

(* A call in tail position.                                                *)
Goto(c) == /\ call' = c
           /\ UNCHANGED <<form, stack, result, g_emptyness, g_counter, status, forms>>

(* The whole that a step of the model leads to is searched from its root.  *)
Root(c, e) == [c EXCEPT !.exp = e, !.cont = Hole, !.root = e]

Running(fns) == status = "running" /\ call.fn \in fns

(* Mutated form: only the operand that was chosen is tested.               *)
Whole_Operand == istrans(call.exp, call.ch)

(* firstDFS and secondDFS begin with the test of the whole.                *)
Whole == istrans(resume(call.exp, call.cont), call.ch)
At(ops) == Running(DFS) /\ call.exp.op \in ops /\ Whole = "yes"

TestFails == /\ Running(DFS) /\ Whole \in {"warning", "fatal"}
             /\ Stop(Whole)

NoTransition ==
  /\ Running(DFS) /\ Whole = "no"
  /\ Goto([call EXCEPT !.fn = IF @ = "firstDFS" THEN "firstDFS2" ELSE "secondDFS2",
                       !.exp = resume(call.exp, call.cont), !.cont = Hole,
                       !.sw = FALSE, !.depth = DEPTH_LIMIT])
  /\ g_step_exec' = FALSE
  /\ UNCHANGED <<queue, seen>>

(* A prefix that is blocked, or whose state was visited.                   *)
Skip == /\ At({"RECV", "SEND"})
        /\ istrans(call.exp, call.ch) = "no" \/ Visited(call)
        /\ Return(Own(call))
        /\ UNCHANGED <<queue, globals, seen>>

Explore(op) == At({op}) /\ istrans(call.exp, call.ch) = "yes" /\ ~Visited(call)

(* A value that cannot be computed is a warning, except that a variable    *)
(* that is unbound while g_step_exec is still set jumps to a conditional   *)
(* of the automaton which has returned.                                    *)
Unbound == IF g_step_exec THEN "undefined" ELSE "warning"

(* n_recv() gives one value; which one makes no difference, since the      *)
(* search ends with the channel that an outer input leaves.                *)
Data == IF isouter_action(call.exp.label) THEN <<0>> ELSE lookup_ch1(call.ch, call.exp.label)

(* RECV: one step of the program and, by the switch, one of the automaton. *)
Receive(data) ==
  LET c == call
      env1 == n_boundls(c.exp.vars, data, c.env)
  IN  /\ env1 # Nil
      /\ Goto([Root(c, resume(make_cls(c.exp.body, env1), c.cont))
                 EXCEPT !.fn = IF @ = "firstDFS" THEN "firstDFS2" ELSE "secondDFS2",
                        !.sw = TRUE, !.depth = @ + 1,
                        !.ch = IF isouter_action(c.exp.label) THEN Nil
                               ELSE delete(Msg(c.exp.label, data), c.ch)])
      /\ g_step_exec' = TRUE
      /\ UNCHANGED <<queue, seen>>

Recv == Explore("RECV") /\ call.exp.label \notin BreakPoints /\ Receive(Data)

(* An input from a breakpoint violates an assertion.                       *)
NoTarget == Explore("RECV") /\ call.exp.label \in BreakPoints /\ Stop("fatal")

RecvFails == /\ Explore("RECV") /\ call.exp.label \notin BreakPoints
             /\ n_boundls(call.exp.vars, Data, call.env) = Nil
             /\ g_step_exec' \in {g_step_exec, TRUE}   \* the order of the arguments
             /\ status' = "warning"
             /\ UNCHANGED <<form, search, g_emptyness, g_counter, forms, seen>>

(* SEND: the automaton does not move.  An output on an outer label is      *)
(* remembered by the first search, with the expression as it stands.       *)
Output == evalval_ls(call.exp.vals, call.env)

Sent == LET c == call IN Root(c, resume(make_cls(c.exp.body, c.env), c.cont))

SendInner == /\ Explore("SEND") /\ ~isouter_action(call.exp.label) /\ Output # Nil
             /\ Goto([Sent EXCEPT !.ch = n_bound_ch(@, call.exp.label, Output)])
             /\ UNCHANGED <<queue, g_step_exec, seen>>

(* Mutated form: the state is not pushed, as in the second search.         *)
SendOuter_NoPush == /\ Explore("SEND") /\ isouter_action(call.exp.label) /\ Output # Nil
                    /\ call.exp.label \notin BreakPoints
                    /\ Goto(Sent)
                    /\ seen' = [seen EXCEPT !.outer = TRUE]
                    /\ UNCHANGED <<queue, g_step_exec>>

SendOuter == /\ Explore("SEND") /\ isouter_action(call.exp.label) /\ Output # Nil
             /\ call.exp.label \notin BreakPoints
             /\ Goto(Sent)
             /\ IF call.fn = "firstDFS" THEN Push("first", make_current_state(call))
                                        ELSE UNCHANGED queue
             /\ seen' = [seen EXCEPT !.outer = TRUE]
             /\ UNCHANGED g_step_exec

SendFails == /\ Explore("SEND")
             /\ \/ Output = Nil /\ Stop(Unbound)
                \/ Output # Nil /\ call.exp.label \in BreakPoints /\ Stop("warning")

(* SUM and COM: first the left operand; the right one waits.               *)
Fork == /\ At({"SUM", "COM"})
        /\ LET c == call
               To(side, e) == [c EXCEPT !.exp = e,
                                 !.cont = IF c.exp.op = "SUM" THEN @
                                          ELSE make_cont(side, c.exp, @, c.env)]
           IN  /\ call' = To("LEFT", c.exp.left)
               /\ stack' = Cons([kind |-> "right", call |-> To("RIGHT", c.exp.right)], stack)
        /\ UNCHANGED <<form, result, queue, globals, status, forms, seen>>

If == /\ At({"IF"})
      /\ LET v == evalval(call.exp.cond, call.env)
         IN  /\ v # Nil
             /\ Goto([call EXCEPT !.exp = IF v # 0 THEN call.exp.then ELSE call.exp.else])
      /\ UNCHANGED <<queue, g_step_exec, seen>>

IfFails == At({"IF"}) /\ evalval(call.exp.cond, call.env) = Nil /\ Stop(Unbound)

Open == /\ At({"CLS"})
        /\ Goto([call EXCEPT !.exp = call.exp.body, !.env = call.exp.env])
        /\ UNCHANGED <<queue, g_step_exec, seen>>

(* CON stop, or abort: both searches return the queue of the first one.    *)
ConStop == /\ At({"CON"}) /\ isstop(call.exp.name)
           /\ Return("first")
           /\ UNCHANGED <<queue, globals, seen>>

Arguments == evalval_ls(call.exp.args, call.env)

Primitive == /\ At({"CON"}) /\ isprimagnt(call.exp.name)
             /\ Stop(IF Arguments = Nil THEN Unbound ELSE "driver")

Defined == At({"CON"}) /\ ~isstop(call.exp.name) /\ ~isprimagnt(call.exp.name)

Callee == IF Arguments = Nil \/ call.exp.name \notin DOMAIN Procs THEN Nil
          ELSE n_boundls(Procs[call.exp.name].params, Arguments, call.env)

Unfold == /\ Defined /\ Callee # Nil
          /\ Goto(Root(call, resume(make_cls(Procs[call.exp.name].body, Callee), call.cont)))
          /\ UNCHANGED <<queue, g_step_exec, seen>>

UnfoldFails ==
  /\ Defined /\ Callee = Nil
  /\ Stop(IF call.exp.name \in DOMAIN Procs /\ Arguments = Nil THEN Unbound ELSE "warning")
-----------------------------------------------------------------------------
(* A counterexample, or a truncated path under the weak acceptance         *)
(* condition.  The last one within the limit leaves the search.            *)
Report(kind) ==
  /\ g_emptyness' = TRUE
  /\ seen' = [seen EXCEPT ![kind] = @ + 1]
  /\ IF g_counter + 1 < MAX_COUNTEREXAMPLES
     THEN g_counter' = g_counter + 1 /\ Return(Own(call))
     ELSE /\ g_counter' = 0 /\ status' = "limit"
          /\ UNCHANGED <<form, call, stack, result, forms>>
  /\ UNCHANGED <<queue, g_step_exec>>

(* firstDFS2 and secondDFS2 with sw == FALSE.                              *)
Limited == Running(DFS2) /\ ~call.sw /\ call.depth >= DEPTH_LIMIT
Below   == Running(DFS2) /\ ~call.sw /\ call.depth < DEPTH_LIMIT

Truncate == Limited /\ ACC_WEAKLY /\ Report("truncations")

GiveUp == /\ Limited /\ ~ACC_WEAKLY
          /\ Return(Own(call))
          /\ UNCHANGED <<queue, globals, seen>>

Stays == Aborts(call.aut) \/ (call.fn = "secondDFS2" /\ Visited(call))

Back == /\ Below /\ Stays
        /\ Return(Own(call))
        /\ UNCHANGED <<queue, globals, seen>>

Proceed == /\ Below /\ ~Stays
           /\ call.fn = "secondDFS2" \/ ~isaccept(call.aut)
           /\ Goto([call EXCEPT !.fn = IF @ = "firstDFS2" THEN "firstDFS" ELSE "secondDFS",
                                !.aut = Body(@)])
           /\ UNCHANGED <<queue, g_step_exec, seen>>

(* An accepting state: the first search below it, then the second one.     *)
Accept ==
  /\ Below /\ call.fn = "firstDFS2" /\ isaccept(call.aut)
  /\ LET below == [call EXCEPT !.fn = "firstDFS", !.aut = Body(@)]
     IN  /\ call' = below
         /\ stack' = Cons([kind |-> "accept", call |-> [below EXCEPT !.fn = "secondDFS"],
                           seed |-> make_current_state(call)], stack)
  /\ UNCHANGED <<form, result, queue, globals, status, forms, seen>>

-----------------------------------------------------------------------------
(* firstDFS2 and secondDFS2 with sw == TRUE: the automaton makes its step. *)
Tmp == eval_step(call.aut, call.env)
New == [call EXCEPT !.aut = Tmp, !.sw = FALSE]

StepFails ==
  /\ Running(DFS2) /\ call.sw
  /\ \/ Tmp.op \in {"warning", "diverged"} /\ Stop(Tmp.op)
     \/ Tmp.op \notin {"warning", "diverged"} /\ call.ch = Nil /\ Stop("fatal")

Steps(fn) == /\ Running({fn}) /\ call.sw /\ call.ch # Nil
             /\ Tmp.op \notin {"warning", "diverged"}

(* Mutated forms: states of different nodes of the automaton are the same; *)
(* the second search looks for a cycle in its own queue.                   *)
Met_NoAutomaton == \E s \in queue.first : [s EXCEPT !.aut = Tmp] = make_current_state(New)
Met_Own == make_current_state(New) \in queue[Own(call)]

Met == make_current_state(New) \in queue.first

Revisit == /\ Steps("firstDFS2") /\ Met
           /\ Return("first")
           /\ UNCHANGED <<queue, globals, seen>>

Cycle == Steps("secondDFS2") /\ Met /\ Report("cycles")

on_stack(q) == Push(q, make_current_state(New))

Enter(fn) == /\ Steps(fn) /\ ~Met
             /\ on_stack(Own(call))
             /\ Goto(New)
             /\ g_step_exec' = FALSE
             /\ seen' = [seen EXCEPT !.cut = @ \/ (fn = "firstDFS2" /\ call.depth >= DEPTH_LIMIT)]

-----------------------------------------------------------------------------
(* A call has returned to the one that waits for it.                       *)
Waiting(kind) == status = "running" /\ call = NoCall /\ stack # <<>> /\ Head(stack).kind = kind

Right == /\ Waiting("right")
         /\ call' = [Head(stack).call EXCEPT !.second = IF Head(stack).call.fn = "secondDFS"
                                                        THEN result ELSE @]
         /\ stack' = Tail(stack)
         /\ UNCHANGED <<form, result, queue, globals, status, forms, seen>>

Second == /\ Waiting("accept")
          /\ call' = Head(stack).call
          /\ stack' = Cons([kind |-> "drop"], Tail(stack))
          /\ Push("second", Head(stack).seed)
          /\ UNCHANGED <<form, result, globals, status, forms, seen>>

(* firstDFS2 drops the result of the second search.                        *)
Drop == /\ Waiting("drop")
        /\ result' = "first" /\ stack' = Tail(stack)
        /\ UNCHANGED <<form, call, queue, globals, status, forms, seen>>

End == /\ status = "running" /\ call = NoCall /\ stack = <<>>
       /\ status' = "returned"
       /\ UNCHANGED <<form, search, globals, forms, seen>>

Search ==
  \/ TestFails \/ NoTransition \/ Skip
  \/ Recv \/ NoTarget \/ RecvFails \/ SendInner \/ SendOuter \/ SendFails
  \/ Fork \/ If \/ IfFails \/ Open
  \/ ConStop \/ Primitive \/ Unfold \/ UnfoldFails
  \/ Truncate \/ GiveUp \/ Back \/ Proceed \/ Accept
  \/ StepFails \/ Revisit \/ Cycle \/ Enter("firstDFS2") \/ Enter("secondDFS2")
  \/ Right \/ Second \/ Drop \/ End

Next == Search \/ \E f \in Forms : Verify(f)

Spec == Init /\ [][Next]_vars

(* One thread that runs until verifier() returns.                          *)
FairSpec == Spec /\ WF_vars(Search)
-----------------------------------------------------------------------------
Complete == status = "returned" /\ ~seen.cut

(* When the search returns, the first queue holds only what the program    *)
(* and the automaton can enter and, if no path was cut, all of it: pruning,*)
(* continuations and backtracking neither lose nor invent a state (outer   *)
(* outputs, which have entries of their own in the queue, are left out).   *)
Explored ==
  status = "returned" /\ ~seen.outer =>
    \E entered \in {Entered(form)} :
      LET found == {NodeOf(s.exp, s.aut, s.ch) : s \in queue.first}
      IN  found \subseteq entered /\ (seen.cut \/ found = entered)

(* The answer: TRUE only for an accepting node with one more input ahead   *)
(* or, under the weak condition, a node from which the program comes to a  *)
(* halt or a path that was cut; and for every one if no path was cut.      *)
Halts(n) == ~Aborts(n.aut) /\ \E s \in Silently({n}, {n}) : Stuck(s)
Acceptable(entered, f) ==
  \/ \E n \in entered : isaccept(n.aut) /\ Successors(n) # {}
  \/ ACC_WEAKLY /\ \E n \in entered \cup {Start(f)} : Halts(n)
Verdict ==
  status = "returned" =>
    \E entered \in {Entered(form)} : \E right \in {Acceptable(entered, form)} :
      \/ g_emptyness = right
      \/ seen.cut /\ (g_emptyness => ACC_WEAKLY)

(* A counterexample is a computation on which the automaton accepts for    *)
(* ever: what the answer TRUE means in the manual.                         *)
TrueMeansCycle == (Complete /\ g_emptyness /\ ~ACC_WEAKLY) => AcceptingCycle(form)

(* Such a computation is not missed.                                       *)
NothingMissed == (Complete /\ AcceptingCycle(form)) => g_emptyness

(* A path is ended for want of a transition only when the program, in the  *)
(* state that is searched, has none.                                       *)
TruncatedOnlyWhenStuck ==
  (Running(DFS) /\ Whole = "no") => Stuck(NodeOf(call.root, call.aut, call.ch))

(* "Terminate by the limit on the number of counterexample" is written     *)
(* after that many counterexamples of the form.                            *)
LimitOfThisForm == status = "limit" => seen.cycles + seen.truncations >= MAX_COUNTEREXAMPLES

(* One input takes the automaton to one of its nodes, not into the middle  *)
(* of its guards.                                                          *)
StepReachesNode == (Running(DFS2) /\ call.sw) => Tmp.op # "IF"

(* An unbound variable in a guard selects a branch; the step ends.         *)
StepEnds == status # "diverged"

(* The flag that lets an unbound variable jump is set for the automaton's  *)
(* step only, so that no jump goes into a function that has returned.      *)
NoStaleJump == status # "undefined"

(* Every search ends: the form is answered.                                *)
SearchEnds == (status = "running") ~> (status # "running")
=============================================================================
