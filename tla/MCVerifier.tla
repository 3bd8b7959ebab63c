---------------------------- MODULE MCVerifier -----------------------------
(* Programs and formulas on which TLC runs Verifier.  The automata are      *)
(* those that the translator writes for the formulas, with other names for  *)
(* the nodes.                                                               *)
EXTENDS Verifier, TLC

In(l, xs, k)  == RECV(l, xs, k)
Out(l, es, k) == SEND(l, es, k)
stop == CON("stop", <<>>)
Agent(n) == CON(n, <<>>)
x == Id("x")
y == Id("y")
w == Id("w")
accept(k) == In("accept", <<>>, k)
Abort == Agent("abort")
Def(k) == [params |-> <<>>, body |-> k]

MCProcs ==
  [\* <>(x=1)
   Ev0 |-> Def(IF3(Eq(x, Lit(1)), accept(Agent("Ev2")), Agent("Ev1"))),
   Ev1 |-> Def(IF3(Eq(x, Lit(1)), accept(Agent("Ev2")), Agent("Ev1"))),
   Ev2 |-> Def(accept(Abort)),
   \* []<>(x=1)
   Inf0 |-> Def(IF3(Eq(x, Lit(1)), accept(Agent("Inf2")), Agent("Inf1"))),
   Inf1 |-> Def(IF3(Eq(x, Lit(1)), accept(Agent("Inf2")), Agent("Inf1"))),
   Inf2 |-> Def(IF3(Eq(x, Lit(1)), accept(Agent("Inf2")), Agent("Inf1"))),
   \* [](x=0)
   Alw0 |-> Def(IF3(Eq(x, Lit(0)), accept(Agent("Alw1")), Abort)),
   Alw1 |-> Def(IF3(Eq(x, Lit(0)), accept(Agent("Alw1")), Abort)),
   \* (x=0) U (y=1)
   Unt0 |-> Def(IF3(Eq(x, Lit(0)), Agent("Unt1"), IF3(Eq(y, Lit(1)), accept(Agent("Unt2")), Abort))),
   Unt1 |-> Def(IF3(Eq(x, Lit(0)), Agent("Unt1"), IF3(Eq(y, Lit(1)), accept(Agent("Unt2")), Abort))),
   Unt2 |-> Def(accept(Abort)),
   \* <>(x=1) /\ <>(y=1), its first node
   And0 |-> Def(IF3(Eq(y, Lit(1)), Agent("Ev1"),
                    IF3(Eq(x, Lit(1)), Agent("Ev1"),
                        IF3(Eq(x, y), Agent("Ev1"), Agent("And0"))))),
   \* programs
   P  |-> Def(Out("a", <<>>, Agent("P"))),
   Q  |-> Def(In("a", <<>>, Agent("Q"))),
   L  |-> Def(Out("display", <<Lit(0)>>, Agent("L"))),
   Cell |-> [params |-> <<"x">>,
             body   |-> SUM(In("a", <<"y">>, CON("Cell", <<y>>)), Out("b", <<x>>, stop))],
   W  |-> Def(Out("a", <<Lit(0)>>, In("a", <<"x">>, Agent("W"))))]

Binding(vs) == [i \in DOMAIN vs |-> [var |-> vs[i], val |-> 0]]
FormsOf(programs, automata) ==
  {[exp |-> p, env |-> Binding(<<"x", "y">>), automaton |-> Agent(a)] : p \in programs, a \in automata}

RECURSIVE Sends(_, _, _), Reads(_, _)
Sends(l, vs, k) == IF vs = <<>> THEN k ELSE Out(l, <<Lit(Head(vs))>>, Sends(l, Tail(vs), k))
Reads(l, xs) == IF xs = <<>> THEN stop ELSE In(l, <<Head(xs)>>, Reads(l, Tail(xs)))

Loop == COM(Agent("P"), Agent("Q"))

(* Without sums: values that change, processes that appear under a prefix,  *)
(* a conditional, two receivers of one message, one that waits for ever,    *)
(* and two that reach the same place with different states of the automaton.*)
Plain ==
  {Loop,
   COM(Loop, COM(Out("b", <<Lit(1)>>, stop), In("b", <<"x">>, stop))),
   COM(Sends("a", <<1, 0, 1>>, stop), Reads("a", <<"x", "x", "x">>)),
   COM(Sends("a", <<1, 0>>, stop), In("a", <<"x">>, COM(In("a", <<"y">>, stop), stop))),
   COM(Sends("a", <<1, 1>>, stop), COM(Reads("a", <<"x">>), Reads("a", <<"y", "x">>))),
   COM(Out("a", <<Lit(1)>>, stop),
       In("a", <<"x">>, IF3(Eq(x, Lit(1)), COM(Out("b", <<x>>, stop), In("b", <<"y">>, stop)), stop))),
   COM(Out("a", <<Lit(0)>>, stop), COM(In("a", <<"y">>, stop), In("b", <<"y">>, stop))),
   COM(Out("a", <<Lit(1)>>, Out("b", <<>>, Out("c", <<>>, stop))),
       COM(In("a", <<"x">>, In("b", <<>>, stop)), In("c", <<>>, stop)))}

Sums ==
  {COM(SUM(Out("a", <<Lit(0)>>, stop), Out("a", <<Lit(1)>>, stop)),
       In("a", <<"x">>, COM(Sends("b", <<0, 0>>, stop), Reads("b", <<"y", "y">>)))),
   COM(CON("Cell", <<Lit(1)>>), COM(Out("a", <<Lit(0)>>, stop), In("b", <<"x">>, stop))),
   COM(SUM(COM(In("b", <<>>, stop), Out("a", <<>>, stop)), In("a", <<>>, stop)), Loop)}

(* A process that aborts does not end the search, which goes back from it.  *)
Aborting ==
  {COM(Sends("a", <<1, 0>>, stop), In("a", <<"x">>, COM(Abort, In("a", <<"x">>, stop)))),
   COM(Loop, In("b", <<"x">>, Abort))}

Formulas == {"Ev0", "Inf0", "Alw0", "Unt0"}
StrongForms == FormsOf(Plain \cup Sums \cup Aborting, Formulas)

(* Loops of inputs and of outer outputs: what a search must not repeat.     *)
LiveForms == FormsOf({Agent("L"), Agent("W"), Out("a", <<>>, In("a", <<>>, Agent("L"))), Loop}, {"Ev0"})
             \cup FormsOf({Agent("W")}, {"Alw0", "Unt0"})

(* Ill-formed programs and inputs from the user, each followed by a form    *)
(* whose answer is known.                                                   *)
Faulty ==
  {COM(Out("a", <<w>>, stop), stop),
   COM(Loop, COM(Loop, Out("b", <<w>>, stop))),
   IF3(Eq(w, Lit(0)), stop, stop),
   COM(Loop, IF3(Eq(w, Lit(0)), stop, stop)),
   COM(Out("a", <<Lit(0)>>, stop), In("a", <<>>, stop)),
   In("key", <<"x">>, stop),
   COM(Loop, In("key", <<"x", "y">>, stop)),
   COM(Loop, In("line", <<"x">>, stop)),
   COM(Loop, Out("line", <<Lit(0)>>, stop)),
   CON("quit", <<>>),
   CON("quit", <<w>>),
   COM(Loop, Agent("abortion")),
   CON("Cell", <<w>>),
   CON("Cell", <<>>),
   COM(Loop, Agent("nobody")),
   COM(In("b", <<>>, stop), Agent("nobody"))}

FaultyForms ==
  FormsOf(Faulty \cup {Loop}, {"Ev0"}) \cup FormsOf({Loop}, {"Alw0"})
    \cup {[exp |-> COM(Loop, CON("Cell", <<Lit(0)>>)), env |-> <<>>, automaton |-> Agent("Unt0")]}

AgainForms == LiveForms \cup FaultyForms \cup FormsOf(Plain, {"Ev0", "Inf0", "Alw0"})

(* Three inputs and then nothing.                                           *)
FiniteForms == FormsOf({COM(Sends("a", <<1, 1, 1>>, stop), Reads("a", <<"x", "x", "x">>))}, {"Ev0"})

(* The left operand of a sum is blocked, the right one is not.              *)
SumForms == FormsOf({COM(SUM(In("a", <<>>, stop), In("b", <<>>, stop)), Out("b", <<>>, stop))}, {"Ev0"})

(* One input and then outer outputs for ever.                               *)
OuterForms == FormsOf({Out("a", <<>>, In("a", <<>>, Agent("L")))}, {"Alw0"})

(* One process sends 0 or 1; its receiver writes to the display and goes on *)
(* reading for ever.                                                        *)
StaleForms ==
  FormsOf({COM(SUM(Out("a", <<Lit(0)>>, stop), Out("a", <<Lit(1)>>, stop)),
               In("a", <<"x">>, Out("display", <<Lit(0)>>, COM(Agent("P"), Agent("Q")))))}, {"Inf0"})

(* Three guards in a row.                                                   *)
GuardForms == FormsOf({COM(Sends("a", <<1, 0>>, stop), Reads("a", <<"x", "x">>))}, {"And0"})

(* Both variables of the guards are unbound.                                *)
UnboundForms == {[exp |-> Loop, env |-> <<>>, automaton |-> Agent("Unt0")]}

(* A process whose output is unbound, after a loop has been closed.         *)
JumpForms == FormsOf({COM(Loop, Out("b", <<w>>, stop))}, {"Ev0"})
=============================================================================
