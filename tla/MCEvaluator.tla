---------------------------- MODULE MCEvaluator ----------------------------
(* Programs on which TLC runs Evaluator; a comment says what each exercises.*)
EXTENDS Evaluator, TLC

In(l, xs, k)  == RECV(l, xs, k)
Out(l, es, k) == SEND(l, es, k)
stop == CON("stop", <<>>)
x == Id("x")
y == Id("y")

MCLabel == {"a", "b", "c"}
MCInput == {<<0>>, <<1>>}

MCProcs ==
  [Producer |-> [params |-> <<>>,
                 body   |-> Out("a", <<Lit(0)>>, Out("a", <<Lit(1)>>, CON("Producer", <<>>)))],
   Relay    |-> [params |-> <<>>,
                 body   |-> In("a", <<"x">>, Out("b", <<x>>, CON("Relay", <<>>)))],
   Consumer |-> [params |-> <<>>,
                 body   |-> In("b", <<"x">>, Out("display", <<x>>, CON("Consumer", <<>>)))],
   Cell     |-> [params |-> <<"x">>,
                 body   |-> SUM(In("a", <<"y">>, CON("Cell", <<y>>)),
                                Out("b", <<x>>, CON("Cell", <<x>>)))],
   Client   |-> [params |-> <<"y">>,
                 body   |-> Out("a", <<y>>, In("b", <<"x">>, Out("display", <<x, y>>, stop)))],
   Caller   |-> [params |-> <<>>,
                 body   |-> Out("display", <<x>>, stop)]]

(* Three loops in a row, composed to the left.                              *)
Pipeline == COM(COM(CON("Producer", <<>>), CON("Relay", <<>>)), CON("Consumer", <<>>))

(* The same variable in processes on both sides, parallel compositions that *)
(* appear under a prefix, and a message that carries two values.            *)
Scopes == COM(In("a", <<"x", "y">>,
                 COM(Out("b", <<x>>, Out("display", <<x>>, stop)),
                     In("c", <<"x">>, Out("display", <<x, y>>, stop)))),
              COM(Out("a", <<Lit(0), Lit(1)>>, stop),
                  In("b", <<"x">>, Out("c", <<Lit(2)>>, Out("display", <<x>>, stop)))))

(* A memory cell that is a sum, and two clients.                            *)
Memory == COM(CON("Cell", <<Lit(0)>>), COM(CON("Client", <<Lit(1)>>), CON("Client", <<Lit(2)>>)))

(* Conditions, and a constant that reads a variable of its caller.          *)
Dynamic == COM(In("a", <<"x">>, IF3(Eq(x, Lit(1)), CON("Caller", <<>>), In("b", <<>>, stop))),
               IF3(Eq(Lit(0), Lit(0)), Out("a", <<Lit(1)>>, stop), Out("a", <<Lit(0)>>, stop)))

(* Processes that wait for each other, one of them a sum.                   *)
Blocked == COM(SUM(In("a", <<"x">>, Out("b", <<x>>, stop)), In("c", <<>>, stop)),
               COM(In("b", <<"y">>, Out("a", <<y>>, stop)), COM(stop, In("c", <<>>, stop))))

(* accept, abort and quit beside other processes.                           *)
Accepting == COM(In("accept", <<>>, COM(Out("a", <<>>, stop), In("accept", <<>>, stop))),
                 In("a", <<>>, Out("display", <<>>, stop)))
Aborting == COM(Out("a", <<Lit(0)>>, stop), In("a", <<"x">>, CON("abortion", <<>>)))
Quitting == COM(In("a", <<>>, stop), COM(CON("quit", <<>>), stop))

MCPrograms == {Pipeline, Scopes, Memory, Dynamic, Blocked, Accepting, Aborting, Quitting}

(* Ill-formed programs: an unbound variable in an output and in a condition,*)
(* messages, calls and tests with a wrong number of values, no definition,  *)
(* a breakpoint without a program under GDB.                                *)
IllFormed ==
  {COM(Out("a", <<x>>, stop), In("a", <<"x">>, stop)),
   IF3(Eq(x, Lit(0)), stop, stop),
   COM(Out("a", <<Lit(0)>>, stop), In("a", <<>>, stop)),
   CON("Cell", <<>>),
   CON("Cell", <<Lit(0), Lit(1)>>),
   COM(In("c", <<>>, stop), CON("Nobody", <<>>)),
   COM(stop, CON("quit", <<x>>)),
   COM(Out("a", <<Lit(0)>>, stop), Out("line", <<Lit(0)>>, stop)),
   COM(In("a", <<"x">>, stop), In("line", <<"x">>, stop))}

(* A process that reads from the user, before and after it communicates,    *)
(* and with a message in transit.                                           *)
Keyed == {In("key", <<"x">>, Out("display", <<x>>, stop)),
          In("key", <<"x", "y">>, Out("display", <<x, y>>, stop)),
          COM(Out("a", <<Lit(0)>>, stop), In("a", <<"y">>, In("key", <<"x">>, Out("display", <<x, y>>, stop)))),
          COM(In("key", <<"x">>, Out("a", <<x>>, stop)), In("a", <<"y">>, Out("display", <<y>>, stop))),
          COM(Out("a", <<Lit(0)>>, stop), COM(In("key", <<"x">>, stop), In("a", <<"y">>, stop)))}

AllPrograms == MCPrograms \cup IllFormed \cup Keyed

(* A sum whose left operand is a conditional with a blocked branch.         *)
Conditional == {COM(Out("a", <<Lit(0)>>, stop),
                    SUM(IF3(Eq(Lit(0), Lit(1)), Out("display", <<>>, stop), In("b", <<>>, stop)),
                        In("a", <<"x">>, Out("display", <<x>>, stop))))}

(* Typings for the closed programs: the constants, and what labels carry.  *)
Typing(names, a, b, c) ==
  [carries |-> [a |-> a, b |-> b, c |-> c],
   needs   |-> [n \in names |-> IF n = "Caller" THEN {"x"} ELSE {}]]

MCTypings == {Typing(DOMAIN MCProcs, 1, 1, 0), Typing({"Caller"}, 1, 0, 0),
              Typing({}, 2, 1, 1), Typing({}, 0, 0, 0)}

ASSUME ClosedPrograms ==
  \A p \in AllPrograms : p \in MCPrograms <=> \E t \in MCTypings : ClosedUnder(t, p)
=============================================================================
