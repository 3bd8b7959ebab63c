----------------------------- MODULE MCSession ------------------------------
EXTENDS Session
F(op) == [op |-> op, name |-> "", to |-> "", number |-> 0, path |-> <<>>, scope |-> {}]
Def(n) == [F("define") EXCEPT !.name = n]
Var(n) == [F("definit") EXCEPT !.name = n]
Net(n, to) == [F("bind") EXCEPT !.name = n, !.to = to]
Line(n, line) == [F("bind") EXCEPT !.name = n, !.to = "target", !.number = line]
Call(n, number) == [F("bind") EXCEPT !.name = n, !.to = "syscall", !.number = number]
Load(path, scope) == [F("load") EXCEPT !.path = path, !.scope = scope]

MCPrimitive == {"key", "display"}
(* Files in two directories that load each other, one that loads itself,   *)
(* and one that ends in the middle of a form.                              *)
MCFileSystem == (<<"main">> :> <<Def("P"), Load(<<"lib", "b">>, {}), Def("Q")>>) @@
                (<<"lib", "b">> :> <<Load(<<"c">>, {"x"}), Net("l", "client"), Def("R")>>) @@
                (<<"lib", "c">> :> <<Var("v"), Net("l", "server"), F("agent")>>) @@
                (<<"self">> :> <<Def("S"), Load(<<"self">>, {})>>) @@
                (<<"cut">> :> <<Def("P"), F("open")>>)
Typed == {Load(<<"main">>, {}), Load(<<"lib", "b">>, {"y"}), Load(<<"self">>, {}), Load(<<"cut">>, {}),
          Load(<<"none", "n">>, {}), Load(<<"n">>, {}), Def("P"), Line("l", 7), Call("m", 3),
          Net("m", "client"), Net("l", "nowhere"), Net("key", "server"),
          F("agent"), F("quit"), F("fatal"), F("open")}
MCSessions == UNION {[1 .. n -> Typed] : n \in 0 .. 3}
=============================================================================
