---------------------------- MODULE MCMcHistory -----------------------------
EXTENDS McHistory
ScenesDef ==
  LET Scene(p, w, a, n) == [program |-> p, whole |-> w, acts |-> a, max |-> n]
      Straight == <<"main", "a", "b", "c">>
      Loop == <<"main", "a", "b", "a", "b">>
      Loose == {"send", "recv", "display", "visited", "leave"}
  IN  { Scene(p, TRUE, {"send", "recv"}, 3) : p \in {Straight, Loop} }
      \cup { Scene(Loop, TRUE, Loose, 3), Scene(<<"main", "a">>, FALSE, {"send", "recv"}, 2) }
=============================================================================
