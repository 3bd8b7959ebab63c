------------------------------- MODULE MCText -------------------------------
EXTENDS Reader

Reading == [st |-> "reading"]

(* A vocabulary whose phrases are single tokens, and the phrases that end  *)
(* a form.                                                                 *)
V(from, max, tokens, ends) ==
  [from |-> from, max |-> max, phrases |-> {<<t>> : t \in tokens} \cup ends]
MCVocabularies ==
  { V(<<"(", "~", "a", "(">>, 8, {"(", ")", "1", "+", "*"}, {<<")", ":", "b", ")">>}),
    V(<<"(", "a", "(">>, 5, {"x", "1", "+", "=", ",", "|"}, {<<")", ":", "b", ")">>}),
    V(<<"(", "if", "(">>, 6, {"(", "a", "+", "=", "&", "!"},
      {<<")", "a", "b", ")">>, <<")", "(", ")">>}),
    V(<<"(">>, 6, {"(", ")", "a", "b", "~", ":", "||"}, {<<"b", ")">>}),
    V(<<"(", "a">>, 7, {"[", "]", "{", "}", "b", "/", ",", "~", ")", "++"}, {}),
    V(<<"(">>, 6, {"define", "bind", "definit", "(", ")", "a", ",", "1"}, {<<"s", ")">>, <<"b", ")">>}),
    V(<<"(">>, 6, {"fix", "=", "(", ")", "a", "b", "true"}, {<<"fix", "(", "a", "=">>}) }
====
