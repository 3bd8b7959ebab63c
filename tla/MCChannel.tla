----------------------------- MODULE MCChannel -----------------------------
(* Instances of Channel for TLC: two labels of inner actions, two values,   *)
(* and at most three values written to every label.                         *)
EXTENDS Channel, TLC

Symmetric == Permutations(Label) \cup Permutations(Value)
=============================================================================
