-------------------------------- MODULE MCGc --------------------------------
(* Instances of Gc for TLC: three or four cells and two or three           *)
(* collections.                                                            *)
EXTENDS Gc, TLC

Symmetric == Permutations(Cell)
=============================================================================
