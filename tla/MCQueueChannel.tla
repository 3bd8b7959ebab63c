--------------------------- MODULE MCQueueChannel ---------------------------
EXTENDS QueueChannel, TLC
(* Cells are interchangeable: cons() gives any that is vacant.             *)
Cells == Permutations(Cell)
=============================================================================
