---------------------------- MODULE MessageMedia ----------------------------
(***************************************************************************)
(* What the message medium of rccs promises to the processes that share    *)
(* it, whatever list implements it: one register per channel label.  An    *)
(* output action fills an empty register, an input action empties a full   *)
(* one, and nothing else happens to a register.                            *)
(*                                                                         *)
(* Channel is shown to implement it, and Processes, which Evaluator        *)
(* implements, is built on it.                                             *)
(***************************************************************************)
CONSTANTS
  Label,    \* the channel labels (inner actions) of a program
  Value,    \* the values that are transmitted
  Empty     \* the contents of a register that holds no message

VARIABLE slot   \* the register of every label

TypeOK == slot \in [Label -> Value \cup {Empty}]

Init == slot = [l \in Label |-> Empty]

(* An output action blocks while the register is full. *)
Write(l, v) == /\ slot[l] = Empty
               /\ slot' = [slot EXCEPT ![l] = v]

(* An input action blocks while the register is empty. *)
Read(l) == /\ slot[l] # Empty
           /\ slot' = [slot EXCEPT ![l] = Empty]

Next == \E l \in Label : Read(l) \/ \E v \in Value : Write(l, v)

Spec == Init /\ [][Next]_slot
=============================================================================
