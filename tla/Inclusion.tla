----------------------------- MODULE Inclusion ------------------------------
(***************************************************************************)
(* What `load' promises: a session is one text.  A form (load("f")) stands *)
(* for the forms of the file; what is defined stays defined, wherever the  *)
(* definition was written, until the program has to start over.            *)
(***************************************************************************)
EXTENDS Sequences

CONSTANT Texts       \* what a load can stand for: sequences of forms
VARIABLES text,      \* the forms that are still to come
          defined    \* names that are defined
vars == <<text, defined>>

Init == defined = {}

Defines(form) == form.op \in {"define", "definit"}

(* A form is taken from the front.  A load in the scope of a variable      *)
(* leaves the variable defined.                                            *)
Take == /\ text # <<>>
        /\ text' = Tail(text)
        /\ defined' = IF Defines(Head(text)) THEN defined \cup {Head(text).name} ELSE defined
Load == /\ text # <<>> /\ Head(text).op = "load"
        /\ \E t \in Texts : text' = t \o Tail(text)
        /\ defined' = defined \cup Head(text).scope

(* The stack is used up, or the end of a file comes in the middle of a     *)
(* form: the definitions are gone, what is still to come is not.           *)
StartOver == /\ text # <<>> /\ Head(text).op \in {"load", "open"}
             /\ \E t \in Texts : text' = t \o Tail(text)
             /\ defined' = {}

Next == Take \/ Load \/ StartOver
Spec == Init /\ [][Next]_vars
=============================================================================
