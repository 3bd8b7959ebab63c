---------------------------- MODULE ChannelList ----------------------------
(***************************************************************************)
(* The operations of driver.c on the list of (label value) pairs that is   *)
(* the default channel of rccs (channel_order = C_STACK), newest first.    *)
(* The list is immutable: every operation returns a new one.               *)
(***************************************************************************)
EXTENDS Integers, SequencesExt

CONSTANT Nil   \* the C null pointer

Msg(l, v) == [label |-> l, value |-> v]

(* lookup_ch1 with lookup1: the value of the first pair that carries the   *)
(* label, Nil when there is none.  No program runs under GDB here: with a  *)
(* target, lookup_ch1 asks for the value of a variable of that program and *)
(* does not look into the list at all.                                     *)
lookup_ch1(c, l) ==
  LET i == SelectInSeq(c, LAMBDA m : m.label = l)
  IN  IF i = 0 THEN Nil ELSE c[i].value

istrans_in_act(c, l) == lookup_ch1(c, l) # Nil

(* n_bound_ch: the new pair goes in front.                                 *)
n_bound_ch(c, l, v) == Cons(Msg(l, v), c)

(* Mutated form of delete: the newest pair goes, whichever it is.          *)
delete_Head(m, c) == IF c = <<>> THEN c ELSE Tail(c)

(* delete: the list without the first element that equals the pair.        *)
delete(m, c) == RemoveFirst(c, m)
=============================================================================
