----------------------------- MODULE CellQueue -----------------------------
(***************************************************************************)
(* The other channel of rccs (channel_order = C_QUEUE, option -q): a queue *)
(* of cells that is changed in place.  The header cell keeps the first     *)
(* cell of the buffer in its car and the last one in its cdr; a heap maps  *)
(* every cell to its message and to the next cell.  A queue q is the       *)
(* record of the header and the heap; Null stands for the empty list, a    *)
(* vacant cell, and the C null pointer.                                    *)
(***************************************************************************)
EXTENDS Naturals, Sequences, FiniteSets, FiniteSetsExt

CONSTANTS Cell,   \* the cells of buffers
          Null
ASSUME CellsAreFew == IsFiniteSet(Cell)
ASSUME NullIsNoCell == Null \notin Cell

make_que == [car |-> Null, cdr |-> Null,
             next |-> [c \in Cell |-> Null], msg |-> [c \in Cell |-> Null]]
isempty_que(q) == q.car = Null

(* The functions below call themselves with the next cell until they meet  *)
(* what they look for: Walk(q, c)[n] is the cell of the n-th call, Null    *)
(* from the end of the list on.                                            *)
Walk(q, c) ==
  LET w[n \in 0 .. Cardinality(Cell)] ==
        IF n = 0 THEN c ELSE IF w[n - 1] = Null THEN Null ELSE q.next[w[n - 1]]
  IN  w
Buffer(q) ==
  LET w == Walk(q, q.car)
  IN  [i \in 1 .. Cardinality({n \in DOMAIN w : w[n] # Null}) |-> w[i - 1]]

set_cdr(q, c, d) == [q EXCEPT !.next[c] = d]

(* enque1 walks to the last cell of the buffer.                            *)
enque1(q, buf, c) ==
  LET w    == Walk(q, buf)
      last == Min({n \in DOMAIN w : w[n] # Null /\ q.next[w[n]] = Null})
  IN  set_cdr(q, w[last], c)

(* Mutated form: the new cell is hung on the first one.                    *)
enque_First(q, m, c) ==
  LET new == [q EXCEPT !.msg[c] = m, !.next[c] = Null] IN
  IF isempty_que(q) THEN [new EXCEPT !.car = c, !.cdr = c]
  ELSE [set_cdr(new, q.car, c) EXCEPT !.cdr = c]

(* cons() makes the cell c of the message m.                               *)
enque(q, m, c) ==
  LET new == [q EXCEPT !.msg[c] = m, !.next[c] = Null] IN
  IF isempty_que(q) THEN [new EXCEPT !.car = c, !.cdr = c]
  ELSE [enque1(new, q.car, c) EXCEPT !.cdr = c]
q_append(q, m, c) == enque(q, m, c)

deque(q) == LET front == q.next[q.car]
            IN  IF isempty_que(q) THEN q
                ELSE [q EXCEPT !.car = front, !.cdr = IF front = Null THEN Null ELSE @]

q_front(q) == q.msg[q.car]

(* The first message with label l from cell buf on.                        *)
q_first1(q, buf, l) ==
  LET w == Walk(q, buf)
      n == Min({k \in DOMAIN w : w[k] = Null \/ q.msg[w[k]].label = l})
  IN  IF w[n] = Null THEN Null ELSE q.msg[w[n]]
q_first(q, l) == IF q_front(q).label = l THEN q_front(q) ELSE q_first1(q, q.next[q.car], l)

(* previous is the cell before buf, and walks along.  Mutated form: the    *)
(* end of the queue is not moved when its last cell goes.                  *)
q_remove1_End(q, buf, m, previous) ==
  LET w == Walk(q, buf)
      n == Min({k \in DOMAIN w : w[k] = Null \/ q.msg[w[k]] = m})
  IN  IF w[n] = Null THEN q ELSE set_cdr(q, Walk(q, previous)[n], q.next[w[n]])

q_remove1(q, buf, m, previous) ==
  LET w == Walk(q, buf)
      n == Min({k \in DOMAIN w : w[k] = Null \/ q.msg[w[k]] = m})
      p == Walk(q, previous)[n]
  IN  IF w[n] = Null THEN q
      ELSE IF q.next[w[n]] = Null THEN [set_cdr(q, p, Null) EXCEPT !.cdr = p]
      ELSE set_cdr(q, p, q.next[w[n]])

q_remove(q, m) ==
  IF isempty_que(q) THEN q
  ELSE IF q_front(q) = m THEN deque(q)
  ELSE q_remove1(q, q.next[q.car], m, q.car)

(* The test and the lookup of the evaluator and the verifier.              *)
lookup_ch1(q, l) ==
  IF isempty_que(q) \/ q_first(q, l) = Null THEN Null ELSE q_first(q, l).value
istrans_in_act(q, l) == lookup_ch1(q, l) # Null
=============================================================================
