--------------------------------- MODULE Gc ---------------------------------
(***************************************************************************)
(* The cell heap of rccs (list.c) and its collector (gc.c): a tri-colour   *)
(* mark and sweep that stops the program, started by cons() when the free  *)
(* list is empty and by explicit calls between forms and between branches  *)
(* of the verifier.  A program step is one call of a list primitive; one   *)
(* step of the collector is one turn of one of its loops.                  *)
(*                                                                         *)
(* Between two collections the program already prepares the next one:      *)
(* maintain_reg() puts every cell it is handed in a register, and greys    *)
(* and stacks the cell the register held.                                  *)
(*                                                                         *)
(* The mark stack, which the code threads through the `ref' fields, is a   *)
(* sequence with its top first; the free list is the set of its cells.     *)
(***************************************************************************)
EXTENDS Naturals, Sequences

CONSTANTS
  Cell,    \* the cells of the heap area
  Eps,     \* the statically allocated cell `epsilon', the empty list
  Queues,  \* channel_order = C_QUEUE: only queues rewrite the cells they consist of
  MaxGc    \* bound of the model: the number of collections

ASSUME EpsIsNoCell == Eps \notin Cell
ASSUME QueuesIsFlag == Queues \in BOOLEAN

VARIABLES
  kind,    \* element.type of every cell; "GC" marks a vacant one
  carp,    \* the list in the element of a LIST cell
  next,    \* the cdr of every cell
  free,    \* the cells of FREE_LIST
  m,       \* the colour of every cell, the mark stack, the registers CONS and AX
  held,    \* the cells whose address is in a word of the C stack
  call,    \* the arguments of the cons() in progress
  pc,      \* who runs: the program, cons() or a phase of gc()
  gc_counter,
  touched  \* history: the cells given to maintain_reg() since the last collection

heap == <<kind, carp, next, free>>
vars == <<heap, m, held, call, pc, gc_counter, touched>>

Ref == Cell \cup {Eps}
Reg == {"CONS", "AX"}
Phase == {"mutator", "vacant", "init", "mark", "sweep", "fatal"}
Call == [kind : {"TOKEN", "LIST", "none"}, car : Ref, cdr : Ref]
NoCall == [kind |-> "none", car |-> Eps, cdr |-> Eps]

MarkState == [color : [Cell -> {"WHITE", "GLAY", "BLACK"}],
              stack : Seq(Cell),
              reg   : [Reg -> Ref]]

TypeOK == /\ kind \in [Cell -> {"GC", "TOKEN", "LIST"}]
          /\ carp \in [Cell -> Ref] /\ next \in [Cell -> Ref]
          /\ free \in SUBSET Cell /\ held \in SUBSET Cell /\ touched \in SUBSET Cell
          /\ m \in MarkState
          /\ call \in Call
          /\ pc \in Phase /\ gc_counter \in Nat
-----------------------------------------------------------------------------
(* gc_push: a white cell in use is greyed and pushed, nothing else is.     *)
gc_push(s, c) ==
  IF c \in Cell /\ s.color[c] = "WHITE" /\ kind[c] # "GC"
  THEN [color |-> [s.color EXCEPT ![c] = "GLAY"],
        stack |-> <<c>> \o s.stack,
        reg   |-> s.reg]
  ELSE s

(* Mutated form of maintain_reg: the cell that leaves the register is      *)
(* dropped.                                                                *)
maintain_reg_Drop(s, r, c) ==
  IF c = Eps THEN s ELSE [s EXCEPT !.reg = [s.reg EXCEPT ![r] = c]]

(* maintain_reg: a list that is not empty takes the register, and the one  *)
(* it displaces goes to the mark stack.                                    *)
maintain_reg(s, r, c) ==
  IF c = Eps THEN s
  ELSE LET p == gc_push(s, s.reg[r])
       IN  [color |-> p.color, stack |-> p.stack, reg |-> [p.reg EXCEPT ![r] = c]]

AllWhite == [c \in Cell |-> "WHITE"]
AllEps == [r \in Reg |-> Eps]

(* init_MBCT: all cells are vacant, the registers hold the empty list.     *)
Init == /\ kind = [c \in Cell |-> "GC"]
        /\ carp = [c \in Cell |-> Eps] /\ next = [c \in Cell |-> Eps]
        /\ free = Cell
        /\ m = [color |-> AllWhite, stack |-> <<>>, reg |-> AllEps]
        /\ held = {} /\ touched = {}
        /\ call = NoCall
        /\ pc = "mutator" /\ gc_counter = 0
-----------------------------------------------------------------------------
(* The program follows a pointer it finds in a cell, or a word of its      *)
(* stack is overwritten.                                                   *)
Car(c) == /\ pc = "mutator" /\ c \in held /\ kind[c] = "LIST" /\ carp[c] # Eps
          /\ held' = held \cup {carp[c]}
          /\ UNCHANGED <<heap, m, call, pc, gc_counter, touched>>

Cdr(c) == /\ pc = "mutator" /\ c \in held /\ next[c] # Eps
          /\ held' = held \cup {next[c]}
          /\ UNCHANGED <<heap, m, call, pc, gc_counter, touched>>

Forget(c) == /\ pc = "mutator" /\ c \in held
             /\ held' = held \ {c}
             /\ UNCHANGED <<heap, m, call, pc, gc_counter, touched>>

(* cons up to the call of vacant_cell: both parts pass through AX.         *)
cons(k, a, d) ==
  /\ pc = "mutator"
  /\ a \in held \cup {Eps} /\ d \in held \cup {Eps}
  /\ k = "TOKEN" => a = Eps
  /\ free # {} \/ gc_counter < MaxGc
  /\ m' = maintain_reg(IF k = "LIST" THEN maintain_reg(m, "AX", a) ELSE m, "AX", d)
  /\ touched' = touched \cup ({a, d} \cap Cell)
  /\ call' = [kind |-> k, car |-> a, cdr |-> d]
  /\ pc' = "vacant"
  /\ UNCHANGED <<heap, held, gc_counter>>

(* vacant_cell starts a collection when no cell is vacant.                 *)
Exhausted == /\ pc = "vacant" /\ free = {}
             /\ pc' = "init" /\ gc_counter' = gc_counter + 1
             /\ UNCHANGED <<heap, m, held, call, touched>>

(* The rest of cons: the cell is filled and CONS holds it.                 *)
makecell(c) ==
  /\ pc = "vacant" /\ c \in free
  /\ kind' = [kind EXCEPT ![c] = call.kind]
  /\ carp' = [carp EXCEPT ![c] = call.car]
  /\ next' = [next EXCEPT ![c] = call.cdr]
  /\ free' = free \ {c}
  /\ m' = maintain_reg(m, "CONS", c)
  /\ touched' = touched \cup {c}
  /\ held' = held \cup {c}
  /\ call' = NoCall /\ pc' = "mutator"
  /\ UNCHANGED gc_counter

(* set_car and set_cdr of channel.c: the header of a queue, whose car is a *)
(* list, gets another first cell, a cell of it another successor.          *)
set_car(c, a) ==
  /\ Queues
  /\ pc = "mutator" /\ c \in held /\ a \in held \cup {Eps}
  /\ kind[c] = "LIST"
  /\ carp' = [carp EXCEPT ![c] = a]
  /\ m' = maintain_reg(m, "AX", a)
  /\ touched' = touched \cup ({a} \cap Cell)
  /\ UNCHANGED <<kind, next, free, held, call, pc, gc_counter>>

set_cdr(c, d) ==
  /\ Queues
  /\ pc = "mutator" /\ c \in held /\ d \in held \cup {Eps}
  /\ next' = [next EXCEPT ![c] = d]
  /\ m' = maintain_reg(m, "CONS", c)
  /\ touched' = touched \cup {c}
  /\ UNCHANGED <<kind, carp, free, held, call, pc, gc_counter>>

(* An explicit call of gc().                                               *)
gc == /\ pc = "mutator" /\ gc_counter < MaxGc
      /\ pc' = "init" /\ gc_counter' = gc_counter + 1
      /\ UNCHANGED <<heap, m, held, call, touched>>

MutatorNext ==
  \/ \E c \in Cell : Car(c) \/ Cdr(c) \/ Forget(c)
  \/ \E k \in {"TOKEN", "LIST"}, a, d \in Ref : cons(k, a, d)
  \/ \E c \in Cell, r \in Ref : set_car(c, r) \/ set_cdr(c, r)
  \/ gc
-----------------------------------------------------------------------------
InUse == {c \in Cell : kind[c] # "GC"}
Of(s, color) == {c \in Cell : s.color[c] = color}
White == Of(m, "WHITE")
Glay  == Of(m, "GLAY")
Black == Of(m, "BLACK")

(* What gc_init scans: the words of the C stack, then the registers.       *)
Roots == held \cup ({m.reg[r] : r \in Reg} \cap Cell)

(* One turn of the loops of gc_init.                                       *)
gc_init(c) == /\ pc = "init" /\ c \in Roots \cap White \cap InUse
              /\ m' = gc_push(m, c)
              /\ UNCHANGED <<heap, held, call, pc, gc_counter, touched>>

gc_init_done == /\ pc = "init" /\ Roots \cap White \cap InUse = {}
                /\ pc' = "mark"
                /\ UNCHANGED <<heap, m, held, call, gc_counter, touched>>

Popped(s) == [color |-> s.color, stack |-> Tail(s.stack), reg |-> s.reg]
Blackened(s, c) == [color |-> [s.color EXCEPT ![c] = "BLACK"],
                    stack |-> s.stack, reg |-> s.reg]

(* Mutated forms: the cell is blackened and stays on the stack; its car is *)
(* not followed.                                                           *)
mark_Peek(s) == LET P == Head(s.stack)
                IN  IF s.color[P] = "GLAY" THEN Blackened(s, P) ELSE s
mark_NoCar(s) == LET P == Head(s.stack)
                 IN  IF s.color[P] = "GLAY"
                     THEN gc_push(Blackened(Popped(s), P), next[P])
                     ELSE Popped(s)

(* What a turn of gc_mark_tail does to the mark state: pop a cell; if it   *)
(* is grey, blacken it and push its cdr, and its car when that is a list.  *)
marked(s) ==
  LET P == Head(s.stack)
      rest == Popped(s)
  IN  IF s.color[P] = "GLAY"
      THEN gc_push(gc_push(Blackened(rest, P), next[P]),
                   IF kind[P] = "LIST" THEN carp[P] ELSE Eps)
      ELSE rest

gc_mark_tail == /\ pc = "mark" /\ m.stack # <<>>
                /\ IF m.color[Head(m.stack)] = "WHITE"
                   THEN pc' = "fatal" /\ UNCHANGED m
                   ELSE m' = marked(m) /\ UNCHANGED pc
                /\ UNCHANGED <<heap, held, call, gc_counter, touched>>

gc_mark_done == /\ pc = "mark" /\ m.stack = <<>>
                /\ pc' = "sweep"
                /\ UNCHANGED <<heap, m, held, call, gc_counter, touched>>

(* sweep with gc_epilogue: the cells in use that are still white become    *)
(* vacant, the others white; a grey cell, or no vacant cell after the      *)
(* sweep, is fatal.  vacant_cell goes on when it had called gc().          *)
Swept == White \cap InUse

sweep ==
  /\ pc = "sweep"
  /\ kind' = [c \in Cell |-> IF c \in Swept THEN "GC" ELSE kind[c]]
  /\ carp' = [c \in Cell |-> IF c \in Swept THEN Eps ELSE carp[c]]
  /\ next' = [c \in Cell |-> IF c \in Swept THEN Eps ELSE next[c]]
  /\ free' = free \cup Swept
  /\ m' = [color |-> AllWhite, stack |-> <<>>, reg |-> AllEps]
  /\ touched' = {}
  /\ pc' = IF Glay # {} \/ free \cup Swept = {} THEN "fatal"
           ELSE IF call.kind = "none" THEN "mutator" ELSE "vacant"
  /\ UNCHANGED <<held, call, gc_counter>>

CollectorNext == (\E c \in Cell : gc_init(c)) \/ gc_init_done
                 \/ gc_mark_tail \/ gc_mark_done \/ sweep

Next == MutatorNext \/ Exhausted \/ (\E c \in Cell : makecell(c)) \/ CollectorNext

Spec == Init /\ [][Next]_vars
FairSpec == Spec /\ WF_vars(CollectorNext)
-----------------------------------------------------------------------------
(* The cells that are reachable from a set: those of every set of cells    *)
(* that contains it and is closed under car and cdr.                       *)
Closed(S) == \A c \in S : next[c] \in S \cup {Eps}
                          /\ (kind[c] = "LIST" => carp[c] \in S \cup {Eps})
Reach(S) == {c \in Cell : \A T \in SUBSET Cell : S \subseteq T /\ Closed(T) => c \in T}

Args == {call.car, call.cdr} \cap Cell

(* Nothing the program can still reach, from its stack or through the      *)
(* arguments of a cons() that is waiting for a cell, is vacant: following  *)
(* cars and cdrs never leads to a cell that the next cons() will overwrite.*)
NothingLiveFreed == Reach(held \cup Args) \cap free = {}

(* The cells of FREE_LIST are the vacant ones: no vacant cell is lost, no  *)
(* cell in use is handed out again.                                        *)
Conservation == free = Cell \ InUse

(* The `ref' field is a link of the mark stack as long as the cell is      *)
(* grey, also between two collections: a grey cell is on the stack exactly *)
(* once, no other cell is on it.                                           *)
StackOK(s) == /\ Of(s, "GLAY") = {s.stack[i] : i \in DOMAIN s.stack}
              /\ \A i, j \in DOMAIN s.stack : s.stack[i] = s.stack[j] => i = j
GlayOnStack == StackOK(m)

(* When sweep() starts no cell is grey, no black cell has a white one in   *)
(* its car or cdr, and all roots are black: the fatal errors of            *)
(* gc_mark_tail and sweep about colours cannot happen.                     *)
TriColour == pc = "sweep" =>
               /\ Glay = {} /\ Roots \subseteq Black /\ Closed(Black)

(* What a collection keeps, exactly: the cells reachable from the C stack  *)
(* and from every cell that went through cons, set_car or set_cdr since    *)
(* the last collection, garbage or not.                                    *)
SweepKeepsExactly ==
  [][pc = "sweep" => InUse' = Reach(held \cup touched)]_vars

(* The first collection, when cons() runs out of cells before any other    *)
(* was made, frees nothing and ends the program.                           *)
FirstExhaustionFatal ==
  [][gc_counter = 1 /\ pc = "sweep" /\ call.kind # "none" => pc' = "fatal"]_vars

(* A collection ends: the program runs on, cons() gets its cell, or the    *)
(* memory is used up.                                                      *)
GcEnds == pc = "init" ~> pc \in {"mutator", "vacant", "fatal"}
=============================================================================
