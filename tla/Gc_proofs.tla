----------------------------- MODULE Gc_proofs -----------------------------
(***************************************************************************)
(* Proofs about the collector, for every heap, every number of collections *)
(* and both kinds of channel.                                              *)
(***************************************************************************)
EXTENDS Gc, SequenceTheorems, TLAPS

RegCells(s) == {s.reg[r] : r \in Reg} \cap Cell

(* A mark state between two steps: the stack is the set of grey cells, and *)
(* no vacant cell is grey, black or in a register.                         *)
MarksOK(s) == /\ s \in MarkState /\ StackOK(s)
              /\ Of(s, "GLAY") \cup Of(s, "BLACK") \cup RegCells(s) \subseteq InUse

(* Pushing onto a sequence and popping it, position by position.           *)
LEMMA PushSeq ==
  ASSUME NEW S, NEW s \in Seq(S), NEW c \in S
  PROVE  /\ <<c>> \o s \in Seq(S)
         /\ DOMAIN (<<c>> \o s) = 1..Len(s) + 1
         /\ (<<c>> \o s)[1] = c
         /\ \A i \in 1..Len(s) : (<<c>> \o s)[i + 1] = s[i]
OBVIOUS

LEMMA PopSeq ==
  ASSUME NEW S, NEW s \in Seq(S), s # <<>>
  PROVE  /\ Tail(s) \in Seq(S) /\ Head(s) \in S /\ Head(s) = s[1]
         /\ Len(s) \in Nat \ {0} /\ DOMAIN s = 1..Len(s)
         /\ DOMAIN Tail(s) = 1..Len(s) - 1
         /\ \A i \in 1..Len(s) - 1 : Tail(s)[i] = s[i + 1]
BY HeadTailProperties, EmptySeq, LenProperties

(* gc_push greys and stacks a white cell in use; it changes no other       *)
(* colour and no register.                                                 *)
LEMMA Push ==
  ASSUME TypeOK, NEW s, MarksOK(s), NEW c \in Ref
  PROVE  /\ MarksOK(gc_push(s, c))
         /\ gc_push(s, c).reg = s.reg
         /\ Of(gc_push(s, c), "GLAY")
              = Of(s, "GLAY") \cup ({c} \cap Of(s, "WHITE") \cap InUse)
         /\ Of(gc_push(s, c), "BLACK") = Of(s, "BLACK")
<1> DEFINE p == gc_push(s, c)
           new == c \in Cell /\ s.color[c] = "WHITE" /\ kind[c] # "GC"
<1>1. CASE ~new
  <2>1. p = s
    BY <1>1 DEF gc_push
  <2>2. {c} \cap Of(s, "WHITE") \cap InUse = {}
    BY <1>1 DEF Of, InUse
  <2> QED BY <2>1, <2>2
<1>2. CASE new
  <2>0. /\ s.color \in [Cell -> {"WHITE", "GLAY", "BLACK"}]
        /\ s.stack \in Seq(Cell) /\ s.reg \in [Reg -> Ref]
    BY DEF MarksOK, MarkState
  <2>1. /\ p.color = [s.color EXCEPT ![c] = "GLAY"]
        /\ p.stack = <<c>> \o s.stack
        /\ p.reg = s.reg
        /\ p = [color |-> p.color, stack |-> p.stack, reg |-> p.reg]
    BY <1>2 DEF gc_push
  <2>2. /\ p.stack \in Seq(Cell)
        /\ DOMAIN p.stack = 1..Len(s.stack) + 1
        /\ p.stack[1] = c
        /\ \A i \in 1..Len(s.stack) : p.stack[i + 1] = s.stack[i]
    BY <1>2, <2>0, <2>1, PushSeq
  <2>3. p \in MarkState
    BY <2>0, <2>1, <2>2, <1>2 DEF MarkState
  <2>4. /\ Of(p, "GLAY") = Of(s, "GLAY") \cup {c}
        /\ Of(p, "BLACK") = Of(s, "BLACK")
    BY <2>0, <2>1, <1>2 DEF Of
  <2>5. DOMAIN s.stack = 1..Len(s.stack) /\ Len(s.stack) \in Nat
    BY <2>0, LenProperties
  <2>6. {p.stack[i] : i \in DOMAIN p.stack} = {c} \cup {s.stack[i] : i \in DOMAIN s.stack}
    <3>1. ASSUME NEW i \in DOMAIN p.stack
          PROVE  p.stack[i] = c \/ \E j \in DOMAIN s.stack : p.stack[i] = s.stack[j]
      <4>1. CASE i = 1
        BY <4>1, <2>2
      <4>2. CASE i # 1
        <5>1. i - 1 \in 1..Len(s.stack)
          BY <4>2, <2>2, <2>5
        <5>2. p.stack[(i - 1) + 1] = s.stack[i - 1]
          BY <5>1, <2>2
        <5> QED BY <5>1, <5>2, <2>5, <2>2
      <4> QED BY <4>1, <4>2
    <3>2. ASSUME NEW j \in DOMAIN s.stack
          PROVE  \E i \in DOMAIN p.stack : p.stack[i] = s.stack[j]
      <4>1. j + 1 \in DOMAIN p.stack /\ p.stack[j + 1] = s.stack[j]
        BY <2>2, <2>5
      <4> QED BY <4>1
    <3>3. 1 \in DOMAIN p.stack
      BY <2>2, <2>5
    <3> QED BY <3>1, <3>2, <3>3, <2>2
  <2>7. c \notin {s.stack[i] : i \in DOMAIN s.stack}
    BY <1>2 DEF MarksOK, StackOK, Of
  <2>8. ASSUME NEW i \in DOMAIN p.stack, NEW j \in DOMAIN p.stack,
               p.stack[i] = p.stack[j]
        PROVE  i = j
    <3>1. ASSUME NEW k \in DOMAIN p.stack, k # 1
          PROVE  k - 1 \in DOMAIN s.stack /\ p.stack[k] = s.stack[k - 1]
      <4>1. k - 1 \in 1..Len(s.stack)
        BY <3>1, <2>2, <2>5
      <4>2. p.stack[(k - 1) + 1] = s.stack[k - 1]
        BY <4>1, <2>2
      <4> QED BY <4>1, <4>2, <2>5, <2>2
    <3>2. CASE i = 1 \/ j = 1
      BY <3>1, <3>2, <2>7, <2>8, <2>2
    <3>3. CASE i # 1 /\ j # 1
      <4>1. s.stack[i - 1] = s.stack[j - 1]
        BY <3>1, <3>3, <2>8
      <4>2. i - 1 = j - 1
        BY <3>1, <3>3, <4>1 DEF MarksOK, StackOK
      <4> QED BY <4>2, <2>2, <2>5
    <3> QED BY <3>2, <3>3
  <2>9. StackOK(p)
    BY <2>4, <2>6, <2>8 DEF MarksOK, StackOK
  <2>10. c \in InUse /\ c \in Of(s, "WHITE")
    BY <1>2 DEF InUse, Of
  <2>11. MarksOK(p)
    BY <2>1, <2>3, <2>4, <2>9, <2>10 DEF MarksOK, RegCells
  <2> QED BY <2>1, <2>4, <2>10, <2>11
<1> QED BY <1>1, <1>2

(* maintain_reg puts a cell that is not the empty list in the register and *)
(* greys what the register held: every cell that was grey or in a register *)
(* still is.                                                               *)
LEMMA Maintain ==
  ASSUME TypeOK, NEW s, MarksOK(s), NEW r \in Reg, NEW c \in InUse \cup {Eps}
  PROVE  /\ MarksOK(maintain_reg(s, r, c))
         /\ Of(maintain_reg(s, r, c), "BLACK") = Of(s, "BLACK")
         /\ Of(s, "GLAY") \subseteq Of(maintain_reg(s, r, c), "GLAY")
         /\ Of(s, "BLACK") = {} =>
              Of(maintain_reg(s, r, c), "GLAY") \cup RegCells(maintain_reg(s, r, c))
                = Of(s, "GLAY") \cup RegCells(s) \cup ({c} \cap Cell)
<1> DEFINE p == gc_push(s, s.reg[r])
           q == maintain_reg(s, r, c)
<1>0. InUse \subseteq Cell /\ s.reg \in [Reg -> Ref] /\ s.reg[r] \in Ref
  BY DEF InUse, MarksOK, MarkState
<1>1. CASE c = Eps
  BY <1>1, EpsIsNoCell DEF maintain_reg
<1>2. CASE c # Eps
  <2>1. /\ MarksOK(p) /\ p.reg = s.reg
        /\ Of(p, "GLAY") = Of(s, "GLAY") \cup ({s.reg[r]} \cap Of(s, "WHITE") \cap InUse)
        /\ Of(p, "BLACK") = Of(s, "BLACK")
    BY <1>0, Push
  <2>2. q = [color |-> p.color, stack |-> p.stack, reg |-> [p.reg EXCEPT ![r] = c]]
    BY <1>2 DEF maintain_reg
  <2>3. q.color = p.color /\ q.stack = p.stack /\ q.reg = [p.reg EXCEPT ![r] = c]
    BY <2>2
  <2>4. q \in MarkState
    BY <1>0, <2>1, <2>2 DEF MarksOK, MarkState, Ref
  <2>5. Of(q, "GLAY") = Of(p, "GLAY") /\ Of(q, "BLACK") = Of(p, "BLACK")
    BY <2>3 DEF Of
  <2>6. StackOK(q)
    BY <2>1, <2>3, <2>5 DEF MarksOK, StackOK
  <2>7. RegCells(q) \subseteq RegCells(s) \cup {c}
    BY <1>0, <2>1, <2>3 DEF RegCells
  <2>8. MarksOK(q)
    BY <1>2, <2>1, <2>4, <2>5, <2>6, <2>7 DEF MarksOK
  <2>9. /\ c \in RegCells(q)
        /\ RegCells(s) \subseteq RegCells(q) \cup {s.reg[r]}
    BY <1>0, <1>2, <2>1, <2>3 DEF RegCells
  <2>10. ASSUME Of(s, "BLACK") = {}, s.reg[r] \in Cell
         PROVE  s.reg[r] \in Of(p, "GLAY")
    <3>1. s.reg[r] \in InUse
      BY <2>10 DEF MarksOK, RegCells
    <3>2. s.reg[r] \in Of(s, "GLAY") \cup Of(s, "WHITE")
      BY <2>10 DEF MarksOK, MarkState, Of
    <3> QED BY <2>1, <3>1, <3>2
  <2>11. {s.reg[r]} \cap Of(s, "WHITE") \cap InUse \subseteq RegCells(s)
    BY DEF RegCells, Of
  <2>12. RegCells(s) \subseteq Cell /\ c \in Cell
    BY <1>0, <1>2 DEF RegCells
  <2>13. Of(s, "BLACK") = {} =>
           Of(q, "GLAY") \cup RegCells(q) = Of(s, "GLAY") \cup RegCells(s) \cup ({c} \cap Cell)
    BY <2>1, <2>5, <2>7, <2>9, <2>10, <2>11, <2>12
  <2>14. Of(q, "BLACK") = Of(s, "BLACK") /\ Of(s, "GLAY") \subseteq Of(q, "GLAY")
    BY <2>1, <2>5
  <2> QED BY <2>8, <2>13, <2>14
<1> QED BY <1>1, <1>2

-----------------------------------------------------------------------------
Marked == Glay \cup Black

(* While marking: no root is white, no black cell leads to a white one, and *)
(* what is not white belongs to every closed set that contains the roots.  *)
MarkInv ==
  /\ held \cup touched \cup RegCells(m) \subseteq Marked
  /\ \A c \in Black : /\ next[c] \in Marked \cup {Eps}
                      /\ kind[c] = "LIST" => carp[c] \in Marked \cup {Eps}
  /\ \A T \in SUBSET Cell : held \cup touched \subseteq T /\ Closed(T) => Marked \subseteq T

(* The inductive invariant.  Between collections the grey cells and the    *)
(* registers are what the program touched; while one runs, every root is   *)
(* grey or black, what is grey or black is reachable from the roots.       *)
IInv ==
  /\ TypeOK /\ Conservation /\ MarksOK(m) /\ Closed(InUse)
  /\ held \cup touched \cup Args \subseteq InUse
  /\ pc \in {"mutator", "vacant", "init"} => Black = {}
  /\ pc \in {"mutator", "vacant"} => Glay \cup RegCells(m) = touched
  /\ pc = "init" => /\ touched \subseteq Glay \cup RegCells(m)
                    /\ Glay \cup RegCells(m) \subseteq touched \cup held
  /\ pc \in {"mark", "sweep"} => MarkInv
  /\ pc = "sweep" => Glay = {}
  /\ pc = "mutator" => call = NoCall
  /\ call.kind = "none" => call = NoCall
  /\ pc = "vacant" => call.kind # "none"
  /\ pc \in {"init", "mark", "sweep"} \/ (pc = "vacant" /\ free = {}) => Args \subseteq touched
  /\ pc \in {"init", "mark", "sweep"} /\ call.kind # "none" => free = {}
  /\ gc_counter = 0 \/ (gc_counter = 1 /\ pc \in {"init", "mark", "sweep"})
       => InUse \subseteq touched
  /\ gc_counter = 0 => pc \in {"mutator", "vacant"}

LEMMA InitIInv == Init => IInv
<1> SUFFICES ASSUME Init PROVE IInv
  OBVIOUS
<1>1. /\ m.color = AllWhite /\ m.stack = <<>> /\ m.reg = AllEps
      /\ InUse = {} /\ Glay = {} /\ Black = {} /\ RegCells(m) = {} /\ Args = {}
  BY EpsIsNoCell
     DEF Init, InUse, Glay, Black, Of, RegCells, Args, NoCall, AllWhite, AllEps
<1>2. TypeOK
  BY <1>1, EmptySeq
     DEF Init, TypeOK, MarkState, AllWhite, AllEps, Ref, Reg, Call, NoCall, Phase
<1>3. StackOK(m)
  BY <1>1 DEF StackOK, Glay
<1>4. MarksOK(m)
  BY <1>1, <1>2, <1>3 DEF MarksOK, TypeOK, Glay, Black
<1>5. Conservation /\ Closed(InUse)
  BY <1>1 DEF Conservation, Closed, Init
<1> QED BY <1>1, <1>2, <1>4, <1>5 DEF IInv, Init

(* Steps that leave the heap and the mark state alone.                     *)
LEMMA Frame ==
  ASSUME UNCHANGED <<heap, m>>
  PROVE  /\ MarksOK(m)' = MarksOK(m) /\ Closed(InUse)' = Closed(InUse)
         /\ Conservation' = Conservation /\ InUse' = InUse
         /\ Glay' = Glay /\ Black' = Black /\ Marked' = Marked
         /\ RegCells(m)' = RegCells(m)
         /\ \A T : Closed(T)' = Closed(T)
BY DEF heap, MarksOK, StackOK, Of, RegCells, InUse, Closed, Conservation, Glay, Black, Marked

LEMMA ReadIInv ==
  ASSUME IInv, NEW c \in Cell, Car(c) \/ Cdr(c) \/ Forget(c)
  PROVE  IInv'
<1>1. /\ UNCHANGED <<heap, m, call, pc, gc_counter, touched>>
      /\ pc = "mutator" /\ held' \subseteq InUse
  BY DEF IInv, Car, Cdr, Forget, Closed
<1>2. TypeOK' /\ Args' = Args
  BY <1>1 DEF IInv, TypeOK, heap, InUse, Args
<1> QED BY <1>1, <1>2, Frame DEF IInv, heap

LEMMA GcIInv ==
  ASSUME IInv, gc \/ Exhausted
  PROVE  IInv'
<1>1. /\ UNCHANGED <<heap, m, held, call, touched>>
      /\ pc \in {"mutator", "vacant"} /\ pc' = "init" /\ gc_counter' = gc_counter + 1
      /\ call.kind # "none" => free = {} /\ Args \subseteq touched
  BY DEF IInv, gc, Exhausted, NoCall
<1>2. TypeOK' /\ Args' = Args
  BY <1>1 DEF IInv, TypeOK, heap, Phase, Args
<1>3. gc_counter \in Nat
  BY DEF IInv, TypeOK
<1>4. Args \subseteq touched
  BY <1>1, EpsIsNoCell DEF IInv, Args, NoCall, gc, Exhausted
<1>5. gc_counter' = 1 => gc_counter = 0
  BY <1>1, <1>3
<1> QED BY <1>1, <1>2, <1>3, <1>4, <1>5, Frame DEF IInv, heap

LEMMA PhaseIInv ==
  ASSUME IInv, gc_init_done \/ gc_mark_done
  PROVE  IInv'
<1>1. /\ UNCHANGED <<heap, m, held, call, gc_counter, touched>>
      /\ pc \in {"init", "mark"} /\ pc' \in {"mark", "sweep"}
  BY DEF gc_init_done, gc_mark_done
<1>2. TypeOK' /\ Args' = Args
  BY <1>1 DEF IInv, TypeOK, heap, Phase, Args
<1>3. held \cup touched \cup RegCells(m) \subseteq Marked
  <2>1. CASE gc_mark_done
    BY <2>1 DEF IInv, MarkInv, gc_mark_done
  <2>2. CASE gc_init_done
    <3>1. Roots \cap White \cap InUse = {}
      BY <2>2 DEF gc_init_done
    <3>2. held \cup RegCells(m) = Roots
      BY DEF Roots, RegCells
    <3>3. Roots \subseteq InUse /\ Roots \subseteq Cell
      BY <3>2 DEF IInv, MarksOK, InUse
    <3>4. Cell \subseteq White \cup Marked
      BY DEF IInv, TypeOK, MarkState, White, Marked, Glay, Black, Of
    <3>5. touched \subseteq Glay \cup RegCells(m)
      BY <2>2 DEF IInv, gc_init_done
    <3> QED BY <3>1, <3>2, <3>3, <3>4, <3>5 DEF Marked
  <2> QED BY <2>1, <2>2
<1>4. /\ \A c \in Black : /\ next[c] \in Marked \cup {Eps}
                          /\ kind[c] = "LIST" => carp[c] \in Marked \cup {Eps}
      /\ \A T \in SUBSET Cell : held \cup touched \subseteq T /\ Closed(T) => Marked \subseteq T
  <2>1. CASE gc_mark_done
    BY <2>1 DEF IInv, MarkInv, gc_mark_done
  <2>2. CASE gc_init_done
    BY <2>2 DEF IInv, gc_init_done, Marked
  <2> QED BY <2>1, <2>2
<1>5. pc' = "sweep" => Glay = {}
  BY DEF IInv, gc_init_done, gc_mark_done, MarksOK, StackOK, Glay
<1>6. MarkInv'
  BY <1>1, <1>3, <1>4, Frame DEF MarkInv, heap
<1> QED BY <1>1, <1>2, <1>5, <1>6, Frame DEF IInv, heap

(* What a step of the program does to the mark state keeps the invariant,  *)
(* provided the step registers the cells it touches.                       *)
LEMMA ConsIInv ==
  ASSUME IInv, NEW k \in {"TOKEN", "LIST"}, NEW a \in Ref, NEW d \in Ref, cons(k, a, d)
  PROVE  IInv'
<1> DEFINE m1 == IF k = "LIST" THEN maintain_reg(m, "AX", a) ELSE m
<1>1. /\ pc = "mutator" /\ pc' = "vacant" /\ UNCHANGED <<heap, held, gc_counter>>
      /\ m' = maintain_reg(m1, "AX", d)
      /\ touched' = touched \cup ({a, d} \cap Cell)
      /\ call' = [kind |-> k, car |-> a, cdr |-> d]
      /\ a \in held \cup {Eps} /\ d \in held \cup {Eps}
      /\ k = "TOKEN" => a = Eps
  BY DEF cons
<1>2. /\ a \in InUse \cup {Eps} /\ d \in InUse \cup {Eps} /\ InUse \subseteq Cell
      /\ Black = {} /\ Glay \cup RegCells(m) = touched /\ TypeOK /\ MarksOK(m)
  BY <1>1 DEF IInv, InUse
<1>3. /\ MarksOK(m1) /\ Of(m1, "BLACK") = {}
      /\ Of(m1, "GLAY") \cup RegCells(m1) = touched \cup ({a} \cap Cell)
  BY <1>1, <1>2, Maintain, EpsIsNoCell DEF Reg, Glay, Black
<1>4. /\ MarksOK(m') /\ Of(m', "BLACK") = {}
      /\ Of(m', "GLAY") \cup RegCells(m') = touched'
  BY <1>1, <1>2, <1>3, Maintain DEF Reg
<1>5. InUse' = InUse /\ Closed(InUse)' = Closed(InUse) /\ Conservation' = Conservation
  BY <1>1 DEF heap, InUse, Closed, Conservation
<1>6. MarksOK(m)'
  BY <1>4, <1>5 DEF MarksOK, StackOK, Of, RegCells
<1>7. Glay' = Of(m', "GLAY") /\ Black' = Of(m', "BLACK") /\ RegCells(m)' = RegCells(m')
  BY DEF Glay, Black, Of, RegCells
<1>8. TypeOK'
  BY <1>1, <1>2, <1>4 DEF TypeOK, MarksOK, heap, Call, Phase
<1>9. Args' \subseteq touched' /\ touched' \subseteq InUse /\ call'.kind # "none"
  <2>1. call'.kind = k /\ call'.car = a /\ call'.cdr = d
    BY <1>1
  <2>2. Args' = {a, d} \cap Cell
    BY <2>1 DEF Args
  <2>3. touched \subseteq InUse
    BY DEF IInv
  <2> QED BY <1>1, <1>2, <2>1, <2>2, <2>3, EpsIsNoCell
<1>10. touched \subseteq touched' /\ held' \cup touched' \cup Args' \subseteq InUse'
  BY <1>1, <1>5, <1>9 DEF IInv
<1>11. gc_counter = 0 => InUse' \subseteq touched'
  BY <1>5, <1>10 DEF IInv
<1>12. Glay' \cup RegCells(m)' = touched' /\ Black' = {}
  BY <1>4, <1>7
<1>13. Conservation' /\ Closed(InUse)'
  BY <1>5 DEF IInv
<1> QED BY <1>1, <1>6, <1>8, <1>9, <1>10, <1>11, <1>12, <1>13 DEF IInv

LEMMA MakecellIInv ==
  ASSUME IInv, NEW c \in Cell, makecell(c)
  PROVE  IInv'
<1>1. /\ pc = "vacant" /\ pc' = "mutator" /\ UNCHANGED gc_counter
      /\ c \in free /\ free' = free \ {c}
      /\ kind' = [kind EXCEPT ![c] = call.kind]
      /\ carp' = [carp EXCEPT ![c] = call.car]
      /\ next' = [next EXCEPT ![c] = call.cdr]
      /\ m' = maintain_reg(m, "CONS", c)
      /\ touched' = touched \cup {c} /\ held' = held \cup {c} /\ call' = NoCall
  BY DEF makecell
<1>2. /\ TypeOK /\ MarksOK(m) /\ Conservation /\ Closed(InUse) /\ call.kind # "none"
      /\ Args \subseteq InUse /\ held \cup touched \subseteq InUse /\ Black = {}
      /\ Glay \cup RegCells(m) = touched
  BY <1>1 DEF IInv
<1>3. /\ call.kind \in {"TOKEN", "LIST"} /\ call.car \in Ref /\ call.cdr \in Ref
  BY <1>2 DEF TypeOK, Call
<1>4. InUse' = InUse \cup {c} /\ c \notin InUse
  BY <1>1, <1>2, <1>3 DEF InUse, TypeOK, Conservation
<1>5. TypeOK' /\ Conservation'
  <2>1. m' \in MarkState
    <3>1. m.reg["CONS"] \in Ref /\ m.reg["CONS"] \in InUse \cup {Eps}
      BY <1>2 DEF MarksOK, MarkState, RegCells, Reg, Ref
    <3>2. gc_push(m, m.reg["CONS"]) \in MarkState
      BY <1>2, <3>1, Push DEF MarksOK
    <3>3. m' = [color |-> gc_push(m, m.reg["CONS"]).color,
                stack |-> gc_push(m, m.reg["CONS"]).stack,
                reg |-> [gc_push(m, m.reg["CONS"]).reg EXCEPT !["CONS"] = c]]
      BY <1>1, EpsIsNoCell DEF maintain_reg
    <3> QED BY <3>2, <3>3 DEF MarkState, Ref
  <2>2. Conservation'
    BY <1>1, <1>2, <1>4 DEF Conservation, TypeOK
  <2> QED BY <1>1, <1>2, <1>3, <2>1, <2>2 DEF TypeOK, Phase, Call, NoCall, Ref
<1>6. /\ m'.reg = [m.reg EXCEPT !["CONS"] = c]
      /\ StackOK(m') /\ Of(m', "BLACK") = {}
      /\ Of(m', "GLAY") \cup RegCells(m') = touched'
  <2> DEFINE p == gc_push(m, m.reg["CONS"])
  <2>1. m.reg["CONS"] \in Ref /\ m.reg["CONS"] \in InUse \cup {Eps} /\ m.reg \in [Reg -> Ref]
    BY <1>2 DEF MarksOK, MarkState, RegCells, Reg, Ref
  <2>2. /\ MarksOK(p) /\ p.reg = m.reg
        /\ Of(p, "GLAY") = Of(m, "GLAY") \cup ({m.reg["CONS"]} \cap Of(m, "WHITE") \cap InUse)
        /\ Of(p, "BLACK") = {}
    BY <1>2, <2>1, Push DEF Black
  <2>3. m' = [color |-> p.color, stack |-> p.stack, reg |-> [p.reg EXCEPT !["CONS"] = c]]
    BY <1>1, EpsIsNoCell DEF maintain_reg
  <2>4. /\ m'.color = p.color /\ m'.stack = p.stack /\ m'.reg = [m.reg EXCEPT !["CONS"] = c]
    BY <2>2, <2>3
  <2>5. Of(m', "GLAY") = Of(p, "GLAY") /\ Of(m', "BLACK") = {}
    BY <2>2, <2>4 DEF Of
  <2>6. StackOK(m')
    BY <2>2, <2>4, <2>5 DEF MarksOK, StackOK
  <2>7. /\ c \in RegCells(m') /\ RegCells(m') \subseteq RegCells(m) \cup {c}
        /\ RegCells(m) \subseteq RegCells(m') \cup {m.reg["CONS"]}
        /\ {m.reg["CONS"]} \cap Of(m, "WHITE") \cap InUse \subseteq RegCells(m)
    BY <2>1, <2>4 DEF RegCells, Reg, Of
  <2>8. m.reg["CONS"] \in Cell => m.reg["CONS"] \in Of(p, "GLAY")
    <3>1. Cell \subseteq Of(m, "WHITE") \cup Of(m, "GLAY")
      BY <1>2 DEF TypeOK, MarkState, Of, Black
    <3> QED BY <2>1, <2>2, <3>1, EpsIsNoCell
  <2>9. RegCells(m) \subseteq Cell
    BY DEF RegCells
  <2>10. Of(m', "GLAY") \cup RegCells(m') = touched \cup {c}
    BY <1>2, <2>2, <2>5, <2>7, <2>8, <2>9 DEF Glay
  <2> QED BY <1>1, <2>4, <2>5, <2>6, <2>10
<1>7. MarksOK(m)' /\ Black' = {} /\ Glay' \cup RegCells(m)' = touched'
  <2>1. touched' \subseteq InUse'
    BY <1>1, <1>2, <1>4
  <2>2. StackOK(m)' = StackOK(m') /\ RegCells(m)' = RegCells(m')
        /\ Glay' = Of(m', "GLAY") /\ Black' = Of(m', "BLACK")
        /\ Of(m, "GLAY")' = Of(m', "GLAY") /\ Of(m, "BLACK")' = Of(m', "BLACK")
    BY DEF StackOK, RegCells, Glay, Black, Of
  <2> QED BY <1>5, <1>6, <2>1, <2>2 DEF MarksOK, TypeOK
<1>8. Closed(InUse)'
  <2>1. call.car \in InUse \cup {Eps} /\ call.cdr \in InUse \cup {Eps}
    BY <1>2, <1>3 DEF Args, Ref
  <2> QED BY <1>1, <1>2, <1>4, <2>1 DEF Closed, TypeOK, InUse
<1>9. Args' = {} /\ held' \cup touched' \subseteq InUse'
  BY <1>1, <1>2, <1>4, EpsIsNoCell DEF Args, NoCall
<1>10. gc_counter = 0 => InUse' \subseteq touched'
  BY <1>1, <1>4 DEF IInv
<1> QED BY <1>1, <1>5, <1>7, <1>8, <1>9, <1>10 DEF IInv

LEMMA SetIInv ==
  ASSUME IInv, NEW c \in Cell, NEW x \in Ref, set_car(c, x) \/ set_cdr(c, x)
  PROVE  IInv'
<1> DEFINE y == IF set_car(c, x) THEN x ELSE c
           r == IF set_car(c, x) THEN "AX" ELSE "CONS"
<1>1. /\ pc = "mutator" /\ c \in held /\ x \in held \cup {Eps}
      /\ UNCHANGED <<kind, free, held, call, pc, gc_counter>>
      /\ carp' = carp \/ carp' = [carp EXCEPT ![c] = x]
      /\ next' = next \/ next' = [next EXCEPT ![c] = x]
      /\ m' = maintain_reg(m, r, y)
      /\ touched' = touched \cup ({y} \cap Cell)
  BY DEF set_car, set_cdr
<1>2. /\ TypeOK /\ MarksOK(m) /\ Conservation /\ Closed(InUse) /\ call = NoCall
      /\ held \cup touched \subseteq InUse /\ Black = {} /\ Glay \cup RegCells(m) = touched
      /\ gc_counter = 0 => InUse \subseteq touched
  BY <1>1 DEF IInv
<1>3. InUse' = InUse /\ InUse \subseteq Cell /\ Conservation' /\ Args' = Args
  BY <1>1, <1>2 DEF InUse, Conservation, Args
<1>4. y \in InUse \cup {Eps} /\ r \in Reg
  BY <1>1, <1>2 DEF Reg
<1>5. /\ MarksOK(m') /\ Of(m', "BLACK") = {}
      /\ Of(m', "GLAY") \cup RegCells(m') = touched'
  <2> HIDE DEF y, r
  <2> QED BY <1>1, <1>2, <1>4, Maintain DEF Glay, Black
<1>6. MarksOK(m)' /\ Black' = {} /\ Glay' \cup RegCells(m)' = touched'
  BY <1>3, <1>5 DEF MarksOK, StackOK, Of, RegCells, Glay, Black
<1>7. TypeOK'
  BY <1>1, <1>2, <1>5 DEF TypeOK, MarksOK
<1>8. Closed(InUse)'
  BY <1>1, <1>2, <1>3 DEF Closed, TypeOK
<1>9. held' \cup touched' \cup Args' \subseteq InUse'
  BY <1>1, <1>2, <1>3, <1>4, EpsIsNoCell DEF IInv
<1>10. gc_counter = 0 => InUse' \subseteq touched'
  BY <1>1, <1>2, <1>3
<1> QED BY <1>1, <1>2, <1>3, <1>6, <1>7, <1>8, <1>9, <1>10 DEF IInv

LEMMA RootIInv ==
  ASSUME IInv, NEW c \in Cell, gc_init(c)
  PROVE  IInv'
<1>1. /\ pc = "init" /\ c \in Roots \cap White \cap InUse /\ m' = gc_push(m, c)
      /\ UNCHANGED <<heap, held, call, pc, gc_counter, touched>>
  BY DEF gc_init
<1>2. /\ TypeOK /\ MarksOK(m) /\ Black = {}
      /\ touched \subseteq Glay \cup RegCells(m)
      /\ Glay \cup RegCells(m) \subseteq touched \cup held
  BY <1>1 DEF IInv
<1>3. /\ MarksOK(m') /\ m'.reg = m.reg /\ Of(m', "BLACK") = {}
      /\ Of(m', "GLAY") = Glay \cup {c}
  BY <1>1, <1>2, Push DEF Glay, Black, White, Ref
<1>4. /\ InUse' = InUse /\ Closed(InUse)' = Closed(InUse) /\ Conservation' = Conservation
      /\ Args' = Args
  BY <1>1 DEF heap, InUse, Closed, Conservation, Args
<1>5. MarksOK(m)' /\ Glay' = Glay \cup {c} /\ Black' = {} /\ RegCells(m)' = RegCells(m)
  BY <1>3, <1>4 DEF MarksOK, StackOK, Of, RegCells, Glay, Black
<1>6. TypeOK'
  BY <1>1, <1>2, <1>3 DEF TypeOK, MarksOK, heap
<1>7. c \in held \cup RegCells(m)
  BY <1>1 DEF Roots, RegCells
<1>8. /\ touched' \subseteq Glay' \cup RegCells(m)'
      /\ Glay' \cup RegCells(m)' \subseteq touched' \cup held'
  BY <1>1, <1>2, <1>5, <1>7
<1> QED BY <1>1, <1>4, <1>5, <1>6, <1>8 DEF IInv, heap

LEMMA MarkIInv ==
  ASSUME IInv, gc_mark_tail
  PROVE  IInv'
<1> DEFINE P == Head(m.stack)
           s0 == Blackened(Popped(m), P)
           s1 == gc_push(s0, next[P])
           s2 == gc_push(s1, IF kind[P] = "LIST" THEN carp[P] ELSE Eps)
<1>1. /\ pc = "mark" /\ m.stack # <<>>
      /\ UNCHANGED <<heap, held, call, gc_counter, touched>>
  BY DEF gc_mark_tail
<1>2. /\ TypeOK /\ MarksOK(m) /\ Closed(InUse)
      /\ m.stack \in Seq(Cell) /\ m.color \in [Cell -> {"WHITE", "GLAY", "BLACK"}]
      /\ m.reg \in [Reg -> Ref]
  BY DEF IInv, MarksOK, MarkState
<1>3. /\ Tail(m.stack) \in Seq(Cell) /\ P \in Cell /\ P = m.stack[1]
      /\ Len(m.stack) \in Nat \ {0} /\ DOMAIN m.stack = 1..Len(m.stack)
      /\ DOMAIN Tail(m.stack) = 1..Len(m.stack) - 1
      /\ \A i \in 1..Len(m.stack) - 1 : Tail(m.stack)[i] = m.stack[i + 1]
  BY <1>1, <1>2, PopSeq
<1>4. P \in Glay /\ m.color[P] = "GLAY" /\ P \in InUse
  <2>1. P \in {m.stack[i] : i \in DOMAIN m.stack}
    BY <1>3
  <2> QED BY <1>2, <2>1 DEF MarksOK, StackOK, Of, Glay
<1>5. pc' = pc /\ m' = s2
  BY <1>4 DEF gc_mark_tail, marked
<1>6. s0 = [color |-> [m.color EXCEPT ![P] = "BLACK"], stack |-> Tail(m.stack), reg |-> m.reg]
  BY DEF Blackened, Popped
<1> HIDE DEF P, s0
<1>7. /\ Of(s0, "GLAY") = Glay \ {P} /\ Of(s0, "BLACK") = Black \cup {P}
      /\ RegCells(s0) = RegCells(m)
  BY <1>2, <1>3, <1>6 DEF Of, Glay, Black, RegCells
<1>8. MarksOK(s0)
  <2>1. s0 \in MarkState
    BY <1>2, <1>3, <1>6 DEF MarkState
  <2>2. {Tail(m.stack)[i] : i \in DOMAIN Tail(m.stack)}
          = {m.stack[i] : i \in DOMAIN m.stack} \ {P}
    <3>1. ASSUME NEW i \in DOMAIN Tail(m.stack)
          PROVE  i + 1 \in DOMAIN m.stack /\ Tail(m.stack)[i] = m.stack[i + 1] /\ m.stack[i + 1] # P
      <4>1. i + 1 \in DOMAIN m.stack /\ 1 \in DOMAIN m.stack /\ i + 1 # 1
        BY <1>3
      <4> QED BY <1>2, <1>3, <4>1 DEF MarksOK, StackOK
    <3>2. ASSUME NEW i \in DOMAIN m.stack, m.stack[i] # P
          PROVE  i - 1 \in DOMAIN Tail(m.stack) /\ Tail(m.stack)[i - 1] = m.stack[i]
      <4>1. i # 1 /\ i - 1 \in 1..Len(m.stack) - 1
        BY <1>3, <3>2
      <4>2. Tail(m.stack)[i - 1] = m.stack[(i - 1) + 1]
        BY <1>3, <4>1
      <4> QED BY <1>3, <4>1, <4>2
    <3>3. \A z \in {Tail(m.stack)[i] : i \in DOMAIN Tail(m.stack)} :
            z \in {m.stack[i] : i \in DOMAIN m.stack} \ {P}
      BY <3>1
    <3>4. \A z \in {m.stack[i] : i \in DOMAIN m.stack} \ {P} :
            z \in {Tail(m.stack)[i] : i \in DOMAIN Tail(m.stack)}
      BY <3>2
    <3> QED BY <3>3, <3>4
  <2>3. ASSUME NEW i \in DOMAIN Tail(m.stack), NEW j \in DOMAIN Tail(m.stack),
               Tail(m.stack)[i] = Tail(m.stack)[j]
        PROVE  i = j
    <3>1. i + 1 \in DOMAIN m.stack /\ j + 1 \in DOMAIN m.stack /\ m.stack[i + 1] = m.stack[j + 1]
      BY <1>3, <2>3
    <3>2. i + 1 = j + 1
      BY <1>2, <3>1 DEF MarksOK, StackOK
    <3> QED BY <1>3, <3>2
  <2>4. StackOK(s0)
    <3>1. s0.stack = Tail(m.stack)
      BY <1>6
    <3>2. Of(s0, "GLAY") = {m.stack[i] : i \in DOMAIN m.stack} \ {P}
      BY <1>2, <1>7 DEF MarksOK, StackOK, Glay
    <3> QED BY <3>1, <3>2, <2>2, <2>3 DEF StackOK
  <2> QED BY <1>2, <1>4, <1>7, <2>1, <2>4 DEF MarksOK, Glay, Black
<1>9. next[P] \in InUse \cup {Eps} /\ (kind[P] = "LIST" => carp[P] \in InUse \cup {Eps})
  BY <1>2, <1>4 DEF Closed
<1>10. InUse \subseteq Cell /\ Ref = Cell \cup {Eps}
  BY DEF InUse, Ref
<1> DEFINE x == next[P]
           y == IF kind[P] = "LIST" THEN carp[P] ELSE Eps
<1>11. x \in InUse \cup {Eps} /\ y \in InUse \cup {Eps}
  BY <1>9
<1>12. /\ MarksOK(s1) /\ s1.reg = s0.reg /\ Of(s1, "BLACK") = Of(s0, "BLACK")
       /\ Of(s1, "GLAY") = Of(s0, "GLAY") \cup ({x} \cap Of(s0, "WHITE") \cap InUse)
  BY <1>2, <1>8, <1>10, <1>11, Push
<1>13. /\ MarksOK(s2) /\ s2.reg = s1.reg /\ Of(s2, "BLACK") = Of(s1, "BLACK")
       /\ Of(s2, "GLAY") = Of(s1, "GLAY") \cup ({y} \cap Of(s1, "WHITE") \cap InUse)
  BY <1>2, <1>10, <1>11, <1>12, Push
<1>14. ASSUME NEW s, MarksOK(s)
       PROVE  Cell = Of(s, "WHITE") \cup Of(s, "GLAY") \cup Of(s, "BLACK")
  BY <1>14 DEF MarksOK, MarkState, Of
<1>15. /\ Glay' = Of(s2, "GLAY") /\ Black' = Black \cup {P} /\ RegCells(m)' = RegCells(m)
       /\ InUse' = InUse /\ Closed(InUse)' = Closed(InUse) /\ Conservation' = Conservation
       /\ Args' = Args /\ \A T : Closed(T)' = Closed(T)
  <2>1. RegCells(s2) = RegCells(m)
    BY <1>7, <1>12, <1>13 DEF RegCells
  <2>2. Glay' = Of(m', "GLAY") /\ Black' = Of(m', "BLACK") /\ RegCells(m)' = RegCells(m')
    BY DEF Glay, Black, Of, RegCells
  <2>3. /\ InUse' = InUse /\ Closed(InUse)' = Closed(InUse) /\ Conservation' = Conservation
        /\ Args' = Args /\ \A T : Closed(T)' = Closed(T)
    BY <1>1 DEF heap, InUse, Closed, Conservation, Args
  <2> QED BY <1>5, <1>7, <1>12, <1>13, <2>1, <2>2, <2>3
<1>16. MarksOK(m)'
  <2>1. MarksOK(m')
    BY <1>5, <1>13
  <2> QED BY <1>15, <2>1 DEF MarksOK, StackOK, Of, RegCells
<1>17. TypeOK'
  BY <1>1, <1>2, <1>5, <1>13 DEF TypeOK, MarksOK, heap
<1>18. /\ Marked \subseteq Marked' /\ {x, y} \subseteq Marked' \cup {Eps}
       /\ Marked' \subseteq Marked \cup ({x, y} \cap InUse)
  <2>1. Cell = Of(s0, "WHITE") \cup Of(s0, "GLAY") \cup Of(s0, "BLACK")
        /\ Cell = Of(s1, "WHITE") \cup Of(s1, "GLAY") \cup Of(s1, "BLACK")
    BY <1>8, <1>12, <1>14
  <2> HIDE DEF x, y, s0, s1, s2
  <2> QED BY <1>4, <1>7, <1>10, <1>11, <1>12, <1>13, <1>15, <2>1 DEF Marked
<1>19. \A c \in Black' : /\ next[c] \in Marked' \cup {Eps}
                         /\ kind[c] = "LIST" => carp[c] \in Marked' \cup {Eps}
  BY <1>1, <1>15, <1>18 DEF IInv, MarkInv
<1>20. \A T \in SUBSET Cell : held \cup touched \subseteq T /\ Closed(T) => Marked' \subseteq T
  <2> SUFFICES ASSUME NEW T \in SUBSET Cell, held \cup touched \subseteq T, Closed(T)
               PROVE  Marked' \subseteq T
    OBVIOUS
  <2>1. Marked \subseteq T
    BY <1>1 DEF IInv, MarkInv
  <2>2. P \in T
    BY <1>4, <2>1 DEF Marked
  <2>3. {x, y} \subseteq T \cup {Eps}
    BY <2>2 DEF Closed
  <2>4. Eps \notin InUse
    BY <1>10, EpsIsNoCell
  <2> QED BY <1>18, <2>1, <2>3, <2>4
<1>21. held \cup touched \cup RegCells(m) \subseteq Marked
  BY <1>1 DEF IInv, MarkInv
<1> HIDE DEF s1, s2, x, y
<1>22. held' \cup touched' \cup RegCells(m)' \subseteq Marked'
  BY <1>1, <1>15, <1>18, <1>21
<1>23. (\A c \in Black : /\ next[c] \in Marked \cup {Eps}
                         /\ kind[c] = "LIST" => carp[c] \in Marked \cup {Eps})'
  BY <1>1, <1>19 DEF heap
<1>25. (\A T \in SUBSET Cell : held \cup touched \subseteq T /\ Closed(T) => Marked \subseteq T)'
  BY <1>1, <1>15, <1>20
<1>24. /\ held' \cup touched' \cup Args' \subseteq InUse' /\ Args' \subseteq touched'
       /\ call'.kind # "none" => free' = {}
       /\ gc_counter' = 1 => InUse' \subseteq touched'
       /\ call'.kind = "none" => call' = NoCall
       /\ gc_counter' # 0 /\ pc' = "mark" /\ Conservation' /\ Closed(InUse)'
  BY <1>1, <1>5, <1>15 DEF IInv, heap
<1>26. MarkInv'
  BY <1>22, <1>23, <1>25 DEF MarkInv
<1> QED BY <1>16, <1>17, <1>24, <1>26 DEF IInv

(* What sweep() frees and keeps: the black cells, which are exactly the    *)
(* cells reachable from the roots and the touched cells.                   *)
LEMMA SweepKeeps ==
  ASSUME IInv, sweep
  PROVE  /\ InUse' = Black /\ Black = Marked /\ Closed(Black)
         /\ held \cup touched \subseteq Black /\ InUse = Black \cup Swept
         /\ Black = Reach(held \cup touched)
<1>1. /\ pc = "sweep" /\ Glay = {}
      /\ kind' = [c \in Cell |-> IF c \in Swept THEN "GC" ELSE kind[c]]
  BY DEF IInv, sweep
<1>2. /\ TypeOK /\ MarksOK(m) /\ MarkInv /\ Black = Marked
  BY <1>1 DEF IInv, Marked
<1>3. Cell = White \cup Black /\ White \cap Black = {}
  BY <1>1, <1>2 DEF TypeOK, MarkState, White, Glay, Black, Of
<1>4. Black \subseteq InUse /\ Swept = White \cap InUse /\ InUse \subseteq Cell
  BY <1>2 DEF MarksOK, Black, Swept, InUse
<1>5. InUse = Black \cup Swept
  BY <1>3, <1>4
<1>6. InUse' = Black
  <2>1. InUse' = {c \in Cell : c \notin Swept /\ kind[c] # "GC"}
    BY <1>1 DEF InUse
  <2>2. {c \in Cell : c \notin Swept /\ kind[c] # "GC"} = InUse \ Swept
    BY DEF InUse
  <2> QED BY <1>3, <1>4, <2>1, <2>2
<1>7. Closed(Black)
  BY <1>2 DEF MarkInv, Closed
<1>8. held \cup touched \subseteq Black
  BY <1>2 DEF MarkInv
<1>9. Black = Reach(held \cup touched)
  <2>1. Black \subseteq Reach(held \cup touched)
    BY <1>2, <1>3 DEF MarkInv, Reach
  <2>2. Reach(held \cup touched) \subseteq Black
    <3>1. Black \in SUBSET Cell
      BY <1>3
    <3> QED BY <3>1, <1>7, <1>8 DEF Reach
  <2> QED BY <2>1, <2>2
<1> QED BY <1>2, <1>5, <1>6, <1>7, <1>8, <1>9

LEMMA SweepIInv ==
  ASSUME IInv, sweep
  PROVE  IInv'
<1>1. /\ pc = "sweep"
      /\ kind' = [c \in Cell |-> IF c \in Swept THEN "GC" ELSE kind[c]]
      /\ carp' = [c \in Cell |-> IF c \in Swept THEN Eps ELSE carp[c]]
      /\ next' = [c \in Cell |-> IF c \in Swept THEN Eps ELSE next[c]]
      /\ free' = free \cup Swept
      /\ m' = [color |-> AllWhite, stack |-> <<>>, reg |-> AllEps]
      /\ touched' = {} /\ UNCHANGED <<held, call, gc_counter>>
      /\ pc' \in {"fatal", "mutator", "vacant"}
      /\ pc' # "fatal" => free' # {}
      /\ pc' = "mutator" => call.kind = "none"
      /\ pc' = "vacant" => call.kind # "none"
  BY DEF sweep
<1>2. /\ InUse' = Black /\ Closed(Black) /\ held \cup touched \subseteq Black
      /\ InUse = Black \cup Swept
  BY SweepKeeps
<1>3. /\ TypeOK /\ Conservation /\ MarksOK(m) /\ Args \subseteq touched /\ gc_counter # 0
  BY <1>1 DEF IInv
<1>4. m' \in MarkState /\ m'.color = AllWhite /\ m'.stack = <<>> /\ m'.reg = AllEps
  BY <1>1, EmptySeq DEF MarkState, AllWhite, AllEps, Ref
<1>5. Of(m, "GLAY")' = {} /\ Of(m, "BLACK")' = {} /\ RegCells(m)' = {} /\ Glay' = {} /\ Black' = {}
  BY <1>4, EpsIsNoCell DEF Of, RegCells, AllWhite, AllEps, Glay, Black
<1>6. StackOK(m)'
  BY <1>4, <1>5 DEF StackOK
<1>7. MarksOK(m)'
  BY <1>4, <1>5, <1>6 DEF MarksOK
<1>8. Swept \subseteq Cell /\ Swept \cap Black = {}
  BY DEF Swept, White, Black, Of, InUse
<1>9. TypeOK'
  BY <1>1, <1>3, <1>4, <1>8 DEF TypeOK, Phase, Ref
<1>10. Conservation'
  BY <1>1, <1>2, <1>3, <1>8 DEF Conservation
<1>11. Closed(InUse)'
  <2>1. ASSUME NEW c \in Black
        PROVE  next'[c] = next[c] /\ carp'[c] = carp[c] /\ kind'[c] = kind[c]
    BY <1>1, <1>8, <2>1 DEF Black, Of
  <2> QED BY <1>2, <2>1 DEF Closed
<1>12. /\ pc' = "mutator" => call' = NoCall
       /\ call'.kind = "none" => call' = NoCall
  BY <1>1 DEF IInv
<1>13. held' \cup touched' \cup Args' \subseteq InUse'
  BY <1>1, <1>2, <1>3 DEF Args
<1> QED BY <1>1, <1>3, <1>5, <1>7, <1>9, <1>10, <1>11, <1>12, <1>13 DEF IInv

LEMMA StepIInv == IInv /\ [Next]_vars => IInv'
<1> SUFFICES ASSUME IInv, [Next]_vars PROVE IInv'
  OBVIOUS
<1>1. ASSUME NEW c \in Cell, Car(c) \/ Cdr(c) \/ Forget(c) PROVE IInv'
  BY <1>1, ReadIInv
<1>2. ASSUME NEW k \in {"TOKEN", "LIST"}, NEW a \in Ref, NEW d \in Ref, cons(k, a, d)
      PROVE  IInv'
  BY <1>2, ConsIInv
<1>3. ASSUME NEW c \in Cell, NEW r \in Ref, set_car(c, r) \/ set_cdr(c, r) PROVE IInv'
  BY <1>3, SetIInv
<1>4. CASE gc \/ Exhausted
  BY <1>4, GcIInv
<1>5. ASSUME NEW c \in Cell, makecell(c) PROVE IInv'
  BY <1>5, MakecellIInv
<1>6. ASSUME NEW c \in Cell, gc_init(c) PROVE IInv'
  BY <1>6, RootIInv
<1>7. CASE gc_init_done \/ gc_mark_done
  BY <1>7, PhaseIInv
<1>8. CASE gc_mark_tail
  BY <1>8, MarkIInv
<1>9. CASE sweep
  BY <1>9, SweepIInv
<1>10. CASE UNCHANGED vars
  <2>1. UNCHANGED <<heap, m>> /\ UNCHANGED <<held, call, pc, gc_counter, touched>>
    BY <1>10 DEF vars
  <2>2. TypeOK' /\ Args' = Args /\ MarkInv' = MarkInv
    BY <2>1, Frame DEF IInv, TypeOK, Args, heap, MarkInv
  <2> QED BY <2>1, <2>2, Frame DEF IInv, heap
<1> QED BY <1>1, <1>2, <1>3, <1>4, <1>5, <1>6, <1>7, <1>8, <1>9, <1>10
        DEF Next, MutatorNext, CollectorNext

LEMMA Invariance == Spec => []IInv
BY InitIInv, StepIInv, PTL DEF Spec

-----------------------------------------------------------------------------
(* Type correctness.                                                       *)
THEOREM TypeCorrect == Spec => []TypeOK
<1>1. IInv => TypeOK
  BY DEF IInv
<1> QED BY <1>1, Invariance, PTL

(* No cell the program can reach is on the free list: cons() never         *)
(* overwrites a list that is still in use.                                 *)
THEOREM LiveCellsAreKept == Spec => []NothingLiveFreed
<1>1. IInv => NothingLiveFreed
  <2> SUFFICES ASSUME IInv PROVE Reach(held \cup Args) \cap free = {}
    BY DEF NothingLiveFreed
  <2>1. InUse \in SUBSET Cell /\ held \cup Args \subseteq InUse /\ Closed(InUse)
    BY DEF IInv, InUse
  <2>2. Reach(held \cup Args) \subseteq InUse
    BY <2>1 DEF Reach
  <2> QED BY <2>2 DEF IInv, Conservation
<1> QED BY <1>1, Invariance, PTL

(* The free list is the set of the vacant cells.                           *)
THEOREM CellsAreConserved == Spec => []Conservation
<1>1. IInv => Conservation
  BY DEF IInv
<1> QED BY <1>1, Invariance, PTL

(* The mark stack holds the grey cells, each once.                         *)
THEOREM StackHoldsGlay == Spec => []GlayOnStack
<1>1. IInv => GlayOnStack
  BY DEF IInv, MarksOK, GlayOnStack
<1> QED BY <1>1, Invariance, PTL

(* When the sweep starts the marking is complete, so that the colour tests *)
(* that are fatal errors in gc_mark_tail and sweep never fail.             *)
THEOREM MarkingIsComplete == Spec => []TriColour
<1>1. IInv => TriColour
  <2> SUFFICES ASSUME IInv, pc = "sweep"
               PROVE  Glay = {} /\ Roots \subseteq Black /\ Closed(Black)
    BY DEF TriColour
  <2>1. MarkInv /\ Marked = Black
    BY DEF IInv, Marked
  <2>2. Roots = held \cup RegCells(m)
    BY DEF Roots, RegCells
  <2> QED BY <2>1, <2>2 DEF IInv, MarkInv, Closed
<1> QED BY <1>1, Invariance, PTL

(* A collection keeps exactly what is reachable from the C stack and from  *)
(* the cells that went through a register since the last collection.       *)
THEOREM CollectionKeepsExactly == Spec => SweepKeepsExactly
<1>1. IInv /\ [Next]_vars => [pc = "sweep" => InUse' = Reach(held \cup touched)]_vars
  <2> SUFFICES ASSUME IInv, Next, pc = "sweep"
               PROVE  InUse' = Reach(held \cup touched)
    OBVIOUS
  <2>1. sweep
    BY DEF Next, MutatorNext, CollectorNext, Car, Cdr, Forget, cons, set_car, set_cdr, gc,
           Exhausted, makecell, gc_init, gc_init_done, gc_mark_tail, gc_mark_done
  <2> QED BY <2>1, SweepKeeps
<1> QED BY <1>1, Invariance, PTL DEF Spec, SweepKeepsExactly

(* When the cells run out before any collection was made, the collection   *)
(* that cons() starts frees none of them and the program ends: every cell  *)
(* ever made went through a register.                                      *)
THEOREM FirstExhaustionEnds == Spec => FirstExhaustionFatal
<1>1. IInv /\ [Next]_vars =>
        [gc_counter = 1 /\ pc = "sweep" /\ call.kind # "none" => pc' = "fatal"]_vars
  <2> SUFFICES ASSUME IInv, Next, gc_counter = 1, pc = "sweep", call.kind # "none"
               PROVE  pc' = "fatal"
    OBVIOUS
  <2>1. sweep
    BY DEF Next, MutatorNext, CollectorNext, Car, Cdr, Forget, cons, set_car, set_cdr, gc,
           Exhausted, makecell, gc_init, gc_init_done, gc_mark_tail, gc_mark_done
  <2>2. free = {} /\ InUse \subseteq touched
    BY DEF IInv
  <2>3. InUse \subseteq Black
    BY <2>1, <2>2, SweepKeeps
  <2>4. Swept = {}
    BY <2>3 DEF Swept, White, Black, Of
  <2> QED BY <2>1, <2>2, <2>4 DEF sweep
<1> QED BY <1>1, Invariance, PTL DEF Spec, FirstExhaustionFatal
=============================================================================
