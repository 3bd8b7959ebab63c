--------------------------- MODULE Channel_proofs ---------------------------
(***************************************************************************)
(* Proofs about the cons-list channel, for every set of labels and values  *)
(* and every number of messages.                                           *)
(***************************************************************************)
EXTENDS Channel, SequenceLemmas, TLAPS

(* With one message per label, lookup finds the message of the label.      *)
LEMMA LookupFound ==
  ASSUME NEW c \in Seq(Message), OnePerLabel(c), NEW i \in 1..Len(c)
  PROVE  lookup_ch1(c, c[i].label) = c[i].value
<1>1. {j \in 1..Len(c) : c[j].label = c[i].label} = {i}
  BY DEF OnePerLabel
<1>2. SelectInSeq(c, LAMBDA m : m.label = c[i].label) = i
  BY <1>1, MinSingleton, LenProperties DEF SelectInSeq
<1> QED BY <1>2 DEF lookup_ch1

(* Without a message of the label, lookup returns the null pointer.        *)
LEMMA LookupNone ==
  ASSUME NEW c, NEW l, \A i \in 1..Len(c) : c[i].label # l
  PROVE  lookup_ch1(c, l) = Nil
<1>1. {j \in 1..Len(c) : c[j].label = l} = {}
  OBVIOUS
<1>2. SelectInSeq(c, LAMBDA m : m.label = l) = 0
  BY <1>1 DEF SelectInSeq
<1> QED BY <1>2 DEF lookup_ch1

(* A label is readable exactly when some message carries it.               *)
LEMMA TransIffCarried ==
  ASSUME NEW c \in Seq(Message), OnePerLabel(c), NEW l
  PROVE  istrans_in_act(c, l) <=> \E i \in 1..Len(c) : c[i].label = l
<1>1. ASSUME NEW i \in 1..Len(c), c[i].label = l
      PROVE  istrans_in_act(c, l)
  <2>1. lookup_ch1(c, l) = c[i].value
    BY <1>1, LookupFound
  <2>2. c[i] \in Message
    BY ElementOfSeq
  <2> QED BY <2>1, <2>2, NilIsNoValue DEF istrans_in_act, Message
<1>2. ASSUME \A i \in 1..Len(c) : c[i].label # l
      PROVE  ~istrans_in_act(c, l)
  BY <1>2, LookupNone DEF istrans_in_act
<1> QED BY <1>1, <1>2

(* delete removes the one message that equals the pair it is given.        *)
LEMMA DeleteFound ==
  ASSUME NEW c \in Seq(Message), OnePerLabel(c), NEW i \in 1..Len(c)
  PROVE  delete(c[i], c) = RemoveAt(c, i)
<1>1. {j \in 1..Len(c) : c[j] = c[i]} = {i}
  BY DEF OnePerLabel
<1>2. SelectInSeq(c, LAMBDA v : v = c[i]) = i
  BY <1>1, MinSingleton, LenProperties DEF SelectInSeq
<1>3. \E j \in 1..Len(c) : c[j] = c[i]
  OBVIOUS
<1> QED BY <1>2, <1>3 DEF delete, RemoveFirst

-----------------------------------------------------------------------------
(* What a send does to the list.                                           *)
LEMMA SendList ==
  ASSUME NEW c \in Seq(Message), OnePerLabel(c), NEW l \in Label, NEW v \in Value,
         ~istrans_in_act(c, l)
  PROVE  LET d == n_bound_ch(c, l, v)
         IN  /\ d \in Seq(Message)
             /\ OnePerLabel(d)
             /\ lookup_ch1(d, l) = v
             /\ \A k : k # l => lookup_ch1(d, k) = lookup_ch1(c, k)
<1> DEFINE m == Msg(l, v)
           d == n_bound_ch(c, l, v)
<1>1. m \in Message /\ m.label = l /\ m.value = v
  BY DEF Msg, Message
<1>2. <<m>> \in Seq(Message) /\ Len(<<m>>) = 1 /\ <<m>>[1] = m
  BY <1>1
<1> HIDE DEF m
<1>3. d = <<m>> \o c
  BY DEF n_bound_ch, Cons, m
<1>4. Len(c) \in Nat
  BY LenProperties
<1>5. /\ d \in Seq(Message)
      /\ Len(d) = Len(c) + 1
      /\ d[1] = m
      /\ \A i \in 1..Len(c) : d[i + 1] = c[i]
  BY <1>2, <1>3, <1>4, ConcatProperties
<1> HIDE DEF d
<1>6. \A i \in 1..Len(d) : i = 1 \/ (i - 1 \in 1..Len(c) /\ d[i] = c[i - 1])
  BY <1>4, <1>5
<1>7. \A i \in 1..Len(c) : c[i].label # l
  BY TransIffCarried
<1>8. OnePerLabel(d)
  BY <1>1, <1>4, <1>5, <1>6, <1>7 DEF OnePerLabel
<1>9. lookup_ch1(d, l) = v
  BY <1>1, <1>4, <1>5, <1>8, LookupFound
<1>10. ASSUME NEW k, k # l
       PROVE  lookup_ch1(d, k) = lookup_ch1(c, k)
  <2>1. CASE \E i \in 1..Len(c) : c[i].label = k
    <3>1. PICK i \in 1..Len(c) : c[i].label = k
      BY <2>1
    <3>2. i + 1 \in 1..Len(d) /\ d[i + 1] = c[i]
      BY <1>4, <1>5
    <3>3. lookup_ch1(d, k) = c[i].value
      BY <3>1, <3>2, <1>5, <1>8, LookupFound
    <3>4. lookup_ch1(c, k) = c[i].value
      BY <3>1, LookupFound
    <3> QED BY <3>3, <3>4
  <2>2. CASE \A i \in 1..Len(c) : c[i].label # k
    <3>1. \A i \in 1..Len(d) : d[i].label # k
      BY <2>2, <1>1, <1>5, <1>6, <1>10
    <3> QED BY <3>1, <2>2, LookupNone
  <2> QED BY <2>1, <2>2
<1> QED BY <1>5, <1>8, <1>9, <1>10 DEF d

(* What a receive does to the list.                                        *)
LEMMA RecvList ==
  ASSUME NEW c \in Seq(Message), OnePerLabel(c), NEW l \in Label,
         istrans_in_act(c, l)
  PROVE  LET v == lookup_ch1(c, l)
             d == delete(Msg(l, v), c)
         IN  /\ v \in Value
             /\ d \in Seq(Message)
             /\ OnePerLabel(d)
             /\ lookup_ch1(d, l) = Nil
             /\ \A k : k # l => lookup_ch1(d, k) = lookup_ch1(c, k)
<1>1. PICK i \in 1..Len(c) : c[i].label = l
  BY TransIffCarried
<1> DEFINE d == RemoveAt(c, i)
<1>2. c[i] \in Message
  BY ElementOfSeq
<1>3. lookup_ch1(c, l) = c[i].value
  BY <1>1, LookupFound
<1>4. Msg(l, lookup_ch1(c, l)) = c[i]
  BY <1>1, <1>2, <1>3 DEF Msg, Message
<1>5. delete(Msg(l, lookup_ch1(c, l)), c) = d
  BY <1>4, DeleteFound
<1>6. Len(c) \in Nat
  BY LenProperties
<1>7. /\ d \in Seq(Message)
      /\ Len(d) = Len(c) - 1
      /\ \A j \in 1..Len(d) : d[j] = IF j < i THEN c[j] ELSE c[j + 1]
  BY RemoveAtProperties
<1> HIDE DEF d
<1>8. ASSUME NEW j \in 1..Len(d)
      PROVE  \E n \in 1..Len(c) : n # i /\ d[j] = c[n] /\ n = IF j < i THEN j ELSE j + 1
  BY <1>6, <1>7
<1>9. OnePerLabel(d)
  BY <1>6, <1>7, <1>8 DEF OnePerLabel
<1>10. lookup_ch1(d, l) = Nil
  <2>1. \A j \in 1..Len(d) : d[j].label # l
    BY <1>1, <1>8 DEF OnePerLabel
  <2> QED BY <2>1, LookupNone
<1>11. ASSUME NEW k, k # l
       PROVE  lookup_ch1(d, k) = lookup_ch1(c, k)
  <2>1. CASE \E n \in 1..Len(c) : c[n].label = k
    <3>1. PICK n \in 1..Len(c) : c[n].label = k
      BY <2>1
    <3>2. n # i
      BY <3>1, <1>1, <1>11
    <3>3. PICK j \in 1..Len(d) : d[j] = c[n]
      <4>1. CASE n < i
        BY <4>1, <1>6, <1>7
      <4>2. CASE n > i
        <5>1. n - 1 \in 1..Len(d) /\ ~(n - 1 < i) /\ (n - 1) + 1 = n
          BY <4>2, <1>6, <1>7
        <5> QED BY <5>1, <1>7
      <4> QED BY <4>1, <4>2, <3>2
    <3>4. lookup_ch1(d, k) = c[n].value
      BY <3>1, <3>3, <1>7, <1>9, LookupFound
    <3>5. lookup_ch1(c, k) = c[n].value
      BY <3>1, LookupFound
    <3> QED BY <3>4, <3>5
  <2>2. CASE \A n \in 1..Len(c) : c[n].label # k
    <3>1. \A j \in 1..Len(d) : d[j].label # k
      BY <2>2, <1>8
    <3> QED BY <3>1, <2>2, LookupNone
  <2> QED BY <2>1, <2>2
<1> QED BY <1>2, <1>3, <1>5, <1>7, <1>9, <1>10, <1>11 DEF Message
-----------------------------------------------------------------------------
(* The inductive invariant: one message per label, and the histories agree *)
(* with the list until an outer input action throws the list away.         *)
IInv == TypeOK /\ Bound /\ NotVanishBeforeOuter

LEMMA InitIInv == Init => IInv
<1> SUFFICES ASSUME Init PROVE IInv
  OBVIOUS
<1>1. TypeOK
  BY DEF Init, TypeOK
<1>2. Bound
  BY DEF Init, Bound, OnePerLabel
<1>3. \A l \in Label : Pending(l) = <<>>
  <2>1. ASSUME NEW l \in Label PROVE lookup_ch1(<<>>, l) = Nil
    BY LookupNone
  <2> QED BY <2>1 DEF Init, Pending, istrans_in_act
<1>4. NotVanishBeforeOuter
  BY <1>3 DEF Init, NotVanishBeforeOuter, NotVanish
<1> QED BY <1>1, <1>2, <1>4 DEF IInv

LEMMA SendIInv ==
  ASSUME IInv, NEW l \in Label, NEW v \in Value, SendInner(l, v)
  PROVE  IInv'
<1>1. /\ ch \in Seq(Message) /\ ch # Nil
      /\ OnePerLabel(ch)
      /\ ~istrans_in_act(ch, l)
      /\ ch' = n_bound_ch(ch, l, v)
      /\ sent' = [sent EXCEPT ![l] = Append(@, v)]
      /\ rcvd' = rcvd /\ status' = status /\ status = "running"
      /\ sent \in [Label -> Seq(Value)] /\ rcvd \in [Label -> Seq(Value)]
      /\ NotVanish
  BY DEF IInv, TypeOK, Bound, NotVanishBeforeOuter, SendInner
<1>2. /\ ch' \in Seq(Message)
      /\ OnePerLabel(ch')
      /\ lookup_ch1(ch', l) = v
      /\ \A k : k # l => lookup_ch1(ch', k) = lookup_ch1(ch, k)
  BY <1>1, SendList
<1>3. TypeOK'
  BY <1>1, <1>2 DEF TypeOK
<1>4. Bound'
  BY <1>2 DEF Bound
<1>5. ASSUME NEW k \in Label, ch' # Nil
      PROVE  sent'[k] = rcvd'[k] \o Pending(k)'
  <2>1. CASE k = l
    <3>1. Pending(l) = <<>> /\ Pending(l)' = <<v>>
      BY <1>1, <1>2, <1>5, NilIsNoValue DEF Pending, istrans_in_act
    <3>2. rcvd[l] \in Seq(Value) /\ sent[l] = rcvd[l] \o <<>>
      BY <1>1, <3>1 DEF NotVanish
    <3>3. sent[l] = rcvd[l]
      BY <3>2, ConcatEmptySeq
    <3>4. Append(rcvd[l], v) = rcvd[l] \o <<v>>
      BY <3>2, AppendIsConcat
    <3> QED BY <1>1, <2>1, <3>1, <3>3, <3>4
  <2>2. CASE k # l
    <3>1. Pending(k)' = Pending(k)
      BY <1>1, <1>2, <1>5, <2>2 DEF Pending, istrans_in_act
    <3> QED BY <1>1, <2>2, <3>1 DEF NotVanish
  <2> QED BY <2>1, <2>2
<1>6. NotVanishBeforeOuter'
  BY <1>1, <1>5 DEF NotVanishBeforeOuter, NotVanish
<1> QED BY <1>3, <1>4, <1>6 DEF IInv

LEMMA RecvIInv ==
  ASSUME IInv, NEW l \in Label, RecvInner(l)
  PROVE  IInv'
<1> DEFINE v == lookup_ch1(ch, l)
<1>1. /\ ch \in Seq(Message) /\ ch # Nil
      /\ OnePerLabel(ch)
      /\ istrans_in_act(ch, l)
      /\ ch' = delete(Msg(l, v), ch)
      /\ rcvd' = [rcvd EXCEPT ![l] = Append(@, v)]
      /\ sent' = sent /\ status' = status /\ status = "running"
      /\ sent \in [Label -> Seq(Value)] /\ rcvd \in [Label -> Seq(Value)]
      /\ NotVanish
  BY DEF IInv, TypeOK, Bound, NotVanishBeforeOuter, RecvInner
<1>2. /\ v \in Value
      /\ ch' \in Seq(Message)
      /\ OnePerLabel(ch')
      /\ lookup_ch1(ch', l) = Nil
      /\ \A k : k # l => lookup_ch1(ch', k) = lookup_ch1(ch, k)
  BY <1>1, RecvList
<1>3. TypeOK'
  BY <1>1, <1>2 DEF TypeOK
<1>4. Bound'
  BY <1>2 DEF Bound
<1>5. ASSUME NEW k \in Label, ch' # Nil
      PROVE  sent'[k] = rcvd'[k] \o Pending(k)'
  <2>1. CASE k = l
    <3>1. Pending(l) = <<v>> /\ Pending(l)' = <<>>
      BY <1>1, <1>2, <1>5 DEF Pending, istrans_in_act
    <3>2. rcvd[l] \in Seq(Value) /\ sent[l] = rcvd[l] \o <<v>>
      BY <1>1, <3>1 DEF NotVanish
    <3>3. Append(rcvd[l], v) = rcvd[l] \o <<v>>
      BY <1>2, <3>2, AppendIsConcat
    <3>4. Append(rcvd[l], v) \in Seq(Value)
      BY <1>2, <3>2
    <3>5. Append(rcvd[l], v) \o <<>> = Append(rcvd[l], v)
      BY <3>4, ConcatEmptySeq
    <3>6. rcvd'[l] = Append(rcvd[l], v)
      BY <1>1
    <3> QED BY <1>1, <2>1, <3>1, <3>2, <3>3, <3>5, <3>6
  <2>2. CASE k # l
    <3>1. Pending(k)' = Pending(k)
      BY <1>1, <1>2, <1>5, <2>2 DEF Pending, istrans_in_act
    <3> QED BY <1>1, <2>2, <3>1 DEF NotVanish
  <2> QED BY <2>1, <2>2
<1>6. NotVanishBeforeOuter'
  BY <1>1, <1>5 DEF NotVanishBeforeOuter, NotVanish
<1> QED BY <1>3, <1>4, <1>6 DEF IInv

LEMMA StepIInv == IInv /\ [Next]_vars => IInv'
<1> SUFFICES ASSUME IInv, [Next]_vars PROVE IInv'
  OBVIOUS
<1>1. ASSUME NEW l \in Label, NEW v \in Value, SendInner(l, v) PROVE IInv'
  BY <1>1, SendIInv
<1>2. ASSUME NEW l \in Label, RecvInner(l) PROVE IInv'
  BY <1>2, RecvIInv
<1>3. ASSUME NEW l \in Outer, RecvOuter(l) PROVE IInv'
  BY <1>3 DEF IInv, TypeOK, Bound, NotVanishBeforeOuter, RecvOuter
<1>4. ASSUME NEW l \in Label, TestNil(l) PROVE IInv'
  BY <1>4 DEF IInv, TypeOK, Bound, NotVanishBeforeOuter, TestNil
<1>5. CASE UNCHANGED vars
  BY <1>5 DEF IInv, TypeOK, Bound, NotVanishBeforeOuter, NotVanish, Pending, vars
<1> QED BY <1>1, <1>2, <1>3, <1>4, <1>5 DEF Next, InnerNext

LEMMA Invariance == Spec => []IInv
BY InitIInv, StepIInv, PTL DEF Spec

(* Type correctness of the channel, for every set of labels and values.    *)
THEOREM TypeCorrect == Spec => []TypeOK
<1>1. IInv => TypeOK
  BY DEF IInv
<1> QED BY Invariance, <1>1, PTL

(* The bound theorem of the manual: no label is ever carried by two        *)
(* messages, whatever the programs do (evalprefix tests before it sends).  *)
THEOREM BoundHolds == Spec => []Bound
<1>1. IInv => Bound
  BY DEF IInv
<1> QED BY Invariance, <1>1, PTL

(* Until a process performs an outer input action, every message read was  *)
(* written, in order, once, and those not read are still in the list.      *)
THEOREM NothingVanishesBeforeOuter == Spec => []NotVanishBeforeOuter
<1>1. IInv => NotVanishBeforeOuter
  BY DEF IInv
<1> QED BY Invariance, <1>1, PTL
-----------------------------------------------------------------------------
(* Programs that use inner actions only.                                   *)
InnerSpec == Init /\ [][InnerNext]_vars

LEMMA InnerIsNext == InnerNext => Next
BY DEF Next

LEMMA StaysList == ch # Nil /\ IInv /\ [InnerNext]_vars => (ch # Nil)'
<1> SUFFICES ASSUME ch # Nil, IInv, [InnerNext]_vars PROVE ch' # Nil
  OBVIOUS
<1>1. ch \in Seq(Message) /\ OnePerLabel(ch)
  BY DEF IInv, TypeOK, Bound
<1>2. ASSUME NEW l \in Label, NEW v \in Value, SendInner(l, v) PROVE ch' # Nil
  <2>1. ch' \in Seq(Message)
    BY <1>1, <1>2, SendList DEF SendInner
  <2> QED BY <2>1, NilIsNoList DEF Message
<1>3. ASSUME NEW l \in Label, RecvInner(l) PROVE ch' # Nil
  <2>1. ch' \in Seq(Message)
    BY <1>1, <1>3, RecvList DEF RecvInner
  <2> QED BY <2>1, NilIsNoList DEF Message
<1> QED BY <1>2, <1>3 DEF InnerNext, vars

LEMMA InnerInvariance == InnerSpec => [](IInv /\ ch # Nil)
<1>1. Init => IInv /\ ch # Nil
  <2>1. <<>> \in Seq(Message)
    OBVIOUS
  <2> QED BY <2>1, InitIInv, NilIsNoList DEF Init, Message
<1>2. IInv /\ ch # Nil /\ [InnerNext]_vars => (IInv /\ ch # Nil)'
  BY StepIInv, StaysList, InnerIsNext
<1> QED BY <1>1, <1>2, PTL DEF InnerSpec

(* Without outer input actions messages never vanish: what was written to  *)
(* a label is what was read from it followed by what is in transit.        *)
THEOREM NothingVanishes == InnerSpec => []NotVanish
<1>1. IInv /\ ch # Nil => NotVanish
  BY DEF IInv, NotVanishBeforeOuter
<1> QED BY InnerInvariance, <1>1, PTL

-----------------------------------------------------------------------------
LEMMA InitMedia == Init => Media!Init
<1> SUFFICES ASSUME Init PROVE slots = [l \in Label |-> Nil]
  BY DEF Media!Init
<1>1. ASSUME NEW l \in Label PROVE lookup_ch1(<<>>, l) = Nil
  BY LookupNone
<1> QED BY <1>1 DEF Init, slots

(* A prefix on an inner label is a step of the registers.                  *)
LEMMA StepMedia == IInv /\ ch # Nil /\ ch' # Nil /\ [InnerNext]_vars => [Media!Next]_slots
<1> SUFFICES ASSUME IInv, ch # Nil, ch' # Nil, [InnerNext]_vars
             PROVE  Media!Next \/ slots' = slots
  OBVIOUS
<1>1. /\ slots = [l \in Label |-> lookup_ch1(ch, l)]
      /\ slots' = [l \in Label |-> lookup_ch1(ch', l)]
      /\ ch \in Seq(Message) /\ OnePerLabel(ch)
  BY DEF IInv, TypeOK, Bound, slots
<1>2. ASSUME NEW l \in Label, NEW v \in Value, SendInner(l, v)
      PROVE  Media!Next
  <2>1. /\ lookup_ch1(ch', l) = v
        /\ \A k : k # l => lookup_ch1(ch', k) = lookup_ch1(ch, k)
    BY <1>1, <1>2, SendList DEF SendInner
  <2>2. slots[l] = Nil
    BY <1>1, <1>2 DEF SendInner, istrans_in_act
  <2>3. slots' = [slots EXCEPT ![l] = v]
    BY <1>1, <2>1
  <2> QED BY <2>2, <2>3 DEF Media!Next, Media!Write
<1>3. ASSUME NEW l \in Label, RecvInner(l)
      PROVE  Media!Next
  <2>1. /\ lookup_ch1(ch', l) = Nil
        /\ \A k : k # l => lookup_ch1(ch', k) = lookup_ch1(ch, k)
    BY <1>1, <1>3, RecvList DEF RecvInner
  <2>2. slots[l] # Nil
    BY <1>1, <1>3 DEF RecvInner, istrans_in_act
  <2>3. slots' = [slots EXCEPT ![l] = Nil]
    BY <1>1, <2>1
  <2> QED BY <2>2, <2>3 DEF Media!Next, Media!Read
<1>4. CASE UNCHANGED vars
  BY <1>4 DEF vars, slots
<1> QED BY <1>2, <1>3, <1>4 DEF InnerNext

(* Without outer input actions the list implements one register per label. *)
THEOREM ImplementsMedia == InnerSpec => MediaSpec
<1>1. IInv /\ ch # Nil /\ (ch # Nil)' /\ [InnerNext]_vars => [Media!Next]_slots
  BY StepMedia
<1> QED BY <1>1, InitMedia, InnerInvariance, PTL DEF InnerSpec, MediaSpec, Media!Spec

(* In any program it does so up to the outer input that leaves ch NIL.     *)
THEOREM ImplementsMediaUntilOuter == Spec => MediaUntilOuter
<1>1. IInv /\ [Next]_vars => [ch' = Nil \/ Media!Next]_slots
  <2> SUFFICES ASSUME IInv, [Next]_vars, ch' # Nil
               PROVE  [Media!Next]_slots
    OBVIOUS
  <2>1. ASSUME NEW l \in Outer, RecvOuter(l) PROVE FALSE
    BY <2>1 DEF RecvOuter
  <2>2. CASE ch = Nil
    <3>1. UNCHANGED ch
      BY <2>1, <2>2 DEF Next, InnerNext, SendInner, RecvInner, TestNil, vars
    <3> QED BY <2>2, <3>1
  <2>3. CASE ch # Nil
    <3>1. [InnerNext]_vars
      BY <2>1, <2>3 DEF Next, TestNil
    <3> QED BY <2>3, <3>1, StepMedia
  <2> QED BY <2>2, <2>3
<1> QED BY <1>1, InitMedia, Invariance, PTL DEF Spec, MediaUntilOuter
=============================================================================
