------------------------- MODULE QueueChannel_proofs -------------------------
(***************************************************************************)
(* Proofs about the channel of option -q, for every heap, every set of     *)
(* labels and values and every nesting of operands: the pointers stay      *)
(* those of a queue, and the queue answers as the default channel does.    *)
(***************************************************************************)
EXTENDS QueueChannel, SequenceLemmas

Message == [label : Label, value : Value]
Queues == [car : Cell \cup {Null}, cdr : Cell \cup {Null},
           next : [Cell -> Cell \cup {Null}], msg : [Cell -> Message \cup {Null}]]

(* The cells b of a buffer, and the end of the list behind them.           *)
Nth(b, i) == IF i \in 1 .. Len(b) THEN b[i] ELSE Null
Distinct(b) == \A i, j \in 1 .. Len(b) : b[i] = b[j] => i = j

(* The cells of b are linked from the front of the queue to its end.       *)
Linked(q, b) == /\ q \in Queues /\ b \in Seq(Cell) /\ Distinct(b)
                /\ q.car = Nth(b, 1) /\ q.cdr = Nth(b, Len(b))
                /\ \A i \in 1 .. Len(b) : q.next[b[i]] = Nth(b, i + 1)

LEMMA Cells ==
  ASSUME NEW b \in Seq(Cell)
  PROVE  /\ Len(b) \in Nat /\ DOMAIN b = 1 .. Len(b)
         /\ \A i \in 1 .. Len(b) : b[i] \in Cell /\ b[i] # Null /\ Nth(b, i) = b[i]
         /\ \A i : i \notin 1 .. Len(b) => Nth(b, i) = Null
         /\ Cardinality(Cell) \in Nat
BY LenProperties, ElementOfSeq, NullIsNoCell, CellsAreFew, FS_CardinalityType DEF Nth

(* There are not more of them than there are cells.                        *)
LEMMA NotMoreThanCells ==
  ASSUME NEW b \in Seq(Cell), Distinct(b)
  PROVE  Len(b) <= Cardinality(Cell)
<1>1. Len(b) \in Nat /\ b \in [1 .. Len(b) -> Cell]
  BY LenProperties
<1>2. b \in Injection(1 .. Len(b), Cell)
  BY <1>1 DEF Injection, IsInjective, Distinct
<1>3. Cardinality(1 .. Len(b)) <= Cardinality(Cell)
  BY <1>2, CellsAreFew, FS_Injection
<1>4. Cardinality(1 .. Len(b)) = Len(b)
  BY <1>1, Counting
<1> QED BY <1>3, <1>4

(* A walk passes the cells in their order, and stays at Null behind them.  *)
LEMMA WalkIs ==
  ASSUME NEW q, NEW b, Linked(q, b), NEW i \in Nat \ {0}
  PROVE  /\ DOMAIN Walk(q, Nth(b, i)) = 0 .. Cardinality(Cell)
         /\ \A n \in 0 .. Cardinality(Cell) : Walk(q, Nth(b, i))[n] = Nth(b, i + n)
<1> DEFINE K == Cardinality(Cell)
           Is(f) == f = [n \in 0 .. K |-> IF n = 0 THEN Nth(b, i) ELSE
                                          IF f[n - 1] = Null THEN Null ELSE q.next[f[n - 1]]]
           g == [n \in 0 .. K |-> Nth(b, i + n)]
           w == CHOOSE f : Is(f)
<1>1. /\ K \in Nat /\ Len(b) \in Nat /\ \A j \in 1 .. Len(b) : b[j] # Null /\ Nth(b, j) = b[j]
      /\ \A j : j \notin 1 .. Len(b) => Nth(b, j) = Null
  BY Cells DEF Linked
<1>2. \A n \in Nat : IF Nth(b, i + n) = Null THEN Nth(b, i + n + 1) = Null
                     ELSE q.next[Nth(b, i + n)] = Nth(b, i + n + 1)
  <2> SUFFICES ASSUME NEW n \in Nat
               PROVE  IF Nth(b, i + n) = Null THEN Nth(b, i + n + 1) = Null
                      ELSE q.next[Nth(b, i + n)] = Nth(b, i + n + 1)
    OBVIOUS
  <2>1. CASE i + n \in 1 .. Len(b)
    BY <1>1, <2>1 DEF Linked
  <2>2. CASE i + n \notin 1 .. Len(b)
    <3>1. i + n + 1 \notin 1 .. Len(b)
      BY <1>1, <2>2
    <3> QED BY <1>1, <2>2, <3>1
  <2> QED BY <2>1, <2>2
<1>3. Is(g)
  <2>1. ASSUME NEW n \in 0 .. K
        PROVE  g[n] = IF n = 0 THEN Nth(b, i) ELSE
                      IF g[n - 1] = Null THEN Null ELSE q.next[g[n - 1]]
    <3>1. CASE n = 0
      BY <3>1, <1>1
    <3>2. CASE n # 0
      <4>1. n - 1 \in Nat /\ n - 1 \in 0 .. K /\ i + (n - 1) + 1 = i + n
        BY <3>2, <1>1
      <4>2. g[n - 1] = Nth(b, i + (n - 1)) /\ g[n] = Nth(b, i + n)
        BY <4>1
      <4> QED BY <1>2, <3>2, <4>1, <4>2
    <3> QED BY <3>1, <3>2
  <2>2. g = [n \in 0 .. K |-> g[n]]
    OBVIOUS
  <2> HIDE DEF g
  <2> QED BY <2>1, <2>2
<1>4. Is(w)
  <2> HIDE DEF Is, g
  <2> QED BY <1>3
<1>5. \A n \in 0 .. K : w[n] = Nth(b, i + n)
  <2> DEFINE G == {n \in Nat : n <= K => w[n] = Nth(b, i + n)}
  <2> HIDE DEF w
  <2>1. 0 \in G
    BY <1>1, <1>4
  <2>2. ASSUME NEW n \in Nat, n \in G
        PROVE  n + 1 \in G
    <3> SUFFICES ASSUME n + 1 <= K PROVE w[n + 1] = Nth(b, i + (n + 1))
      OBVIOUS
    <3>1. n + 1 \in 0 .. K /\ n + 1 # 0 /\ (n + 1) - 1 = n /\ n <= K /\ i + n + 1 = i + (n + 1)
      BY <1>1
    <3>2. w[n + 1] = IF w[n] = Null THEN Null ELSE q.next[w[n]]
      BY <1>4, <3>1
    <3>3. w[n] = Nth(b, i + n)
      BY <2>2, <3>1
    <3> QED BY <1>2, <3>1, <3>2, <3>3
  <2>3. Nat \subseteq G
    <3> HIDE DEF G
    <3> QED BY <2>1, <2>2, NatSetInduction
  <2> QED BY <1>1, <2>3
<1>6. Walk(q, Nth(b, i)) = w
  BY DEF Walk
<1>7. DOMAIN w = 0 .. K
  <2> HIDE DEF w
  <2> QED BY <1>4
<1> HIDE DEF w
<1> QED BY <1>5, <1>6, <1>7

(* The buffer of the queue is these cells.                                 *)
LEMMA BufferIs ==
  ASSUME NEW q, NEW b, Linked(q, b)
  PROVE  Buffer(q) = b
<1> DEFINE K == Cardinality(Cell)
           w == Walk(q, q.car)
<1>1. /\ b \in Seq(Cell) /\ Len(b) \in Nat /\ DOMAIN b = 1 .. Len(b) /\ K \in Nat
      /\ \A i \in 1 .. Len(b) : b[i] # Null /\ Nth(b, i) = b[i]
      /\ \A i : i \notin 1 .. Len(b) => Nth(b, i) = Null
      /\ b \in [1 .. Len(b) -> Cell] /\ q.car = Nth(b, 1)
  BY Cells, LenProperties DEF Linked
<1>2. Len(b) <= K
  BY NotMoreThanCells DEF Linked
<1>3. DOMAIN w = 0 .. K /\ \A n \in 0 .. K : w[n] = Nth(b, 1 + n)
  BY <1>1, WalkIs
<1> HIDE DEF w, K
<1>4. {n \in DOMAIN w : w[n] # Null} = 0 .. Len(b) - 1
  <2>1. \A n \in 0 .. K : 1 + n \in 1 .. Len(b) <=> n \in 0 .. Len(b) - 1
    BY <1>1
  <2>2. \A n \in 0 .. K : w[n] # Null <=> n \in 0 .. Len(b) - 1
    BY <1>1, <1>3, <2>1
  <2>3. 0 .. Len(b) - 1 \subseteq 0 .. K
    BY <1>1, <1>2
  <2> QED BY <1>3, <2>2, <2>3
<1>5. Cardinality({n \in DOMAIN w : w[n] # Null}) = Len(b)
  <2>1. Cardinality(0 .. Len(b) - 1) = Len(b)
    BY <1>1, Counting
  <2> QED BY <1>4, <2>1
<1>6. Buffer(q) = [i \in 1 .. Len(b) |-> w[i - 1]]
  BY <1>5 DEF Buffer, w
<1>7. \A i \in 1 .. Len(b) : w[i - 1] = b[i]
  <2> SUFFICES ASSUME NEW i \in 1 .. Len(b) PROVE w[i - 1] = b[i]
    OBVIOUS
  <2>1. i - 1 \in 0 .. K /\ 1 + (i - 1) = i
    BY <1>1, <1>2
  <2> QED BY <1>1, <1>3, <2>1
<1> QED BY <1>1, <1>6, <1>7

(* A walk that looks for the cells of T stops at the first of them, or     *)
(* behind the last cell.                                                   *)
FirstIn(b, s, T, i) == (i <= Len(b) => b[i] \in T) /\ \A j \in s .. i - 1 : b[j] \notin T
Ends(w, T) == {k \in DOMAIN w : w[k] = Null \/ w[k] \in T}

LEMMA WalkStops ==
  ASSUME NEW q, NEW b, Linked(q, b), NEW s \in 1 .. Len(b) + 1, NEW i \in s .. Len(b) + 1,
         NEW T, FirstIn(b, s, T, i), NEW w, w = Walk(q, Nth(b, s))
  PROVE  LET n == Min(Ends(w, T))
         IN  n = i - s /\ n \in DOMAIN w /\ w[n] = Nth(b, i)
<1> DEFINE K == Cardinality(Cell)
           N == Ends(w, T)
<1>1. /\ b \in Seq(Cell) /\ Len(b) \in Nat /\ K \in Nat /\ Len(b) <= K
      /\ \A j \in 1 .. Len(b) : b[j] # Null /\ Nth(b, j) = b[j]
      /\ \A j : j \notin 1 .. Len(b) => Nth(b, j) = Null
  BY Cells, NotMoreThanCells DEF Linked
<1>2. s \in Nat \ {0} /\ i \in Nat \ {0} /\ i - s \in 0 .. K /\ s + (i - s) = i
  BY <1>1
<1>3. DOMAIN w = 0 .. K /\ \A n \in 0 .. K : w[n] = Nth(b, s + n)
  <2>1. s \in Nat \ {0}
    BY <1>2
  <2>2. /\ DOMAIN Walk(q, Nth(b, s)) = 0 .. K
        /\ \A n \in 0 .. K : Walk(q, Nth(b, s))[n] = Nth(b, s + n)
    BY <2>1, WalkIs
  <2> QED BY <2>2
<1> HIDE DEF K
<1>4. i - s \in N
  <2>1. w[i - s] = Nth(b, i)
    BY <1>2, <1>3
  <2>2. Nth(b, i) = Null \/ Nth(b, i) \in T
    BY <1>1, <1>2 DEF FirstIn
  <2> QED BY <1>2, <1>3, <2>1, <2>2 DEF Ends
<1>5. ASSUME NEW k \in N, k < i - s
      PROVE  FALSE
  <2>1. k \in 0 .. K /\ (w[k] = Null \/ w[k] \in T)
    BY <1>3 DEF Ends
  <2>2. w[k] = Nth(b, s + k)
    BY <1>3, <2>1
  <2>3. s + k \in s .. i - 1 /\ s + k \in 1 .. Len(b)
    BY <1>1, <1>2, <1>5, <2>1
  <2> QED BY <1>1, <2>1, <2>2, <2>3 DEF FirstIn
<1>6. N \subseteq Nat
  BY <1>1, <1>3 DEF Ends
<1> HIDE DEF N
<1>7. \A k \in N : i - s <= k
  BY <1>2, <1>5, <1>6
<1>8. Min(N) = i - s
  BY <1>4, <1>6, <1>7, MinIs
<1>9. w[i - s] = Nth(b, i)
  BY <1>2, <1>3
<1> QED BY <1>2, <1>3, <1>8, <1>9 DEF N

-----------------------------------------------------------------------------
(* The cells of the buffer carry messages, one for a label.                *)
Carried(q, b) == /\ Linked(q, b)
                 /\ \A i \in 1 .. Len(b) : q.msg[b[i]] \in Message
                 /\ \A i, j \in 1 .. Len(b) : q.msg[b[i]].label = q.msg[b[j]].label => i = j

LEMMA EmptyIsNoCell ==
  ASSUME NEW q, NEW b, Linked(q, b)
  PROVE  /\ isempty_que(q) <=> Len(b) = 0
         /\ Len(b) # 0 => /\ q.car = b[1] /\ 1 \in 1 .. Len(b)
                          /\ q_front(q) = q.msg[b[1]] /\ q.next[q.car] = Nth(b, 2)
<1>1. /\ Len(b) \in Nat /\ q.car = Nth(b, 1)
      /\ \A j \in 1 .. Len(b) : b[j] # Null /\ Nth(b, j) = b[j]
      /\ \A j : j \notin 1 .. Len(b) => Nth(b, j) = Null
      /\ \A i \in 1 .. Len(b) : q.next[b[i]] = Nth(b, i + 1)
  BY Cells DEF Linked
<1>2. CASE Len(b) = 0
  BY <1>1, <1>2 DEF isempty_que
<1>3. CASE Len(b) # 0
  <2>1. 1 \in 1 .. Len(b)
    BY <1>1, <1>3
  <2> QED BY <1>1, <1>3, <2>1 DEF isempty_que, q_front
<1> QED BY <1>2, <1>3

(* A search from the second cell finds what the first message with the     *)
(* label is.                                                               *)
LEMMA SearchFinds ==
  ASSUME NEW q, NEW b, Linked(q, b), Len(b) # 0, NEW l, NEW i \in 2 .. Len(b) + 1,
         i <= Len(b) => q.msg[b[i]].label = l,
         \A j \in 2 .. i - 1 : q.msg[b[j]].label # l
  PROVE  q_first1(q, Nth(b, 2), l) = IF i <= Len(b) THEN q.msg[b[i]] ELSE Null
<1> DEFINE w == Walk(q, Nth(b, 2))
           T == {c \in Cell : q.msg[c].label = l}
           N == Ends(w, T)
<1>1. /\ b \in Seq(Cell) /\ Len(b) \in Nat \ {0} /\ 2 \in 1 .. Len(b) + 1
      /\ \A j \in 1 .. Len(b) : b[j] \in Cell /\ b[j] # Null /\ Nth(b, j) = b[j]
      /\ \A j : j \notin 1 .. Len(b) => Nth(b, j) = Null
  BY Cells DEF Linked
<1>2. FirstIn(b, 2, T, i)
  BY <1>1 DEF FirstIn
<1>4. Min(N) \in DOMAIN w /\ w[Min(N)] = Nth(b, i)
  <2> HIDE DEF T, w
  <2> QED BY <1>1, <1>2, WalkStops DEF w
<1>5. N = {k \in DOMAIN w : w[k] = Null \/ q.msg[w[k]].label = l}
  <2>1. \A k \in DOMAIN w : w[k] \in Cell \cup {Null}
    <3>1. DOMAIN w = 0 .. Cardinality(Cell) /\ \A k \in 0 .. Cardinality(Cell) : w[k] = Nth(b, 2 + k)
      BY WalkIs
    <3> HIDE DEF w
    <3> QED BY <1>1, <3>1
  <2> HIDE DEF w
  <2> QED BY <2>1 DEF Ends
<1>6. q_first1(q, Nth(b, 2), l) = IF w[Min(N)] = Null THEN Null ELSE q.msg[w[Min(N)]]
  <2> HIDE DEF N
  <2> QED BY <1>5 DEF q_first1
<1> HIDE DEF w, N
<1> QED BY <1>1, <1>4, <1>6

LEMMA LookupFound ==
  ASSUME NEW q, NEW b, Carried(q, b), NEW i \in 1 .. Len(b)
  PROVE  lookup_ch1(q, q.msg[b[i]].label) = q.msg[b[i]].value
<1> DEFINE l == q.msg[b[i]].label
<1>1. Linked(q, b) /\ Len(b) \in Nat /\ Len(b) # 0 /\ q.msg[b[i]] \in Message
  BY Cells DEF Carried, Linked
<1>2. ~isempty_que(q) /\ q_front(q) = q.msg[b[1]] /\ q.next[q.car] = Nth(b, 2) /\ 1 \in 1 .. Len(b)
  BY <1>1, EmptyIsNoCell
<1>3. q_first(q, l) = q.msg[b[i]]
  <2>1. CASE i = 1
    BY <1>2, <2>1 DEF q_first
  <2>2. CASE i # 1
    <3>1. i \in 2 .. Len(b) + 1 /\ i <= Len(b) /\ \A j \in 2 .. i - 1 : j \in 1 .. Len(b) /\ j # i
      BY <1>1, <2>2
    <3>2. \A j \in 2 .. i - 1 : q.msg[b[j]].label # l
      BY <3>1 DEF Carried
    <3>3. q_front(q).label # l
      BY <1>2, <2>2 DEF Carried
    <3>4. q_first1(q, Nth(b, 2), l) = q.msg[b[i]]
      BY <1>1, <3>1, <3>2, SearchFinds
    <3> QED BY <1>2, <3>3, <3>4 DEF q_first
  <2> QED BY <2>1, <2>2
<1>4. q.msg[b[i]] # Null
  BY <1>1, NullIsNoMessage DEF Message
<1> QED BY <1>2, <1>3, <1>4 DEF lookup_ch1

LEMMA LookupNone ==
  ASSUME NEW q, NEW b, Carried(q, b), NEW l, \A i \in 1 .. Len(b) : q.msg[b[i]].label # l
  PROVE  lookup_ch1(q, l) = Null
<1>1. Linked(q, b) /\ Len(b) \in Nat
  BY Cells DEF Carried, Linked
<1>2. CASE Len(b) = 0
  BY <1>1, <1>2, EmptyIsNoCell DEF lookup_ch1
<1>3. CASE Len(b) # 0
  <2>1. q_front(q) = q.msg[b[1]] /\ q.next[q.car] = Nth(b, 2) /\ 1 \in 1 .. Len(b)
    BY <1>1, <1>3, EmptyIsNoCell
  <2>2. /\ Len(b) + 1 \in 2 .. Len(b) + 1 /\ ~(Len(b) + 1 <= Len(b))
        /\ \A j \in 2 .. (Len(b) + 1) - 1 : j \in 1 .. Len(b)
    BY <1>1, <1>3
  <2>3. q_first1(q, Nth(b, 2), l) = Null
    BY <1>1, <1>3, <2>2, SearchFinds
  <2>4. q_first(q, l) = Null
    BY <2>1, <2>3 DEF q_first
  <2> QED BY <2>4 DEF lookup_ch1
<1> QED BY <1>2, <1>3

(* A label is readable exactly when some message carries it.               *)
LEMMA TransIffCarried ==
  ASSUME NEW q, NEW b, Carried(q, b), NEW l
  PROVE  istrans_in_act(q, l) <=> \E i \in 1 .. Len(b) : q.msg[b[i]].label = l
<1>1. ASSUME NEW i \in 1 .. Len(b), q.msg[b[i]].label = l
      PROVE  istrans_in_act(q, l)
  <2>1. lookup_ch1(q, l) = q.msg[b[i]].value /\ q.msg[b[i]] \in Message
    BY <1>1, LookupFound DEF Carried
  <2> QED BY <2>1, NullIsNoValue DEF istrans_in_act, Message
<1>2. ASSUME \A i \in 1 .. Len(b) : q.msg[b[i]].label # l
      PROVE  ~istrans_in_act(q, l)
  BY <1>2, LookupNone DEF istrans_in_act
<1> QED BY <1>1, <1>2

-----------------------------------------------------------------------------
(* enque1 hangs the cell on the last one.                                  *)
LEMMA HungOnLast ==
  ASSUME NEW q, NEW b, Linked(q, b), Len(b) # 0, NEW c
  PROVE  enque1(q, q.car, c) = [q EXCEPT !.next[b[Len(b)]] = c]
<1> DEFINE w == Walk(q, q.car)
           N == {n \in DOMAIN w : w[n] # Null /\ q.next[w[n]] = Null}
           K == Cardinality(Cell)
<1>1. /\ Len(b) \in Nat \ {0} /\ K \in Nat /\ Len(b) <= K /\ q.car = Nth(b, 1)
      /\ \A j \in 1 .. Len(b) : b[j] # Null /\ Nth(b, j) = b[j] /\ q.next[b[j]] = Nth(b, j + 1)
      /\ \A j : j \notin 1 .. Len(b) => Nth(b, j) = Null
  BY Cells, NotMoreThanCells DEF Linked
<1>2. DOMAIN w = 0 .. K /\ \A n \in 0 .. K : w[n] = Nth(b, 1 + n)
  BY <1>1, WalkIs
<1> HIDE DEF w, K
<1>3. Len(b) - 1 \in N /\ w[Len(b) - 1] = b[Len(b)]
  <2>1. /\ Len(b) - 1 \in 0 .. K /\ 1 + (Len(b) - 1) = Len(b) /\ Len(b) \in 1 .. Len(b)
        /\ Len(b) + 1 \notin 1 .. Len(b)
    BY <1>1
  <2>2. w[Len(b) - 1] = b[Len(b)]
    BY <1>1, <1>2, <2>1
  <2> QED BY <1>1, <1>2, <2>1, <2>2
<1>4. ASSUME NEW n \in N
      PROVE  n = Len(b) - 1
  <2>1. n \in 0 .. K /\ w[n] = Nth(b, 1 + n) /\ w[n] # Null /\ q.next[w[n]] = Null
    BY <1>2
  <2>2. 1 + n \in 1 .. Len(b) /\ Nth(b, (1 + n) + 1) = Null
    BY <1>1, <2>1
  <2>3. (1 + n) + 1 \notin 1 .. Len(b)
    BY <1>1, <2>2
  <2> QED BY <1>1, <2>1, <2>2, <2>3
<1>5. N = {Len(b) - 1}
  BY <1>3, <1>4
<1>6. Min(N) = Len(b) - 1
  BY <1>1, <1>5, MinSingleton
<1>7. enque1(q, q.car, c) = set_cdr(q, w[Min(N)], c)
  BY DEF enque1, w
<1> QED BY <1>3, <1>6, <1>7 DEF set_cdr

(* A vacant cell is appended to the cells of the buffer.                   *)
LEMMA Enqueued ==
  ASSUME NEW q, NEW b, Carried(q, b), NEW c \in Cell, \A i \in 1 .. Len(b) : b[i] # c,
         NEW m \in Message, \A i \in 1 .. Len(b) : q.msg[b[i]].label # m.label
  PROVE  /\ Carried(enque(q, m, c), Append(b, c))
         /\ enque(q, m, c).msg = [q.msg EXCEPT ![c] = m]
<1> DEFINE new == [q EXCEPT !.msg[c] = m, !.next[c] = Null]
           r == enque(q, m, c)
           d == Append(b, c)
           n == Len(b)
<1>1. /\ Linked(q, b) /\ q \in Queues /\ b \in Seq(Cell) /\ n \in Nat /\ Distinct(b)
      /\ q.car = Nth(b, 1) /\ q.cdr = Nth(b, n)
      /\ \A j \in 1 .. n : b[j] \in Cell /\ b[j] # Null /\ Nth(b, j) = b[j] /\ q.next[b[j]] = Nth(b, j + 1)
      /\ \A j : j \notin 1 .. n => Nth(b, j) = Null
  BY Cells DEF Carried, Linked
<1>2. /\ d \in Seq(Cell) /\ Len(d) = n + 1 /\ d[n + 1] = c
      /\ \A i \in 1 .. n : d[i] = b[i]
  BY <1>1, AppendProperties
<1> HIDE DEF d
<1>3. /\ new \in Queues /\ new.car = q.car /\ new.cdr = q.cdr
      /\ new.msg = [q.msg EXCEPT ![c] = m] /\ new.next = [q.next EXCEPT ![c] = Null]
  BY <1>1 DEF Queues
<1>4. Linked(new, b)
  <2>1. \A j \in 1 .. n : new.next[b[j]] = q.next[b[j]]
    BY <1>1, <1>3 DEF Queues
  <2> HIDE DEF new
  <2> QED BY <1>1, <1>3, <2>1 DEF Linked
<1>5. /\ r \in Queues /\ r.msg = new.msg /\ r.cdr = c
      /\ r.car = IF n = 0 THEN c ELSE q.car
      /\ r.next = IF n = 0 THEN new.next ELSE [new.next EXCEPT ![b[n]] = c]
  <2>0. isempty_que(q) <=> n = 0
    BY <1>1, EmptyIsNoCell
  <2>1. r = IF n = 0 THEN [new EXCEPT !.car = c, !.cdr = c]
            ELSE [enque1(new, q.car, c) EXCEPT !.cdr = c]
    BY <2>0 DEF enque
  <2>2. n # 0 => enque1(new, q.car, c) = [new EXCEPT !.next[b[n]] = c] /\ b[n] \in Cell
    <3> HIDE DEF new
    <3>1. n # 0 => enque1(new, new.car, c) = [new EXCEPT !.next[b[n]] = c]
      BY <1>4, HungOnLast
    <3>2. n # 0 => n \in 1 .. n
      BY <1>1
    <3> QED BY <1>1, <1>3, <3>1, <3>2
  <2>3. CASE n = 0
    <3>1. r = [new EXCEPT !.car = c, !.cdr = c]
      BY <2>1, <2>3
    <3> HIDE DEF new, r
    <3> QED BY <1>3, <2>3, <3>1 DEF Queues
  <2>4. CASE n # 0
    <3>1. r = [[new EXCEPT !.next[b[n]] = c] EXCEPT !.cdr = c] /\ b[n] \in Cell
      BY <2>1, <2>2, <2>4
    <3> HIDE DEF new, r
    <3> QED BY <1>3, <2>4, <3>1 DEF Queues
  <2> QED BY <2>3, <2>4
<1> HIDE DEF new, r
<1>6. Distinct(d)
  <2> SUFFICES ASSUME NEW i \in 1 .. n + 1, NEW j \in 1 .. n + 1, d[i] = d[j] PROVE i = j
    BY <1>2 DEF Distinct
  <2>1. CASE i = n + 1 \/ j = n + 1
    BY <1>1, <1>2, <2>1
  <2>2. CASE i # n + 1 /\ j # n + 1
    <3>1. i \in 1 .. n /\ j \in 1 .. n
      BY <1>1, <2>2
    <3> QED BY <1>1, <1>2, <3>1 DEF Distinct
  <2> QED BY <2>1, <2>2
<1>7. \A i \in 1 .. n + 1 : Nth(d, i) = d[i] /\ d[i] \in Cell
  BY <1>2, Cells
<1>8. Nth(d, n + 2) = Null /\ \A i \in 1 .. n : i + 1 \in 1 .. n + 1 /\ Nth(d, i + 1) = d[i + 1]
  BY <1>1, <1>2, Cells
<1>9. \A i \in 1 .. n + 1 : r.next[d[i]] = Nth(d, i + 1)
  <2>1. r.next[c] = Null
    BY <1>1, <1>3, <1>5 DEF Queues
  <2>2. ASSUME NEW i \in 1 .. n, i # n
        PROVE  r.next[d[i]] = Nth(d, i + 1)
    <3>1. i + 1 \in 1 .. n /\ n \in 1 .. n
      BY <1>1, <2>2
    <3>2. d[i] = b[i] /\ d[i + 1] = b[i + 1] /\ b[i] # b[n] /\ b[i] # c
      BY <1>1, <1>2, <2>2, <3>1 DEF Distinct
    <3>3. r.next[b[i]] = q.next[b[i]]
      BY <1>1, <1>3, <1>5, <3>1, <3>2 DEF Queues
    <3> QED BY <1>1, <1>8, <3>1, <3>2, <3>3
  <2>3. n # 0 => r.next[d[n]] = Nth(d, n + 1)
    <3> SUFFICES ASSUME n # 0 PROVE r.next[d[n]] = Nth(d, n + 1)
      OBVIOUS
    <3>1. n \in 1 .. n
      BY <1>1
    <3>2. r.next[b[n]] = c
      BY <1>1, <1>3, <1>5, <3>1 DEF Queues
    <3> QED BY <1>2, <1>8, <3>1, <3>2
  <2>4. \A i \in 1 .. n + 1 : i \in 1 .. n \/ i = n + 1
    BY <1>1
  <2>5. r.next[d[n + 1]] = Nth(d, (n + 1) + 1)
    BY <1>1, <1>2, <1>8, <2>1
  <2> HIDE DEF n
  <2> QED BY <1>1, <2>2, <2>3, <2>4, <2>5
<1>10. r.car = Nth(d, 1) /\ r.cdr = Nth(d, n + 1)
  <2>1. 1 \in 1 .. n + 1 /\ n + 1 \in 1 .. n + 1 /\ (n # 0 => 1 \in 1 .. n)
    BY <1>1
  <2> QED BY <1>1, <1>2, <1>5, <1>7, <2>1
<1>11. Linked(r, d)
  BY <1>2, <1>5, <1>6, <1>9, <1>10 DEF Linked
<1>12. r.msg = [q.msg EXCEPT ![c] = m]
  BY <1>3, <1>5
<1>13. r.msg[d[n + 1]] = m /\ \A i \in 1 .. n : r.msg[d[i]] = q.msg[b[i]]
  BY <1>1, <1>2, <1>12 DEF Queues
<1>14. \A i \in 1 .. n + 1 : i \in 1 .. n \/ i = n + 1
  BY <1>1
<1>15. \A i \in 1 .. n + 1 : r.msg[d[i]] \in Message
  BY <1>13, <1>14 DEF Carried
<1>16. \A i, j \in 1 .. n + 1 : r.msg[d[i]].label = r.msg[d[j]].label => i = j
  <2> HIDE DEF n
  <2>1. \A i \in 1 .. n : q.msg[b[i]].label # m.label
    BY DEF n
  <2>2. \A i, j \in 1 .. n : q.msg[b[i]].label = q.msg[b[j]].label => i = j
    BY DEF Carried, n
  <2> QED BY <1>13, <1>14, <2>1, <2>2
<1>17. Carried(r, d)
  BY <1>2, <1>11, <1>15, <1>16 DEF Carried
<1> QED BY <1>12, <1>17 DEF r, d

(* What q_remove does to the header and to the cells.                      *)
LEMMA TakenOut ==
  ASSUME NEW q, NEW b, Carried(q, b), NEW i \in 1 .. Len(b)
  PROVE  LET r == q_remove(q, q.msg[b[i]])
         IN  /\ r \in Queues /\ r.msg = q.msg
             /\ r.car = IF i = 1 THEN Nth(b, 2) ELSE q.car
             /\ r.cdr = IF i = Len(b) THEN Nth(b, i - 1) ELSE q.cdr
             /\ r.next = IF i = 1 THEN q.next ELSE [q.next EXCEPT ![b[i - 1]] = Nth(b, i + 1)]
<1> DEFINE n == Len(b)
           m == q.msg[b[i]]
           r == q_remove(q, m)
<1>1. /\ Linked(q, b) /\ q \in Queues /\ b \in Seq(Cell) /\ n \in Nat \ {0}
      /\ q.car = b[1] /\ q.cdr = Nth(b, n) /\ 1 \in 1 .. n /\ ~isempty_que(q)
      /\ q.next[q.car] = Nth(b, 2) /\ q_front(q) = q.msg[b[1]]
      /\ \A j \in 1 .. n : b[j] \in Cell /\ b[j] # Null /\ Nth(b, j) = b[j] /\ q.next[b[j]] = Nth(b, j + 1)
      /\ \A j : j \notin 1 .. n => Nth(b, j) = Null
  <2>1. Linked(q, b) /\ b \in Seq(Cell) /\ q \in Queues /\ q.cdr = Nth(b, n)
        /\ \A j \in 1 .. n : q.next[b[j]] = Nth(b, j + 1)
    BY DEF Carried, Linked
  <2>2. /\ Len(b) \in Nat /\ Len(b) # 0
        /\ \A j \in 1 .. n : b[j] \in Cell /\ b[j] # Null /\ Nth(b, j) = b[j]
        /\ \A j : j \notin 1 .. n => Nth(b, j) = Null
    BY <2>1, Cells
  <2>3. /\ ~isempty_que(q) /\ q.car = b[1] /\ 1 \in 1 .. n
        /\ q_front(q) = q.msg[b[1]] /\ q.next[q.car] = Nth(b, 2)
    BY <2>1, <2>2, EmptyIsNoCell
  <2> QED BY <2>1, <2>2, <2>3
<1>2. \A j \in 1 .. n : q.msg[b[j]] = m => j = i
  BY DEF Carried
<1>3. CASE i = 1
  <2>1. r = deque(q)
    BY <1>1, <1>3 DEF q_remove
  <2>2. r = [q EXCEPT !.car = Nth(b, 2), !.cdr = IF Nth(b, 2) = Null THEN Null ELSE q.cdr]
    BY <1>1, <2>1 DEF deque
  <2>3. Nth(b, 2) = Null <=> n = 1
    <3>1. 2 \in 1 .. n <=> n # 1
      <4>1. n \in Nat /\ n # 0
        BY <1>1
      <4> HIDE DEF n
      <4> QED BY <4>1
    <3> QED BY <1>1, <3>1
  <2>4. Nth(b, 0) = Null /\ Nth(b, 2) \in Cell \cup {Null}
    <3>1. 0 \notin 1 .. n
      OBVIOUS
    <3> QED BY <1>1, <3>1
  <2>5. /\ r \in Queues /\ r.msg = q.msg /\ r.car = Nth(b, 2) /\ r.next = q.next
        /\ r.cdr = IF n = 1 THEN Null ELSE q.cdr
    <3> HIDE DEF r, n, m
    <3> QED BY <1>1, <2>2, <2>3, <2>4 DEF Queues
  <2> HIDE DEF r
  <2> QED BY <1>3, <2>4, <2>5 DEF r
<1>4. CASE i # 1
  <2> DEFINE w == Walk(q, Nth(b, 2))
             p == Walk(q, q.car)
             T == {c \in Cell : q.msg[c] = m}
             N == Ends(w, T)
             M == {k \in DOMAIN w : w[k] = Null \/ q.msg[w[k]] = m}
  <2>1. /\ i \in 2 .. n /\ i \in 2 .. n + 1 /\ 2 \in 1 .. n + 1 /\ i - 1 \in 1 .. n /\ i - 1 \in Nat
        /\ i - 2 \in Nat /\ 1 + (i - 2) = i - 1 /\ i # i - 1
    BY <1>1, <1>4
  <2>2. i <= n => b[i] \in T
    BY <1>1
  <2>3. \A j \in 2 .. i - 1 : b[j] \notin T
    <3>1. \A j \in 2 .. i - 1 : j \in 1 .. n /\ j # i
      BY <2>1
    <3> QED BY <1>2, <3>1
  <2>4. Min(N) = i - 2 /\ Min(N) \in DOMAIN w /\ w[Min(N)] = Nth(b, i)
    <3>1. Linked(q, b) /\ 2 \in 1 .. Len(b) + 1 /\ i \in 2 .. Len(b) + 1
      BY <1>1, <2>1
    <3>2. FirstIn(b, 2, T, i)
      BY <2>2, <2>3 DEF FirstIn
    <3> HIDE DEF T, w, n
    <3> QED BY <3>1, <3>2, WalkStops DEF w
  <2>5. DOMAIN w = 0 .. Cardinality(Cell) /\ \A k \in 0 .. Cardinality(Cell) : w[k] = Nth(b, 2 + k)
    <3>1. 2 \in Nat \ {0}
      OBVIOUS
    <3>2. Linked(q, b)
      BY <1>1
    <3> HIDE DEF n, m, r, T, N, M
    <3> QED BY <3>1, <3>2, WalkIs
  <2>6. N = M
    <3>1. \A k \in DOMAIN w : w[k] \in Cell \cup {Null}
      <4> HIDE DEF w
      <4> QED BY <1>1, <2>5
    <3> HIDE DEF w
    <3> QED BY <3>1 DEF Ends
  <2>7. p[i - 2] = b[i - 1]
    <3>1. \A k \in 0 .. Cardinality(Cell) : p[k] = Nth(b, 1 + k)
      <4>1. q.car = Nth(b, 1) /\ 1 \in Nat \ {0} /\ Linked(q, b)
        BY <1>1
      <4>2. \A k \in 0 .. Cardinality(Cell) : Walk(q, Nth(b, 1))[k] = Nth(b, 1 + k)
        BY <4>1, WalkIs
      <4> QED BY <4>1, <4>2
    <3> HIDE DEF p
    <3> QED BY <1>1, <2>1, <2>4, <2>5, <3>1
  <2>8. r = q_remove1(q, Nth(b, 2), m, q.car)
    BY <1>1, <1>2, <1>4 DEF q_remove
  <2>9. q_remove1(q, Nth(b, 2), m, q.car) =
          IF w[Min(M)] = Null THEN q
          ELSE IF q.next[w[Min(M)]] = Null
               THEN [set_cdr(q, p[Min(M)], Null) EXCEPT !.cdr = p[Min(M)]]
               ELSE set_cdr(q, p[Min(M)], q.next[w[Min(M)]])
    BY DEF q_remove1
  <2> HIDE DEF w, p, N, M, T, m, r
  <2>10. r = IF Nth(b, i + 1) = Null
             THEN [[q EXCEPT !.next[b[i - 1]] = Null] EXCEPT !.cdr = b[i - 1]]
             ELSE [q EXCEPT !.next[b[i - 1]] = Nth(b, i + 1)]
    <3>1. w[Min(M)] = b[i] /\ b[i] # Null /\ q.next[b[i]] = Nth(b, i + 1) /\ p[Min(M)] = b[i - 1]
      BY <1>1, <2>4, <2>6, <2>7
    <3> QED BY <2>8, <2>9, <3>1 DEF set_cdr
  <2>11. /\ Nth(b, i + 1) = Null <=> i = n
         /\ Nth(b, i + 1) \in Cell \cup {Null}
         /\ b[i - 1] \in Cell /\ Nth(b, i - 1) = b[i - 1]
    <3>1. i + 1 \in 1 .. n <=> i # n
      BY <1>1
    <3> QED BY <1>1, <2>1, <3>1
  <2>12. /\ r \in Queues /\ r.msg = q.msg /\ r.car = q.car
         /\ r.cdr = IF i = n THEN b[i - 1] ELSE q.cdr
         /\ r.next = [q.next EXCEPT ![b[i - 1]] = Nth(b, i + 1)]
    <3> HIDE DEF n
    <3>1. CASE Nth(b, i + 1) = Null
      BY <1>1, <2>10, <2>11, <3>1 DEF Queues
    <3>2. CASE Nth(b, i + 1) # Null
      BY <1>1, <2>10, <2>11, <3>2 DEF Queues
    <3> QED BY <3>1, <3>2
  <2> QED BY <1>4, <2>11, <2>12 DEF r, m
<1> QED BY <1>3, <1>4

(* The cell goes out of the buffer, and the others stay linked.            *)
LEMMA Removed ==
  ASSUME NEW q, NEW b, Carried(q, b), NEW i \in 1 .. Len(b)
  PROVE  /\ Carried(q_remove(q, q.msg[b[i]]), RemoveAt(b, i))
         /\ q_remove(q, q.msg[b[i]]).msg = q.msg
<1> DEFINE n == Len(b)
           r == q_remove(q, q.msg[b[i]])
           d == RemoveAt(b, i)
<1>1. /\ b \in Seq(Cell) /\ n \in Nat \ {0} /\ Distinct(b) /\ q \in Queues
      /\ q.car = Nth(b, 1) /\ q.cdr = Nth(b, n)
      /\ \A j \in 1 .. n : b[j] \in Cell /\ b[j] # Null /\ Nth(b, j) = b[j] /\ q.next[b[j]] = Nth(b, j + 1)
      /\ \A j : j \notin 1 .. n => Nth(b, j) = Null
  BY Cells DEF Carried, Linked
<1>2. /\ r \in Queues /\ r.msg = q.msg
      /\ r.car = IF i = 1 THEN Nth(b, 2) ELSE q.car
      /\ r.cdr = IF i = n THEN Nth(b, i - 1) ELSE q.cdr
      /\ r.next = IF i = 1 THEN q.next ELSE [q.next EXCEPT ![b[i - 1]] = Nth(b, i + 1)]
  BY TakenOut
<1>3. /\ d \in Seq(Cell) /\ Len(d) = n - 1
      /\ \A j \in 1 .. n - 1 : d[j] = IF j < i THEN b[j] ELSE b[j + 1]
  BY <1>1, RemoveAtProperties
<1> HIDE DEF r, d
<1>4. \A j \in Nat \ {0} : Nth(d, j) = IF j < i THEN Nth(b, j) ELSE Nth(b, j + 1)
  <2> SUFFICES ASSUME NEW j \in Nat \ {0}
               PROVE  Nth(d, j) = IF j < i THEN Nth(b, j) ELSE Nth(b, j + 1)
    OBVIOUS
  <2>1. \A k \in 1 .. n - 1 : Nth(d, k) = d[k]
    BY <1>3, Cells
  <2>2. \A k : k \notin 1 .. n - 1 => Nth(d, k) = Null
    BY <1>3, Cells
  <2>3. CASE j \in 1 .. n - 1
    <3>1. j \in 1 .. n /\ j + 1 \in 1 .. n
      BY <1>1, <2>3
    <3>2. Nth(d, j) = IF j < i THEN b[j] ELSE b[j + 1]
      BY <1>3, <2>1, <2>3
    <3>3. Nth(b, j) = b[j] /\ Nth(b, j + 1) = b[j + 1]
      BY <1>1, <3>1
    <3> QED BY <3>2, <3>3
  <2>4. CASE j \notin 1 .. n - 1
    <3>1. ~(j < i) /\ j + 1 \notin 1 .. n
      BY <1>1, <2>4
    <3> QED BY <1>1, <2>2, <2>4, <3>1
  <2> QED BY <2>3, <2>4
<1>5. ASSUME NEW j \in 1 .. n - 1
      PROVE  \E k \in 1 .. n : k = (IF j < i THEN j ELSE j + 1) /\ k # i /\ d[j] = b[k]
  <2>1. j \in 1 .. n /\ j + 1 \in 1 .. n /\ i \in 1 .. n
    BY <1>1
  <2>2. CASE j < i
    <3>1. j # i /\ d[j] = b[j]
      BY <1>3, <2>1, <2>2
    <3> QED BY <2>1, <2>2, <3>1
  <2>3. CASE ~(j < i)
    <3>1. j + 1 # i /\ d[j] = b[j + 1]
      BY <1>3, <2>1, <2>3
    <3> QED BY <2>1, <2>3, <3>1
  <2> QED BY <2>2, <2>3
<1>6. Distinct(d)
  <2> SUFFICES ASSUME NEW j \in 1 .. n - 1, NEW k \in 1 .. n - 1, d[j] = d[k] PROVE j = k
    BY <1>3 DEF Distinct
  <2>1. PICK x \in 1 .. n : x = (IF j < i THEN j ELSE j + 1) /\ d[j] = b[x]
    BY <1>5
  <2>2. PICK y \in 1 .. n : y = (IF k < i THEN k ELSE k + 1) /\ d[k] = b[y]
    BY <1>5
  <2>3. x = y
    <3>1. b[x] = b[y]
      BY <2>1, <2>2
    <3> QED BY <1>1, <3>1 DEF Distinct
  <2>4. j \in Nat /\ k \in Nat /\ i \in Nat
    BY <1>1
  <2>5. (IF j < i THEN j ELSE j + 1) = (IF k < i THEN k ELSE k + 1)
    BY <2>1, <2>2, <2>3
  <2> QED BY <2>4, <2>5
<1>7. r.car = Nth(d, 1)
  <2>1. CASE i = 1
    BY <1>2, <1>4, <2>1
  <2>2. CASE i # 1
    <3>1. 1 < i
      BY <1>1, <2>2
    <3> QED BY <1>1, <1>2, <1>4, <2>2, <3>1
  <2> QED BY <2>1, <2>2
<1>8. r.cdr = Nth(d, Len(d))
  <2>1. CASE n = 1
    <3>1. i = 1 /\ i - 1 = 0 /\ Len(d) = 0 /\ 0 \notin 1 .. n /\ 0 \notin 1 .. 0
      BY <1>1, <1>3, <2>1
    <3> QED BY <1>1, <1>2, <2>1, <3>1 DEF Nth
  <2>2. CASE n # 1
    <3>1. Len(d) = n - 1 /\ n - 1 \in Nat \ {0} /\ (n - 1) + 1 = n /\ (n - 1 < i <=> i = n)
      BY <1>1, <1>3, <2>2
    <3>2. Nth(d, n - 1) = IF i = n THEN Nth(b, n - 1) ELSE Nth(b, n)
      BY <1>4, <3>1
    <3> HIDE DEF n
    <3> QED BY <1>1, <1>2, <3>1, <3>2
  <2> QED BY <2>1, <2>2
<1>9. \A j \in 1 .. Len(d) : r.next[d[j]] = Nth(d, j + 1)
  <2> SUFFICES ASSUME NEW j \in 1 .. n - 1 PROVE r.next[d[j]] = Nth(d, j + 1)
    BY <1>3
  <2>1. /\ j \in 1 .. n /\ j + 1 \in 1 .. n /\ j + 1 \in Nat \ {0} /\ i - 1 \in Nat
        /\ (i # 1 => i - 1 \in 1 .. n)
    BY <1>1
  <2>2. CASE j < i - 1
    <3>1. j < i /\ j + 1 < i /\ i # 1 /\ j # i - 1
      BY <1>1, <2>2
    <3>2. d[j] = b[j] /\ b[j] # b[i - 1]
      BY <1>1, <1>3, <2>1, <3>1 DEF Distinct
    <3>3. r.next[b[j]] = q.next[b[j]]
      BY <1>1, <1>2, <2>1, <3>1, <3>2 DEF Queues
    <3> QED BY <1>1, <1>4, <2>1, <3>1, <3>2, <3>3
  <2>3. CASE j = i - 1
    <3>1. j < i /\ ~(j + 1 < i) /\ i # 1 /\ (j + 1) + 1 = i + 1
      BY <1>1, <2>3
    <3>2. r.next[b[i - 1]] = Nth(b, i + 1)
      BY <1>1, <1>2, <2>1, <3>1 DEF Queues
    <3> QED BY <1>3, <1>4, <2>1, <2>3, <3>1, <3>2
  <2>4. CASE j > i - 1
    <3>1. ~(j < i) /\ ~(j + 1 < i) /\ j + 1 # i - 1
      BY <1>1, <2>4
    <3>2. d[j] = b[j + 1] /\ (i # 1 => b[j + 1] # b[i - 1])
      BY <1>1, <1>3, <2>1, <3>1 DEF Distinct
    <3>3. r.next[b[j + 1]] = q.next[b[j + 1]]
      BY <1>1, <1>2, <2>1, <3>2 DEF Queues
    <3> QED BY <1>1, <1>4, <2>1, <3>1, <3>2, <3>3
  <2> QED BY <1>1, <2>2, <2>3, <2>4
<1>10. Linked(r, d)
  BY <1>2, <1>3, <1>6, <1>7, <1>8, <1>9 DEF Linked
<1>11. \A j \in 1 .. Len(d) : r.msg[d[j]] \in Message
  BY <1>2, <1>3, <1>5 DEF Carried
<1>12. \A j, k \in 1 .. Len(d) : r.msg[d[j]].label = r.msg[d[k]].label => j = k
  <2> SUFFICES ASSUME NEW j \in 1 .. n - 1, NEW k \in 1 .. n - 1, q.msg[d[j]].label = q.msg[d[k]].label
               PROVE  j = k
    BY <1>2, <1>3
  <2>1. PICK x \in 1 .. n : x = (IF j < i THEN j ELSE j + 1) /\ d[j] = b[x]
    BY <1>5
  <2>2. PICK y \in 1 .. n : y = (IF k < i THEN k ELSE k + 1) /\ d[k] = b[y]
    BY <1>5
  <2>3. x = y
    BY <2>1, <2>2 DEF Carried
  <2> QED BY <1>1, <2>1, <2>2, <2>3
<1>13. Carried(r, d)
  BY <1>10, <1>11, <1>12 DEF Carried
<1> QED BY <1>2, <1>13 DEF r, d

-----------------------------------------------------------------------------
(* The messages of a queue whose cells are b, in the order of the cells.   *)
Contents(q, b) == [i \in DOMAIN b |-> q.msg[b[i]]]

LEMMA ContentsAre ==
  ASSUME NEW q, NEW b, Carried(q, b)
  PROVE  /\ Contents(q, b) \in Seq(Message) /\ Len(Contents(q, b)) = Len(b)
         /\ \A i \in 1 .. Len(b) : Contents(q, b)[i] = q.msg[b[i]]
         /\ b \in Seq(Cell) /\ Len(b) \in Nat /\ Buffer(q) = b
         /\ \A i \in 1 .. Len(b) : b[i] \in Cell /\ q.msg[b[i]] \in Message
<1>1. /\ b \in Seq(Cell) /\ Len(b) \in Nat /\ DOMAIN b = 1 .. Len(b)
      /\ \A i \in 1 .. Len(b) : b[i] \in Cell /\ q.msg[b[i]] \in Message
  BY Cells DEF Carried, Linked
<1>2. Contents(q, b) \in [1 .. Len(b) -> Message]
  BY <1>1 DEF Contents
<1>3. Contents(q, b) \in Seq(Message) /\ Len(Contents(q, b)) = Len(b)
  <2> DEFINE s == Contents(q, b)
  <2>1. s \in [1 .. Len(b) -> Message] /\ Len(b) \in Nat
    BY <1>1, <1>2
  <2> HIDE DEF s
  <2>2. s \in Seq(Message)
    BY <2>1
  <2>3. Len(s) = Len(b)
    <3>1. Len(s) \in Nat /\ DOMAIN s = 1 .. Len(s)
      BY <2>2, LenProperties
    <3>2. DOMAIN s = 1 .. Len(b)
      BY <2>1
    <3> QED BY <2>1, <3>1, <3>2
  <2> QED BY <2>2, <2>3 DEF s
<1>4. \A i \in 1 .. Len(b) : Contents(q, b)[i] = q.msg[b[i]]
  BY <1>1 DEF Contents
<1>5. Buffer(q) = b
  BY BufferIs DEF Carried
<1> QED BY <1>1, <1>3, <1>4, <1>5

LEMMA ContentsEnqueued ==
  ASSUME NEW q, NEW b, Carried(q, b), NEW c \in Cell, \A i \in 1 .. Len(b) : b[i] # c,
         NEW m \in Message, \A i \in 1 .. Len(b) : q.msg[b[i]].label # m.label
  PROVE  Contents(enque(q, m, c), Append(b, c)) = Append(Contents(q, b), m)
<1> DEFINE r == enque(q, m, c)
           d == Append(b, c)
           n == Len(b)
           s == Contents(q, b)
           t == Contents(r, d)
<1>1. /\ s \in Seq(Message) /\ Len(s) = n /\ \A i \in 1 .. n : s[i] = q.msg[b[i]]
      /\ b \in Seq(Cell) /\ n \in Nat /\ \A i \in 1 .. n : b[i] \in Cell /\ q.msg[b[i]] \in Message
  BY ContentsAre
<1>2. Carried(r, d) /\ r.msg = [q.msg EXCEPT ![c] = m] /\ q \in Queues
  <2>1. q \in Queues
    BY DEF Carried, Linked
  <2> QED BY <2>1, Enqueued
<1>3. d \in Seq(Cell) /\ Len(d) = n + 1 /\ d[n + 1] = c /\ \A i \in 1 .. n : d[i] = b[i]
  BY <1>1, AppendProperties
<1> HIDE DEF r, d, s
<1>4. t \in Seq(Message) /\ Len(t) = n + 1 /\ \A i \in 1 .. n + 1 : t[i] = r.msg[d[i]]
  <2>1. t \in Seq(Message) /\ Len(t) = Len(d) /\ \A i \in 1 .. Len(d) : t[i] = r.msg[d[i]]
    <3>1. Carried(r, d)
      BY <1>2
    <3> QED BY <3>1, ContentsAre, Zenon
  <2> HIDE DEF t, n
  <2> QED BY <1>3, <2>1
<1>5. /\ Append(s, m) \in Seq(Message) /\ Len(Append(s, m)) = n + 1
      /\ Append(s, m)[n + 1] = m /\ \A i \in 1 .. n : Append(s, m)[i] = s[i]
  BY <1>1, AppendProperties
<1> HIDE DEF t
<1>6. \A i \in 1 .. n + 1 : t[i] = Append(s, m)[i]
  <2> SUFFICES ASSUME NEW i \in 1 .. n + 1 PROVE t[i] = Append(s, m)[i]
    OBVIOUS
  <2>1. CASE i = n + 1
    BY <1>2, <1>3, <1>4, <1>5, <2>1 DEF Queues
  <2>2. CASE i # n + 1
    <3>1. i \in 1 .. n
      BY <1>1, <2>2
    <3>2. t[i] = r.msg[b[i]] /\ b[i] # c /\ b[i] \in Cell
      BY <1>1, <1>3, <1>4, <3>1
    <3> QED BY <1>1, <1>2, <1>5, <3>1, <3>2 DEF Queues
  <2> QED BY <2>1, <2>2
<1>7. t = Append(s, m)
  BY <1>4, <1>5, <1>6, SeqEqual
<1> QED BY <1>7 DEF r, d, s, t

LEMMA ContentsRemoved ==
  ASSUME NEW q, NEW b, Carried(q, b), NEW i \in 1 .. Len(b)
  PROVE  Contents(q_remove(q, q.msg[b[i]]), RemoveAt(b, i)) = RemoveAt(Contents(q, b), i)
<1> DEFINE r == q_remove(q, q.msg[b[i]])
           d == RemoveAt(b, i)
           n == Len(b)
           s == Contents(q, b)
           t == Contents(r, d)
           u == RemoveAt(s, i)
<1>1. /\ s \in Seq(Message) /\ Len(s) = n /\ \A j \in 1 .. n : s[j] = q.msg[b[j]]
      /\ b \in Seq(Cell) /\ n \in Nat
  BY ContentsAre
<1>2. Carried(r, d) /\ r.msg = q.msg
  BY Removed
<1>3. d \in Seq(Cell) /\ Len(d) = n - 1 /\ \A j \in 1 .. n - 1 : d[j] = IF j < i THEN b[j] ELSE b[j + 1]
  BY <1>1, RemoveAtProperties
<1> HIDE DEF r, d, s
<1>4. t \in Seq(Message) /\ Len(t) = n - 1 /\ \A j \in 1 .. n - 1 : t[j] = r.msg[d[j]]
  BY <1>2, <1>3, ContentsAre
<1>5. u \in Seq(Message) /\ Len(u) = n - 1 /\ \A j \in 1 .. n - 1 : u[j] = IF j < i THEN s[j] ELSE s[j + 1]
  BY <1>1, RemoveAtProperties
<1> HIDE DEF t, u
<1>6. \A j \in 1 .. n - 1 : t[j] = u[j]
  <2> SUFFICES ASSUME NEW j \in 1 .. n - 1 PROVE t[j] = u[j]
    OBVIOUS
  <2>1. j \in 1 .. n /\ j + 1 \in 1 .. n
    BY <1>1
  <2>2. CASE j < i
    BY <1>1, <1>2, <1>3, <1>4, <1>5, <2>1, <2>2
  <2>3. CASE ~(j < i)
    BY <1>1, <1>2, <1>3, <1>4, <1>5, <2>1, <2>3
  <2> QED BY <2>2, <2>3
<1>7. t = u
  BY <1>4, <1>5, <1>6, SeqEqual
<1> QED BY <1>7 DEF r, d, s, t, u

(* Two queues that carry the same messages with a label answer alike.      *)
LEMMA SameAnswer ==
  ASSUME NEW q, NEW b, Carried(q, b), NEW r, NEW d, Carried(r, d), NEW k,
         \A i \in 1 .. Len(b) : q.msg[b[i]].label = k =>
            \E j \in 1 .. Len(d) : r.msg[d[j]] = q.msg[b[i]],
         \A j \in 1 .. Len(d) : r.msg[d[j]].label = k =>
            \E i \in 1 .. Len(b) : r.msg[d[j]] = q.msg[b[i]]
  PROVE  lookup_ch1(r, k) = lookup_ch1(q, k)
<1>1. CASE \E i \in 1 .. Len(b) : q.msg[b[i]].label = k
  <2>1. PICK i \in 1 .. Len(b) : q.msg[b[i]].label = k
    BY <1>1
  <2>2. PICK j \in 1 .. Len(d) : r.msg[d[j]] = q.msg[b[i]]
    BY <2>1
  <2>3. lookup_ch1(q, k) = q.msg[b[i]].value
    BY <2>1, LookupFound
  <2>4. lookup_ch1(r, k) = r.msg[d[j]].value
    BY <2>1, <2>2, LookupFound
  <2> QED BY <2>2, <2>3, <2>4
<1>2. CASE \A i \in 1 .. Len(b) : q.msg[b[i]].label # k
  <2>1. \A j \in 1 .. Len(d) : r.msg[d[j]].label # k
    BY <1>2
  <2> QED BY <1>2, <2>1, LookupNone
<1> QED BY <1>1, <1>2

-----------------------------------------------------------------------------
(* The inductive invariant: the queue is made of the cells of its buffer,  *)
(* each with a message of its own label, and the default channel holds     *)
(* these messages, newest first.                                           *)
Agrees == /\ Carried(que, Buffer(que))
          /\ list \in Seq(Message)
          /\ Contents(que, Buffer(que)) = Reverse(list)

LEMMA EmptyAtFirst ==
  /\ Carried(make_que, <<>>) /\ Buffer(make_que) = <<>> /\ Contents(make_que, <<>>) = <<>>
<1>1. <<>> \in Seq(Cell) /\ Len(<<>>) = 0 /\ \A i : i \notin 1 .. 0
  OBVIOUS
<1>2. Nth(<<>>, 1) = Null /\ Nth(<<>>, 0) = Null
  BY <1>1 DEF Nth
<1>3. make_que \in Queues /\ make_que.car = Null /\ make_que.cdr = Null
  BY DEF make_que, Queues
<1>4. Carried(make_que, <<>>)
  BY <1>1, <1>2, <1>3 DEF Carried, Linked, Distinct
<1>5. Buffer(make_que) = <<>>
  BY <1>4, ContentsAre
<1>6. Contents(make_que, <<>>) \in Seq(Message) /\ Len(Contents(make_que, <<>>)) = 0
  BY <1>1, <1>4, ContentsAre
<1> QED BY <1>4, <1>5, <1>6, EmptySeq

(* A message that is sent.                                                 *)
LEMMA Sent ==
  ASSUME Agrees, NEW l \in Label, NEW v \in Value, ~istrans_in_act(que, l), NEW c \in Vacant
  PROVE  LET r == q_append(que, Default!Msg(l, v), c)
             d == Default!n_bound_ch(list, l, v)
         IN  /\ Carried(r, Buffer(r)) /\ d \in Seq(Message)
             /\ Contents(r, Buffer(r)) = Reverse(d)
             /\ lookup_ch1(r, l) = v
             /\ \A k : k # l => lookup_ch1(r, k) = lookup_ch1(que, k)
<1> DEFINE m == Default!Msg(l, v)
           b == Buffer(que)
           r == q_append(que, m, c)
           d == Default!n_bound_ch(list, l, v)
           n == Len(b)
<1>1. m \in Message /\ m.label = l /\ m.value = v
  BY DEF Default!Msg, Message
<1>2. d = Cons(m, list)
  BY DEF Default!n_bound_ch, Default!Cons, Cons
<1> HIDE DEF m, d
<1>3. Carried(que, b) /\ list \in Seq(Message) /\ Contents(que, b) = Reverse(list)
  BY DEF Agrees
<1>4. /\ b \in Seq(Cell) /\ n \in Nat /\ Contents(que, b) \in Seq(Message)
      /\ \A i \in 1 .. n : b[i] \in Cell /\ que.msg[b[i]] \in Message
  BY <1>3, ContentsAre
<1>5. c \in Cell /\ \A i \in 1 .. n : b[i] # c
  BY <1>4, LenProperties DEF Vacant, ToSet
<1>6. \A i \in 1 .. n : que.msg[b[i]].label # m.label
  BY <1>1, <1>3, TransIffCarried
<1>7. r = enque(que, m, c)
  BY DEF q_append
<1> HIDE DEF b, r
<1>8. Carried(r, Append(b, c)) /\ r.msg = [que.msg EXCEPT ![c] = m]
  BY <1>1, <1>3, <1>5, <1>6, <1>7, Enqueued
<1>9. Buffer(r) = Append(b, c)
  BY <1>8, ContentsAre
<1>10. Contents(r, Append(b, c)) = Append(Reverse(list), m)
  BY <1>1, <1>3, <1>5, <1>6, <1>7, ContentsEnqueued
<1>11. d \in Seq(Message) /\ Reverse(d) = Append(Reverse(list), m)
  BY <1>1, <1>2, <1>3, ReverseOfCons
<1>12. /\ Len(Append(b, c)) = n + 1 /\ Append(b, c)[n + 1] = c
       /\ \A i \in 1 .. n : Append(b, c)[i] = b[i]
  BY <1>4, <1>5, AppendProperties
<1>13. que \in Queues
  BY <1>3 DEF Carried, Linked
<1>14. /\ r.msg[Append(b, c)[n + 1]] = m
       /\ \A i \in 1 .. n : r.msg[Append(b, c)[i]] = que.msg[b[i]]
  BY <1>4, <1>5, <1>8, <1>12, <1>13 DEF Queues
<1>15. n + 1 \in 1 .. n + 1 /\ \A i \in 1 .. n + 1 : i \in 1 .. n \/ i = n + 1
  BY <1>4
<1> DEFINE e == Append(b, c)
<1> HIDE DEF e
<1>16. lookup_ch1(r, l) = v
  <2>1. Carried(r, e) /\ n + 1 \in 1 .. Len(e) /\ r.msg[e[n + 1]] = m
    BY <1>8, <1>12, <1>14, <1>15 DEF e
  <2>2. lookup_ch1(r, r.msg[e[n + 1]].label) = r.msg[e[n + 1]].value
    BY <2>1, LookupFound
  <2> QED BY <1>1, <2>1, <2>2
<1>17. ASSUME NEW k, k # l
       PROVE  lookup_ch1(r, k) = lookup_ch1(que, k)
  <2>1. Carried(r, e) /\ Len(e) = n + 1 /\ Carried(que, b)
    BY <1>3, <1>8, <1>12 DEF e
  <2>2. ASSUME NEW i \in 1 .. Len(b)
        PROVE  \E j \in 1 .. Len(e) : r.msg[e[j]] = que.msg[b[i]]
    <3>1. i \in 1 .. n + 1
      BY <1>4
    <3>2. r.msg[e[i]] = que.msg[b[i]]
      BY <1>14 DEF e
    <3> QED BY <2>1, <3>1, <3>2
  <2>3. ASSUME NEW j \in 1 .. Len(e), r.msg[e[j]].label = k
        PROVE  \E i \in 1 .. Len(b) : r.msg[e[j]] = que.msg[b[i]]
    <3>1. r.msg[e[n + 1]] = m
      BY <1>14 DEF e
    <3>2. j # n + 1
      BY <1>1, <1>17, <2>3, <3>1
    <3>3. j \in 1 .. n
      BY <1>15, <2>1, <3>2
    <3> QED BY <1>14, <3>3 DEF e
  <2>4. /\ \A i \in 1 .. Len(b) : que.msg[b[i]].label = k =>
              \E j \in 1 .. Len(e) : r.msg[e[j]] = que.msg[b[i]]
        /\ \A j \in 1 .. Len(e) : r.msg[e[j]].label = k =>
              \E i \in 1 .. Len(b) : r.msg[e[j]] = que.msg[b[i]]
    BY <2>2, <2>3
  <2> HIDE DEF n
  <2> QED BY <2>1, <2>4, SameAnswer
<1> QED BY <1>8, <1>9, <1>10, <1>11, <1>16, <1>17 DEF m, d, r

(* A message that is received.                                             *)
LEMMA Received ==
  ASSUME Agrees, NEW l \in Label, istrans_in_act(que, l)
  PROVE  LET m == Default!Msg(l, lookup_ch1(que, l))
             r == q_remove(que, m)
             d == Default!delete(m, list)
         IN  /\ Carried(r, Buffer(r)) /\ d \in Seq(Message)
             /\ Contents(r, Buffer(r)) = Reverse(d)
             /\ lookup_ch1(r, l) = Null
             /\ \A k : k # l => lookup_ch1(r, k) = lookup_ch1(que, k)
<1> DEFINE m == Default!Msg(l, lookup_ch1(que, l))
           b == Buffer(que)
           r == q_remove(que, m)
           d == Default!delete(m, list)
           n == Len(b)
<1>1. Carried(que, b) /\ list \in Seq(Message) /\ Contents(que, b) = Reverse(list)
  BY DEF Agrees
<1>2. /\ b \in Seq(Cell) /\ n \in Nat /\ Contents(que, b) \in Seq(Message) /\ Len(Contents(que, b)) = n
      /\ \A i \in 1 .. n : Contents(que, b)[i] = que.msg[b[i]]
      /\ \A i \in 1 .. n : b[i] \in Cell /\ que.msg[b[i]] \in Message
  BY <1>1, ContentsAre
<1>3. PICK i \in 1 .. n : que.msg[b[i]].label = l
  BY <1>1, TransIffCarried
<1>4. m = que.msg[b[i]]
  <2>1. lookup_ch1(que, l) = que.msg[b[i]].value
    BY <1>1, <1>3, LookupFound
  <2>2. que.msg[b[i]] \in Message
    BY <1>2
  <2> QED BY <1>3, <2>1, <2>2 DEF Default!Msg, Message
<1> HIDE DEF m, b, r, d
<1> DEFINE e == RemoveAt(b, i)
<1>5. Carried(r, e) /\ r.msg = que.msg
  BY <1>1, <1>4, Removed DEF r
<1>6. Buffer(r) = e
  BY <1>5, ContentsAre
<1>7. Contents(r, e) = RemoveAt(Reverse(list), i)
  BY <1>1, <1>4, ContentsRemoved DEF r
<1>8. Len(list) = n /\ \A j \in 1 .. n : list[j] = que.msg[b[n - j + 1]]
  <2>1. Len(Reverse(list)) = Len(list) /\ Len(list) \in Nat
        /\ \A j \in 1 .. Len(list) : Reverse(list)[j] = list[Len(list) - j + 1]
    BY <1>1, ReverseProperties, LenProperties
  <2>2. Len(list) = n
    BY <1>1, <1>2, <2>1
  <2>3. ASSUME NEW j \in 1 .. n
        PROVE  list[j] = que.msg[b[n - j + 1]]
    <3>1. n - j + 1 \in 1 .. n /\ n - (n - j + 1) + 1 = j
      BY <1>2
    <3>2. Reverse(list)[n - j + 1] = list[n - (n - j + 1) + 1]
      BY <2>1, <2>2, <3>1
    <3> QED BY <1>1, <1>2, <3>1, <3>2
  <2> QED BY <2>2, <2>3
<1> DEFINE k == n - i + 1
<1>9. k \in 1 .. n /\ n - k + 1 = i
  BY <1>2
<1>10. list[k] = m /\ \A j \in 1 .. n : list[j] = m => j = k
  <2>1. list[k] = m
    BY <1>4, <1>8, <1>9
  <2>2. ASSUME NEW j \in 1 .. n, list[j] = m
        PROVE  j = k
    <3>1. n - j + 1 \in 1 .. n
      BY <1>2
    <3>2. que.msg[b[n - j + 1]].label = que.msg[b[i]].label
      BY <1>4, <1>8, <2>2
    <3>3. n - j + 1 = i
      BY <1>1, <3>1, <3>2 DEF Carried
    <3> QED BY <1>2, <3>3
  <2> QED BY <2>1, <2>2
<1> HIDE DEF k
<1>11. d = RemoveAt(list, k)
  <2>1. {j \in 1 .. Len(list) : list[j] = m} = {k}
    BY <1>8, <1>9, <1>10
  <2>2. Default!SelectInSeq(list, LAMBDA v : v = m) = k
    <3>1. k \in Nat
      BY <1>2, <1>9
    <3>2. Default!Min({k}) = k
      BY <3>1 DEF Default!Min
    <3> QED BY <2>1, <3>2 DEF Default!SelectInSeq
  <2>3. \E j \in 1 .. Len(list) : list[j] = m
    BY <1>8, <1>9, <1>10
  <2> QED BY <2>2, <2>3 DEF d, Default!delete, Default!RemoveFirst, Default!RemoveAt, RemoveAt
<1>12. d \in Seq(Message) /\ Reverse(d) = RemoveAt(Reverse(list), i)
  BY <1>1, <1>8, <1>9, <1>11, RemoveAtProperties, ReverseOfRemoveAt
<1>13. /\ Len(e) = n - 1
       /\ \A j \in 1 .. n - 1 : e[j] = IF j < i THEN b[j] ELSE b[j + 1]
  BY <1>2, RemoveAtProperties
<1> HIDE DEF e
<1>14. ASSUME NEW j \in 1 .. Len(e)
       PROVE  \E x \in 1 .. n : x # i /\ e[j] = b[x]
  BY <1>2, <1>13
<1>15. lookup_ch1(r, l) = Null
  <2>1. \A j \in 1 .. Len(e) : r.msg[e[j]].label # l
    BY <1>1, <1>3, <1>5, <1>14 DEF Carried
  <2> QED BY <1>5, <2>1, LookupNone
<1>16. ASSUME NEW a, a # l
       PROVE  lookup_ch1(r, a) = lookup_ch1(que, a)
  <2>1. ASSUME NEW x \in 1 .. Len(b), que.msg[b[x]].label = a
        PROVE  \E j \in 1 .. Len(e) : r.msg[e[j]] = que.msg[b[x]]
    <3>1. x # i
      BY <1>3, <1>16, <2>1
    <3>2. CASE x < i
      <4>1. x \in 1 .. n - 1 /\ x < i
        BY <1>2, <3>2
      <4> QED BY <1>5, <1>13, <4>1
    <3>3. CASE x > i
      <4>1. x - 1 \in 1 .. n - 1 /\ ~(x - 1 < i) /\ (x - 1) + 1 = x
        BY <1>2, <3>3
      <4> QED BY <1>5, <1>13, <4>1
    <3> QED BY <3>1, <3>2, <3>3
  <2>2. ASSUME NEW j \in 1 .. Len(e)
        PROVE  \E x \in 1 .. Len(b) : r.msg[e[j]] = que.msg[b[x]]
    BY <1>5, <1>14
  <2>3. /\ \A x \in 1 .. Len(b) : que.msg[b[x]].label = a =>
              \E j \in 1 .. Len(e) : r.msg[e[j]] = que.msg[b[x]]
        /\ \A j \in 1 .. Len(e) : r.msg[e[j]].label = a =>
              \E x \in 1 .. Len(b) : r.msg[e[j]] = que.msg[b[x]]
    BY <2>1, <2>2
  <2>4. Carried(que, b) /\ Carried(r, e)
    BY <1>1, <1>5
  <2> QED BY <2>3, <2>4, SameAnswer
<1> QED BY <1>5, <1>6, <1>7, <1>12, <1>15, <1>16 DEF m, r, d

-----------------------------------------------------------------------------
LEMMA MessagesAre ==
  ASSUME Agrees
  PROVE  Messages = Contents(que, Buffer(que))
BY DEF Messages, Contents

LEMMA AgreesAtFirst == Init => Agrees
<1> SUFFICES ASSUME Init PROVE Agrees
  OBVIOUS
<1>1. Carried(que, Buffer(que)) /\ Contents(que, Buffer(que)) = <<>>
  BY EmptyAtFirst DEF Init
<1>2. list = <<>> /\ list \in Seq(Message)
  BY DEF Init
<1>3. Reverse(list) \in Seq(Message) /\ Len(Reverse(list)) = 0
  BY <1>2, ReverseProperties
<1>4. Reverse(list) = <<>>
  BY <1>3, EmptySeq
<1> QED BY <1>1, <1>2, <1>4 DEF Agrees

LEMMA AgreesKept == Agrees /\ [Next]_vars => Agrees'
<1> SUFFICES ASSUME Agrees, [Next]_vars PROVE Agrees'
  OBVIOUS
<1>1. ASSUME NEW l \in Label, NEW v \in Value, SendInner(l, v)
      PROVE  Agrees'
  <2>1. PICK c \in Vacant : que' = q_append(que, Default!Msg(l, v), c)
    BY <1>1 DEF SendInner
  <2>2. list' = Default!n_bound_ch(list, l, v) /\ ~istrans_in_act(que, l)
    BY <1>1 DEF SendInner
  <2>3. /\ Carried(que', Buffer(que')) /\ list' \in Seq(Message)
        /\ Contents(que', Buffer(que')) = Reverse(list')
    BY <2>1, <2>2, Sent
  <2> QED BY <2>3 DEF Agrees
<1>2. ASSUME NEW l \in Label, RecvInner(l)
      PROVE  Agrees'
  <2>1. /\ que' = q_remove(que, Default!Msg(l, lookup_ch1(que, l)))
        /\ list' = Default!delete(Default!Msg(l, lookup_ch1(que, l)), list)
        /\ istrans_in_act(que, l)
    BY <1>2 DEF RecvInner
  <2>2. /\ Carried(que', Buffer(que')) /\ list' \in Seq(Message)
        /\ Contents(que', Buffer(que')) = Reverse(list')
    BY <2>1, Received
  <2> QED BY <2>2 DEF Agrees
<1>3. CASE Sibling
  <2>1. que' = que /\ list' = Reverse(Messages) /\ Messages = Contents(que, Buffer(que))
    BY <1>3, MessagesAre DEF Sibling
  <2>2. Carried(que, Buffer(que)) /\ Messages \in Seq(Message)
    BY <2>1, ContentsAre DEF Agrees
  <2>3. list' \in Seq(Message) /\ Reverse(list') = Messages
    BY <2>1, <2>2, ReverseProperties, ReverseTwice
  <2> QED BY <2>1, <2>2, <2>3 DEF Agrees
<1>4. CASE UNCHANGED <<que, list>>
  <2>1. que' = que /\ list' = list
    BY <1>4
  <2> QED BY <2>1 DEF Agrees
<1>5. CASE RecvOuter \/ Fork \/ UNCHANGED vars
  BY <1>4, <1>5 DEF RecvOuter, Fork, vars
<1> QED BY <1>1, <1>2, <1>3, <1>5 DEF Next

LEMMA AlwaysAgrees == Spec => []Agrees
<1> QED BY AgreesAtFirst, AgreesKept, PTL DEF Spec

(* However many messages are sent and received, and in whichever order:    *)
(* enque, deque and q_remove1 leave a header and a chain of cells that are *)
(* a queue, with cdr on the cell that ends the chain.                      *)
THEOREM QueueWellFormed == Spec => []WellFormed
<1>1. Agrees => WellFormed
  <2> SUFFICES ASSUME Agrees PROVE WellFormed
    OBVIOUS
  <2> DEFINE b == Buffer(que)
             n == Len(b)
  <2>1. Linked(que, b)
    BY DEF Agrees, Carried
  <2> HIDE DEF b
  <2>2. /\ n \in Nat /\ DOMAIN b = 1 .. n /\ b \in Seq(Cell) /\ que.cdr = Nth(b, n) /\ Distinct(b)
        /\ \A i \in 1 .. n : Nth(b, i) = b[i] /\ que.next[b[i]] = Nth(b, i + 1)
        /\ \A i : i \notin 1 .. n => Nth(b, i) = Null
    BY <2>1, Cells DEF Linked
  <2>3. b = <<>> <=> n = 0
    BY <2>2, EmptySeq
  <2>4. IsInjective(b)
    BY <2>2 DEF IsInjective, Distinct
  <2>5. que.cdr = IF b = <<>> THEN Null ELSE Last(b)
    <3>1. n = 0 => n \notin 1 .. n
      BY <2>2
    <3>2. n # 0 => n \in 1 .. n
      BY <2>2
    <3> QED BY <2>2, <2>3, <3>1, <3>2 DEF Last
  <2>6. b # <<>> => que.next[Last(b)] = Null
    <3>1. n + 1 \notin 1 .. n
      BY <2>2
    <3>2. n # 0 => n \in 1 .. n
      BY <2>2
    <3> QED BY <2>2, <2>3, <3>1, <3>2 DEF Last
  <2> QED BY <2>4, <2>5, <2>6 DEF WellFormed, b
<1> QED BY <1>1, AlwaysAgrees, PTL

(* The two implementations of the channel hold the same messages in the    *)
(* same order at every step of a search.                                   *)
THEOREM QueueAnswersAsDefault == Spec => []SameAsDefault
<1>1. Agrees => SameAsDefault
  BY MessagesAre DEF Agrees, SameAsDefault
<1> QED BY <1>1, AlwaysAgrees, PTL

-----------------------------------------------------------------------------
(* The queue implements the registers of the labels: a send fills an empty *)
(* one, a receive empties a full one, and the other steps of the search    *)
(* touch none.                                                             *)
THEOREM QueueIsRegisters == Spec => QueueIsMedia
<1>1. Init => Media!Init
  <2> SUFFICES ASSUME Init PROVE Media!Init
    OBVIOUS
  <2>1. \A l \in Label : lookup_ch1(que, l) = Null
    <3>1. Carried(que, <<>>) /\ \A i \in 1 .. Len(<<>>) : FALSE
      BY EmptyAtFirst DEF Init
    <3> QED BY <3>1, LookupNone
  <2> QED BY <2>1 DEF Media!Init, slots
<1>2. Agrees /\ [Next]_vars => [Media!Next]_slots
  <2> SUFFICES ASSUME Agrees, [Next]_vars PROVE Media!Next \/ slots' = slots
    OBVIOUS
  <2>1. ASSUME NEW l \in Label, NEW v \in Value, SendInner(l, v)
        PROVE  Media!Write(l, v)
    <3>1. PICK c \in Vacant : que' = q_append(que, Default!Msg(l, v), c)
      BY <2>1 DEF SendInner
    <3>2. ~istrans_in_act(que, l)
      BY <2>1 DEF SendInner
    <3>3. lookup_ch1(que', l) = v /\ \A k : k # l => lookup_ch1(que', k) = lookup_ch1(que, k)
      BY <3>1, <3>2, Sent
    <3>4. slots[l] = Null
      BY <3>2 DEF slots, istrans_in_act
    <3>5. slots' = [slots EXCEPT ![l] = v]
      BY <3>3 DEF slots
    <3> QED BY <3>4, <3>5 DEF Media!Write
  <2>2. ASSUME NEW l \in Label, RecvInner(l)
        PROVE  Media!Read(l)
    <3>1. que' = q_remove(que, Default!Msg(l, lookup_ch1(que, l))) /\ istrans_in_act(que, l)
      BY <2>2 DEF RecvInner
    <3>2. lookup_ch1(que', l) = Null /\ \A k : k # l => lookup_ch1(que', k) = lookup_ch1(que, k)
      BY <3>1, Received
    <3>3. slots[l] # Null
      BY <3>1 DEF slots, istrans_in_act
    <3>4. slots' = [slots EXCEPT ![l] = Null]
      BY <3>2 DEF slots
    <3> QED BY <3>3, <3>4 DEF Media!Read
  <2>3. CASE RecvOuter \/ Fork \/ Sibling \/ UNCHANGED vars
    <3>1. que' = que
      BY <2>3 DEF RecvOuter, Fork, Sibling, vars
    <3> QED BY <3>1 DEF slots
  <2> QED BY <2>1, <2>2, <2>3 DEF Next, Media!Next
<1> QED BY <1>1, <1>2, AlwaysAgrees, PTL DEF Spec, QueueIsMedia, Media!Spec
==============================================================================
