--------------------------- MODULE SequenceLemmas ---------------------------
(***************************************************************************)
(* Lemmas that the proofs about several components need: induction over    *)
(* the numbers as a statement about sets, which every prover can use, and  *)
(* the parts of sequences.                                                 *)
(***************************************************************************)
EXTENDS SequencesExt, SequenceTheorems, FiniteSetTheorems, TLAPS

(* The least element of a set, where there is one.                         *)
LEMMA MinIs ==
  ASSUME NEW M, M \subseteq Nat, NEW m \in M, \A n \in M : m <= n
  PROVE  Min(M) = m
<1>1. \A x \in M : (\A n \in M : x <= n) => x = m
  OBVIOUS
<1> QED BY <1>1 DEF Min

LEMMA MinSingleton == \A i \in Nat : Min({i}) = i
BY DEF Min

(* The numbers below a number.                                             *)
LEMMA Counting ==
  ASSUME NEW n \in Nat
  PROVE  Cardinality(1 .. n) = n /\ Cardinality(0 .. n - 1) = n
<1>1. 0 \in Int /\ 1 \in Int /\ n \in Int /\ n - 1 \in Int
  OBVIOUS
<1>2. Cardinality(1 .. n) = IF 1 > n THEN 0 ELSE n - 1 + 1
  BY <1>1, FS_Interval
<1>3. Cardinality(0 .. n - 1) = IF 0 > n - 1 THEN 0 ELSE (n - 1) - 0 + 1
  BY <1>1, FS_Interval
<1> QED BY <1>2, <1>3

(* A set of numbers has a least element.                                   *)
LEMMA LeastNumber ==
  ASSUME NEW M, M \subseteq Nat, M # {}
  PROVE  \E m \in M : \A n \in M : m <= n
<1> DEFINE T == {0 .. k : k \in M}
           R == StrictSubsetOrdering(Nat)
<1>1. IsWellFoundedOn(R, FiniteSubsetsOf(Nat))
  BY FS_StrictSubsetOrderingWellFounded
<1>2. T \subseteq FiniteSubsetsOf(Nat)
  <2> SUFFICES ASSUME NEW k \in M PROVE 0 .. k \in FiniteSubsetsOf(Nat)
    OBVIOUS
  <2>1. IsFiniteSet(0 .. k)
    BY FS_Interval
  <2> QED BY <2>1 DEF FiniteSubsetsOf
<1>3. T # {}
  OBVIOUS
<1>4. PICK x \in T : \A y \in T : <<y, x>> \notin R
  <2> HIDE DEF T, R
  <2> QED BY <1>1, <1>2, <1>3, WFMin
<1>5. PICK m \in M : x = 0 .. m
  OBVIOUS
<1>6. ASSUME NEW n \in M, n < m PROVE FALSE
  <2>1. 0 .. n \in T /\ 0 .. n \subseteq 0 .. m /\ m \in 0 .. m /\ m \notin 0 .. n
    BY <1>6
  <2>2. <<0 .. n, 0 .. m>> \in R
    BY <2>1 DEF StrictSubsetOrdering
  <2> QED BY <1>4, <1>5, <2>1, <2>2
<1> QED BY <1>6

(* Induction: a set with 0 and with the successors of its numbers has all  *)
(* the numbers.                                                            *)
LEMMA NatSetInduction ==
  ASSUME NEW G, 0 \in G, \A n \in Nat : n \in G => n + 1 \in G
  PROVE  Nat \subseteq G
<1> SUFFICES ASSUME Nat \ G # {} PROVE FALSE
  OBVIOUS
<1>1. PICK m \in Nat \ G : \A n \in Nat \ G : m <= n
  BY LeastNumber
<1>2. m # 0 /\ m - 1 \in Nat
  OBVIOUS
<1>3. m - 1 \in G
  BY <1>1, <1>2
<1> QED BY <1>2, <1>3

(* A list of numbers that is computed from front to back exists.           *)
Stepping(N, S, b, step) == N \in Nat /\ b \in S /\ step \in [1 .. N -> [S -> S]]
Stepped(N, S, b, step, f) ==
  f \in [0 .. N -> S] /\ f[0] = b /\ \A n \in 1 .. N : f[n] = step[n][f[n - 1]]

LEMMA PrefixRecursion ==
  ASSUME NEW N, NEW S, NEW b, NEW step, Stepping(N, S, b, step)
  PROVE  \E f : Stepped(N, S, b, step, f)
<1> USE DEF Stepping
<1> DEFINE Is(f, k) == f[0] = b /\ \A n \in 1 .. k : f[n] = step[n][f[n - 1]]
           G == {k \in Nat : k <= N => \E f \in [0 .. k -> S] : Is(f, k)}
<1>1. 0 \in G
  <2>1. [n \in 0 .. 0 |-> b] \in [0 .. 0 -> S] /\ Is([n \in 0 .. 0 |-> b], 0)
    OBVIOUS
  <2> QED BY <2>1
<1>2. ASSUME NEW k \in Nat, k \in G
      PROVE  k + 1 \in G
  <2> SUFFICES ASSUME k + 1 <= N PROVE \E f \in [0 .. k + 1 -> S] : Is(f, k + 1)
    OBVIOUS
  <2>1. PICK f \in [0 .. k -> S] : Is(f, k)
    <3>1. k <= N
      OBVIOUS
    <3> QED BY <1>2, <3>1
  <2> DEFINE e == step[k + 1][f[k]]
             g == [n \in 0 .. k + 1 |-> IF n = k + 1 THEN e ELSE f[n]]
  <2>2. f[k] \in S /\ k + 1 \in 1 .. N
    OBVIOUS
  <2>3. e \in S
    BY <2>2
  <2>4. g \in [0 .. k + 1 -> S]
    BY <2>3
  <2>5. \A n \in 0 .. k : g[n] = f[n]
    OBVIOUS
  <2>6. g[k + 1] = step[k + 1][g[k]]
    BY <2>5
  <2> HIDE DEF g
  <2>7. ASSUME NEW n \in 1 .. k + 1
        PROVE  g[n] = step[n][g[n - 1]]
    <3>1. CASE n = k + 1
      BY <2>6, <3>1
    <3>2. CASE n # k + 1
      <4>1. n \in 1 .. k /\ n \in 0 .. k /\ n - 1 \in 0 .. k
        BY <3>2
      <4> QED BY <2>1, <2>5, <4>1
    <3> QED BY <3>1, <3>2
  <2>8. g[0] = b
    BY <2>1, <2>5
  <2> QED BY <2>4, <2>7, <2>8
<1>3. Nat \subseteq G
  <2> HIDE DEF G
  <2> QED BY <1>1, <1>2, NatSetInduction
<1>4. \E f \in [0 .. N -> S] : Is(f, N)
  <2>1. N \in G
    BY <1>3
  <2> QED BY <2>1
<1> QED BY <1>4 DEF Stepped

(* The greatest of some numbers up to n.                                   *)
LEMMA GreatestNumber ==
  ASSUME NEW n \in Nat, NEW M, M \subseteq 0 .. n, M # {}
  PROVE  Max(M) \in M /\ \A x \in M : x <= Max(M)
<1> DEFINE D == {n - x : x \in M}
<1>1. D \subseteq Nat /\ D # {}
  <2>1. \A x \in M : n - x \in Nat
    OBVIOUS
  <2>2. PICK x \in M : TRUE
    OBVIOUS
  <2>3. n - x \in D
    OBVIOUS
  <2> QED BY <2>1, <2>3
<1>2. PICK d \in D : \A e \in D : d <= e
  BY <1>1, LeastNumber
<1>3. PICK m \in M : d = n - m
  BY <1>2
<1>4. ASSUME NEW x \in M
      PROVE  x <= m
  <2>1. n - x \in D /\ x \in Int /\ m \in Int
    OBVIOUS
  <2> QED BY <1>2, <1>3, <2>1
<1>5. \E x \in M : \A y \in M : x >= y
  BY <1>4
<1>6. M \subseteq Int
  OBVIOUS
<1> DEFINE w == Max(M)
<1>7. w \in M /\ \A y \in M : w >= y
  BY <1>5 DEF Max
<1> HIDE DEF w
<1> QED BY <1>6, <1>7 DEF w

-----------------------------------------------------------------------------
(* The parts of a list behind and before an index.                         *)
LEMMA Suffix ==
  ASSUME NEW S, NEW s \in Seq(S), NEW k \in 0 .. Len(s)
  PROVE  /\ SubSeq(s, k + 1, Len(s)) \in Seq(S)
         /\ Len(SubSeq(s, k + 1, Len(s))) = Len(s) - k
         /\ \A j \in 1 .. Len(s) - k : SubSeq(s, k + 1, Len(s))[j] = s[k + j]
<1> DEFINE n == Len(s)
           t == SubSeq(s, k + 1, n)
<1>1. n \in Nat /\ \A j \in 1 .. n : s[j] \in S
  BY LenProperties, ElementOfSeq
<1> HIDE DEF n
<1>2. k \in Int /\ n \in Int /\ k + 1 \in Int /\ 0 <= k /\ k <= n
  BY <1>1 DEF n
<1>3. \A j \in k + 1 .. n : s[j] \in S
  BY <1>1, <1>2
<1>4. /\ t \in Seq(S) /\ Len(t) = IF k + 1 <= n THEN n - (k + 1) + 1 ELSE 0
      /\ \A j \in 1 .. n - (k + 1) + 1 : t[j] = s[k + 1 + j - 1]
  BY <1>2, <1>3, SubSeqProperties
<1> HIDE DEF t
<1>5. n - (k + 1) + 1 = n - k /\ (k + 1 <= n \/ n - k = 0)
  BY <1>2
<1>6. \A j \in 1 .. n - k : k + 1 + j - 1 = k + j
  BY <1>2
<1> QED BY <1>4, <1>5, <1>6 DEF n, t

LEMMA InitialSegment ==
  ASSUME NEW S, NEW s \in Seq(S), NEW k \in 0 .. Len(s)
  PROVE  /\ SubSeq(s, 1, k) \in Seq(S) /\ Len(SubSeq(s, 1, k)) = k
         /\ \A j \in 1 .. k : SubSeq(s, 1, k)[j] = s[j]
<1> DEFINE t == SubSeq(s, 1, k)
<1>1. Len(s) \in Nat /\ \A j \in 1 .. Len(s) : s[j] \in S
  BY LenProperties, ElementOfSeq
<1>2. 1 \in Int /\ k \in Int /\ 0 <= k
  BY <1>1
<1>3. \A j \in 1 .. k : s[j] \in S
  BY <1>1
<1>4. /\ t \in Seq(S) /\ Len(t) = IF 1 <= k THEN k - 1 + 1 ELSE 0
      /\ \A j \in 1 .. k - 1 + 1 : t[j] = s[1 + j - 1]
  BY <1>2, <1>3, SubSeqProperties
<1> HIDE DEF t
<1>5. k - 1 + 1 = k /\ (1 <= k \/ k = 0) /\ \A j \in 1 .. k : 1 + j - 1 = j
  BY <1>2
<1> QED BY <1>4, <1>5 DEF t

(* The parts of a non-empty sequence have its elements.                    *)
LEMMA Parts ==
  ASSUME NEW S, NEW s \in Seq(S), s # <<>>
  PROVE  /\ Tail(s) \in Seq(S)
         /\ Front(s) \in Seq(S) /\ Len(Front(s)) = Len(s) - 1
         /\ \A i \in 1 .. Len(s) - 1 : Front(s)[i] = s[i]
         /\ Last(s) \in S /\ Head(s) \in S
         /\ Len(s) \in Nat \ {0}
<1>1. Len(s) \in Nat \ {0}
  BY EmptySeq, LenProperties
<1>2. Tail(s) \in Seq(S) /\ Head(s) \in S
  BY HeadTailProperties
<1>5. \A i \in 1 .. Len(s) - 1 : s[i] \in S
  BY <1>1, ElementOfSeq
<1>3. /\ SubSeq(s, 1, Len(s) - 1) \in Seq(S)
      /\ Len(SubSeq(s, 1, Len(s) - 1)) = Len(s) - 1
      /\ \A i \in 1 .. Len(s) - 1 : SubSeq(s, 1, Len(s) - 1)[i] = s[i]
  <2> DEFINE n == Len(s) - 1
  <2>1. 1 \in Int /\ n \in Nat
    BY <1>1
  <2>2. \A i \in 1 .. n : s[i] \in S
    BY <1>5
  <2> HIDE DEF n
  <2>3. /\ SubSeq(s, 1, n) \in Seq(S)
        /\ Len(SubSeq(s, 1, n)) = IF 1 <= n THEN n - 1 + 1 ELSE 0
        /\ \A i \in 1 .. n - 1 + 1 : SubSeq(s, 1, n)[i] = s[1 + i - 1]
    BY <2>1, <2>2, SubSeqProperties
  <2>4. SubSeq(s, 1, n) \in Seq(S) /\ Len(SubSeq(s, 1, n)) = n
    BY <2>1, <2>3
  <2>5. \A i \in 1 .. n : SubSeq(s, 1, n)[i] = s[i]
    BY <2>1, <2>3
  <2> QED BY <2>4, <2>5 DEF n
<1>4. s[Len(s)] \in S
  BY <1>1, ElementOfSeq
<1> QED BY <1>1, <1>2, <1>3, <1>4 DEF Front, Last

(* The front of a concatenation is the front of its first part.            *)
LEMMA HeadOfConcat ==
  ASSUME NEW S, NEW s \in Seq(S), NEW t \in Seq(S), s # <<>>
  PROVE  /\ s \o t # <<>> /\ Head(s \o t) = Head(s)
         /\ Tail(s \o t) = Tail(s) \o t
<1>1. /\ Len(s) \in Nat \ {0} /\ Len(t) \in Nat
      /\ Tail(s) \in Seq(S) /\ Len(Tail(s)) = Len(s) - 1
      /\ \A i \in 1 .. Len(Tail(s)) : Tail(s)[i] = s[i + 1]
  BY EmptySeq, LenProperties, HeadTailProperties
<1>2. /\ s \o t \in Seq(S) /\ Len(s \o t) = Len(s) + Len(t)
      /\ \A i \in 1 .. Len(s) + Len(t) : (s \o t)[i] = IF i <= Len(s) THEN s[i] ELSE t[i - Len(s)]
  BY ConcatProperties
<1>3. s \o t # <<>>
  BY <1>1, <1>2, EmptySeq
<1>4. Head(s \o t) = Head(s)
  BY <1>1, <1>2, <1>3
<1>5. /\ Tail(s \o t) \in Seq(S) /\ Len(Tail(s \o t)) = Len(s) + Len(t) - 1
      /\ \A i \in 1 .. Len(s) + Len(t) - 1 : Tail(s \o t)[i] = (s \o t)[i + 1]
  BY <1>2, <1>3, HeadTailProperties
<1>6. /\ Tail(s) \o t \in Seq(S) /\ Len(Tail(s) \o t) = Len(s) - 1 + Len(t)
      /\ \A i \in 1 .. Len(s) - 1 + Len(t) :
           (Tail(s) \o t)[i] = IF i <= Len(s) - 1 THEN Tail(s)[i] ELSE t[i - (Len(s) - 1)]
  BY <1>1, ConcatProperties
<1>7. \A i \in 1 .. Len(s) + Len(t) - 1 : Tail(s \o t)[i] = (Tail(s) \o t)[i]
  BY <1>1, <1>2, <1>5, <1>6
<1>8. Tail(s \o t) = Tail(s) \o t
  BY <1>1, <1>5, <1>6, <1>7, SeqEqual
<1> QED BY <1>3, <1>4, <1>8

(* What is taken off the end of a sequence gives the sequence back.        *)
LEMMA FrontAndLast ==
  ASSUME NEW S, NEW s \in Seq(S), s # <<>>
  PROVE  s = Append(Front(s), Last(s))
<1>1. /\ Front(s) \in Seq(S) /\ Len(Front(s)) = Len(s) - 1
      /\ \A i \in 1 .. Len(s) - 1 : Front(s)[i] = s[i]
      /\ Last(s) \in S /\ Len(s) \in Nat \ {0}
  BY Parts
<1>2. /\ Append(Front(s), Last(s)) \in Seq(S)
      /\ Len(Append(Front(s), Last(s))) = Len(s)
      /\ \A i \in 1 .. Len(s) - 1 : Append(Front(s), Last(s))[i] = Front(s)[i]
      /\ Append(Front(s), Last(s))[Len(s)] = Last(s)
  BY <1>1, AppendProperties
<1>3. \A i \in 1 .. Len(s) : s[i] = Append(Front(s), Last(s))[i]
  BY <1>1, <1>2 DEF Last
<1> QED BY <1>2, <1>3, SeqEqual

(* Removing a position keeps the other elements and their order.           *)
LEMMA RemoveAtProperties ==
  ASSUME NEW S, NEW c \in Seq(S), NEW i \in 1..Len(c)
  PROVE  /\ RemoveAt(c, i) \in Seq(S)
         /\ Len(RemoveAt(c, i)) = Len(c) - 1
         /\ \A j \in 1..Len(c) - 1 :
              RemoveAt(c, i)[j] = IF j < i THEN c[j] ELSE c[j + 1]
<1> DEFINE p == SubSeq(c, 1, i - 1)
           s == SubSeq(c, i + 1, Len(c))
<1>1. Len(c) \in Nat /\ \A j \in 1..Len(c) : c[j] \in S
  BY LenProperties, ElementOfSeq
<1>2. /\ p \in Seq(S)
      /\ Len(p) = i - 1
      /\ \A j \in 1..i - 1 : p[j] = c[j]
  BY <1>1, SubSeqProperties
<1>3. /\ s \in Seq(S)
      /\ Len(s) = Len(c) - i
      /\ \A j \in 1..Len(c) - i : s[j] = c[i + j]
  BY <1>1, SubSeqProperties
<1> HIDE DEF p, s
<1>4. /\ p \o s \in Seq(S)
      /\ Len(p \o s) = Len(p) + Len(s)
      /\ \A j \in 1..Len(p) + Len(s) :
           (p \o s)[j] = IF j <= Len(p) THEN p[j] ELSE s[j - Len(p)]
  BY <1>2, <1>3, ConcatProperties
<1>5. RemoveAt(c, i) = p \o s
  BY DEF RemoveAt, p, s
<1>6. Len(p \o s) = Len(c) - 1
  BY <1>1, <1>2, <1>3, <1>4
<1>7. ASSUME NEW j \in 1..Len(c) - 1
      PROVE  (p \o s)[j] = IF j < i THEN c[j] ELSE c[j + 1]
  <2>1. j \in 1..Len(p) + Len(s)
    BY <1>1, <1>2, <1>3
  <2>2. CASE j < i
    BY <2>1, <2>2, <1>1, <1>2, <1>4
  <2>3. CASE ~(j < i)
    <3>1. (p \o s)[j] = s[j - (i - 1)]
      BY <2>1, <2>3, <1>1, <1>2, <1>4
    <3>2. j - (i - 1) \in 1..Len(c) - i
      BY <2>3, <1>1
    <3> QED BY <3>1, <3>2, <2>3, <1>1, <1>3
  <2> QED BY <2>2, <2>3
<1> QED BY <1>4, <1>5, <1>6, <1>7

(* The elements of a sequence from its end to its beginning.               *)
LEMMA ReverseProperties ==
  ASSUME NEW S, NEW s \in Seq(S)
  PROVE  /\ Reverse(s) \in Seq(S) /\ Len(Reverse(s)) = Len(s)
         /\ \A i \in 1 .. Len(s) : Reverse(s)[i] = s[Len(s) - i + 1]
<1> DEFINE n == Len(s)
           r == Reverse(s)
<1>1. n \in Nat /\ \A i \in 1 .. n : s[i] \in S
  BY LenProperties, ElementOfSeq
<1>2. r = [i \in 1 .. n |-> s[n - i + 1]]
  BY DEF Reverse
<1>3. \A i \in 1 .. n : n - i + 1 \in 1 .. n
  BY <1>1
<1> HIDE DEF n, r
<1>4. r \in [1 .. n -> S]
  BY <1>1, <1>2, <1>3
<1>5. r \in Seq(S)
  BY <1>1, <1>4, SeqDef
<1>6. Len(r) = n
  BY <1>1, <1>4, <1>5, LenProperties
<1> QED BY <1>2, <1>5, <1>6 DEF n, r

LEMMA ReverseTwice ==
  ASSUME NEW S, NEW s \in Seq(S)
  PROVE  Reverse(Reverse(s)) = s
<1> DEFINE n == Len(s)
           r == Reverse(s)
<1>1. n \in Nat
  BY LenProperties
<1>2. r \in Seq(S) /\ Len(r) = n /\ \A i \in 1 .. n : r[i] = s[n - i + 1]
  BY ReverseProperties
<1> HIDE DEF r
<1>3. Reverse(r) \in Seq(S) /\ Len(Reverse(r)) = n /\ \A i \in 1 .. n : Reverse(r)[i] = r[n - i + 1]
  BY <1>2, ReverseProperties
<1>4. \A i \in 1 .. n : n - i + 1 \in 1 .. n /\ n - (n - i + 1) + 1 = i
  BY <1>1
<1>5. \A i \in 1 .. n : Reverse(r)[i] = s[i]
  BY <1>2, <1>3, <1>4
<1>6. Reverse(r) = s
  BY <1>3, <1>5, SeqEqual
<1> QED BY <1>6 DEF r

(* What is put in front comes last in the reverse.                         *)
LEMMA ReverseOfCons ==
  ASSUME NEW S, NEW s \in Seq(S), NEW e \in S
  PROVE  Cons(e, s) \in Seq(S) /\ Reverse(Cons(e, s)) = Append(Reverse(s), e)
<1> DEFINE n == Len(s)
           c == Cons(e, s)
<1>1. n \in Nat
  BY LenProperties
<1>2. <<e>> \in Seq(S) /\ Len(<<e>>) = 1 /\ <<e>>[1] = e
  OBVIOUS
<1>3. c = <<e>> \o s
  BY DEF Cons
<1> HIDE DEF c
<1>4. /\ c \in Seq(S) /\ Len(c) = n + 1 /\ c[1] = e
      /\ \A i \in 1 .. n : c[i + 1] = s[i]
  BY <1>1, <1>2, <1>3, ConcatProperties
<1>5. /\ Reverse(c) \in Seq(S) /\ Len(Reverse(c)) = n + 1
      /\ \A i \in 1 .. n + 1 : Reverse(c)[i] = c[n + 1 - i + 1]
  BY <1>4, ReverseProperties
<1>6. /\ Reverse(s) \in Seq(S) /\ Len(Reverse(s)) = n
      /\ \A i \in 1 .. n : Reverse(s)[i] = s[n - i + 1]
  BY ReverseProperties
<1>7. /\ Append(Reverse(s), e) \in Seq(S) /\ Len(Append(Reverse(s), e)) = n + 1
      /\ \A i \in 1 .. n : Append(Reverse(s), e)[i] = Reverse(s)[i]
      /\ Append(Reverse(s), e)[n + 1] = e
  BY <1>6, AppendProperties
<1>8. ASSUME NEW i \in 1 .. n + 1
      PROVE  Reverse(c)[i] = Append(Reverse(s), e)[i]
  <2>1. CASE i = n + 1
    BY <1>1, <1>4, <1>5, <1>7, <2>1
  <2>2. CASE i # n + 1
    <3>1. i \in 1 .. n /\ n - i + 1 \in 1 .. n /\ n + 1 - i + 1 = (n - i + 1) + 1
      BY <1>1, <2>2
    <3>2. Reverse(c)[i] = c[(n - i + 1) + 1]
      BY <1>5, <3>1
    <3>3. c[(n - i + 1) + 1] = s[n - i + 1]
      BY <1>4, <3>1
    <3> QED BY <1>6, <1>7, <3>1, <3>2, <3>3
  <2> QED BY <2>1, <2>2
<1>9. Reverse(c) = Append(Reverse(s), e)
  <2> HIDE DEF n
  <2> QED BY <1>5, <1>7, <1>8, SeqEqual
<1> QED BY <1>4, <1>9 DEF c

(* A position that is removed is removed from the reverse.                 *)
LEMMA ReverseOfRemoveAt ==
  ASSUME NEW S, NEW s \in Seq(S), NEW i \in 1 .. Len(s)
  PROVE  Reverse(RemoveAt(s, i)) = RemoveAt(Reverse(s), Len(s) - i + 1)
<1> DEFINE n == Len(s)
           k == n - i + 1
           r == Reverse(s)
           d == RemoveAt(s, i)
<1>1. n \in Nat /\ k \in 1 .. n /\ n \in Nat \ {0}
  BY LenProperties
<1>2. r \in Seq(S) /\ Len(r) = n /\ \A j \in 1 .. n : r[j] = s[n - j + 1]
  BY ReverseProperties
<1>3. /\ d \in Seq(S) /\ Len(d) = n - 1
      /\ \A j \in 1 .. n - 1 : d[j] = IF j < i THEN s[j] ELSE s[j + 1]
  BY RemoveAtProperties
<1> HIDE DEF r, d
<1>4. /\ RemoveAt(r, k) \in Seq(S) /\ Len(RemoveAt(r, k)) = n - 1
      /\ \A j \in 1 .. n - 1 : RemoveAt(r, k)[j] = IF j < k THEN r[j] ELSE r[j + 1]
  <2> HIDE DEF n, k
  <2> QED BY <1>1, <1>2, RemoveAtProperties
<1>5. /\ Reverse(d) \in Seq(S) /\ Len(Reverse(d)) = n - 1
      /\ \A j \in 1 .. n - 1 : Reverse(d)[j] = d[n - 1 - j + 1]
  <2>1. /\ Reverse(d) \in Seq(S) /\ Len(Reverse(d)) = Len(d)
        /\ \A j \in 1 .. Len(d) : Reverse(d)[j] = d[Len(d) - j + 1]
    BY <1>3, ReverseProperties
  <2> HIDE DEF n
  <2> QED BY <1>3, <2>1
<1>6. ASSUME NEW j \in 1 .. n - 1
      PROVE  Reverse(d)[j] = RemoveAt(r, k)[j]
  <2>1. n - j \in 1 .. n - 1 /\ n - 1 - j + 1 = n - j /\ j \in 1 .. n /\ j + 1 \in 1 .. n
    BY <1>1
  <2>2. Reverse(d)[j] = IF n - j < i THEN s[n - j] ELSE s[n - j + 1]
    BY <1>3, <1>5, <2>1
  <2>3. r[j] = s[n - j + 1] /\ r[j + 1] = s[n - (j + 1) + 1] /\ n - (j + 1) + 1 = n - j
    BY <1>1, <1>2, <2>1
  <2>4. j < k <=> ~ (n - j < i)
    BY <1>1
  <2> HIDE DEF k, n
  <2> QED BY <1>4, <2>2, <2>3, <2>4
<1>7. Reverse(d) = RemoveAt(r, k)
  <2> HIDE DEF n, k
  <2> QED BY <1>4, <1>5, <1>6, SeqEqual
<1> QED BY <1>7 DEF d, r

-----------------------------------------------------------------------------
(* The concatenation of the first sequences of a list, one by one.         *)
Joined(s, g) == g = [i \in 1 .. Len(s) |-> IF i = 1 THEN s[i] ELSE g[i - 1] \o s[i]]

LEMMA JoinedExists ==
  ASSUME NEW S, NEW s \in Seq(Seq(S)), s # <<>>
  PROVE  \E g \in [1 .. Len(s) -> Seq(S)] : Joined(s, g)
<1> DEFINE n == Len(s)
           step == [i \in 1 .. n - 1 |-> [x \in Seq(S) |-> x \o s[i + 1]]]
<1>1. n \in Nat \ {0} /\ n - 1 \in Nat /\ \A i \in 1 .. n : s[i] \in Seq(S)
  BY EmptySeq, LenProperties, ElementOfSeq
<1> HIDE DEF n
<1>2. step \in [1 .. n - 1 -> [Seq(S) -> Seq(S)]]
  <2> SUFFICES ASSUME NEW i \in 1 .. n - 1, NEW x \in Seq(S) PROVE x \o s[i + 1] \in Seq(S)
    OBVIOUS
  <2>1. i + 1 \in 1 .. n
    BY <1>1
  <2> QED BY <1>1, <2>1, ConcatProperties
<1>3. \A i \in 1 .. n - 1, x \in Seq(S) : step[i][x] = x \o s[i + 1]
  OBVIOUS
<1>4. s[1] \in Seq(S)
  BY <1>1
<1> HIDE DEF step
<1>5. PICK f : Stepped(n - 1, Seq(S), s[1], step, f)
  <2>1. Stepping(n - 1, Seq(S), s[1], step)
    BY <1>1, <1>2, <1>4 DEF Stepping
  <2> QED BY <2>1, PrefixRecursion
<1> USE DEF Stepped
<1> DEFINE g == [i \in 1 .. n |-> f[i - 1]]
<1>6. g \in [1 .. n -> Seq(S)]
  <2>1. \A i \in 1 .. n : i - 1 \in 0 .. n - 1
    BY <1>1
  <2> QED BY <1>5, <2>1
<1>7. ASSUME NEW i \in 1 .. n
      PROVE  g[i] = IF i = 1 THEN s[i] ELSE g[i - 1] \o s[i]
  <2>1. CASE i = 1
    BY <1>5, <2>1
  <2>2. CASE i # 1
    <3>1. i - 1 \in 1 .. n - 1 /\ i - 1 \in 1 .. n /\ (i - 1) + 1 = i /\ (i - 1) - 1 \in 0 .. n - 1
      BY <1>1, <2>2
    <3>2. f[i - 1] = f[(i - 1) - 1] \o s[i]
      BY <1>3, <1>5, <3>1
    <3> QED BY <2>2, <3>1, <3>2
  <2> QED BY <2>1, <2>2
<1>8. g = [i \in 1 .. n |-> g[i]]
  OBVIOUS
<1> HIDE DEF g
<1>9. Joined(s, g)
  BY <1>7, <1>8 DEF Joined, n
<1> QED BY <1>6, <1>9 DEF n

LEMMA FlattenIs ==
  ASSUME NEW s, Len(s) \in Nat \ {0}, NEW g, Joined(s, g)
  PROVE  FlattenSeq(s) = g[Len(s)]
<1> DEFINE w == CHOOSE f : Joined(s, f)
           n == Len(s)
<1>1. FlattenSeq(s) = w[n]
  BY DEF FlattenSeq, Joined
<1>2. Joined(s, w)
  OBVIOUS
<1> HIDE DEF w
<1>7. \A i \in 1 .. n : i # 1 => w[i] = w[i - 1] \o s[i] /\ g[i] = g[i - 1] \o s[i]
  BY <1>2 DEF Joined
<1> DEFINE G == {k \in Nat : k + 1 <= n => w[k + 1] = g[k + 1]}
<1>3. 0 \in G
  BY <1>2 DEF Joined
<1>4. ASSUME NEW k \in Nat, k \in G
      PROVE  k + 1 \in G
  <2> SUFFICES ASSUME (k + 1) + 1 <= n PROVE w[(k + 1) + 1] = g[(k + 1) + 1]
    OBVIOUS
  <2>1. (k + 1) + 1 \in 1 .. n /\ (k + 1) + 1 # 1 /\ ((k + 1) + 1) - 1 = k + 1 /\ k + 1 <= n
    OBVIOUS
  <2>2. w[k + 1] = g[k + 1]
    BY <1>4, <2>1
  <2> DEFINE j == (k + 1) + 1
  <2>3. j \in 1 .. n /\ j # 1 /\ j - 1 = k + 1
    BY <2>1
  <2> HIDE DEF j
  <2>4. w[j] = g[j]
    BY <1>7, <2>2, <2>3
  <2> QED BY <2>4 DEF j
<1>5. Nat \subseteq G
  <2> HIDE DEF G
  <2> QED BY <1>3, <1>4, NatSetInduction
<1>6. n - 1 \in G /\ (n - 1) + 1 = n
  BY <1>5
<1> QED BY <1>1, <1>6

LEMMA FlattenTyped ==
  ASSUME NEW S, NEW s \in Seq(Seq(S))
  PROVE  FlattenSeq(s) \in Seq(S)
<1>1. CASE s = <<>>
  BY <1>1, EmptySeq DEF FlattenSeq
<1>2. CASE s # <<>>
  <2>1. PICK g \in [1 .. Len(s) -> Seq(S)] : Joined(s, g)
    BY <1>2, JoinedExists
  <2>2. Len(s) \in Nat \ {0} /\ Len(s) \in 1 .. Len(s)
    BY <1>2, EmptySeq, LenProperties
  <2>3. FlattenSeq(s) = g[Len(s)]
    BY <2>1, <2>2, FlattenIs
  <2>4. g[Len(s)] \in Seq(S)
    <3> DEFINE T == Seq(S)
               n == Len(s)
    <3>1. g \in [1 .. n -> T] /\ n \in 1 .. n
      BY <2>1, <2>2
    <3> HIDE DEF T, n
    <3>2. g[n] \in T
      BY <3>1
    <3> QED BY <3>2 DEF T, n
  <2> QED BY <2>3, <2>4
<1> QED BY <1>1, <1>2

(* What is flattened last ends the result.                                 *)
LEMMA FlattenOfAppend ==
  ASSUME NEW S, NEW s \in Seq(Seq(S)), NEW x \in Seq(S)
  PROVE  FlattenSeq(Append(s, x)) = FlattenSeq(s) \o x
<1> DEFINE n == Len(s)
           T == Seq(S)
           t == Append(s, x)
<1>1. n \in Nat /\ \A i \in 1 .. n : s[i] \in T
  BY LenProperties, ElementOfSeq
<1>2. t \in Seq(T) /\ Len(t) = n + 1 /\ t[n + 1] = x /\ \A i \in 1 .. n : t[i] = s[i]
  BY AppendProperties
<1>3. t # <<>>
  BY <1>1, <1>2, EmptySeq
<1> HIDE DEF t
<1>4. PICK g \in [1 .. Len(t) -> Seq(S)] : Joined(t, g)
  BY <1>2, <1>3, JoinedExists
<1>5. FlattenSeq(t) = g[n + 1]
  <2>1. Len(t) \in Nat \ {0}
    BY <1>1, <1>2
  <2> QED BY <1>2, <1>4, <2>1, FlattenIs
<1>6. \A i \in 1 .. n + 1 : g[i] = IF i = 1 THEN t[i] ELSE g[i - 1] \o t[i]
  BY <1>2, <1>4 DEF Joined
<1>7. CASE n = 0
  <2>1. s = <<>> /\ FlattenSeq(s) = <<>>
    BY <1>7, EmptySeq DEF FlattenSeq
  <2>2. g[1] = x
    BY <1>2, <1>6, <1>7
  <2> QED BY <1>5, <1>7, <2>1, <2>2, ConcatEmptySeq DEF t
<1>8. CASE n # 0
  <2> DEFINE f == [i \in 1 .. n |-> g[i]]
  <2>1. \A i \in 1 .. n : i \in 1 .. n + 1 /\ (i # 1 => i - 1 \in 1 .. n)
    BY <1>1
  <2>2. \A i \in 1 .. n : f[i] = IF i = 1 THEN s[i] ELSE f[i - 1] \o s[i]
    BY <1>2, <1>6, <2>1
  <2>3. Joined(s, f)
    <3>1. f = [i \in 1 .. n |-> f[i]]
      OBVIOUS
    <3> HIDE DEF f
    <3>2. f = [i \in 1 .. n |-> IF i = 1 THEN s[i] ELSE f[i - 1] \o s[i]]
      BY <2>2, <3>1
    <3> QED BY <3>2 DEF Joined
  <2>4. FlattenSeq(s) = g[n]
    <3>1. Len(s) \in Nat \ {0} /\ f[n] = g[n]
      BY <1>1, <1>8
    <3> HIDE DEF f
    <3> QED BY <2>3, <3>1, FlattenIs
  <2>5. g[n + 1] = g[n] \o x
    <3>1. n + 1 \in 1 .. n + 1 /\ n + 1 # 1 /\ (n + 1) - 1 = n
      BY <1>1, <1>8
    <3> DEFINE m == n + 1
    <3>2. m \in 1 .. n + 1 /\ m # 1 /\ m - 1 = n /\ t[m] = x
      BY <1>2, <3>1
    <3> HIDE DEF m, n
    <3>3. g[m] = g[n] \o x
      BY <1>6, <3>2
    <3> QED BY <3>3 DEF m
  <2> QED BY <1>5, <2>4, <2>5 DEF t
<1> QED BY <1>7, <1>8
==============================================================================
