--------------------------- MODULE Evaluator_proofs ---------------------------
(***************************************************************************)
(* Proofs about eval(), for every set of programs and definitions, every   *)
(* bound of the height of an expression, and every input.                  *)
(*                                                                         *)
(* The first part is about the operators of Terms: what the recursive      *)
(* definitions give for an expression in terms of what they give for its   *)
(* parts, induction over expressions, and what the functions that build    *)
(* and take apart continuations do to the row of processes.  The second    *)
(* part is about the actions of Evaluator: its inductive invariant, and    *)
(* that every action is a step of Processes or leaves the row as it is.    *)
(* The third part is about what an expression lacks: a closed program      *)
(* lacks nothing, no action changes that, and so none ends in an error.    *)
(***************************************************************************)
EXTENDS Evaluator, SequenceLemmas, TLAPS

-----------------------------------------------------------------------------
(* What the definitions by recursion over a height or a number of          *)
(* unfoldings give for n, where `below' is what they give for n - 1.       *)
Level(n, below, full) ==
  [exp  |-> {Hole} \cup Built(IF n = 0 THEN {} ELSE below.exp),
   val  |-> Valued(IF n = 0 THEN {} ELSE below.val),
   test |-> Tests(IF n = 0 THEN [x \in Expression |-> "diverged"] ELSE below.test, full)]

Levels(f, full) == f = [n \in Nat |-> Level(n, f[n - 1], full)]

(* There are such values for all numbers.                                  *)
LEMMA LevelsExist ==
  ASSUME NEW full
  PROVE  \E f : Levels(f, full)
<1> DEFINE Up(n, X) == Level(n, X, full)
           Is(f, k) == f = [n \in 0 .. k |-> Up(n, f[n - 1])]
           G == {k \in Nat : \E f : Is(f, k)}
<1>0. ASSUME NEW X, NEW Y
      PROVE  Up(0, X) = Up(0, Y)
  BY DEF Level
<1> HIDE DEF Up
<1>1. 0 \in G
  <2> DEFINE g == [n \in 0 .. 0 |-> Up(0, {})]
  <2>1. ASSUME NEW n \in 0 .. 0
        PROVE  g[n] = Up(n, g[n - 1])
    <3>1. n = 0
      OBVIOUS
    <3>2. Up(0, {}) = Up(0, g[n - 1])
      BY <1>0
    <3> QED BY <3>1, <3>2
  <2>2. g = [n \in 0 .. 0 |-> g[n]]
    OBVIOUS
  <2> HIDE DEF g
  <2>3. g = [n \in 0 .. 0 |-> Up(n, g[n - 1])]
    BY <2>1, <2>2
  <2> QED BY <2>3
<1>2. ASSUME NEW k \in Nat, k \in G
      PROVE  k + 1 \in G
  <2>1. PICK f : Is(f, k)
    BY <1>2
  <2> DEFINE g == [n \in 0 .. k + 1 |-> IF n = k + 1 THEN Up(k + 1, f[k]) ELSE f[n]]
  <2>2. ASSUME NEW n \in 0 .. k + 1
        PROVE  g[n] = Up(n, g[n - 1])
    <3>1. CASE n = k + 1
      <4>1. n - 1 = k /\ k \in 0 .. k + 1 /\ k # k + 1
        BY <3>1
      <4>2. g[k] = f[k] /\ g[n] = Up(k + 1, f[k])
        BY <3>1, <4>1
      <4> QED BY <3>1, <4>1, <4>2
    <3>2. CASE n = 0
      <4>1. 0 \in 0 .. k /\ 0 # k + 1
        OBVIOUS
      <4>2. g[0] = f[0] /\ f[0] = Up(0, f[0 - 1])
        BY <2>1, <4>1
      <4>3. Up(0, f[0 - 1]) = Up(0, g[0 - 1])
        BY <1>0
      <4> QED BY <3>2, <4>2, <4>3
    <3>3. CASE n # k + 1 /\ n # 0
      <4>1. n \in 0 .. k /\ n - 1 \in 0 .. k + 1 /\ n - 1 # k + 1
        BY <3>3
      <4>2. f[n] = Up(n, f[n - 1])
        BY <2>1, <4>1
      <4>3. g[n - 1] = f[n - 1] /\ g[n] = f[n]
        BY <3>3, <4>1
      <4> QED BY <4>2, <4>3
    <3> QED BY <3>1, <3>2, <3>3
  <2>3. g = [n \in 0 .. k + 1 |-> g[n]]
    OBVIOUS
  <2> HIDE DEF g
  <2>4. g = [n \in 0 .. k + 1 |-> Up(n, g[n - 1])]
    BY <2>2, <2>3
  <2> QED BY <2>4
<1>3. Nat \subseteq G
  <2> HIDE DEF G
  <2> QED BY <1>1, <1>2, NatSetInduction
<1> DEFINE F == [k \in Nat |-> CHOOSE f : Is(f, k)]
<1>4. ASSUME NEW k \in Nat
      PROVE  Is(F[k], k)
  <2>1. \E f : Is(f, k)
    BY <1>3
  <2>2. F[k] = CHOOSE f : Is(f, k)
    OBVIOUS
  <2> HIDE DEF Is, F
  <2> QED BY <2>1, <2>2
<1> HIDE DEF F
<1> DEFINE H == {n \in Nat : \A k \in Nat : n <= k => F[k][n] = F[n][n]}
<1>5. 0 \in H
  <2> SUFFICES ASSUME NEW k \in Nat PROVE F[k][0] = F[0][0]
    OBVIOUS
  <2>1. Is(F[k], k) /\ Is(F[0], 0)
    BY <1>4
  <2>2. 0 \in 0 .. k /\ 0 \in 0 .. 0
    OBVIOUS
  <2>3. F[k][0] = Up(0, F[k][0 - 1])
    BY <2>1, <2>2
  <2>4. F[0][0] = Up(0, F[0][0 - 1])
    BY <2>1, <2>2
  <2> QED BY <1>0, <2>3, <2>4
<1>6. ASSUME NEW n \in Nat, n \in H
      PROVE  n + 1 \in H
  <2> SUFFICES ASSUME NEW k \in Nat, n + 1 <= k PROVE F[k][n + 1] = F[n + 1][n + 1]
    OBVIOUS
  <2>1. Is(F[k], k) /\ Is(F[n + 1], n + 1)
    BY <1>4
  <2>2. n + 1 \in 0 .. k /\ n + 1 \in 0 .. n + 1 /\ (n + 1) - 1 = n
    OBVIOUS
  <2>3. F[k][n] = F[n][n] /\ F[n + 1][n] = F[n][n]
    BY <1>6
  <2>4. F[k][n + 1] = Up(n + 1, F[k][n])
    BY <2>1, <2>2
  <2>5. F[n + 1][n + 1] = Up(n + 1, F[n + 1][n])
    BY <2>1, <2>2
  <2> QED BY <2>3, <2>4, <2>5
<1>7. Nat \subseteq H
  <2> HIDE DEF H
  <2> QED BY <1>5, <1>6, NatSetInduction
<1> DEFINE T == [n \in Nat |-> F[n][n]]
<1>8. ASSUME NEW n \in Nat
      PROVE  T[n] = Up(n, T[n - 1])
  <2>1. F[n] = [m \in 0 .. n |-> Up(m, F[n][m - 1])]
    BY <1>4
  <2>2. F[n][n] = Up(n, F[n][n - 1])
    BY <2>1
  <2>3. CASE n = 0
    BY <1>0, <2>2, <2>3
  <2>4. CASE n # 0
    <3>1. n - 1 \in H /\ n - 1 \in Nat /\ n - 1 <= n
      BY <1>7, <2>4
    <3>2. F[n][n - 1] = T[n - 1]
      BY <3>1
    <3> QED BY <2>2, <3>2
  <2> QED BY <2>3, <2>4
<1>9. T = [n \in Nat |-> T[n]]
  OBVIOUS
<1> HIDE DEF T
<1>10. T = [n \in Nat |-> Up(n, T[n - 1])]
  BY <1>8, <1>9
<1> QED BY <1>10 DEF Up, Levels

LEMMA LevelAt ==
  ASSUME NEW full, NEW f, Levels(f, full), NEW n \in Nat
  PROVE  /\ f[n].exp = {Hole} \cup Built(IF n = 0 THEN {} ELSE f[n - 1].exp)
         /\ f[n].val = Valued(IF n = 0 THEN {} ELSE f[n - 1].val)
         /\ f[n].test = Tests(IF n = 0 THEN [x \in Expression |-> "diverged"] ELSE f[n - 1].test, full)
<1>1. f[n] = Level(n, f[n - 1], full)
  BY DEF Levels
<1> QED BY <1>1 DEF Level

LEMMA ExpressionToIs ==
  ExpressionTo = [n \in Nat |-> {Hole} \cup Built(IF n = 0 THEN {} ELSE ExpressionTo[n - 1])]
<1>1. PICK f : Levels(f, {})
  BY LevelsExist
<1> DEFINE w == [n \in Nat |-> f[n].exp]
           Of(n) == {Hole} \cup Built(IF n = 0 THEN {} ELSE w[n - 1])
<1>2. ASSUME NEW n \in Nat
      PROVE  w[n] = Of(n)
  <2>1. f[n].exp = {Hole} \cup Built(IF n = 0 THEN {} ELSE f[n - 1].exp)
    BY <1>1, LevelAt
  <2>2. n # 0 => w[n - 1] = f[n - 1].exp
    OBVIOUS
  <2> QED BY <2>1, <2>2
<1>3. w = [n \in Nat |-> Of(n)]
  <2>1. w = [n \in Nat |-> w[n]]
    OBVIOUS
  <2> QED BY <1>2, <2>1
<1> HIDE DEF w
<1> QED BY <1>3 DEF ExpressionTo

LEMMA ValueToIs ==
  ValueTo = [n \in Nat |-> Valued(IF n = 0 THEN {} ELSE ValueTo[n - 1])]
<1>1. PICK f : Levels(f, {})
  BY LevelsExist
<1> DEFINE w == [n \in Nat |-> f[n].val]
           Of(n) == Valued(IF n = 0 THEN {} ELSE w[n - 1])
<1>2. ASSUME NEW n \in Nat
      PROVE  w[n] = Of(n)
  <2>1. f[n].val = Valued(IF n = 0 THEN {} ELSE f[n - 1].val)
    BY <1>1, LevelAt
  <2>2. n # 0 => w[n - 1] = f[n - 1].val
    OBVIOUS
  <2> QED BY <2>1, <2>2
<1>3. w = [n \in Nat |-> Of(n)]
  <2>1. w = [n \in Nat |-> w[n]]
    OBVIOUS
  <2> QED BY <1>2, <2>1
<1> HIDE DEF w
<1> QED BY <1>3 DEF ValueTo

(* The tests after any number of unfoldings, of which derivatives() takes  *)
(* as many as there are definitions.                                       *)
Unfolding(full) ==
  LET unfolding[n \in Nat] ==
        Tests(IF n = 0 THEN [x \in Expression |-> "diverged"] ELSE unfolding[n - 1], full)
  IN  unfolding

LEMMA UnfoldingIs ==
  ASSUME NEW full
  PROVE  Unfolding(full) =
           [n \in Nat |-> Tests(IF n = 0 THEN [x \in Expression |-> "diverged"]
                                ELSE Unfolding(full)[n - 1], full)]
<1>1. PICK f : Levels(f, full)
  BY LevelsExist
<1> DEFINE w == [n \in Nat |-> f[n].test]
           Of(n) == Tests(IF n = 0 THEN [x \in Expression |-> "diverged"] ELSE w[n - 1], full)
<1>2. ASSUME NEW n \in Nat
      PROVE  w[n] = Of(n)
  <2>1. f[n].test = Tests(IF n = 0 THEN [x \in Expression |-> "diverged"] ELSE f[n - 1].test, full)
    BY <1>1, LevelAt
  <2>2. n # 0 => w[n - 1] = f[n - 1].test
    OBVIOUS
  <2> QED BY <2>1, <2>2
<1>3. w = [n \in Nat |-> Of(n)]
  <2>1. w = [n \in Nat |-> w[n]]
    OBVIOUS
  <2> QED BY <1>2, <2>1
<1> HIDE DEF w
<1>4. \E u : u = [n \in Nat |-> Tests(IF n = 0 THEN [x \in Expression |-> "diverged"]
                                      ELSE u[n - 1], full)]
  BY <1>3
<1> QED BY <1>4 DEF Unfolding
-----------------------------------------------------------------------------
(* The expressions that an expression is made of.                          *)
Within(e) == IF e.op \in {"RECV", "SEND", "CLS"} THEN {e.body}
            ELSE IF e.op \in {"SUM", "COM"} THEN {e.left, e.right}
            ELSE IF e.op = "IF" THEN {e.then, e.else} ELSE {}

LEMMA PartsOfBuilt ==
  ASSUME NEW X, NEW e \in Built(X)
  PROVE  Within(e) \subseteq X
BY DEF Built, Within

LEMMA BuiltGrows ==
  ASSUME NEW X, NEW Y, X \subseteq Y
  PROVE  Built(X) \subseteq Built(Y)
BY DEF Built

LEMMA FirstExpressions == ExpressionTo[0] = {Hole} \cup Built({})
BY ExpressionToIs

LEMMA NextExpressions ==
  ASSUME NEW n \in Nat
  PROVE  ExpressionTo[n + 1] = {Hole} \cup Built(ExpressionTo[n])
<1>1. n + 1 \in Nat /\ n + 1 # 0 /\ (n + 1) - 1 = n
  OBVIOUS
<1>2. ExpressionTo[n + 1] = {Hole} \cup Built(IF n + 1 = 0 THEN {} ELSE ExpressionTo[(n + 1) - 1])
  BY <1>1, ExpressionToIs
<1> QED BY <1>1, <1>2

LEMMA PartsOfHole == Within(Hole) = {}
BY DEF Within, Hole

(* The parts of an expression have a smaller height.                       *)
LEMMA PartsBelow ==
  ASSUME NEW n \in Nat, NEW e \in ExpressionTo[n + 1]
  PROVE  Within(e) \subseteq ExpressionTo[n]
BY NextExpressions, PartsOfBuilt, PartsOfHole

LEMMA PartsOfFirst ==
  ASSUME NEW e \in ExpressionTo[0]
  PROVE  Within(e) = {}
BY FirstExpressions, PartsOfBuilt, PartsOfHole

LEMMA ExpressionsGrow ==
  ASSUME NEW n \in Nat
  PROVE  ExpressionTo[n] \subseteq ExpressionTo[n + 1]
<1> DEFINE G == {k \in Nat : ExpressionTo[k] \subseteq ExpressionTo[k + 1]}
<1>1. 0 \in G
  <2>1. Built({}) \subseteq Built(ExpressionTo[0])
    BY BuiltGrows
  <2>2. ExpressionTo[0 + 1] = {Hole} \cup Built(ExpressionTo[0])
    BY NextExpressions
  <2> QED BY <2>1, <2>2, FirstExpressions
<1>2. ASSUME NEW k \in Nat, k \in G
      PROVE  k + 1 \in G
  <2>1. Built(ExpressionTo[k]) \subseteq Built(ExpressionTo[k + 1])
    BY <1>2, BuiltGrows
  <2>2. ExpressionTo[k + 1] = {Hole} \cup Built(ExpressionTo[k])
    BY NextExpressions
  <2>3. ExpressionTo[(k + 1) + 1] = {Hole} \cup Built(ExpressionTo[k + 1])
    BY NextExpressions
  <2>4. ExpressionTo[k + 1] \subseteq ExpressionTo[(k + 1) + 1]
    BY <2>1, <2>2, <2>3
  <2> QED BY <2>4
<1>3. Nat \subseteq G
  <2> HIDE DEF G
  <2> QED BY <1>1, <1>2, NatSetInduction
<1> QED BY <1>3

(* Induction over expressions.                                             *)
LEMMA TermInduction ==
  ASSUME NEW S, \A e \in Expression : Within(e) \subseteq S => e \in S
  PROVE  Expression \subseteq S
<1> DEFINE G == {n \in Nat : n <= Height => ExpressionTo[n] \subseteq S}
           D == {n \in Nat : ExpressionTo[Height - n] \subseteq Expression}
<1>0. Height \in Nat
  BY TermsAssumption
<1>1. ASSUME NEW n \in Nat, n <= Height
      PROVE  ExpressionTo[n] \subseteq Expression
  <2> DEFINE M == {m \in Nat : ExpressionTo[n] \subseteq ExpressionTo[n + m]}
  <2>1. 0 \in M
    OBVIOUS
  <2>2. ASSUME NEW m \in Nat, m \in M
        PROVE  m + 1 \in M
    <3>1. n + m \in Nat /\ (n + m) + 1 = n + (m + 1)
      OBVIOUS
    <3>2. ExpressionTo[n + m] \subseteq ExpressionTo[(n + m) + 1]
      BY <3>1, ExpressionsGrow
    <3> QED BY <2>2, <3>1, <3>2
  <2>3. Nat \subseteq M
    <3> HIDE DEF M
    <3> QED BY <2>1, <2>2, NatSetInduction
  <2>4. Height - n \in Nat /\ n + (Height - n) = Height
    BY <1>0, <1>1
  <2>5. Height - n \in M
    BY <2>3, <2>4
  <2> QED BY <2>4, <2>5 DEF Expression
<1>2. 0 \in G
  <2>1. ExpressionTo[0] \subseteq Expression
    BY <1>0, <1>1
  <2>2. ASSUME NEW e \in ExpressionTo[0]
        PROVE  e \in S
    BY <2>1, PartsOfFirst
  <2> QED BY <2>2
<1>3. ASSUME NEW n \in Nat, n \in G
      PROVE  n + 1 \in G
  <2> SUFFICES ASSUME n + 1 <= Height, NEW e \in ExpressionTo[n + 1] PROVE e \in S
    OBVIOUS
  <2>1. n + 1 \in Nat /\ n <= Height
    BY <1>0
  <2>2. e \in Expression
    BY <1>1, <2>1
  <2>3. Within(e) \subseteq S
    BY <1>3, <2>1, PartsBelow
  <2> QED BY <2>2, <2>3
<1>4. Nat \subseteq G
  <2> HIDE DEF G
  <2> QED BY <1>2, <1>3, NatSetInduction
<1>5. Height \in G
  BY <1>0, <1>4
<1> QED BY <1>0, <1>5 DEF Expression

LEMMA PartsInExpression ==
  ASSUME NEW e \in Expression
  PROVE  Within(e) \subseteq Expression
<1>0. Height \in Nat
  BY TermsAssumption
<1>1. CASE Height = 0
  <2>1. Within(e) = {}
    BY <1>1, PartsOfFirst DEF Expression
  <2> QED BY <2>1
<1>2. CASE Height # 0
  <2>1. Height - 1 \in Nat /\ (Height - 1) + 1 = Height
    BY <1>0, <1>2
  <2>2. Within(e) \subseteq ExpressionTo[Height - 1]
    BY <2>1, PartsBelow DEF Expression
  <2>3. ExpressionTo[Height - 1] \subseteq ExpressionTo[Height]
    BY <2>1, ExpressionsGrow
  <2> QED BY <2>2, <2>3 DEF Expression
<1> QED BY <1>1, <1>2

(* What an expression looks like.                                          *)
LEMMA ExpressionBuilt ==
  ASSUME NEW e \in Expression
  PROVE  e = Hole \/ e \in Built(Expression)
<1>0. Height \in Nat
  BY TermsAssumption
<1>1. CASE Height = 0
  <2>1. e = Hole \/ e \in Built({})
    BY <1>1, FirstExpressions DEF Expression
  <2>2. Built({}) \subseteq Built(Expression)
    BY BuiltGrows
  <2> QED BY <2>1, <2>2
<1>2. CASE Height # 0
  <2>1. Height - 1 \in Nat /\ (Height - 1) + 1 = Height
    BY <1>0, <1>2
  <2>2. e = Hole \/ e \in Built(ExpressionTo[Height - 1])
    BY <2>1, NextExpressions DEF Expression
  <2>3. ExpressionTo[Height - 1] \subseteq Expression
    BY <2>1, ExpressionsGrow DEF Expression
  <2>4. Built(ExpressionTo[Height - 1]) \subseteq Built(Expression)
    BY <2>3, BuiltGrows
  <2> QED BY <2>2, <2>4
<1> QED BY <1>1, <1>2

LEMMA HoleIsExpression == Hole \in Expression
<1>0. Height \in Nat
  BY TermsAssumption
<1>1. \A n \in Nat : Hole \in ExpressionTo[n]
  BY ExpressionToIs
<1> QED BY <1>0, <1>1 DEF Expression

LEMMA Operators ==
  ASSUME NEW e \in Expression
  PROVE  e = Hole \/ e.op \in {"CON", "RECV", "SEND", "SUM", "COM", "IF", "CLS"}
BY ExpressionBuilt DEF Built

LEMMA HoleOp ==
  ASSUME NEW e \in Expression
  PROVE  e = Hole <=> e.op = "NULL"
BY Operators DEF Hole

LEMMA Prefix1 ==
  ASSUME NEW e \in Expression, e.op \in {"RECV", "SEND"}
  PROVE  e.body \in Expression /\ e.label \in Label \cup Outer
BY ExpressionBuilt DEF Built, Hole

LEMMA Binary ==
  ASSUME NEW e \in Expression, e.op \in {"SUM", "COM"}
  PROVE  e.left \in Expression /\ e.right \in Expression /\ e = [op |-> e.op, left |-> e.left, right |-> e.right]
BY ExpressionBuilt DEF Built, Hole

LEMMA Conditional3 ==
  ASSUME NEW e \in Expression, e.op = "IF"
  PROVE  e.then \in Expression /\ e.else \in Expression /\ e.cond \in ValueExp
BY ExpressionBuilt DEF Built, Hole

LEMMA Closure1 ==
  ASSUME NEW e \in Expression, e.op = "CLS"
  PROVE  e.body \in Expression /\ e.env \in Env /\ e = CLS(e.body, e.env)
BY ExpressionBuilt DEF Built, Hole, CLS

-----------------------------------------------------------------------------
(* The continuations: one operand beside the hole of every composition.    *)
Suspended[e \in Expression] ==
  \/ e.op = "CLS" /\ NoHole[e]
  \/ e.op = "COM" /\ Suspended[e.left] /\ Suspended[e.right]

Context[e \in Expression] ==
  \/ e = Hole
  \/ e.op = "COM" /\ Context[e.left] /\ Suspended[e.right]
  \/ e.op = "COM" /\ Suspended[e.left] /\ Context[e.right]

(* The right sides of the recursive definitions, of which f gives the      *)
(* values for the parts of x.                                              *)
HolesOf(f, x) == IF x = Hole THEN 1 ELSE IF isbinary(x) THEN f[x.left].holes + f[x.right].holes ELSE 0

NoHoleOf(f, x) ==
  /\ x # Hole
  /\ x.op \in {"RECV", "SEND", "CLS"} => f[x.body].noHole
  /\ x.op \in {"SUM", "COM"} => f[x.left].noHole /\ f[x.right].noHole
  /\ x.op = "IF" => f[x.then].noHole /\ f[x.else].noHole

OutmostOf(f, x) ==
  IF ~isbinary(x) THEN x
  ELSE IF Hole \in {x.left, x.right} THEN Hole
  ELSE IF Hole \in {f[x.left].outmost, f[x.right].outmost} THEN Hole
  ELSE x

FilledOf(f, x, e) ==
  IF x = Hole THEN e
  ELSE IF isbinary(x) THEN [op |-> x.op, left |-> f[x.left].filled, right |-> f[x.right].filled]
  ELSE x

LeavesOf(f, x, en, inside) ==
  IF x = Hole THEN inside
  ELSE IF x.op = "COM" THEN f[x.left].leaves[en] \o f[x.right].leaves[en]
  ELSE IF x.op = "CLS" THEN f[x.body].leaves[x.env]
  ELSE <<[exp |-> x, env |-> en]>>

UnfoldedOf(x, prev) ==
  IF isabort(x.name) THEN "yes"
  ELSE IF isstop(x.name) THEN "no"
  ELSE IF isprimagnt(x.name) THEN "yes"
  ELSE IF x.name \notin DOMAIN Procs THEN "warning"
  ELSE IF x.args # <<>> /\ Len(x.args) # Len(Procs[x.name].params) THEN "warning"
  ELSE prev[Procs[x.name].body]

TestOf(f, x, prev, full) ==
  IF x.op \in {"RECV", "SEND"} THEN derivatives1(x.op, x.label, full)
  ELSE IF x.op \in {"SUM", "COM"}
       THEN LET l == f[x.left].test
            IN  IF l = "no" THEN f[x.right].test ELSE l
  ELSE IF x.op = "IF" THEN "yes"
  ELSE IF x.op = "CLS" THEN f[x.body].test
  ELSE UnfoldedOf(x, prev)

SuspendedOf(f, x) ==
  \/ x.op = "CLS" /\ NoHole[x]
  \/ x.op = "COM" /\ f[x.left].suspended /\ f[x.right].suspended

ContextOf(f, x) ==
  \/ x = Hole
  \/ x.op = "COM" /\ f[x.left].context /\ Suspended[x.right]
  \/ x.op = "COM" /\ Suspended[x.left] /\ f[x.right].context

Values(f, x, e, inside, prev, full) ==
  [holes |-> HolesOf(f, x), noHole |-> NoHoleOf(f, x), outmost |-> OutmostOf(f, x),
   filled |-> FilledOf(f, x, e),
   leaves |-> [en \in Env |-> LeavesOf(f, x, en, inside)],
   test |-> TestOf(f, x, prev, full),
   suspended |-> SuspendedOf(f, x), context |-> ContextOf(f, x)]

LEMMA ValuesAgree ==
  ASSUME NEW f, NEW g, NEW x, \A p \in Within(x) : f[p] = g[p],
         NEW e, NEW inside, NEW prev, NEW full
  PROVE  Values(f, x, e, inside, prev, full) = Values(g, x, e, inside, prev, full)
<1>1. isbinary(x) => f[x.left] = g[x.left] /\ f[x.right] = g[x.right]
  BY DEF Within, isbinary
<1>2. x.op \in {"RECV", "SEND", "CLS"} => f[x.body] = g[x.body]
  BY DEF Within
<1>3. x.op = "IF" => f[x.then] = g[x.then] /\ f[x.else] = g[x.else]
  BY DEF Within
<1>4. HolesOf(f, x) = HolesOf(g, x)
  BY <1>1 DEF HolesOf
<1>5. NoHoleOf(f, x) = NoHoleOf(g, x)
  BY <1>1, <1>2, <1>3 DEF NoHoleOf, isbinary
<1>6. OutmostOf(f, x) = OutmostOf(g, x)
  BY <1>1 DEF OutmostOf
<1>7. FilledOf(f, x, e) = FilledOf(g, x, e)
  BY <1>1 DEF FilledOf
<1>8. \A en : LeavesOf(f, x, en, inside) = LeavesOf(g, x, en, inside)
  BY <1>1, <1>2 DEF LeavesOf, isbinary
<1>9. TestOf(f, x, prev, full) = TestOf(g, x, prev, full)
  BY <1>1, <1>2 DEF TestOf, isbinary
<1>10. SuspendedOf(f, x) = SuspendedOf(g, x)
  BY <1>1 DEF SuspendedOf, isbinary
<1>11. ContextOf(f, x) = ContextOf(g, x)
  BY <1>1 DEF ContextOf, isbinary
<1> QED BY <1>4, <1>5, <1>6, <1>7, <1>8, <1>9, <1>10, <1>11 DEF Values

Valued1(f, e, inside, prev, full) ==
  f = [x \in Expression |-> Values(f, x, e, inside, prev, full)]

(* There are such values for all expressions.                              *)
LEMMA Valuation ==
  ASSUME NEW e, NEW inside, NEW prev, NEW full
  PROVE  \E f : Valued1(f, e, inside, prev, full)
<1> DEFINE Body(f, x) == Values(f, x, e, inside, prev, full)
           Is(f, k) == f = [x \in ExpressionTo[k] |-> Body(f, x)]
           G == {k \in Nat : \E f : Is(f, k)}
<1>1. ASSUME NEW f, NEW g, NEW x, \A p \in Within(x) : f[p] = g[p]
      PROVE  Body(f, x) = Body(g, x)
  BY <1>1, ValuesAgree
<1> HIDE DEF Body
<1>2. 0 \in G
  <2> DEFINE g == [x \in ExpressionTo[0] |-> Body(<<>>, x)]
             h == [x \in ExpressionTo[0] |-> Body(g, x)]
  <2>1. ASSUME NEW x \in ExpressionTo[0]
        PROVE  g[x] = h[x]
    <3>1. Body(<<>>, x) = Body(g, x)
      BY <1>1, PartsOfFirst
    <3> QED BY <3>1
  <2>2. g = h
    BY <2>1
  <2> HIDE DEF g
  <2> QED BY <2>2
<1>3. ASSUME NEW k \in Nat, k \in G
      PROVE  k + 1 \in G
  <2>1. PICK f : Is(f, k)
    BY <1>3
  <2> DEFINE g == [x \in ExpressionTo[k + 1] |-> Body(f, x)]
             h == [x \in ExpressionTo[k + 1] |-> Body(g, x)]
  <2>2. ASSUME NEW x \in ExpressionTo[k + 1]
        PROVE  g[x] = h[x]
    <3>1. ASSUME NEW p \in Within(x)
          PROVE  f[p] = g[p]
      <4>1. p \in ExpressionTo[k] /\ p \in ExpressionTo[k + 1]
        BY PartsBelow, ExpressionsGrow
      <4> QED BY <2>1, <4>1
    <3>2. Body(f, x) = Body(g, x)
      BY <1>1, <3>1
    <3> QED BY <3>2
  <2>3. g = h
    BY <2>2
  <2> HIDE DEF g
  <2>4. Is(g, k + 1)
    BY <2>3
  <2> QED BY <2>4
<1>4. Nat \subseteq G
  <2> HIDE DEF G
  <2> QED BY <1>2, <1>3, NatSetInduction
<1>5. PICK f : Is(f, Height)
  BY <1>4, TermsAssumption
<1> QED BY <1>5 DEF Body, Expression, Valued1

LEMMA Fields ==
  ASSUME NEW f, NEW e, NEW inside, NEW prev, NEW full,
         Valued1(f, e, inside, prev, full), NEW x \in Expression
  PROVE  /\ f[x].holes = HolesOf(f, x)
         /\ f[x].noHole = NoHoleOf(f, x)
         /\ f[x].outmost = OutmostOf(f, x)
         /\ f[x].filled = FilledOf(f, x, e)
         /\ f[x].leaves = [en \in Env |-> LeavesOf(f, x, en, inside)]
         /\ f[x].test = TestOf(f, x, prev, full)
         /\ f[x].suspended = SuspendedOf(f, x)
         /\ f[x].context = ContextOf(f, x)
<1>1. f[x] = Values(f, x, e, inside, prev, full)
  BY DEF Valued1
<1> QED BY <1>1 DEF Values

LEMMA BinaryParts ==
  ASSUME NEW x \in Expression, isbinary(x)
  PROVE  x.left \in Expression /\ x.right \in Expression
BY Binary DEF isbinary

LEMMA HolesIs ==
  Holes = [e \in Expression |-> IF e = Hole THEN 1
                                ELSE IF isbinary(e) THEN Holes[e.left] + Holes[e.right] ELSE 0]
<1>1. PICK f : Valued1(f, Hole, <<>>, <<>>, {})
  BY Valuation
<1> DEFINE w == [x \in Expression |-> f[x].holes]
           v == [e \in Expression |-> IF e = Hole THEN 1
                                      ELSE IF isbinary(e) THEN w[e.left] + w[e.right] ELSE 0]
<1>2. ASSUME NEW e \in Expression
      PROVE  w[e] = v[e]
  <2>1. f[e].holes = HolesOf(f, e)
    BY <1>1, Fields
  <2>2. isbinary(e) => w[e.left] = f[e.left].holes /\ w[e.right] = f[e.right].holes
    BY BinaryParts
  <2> QED BY <2>1, <2>2 DEF HolesOf
<1>3. w = v
  BY <1>2
<1> HIDE DEF w
<1> QED BY <1>3 DEF Holes

LEMMA NoHoleIs ==
  NoHole = [e \in Expression |->
              /\ e # Hole
              /\ e.op \in {"RECV", "SEND", "CLS"} => NoHole[e.body]
              /\ e.op \in {"SUM", "COM"} => NoHole[e.left] /\ NoHole[e.right]
              /\ e.op = "IF" => NoHole[e.then] /\ NoHole[e.else]]
<1>1. PICK f : Valued1(f, Hole, <<>>, <<>>, {})
  BY Valuation
<1> DEFINE w == [x \in Expression |-> f[x].noHole]
           Of(e) == /\ e # Hole
                    /\ e.op \in {"RECV", "SEND", "CLS"} => w[e.body]
                    /\ e.op \in {"SUM", "COM"} => w[e.left] /\ w[e.right]
                    /\ e.op = "IF" => w[e.then] /\ w[e.else]
<1>2. ASSUME NEW e \in Expression
      PROVE  w[e] = Of(e)
  <2>1. f[e].noHole = NoHoleOf(f, e)
    BY <1>1, Fields
  <2>2. e.op \in {"SUM", "COM"} => w[e.left] = f[e.left].noHole /\ w[e.right] = f[e.right].noHole
    BY Binary
  <2>3. e.op \in {"RECV", "SEND", "CLS"} => w[e.body] = f[e.body].noHole
    BY Prefix1, Closure1
  <2>4. e.op = "IF" => w[e.then] = f[e.then].noHole /\ w[e.else] = f[e.else].noHole
    BY Conditional3
  <2> QED BY <2>1, <2>2, <2>3, <2>4 DEF NoHoleOf
<1>3. w = [e \in Expression |-> Of(e)]
  <2>1. w = [e \in Expression |-> w[e]]
    OBVIOUS
  <2> QED BY <1>2, <2>1
<1> HIDE DEF w
<1> QED BY <1>3 DEF NoHole

LEMMA OutmostIs ==
  resume_out_most =
    [c \in Expression |->
       IF ~isbinary(c) THEN c
       ELSE IF Hole \in {c.left, c.right} THEN Hole
       ELSE IF Hole \in {resume_out_most[c.left], resume_out_most[c.right]} THEN Hole
       ELSE c]
<1>1. PICK f : Valued1(f, Hole, <<>>, <<>>, {})
  BY Valuation
<1> DEFINE w == [x \in Expression |-> f[x].outmost]
           Of(c) == IF ~isbinary(c) THEN c
                    ELSE IF Hole \in {c.left, c.right} THEN Hole
                    ELSE IF Hole \in {w[c.left], w[c.right]} THEN Hole
                    ELSE c
<1>2. ASSUME NEW e \in Expression
      PROVE  w[e] = Of(e)
  <2>1. f[e].outmost = OutmostOf(f, e)
    BY <1>1, Fields
  <2>2. isbinary(e) => w[e.left] = f[e.left].outmost /\ w[e.right] = f[e.right].outmost
    BY BinaryParts
  <2> QED BY <2>1, <2>2 DEF OutmostOf
<1>3. w = [e \in Expression |-> Of(e)]
  <2>1. w = [e \in Expression |-> w[e]]
    OBVIOUS
  <2> QED BY <1>2, <2>1
<1> HIDE DEF w
<1> QED BY <1>3 DEF resume_out_most

LEMMA SuspendedIs ==
  Suspended = [e \in Expression |->
                 \/ e.op = "CLS" /\ NoHole[e]
                 \/ e.op = "COM" /\ Suspended[e.left] /\ Suspended[e.right]]
<1>1. PICK f : Valued1(f, Hole, <<>>, <<>>, {})
  BY Valuation
<1> DEFINE w == [x \in Expression |-> f[x].suspended]
           Of(e) == \/ e.op = "CLS" /\ NoHole[e]
                    \/ e.op = "COM" /\ w[e.left] /\ w[e.right]
<1>2. ASSUME NEW e \in Expression
      PROVE  w[e] = Of(e)
  <2>1. f[e].suspended = SuspendedOf(f, e)
    BY <1>1, Fields
  <2>2. e.op = "COM" => w[e.left] = f[e.left].suspended /\ w[e.right] = f[e.right].suspended
    BY Binary
  <2> QED BY <2>1, <2>2 DEF SuspendedOf
<1>3. w = [e \in Expression |-> Of(e)]
  <2>1. w = [e \in Expression |-> w[e]]
    OBVIOUS
  <2> QED BY <1>2, <2>1
<1> HIDE DEF w
<1> QED BY <1>3 DEF Suspended

LEMMA ContextIs ==
  Context = [e \in Expression |->
               \/ e = Hole
               \/ e.op = "COM" /\ Context[e.left] /\ Suspended[e.right]
               \/ e.op = "COM" /\ Suspended[e.left] /\ Context[e.right]]
<1>1. PICK f : Valued1(f, Hole, <<>>, <<>>, {})
  BY Valuation
<1> DEFINE w == [x \in Expression |-> f[x].context]
           Of(e) == \/ e = Hole
                    \/ e.op = "COM" /\ w[e.left] /\ Suspended[e.right]
                    \/ e.op = "COM" /\ Suspended[e.left] /\ w[e.right]
<1>2. ASSUME NEW e \in Expression
      PROVE  w[e] = Of(e)
  <2>1. f[e].context = ContextOf(f, e)
    BY <1>1, Fields
  <2>2. e.op = "COM" => w[e.left] = f[e.left].context /\ w[e.right] = f[e.right].context
    BY Binary
  <2> QED BY <2>1, <2>2 DEF ContextOf
<1>3. w = [e \in Expression |-> Of(e)]
  <2>1. w = [e \in Expression |-> w[e]]
    OBVIOUS
  <2> QED BY <1>2, <2>1
<1> HIDE DEF w
<1> QED BY <1>3 DEF Context
(* What resume() makes of a continuation, as a function of it.             *)
FilledIn(e) ==
  LET filled[x \in Expression] ==
        IF x = Hole THEN e
        ELSE IF isbinary(x) THEN [op |-> x.op, left |-> filled[x.left], right |-> filled[x.right]]
        ELSE x
  IN  filled

LEMMA FilledInIs ==
  ASSUME NEW e
  PROVE  FilledIn(e) = [x \in Expression |->
           IF x = Hole THEN e
           ELSE IF isbinary(x) THEN [op |-> x.op, left |-> FilledIn(e)[x.left], right |-> FilledIn(e)[x.right]]
           ELSE x]
<1>1. PICK f : Valued1(f, e, <<>>, <<>>, {})
  BY Valuation
<1> DEFINE w == [x \in Expression |-> f[x].filled]
           Of(x) == IF x = Hole THEN e
                    ELSE IF isbinary(x) THEN [op |-> x.op, left |-> w[x.left], right |-> w[x.right]]
                    ELSE x
<1>2. ASSUME NEW x \in Expression
      PROVE  w[x] = Of(x)
  <2>1. f[x].filled = FilledOf(f, x, e)
    BY <1>1, Fields
  <2>2. isbinary(x) => w[x.left] = f[x.left].filled /\ w[x.right] = f[x.right].filled
    BY BinaryParts
  <2> QED BY <2>1, <2>2 DEF FilledOf
<1>3. w = [x \in Expression |-> Of(x)]
  <2>1. w = [x \in Expression |-> w[x]]
    OBVIOUS
  <2> QED BY <1>2, <2>1
<1> HIDE DEF w
<1>4. \E g : g = [x \in Expression |->
           IF x = Hole THEN e
           ELSE IF isbinary(x) THEN [op |-> x.op, left |-> g[x.left], right |-> g[x.right]]
           ELSE x]
  BY <1>3
<1> QED BY <1>4 DEF FilledIn

(* The processes of the expressions, where holes contribute `inside'.      *)
LeavesIn(inside) ==
  LET leaves[x \in Expression] ==
        [en \in Env |->
           IF x = Hole THEN inside
           ELSE IF x.op = "COM" THEN leaves[x.left][en] \o leaves[x.right][en]
           ELSE IF x.op = "CLS" THEN leaves[x.body][x.env]
           ELSE <<[exp |-> x, env |-> en]>>]
  IN  leaves

LEMMA LeavesInIs ==
  ASSUME NEW inside
  PROVE  LeavesIn(inside) = [x \in Expression |-> [en \in Env |->
           IF x = Hole THEN inside
           ELSE IF x.op = "COM" THEN LeavesIn(inside)[x.left][en] \o LeavesIn(inside)[x.right][en]
           ELSE IF x.op = "CLS" THEN LeavesIn(inside)[x.body][x.env]
           ELSE <<[exp |-> x, env |-> en]>>]]
<1>1. PICK f : Valued1(f, Hole, inside, <<>>, {})
  BY Valuation
<1> DEFINE w == [x \in Expression |-> f[x].leaves]
           At(x, en) == IF x = Hole THEN inside
                        ELSE IF x.op = "COM" THEN w[x.left][en] \o w[x.right][en]
                        ELSE IF x.op = "CLS" THEN w[x.body][x.env]
                        ELSE <<[exp |-> x, env |-> en]>>
           Of(x) == [en \in Env |-> At(x, en)]
<1>2. ASSUME NEW x \in Expression
      PROVE  w[x] = Of(x)
  <2>1. f[x].leaves = [en \in Env |-> LeavesOf(f, x, en, inside)]
    BY <1>1, Fields
  <2>2. x.op = "COM" => w[x.left] = f[x.left].leaves /\ w[x.right] = f[x.right].leaves
    BY Binary
  <2>3. x.op = "CLS" => w[x.body] = f[x.body].leaves
    BY Closure1
  <2>4. w[x] = [en \in Env |-> LeavesOf(f, x, en, inside)]
    BY <2>1
  <2> HIDE DEF w
  <2>5. ASSUME NEW en \in Env
        PROVE  LeavesOf(f, x, en, inside) = At(x, en)
    BY <2>2, <2>3 DEF LeavesOf
  <2> HIDE DEF At
  <2> QED BY <2>4, <2>5
<1>3. w = [x \in Expression |-> Of(x)]
  <2>1. w = [x \in Expression |-> w[x]]
    OBVIOUS
  <2> HIDE DEF w, Of
  <2> QED BY <1>2, <2>1
<1> HIDE DEF w
<1>4. \E g : g = [x \in Expression |-> [en \in Env |->
           IF x = Hole THEN inside
           ELSE IF x.op = "COM" THEN g[x.left][en] \o g[x.right][en]
           ELSE IF x.op = "CLS" THEN g[x.body][x.env]
           ELSE <<[exp |-> x, env |-> en]>>]]
  BY <1>3
<1> QED BY <1>4 DEF LeavesIn

LEMMA TestsIs ==
  ASSUME NEW unfolded, NEW full
  PROVE  Tests(unfolded, full) = [x \in Expression |->
           IF x.op \in {"RECV", "SEND"} THEN derivatives1(x.op, x.label, full)
           ELSE IF x.op \in {"SUM", "COM"}
                THEN LET l == Tests(unfolded, full)[x.left]
                     IN  IF l = "no" THEN Tests(unfolded, full)[x.right] ELSE l
           ELSE IF x.op = "IF" THEN "yes"
           ELSE IF x.op = "CLS" THEN Tests(unfolded, full)[x.body]
           ELSE UnfoldedOf(x, unfolded)]
<1>1. PICK f : Valued1(f, Hole, <<>>, unfolded, full)
  BY Valuation
<1> DEFINE w == [x \in Expression |-> f[x].test]
           Of(x) == IF x.op \in {"RECV", "SEND"} THEN derivatives1(x.op, x.label, full)
                    ELSE IF x.op \in {"SUM", "COM"}
                         THEN LET l == w[x.left]
                              IN  IF l = "no" THEN w[x.right] ELSE l
                    ELSE IF x.op = "IF" THEN "yes"
                    ELSE IF x.op = "CLS" THEN w[x.body]
                    ELSE UnfoldedOf(x, unfolded)
<1>2. ASSUME NEW x \in Expression
      PROVE  w[x] = Of(x)
  <2>0. f[x] = Values(f, x, Hole, <<>>, unfolded, full)
    BY <1>1 DEF Valued1
  <2>1. f[x].test = TestOf(f, x, unfolded, full)
    BY <2>0 DEF Values
  <2>2. x.op \in {"SUM", "COM"} => w[x.left] = f[x.left].test /\ w[x.right] = f[x.right].test
    BY Binary
  <2>3. x.op = "CLS" => w[x.body] = f[x.body].test
    BY Closure1
  <2>4. w[x] = TestOf(f, x, unfolded, full)
    BY <2>1
  <2> HIDE DEF w
  <2> QED BY <2>2, <2>3, <2>4 DEF TestOf
<1>3. w = [x \in Expression |-> Of(x)]
  <2>1. w = [x \in Expression |-> w[x]]
    OBVIOUS
  <2> HIDE DEF w, Of
  <2> QED BY <1>2, <2>1
<1> HIDE DEF w
<1> QED BY <1>3 DEF Tests, UnfoldedOf
-----------------------------------------------------------------------------
(* The functions on expressions, one operator at a time.                   *)
LEMMA FilledHole ==
  ASSUME NEW e
  PROVE  Filled(e, Hole) = e
<1>1. Hole \in Expression
  BY HoleIsExpression
<1>2. FilledIn(e)[Hole] = e
  BY <1>1, FilledInIs
<1> QED BY <1>2 DEF Filled, FilledIn

LEMMA FilledBinary ==
  ASSUME NEW e, NEW x \in Expression, isbinary(x)
  PROVE  Filled(e, x) = [op |-> x.op, left |-> Filled(e, x.left), right |-> Filled(e, x.right)]
<1>1. x # Hole
  BY DEF isbinary, Hole
<1>2. FilledIn(e)[x] = [op |-> x.op, left |-> FilledIn(e)[x.left], right |-> FilledIn(e)[x.right]]
  BY <1>1, FilledInIs
<1> QED BY <1>2 DEF Filled, FilledIn

LEMMA FilledOther ==
  ASSUME NEW e, NEW x \in Expression, ~isbinary(x), x # Hole
  PROVE  Filled(e, x) = x
<1>1. FilledIn(e)[x] = x
  BY FilledInIs
<1> QED BY <1>1 DEF Filled, FilledIn

LEMMA LeavesAt ==
  ASSUME NEW x \in Expression, NEW en \in Env, NEW inside
  PROVE  Leaves(x, en, inside) =
           IF x = Hole THEN inside
           ELSE IF x.op = "COM" THEN Leaves(x.left, en, inside) \o Leaves(x.right, en, inside)
           ELSE IF x.op = "CLS" THEN Leaves(x.body, x.env, inside)
           ELSE <<[exp |-> x, env |-> en]>>
<1> DEFINE t == LeavesIn(inside)
           At(y, ey) == IF y = Hole THEN inside
                        ELSE IF y.op = "COM" THEN t[y.left][ey] \o t[y.right][ey]
                        ELSE IF y.op = "CLS" THEN t[y.body][y.env]
                        ELSE <<[exp |-> y, env |-> ey]>>
<1>0. x = Hole => x.op # "COM" /\ x.op # "CLS"
  BY DEF Hole
<1>1. t[x][en] = At(x, en)
  <2>1. t = [y \in Expression |-> [ey \in Env |-> At(y, ey)]]
    BY LeavesInIs
  <2> HIDE DEF t, At
  <2> QED BY <2>1
<1>2. /\ Leaves(x, en, inside) = t[x][en]
      /\ Leaves(x.left, en, inside) = t[x.left][en]
      /\ Leaves(x.right, en, inside) = t[x.right][en]
      /\ Leaves(x.body, x.env, inside) = t[x.body][x.env]
  BY DEF Leaves, LeavesIn
<1> HIDE DEF t
<1> QED BY <1>0, <1>1, <1>2

LEMMA LeavesHole ==
  ASSUME NEW en \in Env, NEW inside
  PROVE  Leaves(Hole, en, inside) = inside
BY LeavesAt, HoleIsExpression

LEMMA LeavesCom ==
  ASSUME NEW x \in Expression, x.op = "COM", NEW en \in Env, NEW inside
  PROVE  Leaves(x, en, inside) = Leaves(x.left, en, inside) \o Leaves(x.right, en, inside)
<1>1. x # Hole
  BY DEF Hole
<1> QED BY <1>1, LeavesAt

LEMMA LeavesCls ==
  ASSUME NEW x \in Expression, x.op = "CLS", NEW en \in Env, NEW inside
  PROVE  Leaves(x, en, inside) = Leaves(x.body, x.env, inside)
<1>1. x # Hole /\ x.op # "COM"
  BY DEF Hole
<1> QED BY <1>1, LeavesAt

LEMMA LeavesOther ==
  ASSUME NEW x \in Expression, x.op \notin {"NULL", "COM", "CLS"}, NEW en \in Env, NEW inside
  PROVE  Leaves(x, en, inside) = <<[exp |-> x, env |-> en]>>
<1>1. x # Hole /\ x.op # "COM" /\ x.op # "CLS"
  BY DEF Hole
<1> QED BY <1>1, LeavesAt
-----------------------------------------------------------------------------
(* The test for a derivative after n unfoldings, one operator at a time.   *)
Unfolded(n, full) == IF n = 0 THEN [x \in Expression |-> "diverged"] ELSE Unfolding(full)[n - 1]

LEMMA UnfoldingAt ==
  ASSUME NEW n \in Nat, NEW full
  PROVE  Unfolding(full)[n] = Tests(Unfolded(n, full), full)
<1>1. Unfolding(full)[n] = Tests(IF n = 0 THEN [x \in Expression |-> "diverged"]
                                 ELSE Unfolding(full)[n - 1], full)
  BY UnfoldingIs
<1> QED BY <1>1 DEF Unfolded

LEMMA TestPrefix ==
  ASSUME NEW n \in Nat, NEW full, NEW x \in Expression, x.op \in {"RECV", "SEND"}
  PROVE  Unfolding(full)[n][x] = derivatives1(x.op, x.label, full)
<1>1. Tests(Unfolded(n, full), full)[x] = derivatives1(x.op, x.label, full)
  BY TestsIs
<1> QED BY <1>1, UnfoldingAt

LEMMA TestBinary ==
  ASSUME NEW n \in Nat, NEW full, NEW x \in Expression, x.op \in {"SUM", "COM"}
  PROVE  Unfolding(full)[n][x] = IF Unfolding(full)[n][x.left] = "no"
                                 THEN Unfolding(full)[n][x.right] ELSE Unfolding(full)[n][x.left]
<1> DEFINE t == Tests(Unfolded(n, full), full)
<1>1. t[x] = IF t[x.left] = "no" THEN t[x.right] ELSE t[x.left]
  BY TestsIs
<1> QED BY <1>1, UnfoldingAt

LEMMA TestCond ==
  ASSUME NEW n \in Nat, NEW full, NEW x \in Expression, x.op = "IF"
  PROVE  Unfolding(full)[n][x] = "yes"
<1>1. Tests(Unfolded(n, full), full)[x] = "yes"
  BY TestsIs
<1> QED BY <1>1, UnfoldingAt

LEMMA TestClosure ==
  ASSUME NEW n \in Nat, NEW full, NEW x \in Expression, x.op = "CLS"
  PROVE  Unfolding(full)[n][x] = Unfolding(full)[n][x.body]
<1>1. Tests(Unfolded(n, full), full)[x] = Tests(Unfolded(n, full), full)[x.body]
  BY TestsIs
<1> QED BY <1>1, UnfoldingAt

LEMMA TestConstant ==
  ASSUME NEW n \in Nat, NEW full, NEW x \in Expression, x.op \notin {"RECV", "SEND", "SUM", "COM", "IF", "CLS"}
  PROVE  Unfolding(full)[n][x] = UnfoldedOf(x, Unfolded(n, full))
<1>1. Tests(Unfolded(n, full), full)[x] = UnfoldedOf(x, Unfolded(n, full))
  BY TestsIs
<1> QED BY <1>1, UnfoldingAt

LEMMA DerivativesIs ==
  ASSUME NEW e, NEW full
  PROVE  Cardinality(DOMAIN Procs) \in Nat /\ derivatives(e, full) = Unfolding(full)[Cardinality(DOMAIN Procs)][e]
<1>1. Cardinality(DOMAIN Procs) \in Nat
  BY TermsAssumption, FS_CardinalityType
<1>2. derivatives(e, full) = Unfolding(full)[Cardinality(DOMAIN Procs)][e]
  BY DEF derivatives, Unfolding
<1> QED BY <1>1, <1>2

(* Where the test comes to an answer without a channel, it comes to the    *)
(* same answer on an empty one.                                            *)
LEMMA TestWithoutChannel ==
  ASSUME NEW e \in Expression, derivatives(e, Nil) = "yes"
  PROVE  derivatives(e, {}) = "yes"
<1> DEFINE Same(n, x) == Unfolding(Nil)[n][x] \in {"yes", "no"} => Unfolding({})[n][x] = Unfolding(Nil)[n][x]
           G == {n \in Nat : \A x \in Expression : Same(n, x)}
<1>1. ASSUME NEW n \in Nat,
             \A x \in Expression : Unfolded(n, Nil)[x] \in {"yes", "no"} => Unfolded(n, {})[x] = Unfolded(n, Nil)[x]
      PROVE  n \in G
  <2> DEFINE S == {x \in Expression : Same(n, x)}
  <2>1. ASSUME NEW x \in Expression, Within(x) \subseteq S
        PROVE  x \in S
    <3>1. CASE x.op \in {"RECV", "SEND"}
      <4>1. Unfolding(Nil)[n][x] = derivatives1(x.op, x.label, Nil)
        BY <3>1, TestPrefix
      <4>2. Unfolding({})[n][x] = derivatives1(x.op, x.label, {})
        BY <3>1, TestPrefix
      <4> QED BY <4>1, <4>2 DEF derivatives1
    <3>2. CASE x.op \in {"SUM", "COM"}
      <4>1. \A full : Unfolding(full)[n][x] = IF Unfolding(full)[n][x.left] = "no"
                                 THEN Unfolding(full)[n][x.right] ELSE Unfolding(full)[n][x.left]
        BY <3>2, TestBinary
      <4>2. Same(n, x.left) /\ Same(n, x.right)
        BY <2>1, <3>2 DEF Within
      <4> QED BY <4>1, <4>2
    <3>3. CASE x.op = "IF"
      <4>1. \A full : Unfolding(full)[n][x] = "yes"
        BY <3>3, TestCond
      <4> QED BY <4>1
    <3>4. CASE x.op = "CLS"
      <4>1. \A full : Unfolding(full)[n][x] = Unfolding(full)[n][x.body]
        BY <3>4, TestClosure
      <4>2. Same(n, x.body)
        BY <2>1, <3>4 DEF Within
      <4> QED BY <4>1, <4>2
    <3>5. CASE x.op \notin {"RECV", "SEND", "SUM", "COM", "IF", "CLS"}
      <4>1. \A full : Unfolding(full)[n][x] = UnfoldedOf(x, Unfolded(n, full))
        BY <3>5, TestConstant
      <4>2. x.name \in DOMAIN Procs => Procs[x.name].body \in Expression
        BY TermsAssumption DEF AgentExp
      <4> QED BY <1>1, <4>1, <4>2 DEF UnfoldedOf
    <3> QED BY <3>1, <3>2, <3>3, <3>4, <3>5
  <2>2. Expression \subseteq S
    <3> HIDE DEF S
    <3> QED BY <2>1, TermInduction
  <2> QED BY <2>2
<1>2. 0 \in G
  <2>1. \A full : Unfolded(0, full) = [x \in Expression |-> "diverged"]
    BY DEF Unfolded
  <2>2. \A x \in Expression : Unfolded(0, {})[x] = Unfolded(0, Nil)[x]
    BY <2>1
  <2> HIDE DEF G
  <2> QED BY <1>1, <2>2
<1>3. ASSUME NEW n \in Nat, n \in G
      PROVE  n + 1 \in G
  <2>1. \A full : Unfolded(n + 1, full) = Unfolding(full)[n]
    <3>1. n + 1 # 0 /\ (n + 1) - 1 = n
      OBVIOUS
    <3> QED BY <3>1 DEF Unfolded
  <2>2. \A x \in Expression : Unfolded(n + 1, Nil)[x] \in {"yes", "no"} => Unfolded(n + 1, {})[x] = Unfolded(n + 1, Nil)[x]
    BY <1>3, <2>1
  <2> HIDE DEF G
  <2> QED BY <1>1, <2>2
<1>4. Nat \subseteq G
  <2> HIDE DEF G
  <2> QED BY <1>2, <1>3, NatSetInduction
<1>5. Same(Cardinality(DOMAIN Procs), e)
  BY <1>4, DerivativesIs
<1> QED BY <1>5, DerivativesIs
-----------------------------------------------------------------------------
(* Continuations and what they are filled with.                            *)
LEMMA NoHoleAt ==
  ASSUME NEW e \in Expression
  PROVE  NoHole[e] = /\ e # Hole
                     /\ e.op \in {"RECV", "SEND", "CLS"} => NoHole[e.body]
                     /\ e.op \in {"SUM", "COM"} => NoHole[e.left] /\ NoHole[e.right]
                     /\ e.op = "IF" => NoHole[e.then] /\ NoHole[e.else]
BY NoHoleIs

LEMMA SuspendedAt ==
  ASSUME NEW e \in Expression
  PROVE  Suspended[e] = \/ e.op = "CLS" /\ NoHole[e]
                        \/ e.op = "COM" /\ Suspended[e.left] /\ Suspended[e.right]
BY SuspendedIs

LEMMA ContextAt ==
  ASSUME NEW e \in Expression
  PROVE  Context[e] = \/ e = Hole
                      \/ e.op = "COM" /\ Context[e.left] /\ Suspended[e.right]
                      \/ e.op = "COM" /\ Suspended[e.left] /\ Context[e.right]
BY ContextIs

(* What is suspended has no hole.                                          *)
LEMMA SuspendedNoHole ==
  ASSUME NEW e \in Expression, Suspended[e]
  PROVE  NoHole[e] /\ ~ishole(e)
<1> DEFINE S == {x \in Expression : Suspended[x] => NoHole[x] /\ resume_out_most[x] # Hole}
<1>1. ASSUME NEW x \in Expression, Within(x) \subseteq S
      PROVE  x \in S
  <2> SUFFICES ASSUME Suspended[x] PROVE NoHole[x] /\ resume_out_most[x] # Hole
    OBVIOUS
  <2>1. CASE x.op = "CLS" /\ NoHole[x]
    <3>1. ~isbinary(x) /\ x # Hole
      BY <2>1 DEF isbinary, Hole
    <3>2. resume_out_most[x] = x
      BY <3>1, OutmostIs
    <3> QED BY <2>1, <3>1, <3>2
  <2>2. CASE x.op = "COM" /\ Suspended[x.left] /\ Suspended[x.right]
    <3>1. x.left \in S /\ x.right \in S
      BY <1>1, <2>2 DEF Within
    <3>2. /\ NoHole[x.left] /\ resume_out_most[x.left] # Hole
          /\ NoHole[x.right] /\ resume_out_most[x.right] # Hole
          /\ x.left \in Expression /\ x.right \in Expression
      BY <2>2, <3>1
    <3>3. x.left # Hole /\ x.right # Hole
      BY <3>2, NoHoleAt
    <3>4. isbinary(x) /\ x # Hole
      BY <2>2 DEF isbinary, Hole
    <3>5. NoHole[x]
      BY <2>2, <3>2, <3>4, NoHoleAt
    <3>6. resume_out_most[x] = x
      BY <3>2, <3>3, <3>4, OutmostIs
    <3> QED BY <3>4, <3>5, <3>6
  <2> QED BY <2>1, <2>2, SuspendedAt
<1>2. Expression \subseteq S
  <2> HIDE DEF S
  <2> QED BY <1>1, TermInduction
<1> QED BY <1>2 DEF ishole

LEMMA ContextHole ==
  ASSUME NEW c \in Expression, Context[c]
  PROVE  ishole(c)
<1> DEFINE S == {x \in Expression : Context[x] => resume_out_most[x] = Hole}
<1>1. ASSUME NEW x \in Expression, Within(x) \subseteq S
      PROVE  x \in S
  <2> SUFFICES ASSUME Context[x] PROVE resume_out_most[x] = Hole
    OBVIOUS
  <2>1. CASE x = Hole
    <3>1. ~isbinary(x)
      BY <2>1 DEF isbinary, Hole
    <3> QED BY <2>1, <3>1, OutmostIs
  <2>2. CASE x.op = "COM" /\ (Context[x.left] \/ Context[x.right])
    <3>1. x.left \in S /\ x.right \in S /\ isbinary(x)
      BY <1>1, <2>2 DEF Within, isbinary
    <3>2. resume_out_most[x.left] = Hole \/ resume_out_most[x.right] = Hole
      BY <2>2, <3>1
    <3> QED BY <3>1, <3>2, OutmostIs
  <2> QED BY <2>1, <2>2, ContextAt
<1>2. Expression \subseteq S
  <2> HIDE DEF S
  <2> QED BY <1>1, TermInduction
<1> QED BY <1>2 DEF ishole

LEMMA NoHoleHoles ==
  ASSUME NEW e \in Expression, NoHole[e]
  PROVE  Holes[e] = 0
<1> DEFINE S == {x \in Expression : NoHole[x] => Holes[x] = 0}
<1>1. ASSUME NEW x \in Expression, Within(x) \subseteq S
      PROVE  x \in S
  <2> SUFFICES ASSUME NoHole[x] PROVE Holes[x] = 0
    OBVIOUS
  <2>1. x # Hole
    BY NoHoleAt
  <2>2. CASE isbinary(x)
    <3>1. x.left \in S /\ x.right \in S /\ NoHole[x.left] /\ NoHole[x.right]
      BY <1>1, <2>2, NoHoleAt DEF Within, isbinary
    <3> QED BY <2>1, <2>2, <3>1, HolesIs
  <2>3. CASE ~isbinary(x)
    BY <2>1, <2>3, HolesIs
  <2> QED BY <2>2, <2>3
<1>2. Expression \subseteq S
  <2> HIDE DEF S
  <2> QED BY <1>1, TermInduction
<1> QED BY <1>2

LEMMA ContextHoles ==
  ASSUME NEW c \in Expression, Context[c]
  PROVE  Holes[c] = 1
<1> DEFINE S == {x \in Expression : Context[x] => Holes[x] = 1}
<1>1. ASSUME NEW x \in Expression, Within(x) \subseteq S
      PROVE  x \in S
  <2> SUFFICES ASSUME Context[x] PROVE Holes[x] = 1
    OBVIOUS
  <2>1. CASE x = Hole
    BY <2>1, HolesIs
  <2>2. ASSUME x.op = "COM"
        PROVE  isbinary(x) /\ x # Hole /\ x.left \in S /\ x.right \in S /\ x.left \in Expression /\ x.right \in Expression
    BY <1>1, <2>2, Binary DEF Within, isbinary, Hole
  <2>3. ASSUME x.op = "COM"
        PROVE  Holes[x] = Holes[x.left] + Holes[x.right]
    BY <2>2, <2>3, HolesIs
  <2>4. CASE x.op = "COM" /\ Context[x.left] /\ Suspended[x.right]
    <3>1. Holes[x.left] = 1
      BY <2>2, <2>4
    <3>2. Holes[x.right] = 0
      BY <2>2, <2>4, SuspendedNoHole, NoHoleHoles
    <3> QED BY <2>3, <2>4, <3>1, <3>2
  <2>5. CASE x.op = "COM" /\ Suspended[x.left] /\ Context[x.right]
    <3>1. Holes[x.right] = 1
      BY <2>2, <2>5
    <3>2. Holes[x.left] = 0
      BY <2>2, <2>5, SuspendedNoHole, NoHoleHoles
    <3> QED BY <2>3, <2>5, <3>1, <3>2
  <2> QED BY <2>1, <2>4, <2>5, ContextAt
<1>2. Expression \subseteq S
  <2> HIDE DEF S
  <2> QED BY <1>1, TermInduction
<1> QED BY <1>2

(* resume() leaves an expression without a hole as it is.                  *)
LEMMA FilledNoHole ==
  ASSUME NEW e, NEW x \in Expression, NoHole[x]
  PROVE  Filled(e, x) = x
<1> DEFINE S == {y \in Expression : NoHole[y] => Filled(e, y) = y}
<1>1. ASSUME NEW y \in Expression, Within(y) \subseteq S
      PROVE  y \in S
  <2> SUFFICES ASSUME NoHole[y] PROVE Filled(e, y) = y
    OBVIOUS
  <2>1. y # Hole
    BY NoHoleAt
  <2>2. CASE isbinary(y)
    <3>1. y.left \in S /\ y.right \in S /\ NoHole[y.left] /\ NoHole[y.right]
      BY <1>1, <2>2, NoHoleAt DEF Within, isbinary
    <3>2. Filled(e, y) = [op |-> y.op, left |-> y.left, right |-> y.right]
      BY <2>2, <3>1, FilledBinary
    <3>3. y = [op |-> y.op, left |-> y.left, right |-> y.right]
      BY <2>2, Binary DEF isbinary
    <3> QED BY <3>2, <3>3
  <2>3. CASE ~isbinary(y)
    BY <2>1, <2>3, FilledOther
  <2> QED BY <2>2, <2>3
<1>2. Expression \subseteq S
  <2> HIDE DEF S
  <2> QED BY <1>1, TermInduction
<1> QED BY <1>2

(* The two shapes of a continuation that is not just the hole.             *)
LEMMA ContextCases ==
  ASSUME NEW c \in Expression, Context[c], c # Hole
  PROVE  /\ c.op = "COM" /\ isbinary(c) /\ c.left \in Expression /\ c.right \in Expression
         /\ \/ /\ Context[c.left] /\ Suspended[c.right]
               /\ \A e : Filled(e, c) = COM(Filled(e, c.left), c.right)
            \/ /\ Suspended[c.left] /\ Context[c.right]
               /\ \A e : Filled(e, c) = COM(c.left, Filled(e, c.right))
<1>1. c.op = "COM" /\ isbinary(c)
  BY ContextAt DEF isbinary
<1>2. c.left \in Expression /\ c.right \in Expression
  BY <1>1, Binary
<1>3. \A e : Filled(e, c) = COM(Filled(e, c.left), Filled(e, c.right))
  BY <1>1, FilledBinary DEF COM
<1>4. CASE Context[c.left] /\ Suspended[c.right]
  <2>1. \A e : Filled(e, c.right) = c.right
    BY <1>2, <1>4, SuspendedNoHole, FilledNoHole
  <2> QED BY <1>1, <1>2, <1>3, <1>4, <2>1
<1>5. CASE Suspended[c.left] /\ Context[c.right]
  <2>1. \A e : Filled(e, c.left) = c.left
    BY <1>2, <1>5, SuspendedNoHole, FilledNoHole
  <2> QED BY <1>1, <1>2, <1>3, <1>5, <2>1
<1> QED BY <1>4, <1>5, ContextAt

LEMMA ComFields ==
  ASSUME NEW l, NEW r
  PROVE  COM(l, r).op = "COM" /\ COM(l, r).left = l /\ COM(l, r).right = r /\ COM(l, r) # Hole
BY DEF COM, Hole

LEMMA ComParts ==
  ASSUME NEW l, NEW r, COM(l, r) \in Expression
  PROVE  l \in Expression /\ r \in Expression
BY ComFields, Binary

LEMMA ComNoHole ==
  ASSUME NEW l, NEW r, COM(l, r) \in Expression, NoHole[l], NoHole[r]
  PROVE  NoHole[COM(l, r)]
<1> DEFINE c == COM(l, r)
<1>1. c.op = "COM" /\ c.left = l /\ c.right = r /\ c # Hole /\ c \in Expression
  BY ComFields
<1> HIDE DEF c
<1>2. NoHole[c]
  BY <1>1, NoHoleAt
<1> QED BY <1>2 DEF c

LEMMA ComSuspended ==
  ASSUME NEW l, NEW r, COM(l, r) \in Expression, Suspended[l], Suspended[r]
  PROVE  Suspended[COM(l, r)]
<1> DEFINE c == COM(l, r)
<1>2. c.op = "COM" /\ c.left = l /\ c.right = r /\ c \in Expression
  BY ComFields
<1> HIDE DEF c
<1>3. Suspended[c]
  BY <1>2, SuspendedAt
<1> QED BY <1>3 DEF c

LEMMA ComContextLeft ==
  ASSUME NEW l, NEW r, COM(l, r) \in Expression, Context[l], Suspended[r]
  PROVE  Context[COM(l, r)]
<1> DEFINE c == COM(l, r)
<1>1. c.op = "COM" /\ c.left = l /\ c.right = r /\ c \in Expression
  BY ComFields
<1> HIDE DEF c
<1>2. Context[c]
  BY <1>1, ContextAt
<1> QED BY <1>2 DEF c

LEMMA ComContextRight ==
  ASSUME NEW l, NEW r, COM(l, r) \in Expression, Suspended[l], Context[r]
  PROVE  Context[COM(l, r)]
<1> DEFINE c == COM(l, r)
<1>1. c.op = "COM" /\ c.left = l /\ c.right = r /\ c \in Expression
  BY ComFields
<1> HIDE DEF c
<1>2. Context[c]
  BY <1>1, ContextAt
<1> QED BY <1>2 DEF c

-----------------------------------------------------------------------------
(* The processes of what has no hole, of a continuation, and of a          *)
(* continuation that is filled.                                            *)
Process == [exp : Expression, env : Env]

LEMMA LeavesNoHole ==
  ASSUME NEW e \in Expression, NoHole[e], NEW en \in Env, NEW inside
  PROVE  Leaves(e, en, inside) = Leaves(e, en, <<>>) /\ Leaves(e, en, <<>>) \in Seq(Process)
<1> DEFINE Good(x, ex) == Leaves(x, ex, inside) = Leaves(x, ex, <<>>) /\ Leaves(x, ex, <<>>) \in Seq(Process)
           S == {x \in Expression : NoHole[x] => \A ex \in Env : Good(x, ex)}
<1>1. ASSUME NEW x \in Expression, Within(x) \subseteq S
      PROVE  x \in S
  <2> SUFFICES ASSUME NoHole[x], NEW ex \in Env PROVE Good(x, ex)
    OBVIOUS
  <2>1. x # Hole
    BY NoHoleAt
  <2>2. CASE x.op = "COM"
    <3>1. x.left \in S /\ x.right \in S /\ NoHole[x.left] /\ NoHole[x.right]
      BY <1>1, <2>2, NoHoleAt DEF Within
    <3>2. Good(x.left, ex) /\ Good(x.right, ex)
      BY <3>1
    <3>3. \A i : Leaves(x, ex, i) = Leaves(x.left, ex, i) \o Leaves(x.right, ex, i)
      BY <2>2, LeavesCom
    <3>4. Leaves(x.left, ex, <<>>) \o Leaves(x.right, ex, <<>>) \in Seq(Process)
      BY <3>2, ConcatProperties
    <3> QED BY <3>2, <3>3, <3>4
  <2>3. CASE x.op = "CLS"
    <3>1. x.body \in S /\ NoHole[x.body]
      BY <1>1, <2>3, NoHoleAt DEF Within
    <3>2. x.env \in Env
      BY <2>3, Closure1
    <3>3. Good(x.body, x.env)
      BY <3>1, <3>2
    <3>4. \A i : Leaves(x, ex, i) = Leaves(x.body, x.env, i)
      BY <2>3, LeavesCls
    <3> QED BY <3>3, <3>4
  <2>4. CASE x.op \notin {"COM", "CLS"}
    <3>1. x.op \notin {"NULL", "COM", "CLS"}
      BY <2>1, <2>4, HoleOp
    <3>2. \A i : Leaves(x, ex, i) = <<[exp |-> x, env |-> ex]>>
      BY <3>1, LeavesOther
    <3> DEFINE p == [exp |-> x, env |-> ex]
    <3>3. p \in Process
      BY DEF Process
    <3>4. \A i : Leaves(x, ex, i) = <<p>>
      BY <3>2
    <3> HIDE DEF p
    <3>5. <<p>> \in Seq(Process)
      BY <3>3
    <3> QED BY <3>4, <3>5
  <2> QED BY <2>2, <2>3, <2>4
<1>2. Expression \subseteq S
  <2> HIDE DEF S
  <2> QED BY <1>1, TermInduction
<1>3. e \in S
  BY <1>2
<1> QED BY <1>3

LEMMA LeavesSuspended ==
  ASSUME NEW e \in Expression, Suspended[e], NEW e1 \in Env, NEW e2 \in Env, NEW i1, NEW i2
  PROVE  Leaves(e, e1, i1) = Leaves(e, e2, i2) /\ Leaves(e, e1, i1) \in Seq(Process)
<1> DEFINE Good(x) == Leaves(x, e1, i1) = Leaves(x, e2, i2) /\ Leaves(x, e1, i1) \in Seq(Process)
           S == {x \in Expression : Suspended[x] => Good(x)}
<1>1. ASSUME NEW x \in Expression, Within(x) \subseteq S
      PROVE  x \in S
  <2> SUFFICES ASSUME Suspended[x] PROVE Good(x)
    OBVIOUS
  <2>1. CASE x.op = "COM" /\ Suspended[x.left] /\ Suspended[x.right]
    <3>1. x.left \in S /\ x.right \in S
      BY <1>1, <2>1 DEF Within
    <3>2. Good(x.left) /\ Good(x.right)
      BY <2>1, <3>1
    <3>3. /\ Leaves(x, e1, i1) = Leaves(x.left, e1, i1) \o Leaves(x.right, e1, i1)
          /\ Leaves(x, e2, i2) = Leaves(x.left, e2, i2) \o Leaves(x.right, e2, i2)
      BY <2>1, LeavesCom
    <3>4. Leaves(x.left, e1, i1) \o Leaves(x.right, e1, i1) \in Seq(Process)
      BY <3>2, ConcatProperties
    <3> QED BY <3>2, <3>3, <3>4
  <2>2. CASE x.op = "CLS" /\ NoHole[x]
    <3>1. x.body \in Expression /\ x.env \in Env /\ NoHole[x.body]
      BY <2>2, Closure1, NoHoleAt
    <3>2. Leaves(x, e1, i1) = Leaves(x.body, x.env, i1) /\ Leaves(x, e2, i2) = Leaves(x.body, x.env, i2)
      BY <2>2, LeavesCls
    <3>3. \A i : Leaves(x.body, x.env, i) = Leaves(x.body, x.env, <<>>)
      BY <3>1, LeavesNoHole
    <3>4. Leaves(x.body, x.env, <<>>) \in Seq(Process)
      BY <3>1, LeavesNoHole
    <3> QED BY <3>2, <3>3, <3>4
  <2> QED BY <2>1, <2>2, SuspendedAt
<1>2. Expression \subseteq S
  <2> HIDE DEF S
  <2> QED BY <1>1, TermInduction
<1>3. e \in S
  BY <1>2
<1> QED BY <1>3

(* The processes of a continuation stand on both sides of its hole.        *)
Around(c, l, r) == \A en \in Env, inside \in Seq(Process) : Leaves(c, en, inside) = (l \o inside) \o r

LEMMA ContextAround ==
  ASSUME NEW c \in Expression, Context[c]
  PROVE  \E l, r \in Seq(Process) : Around(c, l, r)
<1> DEFINE Good(x) == \E l, r \in Seq(Process) : Around(x, l, r)
           S == {x \in Expression : Context[x] => Good(x)}
<1>1. ASSUME NEW x \in Expression, Within(x) \subseteq S
      PROVE  x \in S
  <2> SUFFICES ASSUME Context[x] PROVE Good(x)
    OBVIOUS
  <2>1. CASE x = Hole
    <3>1. ASSUME NEW inside \in Seq(Process)
          PROVE  (<<>> \o inside) \o <<>> = inside
      BY ConcatEmptySeq
    <3>2. Around(x, <<>>, <<>>)
      BY <2>1, <3>1, LeavesHole DEF Around
    <3>3. <<>> \in Seq(Process)
      OBVIOUS
    <3> QED BY <3>2, <3>3
  <2>2. ASSUME x.op = "COM", NEW en \in Env, NEW inside
        PROVE  Leaves(x, en, inside) = Leaves(x.left, en, inside) \o Leaves(x.right, en, inside)
    BY <2>2, LeavesCom
  <2>3. x.op = "COM" => x.left \in S /\ x.right \in S /\ x.left \in Expression /\ x.right \in Expression
    BY <1>1, Binary DEF Within
  <2>4. <<>> \in Env
    BY DEF Env
  <2>5. CASE x.op = "COM" /\ Context[x.left] /\ Suspended[x.right]
    <3>1. PICK l \in Seq(Process), r \in Seq(Process) : Around(x.left, l, r)
      BY <2>3, <2>5
    <3> DEFINE w == Leaves(x.right, <<>>, <<>>)
    <3>2. ASSUME NEW en \in Env, NEW inside
          PROVE  w = Leaves(x.right, en, inside) /\ w \in Seq(Process)
      BY <2>3, <2>4, <2>5, LeavesSuspended
    <3>3. w \in Seq(Process)
      BY <2>4, <3>2
    <3>4. ASSUME NEW en \in Env, NEW inside \in Seq(Process)
          PROVE  Leaves(x, en, inside) = (l \o inside) \o (r \o w)
      <4>1. Leaves(x, en, inside) = Leaves(x.left, en, inside) \o Leaves(x.right, en, inside)
        BY <2>2, <2>5
      <4>2. Leaves(x.left, en, inside) = (l \o inside) \o r
        BY <3>1 DEF Around
      <4>3. Leaves(x.right, en, inside) = w
        BY <3>2
      <4> HIDE DEF w
      <4>4. l \o inside \in Seq(Process)
        BY ConcatProperties
      <4>5. ((l \o inside) \o r) \o w = (l \o inside) \o (r \o w)
        BY <3>3, <4>4, ConcatAssociative
      <4> QED BY <4>1, <4>2, <4>3, <4>5
    <3> HIDE DEF w
    <3>5. r \o w \in Seq(Process)
      BY <3>3, ConcatProperties
    <3>6. Around(x, l, r \o w)
      BY <3>4 DEF Around
    <3> QED BY <3>5, <3>6
  <2>6. CASE x.op = "COM" /\ Suspended[x.left] /\ Context[x.right]
    <3>1. PICK l \in Seq(Process), r \in Seq(Process) : Around(x.right, l, r)
      BY <2>3, <2>6
    <3> DEFINE w == Leaves(x.left, <<>>, <<>>)
    <3>2. ASSUME NEW en \in Env, NEW inside
          PROVE  w = Leaves(x.left, en, inside) /\ w \in Seq(Process)
      BY <2>3, <2>4, <2>6, LeavesSuspended
    <3>3. w \in Seq(Process)
      BY <2>4, <3>2
    <3>4. ASSUME NEW en \in Env, NEW inside \in Seq(Process)
          PROVE  Leaves(x, en, inside) = ((w \o l) \o inside) \o r
      <4>1. Leaves(x, en, inside) = Leaves(x.left, en, inside) \o Leaves(x.right, en, inside)
        BY <2>2, <2>6
      <4>2. Leaves(x.right, en, inside) = (l \o inside) \o r
        BY <3>1 DEF Around
      <4>3. Leaves(x.left, en, inside) = w
        BY <3>2
      <4> HIDE DEF w
      <4>4. l \o inside \in Seq(Process) /\ w \o l \in Seq(Process)
        BY <3>3, ConcatProperties
      <4> DEFINE m == l \o inside
      <4>5. w \o (m \o r) = (w \o m) \o r
        <5> HIDE DEF m
        <5>1. m \in Seq(Process)
          BY <4>4 DEF m
        <5> QED BY <3>3, <5>1, ConcatAssociative
      <4>6. w \o (l \o inside) = (w \o l) \o inside
        BY <3>3, ConcatAssociative
      <4> QED BY <4>1, <4>2, <4>3, <4>5, <4>6
    <3> HIDE DEF w
    <3>5. w \o l \in Seq(Process)
      BY <3>3, ConcatProperties
    <3>6. Around(x, w \o l, r)
      BY <3>4 DEF Around
    <3> QED BY <3>5, <3>6
  <2> QED BY <2>1, <2>5, <2>6, ContextAt
<1>2. Expression \subseteq S
  <2> HIDE DEF S
  <2> QED BY <1>1, TermInduction
<1>3. c \in S
  BY <1>2
<1> QED BY <1>3

LEMMA LeavesOfCom ==
  ASSUME NEW l, NEW r, COM(l, r) \in Expression, NEW en \in Env, NEW inside
  PROVE  Leaves(COM(l, r), en, inside) = Leaves(l, en, inside) \o Leaves(r, en, inside)
<1> DEFINE c == COM(l, r)
<1>1. c \in Expression /\ c.op = "COM" /\ c.left = l /\ c.right = r
  BY ComFields
<1> HIDE DEF c
<1>2. Leaves(c, en, inside) = Leaves(l, en, inside) \o Leaves(r, en, inside)
  BY <1>1, LeavesCom
<1> QED BY <1>2 DEF c

(* What resume() makes of a continuation and an expression.                *)
Fits(e, c) ==
  /\ e \in Expression
  /\ NoHole[e] => NoHole[Filled(e, c)]
  /\ Suspended[e] => Suspended[Filled(e, c)]
  /\ Context[e] => Context[Filled(e, c)]
  /\ \A en \in Env : \A inside : Leaves(Filled(e, c), en, inside) = Leaves(c, en, Leaves(e, en, inside))

LEMMA FilledFits ==
  ASSUME NEW e, NEW c \in Expression, Context[c], Filled(e, c) \in Expression
  PROVE  Fits(e, c)
<1> DEFINE S == {x \in Expression : Context[x] /\ Filled(e, x) \in Expression => Fits(e, x)}
<1>1. ASSUME NEW x \in Expression, Within(x) \subseteq S
      PROVE  x \in S
  <2> SUFFICES ASSUME Context[x], Filled(e, x) \in Expression PROVE Fits(e, x)
    OBVIOUS
  <2>1. CASE x = Hole
    <3>1. Filled(e, x) = e
      BY <2>1, FilledHole
    <3>2. ASSUME NEW en \in Env, NEW inside
          PROVE  Leaves(x, en, Leaves(e, en, inside)) = Leaves(e, en, inside)
      BY <2>1, LeavesHole
    <3> QED BY <3>1, <3>2 DEF Fits
  <2>2. CASE x # Hole
    <3>0. /\ x.op = "COM" /\ x.left \in Expression /\ x.right \in Expression
          /\ x.left \in S /\ x.right \in S
      BY <1>1, <2>2, ContextCases DEF Within
    <3>l. ASSUME NEW en \in Env, NEW i
          PROVE  Leaves(x, en, i) = Leaves(x.left, en, i) \o Leaves(x.right, en, i)
      BY <3>0, LeavesCom
    <3>1. ASSUME Context[x.left], Suspended[x.right], Filled(e, x) = COM(Filled(e, x.left), x.right)
          PROVE  Fits(e, x)
      <4> DEFINE f == Filled(e, x.left)
      <4>1. COM(f, x.right) \in Expression
        BY <3>1
      <4>2. f \in Expression
        BY <4>1, ComParts
      <4>3. Fits(e, x.left)
        BY <3>0, <3>1, <4>2
      <4>f. /\ e \in Expression
            /\ NoHole[e] => NoHole[f]
            /\ Suspended[e] => Suspended[f]
            /\ Context[e] => Context[f]
        BY <4>3 DEF Fits
      <4>g. Filled(e, x) = COM(f, x.right)
        BY <3>1
      <4>n. NoHole[x.right]
        BY <3>0, <3>1, SuspendedNoHole
      <4> HIDE DEF f
      <4>4. NoHole[e] => NoHole[Filled(e, x)]
        BY <4>1, <4>f, <4>g, <4>n, ComNoHole
      <4>5. ASSUME Suspended[e]
            PROVE  Suspended[Filled(e, x)]
        <5>1. Suspended[f] /\ Suspended[x.right]
          BY <3>1, <4>5, <4>f
        <5>2. Suspended[COM(f, x.right)]
          BY <4>1, <5>1, ComSuspended
        <5> QED BY <4>g, <5>2
      <4>6. ASSUME Context[e]
            PROVE  Context[Filled(e, x)]
        <5>1. Context[f] /\ Suspended[x.right]
          BY <3>1, <4>6, <4>f
        <5>2. Context[COM(f, x.right)]
          BY <4>1, <5>1, ComContextLeft
        <5> QED BY <4>g, <5>2
      <4>7. ASSUME NEW en \in Env, NEW inside
            PROVE  Leaves(Filled(e, x), en, inside) = Leaves(x, en, Leaves(e, en, inside))
        <5>1. Leaves(Filled(e, x), en, inside) = Leaves(f, en, inside) \o Leaves(x.right, en, inside)
          BY <4>1, <4>g, LeavesOfCom
        <5>2. Leaves(x.right, en, inside) = Leaves(x.right, en, Leaves(e, en, inside))
          BY <3>0, <3>1, LeavesSuspended
        <5>3. Leaves(f, en, inside) = Leaves(x.left, en, Leaves(e, en, inside))
          BY <4>3 DEF Fits, f
        <5> QED BY <3>l, <5>1, <5>2, <5>3
      <4> QED BY <4>f, <4>4, <4>5, <4>6, <4>7 DEF Fits
    <3>2. ASSUME Suspended[x.left], Context[x.right], Filled(e, x) = COM(x.left, Filled(e, x.right))
          PROVE  Fits(e, x)
      <4> DEFINE f == Filled(e, x.right)
      <4>1. COM(x.left, f) \in Expression
        BY <3>2
      <4>2. f \in Expression
        BY <4>1, ComParts
      <4>3. Fits(e, x.right)
        BY <3>0, <3>2, <4>2
      <4>f. /\ e \in Expression
            /\ NoHole[e] => NoHole[f]
            /\ Suspended[e] => Suspended[f]
            /\ Context[e] => Context[f]
        BY <4>3 DEF Fits
      <4>g. Filled(e, x) = COM(x.left, f)
        BY <3>2
      <4>n. NoHole[x.left]
        BY <3>0, <3>2, SuspendedNoHole
      <4> HIDE DEF f
      <4>4. NoHole[e] => NoHole[Filled(e, x)]
        BY <4>1, <4>f, <4>g, <4>n, ComNoHole
      <4>5. ASSUME Suspended[e]
            PROVE  Suspended[Filled(e, x)]
        <5>1. Suspended[f] /\ Suspended[x.left]
          BY <3>2, <4>5, <4>f
        <5>2. Suspended[COM(x.left, f)]
          BY <4>1, <5>1, ComSuspended
        <5> QED BY <4>g, <5>2
      <4>6. ASSUME Context[e]
            PROVE  Context[Filled(e, x)]
        <5>1. Context[f] /\ Suspended[x.left]
          BY <3>2, <4>6, <4>f
        <5>2. Context[COM(x.left, f)]
          BY <4>1, <5>1, ComContextRight
        <5> QED BY <4>g, <5>2
      <4>7. ASSUME NEW en \in Env, NEW inside
            PROVE  Leaves(Filled(e, x), en, inside) = Leaves(x, en, Leaves(e, en, inside))
        <5>1. Leaves(Filled(e, x), en, inside) = Leaves(x.left, en, inside) \o Leaves(f, en, inside)
          BY <4>1, <4>g, LeavesOfCom
        <5>2. Leaves(x.left, en, inside) = Leaves(x.left, en, Leaves(e, en, inside))
          BY <3>0, <3>2, LeavesSuspended
        <5>3. Leaves(f, en, inside) = Leaves(x.right, en, Leaves(e, en, inside))
          BY <4>3 DEF Fits, f
        <5> QED BY <3>l, <5>1, <5>2, <5>3
      <4> QED BY <4>f, <4>4, <4>5, <4>6, <4>7 DEF Fits
    <3> QED BY <2>2, <3>1, <3>2, ContextCases
  <2> QED BY <2>1, <2>2
<1>2. Expression \subseteq S
  <2> HIDE DEF S
  <2> QED BY <1>1, TermInduction
<1>3. c \in S
  BY <1>2
<1> QED BY <1>3
-----------------------------------------------------------------------------
(* The steps by which eval() walks through a parallel composition.         *)
LEMMA MakeClsIs ==
  ASSUME NEW e \in Expression, NoHole[e], NEW en \in Env, make_cls(e, en) \in Expression
  PROVE  /\ Suspended[make_cls(e, en)]
         /\ \A ex \in Env : \A inside : Leaves(make_cls(e, en), ex, inside) = Leaves(e, en, <<>>)
<1> DEFINE k == make_cls(e, en)
<1>1. CASE e.op = "CLS"
  <2>1. k = e
    BY <1>1 DEF make_cls
  <2>2. Suspended[e]
    BY <1>1, SuspendedAt
  <2>3. ASSUME NEW ex \in Env, NEW inside
        PROVE  Leaves(e, ex, inside) = Leaves(e, en, <<>>)
    BY <2>2, LeavesSuspended
  <2> HIDE DEF k
  <2>4. Suspended[k] /\ \A ex \in Env : \A inside : Leaves(k, ex, inside) = Leaves(e, en, <<>>)
    BY <2>1, <2>2, <2>3
  <2> QED BY <2>4 DEF k
<1>2. CASE e.op # "CLS"
  <2>1. k = CLS(e, en) /\ k \in Expression
    BY <1>2 DEF make_cls
  <2> HIDE DEF k
  <2>2. k.op = "CLS" /\ k.body = e /\ k.env = en
    BY <2>1 DEF CLS
  <2>3. NoHole[k]
    <3>1. k # Hole
      BY <2>2 DEF Hole
    <3> QED BY <2>1, <2>2, <3>1, NoHoleAt
  <2>4. Suspended[k]
    BY <2>1, <2>2, <2>3, SuspendedAt
  <2>5. ASSUME NEW ex \in Env, NEW inside
        PROVE  Leaves(k, ex, inside) = Leaves(e, en, <<>>)
    <3>1. Leaves(k, ex, inside) = Leaves(e, en, inside)
      BY <2>1, <2>2, LeavesCls
    <3>2. Leaves(e, en, inside) = Leaves(e, en, <<>>)
      BY LeavesNoHole
    <3> QED BY <3>1, <3>2
  <2> QED BY <2>4, <2>5 DEF k
<1> QED BY <1>1, <1>2

LEMMA ResumeIs ==
  ASSUME NEW e, NEW c, e # Hole
  PROVE  resume(e, c) = Filled(e, c)
BY DEF resume

(* resume() puts the processes of an expression into the hole.             *)
LEMMA ResumeAgent ==
  ASSUME NEW e, NEW c \in Expression, Context[c], e # Hole, resume(e, c) \in Expression
  PROVE  /\ e \in Expression
         /\ NoHole[e] => NoHole[resume(e, c)]
         /\ \A en \in Env : \A inside : Leaves(resume(e, c), en, inside) = Leaves(c, en, Leaves(e, en, inside))
<1>1. Filled(e, c) \in Expression
  BY ResumeIs
<1>2. Fits(e, c)
  BY <1>1, FilledFits
<1> QED BY <1>2, ResumeIs DEF Fits

(* The operand that make_cont does not close runs in the new hole.         *)
LEMMA MakeContIs ==
  ASSUME NEW side \in {"LEFT", "RIGHT"}, NEW e \in Expression, e.op = "COM", NoHole[e],
         NEW c \in Expression, Context[c], NEW en \in Env, make_cont(side, e, c, en) \in Expression
  PROVE  /\ Context[make_cont(side, e, c, en)]
         /\ Leaves(make_cont(side, e, c, en), en, Leaves(IF side = "LEFT" THEN e.left ELSE e.right, en, <<>>))
              = Leaves(c, en, Leaves(e, en, <<>>))
<1>0. /\ e.left \in Expression /\ e.right \in Expression
      /\ NoHole[e.left] /\ NoHole[e.right]
  BY Binary, NoHoleAt
<1>e. Leaves(e, en, <<>>) = Leaves(e.left, en, <<>>) \o Leaves(e.right, en, <<>>)
  BY LeavesCom
<1>h. Hole \in Expression /\ Context[Hole]
  BY HoleIsExpression, ContextAt
<1>1. CASE side = "LEFT"
  <2> DEFINE m == make_cls(e.right, en)
             inner == COM(Hole, m)
             f == Filled(inner, c)
  <2>1. make_cont(side, e, c, en) = f
    BY <1>1, ResumeIs, ComFields DEF make_cont
  <2>2. Fits(inner, c)
    BY <2>1, FilledFits
  <2>3. inner \in Expression /\ (Context[inner] => Context[f])
    BY <2>2 DEF Fits
  <2>4. m \in Expression
    BY <2>3, ComParts
  <2>5. Suspended[m] /\ \A ex \in Env : \A i : Leaves(m, ex, i) = Leaves(e.right, en, <<>>)
    BY <1>0, <2>4, MakeClsIs
  <2>6. ASSUME NEW i
        PROVE  Leaves(f, en, i) = Leaves(c, en, Leaves(inner, en, i))
    BY <2>2 DEF Fits
  <2> HIDE DEF m
  <2>7. Context[inner]
    BY <1>h, <2>3, <2>5, ComContextLeft
  <2> DEFINE i == Leaves(e.left, en, <<>>)
  <2>8. Leaves(inner, en, i) = Leaves(Hole, en, i) \o Leaves(m, en, i)
    BY <2>3, LeavesOfCom
  <2>9. Leaves(inner, en, i) = Leaves(e, en, <<>>)
    BY <1>e, <2>5, <2>8, LeavesHole
  <2> HIDE DEF f, inner, i
  <2>10. Context[f] /\ Leaves(f, en, i) = Leaves(c, en, Leaves(e, en, <<>>))
    BY <2>3, <2>6, <2>7, <2>9
  <2> QED BY <1>1, <2>1, <2>10 DEF i
<1>2. CASE side = "RIGHT"
  <2> DEFINE m == make_cls(e.left, en)
             inner == COM(m, Hole)
             f == Filled(inner, c)
  <2>1. make_cont(side, e, c, en) = f
    BY <1>2, ResumeIs, ComFields DEF make_cont
  <2>2. Fits(inner, c)
    BY <2>1, FilledFits
  <2>3. inner \in Expression /\ (Context[inner] => Context[f])
    BY <2>2 DEF Fits
  <2>4. m \in Expression
    BY <2>3, ComParts
  <2>5. Suspended[m] /\ \A ex \in Env : \A i : Leaves(m, ex, i) = Leaves(e.left, en, <<>>)
    BY <1>0, <2>4, MakeClsIs
  <2>6. ASSUME NEW i
        PROVE  Leaves(f, en, i) = Leaves(c, en, Leaves(inner, en, i))
    BY <2>2 DEF Fits
  <2> HIDE DEF m
  <2>7. Context[inner]
    BY <1>h, <2>3, <2>5, ComContextRight
  <2> DEFINE i == Leaves(e.right, en, <<>>)
  <2>8. Leaves(inner, en, i) = Leaves(m, en, i) \o Leaves(Hole, en, i)
    BY <2>3, LeavesOfCom
  <2>9. Leaves(inner, en, i) = Leaves(e, en, <<>>)
    BY <1>e, <2>5, <2>8, LeavesHole
  <2> HIDE DEF f, inner, i
  <2>10. Context[f] /\ Leaves(f, en, i) = Leaves(c, en, Leaves(e, en, <<>>))
    BY <2>3, <2>6, <2>7, <2>9
  <2> QED BY <1>2, <2>1, <2>10 DEF i
<1> QED BY <1>1, <1>2

(* make_switch() and resume(NIL,..): the expression stays in the hole, and *)
(* the operand beside it runs.                                             *)
LEMMA SwitchIs ==
  ASSUME NEW k, NEW c \in Expression, Context[c], c # Hole, k # Hole,
         NEW en \in Env, k \in Expression => Suspended[k], make_switch(k, c) \in Expression
  PROVE  /\ k \in Expression
         /\ Context[make_switch(k, c)]
         /\ resume(Hole, c) \in Expression /\ Suspended[resume(Hole, c)]
         /\ Leaves(make_switch(k, c), en, Leaves(resume(Hole, c), en, <<>>))
              = Leaves(c, en, Leaves(k, en, <<>>))
<1>0. /\ c.op = "COM" /\ isbinary(c) /\ c.left \in Expression /\ c.right \in Expression
      /\ resume(k, c) = Filled(k, c) /\ resume(Hole, c) = Sibling(c)
  BY ContextCases, ResumeIs DEF resume
<1>h. Hole \in Expression /\ Context[Hole]
  BY HoleIsExpression, ContextAt
<1>c. \A i : Leaves(c, en, i) = Leaves(c.left, en, i) \o Leaves(c.right, en, i)
  BY <1>0, LeavesCom
<1>1. ASSUME Context[c.left], Suspended[c.right], Filled(k, c) = COM(Filled(k, c.left), c.right)
      PROVE  /\ k \in Expression
             /\ Context[make_switch(k, c)]
             /\ Sibling(c) \in Expression /\ Suspended[Sibling(c)]
             /\ Leaves(make_switch(k, c), en, Leaves(Sibling(c), en, <<>>))
                  = Leaves(c, en, Leaves(k, en, <<>>))
  <2> DEFINE f == Filled(k, c.left)
  <2>1. ishole(c.left)
    BY <1>0, <1>1, ContextHole
  <2>2. Sibling(c) = c.right
    BY <1>0, <2>1 DEF Sibling
  <2>3. make_switch(k, c) = COM(f, Hole)
    BY <1>0, <1>1, <2>1 DEF make_switch, COM
  <2>4. f \in Expression
    BY <2>3, ComParts
  <2>5. Fits(k, c.left)
    BY <1>0, <1>1, <2>4, FilledFits
  <2>6. k \in Expression /\ Suspended[k] /\ Suspended[f]
    BY <2>5 DEF Fits
  <2> DEFINE x == Leaves(c.right, en, <<>>)
  <2>7. Leaves(f, en, x) = Leaves(c.left, en, Leaves(k, en, x))
    BY <2>5 DEF Fits
  <2>8. Leaves(k, en, x) = Leaves(k, en, <<>>)
    BY <2>6, LeavesSuspended
  <2>9. Leaves(c.right, en, Leaves(k, en, <<>>)) = x
    BY <1>0, <1>1, LeavesSuspended
  <2> HIDE DEF f
  <2>10. Context[COM(f, Hole)]
    BY <1>h, <2>3, <2>6, ComContextRight
  <2>11. Leaves(COM(f, Hole), en, x) = Leaves(f, en, x) \o x
    <3>1. Leaves(COM(f, Hole), en, x) = Leaves(f, en, x) \o Leaves(Hole, en, x)
      BY <2>3, LeavesOfCom
    <3>2. Leaves(Hole, en, x) = x
      BY LeavesHole
    <3> QED BY <3>1, <3>2
  <2>12. Leaves(COM(f, Hole), en, x) = Leaves(c, en, Leaves(k, en, <<>>))
    BY <1>c, <2>7, <2>8, <2>9, <2>11
  <2> QED BY <1>0, <1>1, <2>2, <2>3, <2>6, <2>10, <2>12
<1>2. ASSUME Suspended[c.left], Context[c.right], Filled(k, c) = COM(c.left, Filled(k, c.right))
      PROVE  /\ k \in Expression
             /\ Context[make_switch(k, c)]
             /\ Sibling(c) \in Expression /\ Suspended[Sibling(c)]
             /\ Leaves(make_switch(k, c), en, Leaves(Sibling(c), en, <<>>))
                  = Leaves(c, en, Leaves(k, en, <<>>))
  <2> DEFINE f == Filled(k, c.right)
  <2>1. ~ishole(c.left) /\ ishole(c.right)
    BY <1>0, <1>2, ContextHole, SuspendedNoHole
  <2>2. Sibling(c) = c.left
    BY <1>0, <2>1 DEF Sibling
  <2>3. make_switch(k, c) = COM(Hole, f)
    BY <1>0, <1>2, <2>1 DEF make_switch, COM
  <2>4. f \in Expression
    BY <2>3, ComParts
  <2>5. Fits(k, c.right)
    BY <1>0, <1>2, <2>4, FilledFits
  <2>6. k \in Expression /\ Suspended[k] /\ Suspended[f]
    BY <2>5 DEF Fits
  <2> DEFINE x == Leaves(c.left, en, <<>>)
  <2>7. Leaves(f, en, x) = Leaves(c.right, en, Leaves(k, en, x))
    BY <2>5 DEF Fits
  <2>8. Leaves(k, en, x) = Leaves(k, en, <<>>)
    BY <2>6, LeavesSuspended
  <2>9. Leaves(c.left, en, Leaves(k, en, <<>>)) = x
    BY <1>0, <1>2, LeavesSuspended
  <2> HIDE DEF f
  <2>10. Context[COM(Hole, f)]
    BY <1>h, <2>3, <2>6, ComContextLeft
  <2>11. Leaves(COM(Hole, f), en, x) = x \o Leaves(f, en, x)
    <3>1. Leaves(COM(Hole, f), en, x) = Leaves(Hole, en, x) \o Leaves(f, en, x)
      BY <2>3, LeavesOfCom
    <3>2. Leaves(Hole, en, x) = x
      BY LeavesHole
    <3> QED BY <3>1, <3>2
  <2>12. Leaves(COM(Hole, f), en, x) = Leaves(c, en, Leaves(k, en, <<>>))
    BY <1>c, <2>7, <2>8, <2>9, <2>11
  <2> QED BY <1>0, <1>2, <2>2, <2>3, <2>6, <2>10, <2>12
<1> QED BY <1>0, <1>1, <1>2, ContextCases
-----------------------------------------------------------------------------
(* Values and environments have their types.                               *)
LEMMA ValueAtLevel ==
  ASSUME NEW n \in Nat
  PROVE  ValueTo[n] = Valued(IF n = 0 THEN {} ELSE ValueTo[n - 1])
BY ValueToIs

LEMMA ValueOperands ==
  ASSUME NEW X, NEW x \in Valued(X), x.tk \notin {"VALUE", "ID"}
  PROVE  x.operands[1] \in X /\ x.operands[2] \in X
<1>1. x.operands \in Seq(X) /\ Len(x.operands) = 2
  BY DEF Valued
<1> QED BY <1>1, ElementOfSeq

LEMMA ValuedGrows ==
  ASSUME NEW X, NEW Y, X \subseteq Y
  PROVE  Valued(X) \subseteq Valued(Y)
<1>1. Seq(X) \subseteq Seq(Y)
  OBVIOUS
<1>2. {s \in Seq(X) : Len(s) = 2} \subseteq {s \in Seq(Y) : Len(s) = 2}
  BY <1>1
<1> QED BY <1>2 DEF Valued

LEMMA ValuesGrow ==
  ASSUME NEW n \in Nat
  PROVE  ValueTo[n] \subseteq ValueTo[n + 1]
<1> DEFINE G == {k \in Nat : ValueTo[k] \subseteq ValueTo[k + 1]}
<1>0. ASSUME NEW k \in Nat
      PROVE  ValueTo[k + 1] = Valued(ValueTo[k])
  <2>1. k + 1 \in Nat /\ k + 1 # 0 /\ (k + 1) - 1 = k
    OBVIOUS
  <2>2. ValueTo[k + 1] = Valued(IF k + 1 = 0 THEN {} ELSE ValueTo[(k + 1) - 1])
    BY <2>1, ValueAtLevel
  <2> QED BY <2>1, <2>2
<1>1. 0 \in G
  <2>1. Valued({}) \subseteq Valued(ValueTo[0])
    BY ValuedGrows
  <2>2. ValueTo[0] = Valued({})
    BY ValueAtLevel
  <2>3. ValueTo[0 + 1] = Valued(ValueTo[0])
    BY <1>0
  <2> QED BY <2>1, <2>2, <2>3
<1>2. ASSUME NEW k \in Nat, k \in G
      PROVE  k + 1 \in G
  <2>1. Valued(ValueTo[k]) \subseteq Valued(ValueTo[k + 1])
    BY <1>2, ValuedGrows
  <2>2. ValueTo[k + 1] \subseteq ValueTo[(k + 1) + 1]
    BY <1>0, <2>1
  <2> QED BY <2>2
<1>3. Nat \subseteq G
  <2> HIDE DEF G
  <2> QED BY <1>1, <1>2, NatSetInduction
<1> QED BY <1>3

LEMMA LookupTyped ==
  ASSUME NEW en \in Env, NEW x
  PROVE  lookup1(x, en) \in Int \cup {Nil}
<1> DEFINE I == {j \in 1 .. Len(en) : en[j].var = x}
<1>1. CASE I = {}
  <2>1. SelectInSeq(en, LAMBDA p : p.var = x) = 0
    BY <1>1 DEF SelectInSeq
  <2> QED BY <2>1 DEF lookup1
<1>2. CASE I # {}
  <2>1. I \subseteq Nat
    OBVIOUS
  <2>2. PICK m \in I : \A n \in I : m <= n
    BY <1>2, <2>1, LeastNumber
  <2>3. Min(I) = m
    BY <2>1, <2>2, MinIs
  <2>4. SelectInSeq(en, LAMBDA p : p.var = x) = m
    BY <1>2, <2>3 DEF SelectInSeq
  <2> DEFINE P == [var : STRING, val : Int]
  <2>5. en \in Seq(P)
    BY DEF Env
  <2>6. m \in 1 .. Len(en) /\ m # 0
    BY <2>2
  <2>7. en[m] \in P
    <3> HIDE DEF P
    <3> QED BY <2>5, <2>6, ElementOfSeq
  <2> QED BY <2>4, <2>6, <2>7 DEF lookup1
<1> QED BY <1>1, <1>2

ValueOf(f, x, en) ==
  IF x.tk = "VALUE" THEN x.val
  ELSE IF x.tk = "ID" THEN lookup1(x.id, en)
  ELSE LET d == f[x.operands[1]]
           g == f[x.operands[2]]
       IN  IF Nil \in {d, g} THEN Nil ELSE IF d = g THEN 1 ELSE 0

ValueIn(en) ==
  LET value[x \in ValueExp] ==
        IF x.tk = "VALUE" THEN x.val
        ELSE IF x.tk = "ID" THEN lookup1(x.id, en)
        ELSE LET d == value[x.operands[1]]
                 f == value[x.operands[2]]
             IN  IF Nil \in {d, f} THEN Nil ELSE IF d = f THEN 1 ELSE 0
  IN  value

LEMMA ValueInIs ==
  ASSUME NEW en
  PROVE  ValueIn(en) = [x \in ValueExp |-> ValueOf(ValueIn(en), x, en)]
<1> DEFINE Is(f, k) == f = [x \in ValueTo[k] |-> ValueOf(f, x, en)]
           G == {k \in Nat : \E f : Is(f, k)}
<1>1. ASSUME NEW f, NEW g, NEW X, NEW x \in Valued(X), \A p \in X : f[p] = g[p]
      PROVE  ValueOf(f, x, en) = ValueOf(g, x, en)
  <2>1. x.tk \notin {"VALUE", "ID"} => f[x.operands[1]] = g[x.operands[1]] /\ f[x.operands[2]] = g[x.operands[2]]
    BY <1>1, ValueOperands
  <2> QED BY <2>1 DEF ValueOf
<1>2. 0 \in G
  <2> DEFINE g == [x \in ValueTo[0] |-> ValueOf(<<>>, x, en)]
  <2>1. ASSUME NEW x \in ValueTo[0]
        PROVE  g[x] = ValueOf(g, x, en)
    <3>1. x \in Valued({})
      BY ValueAtLevel
    <3>2. ValueOf(<<>>, x, en) = ValueOf(g, x, en)
      BY <1>1, <3>1
    <3> QED BY <3>2
  <2>2. g = [x \in ValueTo[0] |-> g[x]]
    OBVIOUS
  <2> HIDE DEF g
  <2>3. g = [x \in ValueTo[0] |-> ValueOf(g, x, en)]
    BY <2>1, <2>2
  <2> QED BY <2>3
<1>3. ASSUME NEW k \in Nat, k \in G
      PROVE  k + 1 \in G
  <2>1. PICK f : Is(f, k)
    BY <1>3
  <2> DEFINE g == [x \in ValueTo[k + 1] |-> ValueOf(f, x, en)]
  <2>2. ASSUME NEW x \in ValueTo[k + 1]
        PROVE  g[x] = ValueOf(g, x, en)
    <3>0. k + 1 \in Nat /\ k + 1 # 0 /\ (k + 1) - 1 = k
      OBVIOUS
    <3>1. x \in Valued(ValueTo[k])
      BY <3>0, ValueAtLevel
    <3>2. ASSUME NEW p \in ValueTo[k]
          PROVE  f[p] = g[p]
      <4>1. p \in ValueTo[k + 1]
        BY ValuesGrow
      <4> QED BY <2>1, <4>1
    <3>3. ValueOf(f, x, en) = ValueOf(g, x, en)
      <4> HIDE DEF g
      <4> QED BY <1>1, <3>1, <3>2
    <3> QED BY <3>3
  <2>3. g = [x \in ValueTo[k + 1] |-> g[x]]
    OBVIOUS
  <2> HIDE DEF g
  <2>4. Is(g, k + 1)
    BY <2>2, <2>3
  <2> QED BY <2>4
<1>4. Nat \subseteq G
  <2> HIDE DEF G
  <2> QED BY <1>2, <1>3, NatSetInduction
<1>5. PICK f : Is(f, Height)
  BY <1>4, TermsAssumption
<1>6. \E g : g = [x \in ValueExp |->
        IF x.tk = "VALUE" THEN x.val
        ELSE IF x.tk = "ID" THEN lookup1(x.id, en)
        ELSE LET d == g[x.operands[1]]
                 f1 == g[x.operands[2]]
             IN  IF Nil \in {d, f1} THEN Nil ELSE IF d = f1 THEN 1 ELSE 0]
  BY <1>5 DEF ValueExp, ValueOf
<1>7. ValueIn(en) = [x \in ValueExp |->
        IF x.tk = "VALUE" THEN x.val
        ELSE IF x.tk = "ID" THEN lookup1(x.id, en)
        ELSE LET d == ValueIn(en)[x.operands[1]]
                 f1 == ValueIn(en)[x.operands[2]]
             IN  IF Nil \in {d, f1} THEN Nil ELSE IF d = f1 THEN 1 ELSE 0]
  BY <1>6 DEF ValueIn
<1> QED BY <1>7 DEF ValueOf

(* Induction over values.                                                  *)
LEMMA ValueInduction ==
  ASSUME NEW S,
         \A x \in ValueExp : (x.tk \notin {"VALUE", "ID"} => x.operands[1] \in S /\ x.operands[2] \in S)
                             => x \in S
  PROVE  ValueExp \subseteq S
<1> DEFINE D == {m \in Nat : m <= Height => ValueTo[Height - m] \subseteq ValueExp}
           G == {n \in Nat : n <= Height => ValueTo[n] \subseteq S}
<1>0. Height \in Nat
  BY TermsAssumption
<1>1. Nat \subseteq D
  <2>1. 0 \in D
    BY <1>0 DEF ValueExp
  <2>2. ASSUME NEW m \in Nat, m \in D
        PROVE  m + 1 \in D
    <3> SUFFICES ASSUME m + 1 <= Height PROVE ValueTo[Height - (m + 1)] \subseteq ValueExp
      OBVIOUS
    <3>1. Height - (m + 1) \in Nat /\ (Height - (m + 1)) + 1 = Height - m /\ m <= Height
      BY <1>0
    <3>2. ValueTo[Height - (m + 1)] \subseteq ValueTo[Height - m]
      BY <3>1, ValuesGrow
    <3>3. ValueTo[Height - m] \subseteq ValueExp
      BY <2>2, <3>1
    <3> QED BY <3>2, <3>3
  <2> HIDE DEF D
  <2> QED BY <2>1, <2>2, NatSetInduction
<1>2. ASSUME NEW n \in Nat, n <= Height
      PROVE  ValueTo[n] \subseteq ValueExp
  <2>1. Height - n \in Nat /\ Height - n <= Height /\ Height - (Height - n) = n
    BY <1>0, <1>2
  <2>2. Height - n \in D
    BY <1>1, <2>1
  <2> QED BY <2>1, <2>2
<1>3. ASSUME NEW x \in ValueExp, NEW X, x \in Valued(X), X \subseteq S
      PROVE  x \in S
  BY <1>3, ValueOperands
<1>4. 0 \in G
  <2> SUFFICES ASSUME NEW x \in ValueTo[0] PROVE x \in S
    OBVIOUS
  <2>1. x \in ValueExp
    BY <1>0, <1>2
  <2>2. x \in Valued({})
    BY ValueAtLevel
  <2> QED BY <1>3, <2>1, <2>2
<1>5. ASSUME NEW n \in Nat, n \in G
      PROVE  n + 1 \in G
  <2> SUFFICES ASSUME n + 1 <= Height, NEW x \in ValueTo[n + 1] PROVE x \in S
    OBVIOUS
  <2>1. n + 1 \in Nat /\ n + 1 # 0 /\ (n + 1) - 1 = n /\ n <= Height
    BY <1>0
  <2>2. x \in ValueExp
    BY <1>2, <2>1
  <2>3. x \in Valued(ValueTo[n])
    BY <2>1, ValueAtLevel
  <2>4. ValueTo[n] \subseteq S
    BY <1>5, <2>1
  <2> QED BY <1>3, <2>2, <2>3, <2>4
<1>6. Nat \subseteq G
  <2> HIDE DEF G
  <2> QED BY <1>4, <1>5, NatSetInduction
<1> QED BY <1>0, <1>6 DEF ValueExp

LEMMA ValueAt ==
  ASSUME NEW x \in ValueExp, NEW en
  PROVE  evalval(x, en) = IF x.tk = "VALUE" THEN x.val
                          ELSE IF x.tk = "ID" THEN lookup1(x.id, en)
                          ELSE IF Nil \in {evalval(x.operands[1], en), evalval(x.operands[2], en)} THEN Nil
                          ELSE IF evalval(x.operands[1], en) = evalval(x.operands[2], en) THEN 1 ELSE 0
<1> DEFINE v == ValueIn(en)
<1>1. v[x] = ValueOf(v, x, en)
  BY ValueInIs
<1>2. \A y : evalval(y, en) = v[y]
  BY DEF evalval, ValueIn
<1> HIDE DEF v
<1> QED BY <1>1, <1>2 DEF ValueOf

LEMMA ValueParts ==
  ASSUME NEW x \in ValueExp
  PROVE  (x.tk = "VALUE" => x.val \in Int) /\ (x.tk = "ID" => x.id \in STRING)
<1>1. \A n \in Nat : \E X : ValueTo[n] = Valued(X)
  BY ValueAtLevel
<1>2. PICK X : x \in Valued(X)
  BY <1>1, TermsAssumption DEF ValueExp
<1> QED BY <1>2 DEF Valued

LEMMA ValueTyped ==
  ASSUME NEW e \in ValueExp, NEW en \in Env
  PROVE  evalval(e, en) \in Int \cup {Nil}
<1> DEFINE T == Int \cup {Nil}
           S == {x \in ValueExp : evalval(x, en) \in T}
<1>1. ASSUME NEW x \in ValueExp, x.tk \notin {"VALUE", "ID"} => x.operands[1] \in S /\ x.operands[2] \in S
      PROVE  x \in S
  BY <1>1, ValueAt, ValueParts, LookupTyped
<1> HIDE DEF S
<1>2. ValueExp \subseteq S
  BY <1>1, ValueInduction
<1> QED BY <1>2 DEF S

(* A finite set as a list.                                                 *)
LEMMA SetToSeqTyped ==
  ASSUME NEW X, NEW S, S \subseteq X, IsFiniteSet(S)
  PROVE  SetToSeq(S) \in Seq(X) /\ Range(SetToSeq(S)) = S
<1> DEFINE n == Cardinality(S)
           s == SetToSeq(S)
<1>1. n \in Nat /\ ExistsBijection(1 .. n, S)
  BY FS_CardinalityType
<1>2. \E f \in [1 .. n -> S] : IsInjective(f)
  <2> HIDE DEF n
  <2> QED BY <1>1 DEF ExistsBijection, Bijection, Injection
<1>3. s \in [1 .. n -> S] /\ IsInjective(s)
  BY <1>2 DEF SetToSeq
<1> HIDE DEF n, s
<1>4. s \in [1 .. n -> X]
  BY <1>3
<1>5. Cardinality(1 .. n) = n
  BY <1>1, Counting
<1>6. s \in Injection(1 .. n, S)
  BY <1>3 DEF Injection
<1>7. s \in Surjection(1 .. n, S)
  BY <1>5, <1>6, FS_Injection DEF n
<1>8. Range(s) = S
  BY <1>7 DEF Surjection, Range
<1>9. s \in Seq(X)
  BY <1>1, <1>4, SeqDef
<1> QED BY <1>8, <1>9 DEF s

LEMMA ReachableTyped ==
  ASSUME NEW en \in Env
  PROVE  /\ Reachable(en) \in Env
         /\ Range(Reachable(en)) = {p \in Range(en) : lookup1(p.var, en) = p.val}
<1> DEFINE P == [var : STRING, val : Int]
           n == Len(en)
           R == Range(en)
<1>1. en \in Seq(P)
  BY DEF Env
<1>2. n \in Nat /\ en \in [1 .. n -> P] /\ DOMAIN en = 1 .. n
  <2> HIDE DEF P
  <2> QED BY <1>1, LenProperties
<1>3. IsFiniteSet(1 .. n)
  <2> HIDE DEF n
  <2>1. 1 \in Int /\ n \in Int
    BY <1>2
  <2> QED BY <2>1, FS_Interval
<1> HIDE DEF n, P
<1>4. en \in Surjection(1 .. n, R)
  BY <1>2 DEF Surjection, Range
<1> HIDE DEF R
<1>5. IsFiniteSet(R)
  BY <1>3, <1>4, FS_Surjection
<1>6. R \subseteq P
  BY <1>2 DEF R, Range
<1> DEFINE S == {p \in R : lookup1(p.var, en) = p.val}
<1>7. IsFiniteSet(S)
  <2>1. S \in SUBSET R
    OBVIOUS
  <2> HIDE DEF S
  <2> QED BY <1>5, <2>1, FS_Subset
<1>8. S \subseteq P
  BY <1>6
<1>9. SetToSeq(S) \in Seq(P) /\ Range(SetToSeq(S)) = S
  <2> HIDE DEF S
  <2> QED BY <1>7, <1>8, SetToSeqTyped
<1> QED BY <1>9 DEF Reachable, Env, R, P

LEMMA EvalListTyped ==
  ASSUME NEW es \in Seq(ValueExp), NEW en \in Env
  PROVE  evalval_ls(es, en) \in Seq(Int) \cup {Nil}
<1> DEFINE n == Len(es)
           vs == [i \in DOMAIN es |-> evalval(es[i], en)]
<1>1. n \in Nat /\ DOMAIN es = 1 .. n
  BY LenProperties
<1>2. ASSUME NEW i \in 1 .. n
      PROVE  vs[i] \in Int \cup {Nil}
  <2>1. es[i] \in ValueExp
    BY ElementOfSeq
  <2> QED BY <1>1, <2>1, ValueTyped
<1>3. CASE Nil \in Range(vs)
  BY <1>3 DEF evalval_ls
<1>4. CASE Nil \notin Range(vs)
  <2>1. evalval_ls(es, en) = vs
    BY <1>4 DEF evalval_ls
  <2>2. DOMAIN vs = 1 .. n
    BY <1>1
  <2>3. vs = [i \in 1 .. n |-> vs[i]]
    BY <1>1
  <2> HIDE DEF vs, n
  <2>4. \A i \in 1 .. n : vs[i] \in Int
    BY <1>2, <1>4, <2>2 DEF Range
  <2>5. vs \in [1 .. n -> Int]
    BY <2>3, <2>4
  <2>6. vs \in Seq(Int)
    BY <1>1, <2>5, SeqDef
  <2> QED BY <2>1, <2>6
<1> QED BY <1>3, <1>4

LEMMA BoundlsTyped ==
  ASSUME NEW xs \in Seq(STRING), NEW vs \in Seq(Int) \cup {Nil}, NEW en \in Env
  PROVE  n_boundls(xs, vs, en) \in Env \cup {Nil}
<1>1. CASE vs = Nil \/ Len(xs) # Len(vs)
  BY <1>1 DEF n_boundls
<1>2. CASE vs # Nil /\ Len(xs) = Len(vs)
  <2> DEFINE P == [var : STRING, val : Int]
             n == Len(xs)
             b == [i \in DOMAIN xs |-> [var |-> xs[i], val |-> vs[i]]]
  <2>1. n \in Nat /\ DOMAIN xs = 1 .. n /\ n = Len(vs) /\ vs \in Seq(Int)
    BY <1>2, LenProperties
  <2>2. ASSUME NEW i \in 1 .. n
        PROVE  xs[i] \in STRING /\ vs[i] \in Int
    BY <2>1, ElementOfSeq
  <2>3. b \in [1 .. n -> P]
    BY <2>1, <2>2
  <2> HIDE DEF b, n, P
  <2>4. b \in Seq(P)
    BY <2>1, <2>3, SeqDef
  <2>5. Reverse(b) \in Seq(P)
    BY <2>4, ReverseProperties
  <2>6. en \in Seq(P)
    BY DEF Env, P
  <2>7. Reverse(b) \o en \in Seq(P)
    BY <2>5, <2>6, ConcatProperties
  <2>8. Reverse(b) \o en \in Env
    BY <2>7 DEF Env, P
  <2>9. Reachable(Reverse(b) \o en) \in Env
    BY <2>8, ReachableTyped
  <2>10. n_boundls(xs, vs, en) = IF Shadows THEN Reverse(b) \o en ELSE Reachable(Reverse(b) \o en)
    BY <1>2 DEF n_boundls, b
  <2> QED BY <2>8, <2>9, <2>10
<1> QED BY <1>1, <1>2

-----------------------------------------------------------------------------
(* The list that is the channel, which the program keeps at one message    *)
(* per label.                                                              *)
Value == Seq(Int)
Message == [label : Label, value : Value]
OnePerLabel(c) == \A i, j \in 1..Len(c) : c[i].label = c[j].label => i = j

LEMMA NilIsNoValue == Nil \notin Value
BY TermsAssumption DEF Value

(* With one message per label, lookup finds the message of the label.      *)
LEMMA LookupFound ==
  ASSUME NEW c \in Seq(Message), OnePerLabel(c), NEW i \in 1..Len(c)
  PROVE  lookup_ch1(c, c[i].label) = c[i].value
<1>1. {j \in 1..Len(c) : c[j].label = c[i].label} = {i}
  BY DEF OnePerLabel
<1>2. SelectInSeq(c, LAMBDA m : m.label = c[i].label) = i
  BY <1>1, MinSingleton, LenProperties DEF SelectInSeq
<1> QED BY <1>2 DEF lookup_ch1

(* Without a message of the label, lookup returns the null pointer.        *)
LEMMA LookupNone ==
  ASSUME NEW c, NEW l, \A i \in 1..Len(c) : c[i].label # l
  PROVE  lookup_ch1(c, l) = Nil
<1>1. {j \in 1..Len(c) : c[j].label = l} = {}
  OBVIOUS
<1>2. SelectInSeq(c, LAMBDA m : m.label = l) = 0
  BY <1>1 DEF SelectInSeq
<1> QED BY <1>2 DEF lookup_ch1

(* A label is readable exactly when some message carries it.               *)
LEMMA TransIffCarried ==
  ASSUME NEW c \in Seq(Message), OnePerLabel(c), NEW l
  PROVE  istrans_in_act(c, l) <=> \E i \in 1..Len(c) : c[i].label = l
<1>1. ASSUME NEW i \in 1..Len(c), c[i].label = l
      PROVE  istrans_in_act(c, l)
  <2>1. lookup_ch1(c, l) = c[i].value
    BY <1>1, LookupFound
  <2>2. c[i] \in Message
    BY ElementOfSeq
  <2> QED BY <2>1, <2>2, NilIsNoValue DEF istrans_in_act, Message
<1>2. ASSUME \A i \in 1..Len(c) : c[i].label # l
      PROVE  ~istrans_in_act(c, l)
  BY <1>2, LookupNone DEF istrans_in_act
<1> QED BY <1>1, <1>2

(* delete removes the one message that equals the pair it is given.        *)
LEMMA DeleteFound ==
  ASSUME NEW c \in Seq(Message), OnePerLabel(c), NEW i \in 1..Len(c)
  PROVE  delete(c[i], c) = RemoveAt(c, i)
<1>1. {j \in 1..Len(c) : c[j] = c[i]} = {i}
  BY DEF OnePerLabel
<1>2. SelectInSeq(c, LAMBDA v : v = c[i]) = i
  BY <1>1, MinSingleton, LenProperties DEF SelectInSeq
<1>3. \E j \in 1..Len(c) : c[j] = c[i]
  OBVIOUS
<1> QED BY <1>2, <1>3 DEF delete, RemoveFirst

-----------------------------------------------------------------------------
(* What a send does to the list.                                           *)
LEMMA SendList ==
  ASSUME NEW c \in Seq(Message), OnePerLabel(c), NEW l \in Label, NEW v \in Value,
         ~istrans_in_act(c, l)
  PROVE  LET d == n_bound_ch(c, l, v)
         IN  /\ d \in Seq(Message)
             /\ OnePerLabel(d)
             /\ lookup_ch1(d, l) = v
             /\ \A k : k # l => lookup_ch1(d, k) = lookup_ch1(c, k)
<1> DEFINE m == Msg(l, v)
           d == n_bound_ch(c, l, v)
<1>1. m \in Message /\ m.label = l /\ m.value = v
  BY DEF Msg, Message
<1>2. <<m>> \in Seq(Message) /\ Len(<<m>>) = 1 /\ <<m>>[1] = m
  BY <1>1
<1> HIDE DEF m
<1>3. d = <<m>> \o c
  BY DEF n_bound_ch, Cons, m
<1>4. Len(c) \in Nat
  BY LenProperties
<1>5. /\ d \in Seq(Message)
      /\ Len(d) = Len(c) + 1
      /\ d[1] = m
      /\ \A i \in 1..Len(c) : d[i + 1] = c[i]
  BY <1>2, <1>3, <1>4, ConcatProperties
<1> HIDE DEF d
<1>6. \A i \in 1..Len(d) : i = 1 \/ (i - 1 \in 1..Len(c) /\ d[i] = c[i - 1])
  BY <1>4, <1>5
<1>7. \A i \in 1..Len(c) : c[i].label # l
  BY TransIffCarried
<1>8. OnePerLabel(d)
  <2> SUFFICES ASSUME NEW i \in 1..Len(d), NEW j \in 1..Len(d), d[i].label = d[j].label
               PROVE  i = j
    BY DEF OnePerLabel
  <2>1. CASE i = 1 /\ j = 1
    BY <2>1
  <2>2. CASE i # 1 /\ j # 1
    <3>1. i - 1 \in 1..Len(c) /\ j - 1 \in 1..Len(c) /\ c[i - 1].label = c[j - 1].label
      BY <1>6, <2>2
    <3>2. i - 1 = j - 1
      BY <3>1 DEF OnePerLabel
    <3> QED BY <1>5, <1>4, <3>2
  <2>3. CASE i = 1 /\ j # 1
    <3>1. j - 1 \in 1..Len(c) /\ c[j - 1].label = l
      BY <1>1, <1>5, <1>6, <2>3
    <3> QED BY <3>1, <1>7
  <2>4. CASE i # 1 /\ j = 1
    <3>1. i - 1 \in 1..Len(c) /\ c[i - 1].label = l
      BY <1>1, <1>5, <1>6, <2>4
    <3> QED BY <3>1, <1>7
  <2> QED BY <2>1, <2>2, <2>3, <2>4
<1>9. lookup_ch1(d, l) = v
  BY <1>1, <1>4, <1>5, <1>8, LookupFound
<1>10. ASSUME NEW k, k # l
       PROVE  lookup_ch1(d, k) = lookup_ch1(c, k)
  <2>1. CASE \E i \in 1..Len(c) : c[i].label = k
    <3>1. PICK i \in 1..Len(c) : c[i].label = k
      BY <2>1
    <3>2. i + 1 \in 1..Len(d) /\ d[i + 1] = c[i]
      BY <1>4, <1>5
    <3>3. lookup_ch1(d, k) = c[i].value
      BY <3>1, <3>2, <1>5, <1>8, LookupFound
    <3>4. lookup_ch1(c, k) = c[i].value
      BY <3>1, LookupFound
    <3> QED BY <3>3, <3>4
  <2>2. CASE \A i \in 1..Len(c) : c[i].label # k
    <3>1. \A i \in 1..Len(d) : d[i].label # k
      BY <2>2, <1>1, <1>5, <1>6, <1>10
    <3> QED BY <3>1, <2>2, LookupNone
  <2> QED BY <2>1, <2>2
<1> QED BY <1>5, <1>8, <1>9, <1>10 DEF d

(* What a receive does to the list.                                        *)
LEMMA RecvList ==
  ASSUME NEW c \in Seq(Message), OnePerLabel(c), NEW l \in Label,
         istrans_in_act(c, l)
  PROVE  LET v == lookup_ch1(c, l)
             d == delete(Msg(l, v), c)
         IN  /\ v \in Value
             /\ d \in Seq(Message)
             /\ OnePerLabel(d)
             /\ lookup_ch1(d, l) = Nil
             /\ \A k : k # l => lookup_ch1(d, k) = lookup_ch1(c, k)
<1>1. PICK i \in 1..Len(c) : c[i].label = l
  BY TransIffCarried
<1> DEFINE d == RemoveAt(c, i)
<1>2. c[i] \in Message
  BY ElementOfSeq
<1>3. lookup_ch1(c, l) = c[i].value
  BY <1>1, LookupFound
<1>4. Msg(l, lookup_ch1(c, l)) = c[i]
  BY <1>1, <1>2, <1>3 DEF Msg, Message
<1>5. delete(Msg(l, lookup_ch1(c, l)), c) = d
  BY <1>4, DeleteFound
<1>6. Len(c) \in Nat
  BY LenProperties
<1>7. /\ d \in Seq(Message)
      /\ Len(d) = Len(c) - 1
      /\ \A j \in 1..Len(d) : d[j] = IF j < i THEN c[j] ELSE c[j + 1]
  BY RemoveAtProperties
<1> HIDE DEF d
<1>8. ASSUME NEW j \in 1..Len(d)
      PROVE  \E n \in 1..Len(c) : n # i /\ d[j] = c[n] /\ n = IF j < i THEN j ELSE j + 1
  BY <1>6, <1>7
<1>9. OnePerLabel(d)
  BY <1>6, <1>7, <1>8 DEF OnePerLabel
<1>10. lookup_ch1(d, l) = Nil
  <2>1. \A j \in 1..Len(d) : d[j].label # l
    BY <1>1, <1>8 DEF OnePerLabel
  <2> QED BY <2>1, LookupNone
<1>11. ASSUME NEW k, k # l
       PROVE  lookup_ch1(d, k) = lookup_ch1(c, k)
  <2>1. CASE \E n \in 1..Len(c) : c[n].label = k
    <3>1. PICK n \in 1..Len(c) : c[n].label = k
      BY <2>1
    <3>2. n # i
      BY <3>1, <1>1, <1>11
    <3>3. PICK j \in 1..Len(d) : d[j] = c[n]
      <4>1. CASE n < i
        BY <4>1, <1>6, <1>7
      <4>2. CASE n > i
        <5>1. n - 1 \in 1..Len(d) /\ ~(n - 1 < i) /\ (n - 1) + 1 = n
          BY <4>2, <1>6, <1>7
        <5> QED BY <5>1, <1>7
      <4> QED BY <4>1, <4>2, <3>2
    <3>4. lookup_ch1(d, k) = c[n].value
      BY <3>1, <3>3, <1>7, <1>9, LookupFound
    <3>5. lookup_ch1(c, k) = c[n].value
      BY <3>1, LookupFound
    <3> QED BY <3>4, <3>5
  <2>2. CASE \A n \in 1..Len(c) : c[n].label # k
    <3>1. \A j \in 1..Len(d) : d[j].label # k
      BY <2>2, <1>8
    <3> QED BY <3>1, <2>2, LookupNone
  <2> QED BY <2>1, <2>2
<1> QED BY <1>2, <1>3, <1>5, <1>7, <1>9, <1>10, <1>11 DEF Message

-----------------------------------------------------------------------------
(* The operators that Processes shares with Evaluator.                     *)
LEMMA SameExpressions == Abstract!Expression = Expression /\ Abstract!Env = Env
BY DEF Expression, Abstract!Expression, ValueExp, Abstract!ValueExp, ValueTo, Abstract!ValueTo,
       Valued, Abstract!Valued, ExpressionTo, Abstract!ExpressionTo, Built, Abstract!Built,
       Hole, Abstract!Hole, Env, Abstract!Env, Outer, Abstract!Outer

LEMMA SameLeaves ==
  ASSUME NEW e, NEW en, NEW i
  PROVE  Abstract!Leaves(e, en, i) = Leaves(e, en, i)
BY DEF Leaves, Abstract!Leaves,
       Expression, Abstract!Expression, ValueExp, Abstract!ValueExp, ValueTo, Abstract!ValueTo,
       Valued, Abstract!Valued, ExpressionTo, Abstract!ExpressionTo, Built, Abstract!Built,
       Hole, Abstract!Hole, Env, Abstract!Env, Outer, Abstract!Outer

LEMMA SameLabels ==
  ASSUME NEW l
  PROVE  Abstract!isouter_action(l) = isouter_action(l)
BY DEF isouter_action, Abstract!isouter_action, Outer, Abstract!Outer

LEMMA SameAborts ==
  ASSUME NEW n
  PROVE  Abstract!isabort(n) = isabort(n)
BY DEF isabort, Abstract!isabort

LEMMA SameTestsAt ==
  ASSUME NEW unfolded, NEW full
  PROVE  Abstract!Tests(unfolded, full) = Tests(unfolded, full)
BY DEF Tests, Abstract!Tests, derivatives1, Abstract!derivatives1,
       isouter_action, Abstract!isouter_action, isabort, Abstract!isabort, isstop, Abstract!isstop,
       isprimagnt, Abstract!isprimagnt,
       Expression, Abstract!Expression, ValueExp, Abstract!ValueExp, ValueTo, Abstract!ValueTo,
       Valued, Abstract!Valued, ExpressionTo, Abstract!ExpressionTo, Built, Abstract!Built,
       Hole, Abstract!Hole, Env, Abstract!Env, Outer, Abstract!Outer

LEMMA SameSearch ==
  ASSUME NEW s, NEW x
  PROVE  Abstract!SelectInSeq(s, LAMBDA p : p.var = x) = SelectInSeq(s, LAMBDA p : p.var = x)
BY DEF SelectInSeq, Abstract!SelectInSeq, Min, Abstract!Min

LEMMA SameLookup ==
  ASSUME NEW x, NEW en
  PROVE  Abstract!lookup1(x, en) = lookup1(x, en)
BY DEF lookup1, Abstract!lookup1, SelectInSeq, Abstract!SelectInSeq, Min, Abstract!Min

LEMMA SameValues ==
  ASSUME NEW e, NEW en
  PROVE  Abstract!evalval(e, en) = evalval(e, en)
BY DEF evalval, Abstract!evalval, lookup1, Abstract!lookup1,
       SelectInSeq, Abstract!SelectInSeq, Min, Abstract!Min,
       ValueExp, Abstract!ValueExp, ValueTo, Abstract!ValueTo, Valued, Abstract!Valued

LEMMA SameLists ==
  ASSUME NEW es, NEW en
  PROVE  Abstract!evalval_ls(es, en) = evalval_ls(es, en)
<1> DEFINE v == [i \in DOMAIN es |-> evalval(es[i], en)]
           w == [i \in DOMAIN es |-> Abstract!evalval(es[i], en)]
<1>1. v = w
  BY SameValues
<1> HIDE DEF v, w
<1>2. Abstract!Range(w) = Range(v)
  BY <1>1 DEF Range, Abstract!Range
<1> QED BY <1>1, <1>2 DEF evalval_ls, Abstract!evalval_ls, v, w

LEMMA SameCardinality ==
  ASSUME NEW S
  PROVE  Abstract!Cardinality(S) = Cardinality(S)
BY DEF Cardinality, Abstract!Cardinality

LEMMA SameReachable ==
  ASSUME NEW en
  PROVE  Abstract!Reachable(en) = Reachable(en)
<1> DEFINE A == {p \in Abstract!Range(en) : Abstract!lookup1(p.var, en) = p.val}
           B == {p \in Range(en) : lookup1(p.var, en) = p.val}
<1>1. A = B
  BY SameLookup DEF Range, Abstract!Range
<1> HIDE DEF A, B
<1>2. Abstract!SetToSeq(B) = SetToSeq(B)
  BY SameCardinality DEF SetToSeq, Abstract!SetToSeq, IsInjective, Abstract!IsInjective
<1> QED BY <1>1, <1>2 DEF Reachable, Abstract!Reachable, A, B

LEMMA SameBindings ==
  ASSUME NEW xs, NEW vs, NEW en
  PROVE  Abstract!n_boundls(xs, vs, en) = n_boundls(xs, vs, en)
BY SameReachable DEF n_boundls, Abstract!n_boundls, Reverse, Abstract!Reverse

LEMMA SameTests ==
  ASSUME NEW e, NEW full
  PROVE  Abstract!derivatives(e, full) = derivatives(e, full)
<1> DEFINE f == [x \in Expression |-> "diverged"]
           U(n, g) == Tests(IF n = 0 THEN f ELSE g[n - 1], full)
           V(n, g) == Abstract!Tests(IF n = 0 THEN f ELSE g[n - 1], full)
           u == CHOOSE g : g = [n \in Nat |-> U(n, g)]
           v == CHOOSE g : g = [n \in Nat |-> V(n, g)]
<1>1. \A n, g : U(n, g) = V(n, g)
  BY SameTestsAt
<1> HIDE DEF U, V
<1>2. u = v
  BY <1>1
<1>3. derivatives(e, full) = u[Cardinality(DOMAIN Procs)][e]
  BY DEF derivatives, u, U, f
<1>4. Abstract!derivatives(e, full) = v[Cardinality(DOMAIN Procs)][e]
  BY SameExpressions, SameCardinality DEF Abstract!derivatives, v, V, f
<1> QED BY <1>2, <1>3, <1>4

-----------------------------------------------------------------------------
(* The arguments of eval(): an expression without holes, and a             *)
(* continuation with one hole, beside closures only.                       *)
Placed(e, en, c) == e \in AgentExp /\ en \in Env /\ c \in Expression /\ Context[c]

Row(e, en, c) == IF c = Hole THEN Leaves(e, en, <<>>) ELSE Leaves(c, en, Leaves(e, en, <<>>))

LEMMA AgentIs ==
  ASSUME NEW e \in AgentExp
  PROVE  e \in Expression /\ NoHole[e] /\ e # Hole /\ e.op # "NULL"
<1>1. e \in Expression /\ NoHole[e]
  BY DEF AgentExp
<1>2. e # Hole
  BY <1>1, NoHoleAt
<1> QED BY <1>1, <1>2, HoleOp

LEMMA AgentFrom ==
  ASSUME NEW e \in Expression, NoHole[e]
  PROVE  e \in AgentExp
BY DEF AgentExp

LEMMA HoleContext == Hole \in Expression /\ Context[Hole]
BY HoleIsExpression, ContextAt

LEMMA PrefixParts ==
  ASSUME NEW e \in AgentExp, e.op \in {"RECV", "SEND"}
  PROVE  e.body \in AgentExp /\ e.label \in Label \cup Outer
<1>1. e \in Expression /\ NoHole[e]
  BY AgentIs
<1>2. NoHole[e.body]
  BY <1>1, NoHoleAt
<1> QED BY <1>1, <1>2, Prefix1, AgentFrom

LEMMA BinaryAgents ==
  ASSUME NEW e \in AgentExp, e.op \in {"SUM", "COM"}
  PROVE  e.left \in AgentExp /\ e.right \in AgentExp
<1>1. e \in Expression /\ NoHole[e]
  BY AgentIs
<1>2. NoHole[e.left] /\ NoHole[e.right]
  BY <1>1, NoHoleAt
<1> QED BY <1>1, <1>2, Binary, AgentFrom

LEMMA BranchAgents ==
  ASSUME NEW e \in AgentExp, e.op = "IF"
  PROVE  e.then \in AgentExp /\ e.else \in AgentExp
<1>1. e \in Expression /\ NoHole[e]
  BY AgentIs
<1>2. NoHole[e.then] /\ NoHole[e.else]
  BY <1>1, NoHoleAt
<1> QED BY <1>1, <1>2, Conditional3, AgentFrom

LEMMA ClosureParts ==
  ASSUME NEW e \in AgentExp, e.op = "CLS"
  PROVE  e.body \in AgentExp /\ e.env \in Env
<1>1. e \in Expression /\ NoHole[e]
  BY AgentIs
<1>2. NoHole[e.body]
  BY <1>1, NoHoleAt
<1> QED BY <1>1, <1>2, Closure1, AgentFrom

LEMMA ListParts ==
  ASSUME NEW e \in Expression
  PROVE  /\ e.op = "RECV" => e.vars \in Seq(STRING)
         /\ e.op = "SEND" => e.vals \in Seq(ValueExp)
         /\ e.op = "CON" => e.args \in Seq(ValueExp)
BY ExpressionBuilt DEF Built, Hole

LEMMA RowIs ==
  ASSUME NEW e, NEW en, NEW c, Placed(e, en, c)
  PROVE  /\ Row(e, en, c) = Leaves(c, en, Leaves(e, en, <<>>))
         /\ Leaves(e, en, <<>>) \in Seq(Process)
<1>1. e \in Expression /\ NoHole[e] /\ en \in Env
  BY AgentIs DEF Placed
<1> QED BY <1>1, LeavesNoHole, LeavesHole DEF Row

(* The expression starts over with the whole.                              *)
LEMMA Returned ==
  ASSUME NEW e, NEW en, NEW c, Placed(e, en, c),
         NEW k, k # Hole, k \in Expression => NoHole[k], resume(k, c) \in Expression
  PROVE  /\ Placed(resume(k, c), en, Hole)
         /\ Row(resume(k, c), en, Hole) = Leaves(c, en, Leaves(k, en, <<>>))
<1>1. c \in Expression /\ Context[c] /\ en \in Env
  BY DEF Placed
<1>2. /\ k \in Expression
      /\ NoHole[k] => NoHole[resume(k, c)]
      /\ \A e1 \in Env : \A inside : Leaves(resume(k, c), e1, inside) = Leaves(c, e1, Leaves(k, e1, inside))
  BY <1>1, ResumeAgent
<1>3. resume(k, c) \in AgentExp
  BY <1>2, AgentFrom
<1>4. Placed(resume(k, c), en, Hole)
  BY <1>1, <1>3, HoleContext DEF Placed
<1>5. Row(resume(k, c), en, Hole) = Leaves(resume(k, c), en, <<>>)
  BY DEF Row
<1> QED BY <1>1, <1>2, <1>4, <1>5

LEMMA Closing ==
  ASSUME NEW b \in AgentExp, NEW en1 \in Env
  PROVE  /\ make_cls(b, en1) # Hole
         /\ make_cls(b, en1) \in Expression =>
              /\ Suspended[make_cls(b, en1)] /\ NoHole[make_cls(b, en1)]
              /\ \A en \in Env : Leaves(make_cls(b, en1), en, <<>>) = Leaves(b, en1, <<>>)
<1>1. b \in Expression /\ NoHole[b] /\ b # Hole
  BY AgentIs
<1>2. make_cls(b, en1) # Hole
  BY <1>1 DEF make_cls, CLS, Hole
<1>3. ASSUME make_cls(b, en1) \in Expression
      PROVE  /\ Suspended[make_cls(b, en1)]
             /\ \A ex \in Env : \A inside : Leaves(make_cls(b, en1), ex, inside) = Leaves(b, en1, <<>>)
  BY <1>1, <1>3, MakeClsIs
<1>4. make_cls(b, en1) \in Expression => NoHole[make_cls(b, en1)]
  BY <1>3, SuspendedNoHole
<1> QED BY <1>2, <1>3, <1>4

(* A closure takes the place of the expression, and eval() starts over.    *)
LEMMA ReturnedClosed ==
  ASSUME NEW e, NEW en, NEW c, Placed(e, en, c),
         NEW b \in AgentExp, NEW en1 \in Env, resume(make_cls(b, en1), c) \in Expression
  PROVE  /\ Placed(resume(make_cls(b, en1), c), en, Hole)
         /\ Row(resume(make_cls(b, en1), c), en, Hole) = Leaves(c, en, Leaves(b, en1, <<>>))
<1> DEFINE k == make_cls(b, en1)
<1>1. k # Hole /\ (k \in Expression => NoHole[k])
  BY Closing
<1>2. c \in Expression /\ Context[c] /\ en \in Env
  BY DEF Placed
<1> HIDE DEF k
<1>3. resume(k, c) \in Expression
  BY DEF k
<1>4. k \in Expression
  BY <1>1, <1>2, <1>3, ResumeAgent
<1>5. /\ Placed(resume(k, c), en, Hole)
      /\ Row(resume(k, c), en, Hole) = Leaves(c, en, Leaves(k, en, <<>>))
  BY <1>1, <1>3, Returned
<1>6. Leaves(k, en, <<>>) = Leaves(b, en1, <<>>)
  BY <1>2, <1>4, Closing DEF k
<1> QED BY <1>5, <1>6 DEF k

(* After an output the turn goes to the process beside the sender.         *)
LEMMA Switched ==
  ASSUME NEW e, NEW en, NEW c, Placed(e, en, c), c # Hole, NEW b \in AgentExp,
         make_switch(make_cls(b, en), c) \in Expression
  PROVE  /\ Placed(resume(Hole, c), en, make_switch(make_cls(b, en), c))
         /\ Row(resume(Hole, c), en, make_switch(make_cls(b, en), c)) = Leaves(c, en, Leaves(b, en, <<>>))
<1> DEFINE k == make_cls(b, en)
           s == make_switch(k, c)
           r == resume(Hole, c)
<1>1. c \in Expression /\ Context[c] /\ en \in Env
  BY DEF Placed
<1>2. k # Hole /\ (k \in Expression => Suspended[k] /\ NoHole[k] /\ Leaves(k, en, <<>>) = Leaves(b, en, <<>>))
  BY <1>1, Closing
<1> HIDE DEF k
<1>3. s \in Expression
  BY DEF k
<1>4. /\ k \in Expression
      /\ Context[s]
      /\ r \in Expression /\ Suspended[r]
      /\ Leaves(s, en, Leaves(r, en, <<>>)) = Leaves(c, en, Leaves(k, en, <<>>))
  BY <1>1, <1>2, <1>3, SwitchIs
<1> HIDE DEF r, s
<1>5. r \in AgentExp
  BY <1>4, SuspendedNoHole, AgentFrom
<1>6. Placed(r, en, s)
  BY <1>1, <1>3, <1>4, <1>5 DEF Placed
<1>7. Row(r, en, s) = Leaves(s, en, Leaves(r, en, <<>>))
  BY <1>6, RowIs
<1>8. Row(r, en, s) = Leaves(c, en, Leaves(b, en, <<>>))
  BY <1>2, <1>4, <1>7
<1> QED BY <1>6, <1>8 DEF r, s, k

-----------------------------------------------------------------------------
(* A row of processes, one of which is replaced by a row.                  *)
Replaced(p, i, s) == SubSeq(p, 1, i - 1) \o s \o SubSeq(p, i + 1, Len(p))

Beside(p, i, l, x, r) == p = (l \o <<x>>) \o r /\ i = Len(l) + 1

LEMMA OneReplaced ==
  ASSUME NEW S, NEW l \in Seq(S), NEW x \in S, NEW r \in Seq(S), NEW s \in Seq(S),
         NEW p, NEW i, Beside(p, i, l, x, r)
  PROVE  /\ p \in Seq(S) /\ i \in 1 .. Len(p) /\ p[i] = x
         /\ Replaced(p, i, s) = (l \o s) \o r
<1> DEFINE o == <<x>>
           n == Len(l)
<1>1. o \in Seq(S) /\ Len(o) = 1 /\ o[1] = x
  OBVIOUS
<1>0. p = (l \o o) \o r /\ i = n + 1
  BY DEF Beside
<1> HIDE DEF o
<1>2. n \in Nat /\ Len(r) \in Nat
  OBVIOUS
<1>3. /\ l \o o \in Seq(S) /\ Len(l \o o) = n + Len(o)
      /\ \A j \in 1 .. n + Len(o) : (l \o o)[j] = IF j <= n THEN l[j] ELSE o[j - n]
  BY <1>1, ConcatProperties
<1> DEFINE q == l \o o
<1> HIDE DEF q
<1>4. q \in Seq(S) /\ Len(q) = n + 1 /\ q[n + 1] = x /\ (\A j \in 1 .. n : q[j] = l[j])
  <2>1. /\ q \in Seq(S) /\ Len(q) = n + 1
        /\ \A j \in 1 .. n + 1 : q[j] = IF j <= n THEN l[j] ELSE o[j - n]
    <3>1. Len(o) = 1
      BY <1>1
    <3> HIDE DEF n
    <3> QED BY <3>1, <1>3 DEF q
  <2> HIDE DEF n
  <2>2. n + 1 \in 1 .. n + 1 /\ ~(n + 1 <= n) /\ (n + 1) - n = 1
    BY <1>2
  <2>3. q[n + 1] = x
    BY <1>1, <2>1, <2>2
  <2>4. \A j \in 1 .. n : j \in 1 .. n + 1 /\ j <= n
    BY <1>2
  <2> QED BY <2>1, <2>3, <2>4
<1> DEFINE m == Len(r)
<1>5. /\ p \in Seq(S) /\ Len(p) = n + 1 + m /\ p[n + 1] = x
      /\ \A j \in 1 .. n : p[j] = l[j]
      /\ \A j \in 1 .. m : p[n + 1 + j] = r[j]
  <2>0. p = q \o r
    BY <1>0 DEF q
  <2>1. /\ p \in Seq(S) /\ Len(p) = Len(q) + m
        /\ \A j \in 1 .. Len(q) + m : p[j] = IF j <= Len(q) THEN q[j] ELSE r[j - Len(q)]
    <3>1. /\ q \o r \in Seq(S) /\ Len(q \o r) = Len(q) + Len(r)
          /\ \A j \in 1 .. Len(q) + Len(r) : (q \o r)[j] = IF j <= Len(q) THEN q[j] ELSE r[j - Len(q)]
      BY <1>4, ConcatProperties
    <3> QED BY <2>0, <3>1
  <2> HIDE DEF n, m
  <2>2. /\ Len(p) = n + 1 + m
        /\ \A j \in 1 .. n + 1 + m : p[j] = IF j <= n + 1 THEN q[j] ELSE r[j - (n + 1)]
    BY <1>4, <2>1
  <2>3. n \in Nat /\ m \in Nat
    BY <1>2 DEF m
  <2>4. \A j \in 1 .. n + 1 : j \in 1 .. n + 1 + m /\ j <= n + 1
    BY <2>3
  <2>5. \A j \in 1 .. n + 1 : p[j] = q[j]
    BY <2>2, <2>4
  <2>6. n + 1 \in 1 .. n + 1 /\ \A j \in 1 .. n : j \in 1 .. n + 1
    BY <2>3
  <2>7. \A j \in 1 .. m : n + 1 + j \in 1 .. n + 1 + m /\ ~(n + 1 + j <= n + 1) /\ (n + 1 + j) - (n + 1) = j
    BY <2>3
  <2>8. \A j \in 1 .. m : p[n + 1 + j] = r[j]
    BY <2>2, <2>7
  <2> QED BY <1>4, <2>1, <2>2, <2>5, <2>6, <2>8
<1> HIDE DEF n
<1>6. i \in 1 .. Len(p) /\ p[i] = x
  BY <1>0, <1>2, <1>5
<1>7. SubSeq(p, 1, i - 1) = l
  <2>1. n \in 0 .. Len(p)
    BY <1>2, <1>5
  <2>2. /\ SubSeq(p, 1, n) \in Seq(S) /\ Len(SubSeq(p, 1, n)) = n
        /\ \A j \in 1 .. n : SubSeq(p, 1, n)[j] = p[j]
    BY <1>5, <2>1, InitialSegment
  <2> DEFINE t == SubSeq(p, 1, n)
  <2>3. i - 1 = n
    BY <1>0, <1>2
  <2> HIDE DEF t
  <2>4. t \in Seq(S) /\ Len(t) = n /\ \A j \in 1 .. n : t[j] = p[j]
    BY <2>2 DEF t
  <2>5. Len(l) = n
    BY DEF n
  <2>6. \A j \in 1 .. n : t[j] = l[j]
    BY <1>5, <2>4
  <2>7. t = l
    BY <2>4, <2>5, <2>6
  <2> QED BY <2>3, <2>7 DEF t
<1>8. SubSeq(p, i + 1, Len(p)) = r
  <2>1. i \in 0 .. Len(p) /\ Len(p) - i = Len(r)
    BY <1>0, <1>2, <1>5
  <2>2. /\ SubSeq(p, i + 1, Len(p)) \in Seq(S)
        /\ Len(SubSeq(p, i + 1, Len(p))) = Len(p) - i
        /\ \A j \in 1 .. Len(p) - i : SubSeq(p, i + 1, Len(p))[j] = p[i + j]
    BY <1>5, <2>1, Suffix
  <2> DEFINE t == SubSeq(p, i + 1, Len(p))
  <2> HIDE DEF t
  <2>4. t \in Seq(S) /\ Len(t) = Len(r) /\ \A j \in 1 .. Len(r) : t[j] = p[i + j]
    BY <2>1, <2>2 DEF t
  <2>6. \A j \in 1 .. Len(r) : t[j] = r[j]
    BY <1>0, <1>5, <2>4
  <2>7. t = r
    BY <2>4, <2>6
  <2> QED BY <2>7 DEF t
<1>9. Replaced(p, i, s) = (l \o s) \o r
  BY <1>7, <1>8 DEF Replaced
<1> QED BY <1>5, <1>6, <1>9

(* What an expression that is one process becomes, beside the others.      *)
LEMMA OneMoved ==
  ASSUME NEW e, NEW en, NEW c, Placed(e, en, c), e.op \notin {"COM", "CLS"},
         NEW e1 \in AgentExp, NEW en1 \in Env
  PROVE  \E i \in 1 .. Len(Row(e, en, c)) :
           /\ Row(e, en, c)[i] = [exp |-> e, env |-> en]
           /\ Leaves(c, en, Leaves(e1, en1, <<>>)) = Replaced(Row(e, en, c), i, Leaves(e1, en1, <<>>))
<1> DEFINE x == [exp |-> e, env |-> en]
           s == Leaves(e1, en1, <<>>)
<1>1. /\ e \in Expression /\ e.op \notin {"NULL", "COM", "CLS"} /\ en \in Env
      /\ c \in Expression /\ Context[c] /\ e1 \in Expression /\ NoHole[e1]
  BY AgentIs DEF Placed
<1>2. PICK l \in Seq(Process), r \in Seq(Process) : Around(c, l, r)
  BY <1>1, ContextAround
<1>3. x \in Process
  BY <1>1 DEF Process
<1>4. s \in Seq(Process)
  BY <1>1, LeavesNoHole
<1>5. Row(e, en, c) = Leaves(c, en, Leaves(e, en, <<>>)) /\ Leaves(e, en, <<>>) \in Seq(Process)
  BY RowIs
<1>6. Leaves(e, en, <<>>) = <<x>>
  BY <1>1, LeavesOther
<1> HIDE DEF x, s
<1>7. Row(e, en, c) = (l \o <<x>>) \o r
  BY <1>1, <1>2, <1>5, <1>6 DEF Around
<1>8. Leaves(c, en, s) = (l \o s) \o r
  BY <1>1, <1>2, <1>4 DEF Around
<1> DEFINE p == (l \o <<x>>) \o r
           i == Len(l) + 1
<1> HIDE DEF p, i
<1>11. Beside(p, i, l, x, r)
  BY DEF p, i, Beside
<1>13. l \in Seq(Process) /\ r \in Seq(Process)
  OBVIOUS
<1> DEFINE P == Process
<1> HIDE DEF P
<1>14. /\ l \in Seq(P) /\ r \in Seq(P) /\ x \in P /\ s \in Seq(P)
  BY <1>3, <1>4, <1>13 DEF P
<1>9. p \in Seq(P) /\ i \in 1 .. Len(p) /\ p[i] = x /\ Replaced(p, i, s) = (l \o s) \o r
  BY <1>14, <1>11, OneReplaced
<1>10. Row(e, en, c) = p
  BY <1>7 DEF p
<1> QED BY <1>8, <1>9, <1>10 DEF x, s

-----------------------------------------------------------------------------
(* The inductive invariant.                                                *)

(* What eval() is called with: an expression without holes, a continuation *)
(* with one hole, which has nothing but closures beside it.                *)
Called == Placed(exp, env, cont)

(* The channel is NIL after an outer input; else it is a list that holds   *)
(* one message of a label.                                                 *)
ChannelOK == ch # Nil => ch \in Seq(Message) /\ OnePerLabel(ch)

(* eval() returns the expression of a whole program that has no derivative. *)
Settled == status = "returned" => cont = Hole /\ istrans(exp) = "no"

IInv == Called /\ ChannelOK /\ Settled

(* What a step makes of the arguments, apart from the channel.             *)
Moved(e1, en1, c1) == exp' = e1 /\ env' = en1 /\ cont' = c1

LEMMA CallKeeps ==
  ASSUME NEW e1, NEW en1, NEW c1, Placed(e1, en1, c1), Call(e1, en1, c1), status = "running"
  PROVE  Called' /\ Settled' /\ procs' = Row(e1, en1, c1)
<1>1. exp' = e1 /\ env' = en1 /\ cont' = c1 /\ status' = "running"
  BY DEF Call
<1>2. Called'
  BY <1>1 DEF Called
<1>3. Settled'
  BY <1>1 DEF Settled
<1>4. procs' = Row(e1, en1, c1)
  BY <1>1 DEF procs, Row
<1> QED BY <1>2, <1>3, <1>4

LEMMA ProcsIs == procs = Row(exp, env, cont)
BY DEF procs, Row

LEMMA InitIInv ==
  ASSUME Init
  PROVE  IInv
<1>1. exp \in AgentExp /\ env = <<>> /\ cont = Hole /\ ch = <<>> /\ status = "running"
  BY ProgramsAssumption DEF Init
<1>2. <<>> \in Env
  BY DEF Env
<1>3. Called
  BY <1>1, <1>2, HoleContext DEF Called, Placed
<1>4. ChannelOK
  BY <1>1 DEF ChannelOK, OnePerLabel
<1>5. Settled
  BY <1>1 DEF Settled
<1> QED BY <1>3, <1>4, <1>5 DEF IInv

(* The values of an output, and the environments that an input makes.      *)
LEMMA OutputTyped ==
  ASSUME Called, exp.op = "SEND", Output # Nil
  PROVE  Output \in Value
<1>1. exp \in Expression /\ env \in Env
  BY AgentIs DEF Called, Placed
<1>2. exp.vals \in Seq(ValueExp)
  BY <1>1, ListParts
<1>3. evalval_ls(exp.vals, env) \in Seq(Int) \cup {Nil}
  BY <1>1, <1>2, EvalListTyped
<1> QED BY <1>3 DEF Output, Value

LEMMA InputTyped ==
  ASSUME Called, exp.op = "RECV", NEW v \in Value, n_boundls(exp.vars, v, env) # Nil
  PROVE  n_boundls(exp.vars, v, env) \in Env
<1>1. exp \in Expression /\ env \in Env
  BY AgentIs DEF Called, Placed
<1>2. exp.vars \in Seq(STRING)
  BY <1>1, ListParts
<1>3. v \in Seq(Int) \cup {Nil}
  BY DEF Value
<1>4. n_boundls(exp.vars, v, env) \in Env \cup {Nil}
  BY <1>1, <1>2, <1>3, BoundlsTyped
<1> QED BY <1>4

LEMMA ArgumentsTyped ==
  ASSUME Called, exp.op = "CON", Arguments # Nil
  PROVE  /\ exp.name \in DOMAIN Procs /\ Procs[exp.name].body \in AgentExp
         /\ Arguments = n_boundls(Procs[exp.name].params, evalval_ls(exp.args, env), env)
         /\ Arguments \in Env
<1>1. exp \in Expression /\ env \in Env
  BY AgentIs DEF Called, Placed
<1>2. exp.name \in DOMAIN Procs /\ Arguments = n_boundls(Procs[exp.name].params, evalval_ls(exp.args, env), env)
  BY DEF Arguments
<1>3. Procs[exp.name].body \in AgentExp /\ Procs[exp.name].params \in Seq(STRING)
  BY <1>2, TermsAssumption
<1>4. exp.args \in Seq(ValueExp)
  BY <1>1, ListParts
<1> DEFINE vs == evalval_ls(exp.args, env)
           xs == Procs[exp.name].params
<1>5. vs \in Seq(Int) \cup {Nil}
  BY <1>1, <1>4, EvalListTyped
<1> HIDE DEF vs
<1>6. n_boundls(xs, vs, env) \in Env \cup {Nil}
  BY <1>1, <1>3, <1>5, BoundlsTyped
<1>7. Arguments = n_boundls(xs, vs, env)
  BY <1>2 DEF vs
<1> QED BY <1>2, <1>3, <1>6, <1>7

-----------------------------------------------------------------------------
(* What the branches of eval() make of the row of processes.               *)
Became(e1, en1) ==
  \E i \in 1 .. Len(procs) : procs[i] = [exp |-> exp, env |-> env] /\ Abstract!Become(i, e1, en1)

LEMMA BecameIs ==
  ASSUME Called, exp.op \notin {"COM", "CLS"}, NEW e1 \in AgentExp, NEW en1 \in Env,
         procs' = Leaves(cont, env, Leaves(e1, en1, <<>>))
  PROVE  Became(e1, en1)
<1> DEFINE r == Row(exp, env, cont)
           s == Leaves(e1, en1, <<>>)
<1>1. \E i \in 1 .. Len(r) : r[i] = [exp |-> exp, env |-> env] /\ Leaves(cont, env, s) = Replaced(r, i, s)
  BY OneMoved DEF Called
<1>2. procs = r
  BY ProcsIs
<1>3. Abstract!Leaves(e1, en1, <<>>) = s
  BY SameLeaves
<1> HIDE DEF r, s
<1>4. procs' = Leaves(cont, env, s)
  BY DEF s
<1> QED BY <1>1, <1>2, <1>3, <1>4 DEF Became, Abstract!Become, Replaced

LEMMA AfterSendIs ==
  ASSUME Called, exp.op = "SEND", status = "running", AfterSend
  PROVE  Called' /\ Settled' /\ procs' = Leaves(cont, env, Leaves(exp.body, env, <<>>))
<1>1. exp.body \in AgentExp /\ env \in Env /\ Placed(exp, env, cont) /\ cont \in Expression
  BY PrefixParts DEF Called, Placed
<1>2. CASE cont # Hole
  <2> DEFINE r == resume(Hole, cont)
             c1 == make_switch(make_cls(exp.body, env), cont)
  <2>1. Call(r, env, c1)
    BY <1>2 DEF AfterSend
  <2>2. c1 \in Expression
    BY <2>1 DEF Call
  <2>3. /\ Placed(r, env, c1)
        /\ Row(r, env, c1) = Leaves(cont, env, Leaves(exp.body, env, <<>>))
    BY <1>1, <1>2, <2>2, Switched
  <2> HIDE DEF r, c1
  <2> QED BY <2>1, <2>3, CallKeeps
<1>3. CASE cont = Hole
  <2> DEFINE k == IF isouter_action(exp.label) THEN make_cls(exp.body, env) ELSE exp.body
  <2>1. Call(k, env, Hole)
    BY <1>3 DEF AfterSend
  <2>2. k \in Expression
    BY <2>1 DEF Call
  <2>3. NoHole[k] /\ Leaves(k, env, <<>>) = Leaves(exp.body, env, <<>>)
    BY <1>1, <2>2, Closing, AgentIs
  <2> HIDE DEF k
  <2>4. k \in AgentExp
    BY <2>2, <2>3, AgentFrom
  <2>5. Placed(k, env, Hole)
    BY <1>1, <2>4, HoleContext DEF Placed
  <2>6. Row(k, env, Hole) = Leaves(exp.body, env, <<>>)
    BY <2>3 DEF Row
  <2>7. Leaves(cont, env, Leaves(exp.body, env, <<>>)) = Leaves(exp.body, env, <<>>)
    BY <1>1, <1>3, LeavesHole
  <2>8. Called' /\ Settled' /\ procs' = Row(k, env, Hole)
    BY <2>1, <2>5, CallKeeps
  <2> QED BY <2>6, <2>7, <2>8
<1> QED BY <1>2, <1>3

(* The branches that put a closure back.                                   *)
LEMMA ClosedIs ==
  ASSUME Called, status = "running", NEW b \in AgentExp, NEW en1 \in Env,
         Call(resume(make_cls(b, en1), cont), env, Hole)
  PROVE  Called' /\ Settled' /\ procs' = Leaves(cont, env, Leaves(b, en1, <<>>))
<1> DEFINE k == resume(make_cls(b, en1), cont)
<1>1. k \in Expression
  BY DEF Call
<1>2. Placed(k, env, Hole) /\ Row(k, env, Hole) = Leaves(cont, env, Leaves(b, en1, <<>>))
  BY <1>1, ReturnedClosed DEF Called
<1> HIDE DEF k
<1>3. Call(k, env, Hole)
  BY DEF k
<1> QED BY <1>2, <1>3, CallKeeps

(* The branches that put an expression back as it is.                      *)
LEMMA ReturnedIs ==
  ASSUME Called, status = "running", NEW b \in AgentExp, Call(resume(b, cont), env, Hole)
  PROVE  Called' /\ Settled' /\ procs' = Leaves(cont, env, Leaves(b, env, <<>>))
<1> DEFINE k == resume(b, cont)
<1>1. k \in Expression
  BY DEF Call
<1>0. b # Hole /\ (b \in Expression => NoHole[b])
  BY AgentIs
<1>2. Placed(k, env, Hole) /\ Row(k, env, Hole) = Leaves(cont, env, Leaves(b, env, <<>>))
  BY <1>0, <1>1, Returned DEF Called
<1> HIDE DEF k
<1>3. Call(k, env, Hole)
  BY DEF k
<1> QED BY <1>2, <1>3, CallKeeps

(* The branches that leave the continuation as it is.                      *)
LEMMA EnteredIs ==
  ASSUME Called, status = "running", NEW b \in AgentExp, NEW en1 \in Env, Call(b, en1, cont)
  PROVE  Called' /\ Settled' /\ procs' = Row(b, en1, cont)
<1>1. Placed(b, en1, cont)
  BY DEF Called, Placed
<1> QED BY <1>1, CallKeeps

-----------------------------------------------------------------------------
(* One lemma for each action: it keeps the invariant, and it is a step of  *)
(* the abstract specification or changes nothing in it.                    *)
Slot == [l \in Label |-> IF ch = Nil THEN Nil ELSE lookup_ch1(ch, l)]

Unmoved == UNCHANGED procs /\ UNCHANGED Slot /\ UNCHANGED shown /\ UNCHANGED interactive

Good == IInv' /\ (Unmoved \/ Abstract!Next)

LEMMA IstransPrefix ==
  ASSUME NEW e \in Expression, e.op \in {"RECV", "SEND"}
  PROVE  istrans(e) = derivatives1(e.op, e.label, Full)
BY TestPrefix, DerivativesIs DEF istrans

LEMMA IstransBinary ==
  ASSUME NEW e \in Expression, e.op \in {"SUM", "COM"}
  PROVE  istrans(e) = IF istrans(e.left) = "no" THEN istrans(e.right) ELSE istrans(e.left)
<1> DEFINE n == Cardinality(DOMAIN Procs)
<1>1. n \in Nat /\ \A x : derivatives(x, Full) = Unfolding(Full)[n][x]
  BY DerivativesIs
<1> HIDE DEF n
<1>2. \A x : istrans(x) = Unfolding(Full)[n][x]
  BY <1>1 DEF istrans
<1>3. Unfolding(Full)[n][e] = IF Unfolding(Full)[n][e.left] = "no"
                              THEN Unfolding(Full)[n][e.right] ELSE Unfolding(Full)[n][e.left]
  BY <1>1, TestBinary
<1> QED BY <1>2, <1>3

LEMMA InnerLabel ==
  ASSUME Called, exp.op \in {"RECV", "SEND"}, ~isouter_action(exp.label)
  PROVE  exp.label \in Label /\ istrans(exp) = IF ch = Nil THEN "fatal"
           ELSE IF (exp.op = "RECV") = istrans_in_act(ch, exp.label) THEN "yes" ELSE "no"
<1>1. exp.label \in Label \cup Outer /\ exp \in Expression
  BY PrefixParts, AgentIs DEF Called, Placed
<1>2. exp.label \in Label
  BY <1>1 DEF isouter_action
<1>3. istrans(exp) = derivatives1(exp.op, exp.label, Full)
  BY <1>1, IstransPrefix
<1>4. CASE ch = Nil
  <2>1. Full = Nil
    BY <1>4 DEF Full
  <2> QED BY <1>2, <1>3, <1>4, <2>1 DEF derivatives1
<1>5. CASE ch # Nil
  <2>1. Full = {l \in Label : istrans_in_act(ch, l)}
    BY <1>5 DEF Full
  <2>2. exp.label \in Full <=> istrans_in_act(ch, exp.label)
    BY <1>2, <2>1
  <2>3. Full # Nil
    BY <2>1, TermsAssumption
  <2>4. istrans_in_act(ch, exp.label) \in BOOLEAN
    BY DEF istrans_in_act
  <2>5. istrans(exp) = IF (exp.op = "RECV") = (exp.label \in Full) THEN "yes" ELSE "no"
    BY <1>3, <2>3 DEF derivatives1
  <2> QED BY <1>2, <1>5, <2>2, <2>4, <2>5
<1> QED BY <1>4, <1>5

(* The channel, when a step leaves it alone.                               *)
LEMMA SameChannel ==
  ASSUME IInv, Called', Settled', ch' = ch
  PROVE  IInv' /\ UNCHANGED Slot
<1>1. ChannelOK'
  BY DEF IInv, ChannelOK
<1>2. UNCHANGED Slot
  BY DEF Slot
<1> QED BY <1>1, <1>2 DEF IInv

LEMMA SendInnerStep ==
  ASSUME IInv, SendInner
  PROVE  Good
<1> DEFINE l == exp.label
           v == Output
<1>1. /\ Called /\ status = "running" /\ exp.op = "SEND" /\ ~isouter_action(l)
      /\ istrans(exp) = "yes" /\ v # Nil /\ ch' = n_bound_ch(ch, l, v)
      /\ AfterSend /\ shown' = shown
  BY DEF IInv, SendInner, Running
<1>2. interactive' = interactive
  BY <1>1 DEF AfterSend, Call
<1>3. Called' /\ Settled' /\ procs' = Leaves(cont, env, Leaves(exp.body, env, <<>>))
  BY <1>1, AfterSendIs
<1>4. exp.body \in AgentExp /\ env \in Env
  BY <1>1, PrefixParts DEF Called, Placed
<1>5. Became(exp.body, env)
  BY <1>1, <1>3, <1>4, BecameIs
<1>6. l \in Label /\ v \in Value
  BY <1>1, InnerLabel, OutputTyped
<1>7. ch # Nil /\ ~istrans_in_act(ch, l)
  BY <1>1, InnerLabel
<1>8. ch \in Seq(Message) /\ OnePerLabel(ch)
  BY <1>7 DEF IInv, ChannelOK
<1> HIDE DEF l, v
<1>9. /\ ch' \in Seq(Message) /\ OnePerLabel(ch') /\ lookup_ch1(ch', l) = v
      /\ \A k : k # l => lookup_ch1(ch', k) = lookup_ch1(ch, k)
  <2> DEFINE d == n_bound_ch(ch, l, v)
  <2>1. /\ d \in Seq(Message) /\ OnePerLabel(d) /\ lookup_ch1(d, l) = v
        /\ \A k : k # l => lookup_ch1(d, k) = lookup_ch1(ch, k)
    BY <1>6, <1>7, <1>8, SendList
  <2>2. ch' = d
    BY <1>1
  <2> HIDE DEF d
  <2> QED BY <2>1, <2>2
<1>10. IInv'
  BY <1>3, <1>9 DEF IInv, ChannelOK
<1>11. Slot[l] = Nil
  BY <1>6, <1>7 DEF Slot, istrans_in_act
<1>12. Slot' = [Slot EXCEPT ![l] = v]
  <2>1. ch' # Nil
    <3> DEFINE M == [label : Label \cup Outer, value : Seq(Int)]
    <3>1. Message \subseteq M
      BY DEF Message, Value
    <3>2. Nil \notin Seq(M)
      BY TermsAssumption
    <3> HIDE DEF M
    <3>3. ch' \in Seq(M)
      BY <1>9, <3>1
    <3> QED BY <3>2, <3>3
  <2>2. Slot' = [k \in Label |-> lookup_ch1(ch', k)]
    BY <2>1 DEF Slot
  <2>3. Slot = [k \in Label |-> lookup_ch1(ch, k)]
    BY <1>7 DEF Slot
  <2> QED BY <1>6, <1>9, <2>2, <2>3
<1>13. Abstract!Media!Write(l, v)
  BY <1>11, <1>12 DEF Abstract!Media!Write, Slot
<1>14. PICK i \in 1 .. Len(procs) : procs[i] = [exp |-> exp, env |-> env] /\ Abstract!Become(i, exp.body, env)
  BY <1>5 DEF Became
<1>15. procs[i].exp = exp /\ procs[i].env = env
  BY <1>14
<1>16. Abstract!evalval_ls(exp.vals, env) = v /\ ~Abstract!isouter_action(l)
  BY <1>1, SameLists, SameLabels DEF Output, v, l
<1>17. Abstract!Send(i)
  BY <1>1, <1>2, <1>13, <1>14, <1>15, <1>16 DEF Abstract!Send, l
<1> QED BY <1>10, <1>14, <1>17 DEF Good, Abstract!Next, Abstract!Step

LEMMA SendOuterStep ==
  ASSUME IInv, SendOuter
  PROVE  Good
<1> DEFINE v == Output
<1>1. /\ Called /\ status = "running" /\ exp.op = "SEND" /\ isouter_action(exp.label)
      /\ v # Nil /\ shown' = v /\ exp.label \notin BreakPoints
      /\ AfterSend /\ ch' = ch
  BY DEF IInv, SendOuter, Running
<1>2. interactive' = interactive
  BY <1>1 DEF AfterSend, Call
<1>3. Called' /\ Settled' /\ procs' = Leaves(cont, env, Leaves(exp.body, env, <<>>))
  BY <1>1, AfterSendIs
<1>4. exp.body \in AgentExp /\ env \in Env
  BY <1>1, PrefixParts DEF Called, Placed
<1>5. Became(exp.body, env)
  BY <1>1, <1>3, <1>4, BecameIs
<1>6. IInv' /\ UNCHANGED Slot
  BY <1>1, <1>3, SameChannel
<1> HIDE DEF v
<1>14. PICK i \in 1 .. Len(procs) : procs[i] = [exp |-> exp, env |-> env] /\ Abstract!Become(i, exp.body, env)
  BY <1>5 DEF Became
<1>15. procs[i].exp = exp /\ procs[i].env = env
  BY <1>14
<1>16. Abstract!evalval_ls(exp.vals, env) = v /\ Abstract!isouter_action(exp.label)
  BY <1>1, SameLists, SameLabels DEF Output, v
<1>17. Abstract!Write(i)
  BY <1>1, <1>2, <1>6, <1>14, <1>15, <1>16 DEF Abstract!Write, Slot
<1> QED BY <1>6, <1>14, <1>17 DEF Good, Abstract!Next, Abstract!Step

LEMMA RecvInnerStep ==
  ASSUME IInv, RecvInner
  PROVE  Good
<1> DEFINE l == exp.label
           v == lookup_ch1(ch, l)
           e1 == n_boundls(exp.vars, v, env)
<1>1. /\ Called /\ status = "running" /\ exp.op = "RECV" /\ ~isouter_action(l)
      /\ istrans(exp) = "yes" /\ e1 # Nil /\ ch' = delete(Msg(l, v), ch)
      /\ Call(resume(make_cls(exp.body, e1), cont), env, Hole) /\ shown' = shown
  BY DEF IInv, RecvInner, Running
<1>2. interactive' = interactive
  BY <1>1 DEF Call
<1>6. l \in Label
  BY <1>1, InnerLabel
<1>7. ch # Nil /\ istrans_in_act(ch, l)
  <2>1. ch # Nil
    BY <1>1, InnerLabel
  <2>2. TRUE = istrans_in_act(ch, l)
    BY <1>1, <2>1, InnerLabel
  <2> QED BY <2>1, <2>2
<1>8. ch \in Seq(Message) /\ OnePerLabel(ch)
  BY <1>7 DEF IInv, ChannelOK
<1>9. /\ v \in Value /\ ch' \in Seq(Message) /\ OnePerLabel(ch') /\ lookup_ch1(ch', l) = Nil
      /\ \A k : k # l => lookup_ch1(ch', k) = lookup_ch1(ch, k)
  <2> DEFINE d == delete(Msg(l, v), ch)
  <2>1. /\ v \in Value /\ d \in Seq(Message) /\ OnePerLabel(d) /\ lookup_ch1(d, l) = Nil
        /\ \A k : k # l => lookup_ch1(d, k) = lookup_ch1(ch, k)
    BY <1>6, <1>7, <1>8, RecvList
  <2>2. ch' = d
    BY <1>1
  <2> HIDE DEF d, v
  <2> QED BY <2>1, <2>2
<1>4. exp.body \in AgentExp /\ e1 \in Env
  BY <1>1, <1>9, PrefixParts, InputTyped DEF Called, Placed
<1>3. Called' /\ Settled' /\ procs' = Leaves(cont, env, Leaves(exp.body, e1, <<>>))
  BY <1>1, <1>4, ClosedIs
<1>5. Became(exp.body, e1)
  BY <1>1, <1>3, <1>4, BecameIs
<1>17. Slot[l] = v
  BY <1>6, <1>7 DEF Slot
<1>16. Abstract!n_boundls(exp.vars, v, env) = e1 /\ ~Abstract!isouter_action(l)
  BY <1>1, SameBindings, SameLabels
<1> HIDE DEF l, v, e1
<1>10. IInv'
  BY <1>3, <1>9 DEF IInv, ChannelOK
<1>11. Slot[l] # Nil
  BY <1>9, <1>17, NilIsNoValue
<1>12. Slot' = [Slot EXCEPT ![l] = Nil]
  <2>2. Slot' = [k \in Label |-> IF ch' = Nil THEN Nil ELSE lookup_ch1(ch', k)]
    BY DEF Slot
  <2>3. Slot = [k \in Label |-> lookup_ch1(ch, k)]
    BY <1>7 DEF Slot
  <2>1. ch' # Nil
    <3> DEFINE M == [label : Label \cup Outer, value : Seq(Int)]
    <3>1. Message \subseteq M
      BY DEF Message, Value
    <3>2. Nil \notin Seq(M)
      BY TermsAssumption
    <3> HIDE DEF M
    <3>3. ch' \in Seq(M)
      BY <1>9, <3>1
    <3> QED BY <3>2, <3>3
  <2> QED BY <1>6, <1>9, <2>1, <2>2, <2>3
<1>13. Abstract!Media!Read(l)
  BY <1>11, <1>12 DEF Abstract!Media!Read, Slot
<1>14. PICK i \in 1 .. Len(procs) : procs[i] = [exp |-> exp, env |-> env] /\ Abstract!Become(i, exp.body, e1)
  BY <1>5 DEF Became
<1>15. procs[i].exp = exp /\ procs[i].env = env
  BY <1>14
<1>18. Abstract!Receive(i)
  <2> DEFINE S == Slot
  <2>1. /\ exp.op = "RECV" /\ ~Abstract!isouter_action(l) /\ Abstract!Media!Read(l)
        /\ S[l] = v
    BY <1>1, <1>13, <1>16, <1>17
  <2>2. e1 # Nil /\ Abstract!Become(i, exp.body, e1) /\ shown' = shown /\ interactive' = interactive
    BY <1>1, <1>2, <1>14
  <2> QED BY <1>15, <1>16, <2>1, <2>2 DEF Abstract!Receive, l, Slot
<1> QED BY <1>10, <1>14, <1>18 DEF Good, Abstract!Next, Abstract!Step

LEMMA RecvOuterStep ==
  ASSUME IInv, RecvOuter
  PROVE  Good
<1>1. /\ Called /\ status = "running" /\ exp.op = "RECV" /\ isouter_action(exp.label)
      /\ exp.label \notin BreakPoints \cup {"accept"} /\ ch' = Nil /\ shown' = shown
  BY DEF IInv, RecvOuter, OuterInput, Running
<1>2. PICK v \in Input : /\ n_boundls(exp.vars, v, env) # Nil
                         /\ Call(resume(make_cls(exp.body, n_boundls(exp.vars, v, env)), cont), env, Hole)
  BY DEF RecvOuter
<1> DEFINE e1 == n_boundls(exp.vars, v, env)
<1>3. interactive' = interactive
  BY <1>2 DEF Call
<1>4. exp.body \in AgentExp /\ e1 \in Env
  <2>1. v \in Value
    BY ProgramsAssumption DEF Value
  <2> QED BY <1>1, <1>2, <2>1, PrefixParts, InputTyped DEF Called, Placed
<1>16. Abstract!n_boundls(exp.vars, v, env) = e1 /\ Abstract!isouter_action(exp.label)
  BY <1>1, SameBindings, SameLabels
<1>17. e1 # Nil /\ Call(resume(make_cls(exp.body, e1), cont), env, Hole)
  BY <1>2
<1> HIDE DEF e1
<1>5. Called' /\ Settled' /\ procs' = Leaves(cont, env, Leaves(exp.body, e1, <<>>))
  BY <1>1, <1>4, <1>17, ClosedIs
<1>6. Became(exp.body, e1)
  BY <1>1, <1>4, <1>5, BecameIs
<1>7. IInv'
  BY <1>1, <1>5 DEF IInv, ChannelOK
<1>8. Slot' = [l \in Label |-> Nil]
  BY <1>1 DEF Slot
<1>14. PICK i \in 1 .. Len(procs) : procs[i] = [exp |-> exp, env |-> env] /\ Abstract!Become(i, exp.body, e1)
  BY <1>6 DEF Became
<1>15. procs[i].exp = exp /\ procs[i].env = env
  BY <1>14
<1>18. Abstract!Read(i)
  <2>1. Abstract!n_boundls(exp.vars, v, env) # Nil /\ Abstract!Become(i, exp.body, Abstract!n_boundls(exp.vars, v, env))
    BY <1>14, <1>16, <1>17
  <2> QED BY <1>1, <1>3, <1>8, <1>15, <1>16, <2>1 DEF Abstract!Read, Slot
<1> QED BY <1>7, <1>14, <1>18 DEF Good, Abstract!Next, Abstract!Step

LEMMA RecvAcceptStep ==
  ASSUME IInv, RecvAccept
  PROVE  Good
<1>1. /\ Called /\ status = "running" /\ exp.op = "RECV" /\ exp.label = "accept"
      /\ Call(resume(exp.body, cont), env, Hole) /\ ch' = ch /\ shown' = shown
  BY DEF IInv, RecvAccept, Running
<1>3. interactive' = interactive
  BY <1>1 DEF Call
<1>4. exp.body \in AgentExp /\ env \in Env
  BY <1>1, PrefixParts DEF Called, Placed
<1>5. Called' /\ Settled' /\ procs' = Leaves(cont, env, Leaves(exp.body, env, <<>>))
  BY <1>1, <1>4, ReturnedIs
<1>6. Became(exp.body, env)
  BY <1>1, <1>4, <1>5, BecameIs
<1>7. IInv' /\ UNCHANGED Slot
  BY <1>1, <1>5, SameChannel
<1>14. PICK i \in 1 .. Len(procs) : procs[i] = [exp |-> exp, env |-> env] /\ Abstract!Become(i, exp.body, env)
  BY <1>6 DEF Became
<1>15. procs[i].exp = exp /\ procs[i].env = env
  BY <1>14
<1>18. Abstract!Accept(i)
  BY <1>1, <1>3, <1>7, <1>14, <1>15 DEF Abstract!Accept, Slot
<1> QED BY <1>7, <1>14, <1>18 DEF Good, Abstract!Next, Abstract!Step

LEMMA StopStep ==
  ASSUME IInv, NEW s, Stop(s), s = "returned" => cont = Hole /\ istrans(exp) = "no"
  PROVE  Good
<1>1. /\ status' = s /\ exp' = exp /\ env' = env /\ cont' = cont /\ ch' = ch
      /\ interactive' = interactive /\ shown' = shown
  BY DEF Stop
<1>2. Called'
  BY <1>1 DEF IInv, Called
<1>3. istrans(exp)' = istrans(exp)
  BY <1>1 DEF istrans, Full
<1>4. Settled'
  BY <1>1, <1>3 DEF Settled
<1>5. IInv' /\ UNCHANGED Slot
  BY <1>1, <1>2, <1>4, SameChannel
<1>6. UNCHANGED procs
  BY <1>1 DEF procs
<1> QED BY <1>1, <1>5, <1>6 DEF Good, Unmoved

LEMMA StutterStep ==
  ASSUME IInv, Called', Settled', ch' = ch, procs' = procs, shown' = shown, interactive' = interactive
  PROVE  Good
<1>1. IInv' /\ UNCHANGED Slot
  BY SameChannel
<1> QED BY <1>1 DEF Good, Unmoved

LEMMA ParkStep ==
  ASSUME IInv, Park
  PROVE  Good
<1> DEFINE k == IF isbinary(exp) THEN exp ELSE make_cls(exp, env)
<1>1. /\ Called /\ status = "running" /\ ch' = ch /\ shown' = shown
      /\ Call(resume(k, cont), env, Hole)
  BY DEF IInv, Park, Tested, Running
<1>2. interactive' = interactive
  BY <1>1 DEF Call
<1>3. exp \in AgentExp /\ env \in Env
  BY <1>1 DEF Called, Placed
<1>4. Called' /\ Settled' /\ procs' = Leaves(cont, env, Leaves(exp, env, <<>>))
  <2>1. CASE isbinary(exp)
    <3>1. Call(resume(exp, cont), env, Hole)
      BY <1>1, <2>1
    <3> QED BY <1>1, <1>3, <3>1, ReturnedIs
  <2>2. CASE ~isbinary(exp)
    <3>1. Call(resume(make_cls(exp, env), cont), env, Hole)
      BY <1>1, <2>2
    <3> QED BY <1>1, <1>3, <3>1, ClosedIs
  <2> QED BY <2>1, <2>2
<1>5. procs = Leaves(cont, env, Leaves(exp, env, <<>>))
  BY <1>1, ProcsIs, RowIs DEF Called
<1> QED BY <1>1, <1>2, <1>4, <1>5, StutterStep

LEMMA OpenStep ==
  ASSUME IInv, Open
  PROVE  Good
<1>1. /\ Called /\ status = "running" /\ exp.op = "CLS" /\ ch' = ch /\ shown' = shown
      /\ Call(exp.body, exp.env, cont)
  BY DEF IInv, Open, Running
<1>2. interactive' = interactive
  BY <1>1 DEF Call
<1>3. exp \in AgentExp /\ env \in Env /\ cont \in Expression /\ Context[cont] /\ exp \in Expression
  BY <1>1, AgentIs DEF Called, Placed
<1>4. exp.body \in AgentExp /\ exp.env \in Env
  BY <1>1, <1>3, ClosureParts
<1>5. Called' /\ Settled' /\ procs' = Row(exp.body, exp.env, cont)
  BY <1>1, <1>4, EnteredIs
<1> DEFINE s == Leaves(exp.body, exp.env, <<>>)
<1>6. procs' = Leaves(cont, exp.env, s) /\ s \in Seq(Process)
  <2>1. Placed(exp.body, exp.env, cont)
    BY <1>3, <1>4 DEF Placed
  <2> QED BY <1>5, <2>1, RowIs
<1>7. procs = Leaves(cont, env, s)
  <2>1. procs = Leaves(cont, env, Leaves(exp, env, <<>>))
    BY <1>1, ProcsIs, RowIs DEF Called
  <2>2. Leaves(exp, env, <<>>) = s
    BY <1>1, <1>3, LeavesCls
  <2> QED BY <2>1, <2>2
<1> HIDE DEF s
<1>8. Leaves(cont, exp.env, s) = Leaves(cont, env, s)
  <2>1. PICK l \in Seq(Process), r \in Seq(Process) : Around(cont, l, r)
    BY <1>3, ContextAround
  <2> QED BY <1>3, <1>4, <1>6, <2>1 DEF Around
<1> QED BY <1>1, <1>2, <1>5, <1>6, <1>7, <1>8, StutterStep

LEMMA ComStep ==
  ASSUME IInv, NEW side \in {"LEFT", "RIGHT"}, Operand(side), exp.op = "COM"
  PROVE  Good
<1> DEFINE b == IF side = "LEFT" THEN exp.left ELSE exp.right
           c1 == make_cont(side, exp, cont, env)
<1>1. /\ Called /\ status = "running" /\ ch' = ch /\ shown' = shown
      /\ Call(b, env, c1)
  BY DEF IInv, Operand, Running
<1>2. interactive' = interactive /\ c1 \in Expression
  BY <1>1 DEF Call
<1>3. exp \in AgentExp /\ env \in Env /\ cont \in Expression /\ Context[cont] /\ exp \in Expression /\ NoHole[exp]
  BY <1>1, AgentIs DEF Called, Placed
<1>4. b \in AgentExp
  BY <1>3, BinaryAgents
<1>5. Context[c1] /\ Leaves(c1, env, Leaves(b, env, <<>>)) = Leaves(cont, env, Leaves(exp, env, <<>>))
  BY <1>2, <1>3, MakeContIs
<1> HIDE DEF b, c1
<1>6. Placed(b, env, c1)
  BY <1>2, <1>3, <1>4, <1>5 DEF Placed
<1>7. Called' /\ Settled' /\ procs' = Row(b, env, c1)
  BY <1>1, <1>6, CallKeeps
<1>8. procs' = procs
  BY <1>1, <1>5, <1>6, <1>7, ProcsIs, RowIs DEF Called
<1> QED BY <1>1, <1>2, <1>7, <1>8, StutterStep

(* A sum becomes an operand that has a derivative.  Without a channel an   *)
(* input or output that is tested is an error, and an operand that passes  *)
(* passes with empty channels as well.                                     *)
LEMMA MovesAbstractly ==
  ASSUME NEW e \in Expression, istrans(e) = "yes"
  PROVE  derivatives(e, {l \in Label : Slot[l] # Nil}) = "yes"
<1> DEFINE F == {l \in Label : Slot[l] # Nil}
<1>1. CASE ch = Nil
  <2>1. F = {}
    BY <1>1 DEF Slot
  <2>2. derivatives(e, Nil) = "yes"
    BY <1>1 DEF istrans, Full
  <2> QED BY <2>1, <2>2, TestWithoutChannel
<1>2. CASE ch # Nil
  <2>1. F = {l \in Label : istrans_in_act(ch, l)}
    BY <1>2 DEF Slot, istrans_in_act
  <2>2. Full = F
    BY <1>2, <2>1 DEF Full
  <2> HIDE DEF F
  <2>3. derivatives(e, F) = "yes"
    BY <2>2 DEF istrans
  <2> QED BY <2>3 DEF F
<1> QED BY <1>1, <1>2

LEMMA SumStep ==
  ASSUME IInv, NEW side \in {"LEFT", "RIGHT"}, Operand(side), exp.op = "SUM"
  PROVE  Good
<1> DEFINE b == IF side = "LEFT" THEN exp.left ELSE exp.right
<1>1. /\ Called /\ status = "running" /\ ch' = ch /\ shown' = shown
      /\ Call(b, env, cont)
      /\ interactive \/ /\ istrans(exp) = "yes"
                        /\ (side = "LEFT") = (istrans(exp.left) = "yes")
  BY DEF IInv, Operand, Running
<1>2. interactive' = interactive
  BY <1>1 DEF Call
<1>3. exp \in AgentExp /\ env \in Env /\ cont \in Expression /\ Context[cont] /\ exp \in Expression
  BY <1>1, AgentIs DEF Called, Placed
<1>4. b \in AgentExp /\ b \in Expression /\ b \in {exp.left, exp.right}
  BY <1>3, BinaryAgents, AgentIs
<1>5. interactive \/ istrans(b) = "yes"
  <2>1. istrans(exp) = IF istrans(exp.left) = "no" THEN istrans(exp.right) ELSE istrans(exp.left)
    BY <1>3, IstransBinary
  <2>2. CASE side = "LEFT"
    BY <1>1, <2>2
  <2>3. CASE side = "RIGHT"
    BY <1>1, <2>1, <2>3
  <2> QED BY <2>2, <2>3
<1> HIDE DEF b
<1>6. Called' /\ Settled' /\ procs' = Row(b, env, cont)
  BY <1>1, <1>3, <1>4, EnteredIs
<1>7. procs' = Leaves(cont, env, Leaves(b, env, <<>>))
  <2>1. Placed(b, env, cont)
    BY <1>3, <1>4 DEF Placed
  <2> QED BY <1>6, <2>1, RowIs
<1>8. Became(b, env)
  BY <1>1, <1>3, <1>4, <1>7, BecameIs
<1>9. IInv' /\ UNCHANGED Slot
  BY <1>1, <1>6, SameChannel
<1>10. interactive \/ Abstract!derivatives(b, {l \in Label : Slot[l] # Nil}) = "yes"
  BY <1>4, <1>5, MovesAbstractly, SameTests
<1>11. Abstract!full = {l \in Label : Slot[l] # Nil}
  BY DEF Abstract!full, Slot
<1>14. PICK i \in 1 .. Len(procs) : procs[i] = [exp |-> exp, env |-> env] /\ Abstract!Become(i, b, env)
  BY <1>8 DEF Became
<1>15. procs[i].exp = exp /\ procs[i].env = env
  BY <1>14
<1>16. interactive \/ Abstract!derivatives(b, Abstract!full) = "yes"
  BY <1>10, <1>11
<1>18. Abstract!Choose(i)
  BY <1>1, <1>2, <1>4, <1>9, <1>14, <1>15, <1>16 DEF Abstract!Choose, Slot
<1> QED BY <1>9, <1>14, <1>18 DEF Good, Abstract!Next, Abstract!Step

LEMMA OperandStep ==
  ASSUME IInv, NEW side \in {"LEFT", "RIGHT"}, Operand(side)
  PROVE  Good
<1>1. exp.op \in {"SUM", "COM"}
  BY DEF Operand, Running
<1> QED BY <1>1, ComStep, SumStep

LEMMA ContinueStep ==
  ASSUME IInv, Continue
  PROVE  Good
<1>1. /\ interactive /\ interactive' = FALSE
      /\ exp' = exp /\ env' = env /\ cont' = cont /\ ch' = ch /\ shown' = shown /\ status' = status
  BY DEF Continue
<1>2. Called'
  BY <1>1 DEF IInv, Called
<1>3. istrans(exp)' = istrans(exp)
  BY <1>1 DEF istrans, Full
<1>4. Settled'
  BY <1>1, <1>3 DEF IInv, Settled
<1>5. IInv' /\ UNCHANGED Slot
  BY <1>1, <1>2, <1>4, SameChannel
<1>6. UNCHANGED procs
  BY <1>1 DEF procs
<1>7. Abstract!Continue
  BY <1>1, <1>5, <1>6 DEF Abstract!Continue, Slot
<1> QED BY <1>5, <1>7 DEF Good, Abstract!Next

LEMMA IfStep ==
  ASSUME IInv, If
  PROVE  Good
<1> DEFINE v == evalval(exp.cond, env)
           b == IF v # 0 THEN exp.then ELSE exp.else
<1>1. /\ Called /\ status = "running" /\ exp.op = "IF" /\ v # Nil /\ ch' = ch /\ shown' = shown
      /\ Call(b, env, cont)
  BY DEF IInv, If, Running
<1>2. interactive' = interactive
  BY <1>1 DEF Call
<1>3. exp \in AgentExp /\ env \in Env /\ cont \in Expression /\ Context[cont] /\ exp \in Expression
  BY <1>1, AgentIs DEF Called, Placed
<1>4. b \in AgentExp
  BY <1>1, <1>3, BranchAgents
<1>5. v = Abstract!evalval(exp.cond, env)
  BY SameValues
<1> HIDE DEF v
<1>6. Called' /\ Settled' /\ procs' = Row(b, env, cont)
  BY <1>1, <1>3, <1>4, EnteredIs
<1>7. procs' = Leaves(cont, env, Leaves(b, env, <<>>))
  <2>1. Placed(b, env, cont)
    BY <1>3, <1>4 DEF Placed
  <2> QED BY <1>6, <2>1, RowIs
<1>8. Became(b, env)
  BY <1>1, <1>3, <1>4, <1>7, BecameIs
<1>9. IInv' /\ UNCHANGED Slot
  BY <1>1, <1>6, SameChannel
<1>14. PICK i \in 1 .. Len(procs) : procs[i] = [exp |-> exp, env |-> env] /\ Abstract!Become(i, b, env)
  BY <1>8 DEF Became
<1>15. procs[i].exp = exp /\ procs[i].env = env
  BY <1>14
<1>18. Abstract!Test(i)
  BY <1>1, <1>2, <1>5, <1>9, <1>14, <1>15 DEF Abstract!Test, Slot
<1> QED BY <1>9, <1>14, <1>18 DEF Good, Abstract!Next, Abstract!Step

LEMMA ConAlone ==
  ASSUME Called, exp.op = "CON"
  PROVE  /\ exp \in AgentExp /\ exp \in Expression /\ env \in Env
         /\ cont \in Expression /\ Context[cont]
         /\ Leaves(exp, env, <<>>) = <<[exp |-> exp, env |-> env]>>
<1>1. /\ exp \in AgentExp /\ exp \in Expression /\ env \in Env
      /\ cont \in Expression /\ Context[cont]
  BY AgentIs DEF Called, Placed
<1>2. exp.op \notin {"NULL", "COM", "CLS"}
  OBVIOUS
<1> QED BY <1>1, <1>2, LeavesOther

LEMMA AbortStep ==
  ASSUME IInv, Abort
  PROVE  Good
<1>1. /\ Called /\ exp.op = "CON" /\ isabort(exp.name)
      /\ cont' = Hole /\ status' = "aborted" /\ exp' = exp /\ env' = env /\ ch' = ch
      /\ interactive' = interactive /\ shown' = shown
  BY DEF IInv, Abort, Running
<1>2. /\ exp \in AgentExp /\ exp \in Expression /\ env \in Env
      /\ cont \in Expression /\ Context[cont]
      /\ Leaves(exp, env, <<>>) = <<[exp |-> exp, env |-> env]>>
  BY <1>1, ConAlone
<1>3. Placed(exp, env, Hole)
  BY <1>2, HoleContext DEF Placed
<1>4. Called'
  BY <1>1, <1>3 DEF Called
<1>5. Settled'
  BY <1>1 DEF Settled
<1>6. IInv' /\ UNCHANGED Slot
  BY <1>1, <1>4, <1>5, SameChannel
<1>7. procs' = <<[exp |-> exp, env |-> env]>>
  <2>1. procs' = Leaves(exp, env, <<>>)
    BY <1>1 DEF procs
  <2> QED BY <1>2, <2>1
<1>8. \E i \in 1 .. Len(procs) : procs[i] = [exp |-> exp, env |-> env]
  <2> DEFINE r == Row(exp, env, cont)
  <2>1. \E i \in 1 .. Len(r) : /\ r[i] = [exp |-> exp, env |-> env]
                               /\ Leaves(cont, env, Leaves(exp, env, <<>>)) = Replaced(r, i, Leaves(exp, env, <<>>))
    BY <1>1, <1>2, OneMoved DEF Called
  <2>2. procs = r
    BY ProcsIs
  <2> HIDE DEF r
  <2> QED BY <2>1, <2>2
<1>14. PICK i \in 1 .. Len(procs) : procs[i] = [exp |-> exp, env |-> env]
  BY <1>8
<1>15. procs[i].exp = exp /\ Abstract!isabort(exp.name)
  BY <1>1, <1>14, SameAborts
<1>18. Abstract!Abort(i)
  BY <1>1, <1>6, <1>7, <1>14, <1>15 DEF Abstract!Abort, Slot
<1> QED BY <1>6, <1>14, <1>18 DEF Good, Abstract!Next, Abstract!Step

(* stop has no derivative.                                                 *)
LEMMA StopIsStuck ==
  ASSUME NEW e \in Expression, e.op = "CON", isstop(e.name), ~isabort(e.name)
  PROVE  istrans(e) = "no"
<1> DEFINE n == Cardinality(DOMAIN Procs)
<1>1. n \in Nat /\ derivatives(e, Full) = Unfolding(Full)[n][e]
  BY DerivativesIs
<1> HIDE DEF n
<1>2. e.op \notin {"RECV", "SEND", "SUM", "COM", "IF", "CLS"}
  OBVIOUS
<1>3. Unfolding(Full)[n][e] = UnfoldedOf(e, Unfolded(n, Full))
  BY <1>1, <1>2, TestConstant
<1>4. UnfoldedOf(e, Unfolded(n, Full)) = "no"
  BY DEF UnfoldedOf, isstop, isabort
<1> QED BY <1>1, <1>3, <1>4 DEF istrans

LEMMA ConStopStep ==
  ASSUME IInv, ConStop
  PROVE  Good
<1>1. /\ Called /\ status = "running" /\ exp.op = "CON" /\ isstop(exp.name) /\ ~isabort(exp.name)
  BY DEF IInv, ConStop, Running
<1>2. /\ exp \in AgentExp /\ exp \in Expression
  BY <1>1, ConAlone
<1>3. CASE cont # Hole
  <2>1. Call(resume(exp, cont), env, Hole) /\ ch' = ch /\ shown' = shown
    BY <1>3 DEF ConStop
  <2>2. interactive' = interactive
    BY <2>1 DEF Call
  <2>3. Called' /\ Settled' /\ procs' = Leaves(cont, env, Leaves(exp, env, <<>>))
    BY <1>1, <1>2, <2>1, ReturnedIs
  <2>4. procs = Leaves(cont, env, Leaves(exp, env, <<>>))
    BY <1>1, ProcsIs, RowIs DEF Called
  <2> QED BY <2>1, <2>2, <2>3, <2>4, StutterStep
<1>4. CASE cont = Hole
  <2>1. Stop("returned")
    BY <1>4 DEF ConStop
  <2>2. istrans(exp) = "no"
    BY <1>1, <1>2, StopIsStuck
  <2> QED BY <1>4, <2>1, <2>2, StopStep
<1> QED BY <1>3, <1>4

LEMMA UnfoldStep ==
  ASSUME IInv, Unfold
  PROVE  Good
<1> DEFINE b == Procs[exp.name].body
           e1 == Arguments
<1>1. /\ Called /\ status = "running" /\ exp.op = "CON" /\ e1 # Nil /\ ch' = ch /\ shown' = shown
      /\ Call(resume(make_cls(b, e1), cont), env, Hole)
  BY DEF IInv, Unfold, Defined, Running
<1>2. interactive' = interactive
  BY <1>1 DEF Call
<1>3. /\ exp.name \in DOMAIN Procs /\ b \in AgentExp /\ e1 \in Env
      /\ e1 = n_boundls(Procs[exp.name].params, evalval_ls(exp.args, env), env)
  BY <1>1, ArgumentsTyped
<1>4. e1 = Abstract!n_boundls(Procs[exp.name].params, Abstract!evalval_ls(exp.args, env), env)
  BY <1>3, SameBindings, SameLists
<1> HIDE DEF e1
<1>5. Called' /\ Settled' /\ procs' = Leaves(cont, env, Leaves(b, e1, <<>>))
  BY <1>1, <1>3, ClosedIs
<1>6. Became(b, e1)
  BY <1>1, <1>3, <1>5, BecameIs
<1>7. IInv' /\ UNCHANGED Slot
  BY <1>1, <1>5, SameChannel
<1>14. PICK i \in 1 .. Len(procs) : procs[i] = [exp |-> exp, env |-> env] /\ Abstract!Become(i, b, e1)
  BY <1>6 DEF Became
<1>15. procs[i].exp = exp /\ procs[i].env = env
  BY <1>14
<1>18. Abstract!Unfold(i)
  BY <1>1, <1>2, <1>3, <1>4, <1>7, <1>14, <1>15 DEF Abstract!Unfold, Slot
<1> QED BY <1>7, <1>14, <1>18 DEF Good, Abstract!Next, Abstract!Step

-----------------------------------------------------------------------------
LEMMA StepOfNext ==
  ASSUME IInv, Next
  PROVE  Good
<1>1. CASE Prefix
  BY <1>1, SendInnerStep, SendOuterStep, RecvInnerStep, RecvOuterStep, RecvAcceptStep DEF Prefix
<1>2. CASE PrefixFails \/ NoTarget
  BY <1>2, StopStep DEF PrefixFails, NoTarget
<1>3. CASE TestFails
  <2>1. Stop(istrans(exp)) /\ istrans(exp) # "returned"
    BY <1>3 DEF TestFails
  <2> QED BY <2>1, StopStep
<1>4. CASE Return
  BY <1>4, StopStep DEF Return
<1>5. CASE Operand("LEFT") \/ Operand("RIGHT")
  BY <1>5, OperandStep
<1>6. CASE IfFails
  BY <1>6, StopStep DEF IfFails
<1>7. CASE Primitive \/ PrimitiveFails
  BY <1>7, StopStep DEF Primitive, PrimitiveFails
<1>8. CASE UnfoldFails
  BY <1>8, StopStep DEF UnfoldFails
<1>9. CASE Park \/ Continue \/ If \/ Open \/ Abort \/ ConStop \/ Unfold
  BY <1>9, ParkStep, ContinueStep, IfStep, OpenStep, AbortStep, ConStopStep, UnfoldStep
<1> QED BY <1>1, <1>2, <1>3, <1>4, <1>5, <1>6, <1>7, <1>8, <1>9 DEF Next

LEMMA Stuttering ==
  ASSUME IInv, UNCHANGED vars
  PROVE  Good
<1>1. /\ exp' = exp /\ env' = env /\ cont' = cont /\ ch' = ch
      /\ interactive' = interactive /\ shown' = shown /\ status' = status
  BY DEF vars
<1>2. Called'
  BY <1>1 DEF IInv, Called
<1>3. istrans(exp)' = istrans(exp)
  BY <1>1 DEF istrans, Full
<1>4. Settled'
  BY <1>1, <1>3 DEF IInv, Settled
<1>5. procs' = procs
  BY <1>1 DEF procs
<1> QED BY <1>1, <1>2, <1>4, <1>5, StutterStep

(* eval() is called with an expression and a continuation of their shapes, *)
(* the channel is a list with one message of a label, and what eval()      *)
(* returns is a whole program without a derivative.                        *)
THEOREM Invariance == Spec => []IInv
<1>1. Init => IInv
  BY InitIInv
<1>2. IInv /\ [Next]_vars => IInv'
  BY StepOfNext, Stuttering DEF Good
<1> QED BY <1>1, <1>2, PTL DEF Spec

(* make_cont(), make_switch() and resume() lose and duplicate no process.  *)
THEOREM ContinuationsHaveOneHole == Spec => []OneHole
<1>1. IInv => OneHole
  <2> SUFFICES ASSUME IInv PROVE OneHole
    OBVIOUS
  <2>1. exp \in Expression /\ NoHole[exp] /\ cont \in Expression /\ Context[cont]
    BY AgentIs DEF IInv, Called, Placed
  <2>2. Holes[exp] = 0
    BY <2>1, NoHoleHoles
  <2>3. Holes[cont] = 1
    BY <2>1, ContextHoles
  <2> QED BY <2>2, <2>3 DEF OneHole
<1> QED BY Invariance, <1>1, PTL

(* The test of a whole passes judgement on all of its processes.           *)
LEMMA StuckParts ==
  ASSUME NEW full, NEW n \in Nat
  PROVE  \A e \in Expression : NoHole[e] /\ Unfolding(full)[n][e] = "no" =>
           \A en \in Env : \A p \in Range(Leaves(e, en, <<>>)) : Unfolding(full)[n][p.exp] = "no"
<1> DEFINE Test(x) == Unfolding(full)[n][x]
           Stuck(x) == \A en \in Env : \A p \in Range(Leaves(x, en, <<>>)) : Test(p.exp) = "no"
           S == {x \in Expression : NoHole[x] /\ Test(x) = "no" => Stuck(x)}
<1>1. ASSUME NEW x \in Expression, Within(x) \subseteq S
      PROVE  x \in S
  <2> SUFFICES ASSUME NoHole[x], Test(x) = "no" PROVE Stuck(x)
    OBVIOUS
  <2>1. CASE x.op = "COM"
    <3>1. x.left \in S /\ x.right \in S
      BY <1>1, <2>1 DEF Within
    <3>2. NoHole[x.left] /\ NoHole[x.right]
      BY <2>1, NoHoleAt
    <3>3. Test(x) = IF Test(x.left) = "no" THEN Test(x.right) ELSE Test(x.left)
      BY <2>1, TestBinary
    <3> HIDE DEF Test
    <3>4. Test(x.left) = "no" /\ Test(x.right) = "no"
      BY <3>3
    <3>5. Stuck(x.left) /\ Stuck(x.right)
      BY <3>1, <3>2, <3>4
    <3>6. ASSUME NEW en \in Env
          PROVE  Range(Leaves(x, en, <<>>)) = Range(Leaves(x.left, en, <<>>)) \cup Range(Leaves(x.right, en, <<>>))
      <4>1. Leaves(x, en, <<>>) = Leaves(x.left, en, <<>>) \o Leaves(x.right, en, <<>>)
        BY <2>1, LeavesCom
      <4>2. Leaves(x.left, en, <<>>) \in Seq(Process) /\ Leaves(x.right, en, <<>>) \in Seq(Process)
        BY <3>1, <3>2, LeavesNoHole
      <4> QED BY <4>1, <4>2, RangeConcatenation
    <3> QED BY <3>5, <3>6
  <2>2. CASE x.op = "CLS"
    <3>1. x.body \in S /\ NoHole[x.body] /\ x.env \in Env
      BY <1>1, <2>2, NoHoleAt, Closure1 DEF Within
    <3>2. Test(x.body) = "no"
      BY <2>2, TestClosure
    <3>3. \A en \in Env : Leaves(x, en, <<>>) = Leaves(x.body, x.env, <<>>)
      BY <2>2, LeavesCls
    <3> HIDE DEF Test
    <3>4. Stuck(x.body)
      BY <3>1, <3>2
    <3> QED BY <3>1, <3>3, <3>4
  <2>3. CASE x.op \notin {"COM", "CLS"}
    <3>1. x.op \notin {"NULL", "COM", "CLS"}
      BY <2>3, HoleOp, NoHoleAt
    <3>2. \A en \in Env : Leaves(x, en, <<>>) = <<[exp |-> x, env |-> en]>>
      BY <3>1, LeavesOther
    <3>3. \A p : Range(<<p>>) = {p}
      BY DEF Range
    <3> HIDE DEF Test
    <3>4. \A en \in Env : \A p \in Range(Leaves(x, en, <<>>)) : p.exp = x
      BY <3>2, <3>3
    <3> QED BY <3>4
  <2> QED BY <2>1, <2>2, <2>3
<1> HIDE DEF S
<1>2. Expression \subseteq S
  BY <1>1, TermInduction
<1> QED BY <1>2 DEF S

(* eval() returns only when no process of the program has a derivative.    *)
THEOREM ReturnsStuck == Spec => []StuckWhenReturned
<1>1. IInv => StuckWhenReturned
  <2> SUFFICES ASSUME IInv, status = "returned"
               PROVE  \A p \in Range(procs) : istrans(p.exp) = "no"
    BY DEF StuckWhenReturned
  <2>1. exp \in Expression /\ NoHole[exp] /\ env \in Env /\ cont = Hole /\ istrans(exp) = "no"
    BY AgentIs DEF IInv, Called, Placed, Settled
  <2>2. procs = Leaves(exp, env, <<>>)
    BY <2>1 DEF procs
  <2> DEFINE n == Cardinality(DOMAIN Procs)
  <2>3. n \in Nat /\ \A x : istrans(x) = Unfolding(Full)[n][x]
    BY DerivativesIs DEF istrans
  <2> HIDE DEF n
  <2>4. \A p \in Range(Leaves(exp, env, <<>>)) : Unfolding(Full)[n][p.exp] = "no"
    BY <2>1, <2>3, StuckParts
  <2> QED BY <2>2, <2>3, <2>4
<1> QED BY Invariance, <1>1, PTL

LEMMA InitProcesses ==
  ASSUME Init
  PROVE  Abstract!Init
<1>1. exp \in Programs /\ env = <<>> /\ cont = Hole /\ ch = <<>> /\ shown = <<>> /\ interactive \in BOOLEAN
  BY DEF Init
<1>2. procs = Abstract!Leaves(exp, <<>>, <<>>)
  BY <1>1, SameLeaves DEF procs
<1>3. Slot = [l \in Label |-> Nil]
  <2>1. \A l : lookup_ch1(<<>>, l) = Nil
    BY LookupNone
  <2> QED BY <1>1, <2>1 DEF Slot
<1> QED BY <1>1, <1>2, <1>3 DEF Abstract!Init, Slot

(* eval() implements the row of processes: a step is a step of one process *)
(* in its own environment, and the walk through the continuation, the      *)
(* closures and the list that is the channel cannot be seen.               *)
THEOREM ImplementsProcesses == Spec => ProcessesSpec
<1>1. IInv /\ [Next]_vars => [Abstract!Next]_<<procs, Slot, shown, interactive>>
  BY StepOfNext, Stuttering DEF Good, Unmoved
<1>2. Init => Abstract!Init
  BY InitProcesses
<1>3. [Abstract!Next]_<<procs, Slot, shown, interactive>> =>
        [Abstract!Next]_<<procs, [l \in Label |-> IF ch = Nil THEN Nil ELSE lookup_ch1(ch, l)], shown, interactive>>
  BY DEF Slot
<1> QED BY Invariance, <1>1, <1>2, <1>3, PTL DEF Spec, ProcessesSpec, Abstract!Spec
-----------------------------------------------------------------------------
(* Closed programs.  What expressions lack, one operator at a time.        *)
LEMMA VarsIs ==
  Vars = [x \in ValueExp |->
            IF x.tk = "VALUE" THEN {}
            ELSE IF x.tk = "ID" THEN {x.id}
            ELSE Vars[x.operands[1]] \cup Vars[x.operands[2]]]
<1> DEFINE At(f, x) == IF x.tk = "VALUE" THEN {}
                       ELSE IF x.tk = "ID" THEN {x.id}
                       ELSE f[x.operands[1]] \cup f[x.operands[2]]
           Is(f, k) == f = [x \in ValueTo[k] |-> At(f, x)]
           G == {k \in Nat : \E f : Is(f, k)}
<1>1. ASSUME NEW f, NEW g, NEW X, NEW x \in Valued(X), \A p \in X : f[p] = g[p]
      PROVE  At(f, x) = At(g, x)
  <2>1. x.tk \notin {"VALUE", "ID"} => f[x.operands[1]] = g[x.operands[1]] /\ f[x.operands[2]] = g[x.operands[2]]
    BY <1>1, ValueOperands
  <2> QED BY <2>1
<1> HIDE DEF At
<1>2. 0 \in G
  <2> DEFINE g == [x \in ValueTo[0] |-> At(<<>>, x)]
  <2>1. ASSUME NEW x \in ValueTo[0]
        PROVE  g[x] = At(g, x)
    <3>1. x \in Valued({})
      BY ValueAtLevel
    <3>2. At(<<>>, x) = At(g, x)
      BY <1>1, <3>1
    <3> QED BY <3>2
  <2>2. g = [x \in ValueTo[0] |-> g[x]]
    OBVIOUS
  <2> HIDE DEF g
  <2>3. g = [x \in ValueTo[0] |-> At(g, x)]
    BY <2>1, <2>2
  <2> QED BY <2>3
<1>3. ASSUME NEW k \in Nat, k \in G
      PROVE  k + 1 \in G
  <2>1. PICK f : Is(f, k)
    BY <1>3
  <2> DEFINE g == [x \in ValueTo[k + 1] |-> At(f, x)]
  <2>2. ASSUME NEW x \in ValueTo[k + 1]
        PROVE  g[x] = At(g, x)
    <3>0. k + 1 \in Nat /\ k + 1 # 0 /\ (k + 1) - 1 = k
      OBVIOUS
    <3>1. x \in Valued(ValueTo[k])
      BY <3>0, ValueAtLevel
    <3>2. ASSUME NEW p \in ValueTo[k]
          PROVE  f[p] = g[p]
      <4>1. p \in ValueTo[k + 1]
        BY ValuesGrow
      <4> QED BY <2>1, <4>1
    <3>3. At(f, x) = At(g, x)
      <4> HIDE DEF g
      <4> QED BY <1>1, <3>1, <3>2
    <3> QED BY <3>3
  <2>3. g = [x \in ValueTo[k + 1] |-> g[x]]
    OBVIOUS
  <2> HIDE DEF g
  <2>4. Is(g, k + 1)
    BY <2>2, <2>3
  <2> QED BY <2>4
<1>4. Nat \subseteq G
  <2> HIDE DEF G
  <2> QED BY <1>2, <1>3, NatSetInduction
<1>5. PICK f : Is(f, Height)
  BY <1>4, TermsAssumption
<1>6. \E g : g = [x \in ValueExp |->
            IF x.tk = "VALUE" THEN {}
            ELSE IF x.tk = "ID" THEN {x.id}
            ELSE g[x.operands[1]] \cup g[x.operands[2]]]
  BY <1>5 DEF ValueExp, At
<1> QED BY <1>6 DEF Vars

LackOf(f, x, typing) ==
  IF x = Hole THEN {}
  ELSE IF x.op = "RECV"
       THEN IF x.label = "accept" THEN f[x.body]
            ELSE (f[x.body] \ Range(x.vars))
                   \cup Flaw(~isouter_action(x.label) /\ Len(x.vars) = typing.carries[x.label])
  ELSE IF x.op = "SEND"
       THEN f[x.body] \cup Named(x.vals)
              \cup Flaw(IF isouter_action(x.label) THEN x.label \notin BreakPoints
                        ELSE Len(x.vals) = typing.carries[x.label])
  ELSE IF isbinary(x) THEN f[x.left] \cup f[x.right]
  ELSE IF x.op = "IF" THEN Vars[x.cond] \cup f[x.then] \cup f[x.else]
  ELSE IF x.op = "CLS" THEN Flaw(f[x.body] \subseteq Known(x.env))
  ELSE IF isabort(x.name) \/ isstop(x.name) THEN {}
  ELSE IF isprimagnt(x.name) THEN Named(x.args)
  ELSE IF x.name \notin DOMAIN typing.needs THEN {Nil}
  ELSE Named(x.args) \cup typing.needs[x.name]
         \cup Flaw(Len(x.args) = Len(Procs[x.name].params))

LackingIn(typing) ==
  LET lacks[x \in Expression] ==
        IF x = Hole THEN {}
        ELSE IF x.op = "RECV"
             THEN IF x.label = "accept" THEN lacks[x.body]
                  ELSE (lacks[x.body] \ Range(x.vars))
                         \cup Flaw(~isouter_action(x.label) /\ Len(x.vars) = typing.carries[x.label])
        ELSE IF x.op = "SEND"
             THEN lacks[x.body] \cup Named(x.vals)
                    \cup Flaw(IF isouter_action(x.label) THEN x.label \notin BreakPoints
                              ELSE Len(x.vals) = typing.carries[x.label])
        ELSE IF isbinary(x) THEN lacks[x.left] \cup lacks[x.right]
        ELSE IF x.op = "IF" THEN Vars[x.cond] \cup lacks[x.then] \cup lacks[x.else]
        ELSE IF x.op = "CLS" THEN Flaw(lacks[x.body] \subseteq Known(x.env))
        ELSE IF isabort(x.name) \/ isstop(x.name) THEN {}
        ELSE IF isprimagnt(x.name) THEN Named(x.args)
        ELSE IF x.name \notin DOMAIN typing.needs THEN {Nil}
        ELSE Named(x.args) \cup typing.needs[x.name]
               \cup Flaw(Len(x.args) = Len(Procs[x.name].params))
  IN  lacks

LEMMA LackingAgrees ==
  ASSUME NEW f, NEW g, NEW x, NEW typing, \A p \in Within(x) : f[p] = g[p]
  PROVE  LackOf(f, x, typing) = LackOf(g, x, typing)
<1>1. isbinary(x) => f[x.left] = g[x.left] /\ f[x.right] = g[x.right]
  BY DEF Within, isbinary
<1>2. x.op \in {"RECV", "SEND", "CLS"} => f[x.body] = g[x.body]
  BY DEF Within
<1>3. x.op = "IF" => f[x.then] = g[x.then] /\ f[x.else] = g[x.else]
  BY DEF Within
<1> QED BY <1>1, <1>2, <1>3 DEF LackOf

LEMMA LackingInIs ==
  ASSUME NEW typing
  PROVE  LackingIn(typing) = [x \in Expression |-> LackOf(LackingIn(typing), x, typing)]
<1> DEFINE At(f, x) == LackOf(f, x, typing)
           Is(f, k) == f = [x \in ExpressionTo[k] |-> At(f, x)]
           G == {k \in Nat : \E f : Is(f, k)}
<1>1. ASSUME NEW f, NEW g, NEW x, \A p \in Within(x) : f[p] = g[p]
      PROVE  At(f, x) = At(g, x)
  BY <1>1, LackingAgrees
<1> HIDE DEF At
<1>2. 0 \in G
  <2> DEFINE g == [x \in ExpressionTo[0] |-> At(<<>>, x)]
             h == [x \in ExpressionTo[0] |-> At(g, x)]
  <2>1. ASSUME NEW x \in ExpressionTo[0]
        PROVE  g[x] = h[x]
    <3>1. At(<<>>, x) = At(g, x)
      BY <1>1, PartsOfFirst
    <3> QED BY <3>1
  <2>2. g = h
    BY <2>1
  <2> HIDE DEF g
  <2> QED BY <2>2
<1>3. ASSUME NEW k \in Nat, k \in G
      PROVE  k + 1 \in G
  <2>1. PICK f : Is(f, k)
    BY <1>3
  <2> DEFINE g == [x \in ExpressionTo[k + 1] |-> At(f, x)]
             h == [x \in ExpressionTo[k + 1] |-> At(g, x)]
  <2>2. ASSUME NEW x \in ExpressionTo[k + 1]
        PROVE  g[x] = h[x]
    <3>1. ASSUME NEW p \in Within(x)
          PROVE  f[p] = g[p]
      <4>1. p \in ExpressionTo[k] /\ p \in ExpressionTo[k + 1]
        BY PartsBelow, ExpressionsGrow
      <4> QED BY <2>1, <4>1
    <3>2. At(f, x) = At(g, x)
      BY <1>1, <3>1
    <3> QED BY <3>2
  <2>3. g = h
    BY <2>2
  <2> HIDE DEF g
  <2>4. Is(g, k + 1)
    BY <2>3
  <2> QED BY <2>4
<1>4. Nat \subseteq G
  <2> HIDE DEF G
  <2> QED BY <1>2, <1>3, NatSetInduction
<1>5. PICK f : Is(f, Height)
  BY <1>4, TermsAssumption
<1>6. f = [x \in Expression |-> LackOf(f, x, typing)]
  BY <1>5 DEF At, Expression
<1>7. \E g : g = [x \in Expression |->
        IF x = Hole THEN {}
        ELSE IF x.op = "RECV"
             THEN IF x.label = "accept" THEN g[x.body]
                  ELSE (g[x.body] \ Range(x.vars))
                         \cup Flaw(~isouter_action(x.label) /\ Len(x.vars) = typing.carries[x.label])
        ELSE IF x.op = "SEND"
             THEN g[x.body] \cup Named(x.vals)
                    \cup Flaw(IF isouter_action(x.label) THEN x.label \notin BreakPoints
                              ELSE Len(x.vals) = typing.carries[x.label])
        ELSE IF isbinary(x) THEN g[x.left] \cup g[x.right]
        ELSE IF x.op = "IF" THEN Vars[x.cond] \cup g[x.then] \cup g[x.else]
        ELSE IF x.op = "CLS" THEN Flaw(g[x.body] \subseteq Known(x.env))
        ELSE IF isabort(x.name) \/ isstop(x.name) THEN {}
        ELSE IF isprimagnt(x.name) THEN Named(x.args)
        ELSE IF x.name \notin DOMAIN typing.needs THEN {Nil}
        ELSE Named(x.args) \cup typing.needs[x.name]
               \cup Flaw(Len(x.args) = Len(Procs[x.name].params))]
  BY <1>6 DEF LackOf
<1> QED BY <1>7 DEF LackingIn, LackOf

LEMMA LackingAt ==
  ASSUME NEW x \in Expression, NEW typing
  PROVE  Lacking(x, typing) = LackOf(LackingIn(typing), x, typing)
<1>1. LackingIn(typing)[x] = LackOf(LackingIn(typing), x, typing)
  BY LackingInIs
<1> QED BY <1>1 DEF Lacking, LackingIn

LEMMA LackingFrom ==
  ASSUME NEW x, NEW typing
  PROVE  LackingIn(typing)[x] = Lacking(x, typing)
BY DEF Lacking, LackingIn
-----------------------------------------------------------------------------
(* What an environment binds is found in it, and values are evaluated.     *)
LEMMA LookupKnown ==
  ASSUME NEW en \in Env, NEW x \in Known(en)
  PROVE  lookup1(x, en) \in Int /\ \E p \in Range(en) : p.var = x /\ p.val = lookup1(x, en)
<1> DEFINE P == [var : STRING, val : Int]
           I == {j \in 1 .. Len(en) : en[j].var = x}
<1>1. en \in Seq(P)
  BY DEF Env
<1>2. DOMAIN en = 1 .. Len(en) /\ Len(en) \in Nat
  BY <1>1, LenProperties
<1>3. I # {} /\ I \subseteq Nat
  BY <1>2 DEF Known
<1>4. PICK m \in I : \A n \in I : m <= n
  BY <1>3, LeastNumber
<1>5. Min(I) = m
  BY <1>3, <1>4, MinIs
<1>6. SelectInSeq(en, LAMBDA p : p.var = x) = m
  BY <1>3, <1>5 DEF SelectInSeq
<1>7. m \in 1 .. Len(en) /\ m # 0 /\ en[m].var = x
  BY <1>4
<1>8. en[m] \in P
  <2> HIDE DEF P
  <2> QED BY <1>1, <1>7, ElementOfSeq
<1>9. lookup1(x, en) = en[m].val
  BY <1>6, <1>7 DEF lookup1
<1>10. en[m] \in Range(en)
  BY <1>2, <1>7 DEF Range
<1> QED BY <1>7, <1>8, <1>9, <1>10

LEMMA KnownAreNames ==
  ASSUME NEW en \in Env
  PROVE  Known(en) \subseteq STRING /\ Nil \notin Known(en)
<1> DEFINE P == [var : STRING, val : Int]
<1>1. en \in Seq(P)
  BY DEF Env
<1>2. \A i \in DOMAIN en : en[i] \in P
  <2> HIDE DEF P
  <2> QED BY <1>1, LenProperties, ElementOfSeq
<1>3. Known(en) \subseteq STRING
  BY <1>2 DEF Known
<1> QED BY <1>3, TermsAssumption

LEMMA ValueKnown ==
  ASSUME NEW e \in ValueExp, NEW en \in Env, Vars[e] \subseteq Known(en)
  PROVE  evalval(e, en) \in Int
<1> DEFINE K == Known(en)
           S == {x \in ValueExp : Vars[x] \subseteq K => evalval(x, en) \in Int}
<1>0. Nil \notin Int
  BY TermsAssumption
<1>1. ASSUME NEW x \in ValueExp, x.tk \notin {"VALUE", "ID"} => x.operands[1] \in S /\ x.operands[2] \in S
      PROVE  x \in S
  <2> SUFFICES ASSUME Vars[x] \subseteq K PROVE evalval(x, en) \in Int
    OBVIOUS
  <2>1. Vars[x] = IF x.tk = "VALUE" THEN {}
                  ELSE IF x.tk = "ID" THEN {x.id}
                  ELSE Vars[x.operands[1]] \cup Vars[x.operands[2]]
    BY VarsIs
  <2>2. CASE x.tk = "VALUE"
    BY <2>2, ValueAt, ValueParts
  <2>3. CASE x.tk = "ID"
    <3>1. x.id \in Known(en)
      BY <2>1, <2>3
    <3> QED BY <2>3, <3>1, ValueAt, LookupKnown
  <2>4. CASE x.tk \notin {"VALUE", "ID"}
    <3> HIDE DEF K
    <3>1. evalval(x.operands[1], en) \in Int /\ evalval(x.operands[2], en) \in Int
      BY <1>1, <2>1, <2>4
    <3> QED BY <1>0, <2>4, <3>1, ValueAt
  <2> QED BY <2>2, <2>3, <2>4
<1> HIDE DEF S
<1>2. ValueExp \subseteq S
  BY <1>1, ValueInduction
<1> QED BY <1>2 DEF S

LEMMA ListKnown ==
  ASSUME NEW es \in Seq(ValueExp), NEW en \in Env, Named(es) \subseteq Known(en)
  PROVE  evalval_ls(es, en) \in Seq(Int) /\ evalval_ls(es, en) # Nil /\ Len(evalval_ls(es, en)) = Len(es)
<1> DEFINE n == Len(es)
           vs == [i \in DOMAIN es |-> evalval(es[i], en)]
<1>0. Nil \notin Int /\ Nil \notin Seq(Int)
  BY TermsAssumption
<1>1. n \in Nat /\ DOMAIN es = 1 .. n
  BY LenProperties
<1>2. ASSUME NEW i \in 1 .. n
      PROVE  evalval(es[i], en) \in Int
  <2>1. es[i] \in ValueExp
    BY ElementOfSeq
  <2>2. Vars[es[i]] \subseteq Known(en)
    BY <1>1 DEF Named
  <2> QED BY <2>1, <2>2, ValueKnown
<1>3. vs \in [1 .. n -> Int] /\ DOMAIN vs = 1 .. n
  BY <1>1, <1>2
<1>4. evalval_ls(es, en) = IF Nil \in Range(vs) THEN Nil ELSE vs
  BY DEF evalval_ls
<1> HIDE DEF vs, n
<1>5. Nil \notin Range(vs)
  BY <1>0, <1>3 DEF Range
<1>6. vs \in Seq(Int)
  BY <1>1, <1>3, SeqDef
<1>7. Len(vs) = n
  BY <1>1, <1>3, <1>6, LenProperties
<1> QED BY <1>0, <1>4, <1>5, <1>6, <1>7 DEF n

LEMMA ReachableKnown ==
  ASSUME NEW en \in Env
  PROVE  Known(en) \subseteq Known(Reachable(en))
<1> DEFINE r == Reachable(en)
<1> SUFFICES ASSUME NEW x \in Known(en) PROVE x \in Known(r)
  OBVIOUS
<1>1. PICK p \in Range(en) : p.var = x /\ p.val = lookup1(x, en)
  BY LookupKnown
<1>2. Range(r) = {q \in Range(en) : lookup1(q.var, en) = q.val}
  BY ReachableTyped
<1>3. p \in Range(r)
  BY <1>1, <1>2
<1> HIDE DEF r
<1>4. \E i \in DOMAIN r : r[i] = p
  BY <1>3 DEF Range
<1> QED BY <1>1, <1>4 DEF Known

(* Parameters that get as many values are bound, beside what was bound.    *)
LEMMA BoundlsKnown ==
  ASSUME NEW xs \in Seq(STRING), NEW vs \in Seq(Int), Len(xs) = Len(vs), NEW en \in Env
  PROVE  /\ n_boundls(xs, vs, en) \in Env /\ n_boundls(xs, vs, en) # Nil
         /\ Range(xs) \cup Known(en) \subseteq Known(n_boundls(xs, vs, en))
<1> DEFINE P == [var : STRING, val : Int]
           n == Len(xs)
           b == [i \in DOMAIN xs |-> [var |-> xs[i], val |-> vs[i]]]
           r == Reverse(b)
           e1 == r \o en
<1>0. Nil \notin Seq(Int) /\ Nil \notin Env
  BY TermsAssumption
<1>1. n \in Nat /\ DOMAIN xs = 1 .. n /\ n = Len(vs)
  BY LenProperties
<1>2. ASSUME NEW i \in 1 .. n
      PROVE  xs[i] \in STRING /\ vs[i] \in Int
  BY <1>1, ElementOfSeq
<1>3. b \in [1 .. n -> P] /\ \A i \in 1 .. n : b[i].var = xs[i]
  BY <1>1, <1>2
<1>4. n_boundls(xs, vs, en) = IF Shadows THEN e1 ELSE Reachable(e1)
  BY <1>0 DEF n_boundls
<1> HIDE DEF b, n, P
<1>5. b \in Seq(P) /\ Len(b) = n
  <2>1. b \in Seq(P)
    BY <1>1, <1>3, SeqDef
  <2> QED BY <1>1, <1>3, <2>1, LenProperties
<1>6. r \in Seq(P) /\ Len(r) = n /\ \A i \in 1 .. n : r[i] = b[n - i + 1]
  BY <1>5, ReverseProperties
<1>7. en \in Seq(P) /\ Len(en) \in Nat /\ DOMAIN en = 1 .. Len(en)
  <2>1. en \in Seq(P)
    BY DEF Env, P
  <2> QED BY <2>1, LenProperties
<1> HIDE DEF r
<1>8. /\ e1 \in Seq(P) /\ Len(e1) = n + Len(en)
      /\ \A i \in 1 .. n : e1[i] = r[i]
      /\ \A i \in 1 .. Len(en) : e1[n + i] = en[i]
  <2>1. /\ e1 \in Seq(P) /\ Len(e1) = Len(r) + Len(en)
        /\ \A i \in 1 .. Len(r) + Len(en) : e1[i] = IF i <= Len(r) THEN r[i] ELSE en[i - Len(r)]
    <3>1. r \in Seq(P) /\ en \in Seq(P)
      BY <1>6, <1>7
    <3> QED BY <3>1, ConcatProperties
  <2> DEFINE m == Len(en)
  <2>2. /\ Len(e1) = n + m /\ m \in Nat
        /\ \A i \in 1 .. n + m : e1[i] = IF i <= n THEN r[i] ELSE en[i - n]
    BY <1>6, <1>7, <2>1
  <2> HIDE DEF m, e1
  <2>3. \A i \in 1 .. n : e1[i] = r[i]
    BY <1>1, <2>2
  <2>4. ASSUME NEW i \in 1 .. m
        PROVE  e1[n + i] = en[i]
    <3>1. n + i \in 1 .. n + m /\ ~(n + i <= n) /\ (n + i) - n = i
      BY <1>1, <2>2
    <3> QED BY <2>2, <3>1
  <2> QED BY <2>1, <2>2, <2>3, <2>4 DEF m
<1>9. e1 \in Env
  BY <1>8 DEF Env, P
<1>10. DOMAIN e1 = 1 .. n + Len(en)
  BY <1>8, LenProperties
<1> HIDE DEF e1
<1>11. Range(xs) \subseteq Known(e1)
  <2> SUFFICES ASSUME NEW i \in 1 .. n PROVE xs[i] \in Known(e1)
    BY <1>1 DEF Range
  <2>1. n - i + 1 \in 1 .. n /\ n - (n - i + 1) + 1 = i /\ n - i + 1 \in 1 .. n + Len(en)
    BY <1>1, <1>7
  <2>2. e1[n - i + 1] = b[i]
    BY <1>6, <1>8, <2>1
  <2>3. e1[n - i + 1].var = xs[i]
    BY <1>3, <2>2
  <2> QED BY <1>10, <2>1, <2>3 DEF Known
<1>12. Known(en) \subseteq Known(e1)
  <2> SUFFICES ASSUME NEW i \in 1 .. Len(en) PROVE en[i].var \in Known(e1)
    BY <1>7 DEF Known
  <2>1. n + i \in DOMAIN e1
    BY <1>1, <1>7, <1>10
  <2> QED BY <1>8, <2>1 DEF Known
<1>13. Reachable(e1) \in Env /\ Known(e1) \subseteq Known(Reachable(e1))
  BY <1>9, ReachableTyped, ReachableKnown
<1>14. n_boundls(xs, vs, en) \in {e1, Reachable(e1)}
  BY <1>4
<1>15. /\ e1 # Nil /\ Reachable(e1) # Nil
       /\ Range(xs) \cup Known(en) \subseteq Known(e1)
       /\ Range(xs) \cup Known(en) \subseteq Known(Reachable(e1))
  BY <1>0, <1>9, <1>11, <1>12, <1>13
<1> QED BY <1>9, <1>13, <1>14, <1>15
-----------------------------------------------------------------------------
(* What the functions on continuations lack.                               *)
LEMMA LacksHole ==
  ASSUME NEW t
  PROVE  Lacking(Hole, t) = {}
BY HoleIsExpression, LackingAt DEF LackOf

LEMMA LacksRecv ==
  ASSUME NEW x \in Expression, x.op = "RECV", NEW t
  PROVE  Lacking(x, t) = IF x.label = "accept" THEN Lacking(x.body, t)
                         ELSE (Lacking(x.body, t) \ Range(x.vars))
                                \cup Flaw(~isouter_action(x.label) /\ Len(x.vars) = t.carries[x.label])
<1>1. x # Hole
  BY DEF Hole
<1> QED BY <1>1, LackingAt, LackingFrom DEF LackOf

LEMMA LacksSend ==
  ASSUME NEW x \in Expression, x.op = "SEND", NEW t
  PROVE  Lacking(x, t) = Lacking(x.body, t) \cup Named(x.vals)
                           \cup Flaw(IF isouter_action(x.label) THEN x.label \notin BreakPoints
                                     ELSE Len(x.vals) = t.carries[x.label])
<1>1. x # Hole /\ x.op # "RECV"
  BY DEF Hole
<1> QED BY <1>1, LackingAt, LackingFrom DEF LackOf

LEMMA LacksBinary ==
  ASSUME NEW x \in Expression, isbinary(x), NEW t
  PROVE  Lacking(x, t) = Lacking(x.left, t) \cup Lacking(x.right, t)
<1>1. x # Hole /\ x.op # "RECV" /\ x.op # "SEND"
  BY DEF Hole, isbinary
<1> QED BY <1>1, LackingAt, LackingFrom DEF LackOf

LEMMA LacksIf ==
  ASSUME NEW x \in Expression, x.op = "IF", NEW t
  PROVE  Lacking(x, t) = Vars[x.cond] \cup Lacking(x.then, t) \cup Lacking(x.else, t)
<1>1. x # Hole /\ x.op # "RECV" /\ x.op # "SEND" /\ ~isbinary(x)
  BY DEF Hole, isbinary
<1> QED BY <1>1, LackingAt, LackingFrom DEF LackOf

LEMMA LacksCls ==
  ASSUME NEW x \in Expression, x.op = "CLS", NEW t
  PROVE  Lacking(x, t) = Flaw(Lacking(x.body, t) \subseteq Known(x.env))
<1>1. x # Hole /\ x.op # "RECV" /\ x.op # "SEND" /\ ~isbinary(x) /\ x.op # "IF"
  BY DEF Hole, isbinary
<1> QED BY <1>1, LackingAt, LackingFrom DEF LackOf

LEMMA LacksPrimitive ==
  ASSUME NEW x \in Expression, x.op = "CON", NEW t,
         ~isabort(x.name), ~isstop(x.name), isprimagnt(x.name)
  PROVE  Lacking(x, t) = Named(x.args)
<1>1. x # Hole /\ x.op # "RECV" /\ x.op # "SEND" /\ ~isbinary(x) /\ x.op # "IF" /\ x.op # "CLS"
  BY DEF Hole, isbinary
<1> QED BY <1>1, LackingAt DEF LackOf

LEMMA LacksCon ==
  ASSUME NEW x \in Expression, x.op = "CON", NEW t,
         ~(isabort(x.name) \/ isstop(x.name) \/ isprimagnt(x.name))
  PROVE  Lacking(x, t) = IF x.name \notin DOMAIN t.needs THEN {Nil}
                         ELSE Named(x.args) \cup t.needs[x.name]
                                \cup Flaw(Len(x.args) = Len(Procs[x.name].params))
<1>1. x # Hole /\ x.op # "RECV" /\ x.op # "SEND" /\ ~isbinary(x) /\ x.op # "IF" /\ x.op # "CLS"
  BY DEF Hole, isbinary
<1> QED BY <1>1, LackingAt DEF LackOf

(* What resume() puts into the hole.                                       *)
LEMMA FilledLacks ==
  ASSUME NEW k, NEW c \in Expression, Filled(k, c) \in Expression, NEW t
  PROVE  Lacking(Filled(k, c), t) \subseteq Lacking(c, t) \cup Lacking(k, t)
<1> DEFINE S == {x \in Expression : Filled(k, x) \in Expression =>
                                      Lacking(Filled(k, x), t) \subseteq Lacking(x, t) \cup Lacking(k, t)}
<1>1. ASSUME NEW x \in Expression, Within(x) \subseteq S
      PROVE  x \in S
  <2> SUFFICES ASSUME Filled(k, x) \in Expression
               PROVE  Lacking(Filled(k, x), t) \subseteq Lacking(x, t) \cup Lacking(k, t)
    OBVIOUS
  <2>1. CASE x = Hole
    <3>1. Filled(k, x) = k
      BY <2>1, FilledHole
    <3> QED BY <3>1
  <2>2. CASE isbinary(x)
    <3> DEFINE f == Filled(k, x)
               l == Filled(k, x.left)
               r == Filled(k, x.right)
    <3>1. f = [op |-> x.op, left |-> l, right |-> r]
      BY <2>2, FilledBinary
    <3> HIDE DEF l, r
    <3>2. f.op = x.op /\ f.left = l /\ f.right = r
      BY <3>1
    <3> HIDE DEF f
    <3>3. f \in Expression /\ isbinary(f)
      BY <2>2, <3>2 DEF f, isbinary
    <3>4. l \in Expression /\ r \in Expression
      BY <3>2, <3>3, BinaryParts
    <3>5. Lacking(f, t) = Lacking(l, t) \cup Lacking(r, t)
      BY <3>2, <3>3, LacksBinary
    <3>6. Lacking(x, t) = Lacking(x.left, t) \cup Lacking(x.right, t)
      BY <2>2, LacksBinary
    <3>7. x.left \in S /\ x.right \in S
      BY <1>1, <2>2 DEF Within, isbinary
    <3>8. /\ Lacking(l, t) \subseteq Lacking(x.left, t) \cup Lacking(k, t)
          /\ Lacking(r, t) \subseteq Lacking(x.right, t) \cup Lacking(k, t)
      BY <3>4, <3>7 DEF l, r
    <3>9. Lacking(f, t) \subseteq Lacking(x, t) \cup Lacking(k, t)
      BY <3>5, <3>6, <3>8
    <3> QED BY <3>9 DEF f
  <2>3. CASE ~isbinary(x) /\ x # Hole
    <3>1. Filled(k, x) = x
      BY <2>3, FilledOther
    <3> QED BY <3>1
  <2> QED BY <2>1, <2>2, <2>3
<1> HIDE DEF S
<1>2. Expression \subseteq S
  BY <1>1, TermInduction
<1> QED BY <1>2 DEF S

(* A closure lacks nothing when its environment binds what its body lacks. *)
LEMMA ClosureLacks ==
  ASSUME NEW e \in Expression, NEW en \in Env, make_cls(e, en) \in Expression,
         NEW t, Lacking(e, t) \subseteq Known(en)
  PROVE  Lacking(make_cls(e, en), t) = {}
<1> DEFINE k == make_cls(e, en)
<1>1. CASE e.op = "CLS"
  <2>1. k = e
    BY <1>1 DEF make_cls
  <2>2. Lacking(e, t) \subseteq {Nil}
    BY <1>1, LacksCls DEF Flaw
  <2>3. Lacking(e, t) = {}
    BY <2>2, KnownAreNames
  <2> QED BY <2>1, <2>3
<1>2. CASE e.op # "CLS"
  <2>1. k = CLS(e, en)
    BY <1>2 DEF make_cls
  <2> HIDE DEF k
  <2>2. k.op = "CLS" /\ k.body = e /\ k.env = en
    BY <2>1 DEF CLS
  <2>3. k \in Expression
    BY DEF k
  <2>4. Lacking(k, t) = Flaw(Lacking(e, t) \subseteq Known(en))
    BY <2>2, <2>3, LacksCls
  <2>5. Lacking(k, t) = {}
    BY <2>4 DEF Flaw
  <2> QED BY <2>5 DEF k
<1> QED BY <1>1, <1>2

LEMMA SiblingLacks ==
  ASSUME NEW c \in Expression, NEW t
  PROVE  Lacking(Sibling(c), t) \subseteq Lacking(c, t)
<1>1. isbinary(c) => Lacking(c, t) = Lacking(c.left, t) \cup Lacking(c.right, t)
  BY LacksBinary
<1>2. Sibling(c) \in {c} \cup (IF isbinary(c) THEN {c.left, c.right} ELSE {})
  BY DEF Sibling
<1> QED BY <1>1, <1>2

LEMMA ComLacks ==
  ASSUME NEW l, NEW r, COM(l, r) \in Expression, NEW t
  PROVE  Lacking(COM(l, r), t) = Lacking(l, t) \cup Lacking(r, t)
<1> DEFINE c == COM(l, r)
<1>1. c \in Expression /\ c.op = "COM" /\ c.left = l /\ c.right = r
  BY ComFields
<1> HIDE DEF c
<1>2. isbinary(c)
  BY <1>1 DEF isbinary
<1>3. Lacking(c, t) = Lacking(l, t) \cup Lacking(r, t)
  BY <1>1, <1>2, LacksBinary
<1> QED BY <1>3 DEF c

LEMMA SwitchLacks ==
  ASSUME NEW k, k # Hole, NEW c \in Expression, Context[c], c # Hole,
         make_switch(k, c) \in Expression,
         NEW t, Lacking(k, t) = {}, Lacking(c, t) = {}
  PROVE  Lacking(make_switch(k, c), t) = {}
<1>0. /\ c.op = "COM" /\ isbinary(c) /\ c.left \in Expression /\ c.right \in Expression
      /\ resume(k, c) = Filled(k, c)
  BY ContextCases, ResumeIs
<1> DEFINE l == Filled(k, c.left)
           r == Filled(k, c.right)
           s == make_switch(k, c)
<1>1. Filled(k, c) = [op |-> "COM", left |-> l, right |-> r]
  BY <1>0, FilledBinary
<1>2. ishole(c.left) \/ ishole(c.right)
  BY <1>0, ContextCases, ContextHole
<1>3. s \in {COM(l, Hole), COM(Hole, r)}
  BY <1>0, <1>1, <1>2 DEF make_switch, COM
<1>4. Lacking(c.left, t) = {} /\ Lacking(c.right, t) = {}
  <2>1. Lacking(c, t) = Lacking(c.left, t) \cup Lacking(c.right, t)
    BY <1>0, LacksBinary
  <2> QED BY <2>1
<1>5. CASE s = COM(l, Hole)
  <2>1. l \in Expression /\ COM(l, Hole) \in Expression
    BY <1>5, ComParts
  <2>2. Lacking(l, t) = {}
    BY <1>0, <1>4, <2>1, FilledLacks
  <2> HIDE DEF l
  <2>3. Lacking(COM(l, Hole), t) = Lacking(l, t) \cup Lacking(Hole, t)
    BY <2>1, ComLacks
  <2> HIDE DEF s
  <2> QED BY <1>5, <2>2, <2>3, LacksHole DEF s
<1>6. CASE s = COM(Hole, r)
  <2>1. r \in Expression /\ COM(Hole, r) \in Expression
    BY <1>6, ComParts
  <2>2. Lacking(r, t) = {}
    BY <1>0, <1>4, <2>1, FilledLacks
  <2> HIDE DEF r
  <2>3. Lacking(COM(Hole, r), t) = Lacking(Hole, t) \cup Lacking(r, t)
    BY <2>1, ComLacks
  <2> HIDE DEF s
  <2> QED BY <1>6, <2>2, <2>3, LacksHole DEF s
<1> QED BY <1>3, <1>5, <1>6

LEMMA ContLacks ==
  ASSUME NEW side \in {"LEFT", "RIGHT"}, NEW e \in Expression, e.op = "COM",
         NEW c \in Expression, Context[c], NEW en \in Env, make_cont(side, e, c, en) \in Expression,
         NEW t, Lacking(e, t) \subseteq Known(en), Lacking(c, t) = {}
  PROVE  Lacking(make_cont(side, e, c, en), t) = {}
<1> DEFINE l == make_cls(e.left, en)
           r == make_cls(e.right, en)
           inner == IF side = "LEFT" THEN COM(Hole, r) ELSE COM(l, Hole)
<1>1. e.left \in Expression /\ e.right \in Expression
  BY Binary
<1>2. Lacking(e.left, t) \subseteq Known(en) /\ Lacking(e.right, t) \subseteq Known(en)
  BY LacksBinary DEF isbinary
<1>3. make_cont(side, e, c, en) = Filled(inner, c)
  BY ResumeIs, ComFields DEF make_cont
<1>4. Fits(inner, c)
  <2> HIDE DEF inner
  <2> QED BY <1>3, FilledFits
<1>5. inner \in Expression
  <2> HIDE DEF inner
  <2> QED BY <1>4 DEF Fits
<1>6. Lacking(inner, t) = {}
  <2>1. CASE side = "LEFT"
    <3>1. inner = COM(Hole, r)
      BY <2>1
    <3>2. r \in Expression
      BY <1>5, <3>1, ComParts
    <3>3. Lacking(r, t) = {}
      BY <1>1, <1>2, <3>2, ClosureLacks
    <3> HIDE DEF r
    <3>4. Lacking(COM(Hole, r), t) = Lacking(Hole, t) \cup Lacking(r, t)
      BY <1>5, <3>1, ComLacks
    <3> HIDE DEF inner
    <3> QED BY <3>1, <3>3, <3>4, LacksHole
  <2>2. CASE side # "LEFT"
    <3>1. inner = COM(l, Hole)
      BY <2>2
    <3>2. l \in Expression
      BY <1>5, <3>1, ComParts
    <3>3. Lacking(l, t) = {}
      BY <1>1, <1>2, <3>2, ClosureLacks
    <3> HIDE DEF l
    <3>4. Lacking(COM(l, Hole), t) = Lacking(l, t) \cup Lacking(Hole, t)
      BY <1>5, <3>1, ComLacks
    <3> HIDE DEF inner
    <3> QED BY <3>1, <3>3, <3>4, LacksHole
  <2> QED BY <2>1, <2>2
<1> HIDE DEF inner
<1>7. Lacking(Filled(inner, c), t) \subseteq Lacking(c, t) \cup Lacking(inner, t)
  BY <1>3, FilledLacks
<1> QED BY <1>3, <1>6, <1>7
-----------------------------------------------------------------------------
(* The definitions that a typing is about lack no more than it says.       *)
Fitting(t) ==
  /\ DOMAIN t.needs \subseteq DOMAIN Procs
  /\ \A n \in DOMAIN t.needs :
       /\ t.needs[n] \subseteq STRING
       /\ Lacking(Procs[n].body, t) \subseteq t.needs[n] \cup Range(Procs[n].params)

LEMMA DefinitionLacks ==
  ASSUME NEW t, Fitting(t), NEW n \in DOMAIN t.needs
  PROVE  /\ n \in DOMAIN Procs /\ Procs[n].body \in AgentExp /\ Procs[n].params \in Seq(STRING)
         /\ Lacking(Procs[n].body, t) \subseteq t.needs[n] \cup Range(Procs[n].params)
         /\ Nil \notin Lacking(Procs[n].body, t)
<1> DEFINE xs == Procs[n].params
<1>1. n \in DOMAIN Procs /\ Procs[n].body \in AgentExp /\ xs \in Seq(STRING) /\ Nil \notin STRING
  BY TermsAssumption DEF Fitting
<1>2. /\ t.needs[n] \subseteq STRING
      /\ Lacking(Procs[n].body, t) \subseteq t.needs[n] \cup Range(xs)
  BY DEF Fitting
<1> HIDE DEF xs
<1>3. Range(xs) \subseteq STRING
  BY <1>1, LenProperties, ElementOfSeq DEF Range
<1> QED BY <1>1, <1>2, <1>3 DEF xs

(* The test of an expression without a flaw is no error on a channel that  *)
(* is not lost.                                                            *)
LEMMA TestsSound ==
  ASSUME NEW t, Fitting(t), NEW full, full # Nil,
         NEW e \in AgentExp, Nil \notin Lacking(e, t)
  PROVE  derivatives(e, full) \notin {"warning", "fatal"}
<1> DEFINE Fine(v) == v \notin {"warning", "fatal"}
           Sound(n, x) == NoHole[x] /\ Nil \notin Lacking(x, t) => Fine(Unfolding(full)[n][x])
           G == {n \in Nat : \A x \in Expression : Sound(n, x)}
<1>1. ASSUME NEW n \in Nat,
             \A x \in Expression : NoHole[x] /\ Nil \notin Lacking(x, t) => Fine(Unfolded(n, full)[x])
      PROVE  n \in G
  <2> DEFINE S == {x \in Expression : Sound(n, x)}
  <2>1. ASSUME NEW x \in Expression, Within(x) \subseteq S
        PROVE  x \in S
    <3> SUFFICES ASSUME NoHole[x], Nil \notin Lacking(x, t) PROVE Fine(Unfolding(full)[n][x])
      OBVIOUS
    <3>1. CASE x.op \in {"RECV", "SEND"}
      <4>1. Unfolding(full)[n][x] = derivatives1(x.op, x.label, full)
        BY <3>1, TestPrefix
      <4> QED BY <4>1 DEF derivatives1
    <3>2. CASE x.op \in {"SUM", "COM"}
      <4>1. Unfolding(full)[n][x] = IF Unfolding(full)[n][x.left] = "no"
                                 THEN Unfolding(full)[n][x.right] ELSE Unfolding(full)[n][x.left]
        BY <3>2, TestBinary
      <4>2. NoHole[x.left] /\ NoHole[x.right]
        BY <3>2, NoHoleAt
      <4>3. Nil \notin Lacking(x.left, t) /\ Nil \notin Lacking(x.right, t)
        BY <3>2, LacksBinary DEF isbinary
      <4>4. Sound(n, x.left) /\ Sound(n, x.right)
        BY <2>1, <3>2 DEF Within
      <4> QED BY <4>1, <4>2, <4>3, <4>4
    <3>3. CASE x.op = "IF"
      <4>1. Unfolding(full)[n][x] = "yes"
        BY <3>3, TestCond
      <4> QED BY <4>1
    <3>4. CASE x.op = "CLS"
      <4>1. Unfolding(full)[n][x] = Unfolding(full)[n][x.body]
        BY <3>4, TestClosure
      <4>2. NoHole[x.body] /\ x.env \in Env
        BY <3>4, NoHoleAt, Closure1
      <4>3. Lacking(x.body, t) \subseteq Known(x.env)
        BY <3>4, LacksCls DEF Flaw
      <4>4. Nil \notin Lacking(x.body, t)
        BY <4>2, <4>3, KnownAreNames
      <4>5. Sound(n, x.body)
        BY <2>1, <3>4 DEF Within
      <4> QED BY <4>1, <4>2, <4>4, <4>5
    <3>5. CASE x.op \notin {"RECV", "SEND", "SUM", "COM", "IF", "CLS"}
      <4>1. Unfolding(full)[n][x] = UnfoldedOf(x, Unfolded(n, full))
        BY <3>5, TestConstant
      <4>2. x.op = "CON"
        BY <3>5, Operators, NoHoleAt
      <4>3. CASE isabort(x.name) \/ isstop(x.name) \/ isprimagnt(x.name)
        BY <4>1, <4>3 DEF UnfoldedOf
      <4>4. CASE ~(isabort(x.name) \/ isstop(x.name) \/ isprimagnt(x.name))
        <5>1. Lacking(x, t) = IF x.name \notin DOMAIN t.needs THEN {Nil}
                              ELSE Named(x.args) \cup t.needs[x.name]
                                     \cup Flaw(Len(x.args) = Len(Procs[x.name].params))
          BY <4>2, <4>4, LacksCon
        <5>2. x.name \in DOMAIN t.needs /\ Len(x.args) = Len(Procs[x.name].params)
          BY <5>1 DEF Flaw
        <5> DEFINE b == Procs[x.name].body
        <5>3. x.name \in DOMAIN Procs /\ b \in AgentExp /\ Nil \notin Lacking(b, t)
          BY <5>2, DefinitionLacks
        <5>4. b \in Expression /\ NoHole[b]
          BY <5>3, AgentIs
        <5>5. Fine(Unfolded(n, full)[b])
          BY <1>1, <5>3, <5>4
        <5>6. UnfoldedOf(x, Unfolded(n, full)) = Unfolded(n, full)[b]
          BY <4>4, <5>2, <5>3 DEF UnfoldedOf
        <5> QED BY <4>1, <5>5, <5>6
      <4> QED BY <4>3, <4>4
    <3> QED BY <3>1, <3>2, <3>3, <3>4, <3>5
  <2>2. Expression \subseteq S
    <3> HIDE DEF S
    <3> QED BY <2>1, TermInduction
  <2> QED BY <2>2
<1>2. 0 \in G
  <2>1. \A x \in Expression : Unfolded(0, full)[x] = "diverged"
    BY DEF Unfolded
  <2>2. \A x \in Expression : NoHole[x] /\ Nil \notin Lacking(x, t) => Fine(Unfolded(0, full)[x])
    BY <2>1
  <2> HIDE DEF G
  <2> QED BY <1>1, <2>2
<1>3. ASSUME NEW n \in Nat, n \in G
      PROVE  n + 1 \in G
  <2>1. Unfolded(n + 1, full) = Unfolding(full)[n]
    <3>1. n + 1 # 0 /\ (n + 1) - 1 = n
      OBVIOUS
    <3> QED BY <3>1 DEF Unfolded
  <2>2. \A x \in Expression : NoHole[x] /\ Nil \notin Lacking(x, t) => Fine(Unfolded(n + 1, full)[x])
    BY <1>3, <2>1
  <2> HIDE DEF G
  <2> QED BY <1>1, <2>2
<1>4. Nat \subseteq G
  <2> HIDE DEF G
  <2> QED BY <1>2, <1>3, NatSetInduction
<1>5. Sound(Cardinality(DOMAIN Procs), e)
  BY <1>4, DerivativesIs, AgentIs
<1> QED BY <1>5, DerivativesIs, AgentIs
-----------------------------------------------------------------------------
(* What holds of a closed program as it runs: what is evaluated lacks      *)
(* nothing that its environment does not bind, the continuation lacks      *)
(* nothing, and the channel is there and its messages carry what the       *)
(* typing says.                                                            *)
Carrying(t) == ch # Nil /\ \A i \in 1 .. Len(ch) : Len(ch[i].value) = t.carries[ch[i].label]

Provided(t) ==
  /\ Lacking(exp, t) \subseteq Known(env)
  /\ Lacking(cont, t) = {}
  /\ Carrying(t)
  /\ status \notin {"warning", "fatal"}

LEMMA CallProvides ==
  ASSUME NEW t, NEW e1, NEW en1, NEW c1, Call(e1, en1, c1), status = "running",
         Lacking(e1, t) \subseteq Known(en1), Lacking(c1, t) = {}, Carrying(t)'
  PROVE  Provided(t)'
<1>1. exp' = e1 /\ env' = en1 /\ cont' = c1 /\ status' = "running"
  BY DEF Call
<1> QED BY <1>1 DEF Provided

LEMMA ReturnProvides ==
  ASSUME NEW t, IInv, Provided(t), NEW k, k # Hole, Call(resume(k, cont), env, Hole), status = "running",
         k \in Expression => Lacking(k, t) \subseteq Known(env), Carrying(t)'
  PROVE  Provided(t)'
<1> DEFINE f == Filled(k, cont)
<1>1. resume(k, cont) = f
  BY ResumeIs
<1>2. f \in Expression
  BY <1>1 DEF Call
<1>3. cont \in Expression /\ Context[cont]
  BY DEF IInv, Called, Placed
<1>4. k \in Expression
  BY <1>2, <1>3, FilledFits DEF Fits
<1>5. Lacking(f, t) \subseteq Lacking(cont, t) \cup Lacking(k, t)
  BY <1>2, <1>3, FilledLacks
<1> HIDE DEF f
<1>6. Lacking(f, t) \subseteq Known(env)
  BY <1>4, <1>5 DEF Provided
<1>7. Call(f, env, Hole)
  BY <1>1
<1> QED BY <1>6, <1>7, LacksHole, CallProvides

LEMMA CloseProvides ==
  ASSUME NEW t, IInv, Provided(t), NEW b \in AgentExp, NEW en1 \in Env,
         Call(resume(make_cls(b, en1), cont), env, Hole), status = "running",
         Lacking(b, t) \subseteq Known(en1), Carrying(t)'
  PROVE  Provided(t)'
<1> DEFINE k == make_cls(b, en1)
<1>1. k # Hole
  BY Closing
<1>2. ASSUME k \in Expression
      PROVE  Lacking(k, t) \subseteq Known(env)
  BY <1>2, ClosureLacks, AgentIs
<1>3. Call(resume(k, cont), env, Hole)
  OBVIOUS
<1> HIDE DEF k
<1> QED BY <1>1, <1>2, <1>3, ReturnProvides

LEMMA StopProvides ==
  ASSUME NEW t, Provided(t), NEW s, Stop(s), s \notin {"warning", "fatal"}
  PROVE  Provided(t)'
<1>1. status' = s /\ exp' = exp /\ env' = env /\ cont' = cont /\ ch' = ch
  BY DEF Stop
<1> QED BY <1>1 DEF Provided, Carrying

LEMMA SameCarrying ==
  ASSUME NEW t, Provided(t), ch' = ch
  PROVE  Carrying(t)'
BY DEF Provided, Carrying

(* The channel is not lost, and the test of what is evaluated is no error. *)
LEMMA FullIs ==
  ASSUME NEW t, Provided(t)
  PROVE  ch # Nil /\ Full = {l \in Label : istrans_in_act(ch, l)} /\ Full # Nil
<1>1. ch # Nil
  BY DEF Provided, Carrying
<1>2. Full = {l \in Label : istrans_in_act(ch, l)}
  BY <1>1 DEF Full
<1>3. Full \in SUBSET Label
  BY <1>2
<1> QED BY <1>1, <1>2, <1>3, TermsAssumption

LEMMA ExpProvided ==
  ASSUME NEW t, IInv, Provided(t)
  PROVE  /\ exp \in AgentExp /\ exp \in Expression /\ env \in Env
         /\ cont \in Expression /\ Context[cont]
         /\ Nil \notin Lacking(exp, t)
<1>1. exp \in AgentExp /\ exp \in Expression /\ env \in Env /\ cont \in Expression /\ Context[cont]
  BY AgentIs DEF IInv, Called, Placed
<1> QED BY <1>1, KnownAreNames DEF Provided

LEMMA TestProvided ==
  ASSUME NEW t, Fitting(t), IInv, Provided(t)
  PROVE  istrans(exp) \notin {"warning", "fatal"}
<1>1. Full # Nil
  BY FullIs
<1>2. exp \in AgentExp /\ Nil \notin Lacking(exp, t)
  BY ExpProvided
<1>3. derivatives(exp, Full) \notin {"warning", "fatal"}
  BY <1>1, <1>2, TestsSound
<1> QED BY <1>3 DEF istrans
-----------------------------------------------------------------------------
(* The values that an output writes, the ones that an input finds, and the *)
(* arguments of a constant are as many as the typing says.                 *)
LEMMA OutputProvided ==
  ASSUME NEW t, IInv, Provided(t), exp.op = "SEND"
  PROVE  /\ Output \in Value /\ Output # Nil
         /\ isouter_action(exp.label) => exp.label \notin BreakPoints
         /\ ~isouter_action(exp.label) => Len(Output) = t.carries[exp.label]
         /\ Lacking(exp.body, t) \subseteq Known(env)
<1>1. exp \in Expression /\ env \in Env /\ Nil \notin Lacking(exp, t)
  BY ExpProvided
<1>2. Lacking(exp, t) = Lacking(exp.body, t) \cup Named(exp.vals)
                          \cup Flaw(IF isouter_action(exp.label) THEN exp.label \notin BreakPoints
                                    ELSE Len(exp.vals) = t.carries[exp.label])
  BY <1>1, LacksSend
<1>3. IF isouter_action(exp.label) THEN exp.label \notin BreakPoints
      ELSE Len(exp.vals) = t.carries[exp.label]
  BY <1>1, <1>2 DEF Flaw
<1>4. exp.vals \in Seq(ValueExp) /\ Named(exp.vals) \subseteq Known(env)
  BY <1>1, <1>2, ListParts DEF Provided
<1>5. Output \in Value /\ Output # Nil /\ Len(Output) = Len(exp.vals)
  BY <1>1, <1>4, ListKnown DEF Output, Value
<1> QED BY <1>2, <1>3, <1>5 DEF Provided

LEMMA InputProvided ==
  ASSUME NEW t, IInv, Provided(t), exp.op = "RECV", exp.label # "accept"
  PROVE  /\ ~isouter_action(exp.label)
         /\ Len(exp.vars) = t.carries[exp.label]
         /\ exp.vars \in Seq(STRING)
         /\ Lacking(exp.body, t) \subseteq Range(exp.vars) \cup Known(env)
<1>1. exp \in Expression /\ env \in Env /\ Nil \notin Lacking(exp, t)
  BY ExpProvided
<1>2. Lacking(exp, t) = (Lacking(exp.body, t) \ Range(exp.vars))
                          \cup Flaw(~isouter_action(exp.label) /\ Len(exp.vars) = t.carries[exp.label])
  BY <1>1, LacksRecv
<1>3. ~isouter_action(exp.label) /\ Len(exp.vars) = t.carries[exp.label]
  BY <1>1, <1>2 DEF Flaw
<1>4. exp.vars \in Seq(STRING)
  BY <1>1, ListParts
<1> QED BY <1>2, <1>3, <1>4 DEF Provided

LEMMA ArgumentsProvided ==
  ASSUME NEW t, Fitting(t), IInv, Provided(t), Defined
  PROVE  /\ exp.name \in DOMAIN Procs /\ Procs[exp.name].body \in AgentExp
         /\ Arguments \in Env /\ Arguments # Nil
         /\ Lacking(Procs[exp.name].body, t) \subseteq Known(Arguments)
<1> DEFINE n == exp.name
           b == Procs[exp.name].body
           xs == Procs[exp.name].params
           vs == evalval_ls(exp.args, env)
<1>1. exp \in Expression /\ env \in Env /\ Nil \notin Lacking(exp, t) /\ exp.op = "CON"
  BY ExpProvided DEF Defined, Running
<1>2. Lacking(exp, t) = IF n \notin DOMAIN t.needs THEN {Nil}
                        ELSE Named(exp.args) \cup t.needs[n] \cup Flaw(Len(exp.args) = Len(xs))
  BY <1>1, LacksCon DEF Defined
<1>3. n \in DOMAIN t.needs /\ Len(exp.args) = Len(xs)
  BY <1>1, <1>2 DEF Flaw
<1>4. Named(exp.args) \subseteq Known(env) /\ t.needs[n] \subseteq Known(env)
  BY <1>2, <1>3 DEF Provided
<1>5. /\ n \in DOMAIN Procs /\ b \in AgentExp /\ xs \in Seq(STRING)
      /\ Lacking(b, t) \subseteq t.needs[n] \cup Range(xs)
  BY <1>3, DefinitionLacks
<1>6. exp.args \in Seq(ValueExp)
  BY <1>1, ListParts
<1>7. vs \in Seq(Int) /\ Len(vs) = Len(xs)
  BY <1>1, <1>3, <1>4, <1>6, ListKnown
<1>8. Arguments = n_boundls(xs, vs, env)
  BY <1>5 DEF Arguments
<1> HIDE DEF vs, xs
<1>9. /\ n_boundls(xs, vs, env) \in Env /\ n_boundls(xs, vs, env) # Nil
      /\ Range(xs) \cup Known(env) \subseteq Known(n_boundls(xs, vs, env))
  BY <1>1, <1>5, <1>7, BoundlsKnown
<1> QED BY <1>4, <1>5, <1>8, <1>9

(* What a message carries is what lookup finds.                            *)
LEMMA MessageProvided ==
  ASSUME NEW t, IInv, Provided(t), NEW l \in Label, istrans_in_act(ch, l)
  PROVE  /\ lookup_ch1(ch, l) \in Value /\ Len(lookup_ch1(ch, l)) = t.carries[l]
         /\ ch' = delete(Msg(l, lookup_ch1(ch, l)), ch) => Carrying(t)'
<1>1. ch # Nil /\ ch \in Seq(Message) /\ OnePerLabel(ch)
  BY DEF Provided, Carrying, IInv, ChannelOK
<1>2. PICK i \in 1 .. Len(ch) : ch[i].label = l
  BY <1>1, TransIffCarried
<1>3. lookup_ch1(ch, l) = ch[i].value
  BY <1>1, <1>2, LookupFound
<1>4. ch[i] \in Message
  BY <1>1, <1>2, ElementOfSeq
<1>5. Len(ch[i].value) = t.carries[l]
  BY <1>2 DEF Provided, Carrying
<1> DEFINE d == RemoveAt(ch, i)
<1>6. delete(Msg(l, lookup_ch1(ch, l)), ch) = d
  <2>1. Msg(l, lookup_ch1(ch, l)) = ch[i]
    BY <1>2, <1>3, <1>4 DEF Msg, Message
  <2> QED BY <1>1, <2>1, DeleteFound
<1>7. /\ d \in Seq(Message) /\ Len(d) = Len(ch) - 1
      /\ \A j \in 1 .. Len(ch) - 1 : d[j] = IF j < i THEN ch[j] ELSE ch[j + 1]
  BY <1>1, RemoveAtProperties
<1>8. Len(ch) \in Nat
  BY <1>1, LenProperties
<1> HIDE DEF d
<1>9. \A j \in 1 .. Len(d) : Len(d[j].value) = t.carries[d[j].label]
  <2> SUFFICES ASSUME NEW j \in 1 .. Len(d) PROVE Len(d[j].value) = t.carries[d[j].label]
    OBVIOUS
  <2>1. \E k \in 1 .. Len(ch) : d[j] = ch[k]
    BY <1>7, <1>8
  <2> QED BY <2>1 DEF Provided, Carrying
<1>10. d # Nil
  <2> DEFINE M == [label : Label \cup Outer, value : Seq(Int)]
  <2>1. Message \subseteq M
    BY DEF Message, Value
  <2>2. Nil \notin Seq(M)
    BY TermsAssumption
  <2> HIDE DEF M
  <2>3. d \in Seq(M)
    BY <1>7, <2>1
  <2> QED BY <2>2, <2>3
<1>11. ASSUME ch' = d
       PROVE  Carrying(t)'
  BY <1>9, <1>10, <1>11 DEF Carrying
<1> QED BY <1>3, <1>4, <1>5, <1>6, <1>11 DEF Message

(* One lemma for each action.                                              *)
LEMMA SendProvides ==
  ASSUME NEW t, IInv, Provided(t), exp.op = "SEND", status = "running", AfterSend, Carrying(t)'
  PROVE  Provided(t)'
<1>1. /\ exp.body \in AgentExp /\ env \in Env /\ cont \in Expression /\ Context[cont]
  BY PrefixParts, ExpProvided
<1>2. Lacking(exp.body, t) \subseteq Known(env)
  BY OutputProvided
<1> DEFINE k == make_cls(exp.body, env)
<1>3. k # Hole /\ (k \in Expression => Lacking(k, t) = {} /\ Suspended[k])
  BY <1>1, <1>2, Closing, ClosureLacks, AgentIs
<1>4. CASE cont # Hole
  <2> DEFINE r == resume(Hole, cont)
             s == make_switch(k, cont)
  <2>1. Call(r, env, s)
    BY <1>4 DEF AfterSend
  <2>2. s \in Expression
    BY <2>1 DEF Call
  <2>3. Lacking(r, t) \subseteq Known(env)
    <3>1. r = Sibling(cont)
      BY DEF resume
    <3>2. Lacking(r, t) \subseteq Lacking(cont, t)
      BY <1>1, <3>1, SiblingLacks
    <3> QED BY <3>2 DEF Provided
  <2> HIDE DEF k
  <2>4. k \in Expression
    BY <1>1, <1>3, <1>4, <2>2, SwitchIs
  <2>5. Lacking(s, t) = {}
    <3>1. Lacking(k, t) = {} /\ Lacking(cont, t) = {}
      BY <1>3, <2>4 DEF Provided
    <3> QED BY <1>1, <1>3, <1>4, <2>2, <3>1, SwitchLacks
  <2> HIDE DEF r, s
  <2> QED BY <2>1, <2>3, <2>5, CallProvides
<1>5. CASE cont = Hole
  <2> DEFINE e1 == IF isouter_action(exp.label) THEN k ELSE exp.body
  <2>1. Call(e1, env, Hole)
    BY <1>5 DEF AfterSend
  <2>2. e1 \in Expression
    BY <2>1 DEF Call
  <2> HIDE DEF k
  <2>3. Lacking(e1, t) \subseteq Known(env)
    BY <1>2, <1>3, <2>2
  <2> HIDE DEF e1
  <2> QED BY <2>1, <2>3, LacksHole, CallProvides
<1> QED BY <1>4, <1>5

LEMMA SendInnerProvides ==
  ASSUME NEW t, IInv, Provided(t), SendInner
  PROVE  Provided(t)'
<1> DEFINE l == exp.label
           v == Output
           m == Msg(l, v)
<1>1. /\ Called /\ status = "running" /\ exp.op = "SEND" /\ ~isouter_action(l)
      /\ ch' = n_bound_ch(ch, l, v) /\ AfterSend
  BY DEF IInv, SendInner, Running
<1>2. l \in Label /\ v \in Value /\ Len(v) = t.carries[l]
  BY <1>1, InnerLabel, OutputProvided
<1>3. ch # Nil /\ ch \in Seq(Message)
  BY DEF Provided, Carrying, IInv, ChannelOK
<1> HIDE DEF l, v
<1>4. m \in Message /\ m.label = l /\ m.value = v
  BY <1>2 DEF Msg, Message
<1> HIDE DEF m
<1>5. <<m>> \in Seq(Message) /\ Len(<<m>>) = 1 /\ <<m>>[1] = m
  BY <1>4
<1>6. ch' = <<m>> \o ch
  BY <1>1 DEF n_bound_ch, Cons, m
<1> DEFINE d == <<m>> \o ch
<1>7. Len(ch) \in Nat
  BY <1>3, LenProperties
<1>8. /\ d \in Seq(Message)
      /\ Len(d) = Len(ch) + 1
      /\ d[1] = m
      /\ \A i \in 1..Len(ch) : d[i + 1] = ch[i]
  BY <1>3, <1>5, <1>7, ConcatProperties
<1> HIDE DEF d
<1>9. \A i \in 1 .. Len(d) : Len(d[i].value) = t.carries[d[i].label]
  <2> SUFFICES ASSUME NEW i \in 1 .. Len(d) PROVE Len(d[i].value) = t.carries[d[i].label]
    OBVIOUS
  <2>1. CASE i = 1
    BY <1>2, <1>4, <1>8, <2>1
  <2>2. CASE i # 1
    <3>1. i - 1 \in 1 .. Len(ch) /\ (i - 1) + 1 = i
      BY <1>7, <1>8, <2>2
    <3>2. d[i] = ch[i - 1]
      BY <1>8, <3>1
    <3> QED BY <3>1, <3>2 DEF Provided, Carrying
  <2> QED BY <2>1, <2>2
<1>10. d # Nil
  <2> DEFINE M == [label : Label \cup Outer, value : Seq(Int)]
  <2>1. Message \subseteq M
    BY DEF Message, Value
  <2>2. Nil \notin Seq(M)
    BY TermsAssumption
  <2> HIDE DEF M
  <2>3. d \in Seq(M)
    BY <1>8, <2>1
  <2> QED BY <2>2, <2>3
<1>11. Carrying(t)'
  <2>1. ch' = d
    BY <1>6 DEF d
  <2> QED BY <1>9, <1>10, <2>1 DEF Carrying
<1> QED BY <1>1, <1>11, SendProvides

LEMMA SendOuterProvides ==
  ASSUME NEW t, IInv, Provided(t), SendOuter
  PROVE  Provided(t)'
<1>1. status = "running" /\ exp.op = "SEND" /\ AfterSend /\ ch' = ch
  BY DEF SendOuter, Running
<1> QED BY <1>1, SameCarrying, SendProvides

LEMMA RecvInnerProvides ==
  ASSUME NEW t, IInv, Provided(t), RecvInner
  PROVE  Provided(t)'
<1> DEFINE l == exp.label
           v == lookup_ch1(ch, l)
           en1 == n_boundls(exp.vars, v, env)
<1>1. /\ Called /\ status = "running" /\ exp.op = "RECV" /\ ~isouter_action(l)
      /\ istrans(exp) = "yes" /\ ch' = delete(Msg(l, v), ch)
      /\ Call(resume(make_cls(exp.body, en1), cont), env, Hole)
  BY DEF IInv, RecvInner, Running
<1>2. l \in Label /\ l # "accept"
  BY <1>1, InnerLabel DEF isouter_action, Outer
<1>3. istrans_in_act(ch, l)
  <2>1. ch # Nil
    BY FullIs
  <2>2. TRUE = istrans_in_act(ch, l)
    BY <1>1, <2>1, InnerLabel
  <2> QED BY <2>2
<1>4. v \in Value /\ Len(v) = t.carries[l] /\ Carrying(t)'
  BY <1>1, <1>2, <1>3, MessageProvided
<1>5. /\ Len(exp.vars) = t.carries[l] /\ exp.vars \in Seq(STRING)
      /\ Lacking(exp.body, t) \subseteq Range(exp.vars) \cup Known(env)
  BY <1>1, <1>2, InputProvided
<1>6. exp.body \in AgentExp /\ env \in Env
  BY <1>1, PrefixParts, ExpProvided
<1> HIDE DEF v
<1>7. en1 \in Env /\ Range(exp.vars) \cup Known(env) \subseteq Known(en1)
  BY <1>4, <1>5, <1>6, BoundlsKnown DEF Value
<1>8. Lacking(exp.body, t) \subseteq Known(en1)
  BY <1>5, <1>7
<1> HIDE DEF en1
<1> QED BY <1>1, <1>4, <1>6, <1>7, <1>8, CloseProvides

LEMMA RecvAcceptProvides ==
  ASSUME NEW t, IInv, Provided(t), RecvAccept
  PROVE  Provided(t)'
<1>1. /\ status = "running" /\ exp.op = "RECV" /\ exp.label = "accept"
      /\ Call(resume(exp.body, cont), env, Hole) /\ ch' = ch
  BY DEF RecvAccept, Running
<1>2. exp \in Expression /\ exp.body \in AgentExp
  BY <1>1, ExpProvided, PrefixParts
<1>3. Lacking(exp, t) = Lacking(exp.body, t)
  BY <1>1, <1>2, LacksRecv
<1>4. Lacking(exp.body, t) \subseteq Known(env) /\ exp.body # Hole
  BY <1>2, <1>3, AgentIs DEF Provided
<1> QED BY <1>1, <1>4, SameCarrying, ReturnProvides

(* A closed program reads nothing from outside.                            *)
LEMMA NoOuterInput ==
  ASSUME NEW t, IInv, Provided(t)
  PROVE  ~OuterInput
<1> SUFFICES ASSUME OuterInput PROVE FALSE
  OBVIOUS
<1>1. exp.op = "RECV" /\ isouter_action(exp.label) /\ exp.label # "accept"
  BY DEF OuterInput, Running
<1> QED BY <1>1, InputProvided

LEMMA NoPrefixFails ==
  ASSUME NEW t, IInv, Provided(t)
  PROVE  ~PrefixFails
<1> SUFFICES ASSUME PrefixFails PROVE FALSE
  OBVIOUS
<1>1. CASE exp.op = "SEND"
  BY <1>1, OutputProvided DEF PrefixFails, OuterInput, Running
<1>2. CASE exp.op # "SEND"
  <2> DEFINE l == exp.label
             v == lookup_ch1(ch, l)
  <2>1. /\ Called /\ exp.op = "RECV" /\ ~isouter_action(l) /\ istrans(exp) = "yes"
        /\ n_boundls(exp.vars, v, env) = Nil
    BY <1>2, NoOuterInput DEF PrefixFails, Running, IInv
  <2>2. l \in Label /\ l # "accept"
    BY <2>1, InnerLabel DEF isouter_action, Outer
  <2>3. istrans_in_act(ch, l)
    <3>1. ch # Nil
      BY FullIs
    <3>2. TRUE = istrans_in_act(ch, l)
      BY <2>1, <3>1, InnerLabel
    <3> QED BY <3>2
  <2>4. v \in Value /\ Len(v) = t.carries[l]
    BY <2>2, <2>3, MessageProvided
  <2>5. Len(exp.vars) = t.carries[l] /\ exp.vars \in Seq(STRING)
    BY <2>1, <2>2, InputProvided
  <2>6. env \in Env
    BY ExpProvided
  <2> HIDE DEF v
  <2>7. n_boundls(exp.vars, v, env) # Nil
    BY <2>4, <2>5, <2>6, BoundlsKnown DEF Value
  <2> QED BY <2>1, <2>7
<1> QED BY <1>1, <1>2

LEMMA ParkProvides ==
  ASSUME NEW t, IInv, Provided(t), Park
  PROVE  Provided(t)'
<1> DEFINE k == IF isbinary(exp) THEN exp ELSE make_cls(exp, env)
<1>1. status = "running" /\ ch' = ch /\ Call(resume(k, cont), env, Hole)
  BY DEF Park, Tested, Running
<1>2. exp \in AgentExp /\ env \in Env /\ exp # Hole /\ Lacking(exp, t) \subseteq Known(env)
  BY ExpProvided, AgentIs DEF Provided
<1>3. CASE isbinary(exp)
  <2>1. Call(resume(exp, cont), env, Hole)
    BY <1>1, <1>3
  <2> QED BY <1>1, <1>2, <2>1, SameCarrying, ReturnProvides
<1>4. CASE ~isbinary(exp)
  <2>1. Call(resume(make_cls(exp, env), cont), env, Hole)
    BY <1>1, <1>4
  <2> QED BY <1>1, <1>2, <2>1, SameCarrying, CloseProvides
<1> QED BY <1>3, <1>4

LEMMA OperandProvides ==
  ASSUME NEW t, IInv, Provided(t), NEW side \in {"LEFT", "RIGHT"}, Operand(side)
  PROVE  Provided(t)'
<1> DEFINE b == IF side = "LEFT" THEN exp.left ELSE exp.right
           c1 == IF exp.op = "SUM" THEN cont ELSE make_cont(side, exp, cont, env)
<1>1. status = "running" /\ exp.op \in {"SUM", "COM"} /\ ch' = ch /\ Call(b, env, c1)
  BY DEF Operand, Running
<1>2. /\ exp \in Expression /\ env \in Env /\ cont \in Expression /\ Context[cont]
      /\ Lacking(exp, t) \subseteq Known(env) /\ Lacking(cont, t) = {}
  BY ExpProvided DEF Provided
<1>3. Lacking(b, t) \subseteq Known(env)
  BY <1>1, <1>2, LacksBinary DEF isbinary
<1>4. c1 \in Expression
  BY <1>1 DEF Call
<1>5. Lacking(c1, t) = {}
  <2>1. CASE exp.op = "SUM"
    BY <1>2, <2>1
  <2>2. CASE exp.op = "COM"
    <3>1. c1 = make_cont(side, exp, cont, env)
      BY <2>2
    <3>2. Lacking(make_cont(side, exp, cont, env), t) = {}
      BY <1>2, <1>4, <2>2, <3>1, ContLacks
    <3> QED BY <3>1, <3>2
  <2> QED BY <1>1, <2>1, <2>2
<1> HIDE DEF b, c1
<1> QED BY <1>1, <1>3, <1>5, SameCarrying, CallProvides

LEMMA IfProvides ==
  ASSUME NEW t, IInv, Provided(t), exp.op = "IF"
  PROVE  ~IfFails /\ (If => Provided(t)')
<1>1. exp \in Expression /\ env \in Env
  BY ExpProvided
<1>2. Lacking(exp, t) = Vars[exp.cond] \cup Lacking(exp.then, t) \cup Lacking(exp.else, t)
  BY <1>1, LacksIf
<1>3. /\ Vars[exp.cond] \subseteq Known(env)
      /\ Lacking(exp.then, t) \subseteq Known(env) /\ Lacking(exp.else, t) \subseteq Known(env)
  BY <1>2 DEF Provided
<1>4. evalval(exp.cond, env) \in Int
  BY <1>1, <1>3, Conditional3, ValueKnown
<1>5. ~IfFails
  BY <1>4, TermsAssumption DEF IfFails
<1>6. ASSUME If
      PROVE  Provided(t)'
  <2> DEFINE b == IF evalval(exp.cond, env) # 0 THEN exp.then ELSE exp.else
  <2>1. status = "running" /\ ch' = ch /\ Call(b, env, cont)
    BY <1>6 DEF If, Running
  <2>2. Lacking(b, t) \subseteq Known(env) /\ Lacking(cont, t) = {}
    BY <1>3 DEF Provided
  <2> HIDE DEF b
  <2> QED BY <2>1, <2>2, SameCarrying, CallProvides
<1> QED BY <1>5, <1>6

LEMMA OpenProvides ==
  ASSUME NEW t, IInv, Provided(t), Open
  PROVE  Provided(t)'
<1>1. status = "running" /\ exp.op = "CLS" /\ ch' = ch /\ Call(exp.body, exp.env, cont)
  BY DEF Open, Running
<1>2. exp \in Expression /\ Nil \notin Lacking(exp, t)
  BY ExpProvided
<1>3. Lacking(exp.body, t) \subseteq Known(exp.env) /\ Lacking(cont, t) = {}
  BY <1>1, <1>2, LacksCls DEF Flaw, Provided
<1> QED BY <1>1, <1>3, SameCarrying, CallProvides

LEMMA AbortProvides ==
  ASSUME NEW t, IInv, Provided(t), Abort
  PROVE  Provided(t)'
<1>1. cont' = Hole /\ status' = "aborted" /\ exp' = exp /\ env' = env /\ ch' = ch
  BY DEF Abort
<1>2. Lacking(Hole, t) = {}
  BY LacksHole
<1>3. Lacking(cont, t)' = {}
  BY <1>1, <1>2
<1> QED BY <1>1, <1>3 DEF Provided, Carrying

LEMMA ConStopProvides ==
  ASSUME NEW t, IInv, Provided(t), ConStop
  PROVE  Provided(t)'
<1>1. CASE cont # Hole
  <2>1. status = "running" /\ Call(resume(exp, cont), env, Hole) /\ ch' = ch
    BY <1>1 DEF ConStop, Running
  <2>2. exp # Hole /\ Lacking(exp, t) \subseteq Known(env)
    BY ExpProvided, AgentIs DEF Provided
  <2> QED BY <2>1, <2>2, SameCarrying, ReturnProvides
<1>2. CASE cont = Hole
  BY <1>2, StopProvides DEF ConStop
<1> QED BY <1>1, <1>2

LEMMA NoPrimitiveFails ==
  ASSUME NEW t, IInv, Provided(t)
  PROVE  ~PrimitiveFails
<1> SUFFICES ASSUME PrimitiveFails PROVE FALSE
  OBVIOUS
<1>1. exp.op = "CON" /\ isprimagnt(exp.name) /\ evalval_ls(exp.args, env) = Nil
  BY DEF PrimitiveFails, Running
<1>2. exp \in Expression /\ env \in Env /\ exp.args \in Seq(ValueExp)
  BY <1>1, ExpProvided, ListParts
<1>3. ~isabort(exp.name) /\ ~isstop(exp.name)
  BY <1>1 DEF isprimagnt, isabort, isstop
<1>4. Named(exp.args) \subseteq Known(env)
  BY <1>1, <1>2, <1>3, LacksPrimitive DEF Provided
<1> QED BY <1>1, <1>2, <1>4, ListKnown

LEMMA UnfoldProvides ==
  ASSUME NEW t, Fitting(t), IInv, Provided(t)
  PROVE  ~UnfoldFails /\ (Unfold => Provided(t)')
<1>1. ~UnfoldFails
  BY ArgumentsProvided DEF UnfoldFails
<1>2. ASSUME Unfold
      PROVE  Provided(t)'
  <2> DEFINE b == Procs[exp.name].body
             en1 == Arguments
  <2>1. Defined /\ status = "running" /\ ch' = ch /\ Call(resume(make_cls(b, en1), cont), env, Hole)
    BY <1>2 DEF Unfold, Defined, Running
  <2>2. b \in AgentExp /\ en1 \in Env /\ Lacking(b, t) \subseteq Known(en1)
    BY <2>1, ArgumentsProvided
  <2> HIDE DEF b, en1
  <2> QED BY <2>1, <2>2, SameCarrying, CloseProvides
<1> QED BY <1>1, <1>2
-----------------------------------------------------------------------------
LEMMA StepProvides ==
  ASSUME NEW t, Fitting(t), IInv, Provided(t), [Next]_vars
  PROVE  Provided(t)'
<1>1. CASE Prefix
  BY <1>1, SendInnerProvides, SendOuterProvides, RecvInnerProvides, RecvAcceptProvides, NoOuterInput DEF Prefix, RecvOuter
<1>2. CASE PrefixFails \/ NoTarget
  BY <1>2, NoPrefixFails, NoOuterInput DEF NoTarget
<1>3. CASE TestFails
  BY <1>3, TestProvided DEF TestFails
<1>4. CASE Return
  BY <1>4, StopProvides DEF Return
<1>5. CASE Operand("LEFT") \/ Operand("RIGHT")
  BY <1>5, OperandProvides
<1>6. CASE If \/ IfFails
  <2>1. exp.op = "IF"
    BY <1>6 DEF If, IfFails, Running
  <2> QED BY <1>6, <2>1, IfProvides
<1>7. CASE Primitive \/ PrimitiveFails
  BY <1>7, StopProvides, NoPrimitiveFails DEF Primitive
<1>8. CASE Unfold \/ UnfoldFails
  BY <1>8, UnfoldProvides
<1>9. CASE Park \/ Open \/ Abort \/ ConStop
  BY <1>9, ParkProvides, OpenProvides, AbortProvides, ConStopProvides
<1>10. CASE Continue
  BY <1>10 DEF Continue, Provided, Carrying
<1>11. CASE UNCHANGED vars
  BY <1>11 DEF vars, Provided, Carrying
<1> QED BY <1>1, <1>2, <1>3, <1>4, <1>5, <1>6, <1>7, <1>8, <1>9, <1>10, <1>11 DEF Next

LEMMA ProgramKept ==
  ASSUME [Next]_vars
  PROVE  program' = program
BY DEF vars, Next, Prefix, SendInner, SendOuter, RecvInner, RecvAccept, RecvOuter, AfterSend, Call, Stop,
       PrefixFails, NoTarget, TestFails, Return, Park, Operand, Continue, If, IfFails, Open, Abort, ConStop,
       Primitive, PrimitiveFails, Unfold, UnfoldFails

Sober == \A t \in Typings : ClosedUnder(t, program) => Fitting(t) /\ Provided(t)

(* No closed program ends in an error: every variable is bound where it is *)
(* evaluated, an input finds as many values as it expects, a constant gets *)
(* as many as its definition has parameters, and the channel is not lost.  *)
THEOREM ClosedProgramsRun == Spec => []NoError
<1>1. Init => Sober
  <2> SUFFICES ASSUME Init, NEW t \in Typings, ClosedUnder(t, program)
               PROVE  Fitting(t) /\ Provided(t)
    BY DEF Sober
  <2>1. Fitting(t)
    BY DEF ClosedUnder, Fitting
  <2>2. exp = program /\ env = <<>> /\ cont = Hole /\ ch = <<>> /\ status = "running"
    BY DEF Init
  <2>3. Lacking(exp, t) = {} /\ Lacking(cont, t) = {}
    BY <2>2, LacksHole DEF ClosedUnder
  <2>4. ch # Nil
    <3>1. <<>> \in Seq(Int) /\ Nil \notin Seq(Int)
      BY TermsAssumption
    <3> QED BY <2>2, <3>1
  <2>5. Carrying(t)
    BY <2>2, <2>4 DEF Carrying
  <2> QED BY <2>1, <2>2, <2>3, <2>5 DEF Provided
<1>2. IInv /\ Sober /\ [Next]_vars => Sober'
  <2> SUFFICES ASSUME IInv, Sober, [Next]_vars, NEW t \in Typings, ClosedUnder(t, program)'
               PROVE  Fitting(t) /\ Provided(t)'
    BY DEF Sober
  <2>1. ClosedUnder(t, program)
    BY ProgramKept DEF ClosedUnder
  <2>2. Fitting(t) /\ Provided(t)
    BY <2>1 DEF Sober
  <2> QED BY <2>2, StepProvides
<1>3. Sober => NoError
  BY DEF Sober, NoError, Provided
<1> QED BY Invariance, <1>1, <1>2, <1>3, PTL DEF Spec
=============================================================================
