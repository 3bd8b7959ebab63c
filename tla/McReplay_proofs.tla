---------------------------- MODULE McReplay_proofs ----------------------------
(***************************************************************************)
(* Undoing restores the program: after mc_back(1), with whole answers and  *)
(* no inputs above, the program under GDB stands where the undone action   *)
(* began and has got the same values, for every program and every search.  *)
(***************************************************************************)
EXTENDS McHistory_proofs

(* What a program with these lines comes to when it is let run: its next   *)
(* breakpoint, which is used up then, or its end.                          *)
Settled(lines, g) ==
  LET ahead == {i \in DOMAIN lines : i > g.pc /\ lines[i] \in g.stops}
  IN  IF ~g.busy THEN g
      ELSE IF ahead = {} THEN [g EXCEPT !.busy = FALSE, !.live = FALSE, !.exits = 1]
      ELSE [g EXCEPT !.busy = FALSE, !.pc = Min(ahead), !.stops = @ \ {lines[Min(ahead)]}]
ServedBy(lines, g, cmd) ==
  CASE cmd.name = "insert" /\ cmd.arg \in ToSet(lines) -> [g EXCEPT !.stops = @ \cup {cmd.arg}]
    [] cmd.name = "run" -> [g EXCEPT !.pc = 0, !.writes = <<>>, !.live = TRUE, !.busy = TRUE]
    [] cmd.name = "continue" /\ g.live -> [g EXCEPT !.busy = TRUE]
    [] cmd.name = "set" /\ g.live -> [g EXCEPT !.writes = Append(@, <<g.pc, cmd.arg>>)]
    [] OTHER -> g

(* The program behind a command, and behind a script.  A `set' of nothing  *)
(* ends the search, as the end of the program does: both count as exits.   *)
After(lines, g, cmd) == IF cmd = Cmd("set", Null) THEN [g EXCEPT !.exits = 1]
                        ELSE Settled(lines, ServedBy(lines, g, cmd))
Runs(lines, g, s, f) ==
  f = [n \in 0 .. Len(s) |-> IF n = 0 THEN g ELSE After(lines, f[n - 1], s[n])]
Outcome(lines, g, s) == LET f == CHOOSE f : Runs(lines, g, s, f) IN f[Len(s)]

Lines == Seq(STRING)
Place == [pc : Nat, writes : Writes]
PlaceOf(g) == [pc |-> g.pc, writes |-> g.writes]
(* The program stands at a place, and no breakpoint is left.               *)
At(m) == [pc |-> m.pc, stops |-> {}, live |-> TRUE, busy |-> FALSE, writes |-> m.writes, exits |-> 0]
Starts == {g \in Debuggee : g.stops = {} /\ ~g.busy /\ g.exits = 0}

LEMMA PlaceTyped ==
  ASSUME NEW g \in Debuggee
  PROVE  PlaceOf(g) \in Place /\ At(PlaceOf(g)) \in Starts
BY DEF PlaceOf, Place, At, Starts, Debuggee

LEMMA AtTyped ==
  ASSUME NEW m \in Place
  PROVE  At(m) \in Starts /\ At(m) \in Debuggee /\ PlaceOf(At(m)) = m /\ At(PlaceOf(At(m))) = At(m)
BY DEF PlaceOf, Place, At, Starts, Debuggee

(* The next line with a breakpoint.                                        *)
LEMMA NextStop ==
  ASSUME NEW lines \in Lines, NEW pc \in Nat, NEW stops,
         {i \in DOMAIN lines : i > pc /\ lines[i] \in stops} # {}
  PROVE  LET i == Min({i \in DOMAIN lines : i > pc /\ lines[i] \in stops})
         IN  i \in Nat /\ i \in DOMAIN lines /\ lines[i] \in stops
<1> DEFINE ahead == {i \in DOMAIN lines : i > pc /\ lines[i] \in stops}
<1>1. ahead \subseteq Nat
  <2>1. DOMAIN lines = 1 .. Len(lines) /\ Len(lines) \in Nat
    BY LenProperties DEF Lines
  <2> QED BY <2>1
<1>2. PICK m \in ahead : \A n \in ahead : m <= n
  <2> HIDE DEF ahead
  <2>1. ahead # {}
    BY DEF ahead
  <2> QED BY <1>1, <2>1, LeastNumber
<1>3. Min(ahead) = m
  <2> HIDE DEF ahead
  <2> QED BY <1>1, <1>2, MinIs
<1> QED BY <1>1, <1>2, <1>3

LEMMA SettledTyped ==
  ASSUME NEW lines \in Lines, NEW g \in Debuggee
  PROVE  Settled(lines, g) \in Debuggee /\ (g.exits = 1 => Settled(lines, g).exits = 1)
<1> DEFINE ahead == {i \in DOMAIN lines : i > g.pc /\ lines[i] \in g.stops}
<1>1. g.pc \in Nat /\ g.stops \in SUBSET Arg
  BY DEF Debuggee
<1>2. ahead # {} => Min(ahead) \in Nat
  BY <1>1, NextStop
<1>3. Settled(lines, g) =
        IF ~g.busy THEN g
        ELSE IF ahead = {} THEN [g EXCEPT !.busy = FALSE, !.live = FALSE, !.exits = 1]
        ELSE [g EXCEPT !.busy = FALSE, !.pc = Min(ahead), !.stops = @ \ {lines[Min(ahead)]}]
  BY DEF Settled
<1> HIDE DEF ahead
<1>4. CASE ~g.busy
  BY <1>3, <1>4
<1>5. CASE g.busy /\ ahead = {}
  BY <1>3, <1>5 DEF Debuggee
<1>6. CASE g.busy /\ ahead # {}
  <2>1. g.stops \ {lines[Min(ahead)]} \in SUBSET Arg
    BY <1>1
  <2> QED BY <1>2, <1>3, <1>6, <2>1 DEF Debuggee
<1> QED BY <1>4, <1>5, <1>6

LEMMA ServedTyped ==
  ASSUME NEW lines \in Lines, NEW g \in Debuggee, NEW cmd \in Command
  PROVE  ServedBy(lines, g, cmd) \in Debuggee /\ ServedBy(lines, g, cmd).exits = g.exits
<1>1. cmd.name \in Name /\ cmd.arg \in Arg /\ g.pc \in Nat
  BY DEF Command, Debuggee
<1>2. Append(g.writes, <<g.pc, cmd.arg>>) \in Writes
  BY <1>1, AppendProperties DEF Debuggee, Writes
<1>3. CASE cmd.name = "insert"
  BY <1>1, <1>3 DEF ServedBy, Debuggee
<1>4. CASE cmd.name = "run"
  <2>1. ServedBy(lines, g, cmd) = [g EXCEPT !.pc = 0, !.writes = <<>>, !.live = TRUE, !.busy = TRUE]
    BY <1>4 DEF ServedBy
  <2>2. ASSUME NEW w \in Writes
        PROVE  [g EXCEPT !.pc = 0, !.writes = w, !.live = TRUE, !.busy = TRUE] \in Debuggee
    BY DEF Debuggee
  <2>3. <<>> \in Writes
    BY DEF Writes
  <2>4. g.exits = [g EXCEPT !.pc = 0, !.writes = <<>>, !.live = TRUE, !.busy = TRUE].exits
    BY DEF Debuggee
  <2> QED BY <2>1, <2>2, <2>3, <2>4
<1>5. CASE cmd.name = "continue"
  BY <1>1, <1>5 DEF ServedBy, Debuggee
<1>6. CASE cmd.name = "set"
  BY <1>1, <1>2, <1>6 DEF ServedBy, Debuggee
<1>7. CASE cmd.name \in {"tty", "confirm", "print"}
  BY <1>1, <1>7 DEF ServedBy
<1> QED BY <1>1, <1>3, <1>4, <1>5, <1>6, <1>7 DEF Name

(* Once the program has ended this is remembered.                          *)
LEMMA AfterTyped ==
  ASSUME NEW lines \in Lines, NEW g \in Debuggee, NEW cmd \in Command
  PROVE  After(lines, g, cmd) \in Debuggee /\ (g.exits = 1 => After(lines, g, cmd).exits = 1)
<1>1. CASE cmd = Cmd("set", Null)
  BY <1>1 DEF After, Debuggee
<1>2. CASE cmd # Cmd("set", Null)
  BY <1>2, ServedTyped, SettledTyped DEF After
<1> QED BY <1>1, <1>2

LEMMA RunsExists ==
  ASSUME NEW lines \in Lines, NEW g \in Debuggee, NEW s \in Seq(Command)
  PROVE  \E f \in [0 .. Len(s) -> Debuggee] : Runs(lines, g, s, f)
<1> DEFINE n == Len(s)
           step == [i \in 1 .. n |-> [x \in Debuggee |-> After(lines, x, s[i])]]
<1>1. n \in Nat /\ \A i \in 1 .. n : s[i] \in Command
  BY LenProperties, ElementOfSeq
<1>2. Stepping(n, Debuggee, g, step)
  BY <1>1, AfterTyped DEF Stepping
<1>3. \A i \in 1 .. n, x \in Debuggee : step[i][x] = After(lines, x, s[i])
  OBVIOUS
<1> HIDE DEF step, n
<1>4. PICK f : Stepped(n, Debuggee, g, step, f)
  BY <1>2, PrefixRecursion
<1>5. f \in [0 .. n -> Debuggee]
  BY <1>4 DEF Stepped
<1>6. ASSUME NEW i \in 0 .. n
      PROVE  f[i] = IF i = 0 THEN g ELSE After(lines, f[i - 1], s[i])
  <2>1. CASE i = 0
    BY <1>4, <2>1 DEF Stepped
  <2>2. CASE i # 0
    <3>1. i \in 1 .. n /\ i - 1 \in 0 .. n
      BY <1>1, <2>2
    <3>2. f[i - 1] \in Debuggee
      BY <1>5, <3>1
    <3>3. f[i] = step[i][f[i - 1]]
      BY <1>4, <3>1 DEF Stepped
    <3> QED BY <1>3, <2>2, <3>1, <3>2, <3>3
  <2> QED BY <2>1, <2>2
<1>7. f = [i \in 0 .. n |-> f[i]]
  BY <1>5
<1>8. Runs(lines, g, s, f)
  BY <1>6, <1>7 DEF Runs, n
<1> QED BY <1>5, <1>8 DEF n

LEMMA RunsAgree ==
  ASSUME NEW lines, NEW g, NEW s, NEW t, NEW f, NEW h, NEW n \in Nat,
         Runs(lines, g, s, f), Runs(lines, g, t, h), n <= Len(s), n <= Len(t),
         Len(s) \in Nat, Len(t) \in Nat, \A i \in 1 .. n : s[i] = t[i]
  PROVE  f[n] = h[n]
<1>1. \A i \in 0 .. n : /\ f[i] = IF i = 0 THEN g ELSE After(lines, f[i - 1], s[i])
                        /\ h[i] = IF i = 0 THEN g ELSE After(lines, h[i - 1], t[i])
  <2>1. \A i \in 0 .. n : i \in 0 .. Len(s) /\ i \in 0 .. Len(t)
    OBVIOUS
  <2> QED BY <2>1 DEF Runs
<1> DEFINE G == {k \in Nat : k <= n => f[k] = h[k]}
<1>2. 0 \in G
  BY <1>1
<1>3. ASSUME NEW k \in Nat, k \in G
      PROVE  k + 1 \in G
  <2> SUFFICES ASSUME k + 1 <= n PROVE f[k + 1] = h[k + 1]
    OBVIOUS
  <2> DEFINE j == k + 1
  <2>1. j \in 1 .. n /\ j \in 0 .. n /\ j # 0 /\ j - 1 = k /\ f[k] = h[k]
    BY <1>3
  <2> HIDE DEF j
  <2>2. f[j] = h[j]
    BY <1>1, <2>1
  <2> QED BY <2>2 DEF j
<1>4. Nat \subseteq G
  <2> HIDE DEF G
  <2> QED BY <1>2, <1>3, NatSetInduction
<1> QED BY <1>4

LEMMA OutcomeTyped ==
  ASSUME NEW lines \in Lines, NEW g \in Debuggee, NEW s \in Seq(Command)
  PROVE  /\ Outcome(lines, g, s) \in Debuggee
         /\ \E f : Runs(lines, g, s, f) /\ Outcome(lines, g, s) = f[Len(s)]
<1> DEFINE w == CHOOSE f : Runs(lines, g, s, f)
<1>1. PICK f \in [0 .. Len(s) -> Debuggee] : Runs(lines, g, s, f)
  BY RunsExists
<1>2. Runs(lines, g, s, w) /\ Outcome(lines, g, s) = w[Len(s)]
  BY <1>1 DEF Outcome
<1> HIDE DEF w
<1>3. Len(s) \in Nat
  BY LenProperties
<1>4. w[Len(s)] = f[Len(s)]
  BY <1>1, <1>2, <1>3, RunsAgree
<1>5. f[Len(s)] \in Debuggee
  <2> DEFINE n == Len(s)
  <2>1. f \in [0 .. n -> Debuggee] /\ n \in 0 .. n
    BY <1>1, <1>3
  <2> HIDE DEF n
  <2>2. f[n] \in Debuggee
    BY <2>1
  <2> QED BY <2>2 DEF n
<1> QED BY <1>2, <1>4, <1>5

LEMMA OutcomeOfNone ==
  ASSUME NEW lines \in Lines, NEW g \in Debuggee
  PROVE  Outcome(lines, g, <<>>) = g
<1>1. <<>> \in Seq(Command) /\ Len(<<>>) = 0
  OBVIOUS
<1>2. PICK f : Runs(lines, g, <<>>, f) /\ Outcome(lines, g, <<>>) = f[Len(<<>>)]
  BY <1>1, OutcomeTyped
<1> QED BY <1>1, <1>2 DEF Runs

(* A script with one more command.                                         *)
LEMMA OutcomeOfMore ==
  ASSUME NEW lines \in Lines, NEW g \in Debuggee, NEW s \in Seq(Command), NEW c \in Command
  PROVE  Outcome(lines, g, Append(s, c)) = After(lines, Outcome(lines, g, s), c)
<1> DEFINE t == Append(s, c)
           n == Len(s)
<1>1. n \in Nat
  BY LenProperties
<1>2. t \in Seq(Command) /\ Len(t) = n + 1 /\ t[n + 1] = c /\ \A i \in 1 .. n : t[i] = s[i]
  BY AppendProperties
<1> HIDE DEF t
<1>3. PICK f : Runs(lines, g, s, f) /\ Outcome(lines, g, s) = f[n]
  BY OutcomeTyped
<1>4. PICK h : Runs(lines, g, t, h) /\ Outcome(lines, g, t) = h[Len(t)]
  BY <1>2, OutcomeTyped
<1>5. f[n] = h[n]
  <2>1. n <= Len(s) /\ n <= Len(t) /\ Len(s) \in Nat /\ Len(t) \in Nat /\ \A i \in 1 .. n : s[i] = t[i]
    BY <1>1, <1>2
  <2>2. Runs(lines, g, s, f) /\ Runs(lines, g, t, h)
    BY <1>3, <1>4
  <2> HIDE DEF n
  <2> QED BY <1>1, <2>1, <2>2, RunsAgree
<1>6. h[n + 1] = After(lines, h[n], c)
  <2> DEFINE m == n + 1
  <2>1. m \in 0 .. Len(t) /\ m # 0 /\ m - 1 = n /\ t[m] = c
    BY <1>1, <1>2
  <2> HIDE DEF m, n
  <2>2. h[m] = After(lines, h[n], c)
    BY <1>4, <2>1 DEF Runs
  <2> QED BY <2>2 DEF m
<1> QED BY <1>2, <1>3, <1>4, <1>5, <1>6 DEF t

LEMMA TuplesAppended ==
  ASSUME NEW S, NEW a \in S, NEW b \in S, NEW c \in S
  PROVE  /\ <<a>> = Append(<<>>, a) /\ <<a, b>> = Append(<<a>>, b) /\ <<a, b, c>> = Append(<<a, b>>, c)
<1> DEFINE e == <<>>
           s == <<a>>
           t == <<a, b>>
           u == <<a, b, c>>
<1>1. /\ e \in Seq(S) /\ s \in Seq(S) /\ t \in Seq(S) /\ u \in Seq(S)
      /\ Len(e) = 0 /\ Len(s) = 1 /\ Len(t) = 2 /\ Len(u) = 3
      /\ s[1] = a /\ t[1] = a /\ t[2] = b /\ u[1] = a /\ u[2] = b /\ u[3] = c
  OBVIOUS
<1> HIDE DEF e, s, t, u
<1>2. s = Append(e, a)
  <2>1. /\ Append(e, a) \in Seq(S) /\ Len(Append(e, a)) = 1 /\ Append(e, a)[1] = a
    <3>1. /\ Append(e, a) \in Seq(S) /\ Len(Append(e, a)) = Len(e) + 1
          /\ Append(e, a)[Len(e) + 1] = a
      BY <1>1, AppendProperties
    <3> QED BY <1>1, <3>1
  <2> QED BY <1>1, <2>1, SeqEqual
<1>3. t = Append(s, b)
  <2>1. /\ Append(s, b) \in Seq(S) /\ Len(Append(s, b)) = 2
        /\ Append(s, b)[1] = a /\ Append(s, b)[2] = b
    <3>1. /\ Append(s, b) \in Seq(S) /\ Len(Append(s, b)) = Len(s) + 1
          /\ Append(s, b)[Len(s) + 1] = b /\ \A i \in 1 .. Len(s) : Append(s, b)[i] = s[i]
      <4>1. s \in Seq(S)
        BY <1>1
      <4> QED BY <4>1, AppendProperties
    <3> QED BY <1>1, <3>1
  <2> QED BY <1>1, <2>1, SeqEqual
<1>4. u = Append(t, c)
  <2>1. /\ Append(t, c) \in Seq(S) /\ Len(Append(t, c)) = 3
        /\ Append(t, c)[1] = a /\ Append(t, c)[2] = b /\ Append(t, c)[3] = c
    <3>1. /\ Append(t, c) \in Seq(S) /\ Len(Append(t, c)) = Len(t) + 1
          /\ Append(t, c)[Len(t) + 1] = c /\ \A i \in 1 .. Len(t) : Append(t, c)[i] = t[i]
      <4>1. t \in Seq(S)
        BY <1>1
      <4> QED BY <4>1, AppendProperties
    <3> QED BY <1>1, <3>1
  <2> QED BY <1>1, <2>1, SeqEqual
<1> QED BY <1>2, <1>3, <1>4 DEF e, s, t, u

LEMMA TuplesJoined ==
  ASSUME NEW S, NEW a \in S, NEW b \in S, NEW c \in S
  PROVE  <<a, b>> \o <<c>> = <<a, b, c>>
<1> DEFINE t == <<a, b>>
           u == <<a, b, c>>
           z == <<c>>
<1>1. /\ t \in Seq(S) /\ u \in Seq(S) /\ z \in Seq(S)
      /\ Len(t) = 2 /\ Len(u) = 3 /\ Len(z) = 1
      /\ t[1] = a /\ t[2] = b /\ u[1] = a /\ u[2] = b /\ u[3] = c /\ z[1] = c
  OBVIOUS
<1> HIDE DEF t, u, z
<1>2. t \o z = u
  <2>1. /\ t \o z \in Seq(S) /\ Len(t \o z) = 3
        /\ \A i \in 1 .. 3 : (t \o z)[i] = IF i <= 2 THEN t[i] ELSE z[i - 2]
    <3>1. /\ t \o z \in Seq(S) /\ Len(t \o z) = Len(t) + Len(z)
          /\ \A i \in 1 .. Len(t) + Len(z) : (t \o z)[i] = IF i <= Len(t) THEN t[i] ELSE z[i - Len(t)]
      BY <1>1, ConcatProperties
    <3> QED BY <1>1, <3>1
  <2>2. (t \o z)[1] = a /\ (t \o z)[2] = b /\ (t \o z)[3] = c
    BY <1>1, <2>1
  <2> QED BY <1>1, <2>1, <2>2, SeqEqual
<1> QED BY <1>2 DEF t, u, z

LEMMA MoreAppended ==
  ASSUME NEW S, NEW s \in Seq(S), NEW a \in S, NEW b \in S, NEW c \in S
  PROVE  s \o <<a, b, c>> = Append(Append(Append(s, a), b), c)
<1> DEFINE n == Len(s)
           u == <<a, b, c>>
           p == Append(s, a)
           q == Append(p, b)
           r == Append(q, c)
<1>1. u \in Seq(S) /\ Len(u) = 3 /\ u[1] = a /\ u[2] = b /\ u[3] = c
  OBVIOUS
<1>2. n \in Nat
  BY LenProperties
<1>3. /\ p \in Seq(S) /\ Len(p) = n + 1 /\ p[n + 1] = a
      /\ \A i \in 1 .. n : p[i] = s[i]
  BY AppendProperties
<1> HIDE DEF p
<1>4. /\ q \in Seq(S) /\ Len(q) = n + 2 /\ q[n + 2] = b
      /\ \A i \in 1 .. n + 1 : q[i] = p[i]
  <2>1. /\ q \in Seq(S) /\ Len(q) = Len(p) + 1 /\ q[Len(p) + 1] = b
        /\ \A i \in 1 .. Len(p) : q[i] = p[i]
    BY <1>3, AppendProperties
  <2>2. Len(p) + 1 = n + 2
    BY <1>2, <1>3
  <2> QED BY <1>3, <2>1, <2>2
<1> HIDE DEF q
<1>5. /\ r \in Seq(S) /\ Len(r) = n + 3 /\ r[n + 3] = c
      /\ \A i \in 1 .. n + 2 : r[i] = q[i]
  <2>1. /\ r \in Seq(S) /\ Len(r) = Len(q) + 1 /\ r[Len(q) + 1] = c
        /\ \A i \in 1 .. Len(q) : r[i] = q[i]
    BY <1>4, AppendProperties
  <2>2. Len(q) + 1 = n + 3
    BY <1>2, <1>4
  <2> QED BY <1>4, <2>1, <2>2
<1> HIDE DEF r, u
<1>6. /\ s \o u \in Seq(S) /\ Len(s \o u) = n + 3
      /\ \A i \in 1 .. n + 3 : (s \o u)[i] = IF i <= n THEN s[i] ELSE u[i - n]
  <2>1. /\ s \o u \in Seq(S) /\ Len(s \o u) = Len(s) + Len(u)
        /\ \A i \in 1 .. Len(s) + Len(u) : (s \o u)[i] = IF i <= Len(s) THEN s[i] ELSE u[i - Len(s)]
    BY <1>1, ConcatProperties
  <2> QED BY <1>1, <2>1
<1> HIDE DEF n
<1>7. ASSUME NEW i \in 1 .. n + 3
      PROVE  (s \o u)[i] = r[i]
  <2>1. CASE i <= n
    <3>1. i \in 1 .. n /\ i \in 1 .. n + 1 /\ i \in 1 .. n + 2
      BY <1>2, <2>1
    <3> QED BY <1>3, <1>4, <1>5, <1>6, <2>1, <3>1
  <2>2. CASE i = n + 1
    <3>1. i \in 1 .. n + 1 /\ i \in 1 .. n + 2 /\ ~(i <= n) /\ i - n = 1
      BY <1>2, <2>2
    <3> QED BY <1>1, <1>3, <1>4, <1>5, <1>6, <2>2, <3>1
  <2>3. CASE i = n + 2
    <3>1. i \in 1 .. n + 2 /\ ~(i <= n) /\ i - n = 2
      BY <1>2, <2>3
    <3> QED BY <1>1, <1>4, <1>5, <1>6, <2>3, <3>1
  <2>4. CASE i = n + 3
    <3>1. ~(i <= n) /\ i - n = 3
      BY <1>2, <2>4
    <3> QED BY <1>1, <1>5, <1>6, <2>4, <3>1
  <2>5. i <= n \/ i = n + 1 \/ i = n + 2 \/ i = n + 3
    BY <1>2
  <2> QED BY <2>1, <2>2, <2>3, <2>4, <2>5
<1>8. s \o u = r
  BY <1>5, <1>6, <1>7, SeqEqual
<1> QED BY <1>8 DEF u, r, q, p

LEMMA OutcomeOfFew ==
  ASSUME NEW lines \in Lines, NEW g \in Debuggee,
         NEW a \in Command, NEW b \in Command
  PROVE  /\ Outcome(lines, g, <<a>>) = After(lines, g, a)
         /\ Outcome(lines, g, <<a, b>>) = After(lines, After(lines, g, a), b)
<1> DEFINE e == <<>>
           s == <<a>>
           t == <<a, b>>
<1>1. e \in Seq(Command) /\ s \in Seq(Command) /\ t \in Seq(Command)
  OBVIOUS
<1>2. s = Append(e, a) /\ t = Append(s, b)
  BY TuplesAppended
<1>3. Outcome(lines, g, e) = g
  BY OutcomeOfNone
<1> HIDE DEF e, s, t
<1>4. Outcome(lines, g, s) = After(lines, g, a)
  BY <1>1, <1>2, <1>3, OutcomeOfMore
<1>5. Outcome(lines, g, t) = After(lines, Outcome(lines, g, s), b)
  BY <1>1, <1>2, OutcomeOfMore
<1> QED BY <1>4, <1>5 DEF s, t

LEMMA OutcomeOfThree ==
  ASSUME NEW lines \in Lines, NEW g \in Debuggee,
         NEW a \in Command, NEW b \in Command, NEW c \in Command
  PROVE  Outcome(lines, g, <<a, b, c>>) = After(lines, After(lines, After(lines, g, a), b), c)
<1> DEFINE t == <<a, b>>
           u == <<a, b, c>>
<1>1. t \in Seq(Command)
  OBVIOUS
<1>2. u = Append(t, c)
  BY TuplesAppended
<1>3. Outcome(lines, g, t) = After(lines, After(lines, g, a), b)
  BY OutcomeOfFew
<1> HIDE DEF t, u
<1>4. Outcome(lines, g, u) = After(lines, Outcome(lines, g, t), c)
  BY <1>1, <1>2, OutcomeOfMore
<1> QED BY <1>3, <1>4 DEF u

-----------------------------------------------------------------------------
(* Where a program that is let run with one breakpoint comes to rest.      *)
LEMMA LegEnds ==
  ASSUME NEW lines \in Lines, NEW b \in Debuggee, NEW x,
         b.busy, b.live, b.exits = 0, b.stops \subseteq {x}, Settled(lines, b).exits = 0
  PROVE  Settled(lines, b) = At(PlaceOf(Settled(lines, b)))
<1> DEFINE ahead == {i \in DOMAIN lines : i > b.pc /\ lines[i] \in b.stops}
<1>1. b.pc \in Nat
  BY DEF Debuggee
<1>2. Settled(lines, b) =
        IF ahead = {} THEN [b EXCEPT !.busy = FALSE, !.live = FALSE, !.exits = 1]
        ELSE [b EXCEPT !.busy = FALSE, !.pc = Min(ahead), !.stops = @ \ {lines[Min(ahead)]}]
  BY DEF Settled
<1>3. ahead # {} => Min(ahead) \in Nat /\ lines[Min(ahead)] \in b.stops
  BY <1>1, NextStop
<1> HIDE DEF ahead
<1>4. ahead # {}
  BY <1>2 DEF Debuggee
<1>5. b.stops \ {lines[Min(ahead)]} = {}
  BY <1>3, <1>4
<1>6. Settled(lines, b) = [b EXCEPT !.busy = FALSE, !.pc = Min(ahead), !.stops = {}]
  BY <1>2, <1>4, <1>5
<1> QED BY <1>6 DEF At, PlaceOf, Debuggee

LEMMA CmdIs ==
  ASSUME NEW name, NEW arg
  PROVE  /\ Cmd(name, arg).name = name /\ Cmd(name, arg).arg = arg
         /\ name # "set" => Cmd(name, arg) # Cmd("set", Null)
         /\ arg # Null => Cmd(name, arg) # Cmd("set", Null)
BY DEF Cmd

LEMMA InsertLeg ==
  ASSUME NEW lines \in Lines, NEW g \in Starts, NEW x \in Arg
  PROVE  After(lines, g, Cmd("insert", x)) = [g EXCEPT !.stops = {x} \cap ToSet(lines)]
<1>1. g \in Debuggee /\ g.stops = {} /\ ~g.busy
  BY DEF Starts
<1>2. After(lines, g, Cmd("insert", x)) = Settled(lines, ServedBy(lines, g, Cmd("insert", x)))
  BY CmdIs DEF After
<1>3. ServedBy(lines, g, Cmd("insert", x)) = [g EXCEPT !.stops = {x} \cap ToSet(lines)]
  <2>1. CASE x \in ToSet(lines)
    <3>1. ServedBy(lines, g, Cmd("insert", x)) = [g EXCEPT !.stops = g.stops \cup {x}]
      <4> DEFINE c == Cmd("insert", x)
      <4>1. c.name = "insert" /\ c.arg = x
        BY CmdIs
      <4> HIDE DEF c
      <4>2. ServedBy(lines, g, c) = [g EXCEPT !.stops = g.stops \cup {c.arg}]
        BY <2>1, <4>1 DEF ServedBy
      <4> QED BY <4>1, <4>2 DEF c
    <3>2. g.stops \cup {x} = {x} \cap ToSet(lines)
      BY <1>1, <2>1
    <3> QED BY <3>1, <3>2
  <2>2. CASE x \notin ToSet(lines)
    <3>1. ServedBy(lines, g, Cmd("insert", x)) = g
      BY <2>2, CmdIs DEF ServedBy
    <3>2. g = [g EXCEPT !.stops = {x} \cap ToSet(lines)]
      <4>1. {x} \cap ToSet(lines) = g.stops
        BY <1>1, <2>2
      <4>2. g = [g EXCEPT !.stops = g.stops]
        BY <1>1 DEF Debuggee
      <4> QED BY <4>1, <4>2
    <3> QED BY <3>1, <3>2
  <2> QED BY <2>1, <2>2
<1> DEFINE b == [g EXCEPT !.stops = {x} \cap ToSet(lines)]
<1>4. ~b.busy
  BY <1>1 DEF Debuggee
<1> HIDE DEF b
<1>5. Settled(lines, b) = b
  BY <1>4 DEF Settled
<1> QED BY <1>2, <1>3, <1>5 DEF b

(* The lines up to the one of a bound action.                              *)
LEMMA Leg ==
  ASSUME NEW lines \in Lines, NEW m \in Place, NEW x \in Arg
  PROVE  LET r == After(lines, After(lines, At(m), Cmd("insert", x)), Cmd("continue", Null))
         IN  /\ r \in Debuggee /\ (r.exits = 0 => r = At(PlaceOf(r)))
             /\ x \notin ToSet(lines) => After(lines, At(m), Cmd("insert", x)) = At(m)
<1> DEFINE a == After(lines, At(m), Cmd("insert", x))
           b == [a EXCEPT !.busy = TRUE]
           r == After(lines, a, Cmd("continue", Null))
<1>1. At(m) \in Starts /\ At(m) \in Debuggee
  BY AtTyped
<1>2. Cmd("insert", x) \in Command /\ Cmd("continue", Null) \in Command
  BY CmdTyped DEF Name, Arg
<1>3. a = [At(m) EXCEPT !.stops = {x} \cap ToSet(lines)]
  BY <1>1, InsertLeg
<1>4. a \in Debuggee
  BY <1>1, <1>2, AfterTyped
<1>5. a.live /\ ~a.busy /\ a.stops \subseteq {x} /\ a.exits = 0
  BY <1>3 DEF At
<1>6. x \notin ToSet(lines) => a = At(m)
  BY <1>3 DEF At
<1> HIDE DEF a
<1>7. r = Settled(lines, b)
  <2>1. r = Settled(lines, ServedBy(lines, a, Cmd("continue", Null)))
    BY CmdIs DEF After
  <2>2. ServedBy(lines, a, Cmd("continue", Null)) = b
    BY <1>5, CmdIs DEF ServedBy
  <2> QED BY <2>1, <2>2
<1>8. r \in Debuggee
  BY <1>2, <1>4, AfterTyped
<1>9. b \in Debuggee /\ b.busy /\ b.live /\ b.exits = 0 /\ b.stops \subseteq {x}
  BY <1>4, <1>5 DEF Debuggee
<1> HIDE DEF b, r
<1>10. r.exits = 0 => r = At(PlaceOf(r))
  BY <1>7, <1>9, LegEnds
<1> QED BY <1>6, <1>8, <1>10 DEF a, r

LEMMA SetLeg ==
  ASSUME NEW lines \in Lines, NEW m \in Place, NEW v \in Arg
  PROVE  LET r == After(lines, At(m), Cmd("set", v))
         IN  /\ r \in Debuggee /\ (r.exits = 0 => r = At(PlaceOf(r)))
             /\ v = Null => r.exits = 1
<1> DEFINE g == At(m)
           r == After(lines, g, Cmd("set", v))
           w == [g EXCEPT !.writes = Append(g.writes, <<g.pc, v>>)]
<1>1. g \in Debuggee /\ g.live /\ ~g.busy /\ g.stops = {} /\ g.exits = 0
  BY AtTyped DEF At
<1>2. r \in Debuggee
  BY <1>1, AfterTyped, CmdTyped DEF Name
<1>3. CASE v = Null
  <2>1. r = [g EXCEPT !.exits = 1]
    BY <1>3 DEF After
  <2> QED BY <1>1, <1>2, <1>3, <2>1 DEF Debuggee
<1>4. CASE v # Null
  <2>1. r = Settled(lines, ServedBy(lines, g, Cmd("set", v)))
    BY <1>4, CmdIs DEF After
  <2>2. ServedBy(lines, g, Cmd("set", v)) = w
    BY <1>1, CmdIs DEF ServedBy
  <2>3. ~w.busy
    BY <1>1 DEF Debuggee
  <2>4. r = w
    BY <2>1, <2>2, <2>3 DEF Settled
  <2>5. w = At(PlaceOf(w))
    <3> DEFINE x == Append(g.writes, <<g.pc, v>>)
    <3> HIDE DEF x
    <3>1. w = [g EXCEPT !.writes = x]
      BY DEF x
    <3> HIDE DEF w
    <3>2. w = [pc |-> m.pc, stops |-> {}, live |-> TRUE, busy |-> FALSE, writes |-> x, exits |-> 0]
      <4>1. g = [pc |-> m.pc, stops |-> {}, live |-> TRUE, busy |-> FALSE, writes |-> m.writes,
                 exits |-> 0]
        BY DEF At
      <4> HIDE DEF g
      <4> QED BY <3>1, <4>1
    <3>3. PlaceOf(w) = [pc |-> m.pc, writes |-> x]
      BY <3>2 DEF PlaceOf
    <3>4. At([pc |-> m.pc, writes |-> x])
            = [pc |-> m.pc, stops |-> {}, live |-> TRUE, busy |-> FALSE, writes |-> x, exits |-> 0]
      BY DEF At
    <3> QED BY <3>2, <3>3, <3>4
  <2> QED BY <1>2, <1>4, <2>4, <2>5
<1> QED BY <1>3, <1>4

LEMMA OtherLeg ==
  ASSUME NEW lines \in Lines, NEW g \in Starts, NEW c \in {"tty", "confirm", "print"}, NEW x \in Arg
  PROVE  After(lines, g, Cmd(c, x)) = g
<1>1. ~g.busy
  BY DEF Starts
<1>2. ServedBy(lines, g, Cmd(c, x)) = g
  BY CmdIs DEF ServedBy
<1>3. After(lines, g, Cmd(c, x)) = Settled(lines, ServedBy(lines, g, Cmd(c, x)))
  BY CmdIs DEF After
<1> QED BY <1>1, <1>2, <1>3 DEF Settled

(* Where the program stands when it has been started.                      *)
Booting(lines) == [pc |-> 0, stops |-> {"main"} \cap ToSet(lines), live |-> TRUE, busy |-> TRUE,
                   writes |-> <<>>, exits |-> 0]
Booted(lines) == Settled(lines, Booting(lines))

LEMMA Boots ==
  ASSUME NEW lines \in Lines, NEW g \in Starts
  PROVE  /\ After(lines, After(lines, g, Cmd("insert", "main")), Cmd("run", Null)) = Booted(lines)
         /\ Booted(lines) \in Debuggee
         /\ Booted(lines).exits = 0 => Booted(lines) = At(PlaceOf(Booted(lines)))
<1> DEFINE a == After(lines, g, Cmd("insert", "main"))
<1>1. g \in Debuggee /\ g.stops = {} /\ ~g.busy /\ g.exits = 0
  BY DEF Starts
<1>2. a = [g EXCEPT !.stops = {"main"} \cap ToSet(lines)]
  BY InsertLeg DEF Arg
<1> HIDE DEF a
<1>3. After(lines, a, Cmd("run", Null)) = Settled(lines, ServedBy(lines, a, Cmd("run", Null)))
  BY CmdIs DEF After
<1>4. ServedBy(lines, a, Cmd("run", Null)) = Booting(lines)
  <2>1. ServedBy(lines, a, Cmd("run", Null))
          = [a EXCEPT !.pc = 0, !.writes = <<>>, !.live = TRUE, !.busy = TRUE]
    BY CmdIs DEF ServedBy
  <2> QED BY <1>1, <1>2, <2>1 DEF Booting, Debuggee
<1>5. Booting(lines) \in Debuggee
  <2>1. <<>> \in Writes /\ {"main"} \cap ToSet(lines) \in SUBSET Arg
    BY DEF Writes, Arg
  <2> DEFINE w == <<>>
             x == {"main"} \cap ToSet(lines)
  <2>2. w \in Writes /\ x \in SUBSET Arg
    BY <2>1
  <2> HIDE DEF w, x
  <2>3. [pc |-> 0, stops |-> x, live |-> TRUE, busy |-> TRUE, writes |-> w, exits |-> 0] \in Debuggee
    BY <2>2 DEF Debuggee
  <2> QED BY <2>3 DEF Booting, w, x
<1>6. Booted(lines) \in Debuggee
  BY <1>5, SettledTyped DEF Booted
<1>7. Booted(lines).exits = 0 => Booted(lines) = At(PlaceOf(Booted(lines)))
  <2>1. /\ Booting(lines).busy /\ Booting(lines).live /\ Booting(lines).exits = 0
        /\ Booting(lines).stops \subseteq {"main"}
    BY DEF Booting
  <2> QED BY <1>5, <2>1, LegEnds DEF Booted
<1> QED BY <1>3, <1>4, <1>6, <1>7 DEF Booted, a

-----------------------------------------------------------------------------
(* The script that repeats the outputs of a list of states.                *)
Redone(d) == IF d.state = "SEND" THEN re_send(d) ELSE <<>>
Resent(lines, q, d) ==
  After(lines, After(lines, After(lines, q, Cmd("insert", d.location)), Cmd("continue", Null)),
        Cmd("set", IF d.var THEN d.value ELSE Null))

LEMMA RedoneTyped ==
  ASSUME NEW d \in Data
  PROVE  /\ Redone(d) \in Seq(Command)
         /\ Cmd("insert", d.location) \in Command /\ Cmd("continue", Null) \in Command
         /\ Cmd("set", IF d.var THEN d.value ELSE Null) \in Command
<1>1. d.location \in Arg /\ d.value \in Arg /\ Null \in Arg
  BY DEF Data, Arg
<1>2. /\ Cmd("insert", d.location) \in Command /\ Cmd("continue", Null) \in Command
      /\ Cmd("set", IF d.var THEN d.value ELSE Null) \in Command
  BY <1>1, CmdTyped DEF Name
<1>3. re_send(d) \in Seq(Command)
  BY <1>2 DEF re_send
<1> QED BY <1>2, <1>3 DEF Redone

LEMMA BackOfMore ==
  ASSUME NEW h \in Seq(Data), NEW d \in Data
  PROVE  mc_back(Append(h, d)) = mc_back(h) \o Redone(d)
<1> DEFINE T == Seq(Command)
           n == Len(h)
           a == <<Cmd("insert", "main"), Cmd("run", Null)>>
           s == [i \in 1 .. n |-> Redone(h[i])]
           k == Append(h, d)
           t == [i \in 1 .. n + 1 |-> Redone(k[i])]
<1>1. n \in Nat /\ DOMAIN h = 1 .. n /\ \A i \in 1 .. n : h[i] \in Data
  BY LenProperties, ElementOfSeq
<1>2. k \in Seq(Data) /\ Len(k) = n + 1 /\ k[n + 1] = d /\ \A i \in 1 .. n : k[i] = h[i]
  BY AppendProperties
<1> HIDE DEF k
<1>3. DOMAIN k = 1 .. n + 1
  BY <1>2, LenProperties
<1>4. mc_back(h) = a \o FlattenSeq(s) /\ mc_back(k) = a \o FlattenSeq(t)
  BY <1>1, <1>3 DEF mc_back, Redone
<1>5. s \in Seq(T) /\ Redone(d) \in T /\ Len(s) = n
  <2>1. \A i \in 1 .. n : Redone(h[i]) \in T
    BY <1>1, RedoneTyped
  <2>2. Redone(d) \in T
    BY RedoneTyped
  <2> HIDE DEF T
  <2>3. s \in [1 .. n -> T]
    BY <2>1
  <2>4. s \in Seq(T) /\ Len(s) = n
    <3> HIDE DEF s
    <3> QED BY <1>1, <2>3, LenProperties
  <2> QED BY <2>2, <2>4
<1>6. t = Append(s, Redone(d))
  <2> DEFINE u == Append(s, Redone(d))
  <2>1. s \in Seq(T) /\ Redone(d) \in T /\ Len(s) = n
    BY <1>5
  <2>2. \A i \in 1 .. n : s[i] = Redone(h[i])
    OBVIOUS
  <2> HIDE DEF s, T
  <2>3. u \in Seq(T) /\ Len(u) = n + 1 /\ u[n + 1] = Redone(d) /\ \A i \in 1 .. n : u[i] = s[i]
    BY <2>1, AppendProperties
  <2>4. \A i \in 1 .. n + 1 : t[i] = u[i]
    <3> SUFFICES ASSUME NEW i \in 1 .. n + 1 PROVE Redone(k[i]) = u[i]
      OBVIOUS
    <3>1. CASE i = n + 1
      BY <1>2, <2>3, <3>1
    <3>2. CASE i # n + 1
      <4>1. i \in 1 .. n
        BY <1>1, <3>2
      <4> QED BY <1>2, <2>2, <2>3, <4>1
    <3> QED BY <3>1, <3>2
  <2>5. u = [i \in 1 .. n + 1 |-> u[i]]
    <3> HIDE DEF u
    <3> QED BY <1>1, <2>3, LenProperties
  <2> HIDE DEF u
  <2>6. t = u
    BY <2>4, <2>5
  <2> QED BY <2>6 DEF u
<1>7. FlattenSeq(t) = FlattenSeq(s) \o Redone(d)
  <2>1. s \in Seq(Seq(Command)) /\ Redone(d) \in Seq(Command)
    BY <1>5
  <2> HIDE DEF s, t, T
  <2> QED BY <1>6, <2>1, FlattenOfAppend
<1>8. a \in T /\ FlattenSeq(s) \in T
  <2>1. s \in Seq(Seq(Command))
    BY <1>5
  <2>2. Cmd("insert", "main") \in Command /\ Cmd("run", Null) \in Command
    BY CmdTyped DEF Name, Arg
  <2>3. a \in T
    BY <2>2
  <2> HIDE DEF s, a
  <2> QED BY <2>1, <2>3, FlattenTyped
<1> DEFINE x == FlattenSeq(s)
           y == Redone(d)
<1>9. mc_back(h) = a \o x /\ mc_back(k) = a \o (x \o y) /\ a \in T /\ x \in T /\ y \in T
  BY <1>4, <1>5, <1>7, <1>8
<1> HIDE DEF a, x, y, s, t
<1>10. (a \o x) \o y = a \o (x \o y)
  BY <1>9, ConcatAssociative
<1> QED BY <1>9, <1>10 DEF k, y

LEMMA BackOfNone ==
  /\ mc_back(<<>>) = <<Cmd("insert", "main"), Cmd("run", Null)>>
  /\ mc_back(<<>>) \in Seq(Command)
<1>1. Cmd("insert", "main") \in Command /\ Cmd("run", Null) \in Command
  BY CmdTyped DEF Name, Arg
<1>2. [i \in DOMAIN <<>> |-> IF <<>>[i].state = "SEND" THEN re_send(<<>>[i]) ELSE <<>>] = <<>>
  OBVIOUS
<1>3. FlattenSeq(<<>>) = <<>>
  BY DEF FlattenSeq
<1> DEFINE a == <<Cmd("insert", "main"), Cmd("run", Null)>>
<1>4. a \in Seq(Command)
  BY <1>1
<1>5. mc_back(<<>>) = a \o <<>>
  BY <1>2, <1>3 DEF mc_back
<1> HIDE DEF a
<1> QED BY <1>4, <1>5, ConcatEmptySeq DEF a

LEMMA OutcomeOfBack ==
  ASSUME NEW lines \in Lines, NEW g \in Debuggee, NEW h \in Seq(Data), NEW d \in Data
  PROVE  Outcome(lines, g, mc_back(Append(h, d))) =
           IF d.state = "SEND" THEN Resent(lines, Outcome(lines, g, mc_back(h)), d)
           ELSE Outcome(lines, g, mc_back(h))
<1> DEFINE s == mc_back(h)
           a == Cmd("insert", d.location)
           b == Cmd("continue", Null)
           c == Cmd("set", IF d.var THEN d.value ELSE Null)
<1>1. s \in Seq(Command) /\ a \in Command /\ b \in Command /\ c \in Command
  BY BackTyped, RedoneTyped
<1>2. mc_back(Append(h, d)) = s \o Redone(d)
  BY BackOfMore
<1>3. d.state = "SEND" => Redone(d) = <<a, b, c>>
  BY DEF Redone, re_send
<1>4. d.state # "SEND" => Redone(d) = <<>>
  BY DEF Redone
<1>5. Resent(lines, Outcome(lines, g, s), d) =
        After(lines, After(lines, After(lines, Outcome(lines, g, s), a), b), c)
  BY DEF Resent
<1> HIDE DEF s, a, b, c
<1>6. s \o <<a, b, c>> = Append(Append(Append(s, a), b), c)
  BY <1>1, MoreAppended
<1>7. Append(s, a) \in Seq(Command) /\ Append(Append(s, a), b) \in Seq(Command)
  BY <1>1, AppendProperties
<1>8. Outcome(lines, g, Append(s, a)) = After(lines, Outcome(lines, g, s), a)
  BY <1>1, OutcomeOfMore
<1>9. Outcome(lines, g, Append(Append(s, a), b)) = After(lines, Outcome(lines, g, Append(s, a)), b)
  BY <1>1, <1>7, OutcomeOfMore
<1>10. Outcome(lines, g, Append(Append(Append(s, a), b), c))
         = After(lines, Outcome(lines, g, Append(Append(s, a), b)), c)
  BY <1>1, <1>7, OutcomeOfMore
<1>11. s \o <<>> = s
  BY <1>1, ConcatEmptySeq
<1>12. CASE d.state = "SEND"
  BY <1>2, <1>3, <1>5, <1>6, <1>8, <1>9, <1>10, <1>12 DEF s
<1>13. CASE d.state # "SEND"
  BY <1>2, <1>4, <1>11, <1>13 DEF s
<1> QED BY <1>12, <1>13

(* An output is repeated from where the outputs before it have led.        *)
LEMMA ResentIs ==
  ASSUME NEW lines \in Lines, NEW q \in Debuggee, q.exits = 0 => q = At(PlaceOf(q)), NEW d \in Data
  PROVE  LET r == Resent(lines, q, d)
         IN  /\ r \in Debuggee
             /\ r.exits = 0 => q.exits = 0 /\ d.var /\ r = At(PlaceOf(r))
<1> DEFINE a == After(lines, q, Cmd("insert", d.location))
           b == After(lines, a, Cmd("continue", Null))
           w == IF d.var THEN d.value ELSE Null
           r == After(lines, b, Cmd("set", w))
<1>1. /\ Cmd("insert", d.location) \in Command /\ Cmd("continue", Null) \in Command
      /\ Cmd("set", w) \in Command /\ d.location \in Arg /\ w \in Arg
  BY RedoneTyped DEF Data, Arg
<1>2. /\ a \in Debuggee /\ b \in Debuggee /\ r \in Debuggee
      /\ q.exits = 1 => r.exits = 1
      /\ b.exits = 1 => r.exits = 1
  <2> HIDE DEF w
  <2>1. a \in Debuggee /\ (q.exits = 1 => a.exits = 1)
    BY <1>1, AfterTyped
  <2> HIDE DEF a
  <2>2. b \in Debuggee /\ (a.exits = 1 => b.exits = 1)
    BY <1>1, <2>1, AfterTyped
  <2> HIDE DEF b
  <2>3. r \in Debuggee /\ (b.exits = 1 => r.exits = 1)
    BY <1>1, <2>2, AfterTyped
  <2> QED BY <2>1, <2>2, <2>3
<1>3. q.exits \in {0, 1} /\ b.exits \in {0, 1} /\ r.exits \in {0, 1}
  BY <1>2 DEF Debuggee
<1>4. ASSUME r.exits = 0
      PROVE  q.exits = 0 /\ d.var /\ r = At(PlaceOf(r))
  <2>1. q.exits = 0 /\ b.exits = 0
    BY <1>2, <1>3, <1>4
  <2>2. PlaceOf(q) \in Place /\ q = At(PlaceOf(q))
    BY <2>1, PlaceTyped
  <2> DEFINE m == PlaceOf(q)
  <2> HIDE DEF m
  <2>3. b = At(PlaceOf(b))
    <3>1. m \in Place /\ q = At(m)
      BY <2>2 DEF m
    <3>2. b = After(lines, After(lines, At(m), Cmd("insert", d.location)), Cmd("continue", Null))
      BY <3>1
    <3> HIDE DEF b
    <3> QED BY <1>1, <2>1, <3>1, <3>2, Leg
  <2> HIDE DEF b
  <2>4. PlaceOf(b) \in Place
    BY <1>2, PlaceTyped
  <2> DEFINE n == PlaceOf(b)
  <2>5. r = After(lines, At(n), Cmd("set", w))
    BY <2>3
  <2> HIDE DEF n, w, r
  <2>6. r = At(PlaceOf(r)) /\ w # Null
    <3>1. n \in Place
      BY <2>4 DEF n
    <3> QED BY <1>1, <1>4, <2>5, <3>1, SetLeg
  <2> QED BY <2>1, <2>6 DEF w
<1> QED BY <1>2, <1>4 DEF Resent

-----------------------------------------------------------------------------
(* A link: from wherever the program is started over, the script for these *)
(* states leads to the place m, or somewhere if there are inputs, unless   *)
(* the program ends on the way.                                            *)
NoInput(h) == \A i \in 1 .. Len(h) : h[i].state # "RECV"
Link(lines, h, m) ==
  \A g \in Starts : LET r == Outcome(lines, g, mc_back(h)) IN
    r.exits = 0 => r = At(PlaceOf(r)) /\ (NoInput(h) => r = At(m))
(* Every beginning of the list of states is a link to the place where the  *)
(* action began that the verifier went on with; m is where it is now.      *)
Chained(lines, h, p, m) ==
  \A k \in 1 .. Len(h) : Link(lines, SubSeq(h, 1, k), IF k <= Len(p) THEN p[k].mark ELSE m)

LEMMA NoInputMore ==
  ASSUME NEW h \in Seq(Data), NEW d \in Data
  PROVE  NoInput(Append(h, d)) <=> NoInput(h) /\ d.state # "RECV"
<1> DEFINE n == Len(h)
           a == Append(h, d)
<1>1. n \in Nat
  BY LenProperties
<1>2. Len(a) = n + 1 /\ a[n + 1] = d /\ \A i \in 1 .. n : a[i] = h[i]
  BY AppendProperties
<1> HIDE DEF a
<1>3. ASSUME NoInput(a) PROVE NoInput(h) /\ d.state # "RECV"
  <2>1. n + 1 \in 1 .. n + 1 /\ \A i \in 1 .. n : i \in 1 .. n + 1
    BY <1>1
  <2>2. \A i \in 1 .. n + 1 : a[i].state # "RECV"
    BY <1>2, <1>3 DEF NoInput
  <2>3. a[n + 1].state # "RECV" /\ \A i \in 1 .. n : a[i].state # "RECV"
    BY <2>1, <2>2
  <2> QED BY <1>2, <2>3 DEF NoInput
<1>4. ASSUME NoInput(h), d.state # "RECV" PROVE NoInput(a)
  <2>1. \A i \in 1 .. n : h[i].state # "RECV"
    BY <1>4 DEF NoInput
  <2>2. \A i \in 1 .. n + 1 : i \in 1 .. n \/ i = n + 1
    BY <1>1
  <2>3. \A i \in 1 .. n + 1 : a[i].state # "RECV"
    BY <1>2, <1>4, <2>1, <2>2
  <2> QED BY <1>2, <2>3 DEF NoInput
<1> QED BY <1>3, <1>4 DEF a

LEMMA LoadedStarts == Loaded \in Starts
<1>1. <<>> \in Writes
  BY DEF Writes
<1> DEFINE w == <<>>
<1>2. w \in Writes
  BY <1>1
<1> HIDE DEF w
<1>3. [pc |-> 0, stops |-> {}, live |-> FALSE, busy |-> FALSE, writes |-> w, exits |-> 0] \in Starts
  BY <1>2 DEF Starts, Debuggee
<1> QED BY <1>3 DEF Loaded, w

LEMMA LinkOfFirst ==
  ASSUME NEW lines \in Lines, NEW d \in Data, d.state # "SEND"
  PROVE  Link(lines, Append(<<>>, d), PlaceOf(Booted(lines)))
<1> DEFINE h == <<>>
<1>1. h \in Seq(Data)
  OBVIOUS
<1>2. mc_back(h) = <<Cmd("insert", "main"), Cmd("run", Null)>>
  BY BackOfNone
<1> HIDE DEF h
<1>3. ASSUME NEW g \in Starts
      PROVE  Outcome(lines, g, mc_back(Append(h, d))) = Booted(lines)
  <2>1. g \in Debuggee
    BY DEF Starts
  <2>2. Outcome(lines, g, mc_back(Append(h, d))) = Outcome(lines, g, mc_back(h))
    BY <1>1, <2>1, OutcomeOfBack
  <2>3. Cmd("insert", "main") \in Command /\ Cmd("run", Null) \in Command
    BY CmdTyped DEF Name, Arg
  <2>4. Outcome(lines, g, <<Cmd("insert", "main"), Cmd("run", Null)>>)
          = After(lines, After(lines, g, Cmd("insert", "main")), Cmd("run", Null))
    BY <2>1, <2>3, OutcomeOfFew
  <2> QED BY <1>2, <2>2, <2>4, Boots
<1>4. Booted(lines).exits = 0 => Booted(lines) = At(PlaceOf(Booted(lines)))
  BY LoadedStarts, Boots
<1>5. Link(lines, Append(h, d), PlaceOf(Booted(lines)))
  BY <1>3, <1>4 DEF Link
<1> QED BY <1>5 DEF h

LEMMA LinkOfInput ==
  ASSUME NEW lines \in Lines, NEW h \in Seq(Data), NEW d \in Data, d.state = "RECV",
         NEW m, NEW n, Link(lines, h, m)
  PROVE  Link(lines, Append(h, d), n)
<1>1. ~NoInput(Append(h, d))
  BY NoInputMore
<1>2. ASSUME NEW g \in Starts
      PROVE  Outcome(lines, g, mc_back(Append(h, d))) = Outcome(lines, g, mc_back(h))
  <2>1. g \in Debuggee
    BY DEF Starts
  <2> QED BY <2>1, OutcomeOfBack
<1> QED BY <1>1, <1>2 DEF Link

LEMMA LinkOfOutput ==
  ASSUME NEW lines \in Lines, NEW h \in Seq(Data), NEW d \in Data, d.state = "SEND",
         NEW m, NEW n, Link(lines, h, m),
         d.var => Resent(lines, At(m), d) = At(n)
  PROVE  Link(lines, Append(h, d), n)
<1> SUFFICES ASSUME NEW g \in Starts, Outcome(lines, g, mc_back(Append(h, d))).exits = 0
             PROVE  LET r == Outcome(lines, g, mc_back(Append(h, d))) IN
                    r = At(PlaceOf(r)) /\ (NoInput(Append(h, d)) => r = At(n))
  BY DEF Link
<1> DEFINE q == Outcome(lines, g, mc_back(h))
           r == Outcome(lines, g, mc_back(Append(h, d)))
<1>1. g \in Debuggee
  BY DEF Starts
<1>2. r = Resent(lines, q, d)
  BY <1>1, OutcomeOfBack
<1>3. q \in Debuggee
  <2>1. mc_back(h) \in Seq(Command)
    BY BackTyped
  <2> QED BY <1>1, <2>1, OutcomeTyped
<1>4. q.exits = 0 => q = At(PlaceOf(q)) /\ (NoInput(h) => q = At(m))
  BY DEF Link
<1>5. r.exits = 0
  OBVIOUS
<1> HIDE DEF q, r
<1>6. q.exits = 0 /\ d.var /\ r = At(PlaceOf(r))
  <2>1. q.exits = 0 => q = At(PlaceOf(q))
    BY <1>4
  <2> QED BY <1>2, <1>3, <1>5, <2>1, ResentIs
<1>7. NoInput(Append(h, d)) => NoInput(h)
  BY NoInputMore
<1>8. NoInput(h) => r = At(n)
  BY <1>2, <1>4, <1>6
<1> QED BY <1>6, <1>7, <1>8 DEF r

LEMMA LinkAnywhere ==
  ASSUME NEW lines, NEW h, NEW m, NEW n, Link(lines, h, m), NoInput(h) => n = m
  PROVE  Link(lines, h, n)
BY DEF Link

(* The beginnings of a list that is lengthened or shortened.               *)
LEMMA Whole ==
  ASSUME NEW S, NEW s \in Seq(S)
  PROVE  SubSeq(s, 1, Len(s)) = s
<1> DEFINE n == Len(s)
<1>1. n \in Nat /\ n \in 0 .. n
  BY LenProperties
<1>2. SubSeq(s, 1, n) \in Seq(S) /\ Len(SubSeq(s, 1, n)) = n /\ \A j \in 1 .. n : SubSeq(s, 1, n)[j] = s[j]
  BY <1>1, InitialSegment
<1> QED BY <1>2, SeqEqual

LEMMA SamePrefix ==
  ASSUME NEW S, NEW s \in Seq(S), NEW t \in Seq(S), NEW k \in Nat, k <= Len(s), k <= Len(t),
         \A i \in 1 .. k : s[i] = t[i]
  PROVE  SubSeq(s, 1, k) = SubSeq(t, 1, k)
<1>1. Len(s) \in Nat /\ Len(t) \in Nat
  BY LenProperties
<1>2. k \in 0 .. Len(s) /\ k \in 0 .. Len(t)
  BY <1>1
<1> DEFINE a == SubSeq(s, 1, k)
           b == SubSeq(t, 1, k)
<1>3. a \in Seq(S) /\ Len(a) = k /\ \A j \in 1 .. k : a[j] = s[j]
  BY <1>2, InitialSegment
<1>4. b \in Seq(S) /\ Len(b) = k /\ \A j \in 1 .. k : b[j] = t[j]
  BY <1>2, InitialSegment
<1> HIDE DEF a, b
<1>5. a = b
  BY <1>3, <1>4, SeqEqual
<1> QED BY <1>5 DEF a, b

LEMMA ChainedAnywhere ==
  ASSUME NEW lines, NEW h \in Seq(Data), NEW p \in Seq(Data), NEW m, NEW n,
         Chained(lines, h, p, m), Len(h) <= Len(p)
  PROVE  Chained(lines, h, p, n)
<1>1. Len(h) \in Nat /\ Len(p) \in Nat
  BY LenProperties
<1>2. \A k \in 1 .. Len(h) : k <= Len(p)
  BY <1>1
<1> QED BY <1>2 DEF Chained

LEMMA ChainedLast ==
  ASSUME NEW lines, NEW h \in Seq(Data), h # <<>>, NEW p, NEW m, Chained(lines, h, p, m)
  PROVE  Link(lines, h, IF Len(h) <= Len(p) THEN p[Len(h)].mark ELSE m)
<1>1. Len(h) \in 1 .. Len(h)
  BY LenProperties, EmptySeq
<1>2. SubSeq(h, 1, Len(h)) = h
  BY Whole
<1> QED BY <1>1, <1>2 DEF Chained

(* An action ends: its state is appended.                                  *)
LEMMA ChainedAppended ==
  ASSUME NEW lines, NEW h \in Seq(Data), NEW p \in Seq(Data), NEW m, NEW n, NEW d \in Data,
         Chained(lines, h, p, m), Len(h) = Len(p), Link(lines, Append(h, d), n)
  PROVE  Chained(lines, Append(h, d), p, n)
<1> DEFINE N == Len(h)
           a == Append(h, d)
<1>1. N \in Nat /\ N = Len(p)
  BY LenProperties
<1>2. a \in Seq(Data) /\ Len(a) = N + 1 /\ \A i \in 1 .. N : a[i] = h[i]
  BY AppendProperties
<1>3. Link(lines, a, n) /\ \A k \in 1 .. N : Link(lines, SubSeq(h, 1, k), IF k <= N THEN p[k].mark ELSE m)
  BY <1>1 DEF Chained
<1> HIDE DEF a
<1>4. ASSUME NEW k \in 1 .. N + 1
      PROVE  Link(lines, SubSeq(a, 1, k), IF k <= N THEN p[k].mark ELSE n)
  <2>1. CASE k = N + 1
    <3>1. SubSeq(a, 1, k) = a
      BY <1>2, <2>1, Whole
    <3>2. ~(k <= N)
      BY <1>1, <2>1
    <3>3. (IF k <= N THEN p[k].mark ELSE n) = n
      BY <3>2
    <3> QED BY <1>3, <3>1, <3>3
  <2>2. CASE k # N + 1
    <3>1. k \in 1 .. N /\ k \in Nat /\ k <= N /\ k <= N + 1
      BY <1>1, <2>2
    <3>2. SubSeq(a, 1, k) = SubSeq(h, 1, k)
      <4>1. \A i \in 1 .. k : a[i] = h[i]
        BY <1>1, <1>2, <3>1
      <4>2. k <= Len(a) /\ k <= Len(h)
        BY <1>2, <3>1
      <4> QED BY <1>2, <3>1, <4>1, <4>2, SamePrefix
    <3> QED BY <1>3, <3>1, <3>2
  <2> QED BY <2>1, <2>2
<1> QED BY <1>1, <1>2, <1>4 DEF Chained, a

(* An action begins where the last link leads to.                          *)
LEMMA ChainedDeeper ==
  ASSUME NEW lines, NEW h \in Seq(Data), NEW p \in Seq(Data), NEW m, NEW n, NEW d \in Data,
         Chained(lines, h, p, m), Len(h) = Len(p) + 1, Link(lines, h, d.mark)
  PROVE  Chained(lines, h, Append(p, d), n)
<1> DEFINE N == Len(p)
           a == Append(p, d)
<1>1. N \in Nat /\ Len(h) = N + 1
  BY LenProperties
<1>2. Len(a) = N + 1 /\ a[N + 1] = d /\ \A i \in 1 .. N : a[i] = p[i]
  BY AppendProperties
<1>3. \A k \in 1 .. N + 1 : Link(lines, SubSeq(h, 1, k), IF k <= N THEN p[k].mark ELSE m)
  BY <1>1 DEF Chained
<1> HIDE DEF a
<1>4. ASSUME NEW k \in 1 .. N + 1
      PROVE  Link(lines, SubSeq(h, 1, k), IF k <= N + 1 THEN a[k].mark ELSE n)
  <2>1. CASE k = N + 1
    <3>1. SubSeq(h, 1, k) = h
      BY <1>1, <2>1, Whole
    <3>2. (IF k <= N + 1 THEN a[k].mark ELSE n) = d.mark
      <4>1. k <= N + 1 /\ a[k] = d
        BY <1>1, <1>2, <2>1
      <4> QED BY <4>1
    <3> QED BY <3>1, <3>2
  <2>2. CASE k # N + 1
    <3>1. k \in 1 .. N /\ k <= N /\ k <= N + 1
      BY <1>1, <2>2
    <3> QED BY <1>2, <1>3, <3>1
  <2> QED BY <2>1, <2>2
<1> QED BY <1>1, <1>2, <1>4 DEF Chained, a

(* An action is undone: it and its state are taken off together.           *)
LEMMA ChainedFront ==
  ASSUME NEW lines, NEW h \in Seq(Data), NEW p \in Seq(Data), NEW m, p # <<>>,
         Chained(lines, h, p, m), Len(h) = Len(p) + 1
  PROVE  Chained(lines, Front(h), Front(p), Last(p).mark)
<1> DEFINE N == Len(p)
           a == Front(h)
           b == Front(p)
<1>1. /\ N \in Nat \ {0} /\ Len(h) = N + 1 /\ Len(b) = N - 1 /\ \A i \in 1 .. N - 1 : b[i] = p[i]
  BY Parts
<1>2. a \in Seq(Data) /\ Len(a) = N /\ \A i \in 1 .. N : a[i] = h[i]
  <2>1. h # <<>> /\ Len(h) - 1 = N
    BY <1>1
  <2> QED BY <2>1, Parts
<1>3. \A k \in 1 .. N + 1 : Link(lines, SubSeq(h, 1, k), IF k <= N THEN p[k].mark ELSE m)
  BY <1>1 DEF Chained
<1>4. Last(p) = p[N]
  BY DEF Last
<1> HIDE DEF a, b
<1>5. ASSUME NEW k \in 1 .. N
      PROVE  Link(lines, SubSeq(a, 1, k), IF k <= N - 1 THEN b[k].mark ELSE Last(p).mark)
  <2>1. k \in 1 .. N + 1 /\ k <= N /\ k \in Nat
    BY <1>1
  <2>2. SubSeq(a, 1, k) = SubSeq(h, 1, k)
    <3>1. \A i \in 1 .. k : a[i] = h[i]
      BY <1>1, <1>2
    <3>2. k <= Len(a) /\ k <= Len(h)
      BY <1>1, <1>2, <2>1
    <3> QED BY <1>2, <2>1, <3>1, <3>2, SamePrefix
  <2>3. (IF k <= N - 1 THEN b[k].mark ELSE Last(p).mark) = p[k].mark
    BY <1>1, <1>4
  <2> QED BY <1>3, <2>1, <2>2, <2>3
<1> QED BY <1>1, <1>2, <1>5 DEF Chained, a, b

-----------------------------------------------------------------------------
(* The scripts: what is behind rccs, the command under way, what is left.  *)
LEMMA SplitIs ==
  ASSUME NEW S, NEW b \in Seq(S), NEW t \in Seq(S), t # <<>>
  PROVE  /\ Len(b) \in Nat /\ Len(t) \in Nat \ {0} /\ Len(b \o t) = Len(b) + Len(t)
         /\ Head(t) \in S /\ Head(t) = (b \o t)[Len(b) + 1]
         /\ \A i \in 1 .. Len(b) : b[i] = (b \o t)[i]
         /\ Tail(t) \in Seq(S) /\ Append(b, Head(t)) \in Seq(S)
         /\ Append(b, Head(t)) \o Tail(t) = b \o t
         /\ Len(t) = 1 => Append(b, Head(t)) = b \o t
<1> DEFINE n == Len(b)
           k == Len(t)
           h == Head(t)
           z == Tail(t)
           a == Append(b, h)
           s == b \o t
<1>1. n \in Nat /\ k \in Nat \ {0}
  BY EmptySeq, LenProperties
<1>2. h \in S /\ h = t[1] /\ z \in Seq(S) /\ Len(z) = k - 1 /\ \A i \in 1 .. k - 1 : z[i] = t[i + 1]
  BY HeadTailProperties
<1>3. s \in Seq(S) /\ Len(s) = n + k /\ \A i \in 1 .. n + k : s[i] = IF i <= n THEN b[i] ELSE t[i - n]
  BY ConcatProperties
<1> HIDE DEF h, z, s
<1>4. a \in Seq(S) /\ Len(a) = n + 1 /\ a[n + 1] = h /\ \A i \in 1 .. n : a[i] = b[i]
  BY <1>2, AppendProperties
<1> HIDE DEF a
<1>5. /\ a \o z \in Seq(S) /\ Len(a \o z) = n + k
      /\ \A i \in 1 .. n + k : (a \o z)[i] = IF i <= n + 1 THEN a[i] ELSE z[i - (n + 1)]
  <2>1. /\ a \o z \in Seq(S) /\ Len(a \o z) = Len(a) + Len(z)
        /\ \A i \in 1 .. Len(a) + Len(z) : (a \o z)[i] = IF i <= Len(a) THEN a[i] ELSE z[i - Len(a)]
    BY <1>2, <1>4, ConcatProperties
  <2>2. Len(a) + Len(z) = n + k
    BY <1>1, <1>2, <1>4
  <2> QED BY <1>4, <2>1, <2>2
<1>6. s[n + 1] = h /\ \A i \in 1 .. n : s[i] = b[i]
  <2>1. n + 1 \in 1 .. n + k /\ ~(n + 1 <= n) /\ (n + 1) - n = 1 /\ \A i \in 1 .. n : i \in 1 .. n + k
    BY <1>1
  <2> DEFINE m == n + 1
  <2>2. m \in 1 .. n + k /\ ~(m <= n) /\ m - n = 1
    BY <2>1
  <2> HIDE DEF m
  <2>3. s[m] = t[1]
    BY <1>3, <2>2
  <2> QED BY <1>2, <1>3, <2>1, <2>3 DEF m
<1> HIDE DEF n, k
<1>7. ASSUME NEW i \in 1 .. n + k
      PROVE  (a \o z)[i] = s[i]
  <2>1. CASE i <= n
    <3>1. i \in 1 .. n /\ i <= n + 1
      BY <1>1, <2>1
    <3> QED BY <1>4, <1>5, <1>6, <3>1
  <2>2. CASE i = n + 1
    BY <1>1, <1>4, <1>5, <1>6, <2>2
  <2>3. CASE ~(i <= n) /\ i # n + 1
    <3>1. ~(i <= n + 1) /\ i - (n + 1) \in 1 .. k - 1 /\ (i - (n + 1)) + 1 = i - n
      BY <1>1, <2>3
    <3>2. (a \o z)[i] = z[i - (n + 1)] /\ s[i] = t[i - n]
      BY <1>3, <1>5, <2>3, <3>1
    <3>3. z[i - (n + 1)] = t[(i - (n + 1)) + 1]
      BY <1>2, <3>1
    <3> QED BY <3>1, <3>2, <3>3
  <2> QED BY <2>1, <2>2, <2>3
<1>8. a \o z = s
  <2>1. Len(a \o z) = Len(s) /\ Len(s) = n + k
    BY <1>3, <1>5
  <2> QED BY <1>3, <1>5, <1>7, <2>1, SeqEqual
<1>9. ASSUME k = 1 PROVE a = s
  <2>1. z = <<>>
    <3>1. Len(z) = 0
      BY <1>2, <1>9
    <3> QED BY <1>2, <3>1, EmptySeq
  <2> QED BY <1>4, <1>8, <2>1, ConcatEmptySeq
<1> QED BY <1>1, <1>2, <1>3, <1>4, <1>6, <1>8, <1>9 DEF n, k, h, z, a, s

(* A script of two or three commands, and the ways it is cut in two.       *)
Short(s, x, y, c) == s = <<x, y>> \/ s = <<x, y, c>>
Cut(b, t, x, y, c) == \/ b = <<>> /\ Head(t) = x /\ Len(t) # 1
                      \/ b = <<x>> /\ Head(t) = y
                      \/ b = <<x, y>> /\ Head(t) = c /\ Len(t) = 1

LEMMA ScriptCut ==
  ASSUME NEW S, NEW x \in S, NEW y \in S, NEW c \in S,
         NEW b \in Seq(S), NEW t \in Seq(S), t # <<>>, Short(b \o t, x, y, c)
  PROVE  Cut(b, t, x, y, c)
<1> DEFINE e == <<>>
           p == <<x>>
           q == <<x, y>>
           s == b \o t
<1>1. /\ e \in Seq(S) /\ p \in Seq(S) /\ q \in Seq(S)
      /\ Len(e) = 0 /\ Len(p) = 1 /\ Len(q) = 2 /\ p[1] = x /\ q[1] = x /\ q[2] = y
  OBVIOUS
<1>2. /\ Len(s) \in {2, 3} /\ s[1] = x /\ s[2] = y
      /\ Len(s) = 3 => s[3] = c
  <2>1. CASE s = <<x, y>>
    BY <2>1
  <2>2. CASE s = <<x, y, c>>
    BY <2>2
  <2> HIDE DEF s
  <2>3. Short(s, x, y, c)
    BY DEF s
  <2> QED BY <2>1, <2>2, <2>3 DEF Short
<1>3. /\ Len(b) \in Nat /\ Len(t) \in Nat \ {0} /\ Len(s) = Len(b) + Len(t)
      /\ Head(t) = s[Len(b) + 1] /\ \A i \in 1 .. Len(b) : b[i] = s[i]
  BY SplitIs
<1> HIDE DEF e, p, q, s
<1> DEFINE l == Len(b)
           k == Len(t)
           n == Len(s)
<1>4. /\ l \in {0, 1, 2}
      /\ l = 2 => n = 3 /\ k = 1
      /\ l = 0 => k # 1
  <2>1. n \in {2, 3} /\ l \in Nat /\ k \in Nat \ {0} /\ n = l + k
    BY <1>2, <1>3
  <2> HIDE DEF l, k, n
  <2> QED BY <2>1
<1>5. CASE Len(b) = 0
  <2>1. b = e
    BY <1>1, <1>5, SeqEqual
  <2>2. Head(t) = x /\ Len(t) # 1
    BY <1>2, <1>3, <1>4, <1>5
  <2> QED BY <2>1, <2>2 DEF e, Cut
<1>6. CASE Len(b) = 1
  <2>1. b[1] = x
    BY <1>2, <1>3, <1>6
  <2>2. b = p
    BY <1>1, <1>6, <2>1, SeqEqual
  <2>3. Head(t) = y
    BY <1>2, <1>3, <1>6
  <2> QED BY <2>2, <2>3 DEF p, Cut
<1>7. CASE Len(b) = 2
  <2>1. b[1] = x /\ b[2] = y
    BY <1>2, <1>3, <1>7
  <2>2. b = q
    <3>1. Len(b) = Len(q) /\ \A i \in 1 .. Len(b) : b[i] = q[i]
      BY <1>1, <1>7, <2>1
    <3> QED BY <1>1, <3>1, SeqEqual
  <2>3. Len(s) = 3 /\ Len(t) = 1
    BY <1>4, <1>7
  <2>4. Head(t) = c
    BY <1>2, <1>3, <1>7, <2>3
  <2> QED BY <2>2, <2>3, <2>4 DEF q, Cut
<1> QED BY <1>4, <1>5, <1>6, <1>7

LEMMA ScriptsAre ==
  ASSUME NEW x \in Arg
  PROVE  LET i == Cmd("insert", x)
             k == Cmd("continue", Null)
         IN  /\ Short(mc_send(x, "v"), i, k, Cmd("set", "v"))
             /\ Short(mc_recv(x), i, k, Cmd("print", x))
             /\ i \in Command /\ k \in Command /\ Cmd("set", "v") \in Command /\ Cmd("print", x) \in Command
<1> DEFINE i == Cmd("insert", x)
           k == Cmd("continue", Null)
           u == Cmd("set", "v")
           w == Cmd("print", x)
           q == <<i, k>>
<1>1. i \in Command /\ k \in Command /\ u \in Command /\ w \in Command
  BY CmdTyped DEF Name, Arg
<1>2. /\ mc_send(x, "v") = q \o IF x \in NoVar THEN <<>> ELSE <<u>>
      /\ mc_recv(x) = q \o IF x \in NoVar THEN <<>> ELSE <<w>>
  BY DEF mc_send, mc_recv
<1> HIDE DEF i, k, u, w
<1>3. q \in Seq(Command)
  BY <1>1
<1>4. <<i, k>> \o <<u>> = <<i, k, u>> /\ <<i, k>> \o <<w>> = <<i, k, w>>
  <2>1. ASSUME NEW a \in Command, NEW d \in Command, NEW e \in Command
        PROVE  <<a, d>> \o <<e>> = <<a, d, e>>
    BY TuplesJoined
  <2> QED BY <1>1, <2>1
<1>5. q \o <<>> = q
  <2> HIDE DEF q
  <2> QED BY <1>3, ConcatEmptySeq
<1>6. CASE x \in NoVar
  BY <1>1, <1>2, <1>5, <1>6 DEF i, k, u, w, Short
<1>7. CASE x \notin NoVar
  BY <1>1, <1>2, <1>4, <1>7 DEF i, k, u, w, Short
<1> QED BY <1>6, <1>7

(* A bound action that ends, wherever it does, leaves the program at some  *)
(* place; with its variable set it is where repeating the action leads.    *)
LEMMA BoundEnds ==
  ASSUME NEW lines \in Lines, NEW m \in Place, NEW x \in Arg,
         NEW c \in {Cmd("set", "v"), Cmd("print", x)},
         NEW b \in Seq(Command), NEW t \in Seq(Command), t # <<>>,
         Short(b \o t, Cmd("insert", x), Cmd("continue", Null), c),
         Head(t).name = "insert" => x \notin ToSet(lines),
         Outcome(lines, At(m), Append(b, Head(t))).exits = 0
  PROVE  LET r == Outcome(lines, At(m), Append(b, Head(t)))
         IN  /\ r = At(PlaceOf(r))
             /\ Head(t).name = "set" =>
                  r = After(lines, After(lines, After(lines, At(m), Cmd("insert", x)),
                                         Cmd("continue", Null)), Cmd("set", "v"))
<1> DEFINE r == Outcome(lines, At(m), Append(b, Head(t)))
           i == Cmd("insert", x)
           k == Cmd("continue", Null)
           g == At(m)
           p == After(lines, After(lines, g, i), k)
<1>1. /\ i \in Command /\ k \in Command /\ c \in Command /\ g \in Debuggee
      /\ i.name = "insert" /\ k.name = "continue" /\ c.name \in {"set", "print"}
      /\ c.name = "set" => c = Cmd("set", "v")
  <2>1. i \in Command /\ k \in Command /\ Cmd("set", "v") \in Command /\ Cmd("print", x) \in Command
    BY ScriptsAre
  <2>2. g \in Debuggee
    BY AtTyped
  <2>3. i.name = "insert" /\ k.name = "continue"
    BY CmdIs
  <2>4. Cmd("set", "v").name = "set" /\ Cmd("print", x).name = "print"
    BY CmdIs
  <2> QED BY <2>1, <2>2, <2>3, <2>4
<1>2. Short(b \o t, i, k, c) /\ r.exits = 0
  OBVIOUS
<1>3. /\ p \in Debuggee /\ (p.exits = 0 => p = At(PlaceOf(p)))
      /\ x \notin ToSet(lines) => After(lines, g, i) = g
  BY Leg
<1> HIDE DEF i, k, g
<1>4. Cut(b, t, i, k, c)
  BY <1>1, <1>2, ScriptCut
<1>5. /\ Append(<<>>, i) = <<i>> /\ Append(<<i>>, k) = <<i, k>> /\ Append(<<i, k>>, c) = <<i, k, c>>
  <2> DEFINE T(a, d, e) == <<a>> = Append(<<>>, a) /\ <<a, d>> = Append(<<a>>, d) /\ <<a, d, e>> = Append(<<a, d>>, e)
  <2>1. ASSUME NEW a \in Command, NEW d \in Command, NEW e \in Command
        PROVE  T(a, d, e)
    BY TuplesAppended
  <2> HIDE DEF T
  <2>2. T(i, k, c)
    BY <1>1, <2>1
  <2> QED BY <2>2 DEF T
<1>6. /\ Outcome(lines, g, <<i>>) = After(lines, g, i)
      /\ Outcome(lines, g, <<i, k>>) = p
      /\ Outcome(lines, g, <<i, k, c>>) = After(lines, p, c)
  <2>1. ASSUME NEW u \in Command, NEW v \in Command
        PROVE  /\ Outcome(lines, g, <<u>>) = After(lines, g, u)
               /\ Outcome(lines, g, <<u, v>>) = After(lines, After(lines, g, u), v)
    BY <1>1, OutcomeOfFew
  <2>2. ASSUME NEW u \in Command, NEW v \in Command, NEW w \in Command
        PROVE  Outcome(lines, g, <<u, v, w>>) = After(lines, After(lines, After(lines, g, u), v), w)
    BY <1>1, OutcomeOfThree
  <2> QED BY <1>1, <2>1, <2>2
<1> HIDE DEF p, r
<1>7. r = Outcome(lines, g, Append(b, Head(t)))
  BY DEF g, r
<1>8. ASSUME b = <<>> /\ Head(t) = i
      PROVE  r = At(PlaceOf(r)) /\ (Head(t).name = "set" => r = After(lines, p, Cmd("set", "v")))
  <2>1. r = After(lines, g, i)
    BY <1>5, <1>6, <1>7, <1>8
  <2>2. r = g
    BY <1>1, <1>3, <1>8, <2>1
  <2>3. g = At(PlaceOf(g))
    BY AtTyped DEF g
  <2> QED BY <1>1, <1>8, <2>2, <2>3
<1>9. ASSUME b = <<i>> /\ Head(t) = k
      PROVE  r = At(PlaceOf(r)) /\ (Head(t).name = "set" => r = After(lines, p, Cmd("set", "v")))
  <2>1. r = p
    BY <1>5, <1>6, <1>7, <1>9
  <2> QED BY <1>1, <1>2, <1>3, <1>9, <2>1
<1>10. ASSUME b = <<i, k>> /\ Head(t) = c
       PROVE  r = At(PlaceOf(r)) /\ (Head(t).name = "set" => r = After(lines, p, Cmd("set", "v")))
  <2>1. r = After(lines, p, c)
    BY <1>5, <1>6, <1>7, <1>10
  <2>2. p.exits = 0
    <3>1. p.exits = 1 => r.exits = 1
      BY <1>1, <1>3, <2>1, AfterTyped
    <3> QED BY <1>2, <1>3, <3>1 DEF Debuggee
  <2>3. PlaceOf(p) \in Place /\ p = At(PlaceOf(p)) /\ p \in Starts
    <3>1. PlaceOf(p) \in Place /\ At(PlaceOf(p)) \in Starts
      BY <1>3, PlaceTyped
    <3> QED BY <1>3, <2>2, <3>1
  <2>4. CASE c.name = "set"
    <3> DEFINE n == PlaceOf(p)
    <3>1. r = After(lines, At(n), Cmd("set", "v")) /\ n \in Place
      BY <1>1, <2>1, <2>3, <2>4
    <3> HIDE DEF n
    <3>2. r = At(PlaceOf(r))
      BY <1>2, <3>1, SetLeg DEF Arg
    <3>3. r = After(lines, p, Cmd("set", "v"))
      BY <1>1, <2>1, <2>4
    <3> QED BY <3>2, <3>3
  <2>5. CASE c.name = "print"
    <3>1. c = Cmd("print", x)
      BY <2>5, CmdIs
    <3>2. r = p
      <4>1. After(lines, p, Cmd("print", x)) = p
        BY <2>3, OtherLeg
      <4> QED BY <2>1, <3>1, <4>1
    <3> QED BY <1>10, <2>3, <2>5, <3>2
  <2> QED BY <1>1, <2>4, <2>5
<1> QED BY <1>4, <1>8, <1>9, <1>10 DEF Cut, r, p, i, k, g

-----------------------------------------------------------------------------
(* The invariant.  As long as the program has not ended, answers are whole *)
(* and the search does bound actions only: the program stands where the    *)
(* commands that have been served lead to from where the operation began,  *)
(* and every beginning of the list of states is a link.                    *)
Exact == scene.whole /\ Bound /\ gdb.exits = 0 /\ phase # "crashed"
Unserved == phase = "issue" \/ (phase = "first" /\ commands # <<>>)
Came == IF op.state = "BACK" THEN op.mark ELSE Target
Script == CASE op.state = "INIT" -> mc_init_debugger
            [] op.state = "SEND" -> mc_send(op.location, "v")
            [] op.state = "RECV" -> mc_recv(op.location)
            [] op.state = "BACK" -> mc_back(history)
Starting(g) == CASE op.state = "INIT" -> g = Loaded
                 [] op.state \in {"SEND", "RECV"} -> g = At(op.mark)
                 [] op.state = "BACK" -> g \in Starts
Replay(g, before) ==
  /\ Starting(g) /\ Script = before \o todo
  /\ Settled(scene.program, gdb)
       = Outcome(scene.program, g, IF Unserved THEN before ELSE Append(before, Head(todo)))
Replaying == \E g \in Debuggee, before \in Seq(Command) : Replay(g, before)
Restoring ==
  Exact => /\ Chained(scene.program, history, path, Came)
           /\ Working => Replaying
           /\ phase = "first" => Head(todo) # Cmd("set", Null)
           /\ Working /\ op.state = "SEND" => op.value = "v" /\ ~op.var
           /\ Working /\ op.state \in {"SEND", "RECV"} => Last(path).mark = op.mark
           /\ Idle => /\ gdb = At(Target)
                      /\ op.state = "BACK" /\ NoInput(history) => Target = op.mark

(* The answer to a breakpoint tells whether the program has the line.      *)
InsertAnswered ==
  scene.whole /\ phase = "first" /\ commands = <<>> /\ Head(todo).name = "insert"
    => pipe = Answer(IF Head(todo).arg \in Known THEN Bkpt ELSE Wrong)

LEMMA SceneKept ==
  ASSUME Typed, [Next]_vars
  PROVE  scene' = scene
BY ReadIs DEF Next, vars, Send, Recv, Visited, Display, Leave, Act, Back, Issue, Serve, Stop

LEMMA ServedIs == ASSUME NEW cmd PROVE Served(cmd) = ServedBy(scene.program, gdb, cmd)
BY DEF Served, ServedBy, Known

LEMMA StopSettles ==
  ASSUME Typed, Stop
  PROVE  /\ gdb' = Settled(scene.program, gdb) /\ Settled(scene.program, gdb') = gdb'
         /\ gdb.exits = 1 => gdb'.exits = 1
<1> DEFINE ahead == {i \in DOMAIN scene.program : i > gdb.pc /\ scene.program[i] \in gdb.stops}
<1>1. gdb.busy
  BY DEF Stop
<1>2. gdb' = IF ahead = {} THEN [gdb EXCEPT !.busy = FALSE, !.live = FALSE, !.exits = 1]
             ELSE [gdb EXCEPT !.busy = FALSE, !.pc = Min(ahead),
                              !.stops = @ \ {scene.program[Min(ahead)]}]
  BY DEF Stop
<1>3. gdb' = Settled(scene.program, gdb)
  BY <1>1, <1>2 DEF Settled
<1> HIDE DEF ahead
<1>4. gdb \in Debuggee
  BY DEF Typed
<1>5. ~gdb'.busy /\ (gdb.exits = 1 => gdb'.exits = 1)
  <2>1. CASE ahead = {}
    BY <1>2, <1>4, <2>1 DEF Debuggee
  <2>2. CASE ahead # {}
    BY <1>2, <1>4, <2>2 DEF Debuggee
  <2> QED BY <2>1, <2>2
<1>6. Settled(scene.program, gdb') = gdb'
  BY <1>5 DEF Settled
<1> QED BY <1>3, <1>5, <1>6

(* The program does not come back from its end, nor rccs from a crash.     *)
LEMMA ExactBefore ==
  ASSUME Typed, [Next]_vars, Exact'
  PROVE  Exact
<1>1. scene' = scene
  BY SceneKept
<1>2. scene.whole /\ Bound /\ gdb'.exits = 0 /\ phase' # "crashed"
  BY <1>1 DEF Exact, Bound
<1>3. gdb.exits \in {0, 1}
  BY DEF Typed, Debuggee
<1>4. gdb.exits = 1 => gdb'.exits = 1
  <2>1. CASE Serve
    <3>1. gdb' = ServedBy(scene.program, gdb, Head(commands)) /\ commands # <<>>
      BY <2>1, ServedIs DEF Serve
    <3>2. Head(commands) \in Command /\ gdb \in Debuggee
      BY <3>1, HeadTailProperties DEF Typed
    <3>3. scene.program \in Lines
      BY ProgramsAreLists DEF Typed, Lines
    <3> QED BY <3>1, <3>2, <3>3, ServedTyped
  <2>2. CASE Stop
    BY <2>2, StopSettles
  <2>3. CASE ~Serve /\ ~Stop
    <3>1. gdb' = gdb
      BY <2>3, ReadIs DEF Next, vars, Send, Recv, Visited, Display, Leave, Act, Back, Issue
    <3> QED BY <3>1
  <2> QED BY <2>1, <2>2, <2>3
<1>5. phase # "crashed"
  <2>1. ASSUME phase = "crashed" PROVE phase' = phase
    BY <2>1, ReadIs DEF Next, vars, Send, Recv, Visited, Display, Leave, Act, Back, Issue, Serve, Stop, rccs, Idle
  <2> QED BY <1>2, <2>1
<1> QED BY <1>2, <1>3, <1>4, <1>5 DEF Exact

LEMMA InsertAnsweredKept ==
  ASSUME Typed, StepInv, InsertAnswered, [Next]_vars
  PROVE  InsertAnswered'
<1> SUFFICES ASSUME scene'.whole, phase' = "first", commands' = <<>>, Head(todo').name = "insert"
             PROVE  pipe' = Answer(IF Head(todo').arg \in Known' THEN Bkpt ELSE Wrong)
  BY DEF InsertAnswered
<1>1. scene' = scene /\ Known' = Known
  BY SceneKept DEF Known
<1>2. CASE Serve
  <2>1. /\ commands # <<>> /\ ~gdb.busy /\ pipe' = pipe \o Answer(Reply(Head(commands)))
        /\ todo' = todo /\ phase' = phase
    BY <1>2 DEF Serve, rccs
  <2>2. commands = <<Head(todo)>> /\ pipe = <<>>
    BY <1>1, <2>1 DEF StepInv, Waiting
  <2>3. Head(commands) = Head(todo)
    BY <2>2
  <2> DEFINE a == Reply(Head(todo))
  <2>4. a = IF Head(todo).arg \in Known THEN Bkpt ELSE Wrong
    BY <2>1 DEF Reply
  <2>5. a \in Part
    BY <2>4 DEF Part, Plain
  <2> HIDE DEF a
  <2>6. Answer(a) \in Seq(Part)
    BY <2>5, AnswerTyped
  <2>7. pipe' = Answer(a)
    <3>1. pipe' = <<>> \o Answer(a)
      BY <2>1, <2>2, <2>3 DEF a
    <3> QED BY <2>6, <3>1, ConcatEmptySeq
  <2> QED BY <1>1, <2>1, <2>4, <2>7
<1>3. CASE Stop
  <2>1. gdb.busy /\ todo' = todo /\ phase' = phase /\ commands' = commands
    BY <1>3 DEF Stop, rccs
  <2>2. Exec(Head(todo))
    BY <1>1, <2>1 DEF StepInv, Waiting
  <2> QED BY <2>1, <2>2 DEF Exec
<1>4. CASE Read
  <2>1. phase' # "first"
    <3>1. \/ phase' = "second"
          \/ \E result : Take(Head(todo), result)
      BY <1>1, <1>4, AnswerTaken
    <3> QED BY <3>1, TakePhase
  <2> QED BY <2>1
<1>5. CASE Issue
  <2>1. phase = "issue" /\ commands' = Append(commands, Head(todo))
    BY <1>5 DEF Issue, Crash
  <2>2. commands' = <<Head(todo)>>
    BY <1>1, <2>1 DEF StepInv
  <2> QED BY <2>2
<1>6. CASE (\E l \in Labels : Send(l, "v") \/ Recv(l) \/ Visited(l)) \/ Display \/ Leave \/ Back
  BY <1>6 DEF Send, Recv, Visited, Display, Leave, Back, Act, Begin
<1>7. CASE UNCHANGED vars
  <2>1. phase' = phase /\ commands' = commands /\ todo' = todo /\ pipe' = pipe
    BY <1>7 DEF vars
  <2> QED BY <1>1, <2>1 DEF InsertAnswered
<1> QED BY <1>2, <1>3, <1>4, <1>5, <1>6, <1>7 DEF Next

-----------------------------------------------------------------------------
(* The steps of an operation that is under way, and goes on.               *)
LEMMA StillReplaying ==
  ASSUME Typed, PathInv, Restoring, Exact, Working,
         scene' = scene, path' = path, history' = history,
         op'.state = op.state, op'.location = op.location, op'.mark = op.mark,
         phase' \in {"issue", "first", "second"},
         NEW g \in Debuggee, NEW b \in Seq(Command), NEW c \in Seq(Command),
         Replay(g, b), c \o todo' = b \o todo,
         Settled(scene.program, gdb')
           = Outcome(scene.program, g, IF Unserved' THEN c ELSE Append(c, Head(todo'))),
         phase' = "first" => Head(todo') # Cmd("set", Null),
         op.state = "SEND" => op'.value = "v" /\ ~op'.var
  PROVE  Restoring'
<1>1. Chained(scene.program, history, path, Came)
  BY DEF Restoring
<1>2. Chained(scene.program, history, path, Came')
  <2>1. path \in Seq(Data) /\ history \in Seq(Data) /\ Bound
    BY DEF Typed, Exact
  <2>2. CASE op.state = "BACK"
    BY <1>1, <2>2 DEF Came
  <2>3. CASE op.state \in {"SEND", "RECV"}
    <3>1. path # <<>> /\ Matches(history, Front(path))
      BY <2>1, <2>3 DEF PathInv
    <3>2. Len(Front(path)) = Len(path) - 1 /\ Len(path) \in Nat \ {0}
      BY <2>1, <3>1, Parts
    <3>3. Len(history) <= Len(path)
      BY <3>1, <3>2 DEF Matches
    <3> QED BY <1>1, <2>1, <3>3, ChainedAnywhere
  <2>4. CASE op.state = "INIT"
    <3>1. history = <<>> /\ path = <<>>
      BY <2>1, <2>4 DEF PathInv
    <3> QED BY <3>1 DEF Chained
  <2>5. op.state \in {"INIT", "SEND", "RECV", "BACK"}
    BY <2>1 DEF PathInv
  <2> QED BY <2>2, <2>3, <2>4, <2>5
<1>3. Script' = Script /\ Starting(g)' /\ Script = b \o todo
  <2>1. Starting(g) /\ Script = b \o todo
    BY DEF Replay
  <2> QED BY <2>1 DEF Script, Starting
<1>4. Replay(g, c)'
  BY <1>3 DEF Replay
<1>5. Replaying'
  BY <1>4 DEF Replaying
<1>6. Working' /\ ~Idle'
  BY DEF Working, Idle
<1>7. op.state \in {"SEND", "RECV"} => Last(path).mark = op.mark
  BY DEF Restoring
<1>8. Chained(scene.program, history, path, Came)'
  BY <1>2
<1> QED BY <1>5, <1>6, <1>7, <1>8 DEF Restoring

LEMMA RestoringIssue ==
  ASSUME Typed, PathInv, StepInv, Restoring, Exact, Exact', Issue
  PROVE  Restoring'
<1>1. /\ phase = "issue" /\ phase' = "first" /\ commands' = Append(commands, Head(todo))
      /\ Head(todo) # Cmd("set", Null)
      /\ op' = op /\ todo' = todo /\ history' = history /\ scene' = scene /\ path' = path /\ gdb' = gdb
  BY DEF Issue, Crash, Exact
<1>2. commands = <<>> /\ Working
  BY <1>1 DEF StepInv, Exact, Working
<1>3. commands' # <<>>
  <2>1. commands' = <<Head(todo)>>
    BY <1>1, <1>2
  <2> QED BY <2>1
<1>4. Unserved /\ Unserved'
  BY <1>1, <1>3 DEF Unserved
<1>5. PICK g \in Debuggee, b \in Seq(Command) : Replay(g, b)
  BY <1>2 DEF Restoring, Replaying
<1>6. Settled(scene.program, gdb) = Outcome(scene.program, g, b)
  BY <1>4, <1>5 DEF Replay
<1>7. op.state = "SEND" => op.value = "v" /\ ~op.var
  BY <1>2 DEF Restoring
<1>8. Settled(scene.program, gdb') = Outcome(scene.program, g, IF Unserved' THEN b ELSE Append(b, Head(todo')))
  BY <1>1, <1>4, <1>6
<1>9. b \o todo' = b \o todo
  BY <1>1
<1> QED BY <1>1, <1>2, <1>5, <1>7, <1>8, <1>9, StillReplaying

LEMMA RestoringServe ==
  ASSUME Typed, PathInv, StepInv, Restoring, Exact, Exact', Serve
  PROVE  Restoring'
<1>1. /\ commands # <<>> /\ ~gdb.busy /\ commands' = Tail(commands)
      /\ gdb' = ServedBy(scene.program, gdb, Head(commands))
      /\ op' = op /\ todo' = todo /\ history' = history /\ scene' = scene /\ path' = path /\ phase' = phase
  BY ServedIs DEF Serve, rccs
<1>2. phase = "first" /\ commands = <<Head(todo)>> /\ Working
  BY <1>1 DEF StepInv, Exact, Waiting, Typed, Working
<1>3. Head(commands) = Head(todo) /\ commands' = <<>>
  BY <1>1, <1>2
<1>4. Unserved /\ ~Unserved'
  BY <1>1, <1>2, <1>3 DEF Unserved
<1>5. PICK g \in Debuggee, b \in Seq(Command) : Replay(g, b)
  BY <1>2 DEF Restoring, Replaying
<1>6. Settled(scene.program, gdb) = Outcome(scene.program, g, b)
  BY <1>4, <1>5 DEF Replay
<1>7. gdb = Outcome(scene.program, g, b)
  BY <1>1, <1>6 DEF Settled
<1>8. Head(todo) # Cmd("set", Null) /\ (op.state = "SEND" => op.value = "v" /\ ~op.var)
  BY <1>2 DEF Restoring
<1> DEFINE d == Head(todo)
<1>9. d \in Command /\ scene.program \in Lines
  BY <1>2, HeadTailProperties, ProgramsAreLists DEF Typed, Working, Lines
<1>10. Settled(scene.program, gdb') = After(scene.program, gdb, d)
  BY <1>1, <1>3, <1>8 DEF After
<1> HIDE DEF d
<1>11. Outcome(scene.program, g, Append(b, d)) = After(scene.program, gdb, d)
  BY <1>7, <1>9, OutcomeOfMore
<1>12. Settled(scene.program, gdb') = Outcome(scene.program, g, IF Unserved' THEN b ELSE Append(b, Head(todo')))
  BY <1>1, <1>4, <1>10, <1>11 DEF d
<1>13. b \o todo' = b \o todo /\ Head(todo') # Cmd("set", Null) /\ phase' \in {"issue", "first", "second"}
  BY <1>1, <1>2, <1>8
<1> QED BY <1>1, <1>2, <1>5, <1>8, <1>12, <1>13, StillReplaying

LEMMA RestoringStop ==
  ASSUME Typed, PathInv, StepInv, Restoring, Exact, Exact', Stop
  PROVE  Restoring'
<1>1. /\ gdb.busy /\ commands' = commands
      /\ op' = op /\ todo' = todo /\ history' = history /\ scene' = scene /\ path' = path /\ phase' = phase
  BY DEF Stop, rccs
<1>2. Settled(scene.program, gdb') = Settled(scene.program, gdb)
  BY StopSettles
<1>3. phase \in {"first", "second"} /\ Working
  BY <1>1 DEF StepInv, Exact, Typed, Working
<1>4. PICK g \in Debuggee, b \in Seq(Command) : Replay(g, b)
  BY <1>3 DEF Restoring, Replaying
<1>5. Unserved' = Unserved
  BY <1>1 DEF Unserved
<1>6. Settled(scene.program, gdb)
        = Outcome(scene.program, g, IF Unserved THEN b ELSE Append(b, Head(todo)))
  BY <1>4 DEF Replay
<1>7. Settled(scene.program, gdb') = Outcome(scene.program, g, IF Unserved' THEN b ELSE Append(b, Head(todo')))
  BY <1>1, <1>2, <1>5, <1>6
<1>8. b \o todo' = b \o todo /\ phase' \in {"issue", "first", "second"}
      /\ (phase' = "first" => Head(todo') # Cmd("set", Null))
      /\ (op.state = "SEND" => op'.value = "v" /\ ~op'.var)
  BY <1>1, <1>3 DEF Restoring
<1> QED BY <1>1, <1>3, <1>4, <1>7, <1>8, StillReplaying

-----------------------------------------------------------------------------
(* An operation ends.                                                      *)
LEMMA FourAppended ==
  ASSUME NEW S, NEW a \in S, NEW b \in S, NEW c \in S, NEW d \in S
  PROVE  <<a, b, c, d>> = Append(<<a, b, c>>, d)
<1> DEFINE u == <<a, b, c>>
           v == <<a, b, c, d>>
<1>1. /\ u \in Seq(S) /\ v \in Seq(S) /\ Len(u) = 3 /\ Len(v) = 4
      /\ u[1] = a /\ u[2] = b /\ u[3] = c /\ v[1] = a /\ v[2] = b /\ v[3] = c /\ v[4] = d
  OBVIOUS
<1> HIDE DEF u, v
<1>2. /\ Append(u, d) \in Seq(S) /\ Len(Append(u, d)) = 4 /\ Append(u, d)[4] = d
      /\ Append(u, d)[1] = a /\ Append(u, d)[2] = b /\ Append(u, d)[3] = c
  <2>1. u \in Seq(S)
    BY <1>1
  <2>2. /\ Append(u, d) \in Seq(S) /\ Len(Append(u, d)) = Len(u) + 1 /\ Append(u, d)[Len(u) + 1] = d
        /\ \A i \in 1 .. Len(u) : Append(u, d)[i] = u[i]
    BY <2>1, AppendProperties
  <2> QED BY <1>1, <2>2
<1>3. v = Append(u, d)
  <2>1. Len(v) = Len(Append(u, d)) /\ \A i \in 1 .. Len(v) : v[i] = Append(u, d)[i]
    BY <1>1, <1>2
  <2> QED BY <1>1, <1>2, <2>1, SeqEqual
<1> QED BY <1>3 DEF u, v

LEMMA OutcomeOfInit ==
  ASSUME NEW lines \in Lines
  PROVE  Outcome(lines, Loaded, mc_init_debugger) = Booted(lines)
<1> DEFINE a == Cmd("tty", Null)
           b == Cmd("confirm", Null)
           c == Cmd("insert", "main")
           d == Cmd("run", Null)
           s == <<a, b, c>>
<1>1. a \in Command /\ b \in Command /\ c \in Command /\ d \in Command
  BY CmdTyped DEF Name, Arg
<1>2. Loaded \in Starts /\ Loaded \in Debuggee
  BY LoadedStarts DEF Starts
<1>3. /\ After(lines, Loaded, a) = Loaded /\ After(lines, Loaded, b) = Loaded
  BY <1>2, OtherLeg DEF Arg
<1>4. After(lines, After(lines, Loaded, c), d) = Booted(lines)
  BY <1>2, Boots
<1>5. mc_init_debugger = <<a, b, c, d>>
  BY DEF mc_init_debugger
<1> HIDE DEF a, b, c, d
<1>6. Outcome(lines, Loaded, s) = After(lines, After(lines, After(lines, Loaded, a), b), c)
  <2>1. ASSUME NEW q \in Debuggee, NEW u \in Command, NEW v \in Command, NEW w \in Command
        PROVE  Outcome(lines, q, <<u, v, w>>) = After(lines, After(lines, After(lines, q, u), v), w)
    BY OutcomeOfThree
  <2> QED BY <1>1, <1>2, <2>1
<1>7. <<a, b, c, d>> = Append(s, d)
  BY <1>1, FourAppended
<1>8. s \in Seq(Command)
  BY <1>1
<1> HIDE DEF s
<1>9. Outcome(lines, Loaded, Append(s, d)) = After(lines, Outcome(lines, Loaded, s), d)
  BY <1>1, <1>2, <1>8, OutcomeOfMore
<1> QED BY <1>3, <1>4, <1>5, <1>6, <1>7, <1>9

LEMMA FinishedInit ==
  ASSUME Typed, PathInv, Exact, Working, op.state = "INIT", ~gdb.busy, ~Unserved, Len(todo) = 1,
         NEW g \in Debuggee, NEW b \in Seq(Command), Replay(g, b),
         NEW o \in Data, o.state = "INIT"
  PROVE  gdb = At(Target) /\ Chained(scene.program, Append(history, o), path, Target)
<1> DEFINE lines == scene.program
<1>1. lines \in Lines /\ todo \in Seq(Command) /\ todo # <<>>
  BY ProgramsAreLists DEF Typed, Lines
<1>2. g = Loaded /\ mc_init_debugger = b \o todo /\ Settled(lines, gdb) = Outcome(lines, g, Append(b, Head(todo)))
  BY DEF Replay, Script, Starting
<1>3. Append(b, Head(todo)) = mc_init_debugger
  BY <1>1, <1>2, SplitIs
<1>4. gdb = Booted(lines)
  <2>1. Settled(lines, gdb) = gdb
    BY DEF Settled
  <2> HIDE DEF lines
  <2> QED BY <1>1, <1>2, <1>3, <2>1, OutcomeOfInit
<1>5. Booted(lines) = At(PlaceOf(Booted(lines)))
  <2>1. Booted(lines).exits = 0
    BY <1>4 DEF Exact
  <2> HIDE DEF lines
  <2> QED BY <1>1, <2>1, LoadedStarts, Boots
<1>6. Target = PlaceOf(gdb)
  BY DEF Target, PlaceOf
<1>7. history = <<>> /\ path = <<>> /\ history \in Seq(Data) /\ path \in Seq(Data)
  BY DEF PathInv, Exact, Typed
<1>8. Link(lines, Append(history, o), Target)
  <2>1. o.state # "SEND"
    OBVIOUS
  <2> HIDE DEF lines
  <2>2. Link(lines, Append(<<>>, o), PlaceOf(Booted(lines)))
    BY <1>1, <2>1, LinkOfFirst
  <2> QED BY <1>4, <1>6, <1>7, <2>2
<1>9. Chained(lines, history, path, Target) /\ Len(history) = Len(path)
  BY <1>7 DEF Chained
<1> HIDE DEF lines
<1>10. Chained(lines, Append(history, o), path, Target)
  BY <1>7, <1>8, <1>9, ChainedAppended
<1> QED BY <1>4, <1>5, <1>6, <1>10 DEF lines

LEMMA FinishedBack ==
  ASSUME Typed, PathInv, Restoring, Exact, Working, op.state = "BACK", ~gdb.busy, ~Unserved,
         Len(todo) = 1, NEW g \in Debuggee, NEW b \in Seq(Command), Replay(g, b)
  PROVE  gdb = At(Target) /\ (NoInput(history) => Target = op.mark)
<1> DEFINE lines == scene.program
<1>1. lines \in Lines /\ todo \in Seq(Command) /\ todo # <<>> /\ history \in Seq(Data) /\ path \in Seq(Data)
      /\ op.mark \in Place
  BY ProgramsAreLists DEF Typed, Lines, Data, Place
<1>2. g \in Starts /\ mc_back(history) = b \o todo /\ Settled(lines, gdb) = Outcome(lines, g, Append(b, Head(todo)))
  BY DEF Replay, Script, Starting
<1>3. Append(b, Head(todo)) = mc_back(history)
  BY <1>1, <1>2, SplitIs
<1>4. gdb = Outcome(lines, g, mc_back(history)) /\ gdb.exits = 0
  BY <1>2, <1>3 DEF Settled, Exact
<1>5. Len(history) = Len(path) + 1 /\ Len(path) \in Nat
  BY <1>1, LenProperties DEF PathInv, Exact, Matches
<1>6. Chained(lines, history, path, op.mark)
  BY DEF Restoring, Came
<1>7. Link(lines, history, op.mark)
  <2>1. history # <<>> /\ ~(Len(history) <= Len(path))
    BY <1>5
  <2>2. Link(lines, history, IF Len(history) <= Len(path) THEN path[Len(history)].mark ELSE op.mark)
    BY <1>1, <1>6, <2>1, ChainedLast
  <2> QED BY <2>1, <2>2
<1>8. gdb = At(PlaceOf(gdb)) /\ (NoInput(history) => gdb = At(op.mark))
  BY <1>2, <1>4, <1>7 DEF Link
<1>9. Target = PlaceOf(gdb)
  BY DEF Target, PlaceOf
<1>10. ASSUME gdb = At(op.mark) PROVE Target = op.mark
  BY <1>1, <1>9, <1>10, AtTyped
<1> QED BY <1>8, <1>9, <1>10

LEMMA FinishedBound ==
  ASSUME Typed, PathInv, Restoring, Exact, Working, op.state \in {"SEND", "RECV"}, ~gdb.busy, ~Unserved,
         NEW g \in Debuggee, NEW b \in Seq(Command), Replay(g, b),
         Head(todo).name = "insert" => Head(todo).arg \notin Known,
         NEW o \in Data, o.state = op.state, o.location = op.location,
         Head(todo).name \notin {"set", "print"} => o.var = op.var,
         Head(todo).name # "print" => o.value = op.value
  PROVE  gdb = At(Target) /\ Chained(scene.program, Append(history, o), path, Target)
<1> DEFINE lines == scene.program
           m == op.mark
           x == op.location
           i == Cmd("insert", x)
           k == Cmd("continue", Null)
           c == IF op.state = "SEND" THEN Cmd("set", "v") ELSE Cmd("print", x)
           t == todo
<1>1. /\ lines \in Lines /\ t \in Seq(Command) /\ t # <<>> /\ history \in Seq(Data) /\ path \in Seq(Data)
      /\ m \in Place /\ x \in Arg
  BY ProgramsAreLists DEF Typed, Lines, Data, Place
<1>2. g = At(m) /\ Script = b \o t /\ Settled(lines, gdb) = Outcome(lines, g, Append(b, Head(t)))
  BY DEF Replay, Starting
<1>3. gdb = Outcome(lines, At(m), Append(b, Head(t))) /\ gdb.exits = 0
  BY <1>2 DEF Settled, Exact
<1>4. /\ Short(Script, i, k, c) /\ i \in Command /\ k \in Command /\ c \in Command
      /\ c \in {Cmd("set", "v"), Cmd("print", x)}
  <2>1. CASE op.state = "SEND"
    <3>1. Script = mc_send(x, "v") /\ c = Cmd("set", "v")
      BY <2>1 DEF Script
    <3> HIDE DEF c, x
    <3> QED BY <1>1, <3>1, ScriptsAre
  <2>2. CASE op.state = "RECV"
    <3>1. Script = mc_recv(x) /\ c = Cmd("print", x)
      BY <2>2 DEF Script
    <3> HIDE DEF c, x
    <3> QED BY <1>1, <3>1, ScriptsAre
  <2> QED BY <2>1, <2>2
<1>5. /\ i.name = "insert" /\ i.arg = x /\ k.name = "continue"
      /\ c.name = IF op.state = "SEND" THEN "set" ELSE "print"
  BY CmdIs
<1>6. Known = ToSet(lines)
  BY DEF Known
<1>7. Target = PlaceOf(gdb)
  BY DEF Target, PlaceOf
<1>8. /\ op.state = "SEND" => op.value = "v" /\ ~op.var
      /\ Chained(lines, history, path, Came) /\ Last(path).mark = m
  BY DEF Restoring
<1>9. path # <<>> /\ Len(history) = Len(path) /\ history # <<>> /\ Last(path) = path[Len(history)]
  <2>1. path # <<>> /\ Matches(history, Front(path))
    BY DEF PathInv, Exact
  <2>2. Len(Front(path)) = Len(path) - 1 /\ Len(path) \in Nat \ {0}
    BY <1>1, <2>1, Parts
  <2>3. Len(history) = Len(path) /\ Len(history) # 0
    BY <2>1, <2>2 DEF Matches
  <2> QED BY <1>1, <2>1, <2>3, EmptySeq DEF Last
<1> HIDE DEF lines, m, x, c, t
<1>10. Link(lines, history, m)
  <2>1. Link(lines, history, IF Len(history) <= Len(path) THEN path[Len(history)].mark ELSE Came)
    BY <1>1, <1>8, <1>9, ChainedLast
  <2>2. Len(history) <= Len(path)
    BY <1>1, <1>9, LenProperties
  <2> QED BY <1>8, <1>9, <2>1, <2>2
<1>11. Head(t) \in {i, k, c}
  <2> HIDE DEF i, k
  <2>1. Cut(b, t, i, k, c)
    <3>1. Short(b \o t, i, k, c)
      BY <1>2, <1>4
    <3> QED BY <1>1, <1>4, <3>1, ScriptCut
  <2> QED BY <2>1 DEF Cut
<1>12. Head(t).name = "insert" => x \notin ToSet(lines)
  <2>1. Head(t).name = "insert" => Head(t) = i
    BY <1>5, <1>11
  <2> QED BY <1>5, <1>6, <2>1 DEF t
<1>13. /\ gdb = At(PlaceOf(gdb))
       /\ Head(t).name = "set" =>
            gdb = After(lines, After(lines, After(lines, At(m), i), k), Cmd("set", "v"))
  <2>1. Outcome(lines, At(m), Append(b, Head(t))).exits = 0 /\ Short(b \o t, i, k, c)
    BY <1>2, <1>3, <1>4
  <2>2. LET r == Outcome(lines, At(m), Append(b, Head(t)))
        IN  /\ r = At(PlaceOf(r))
            /\ Head(t).name = "set" =>
                 r = After(lines, After(lines, After(lines, At(m), i), k), Cmd("set", "v"))
    BY <1>1, <1>4, <1>12, <2>1, BoundEnds
  <2> QED BY <1>3, <2>2
<1>14. Link(lines, Append(history, o), Target)
  <2>1. CASE op.state = "RECV"
    BY <1>1, <1>10, <2>1, LinkOfInput
  <2>2. CASE op.state = "SEND"
    <3>1. ASSUME o.var PROVE Resent(lines, At(m), o) = At(Target)
      <4>1. Head(t).name = "set"
        BY <1>5, <1>8, <1>11, <2>2, <3>1 DEF t
      <4>2. o.value = "v" /\ o.location = x
        BY <1>8, <2>2, <4>1 DEF t, x
      <4>3. Resent(lines, At(m), o) = gdb
        BY <1>13, <3>1, <4>1, <4>2 DEF Resent
      <4> QED BY <1>7, <1>13, <4>3
    <3>2. o.state = "SEND"
      BY <2>2
    <3> QED BY <1>1, <1>10, <3>1, <3>2, LinkOfOutput
  <2> QED BY <2>1, <2>2
<1>15. Chained(lines, Append(history, o), path, Target)
  BY <1>1, <1>8, <1>9, <1>14, ChainedAppended
<1> QED BY <1>7, <1>13, <1>15 DEF lines

(* Only a command that runs the program has a second answer.               *)
SecondRuns == phase = "second" => Exec(Head(todo))

LEMMA SecondRunsKept ==
  ASSUME Typed, SecondRuns, [Next]_vars
  PROVE  SecondRuns'
<1>1. CASE Read
  <2>1. \/ phase' = phase /\ todo' = todo
        \/ Exec(Head(todo)) /\ todo' = todo
        \/ \E result : Take(Head(todo), result)
    BY <1>1, ReadIs
  <2>2. ASSUME NEW result, Take(Head(todo), result) PROVE phase' # "second"
    BY <2>2, TakePhase
  <2> QED BY <2>1, <2>2 DEF SecondRuns
<1>2. CASE phase' = phase /\ todo' = todo
  BY <1>2 DEF SecondRuns
<1>3. CASE phase' \in {"issue", "first", "crashed"}
  BY <1>3 DEF SecondRuns
<1>4. CASE phase = "idle" /\ phase' = phase
  BY <1>4 DEF SecondRuns
<1> QED BY <1>1, <1>2, <1>3, <1>4
        DEF Next, vars, rccs, Send, Recv, Visited, Display, Leave, Back, Act, Begin, Issue, Crash, Serve, Stop

(* An insertion that GDB answers with a breakpoint is not given up.        *)
LEMMA OnlyRefusedEnds ==
  ASSUME Typed, Exact, InsertAnswered, SecondRuns, phase \in {"first", "second"}, commands = <<>>,
         NEW result, pipe = Answer(Bkpt) => result = Bkpt,
         GivesUp(Head(todo), result), Head(todo).name = "insert"
  PROVE  Head(todo).arg \notin Known
<1>1. phase = "first"
  BY DEF SecondRuns, Exec
<1>2. result # Bkpt
  BY DEF GivesUp
<1>3. pipe # Answer(Bkpt)
  BY <1>2
<1>4. pipe = Answer(IF Head(todo).arg \in Known THEN Bkpt ELSE Wrong)
  BY <1>1 DEF InsertAnswered, Exact
<1> QED BY <1>3, <1>4

(* While a bound action goes on, its commands are those of its script.     *)
LEMMA BoundCut ==
  ASSUME Typed, PathInv, Exact, Working, op.state \in {"SEND", "RECV"},
         NEW g \in Debuggee, NEW b \in Seq(Command), Replay(g, b)
  PROVE  /\ Len(todo) # 1 => Head(todo).name \in {"insert", "continue"}
         /\ Len(todo) = 1 => Head(todo).name # "insert"
<1> DEFINE x == op.location
           i == Cmd("insert", x)
           k == Cmd("continue", Null)
           u == Cmd("set", "v")
           w == Cmd("print", x)
           t == todo
<1>1. x \in Arg /\ t \in Seq(Command) /\ t # <<>>
  BY DEF Typed, Data, Working
<1>2. Script = b \o t
  BY DEF Replay
<1>3. /\ op.state = "SEND" => Script = mc_send(x, "v")
      /\ op.state = "RECV" => Script = mc_recv(x)
  BY DEF Script
<1>4. /\ i.name = "insert" /\ k.name = "continue" /\ u.name = "set" /\ w.name = "print"
  BY CmdIs
<1> HIDE DEF x, t
<1>5. /\ i \in Command /\ k \in Command /\ u \in Command /\ w \in Command
      /\ Short(Script, i, k, u) \/ Short(Script, i, k, w)
  BY <1>1, <1>3, ScriptsAre
<1> HIDE DEF i, k, u, w
<1>6. Cut(b, t, i, k, u) \/ Cut(b, t, i, k, w)
  <2>1. Short(b \o t, i, k, u) \/ Short(b \o t, i, k, w)
    BY <1>2, <1>5
  <2> QED BY <1>1, <1>5, <2>1, ScriptCut
<1>7. /\ Len(t) # 1 => Head(t).name \in {"insert", "continue"}
      /\ Len(t) = 1 => Head(t).name # "insert"
  BY <1>4, <1>6 DEF Cut
<1> QED BY <1>7 DEF t

LEMMA RestoringFinish ==
  ASSUME Typed, PathInv, Restoring, Exact, Exact', Working, ~gdb.busy, ~Unserved,
         NEW g \in Debuggee, NEW b \in Seq(Command), Replay(g, b),
         NEW o \in Data, o.state = op.state, o.location = op.location, o.mark = op.mark,
         Head(todo).name \notin {"set", "print"} => o.var = op.var,
         Head(todo).name # "print" => o.value = op.value,
         NEW result, GivesUp(Head(todo), result) \/ Len(todo) = 1,
         GivesUp(Head(todo), result) /\ Head(todo).name = "insert" => Head(todo).arg \notin Known,
         Finish(o), scene' = scene, path' = path, gdb' = gdb
  PROVE  Restoring'
<1>1. /\ phase' = "idle" /\ op' = o
      /\ o.state = "BACK" => history' = history
      /\ o.state # "BACK" => history' = Append(history, o)
  BY FinishIs
<1>2. op.state \in {"INIT", "SEND", "RECV", "BACK"}
  BY DEF PathInv, Exact
<1>3. Idle' /\ ~Working' /\ Target' = Target
  BY <1>1 DEF Idle, Working, Target
<1>4. At(Target)' = At(Target)
  BY <1>3 DEF At
<1>5. op.state \notin {"SEND", "RECV"} => Len(todo) = 1
  BY DEF GivesUp
<1>6. /\ gdb = At(Target)
      /\ Chained(scene.program, history', path, Came')
      /\ op'.state = "BACK" /\ NoInput(history') => Target = op'.mark
  <2>1. CASE op.state = "INIT"
    <3>1. gdb = At(Target) /\ Chained(scene.program, Append(history, o), path, Target)
      BY <1>5, <2>1, FinishedInit
    <3>2. Came' = Target /\ op'.state # "BACK" /\ history' = Append(history, o)
      BY <1>1, <1>3, <2>1 DEF Came
    <3> QED BY <3>1, <3>2
  <2>2. CASE op.state = "BACK"
    <3>1. gdb = At(Target) /\ (NoInput(history) => Target = op.mark)
      BY <1>5, <2>2, FinishedBack
    <3>2. Came' = Came /\ history' = history /\ op'.mark = op.mark
      BY <1>1, <2>2 DEF Came
    <3>3. Chained(scene.program, history, path, Came)
      BY DEF Restoring
    <3> QED BY <3>1, <3>2, <3>3
  <2>3. CASE op.state \in {"SEND", "RECV"}
    <3>1. Head(todo).name = "insert" => Head(todo).arg \notin Known
      BY <2>3, BoundCut
    <3>2. gdb = At(Target) /\ Chained(scene.program, Append(history, o), path, Target)
      BY <2>3, <3>1, FinishedBound
    <3>3. Came' = Target /\ op'.state # "BACK" /\ history' = Append(history, o)
      BY <1>1, <1>3, <2>3 DEF Came
    <3> QED BY <3>2, <3>3
  <2> QED BY <1>2, <2>1, <2>2, <2>3
<1>7. Chained(scene.program, history, path, Came)'
  BY <1>6
<1>8. NoInput(history)' <=> NoInput(history')
  OBVIOUS
<1> QED BY <1>1, <1>3, <1>4, <1>6, <1>7, <1>8 DEF Restoring

LEMMA RestoringRead ==
  ASSUME Typed, PathInv, StepInv, InsertAnswered, SecondRuns, Restoring, Exact, Exact', Read
  PROVE  Restoring'
<1>1. /\ phase \in {"first", "second"} /\ commands = <<>> /\ commands' = <<>>
      /\ scene' = scene /\ path' = path /\ gdb' = gdb
      /\ \/ /\ phase = "first" /\ Exec(Head(todo)) /\ phase' = "second"
            /\ op' = op /\ todo' = todo /\ history' = history
         \/ /\ ~(phase = "first" /\ Exec(Head(todo))) /\ ~gdb.busy
            /\ \E result : /\ Take(Head(todo), result)
                           /\ result = NoResult \/ result \in Part
                           /\ pipe = Answer(Bkpt) => result = Bkpt
  BY AnswerTaken DEF Exact
<1>2. Working /\ ~Unserved /\ Head(todo) \in Command /\ todo \in Seq(Command) /\ todo # <<>>
  BY <1>1, HeadTailProperties DEF Working, Unserved, Typed
<1>3. PICK g \in Debuggee, b \in Seq(Command) : Replay(g, b)
  BY <1>2 DEF Restoring, Replaying
<1> DEFINE c == Append(b, Head(todo))
<1>4. Settled(scene.program, gdb) = Outcome(scene.program, g, c)
  BY <1>2, <1>3 DEF Replay
<1>5. c \in Seq(Command) /\ c \o Tail(todo) = b \o todo
  BY <1>2, SplitIs
<1>6. op.state = "SEND" => op.value = "v" /\ ~op.var
  BY <1>2 DEF Restoring
<1>7. CASE phase' = "second" /\ op' = op /\ todo' = todo /\ history' = history
  <2>1. ~Unserved'
    BY <1>7 DEF Unserved
  <2>2. Settled(scene.program, gdb') = Outcome(scene.program, g, IF Unserved' THEN b ELSE Append(b, Head(todo')))
    BY <1>1, <1>4, <1>7, <2>1
  <2>3. b \o todo' = b \o todo
    BY <1>7
  <2> QED BY <1>1, <1>2, <1>3, <1>6, <1>7, <2>2, <2>3, StillReplaying
<1>8. ASSUME ~gdb.busy, NEW result, Take(Head(todo), result),
             result = NoResult \/ result \in Part, pipe = Answer(Bkpt) => result = Bkpt
      PROVE  Restoring'
  <2>1. phase' # "crashed"
    BY DEF Exact
  <2>2. PICK o \in Data :
          /\ o.state = op.state /\ o.location = op.location /\ o.mark = op.mark
          /\ Head(todo).name \notin {"set", "print"} => o.var = op.var
          /\ Head(todo).name # "print" => o.value = op.value
          /\ \/ Finish(o) /\ (GivesUp(Head(todo), result) \/ Len(todo) = 1)
             \/ /\ Len(todo) # 1 /\ todo' = Tail(todo) /\ phase' = "issue"
                /\ op' = o /\ history' = history
    BY <1>8, <2>1, TakeIs
  <2>3. CASE Finish(o) /\ (GivesUp(Head(todo), result) \/ Len(todo) = 1)
    <3>1. GivesUp(Head(todo), result) /\ Head(todo).name = "insert" => Head(todo).arg \notin Known
      BY <1>1, <1>8, OnlyRefusedEnds
    <3> QED BY <1>1, <1>2, <1>3, <1>8, <2>2, <2>3, <3>1, RestoringFinish
  <2>4. CASE Len(todo) # 1 /\ todo' = Tail(todo) /\ phase' = "issue" /\ op' = o /\ history' = history
    <3>1. Unserved'
      BY <2>4 DEF Unserved
    <3>2. op.state = "SEND" => op'.value = "v" /\ ~op'.var
      BY <1>2, <1>3, <1>6, <2>2, <2>4, BoundCut
    <3>3. c \o todo' = b \o todo
      BY <1>5, <2>4
    <3> HIDE DEF c
    <3>4. Settled(scene.program, gdb') = Outcome(scene.program, g, IF Unserved' THEN c ELSE Append(c, Head(todo')))
      BY <1>1, <1>4, <3>1
    <3>5. op'.state = op.state /\ op'.location = op.location /\ op'.mark = op.mark
      BY <2>2, <2>4
    <3> QED BY <1>1, <1>2, <1>3, <1>5, <2>4, <3>2, <3>3, <3>4, <3>5, StillReplaying
  <2> QED BY <2>2, <2>3, <2>4
<1> QED BY <1>1, <1>7, <1>8

-----------------------------------------------------------------------------
(* An operation begins: nothing of its script is done, and the program     *)
(* stands where the operation takes it from.                               *)
LEMMA NothingServed ==
  ASSUME NEW lines \in Lines, NEW g \in Debuggee, ~g.busy
  PROVE  Settled(lines, g) = Outcome(lines, g, <<>>)
BY OutcomeOfNone DEF Settled

LEMMA ReplayFromHere ==
  ASSUME scene' \in Scenes, gdb' \in Debuggee, ~gdb'.busy, todo' \in Seq(Command),
         phase' = "issue", Starting(gdb)', Script' = todo'
  PROVE  Replaying'
<1> DEFINE e == <<>>
<1>1. scene'.program \in Lines
  BY ProgramsAreLists DEF Lines
<1>2. e \in Seq(Command) /\ todo' = e \o todo'
  BY ConcatEmptySeq
<1>3. Settled(scene'.program, gdb') = Outcome(scene'.program, gdb', e)
  BY <1>1, NothingServed
<1>4. Unserved'
  BY DEF Unserved
<1> HIDE DEF e
<1>5. Replay(gdb, e)'
  BY <1>2, <1>3, <1>4 DEF Replay
<1> QED BY <1>2, <1>5 DEF Replaying

LEMMA RestoringActs ==
  ASSUME Typed, Typed', PathInv, StepInv, Restoring, Exact, Exact',
         NEW l \in Labels, Send(l, "v") \/ Recv(l)
  PROVE  Restoring'
<1>1. /\ phase = "idle" /\ phase' = "issue" /\ scene' = scene /\ gdb' = gdb /\ history' = history
      /\ path' = Append(path, op')
      /\ \/ op' = Op("SEND", l, "v") /\ todo' = mc_send(l, "v")
         \/ op' = Op("RECV", l, Null) /\ todo' = mc_recv(l)
  BY DEF Send, Recv, Begin, Act
<1>2. /\ op'.state \in {"SEND", "RECV"} /\ op'.mark = Target /\ op'.location = l
      /\ op'.state = "SEND" => op'.value = "v" /\ ~op'.var /\ todo' = mc_send(l, "v")
      /\ op'.state = "RECV" => todo' = mc_recv(l)
  <2>1. CASE op' = Op("SEND", l, "v") /\ todo' = mc_send(l, "v")
    BY <2>1 DEF Op
  <2>2. CASE op' = Op("RECV", l, Null) /\ todo' = mc_recv(l)
    BY <2>2 DEF Op
  <2> QED BY <1>1, <2>1, <2>2
<1>3. /\ Chained(scene.program, history, path, Came)
      /\ gdb = At(Target)
      /\ op.state = "BACK" /\ NoInput(history) => Target = op.mark
  BY <1>1 DEF Restoring, Idle
<1>4. path \in Seq(Data) /\ history \in Seq(Data) /\ op' \in Data /\ Matches(history, path)
  BY <1>1 DEF Typed, PathInv, Exact
<1>5. Len(history) = Len(path) + 1 /\ Len(path) \in Nat /\ Len(history) \in Nat
  BY <1>4, LenProperties DEF Matches
<1>6. Link(scene.program, history, Came)
  <2>1. history # <<>> /\ ~(Len(history) <= Len(path))
    BY <1>5
  <2>2. Link(scene.program, history, IF Len(history) <= Len(path) THEN path[Len(history)].mark ELSE Came)
    BY <1>3, <1>4, <2>1, ChainedLast
  <2> QED BY <2>1, <2>2
<1>7. Link(scene.program, history, Target)
  <2>1. NoInput(history) => Target = Came
    BY <1>3 DEF Came
  <2> QED BY <1>6, <2>1, LinkAnywhere
<1>8. Chained(scene.program, history, path', Came')
  <2> DEFINE d == op'
             n == Came'
  <2>1. d \in Data /\ Link(scene.program, history, d.mark)
    BY <1>2, <1>4, <1>7
  <2> HIDE DEF d, n
  <2>2. Chained(scene.program, history, Append(path, d), n)
    BY <1>3, <1>4, <1>5, <2>1, ChainedDeeper
  <2> QED BY <1>1, <2>2 DEF d, n
<1>9. Last(path') = op'
  <2>1. path' \in Seq(Data) /\ Len(path') = Len(path) + 1 /\ path'[Len(path) + 1] = op'
    BY <1>1, <1>4, AppendProperties
  <2> QED BY <2>1 DEF Last
<1>10. Replaying'
  <2>1. scene' \in Scenes /\ gdb' \in Debuggee /\ todo' \in Seq(Command)
    BY DEF Typed
  <2>2. Starting(gdb)'
    BY <1>1, <1>2, <1>3 DEF Starting
  <2>3. Script' = todo'
    BY <1>2 DEF Script
  <2>4. ~gdb'.busy
    BY <1>1 DEF StepInv, Exact
  <2> QED BY <1>1, <2>1, <2>2, <2>3, <2>4, ReplayFromHere
<1>11. Working' /\ ~Idle'
  BY <1>1 DEF Working, Idle
<1>12. Chained(scene.program, history, path, Came)'
  BY <1>1, <1>8
<1> QED BY <1>1, <1>2, <1>9, <1>10, <1>11, <1>12 DEF Restoring

LEMMA RestoringBack ==
  ASSUME Typed, Typed', PathInv, StepInv, Restoring, Exact, Exact', Back
  PROVE  Restoring'
<1>1. /\ phase = "idle" /\ path # <<>> /\ path' = Front(path)
      /\ history' = delete_last_state(history)
      /\ op' = [Last(path) EXCEPT !.state = "BACK"]
      /\ Len(history) > 1 => phase' = "issue" /\ todo' = mc_back(history')
      /\ scene' = scene /\ gdb' = gdb
  BY DEF Back
<1>2. path \in Seq(Data) /\ history \in Seq(Data) /\ Matches(history, path)
  BY <1>1 DEF Typed, PathInv, Exact
<1>3. Len(history) > 1
  BY <1>1, <1>2, MatchesFront
<1>4. history' = Front(history) /\ phase' = "issue" /\ todo' = mc_back(history')
  BY <1>1, <1>3 DEF delete_last_state
<1>5. op'.state = "BACK" /\ op'.mark = Last(path).mark
  <2>1. Last(path) \in Data
    BY <1>1, <1>2, Parts
  <2> QED BY <1>1, <2>1 DEF Data
<1>6. Chained(scene.program, history, path, Came) /\ gdb = At(Target)
  BY <1>1 DEF Restoring, Idle
<1>7. Chained(scene.program, history', path', Came')
  <2>1. Came' = Last(path).mark
    BY <1>5 DEF Came
  <2>2. Len(history) = Len(path) + 1
    BY <1>2 DEF Matches
  <2>3. Chained(scene.program, Front(history), Front(path), Last(path).mark)
    BY <1>1, <1>2, <1>6, <2>2, ChainedFront
  <2> QED BY <1>1, <1>4, <2>1, <2>3
<1>8. gdb \in Starts
  <2>1. gdb \in Debuggee
    BY DEF Typed
  <2>2. gdb.stops = {} /\ ~gdb.busy /\ gdb.exits = 0
    BY <1>6 DEF At
  <2> QED BY <2>1, <2>2 DEF Starts
<1>9. Replaying'
  <2>1. scene' \in Scenes /\ gdb' \in Debuggee /\ todo' \in Seq(Command)
    BY DEF Typed
  <2>2. Starting(gdb)'
    BY <1>1, <1>5, <1>8 DEF Starting
  <2>3. Script' = todo'
    BY <1>4, <1>5 DEF Script
  <2>4. ~gdb'.busy
    BY <1>1, <1>8 DEF Starts
  <2> QED BY <1>4, <2>1, <2>2, <2>3, <2>4, ReplayFromHere
<1>10. Working' /\ ~Idle'
  BY <1>4 DEF Working, Idle
<1>11. Chained(scene.program, history, path, Came)'
  BY <1>1, <1>7
<1> QED BY <1>4, <1>5, <1>9, <1>10, <1>11 DEF Restoring

LEMMA RestoringAtFirst == Init => Restoring /\ InsertAnswered /\ SecondRuns
<1> SUFFICES ASSUME Init PROVE Restoring /\ InsertAnswered /\ SecondRuns
  OBVIOUS
<1>1. /\ phase = "issue" /\ history = <<>> /\ gdb = Loaded /\ todo = mc_init_debugger /\ op.state = "INIT"
  BY DEF Init
<1>2. Chained(scene.program, history, path, Came)
  BY <1>1 DEF Chained
<1>3. Replaying
  <2> DEFINE e == <<>>
  <2>1. /\ scene.program \in Lines /\ gdb \in Debuggee /\ todo \in Seq(Command)
        /\ e \in Seq(Command) /\ todo = e \o todo
    BY TypedAtFirst, ProgramsAreLists, ConcatEmptySeq DEF Typed, Lines
  <2>2. ~gdb.busy
    BY <1>1 DEF Loaded
  <2>3. Settled(scene.program, gdb) = Outcome(scene.program, gdb, e)
    BY <2>1, <2>2, NothingServed
  <2>4. Unserved /\ Starting(gdb) /\ Script = todo
    BY <1>1 DEF Unserved, Starting, Script
  <2> HIDE DEF e
  <2>5. Replay(gdb, e)
    BY <2>1, <2>3, <2>4 DEF Replay
  <2> QED BY <2>1, <2>5 DEF Replaying
<1> QED BY <1>1, <1>2, <1>3 DEF Restoring, InsertAnswered, SecondRuns, Idle, Working

LEMMA RestoringKept ==
  ASSUME Typed, PathInv, StepInv, InsertAnswered, SecondRuns, Restoring, [Next]_vars
  PROVE  Restoring'
<1> SUFFICES ASSUME Exact' PROVE Restoring'
  BY DEF Restoring
<1>1. Exact /\ Typed'
  BY ExactBefore, TypedKept
<1>2. CASE UNCHANGED vars
  <2>1. /\ scene' = scene /\ path' = path /\ history' = history /\ op' = op
        /\ todo' = todo /\ phase' = phase /\ commands' = commands /\ gdb' = gdb
    BY <1>2 DEF vars
  <2>2. /\ Came' = Came /\ Target' = Target /\ Script' = Script /\ Unserved' = Unserved
        /\ Working' = Working /\ Idle' = Idle
    BY <2>1 DEF Came, Target, Script, Unserved, Working, Idle
  <2>3. Chained(scene.program, history, path, Came)' <=> Chained(scene.program, history, path, Came)
    BY <2>1, <2>2
  <2>4. Replaying' <=> Replaying
    BY <2>1, <2>2 DEF Replaying, Replay, Starting
  <2>5. (At(Target)' = At(Target)) /\ (NoInput(history)' <=> NoInput(history))
    BY <2>1, <2>2
  <2> QED BY <1>1, <2>1, <2>2, <2>3, <2>4, <2>5 DEF Restoring
<1>3. ASSUME NEW l \in Labels, Send(l, "v") \/ Recv(l) PROVE Restoring'
  BY <1>1, <1>3, RestoringActs
<1>4. ~Display /\ ~Leave /\ \A l \in Labels : ~Visited(l)
  BY <1>1 DEF Exact, Bound, Display, Leave, Visited, Act
<1> QED BY <1>1, <1>2, <1>3, <1>4, RestoringBack, RestoringIssue, RestoringRead, RestoringServe,
           RestoringStop DEF Next

(* However deep the search goes and whichever actions it undoes, when      *)
(* mc_back() has run the program again it stands where the undone action   *)
(* began, with the same variables set: for any program, if the answers are *)
(* whole, no input is left in the list and the program has not ended.      *)
THEOREM UndoingRestores == Spec => []Restored
<1> DEFINE Inv == Typed /\ PathInv /\ StepInv /\ InsertAnswered /\ SecondRuns /\ Restoring
<1>1. Init => Inv
  <2>1. Init => StepInv
    BY DEF Init, Loaded, StepInv
  <2> QED BY <2>1, TypedAtFirst, PathAtFirst, RestoringAtFirst
<1>2. Inv /\ [Next]_vars => Inv'
  BY TypedKept, PathKept, StepKept, InsertAnsweredKept, SecondRunsKept, RestoringKept
<1>3. Inv => Restored
  <2> SUFFICES ASSUME Typed, Restoring, scene.whole, Bound, Idle, op.state = "BACK", gdb.exits = 0,
                      \A i \in DOMAIN history : history[i].state # "RECV"
               PROVE  Target = op.mark
    BY DEF Restored
  <2>1. Exact
    BY DEF Exact, Idle
  <2>2. NoInput(history)
    BY LenProperties DEF NoInput, Typed
  <2> QED BY <2>1, <2>2 DEF Restoring
<1> QED BY <1>1, <1>2, <1>3, PTL DEF Spec
===============================================================================
