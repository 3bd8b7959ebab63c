--------------------------- MODULE McHistory_proofs ---------------------------
(***************************************************************************)
(* Proofs about the interface to GDB, for every set of programs, labels    *)
(* and scenes: the list of states follows the path of the search, an input *)
(* never takes a stale value, and with whole answers rccs and GDB stay in  *)
(* step.                                                                   *)
(***************************************************************************)
EXTENDS McHistory, SequenceLemmas

Arg == Labels \cup Nat \cup {"main", "display", "v", Null}
Name == {"tty", "confirm", "insert", "run", "continue", "set", "print"}
Command == [name : Name, arg : Arg]
Writes == Seq(Nat \X Arg)
Data == [state : {"INIT", "SEND", "RECV", "FILE_SYS", "BACK"}, location : Arg,
         value : Arg, var : BOOLEAN, mark : [pc : Nat, writes : Writes]]
Plain == {Start, Gdb, Blank, Nl, Running, Done, Wrong, Bkpt, Stopped}
Part == Plain \cup {Value(v) : v \in Nat}
Debuggee == [pc : Nat, stops : SUBSET Arg, live : BOOLEAN, busy : BOOLEAN,
             writes : Writes, exits : {0, 1}]
Working == phase \in {"issue", "first", "second"}

(* The types of what rccs keeps and of what lies between it and GDB.       *)
Typed == /\ scene \in Scenes
         /\ path \in Seq(Data) /\ history \in Seq(Data) /\ op \in Data
         /\ todo \in Seq(Command) /\ commands \in Seq(Command)
         /\ phase \in {"issue", "first", "second", "idle", "crashed"}
         /\ Working => todo # <<>>
         /\ pipe \in Seq(Part)
         /\ gdb \in Debuggee

-----------------------------------------------------------------------------
(* The scripts of the operations.                                          *)
LEMMA CmdTyped ==
  ASSUME NEW name \in Name, NEW arg \in Arg
  PROVE  Cmd(name, arg) \in Command
BY DEF Cmd, Command

LEMMA ScriptsTyped ==
  /\ mc_init_debugger \in Seq(Command) /\ mc_init_debugger # <<>>
  /\ \A l \in Labels : /\ mc_send(l, "v") \in Seq(Command) /\ mc_send(l, "v") # <<>>
                       /\ mc_recv(l) \in Seq(Command) /\ mc_recv(l) # <<>>
<1>1. /\ Cmd("tty", Null) \in Command /\ Cmd("confirm", Null) \in Command
      /\ Cmd("insert", "main") \in Command /\ Cmd("run", Null) \in Command
      /\ Cmd("continue", Null) \in Command /\ Cmd("set", "v") \in Command
      /\ \A l \in Labels : Cmd("insert", l) \in Command /\ Cmd("print", l) \in Command
  BY CmdTyped DEF Name, Arg
<1>2. mc_init_debugger \in Seq(Command) /\ mc_init_debugger # <<>>
  BY <1>1 DEF mc_init_debugger
<1>3. ASSUME NEW l \in Labels
      PROVE  /\ mc_send(l, "v") \in Seq(Command) /\ mc_send(l, "v") # <<>>
             /\ mc_recv(l) \in Seq(Command) /\ mc_recv(l) # <<>>
  <2> DEFINE a == <<Cmd("insert", l), Cmd("continue", Null)>>
             s == IF l \in NoVar THEN <<>> ELSE <<Cmd("set", "v")>>
             p == IF l \in NoVar THEN <<>> ELSE <<Cmd("print", l)>>
  <2>1. a \in Seq(Command) /\ a # <<>>
    BY <1>1
  <2>2. s \in Seq(Command) /\ p \in Seq(Command)
    BY <1>1
  <2>3. mc_send(l, "v") = a \o s /\ mc_recv(l) = a \o p
    BY DEF mc_send, mc_recv
  <2> HIDE DEF a, s, p
  <2>4. a \o s \in Seq(Command) /\ a \o p \in Seq(Command)
    BY <2>1, <2>2, ConcatProperties
  <2> QED BY <2>1, <2>2, <2>3, <2>4, HeadOfConcat
<1> QED BY <1>2, <1>3

LEMMA BackTyped ==
  ASSUME NEW h \in Seq(Data)
  PROVE  mc_back(h) \in Seq(Command) /\ mc_back(h) # <<>>
<1> DEFINE s == [i \in DOMAIN h |-> IF h[i].state = "SEND" THEN re_send(h[i]) ELSE <<>>]
           a == <<Cmd("insert", "main"), Cmd("run", Null)>>
<1>1. Cmd("insert", "main") \in Command /\ Cmd("run", Null) \in Command
  BY CmdTyped DEF Name, Arg
<1>2. a \in Seq(Command) /\ a # <<>>
  BY <1>1
<1>3. ASSUME NEW d \in Data
      PROVE  re_send(d) \in Seq(Command)
  <2>1. d.location \in Arg /\ d.value \in Arg /\ Null \in Arg
    BY DEF Data, Arg
  <2>2. /\ Cmd("insert", d.location) \in Command /\ Cmd("continue", Null) \in Command
        /\ Cmd("set", IF d.var THEN d.value ELSE Null) \in Command
    BY <2>1, CmdTyped DEF Name
  <2> QED BY <2>2 DEF re_send
<1>4. Len(h) \in Nat /\ DOMAIN h = 1 .. Len(h) /\ \A i \in 1 .. Len(h) : h[i] \in Data
  BY LenProperties, ElementOfSeq
<1>5. s \in [1 .. Len(h) -> Seq(Command)]
  <2>1. \A i \in 1 .. Len(h) : re_send(h[i]) \in Seq(Command)
    BY <1>3, <1>4
  <2>2. <<>> \in Seq(Command)
    OBVIOUS
  <2> QED BY <1>4, <2>1, <2>2
<1>6. s \in Seq(Seq(Command))
  <2> DEFINE T == Seq(Command)
  <2>1. s \in [1 .. Len(h) -> T] /\ Len(h) \in Nat
    BY <1>4, <1>5
  <2> HIDE DEF s, T
  <2>2. s \in Seq(T)
    BY <2>1
  <2> QED BY <2>2 DEF T
<1>7. FlattenSeq(s) \in Seq(Command)
  BY <1>6, FlattenTyped
<1>8. mc_back(h) = a \o FlattenSeq(s)
  BY DEF mc_back
<1> HIDE DEF a, s
<1> QED BY <1>2, <1>7, <1>8, ConcatProperties, HeadOfConcat

-----------------------------------------------------------------------------
(* The reader of the pipe.                                                 *)
LEMMA WidthTyped == \A part : Width(part) \in Nat
<1> TAKE part
<1> QED BY DEF Width, Room

(* What has been read of a text, part by part.                             *)
Size(text, f) == f = [n \in 0 .. Len(text) |-> IF n = 0 THEN 0 ELSE f[n - 1] + Width(text[n])]

LEMMA SizeExists ==
  ASSUME NEW text, Len(text) \in Nat
  PROVE  \E f : Size(text, f)
<1> DEFINE N == Len(text)
           step == [n \in 1 .. N |-> [x \in Nat |-> x + Width(text[n])]]
<1>1. Stepping(N, Nat, 0, step)
  BY WidthTyped DEF Stepping
<1>2. \A n \in 1 .. N, x \in Nat : step[n][x] = x + Width(text[n])
  OBVIOUS
<1> HIDE DEF step
<1>3. PICK f : Stepped(N, Nat, 0, step, f)
  BY <1>1, PrefixRecursion
<1>4. ASSUME NEW n \in 0 .. N
      PROVE  f[n] = IF n = 0 THEN 0 ELSE f[n - 1] + Width(text[n])
  <2>1. CASE n = 0
    BY <1>3, <2>1 DEF Stepped
  <2>2. CASE n # 0
    <3>1. n \in 1 .. N /\ n - 1 \in 0 .. N
      BY <2>2
    <3> QED BY <1>2, <1>3, <2>2, <3>1 DEF Stepped
  <2> QED BY <2>1, <2>2
<1>5. f = [n \in 0 .. N |-> f[n]]
  BY <1>3 DEF Stepped
<1> QED BY <1>4, <1>5 DEF Size

LEMMA DiscardedIs ==
  ASSUME NEW text, Len(text) \in Nat
  PROVE  \E f : /\ Size(text, f)
                /\ Discarded(text) = Max({n \in 0 .. Len(text) : f[n] <= Room})
                /\ Discarded(text) \in 0 .. Len(text)
<1> DEFINE f == CHOOSE f : Size(text, f)
           M == {n \in 0 .. Len(text) : f[n] <= Room}
<1>1. Size(text, f)
  BY SizeExists
<1>2. Discarded(text) = Max(M)
  BY DEF Discarded, Size
<1> HIDE DEF f
<1>3. 0 \in M
  BY <1>1 DEF Size, Room
<1>4. Max(M) \in M
  BY <1>3, GreatestNumber
<1> QED BY <1>1, <1>2, <1>4

(* A response is the text up to some part that has been read.              *)
LEMMA ResponseIs ==
  ASSUME NEW text \in Seq(Part)
  PROVE  LET r == get_gdb_response(text)
         IN  /\ r.read \in 0 .. Len(text)
             /\ r.response # NoEnd =>
                  \E i \in 1 .. Len(text) : i <= r.read /\ r.response = SubSeq(text, 1, i)
<1> DEFINE r == get_gdb_response(text)
           ends == {i \in DOMAIN text : EndOfResponse(text, i)}
<1>1. Len(text) \in Nat /\ DOMAIN text = 1 .. Len(text)
  BY LenProperties
<1>2. CASE ends = {}
  <2>1. r = [response |-> NoEnd, read |-> Len(text)]
    BY <1>2 DEF get_gdb_response
  <2> QED BY <1>1, <2>1
<1>3. CASE ends # {}
  <2> DEFINE i == Min(ends)
             rest == SubSeq(text, i + 1, Len(text))
  <2>1. i \in ends
    <3>1. ends \subseteq Nat
      BY <1>1
    <3>2. PICK m \in ends : \A n \in ends : m <= n
      BY <1>3, <3>1, LeastNumber
    <3>3. i = m
      BY <3>1, <3>2, MinIs
    <3> QED BY <3>2, <3>3
  <2>2. i \in 1 .. Len(text)
    BY <1>1, <2>1
  <2>3. r = [response |-> SubSeq(text, 1, i), read |-> i + Discarded(rest)]
    BY <1>3 DEF get_gdb_response
  <2> HIDE DEF i, r, ends
  <2>4. Len(rest) = Len(text) - i
    <3>1. i \in 0 .. Len(text)
      BY <1>1, <2>2
    <3> QED BY <3>1, Suffix
  <2>5. Discarded(rest) \in 0 .. Len(text) - i
    <3> HIDE DEF rest
    <3>1. Len(rest) \in Nat
      BY <1>1, <2>2, <2>4
    <3>2. Discarded(rest) \in 0 .. Len(rest)
      BY <3>1, DiscardedIs
    <3> QED BY <2>4, <3>2
  <2>6. r.read \in 0 .. Len(text) /\ i <= r.read /\ r.response = SubSeq(text, 1, i)
    BY <1>1, <2>2, <2>3, <2>5
  <2> QED BY <2>2, <2>6 DEF r
<1> QED BY <1>2, <1>3

(* The result of a response is one of its parts.                           *)
LEMMA ResultIs ==
  ASSUME NEW text \in Seq(Part), NEW i \in 1 .. Len(text)
  PROVE  LET result == parse_gdbmi_response(SubSeq(text, 1, i))
         IN  \/ result = NoResult
             \/ \E j \in 1 .. i : result = text[j]
<1> DEFINE s == SubSeq(text, 1, i)
           lines == {j \in DOMAIN s \ {1} : s[j - 1] = Start /\ s[j] \notin {Running, Done, Exit}}
<1>1. Len(text) \in Nat
  BY LenProperties
<1>2. Len(s) = i /\ DOMAIN s = 1 .. i /\ \A j \in 1 .. i : s[j] = text[j]
  BY <1>1, SubSeqProperties, LenProperties
<1>3. parse_gdbmi_response(s) = IF lines = {} THEN NoResult ELSE s[Max(lines)]
  BY DEF parse_gdbmi_response
<1> HIDE DEF s
<1>4. lines # {} => Max(lines) \in 1 .. i
  <2>1. lines \subseteq 0 .. i /\ i \in Nat
    BY <1>1, <1>2
  <2>2. lines # {} => Max(lines) \in lines
    BY <2>1, GreatestNumber
  <2> QED BY <1>2, <2>2
<1> QED BY <1>2, <1>3, <1>4 DEF s

-----------------------------------------------------------------------------
(* What a call of get_gdb_response() and the parser do to the state.       *)
LEMMA ReadIs ==
  ASSUME Typed, Read
  PROVE  /\ \E k \in 0 .. Len(pipe) :
              /\ pipe' = SubSeq(pipe, k + 1, Len(pipe))
              /\ \/ op' = op /\ todo' = todo /\ phase' = phase /\ history' = history
                 \/ /\ phase = "first" /\ Exec(Head(todo)) /\ phase' = "second"
                    /\ op' = op /\ todo' = todo /\ history' = history
                 \/ /\ ~(phase = "first" /\ Exec(Head(todo)))
                    /\ \E result : /\ Take(Head(todo), result)
                                   /\ result = NoResult \/ \E j \in 1 .. k : result = pipe[j]
         /\ phase \in {"first", "second"}
         /\ scene' = scene /\ acts' = acts /\ path' = path /\ commands' = commands /\ gdb' = gdb
<1>1. PICK n \in 1 .. Len(pipe) :
        LET r == get_gdb_response(SubSeq(pipe, 1, n)) IN
        /\ pipe' = SubSeq(pipe, r.read + 1, Len(pipe))
        /\ IF r.response = NoEnd
           THEN UNCHANGED <<op, todo, phase, history>>
           ELSE IF phase = "first" /\ Exec(Head(todo))
                THEN phase' = "second" /\ UNCHANGED <<op, todo, history>>
                ELSE Take(Head(todo), parse_gdbmi_response(r.response))
  BY DEF Read
<1> DEFINE text == SubSeq(pipe, 1, n)
           r == get_gdb_response(text)
           k == r.read
<1>2. pipe \in Seq(Part) /\ Len(pipe) \in Nat
  BY LenProperties DEF Typed
<1>3. text \in Seq(Part) /\ Len(text) = n /\ \A j \in 1 .. n : text[j] = pipe[j]
  <2>1. n \in 0 .. Len(pipe)
    BY <1>2
  <2> QED BY <1>2, <2>1, InitialSegment
<1> HIDE DEF text
<1>4. /\ k \in 0 .. n
      /\ r.response # NoEnd => \E i \in 1 .. n : i <= k /\ r.response = SubSeq(text, 1, i)
  BY <1>3, ResponseIs
<1>5. /\ pipe' = SubSeq(pipe, k + 1, Len(pipe))
      /\ IF r.response = NoEnd
         THEN UNCHANGED <<op, todo, phase, history>>
         ELSE IF phase = "first" /\ Exec(Head(todo))
              THEN phase' = "second" /\ UNCHANGED <<op, todo, history>>
              ELSE Take(Head(todo), parse_gdbmi_response(r.response))
  BY <1>1 DEF text
<1> HIDE DEF r
<1>6. k \in 0 .. Len(pipe)
  BY <1>2, <1>4
<1>7. r.response # NoEnd =>
        LET result == parse_gdbmi_response(r.response)
        IN  result = NoResult \/ \E j \in 1 .. k : result = pipe[j]
  <2> SUFFICES ASSUME r.response # NoEnd
               PROVE  LET result == parse_gdbmi_response(r.response)
                      IN  result = NoResult \/ \E j \in 1 .. k : result = pipe[j]
    OBVIOUS
  <2>1. PICK i \in 1 .. n : i <= k /\ r.response = SubSeq(text, 1, i)
    BY <1>4
  <2> DEFINE result == parse_gdbmi_response(r.response)
  <2>2. result = NoResult \/ \E j \in 1 .. i : result = text[j]
    BY <1>3, <2>1, ResultIs
  <2>3. \A j \in 1 .. i : j \in 1 .. k /\ j \in 1 .. n
    BY <1>2, <1>4, <2>1
  <2> HIDE DEF result
  <2>4. result = NoResult \/ \E j \in 1 .. k : result = pipe[j]
    BY <1>3, <2>2, <2>3
  <2> QED BY <2>4 DEF result
<1>8. CASE r.response = NoEnd
  <2>1. op' = op /\ todo' = todo /\ phase' = phase /\ history' = history
    BY <1>5, <1>8
  <2> QED BY <1>5, <1>6, <2>1 DEF Read
<1>9. CASE r.response # NoEnd
  <2>1. CASE phase = "first" /\ Exec(Head(todo))
    <3>1. phase' = "second" /\ op' = op /\ todo' = todo /\ history' = history
      BY <1>5, <1>9, <2>1
    <3> QED BY <1>5, <1>6, <2>1, <3>1 DEF Read
  <2>2. CASE ~(phase = "first" /\ Exec(Head(todo)))
    <3>1. Take(Head(todo), parse_gdbmi_response(r.response))
      BY <1>5, <1>9, <2>2
    <3> QED BY <1>5, <1>6, <1>7, <1>9, <2>2, <3>1 DEF Read
  <2> QED BY <2>1, <2>2
<1> QED BY <1>8, <1>9

(* What becomes of the operation when an answer is taken.                  *)
LEMMA TakeIs ==
  ASSUME Typed, NEW cmd, NEW result, Take(cmd, result),
         result = NoResult \/ result \in Part
  PROVE  \/ phase' = "crashed" /\ op' = op /\ todo' = todo /\ history' = history
         \/ /\ cmd.name = "print" => IsValue(result)
            /\ \E o \in Data :
                 /\ o.state = op.state /\ o.location = op.location /\ o.mark = op.mark
                 /\ cmd.name \notin {"set", "print"} => o.var = op.var
                 /\ cmd.name # "print" => o.value = op.value
                 /\ cmd.name = "print" => o.value = result[2]
                 /\ \/ Finish(o) /\ (GivesUp(cmd, result) \/ Len(todo) = 1)
                    \/ /\ Len(todo) # 1 /\ todo' = Tail(todo) /\ phase' = "issue"
                       /\ op' = o /\ history' = history
<1> DEFINE o == CASE cmd.name = "set"   -> [op EXCEPT !.var = TRUE]
                  [] cmd.name = "print" -> [op EXCEPT !.var = TRUE, !.value = result[2]]
                  [] OTHER              -> op
<1>1. CASE cmd.name = "print" /\ ~IsValue(result)
  <2>1. Crash
    BY <1>1 DEF Take
  <2> QED BY <2>1 DEF Crash
<1>2. CASE ~(cmd.name = "print" /\ ~IsValue(result))
  <2>1. IsValue(result) => result[2] \in Arg
    <3>1. ASSUME NEW p \in Plain PROVE p[1] # "^done,value="
      <4>1. \E x \in {"start", "(gdb)", "blank", "newline", "^running", "^done", "^error,msg=",
                      "^done,bkpt=", "*stopped,reason="} : p = <<x>>
        BY DEF Plain, Start, Gdb, Blank, Nl, Running, Done, Wrong, Bkpt, Stopped
      <4>2. \A x : <<x>>[1] = x
        OBVIOUS
      <4> QED BY <4>1, <4>2
    <3>2. NoResult[1] # "^done,value="
      BY DEF NoResult
    <3>3. \A v \in Nat : Value(v)[2] = v
      BY DEF Value
    <3>4. Value(0)[1] = "^done,value="
      BY DEF Value
    <3> QED BY <3>1, <3>2, <3>3, <3>4 DEF IsValue, Part, Arg
  <2>2. op \in Data
    BY DEF Typed
  <2>3. /\ o \in Data /\ o.state = op.state /\ o.location = op.location /\ o.mark = op.mark
        /\ cmd.name \notin {"set", "print"} => o.var = op.var
        /\ cmd.name # "print" => o.value = op.value
        /\ cmd.name = "print" => o.value = result[2]
    <3>1. CASE cmd.name = "set"
      BY <2>2, <3>1 DEF Data
    <3>2. CASE cmd.name = "print"
      BY <1>2, <2>1, <2>2, <3>2 DEF Data
    <3>3. CASE cmd.name \notin {"set", "print"}
      BY <2>2, <3>3
    <3> QED BY <3>1, <3>2, <3>3
  <2>4. IF GivesUp(cmd, result) \/ Len(todo) = 1 THEN Finish(o)
        ELSE /\ todo' = Tail(todo) /\ phase' = "issue" /\ op' = o
             /\ UNCHANGED history
    BY <1>2 DEF Take
  <2> HIDE DEF o
  <2>5. \/ Finish(o) /\ (GivesUp(cmd, result) \/ Len(todo) = 1)
        \/ /\ Len(todo) # 1 /\ todo' = Tail(todo) /\ phase' = "issue"
           /\ op' = o /\ history' = history
    BY <2>4
  <2> QED BY <1>2, <2>3, <2>5
<1> QED BY <1>1, <1>2

-----------------------------------------------------------------------------
(* Types are kept, action by action.                                       *)
LEMMA OpTyped ==
  ASSUME Typed, NEW s \in {"SEND", "RECV", "FILE_SYS"}, NEW l \in Arg, NEW v \in Arg
  PROVE  Op(s, l, v) \in Data /\ Op(s, l, v).state = s /\ Op(s, l, v).location = l /\ ~Op(s, l, v).var
<1>1. gdb.pc \in Nat /\ gdb.writes \in Writes
  BY DEF Typed, Debuggee
<1> QED BY <1>1 DEF Op, Target, Data

LEMMA TypedActs ==
  ASSUME Typed, (\E l \in Labels : Send(l, "v") \/ Recv(l) \/ Visited(l)) \/ Display \/ Leave
  PROVE  Typed'
<1>1. /\ scene' = scene /\ commands' = commands /\ pipe' = pipe /\ gdb' = gdb /\ history' = history
      /\ phase = "idle"
  BY DEF Send, Recv, Visited, Display, Leave, Act
<1>2. /\ path \in Seq(Data) /\ Labels \subseteq Arg /\ "v" \in Arg /\ Null \in Arg /\ "display" \in Arg
      /\ \A o \in Data : Append(path, o) \in Seq(Data)
  BY AppendProperties DEF Typed, Arg
<1> DEFINE Kept == /\ path' \in Seq(Data) /\ op' \in Data /\ todo' \in Seq(Command)
                   /\ phase' \in {"issue", "idle"} /\ (phase' = "issue" => todo' # <<>>)
<1>3. ASSUME NEW l \in Labels, Send(l, "v") \/ Recv(l) \/ Visited(l)
      PROVE  Kept
  <2>1. CASE Send(l, "v")
    BY <1>2, <2>1, OpTyped, ScriptsTyped DEF Send, Begin
  <2>2. CASE Recv(l)
    BY <1>2, <2>2, OpTyped, ScriptsTyped DEF Recv, Begin
  <2>3. CASE Visited(l)
    BY <1>2, <2>3, OpTyped, ScriptsTyped DEF Visited, Begin
  <2> QED BY <1>3, <2>1, <2>2, <2>3
<1>4. ASSUME Display
      PROVE  Kept
  <2>1. Op("FILE_SYS", "display", Null) \in Data
    BY <1>2, OpTyped
  <2>2. path' = Append(path, Op("FILE_SYS", "display", Null)) /\ op' = op /\ todo' = todo /\ phase' = phase
    BY <1>4 DEF Display
  <2>3. path' \in Seq(Data)
    BY <1>2, <2>1, <2>2
  <2> QED BY <1>1, <2>2, <2>3 DEF Typed
<1>5. ASSUME Leave
      PROVE  Kept
  <2>1. path' = <<>> /\ op' = op /\ todo' = todo /\ phase' = phase
    BY <1>5 DEF Leave
  <2>2. path' \in Seq(Data)
    BY <2>1
  <2> QED BY <1>1, <2>1, <2>2 DEF Typed
<1>6. Kept
  <2> HIDE DEF Kept
  <2> QED BY <1>3, <1>4, <1>5
<1> QED BY <1>1, <1>6 DEF Typed, Working

LEMMA DeleteIs ==
  ASSUME NEW h \in Seq(Data)
  PROVE  delete_last_state(h) \in Seq(Data)
<1>1. Len(h) > 1 => h # <<>>
  OBVIOUS
<1> QED BY <1>1, Parts DEF delete_last_state

LEMMA TypedBack ==
  ASSUME Typed, Back
  PROVE  Typed'
<1>1. /\ scene' = scene /\ commands' = commands /\ pipe' = pipe /\ gdb' = gdb
      /\ phase = "idle" /\ path # <<>> /\ path' = Front(path)
      /\ history' = delete_last_state(history)
      /\ op' = [Last(path) EXCEPT !.state = "BACK"]
      /\ \/ todo' = mc_back(history') /\ phase' = "issue"
         \/ todo' = todo /\ phase' = phase
  BY DEF Back
<1>2. path' \in Seq(Data) /\ Last(path) \in Data
  BY <1>1, Parts DEF Typed
<1>3. op' \in Data
  BY <1>1, <1>2 DEF Data
<1>4. history' \in Seq(Data)
  BY <1>1, DeleteIs DEF Typed
<1>5. mc_back(history') \in Seq(Command) /\ mc_back(history') # <<>>
  BY <1>4, BackTyped
<1> QED BY <1>1, <1>2, <1>3, <1>4, <1>5 DEF Typed, Working

LEMMA TypedIssue ==
  ASSUME Typed, Issue
  PROVE  Typed'
<1>1. /\ scene' = scene /\ pipe' = pipe /\ gdb' = gdb /\ path' = path /\ op' = op /\ todo' = todo
      /\ history' = history /\ phase = "issue"
      /\ \/ phase' = "crashed" /\ commands' = commands
         \/ phase' = "first" /\ commands' = Append(commands, Head(todo))
  BY DEF Issue, Crash
<1>2. Head(todo) \in Command
  BY <1>1, HeadTailProperties DEF Typed, Working
<1>3. Append(commands, Head(todo)) \in Seq(Command)
  BY <1>2, AppendProperties DEF Typed
<1> QED BY <1>1, <1>3 DEF Typed, Working

LEMMA FinishIs ==
  ASSUME Typed, NEW o \in Data, Finish(o)
  PROVE  /\ todo' = <<>> /\ phase' = "idle" /\ op' = o
         /\ history' \in Seq(Data)
         /\ o.state = "BACK" => history' = history
         /\ o.state # "BACK" => history' = Append(history, o)
<1>1. Append(history, o) \in Seq(Data)
  BY AppendProperties DEF Typed
<1> QED BY <1>1 DEF Finish, append_state, Typed

LEMMA TypedRead ==
  ASSUME Typed, Read
  PROVE  Typed'
<1>1. PICK k \in 0 .. Len(pipe) :
        /\ pipe' = SubSeq(pipe, k + 1, Len(pipe))
        /\ \/ op' = op /\ todo' = todo /\ phase' = phase /\ history' = history
           \/ /\ phase = "first" /\ Exec(Head(todo)) /\ phase' = "second"
              /\ op' = op /\ todo' = todo /\ history' = history
           \/ /\ ~(phase = "first" /\ Exec(Head(todo)))
              /\ \E result : /\ Take(Head(todo), result)
                             /\ result = NoResult \/ \E j \in 1 .. k : result = pipe[j]
  BY ReadIs
<1>2. /\ phase \in {"first", "second"}
      /\ scene' = scene /\ path' = path /\ commands' = commands /\ gdb' = gdb
  BY ReadIs
<1>3. pipe' \in Seq(Part)
  BY <1>1, Suffix DEF Typed
<1>4. todo # <<>> /\ todo \in Seq(Command)
  BY <1>2 DEF Typed, Working
<1>5. /\ op' \in Data /\ history' \in Seq(Data) /\ todo' \in Seq(Command)
      /\ phase' \in {"issue", "first", "second", "idle", "crashed"}
      /\ phase' \in {"issue", "first", "second"} => todo' # <<>>
  <2>1. CASE op' = op /\ todo' = todo /\ history' = history /\ phase' \in {"first", "second", "crashed"}
    BY <1>4, <2>1 DEF Typed
  <2>2. ASSUME NEW result, Take(Head(todo), result),
               result = NoResult \/ \E j \in 1 .. k : result = pipe[j]
        PROVE  \/ phase' = "crashed" /\ op' = op /\ todo' = todo /\ history' = history
               \/ /\ op' \in Data /\ history' \in Seq(Data) /\ todo' \in Seq(Command)
                  /\ phase' = "idle" \/ (phase' = "issue" /\ todo' # <<>>)
    <3>1. result = NoResult \/ result \in Part
      <4>1. Len(pipe) \in Nat /\ \A j \in 1 .. Len(pipe) : pipe[j] \in Part
        BY LenProperties, ElementOfSeq DEF Typed
      <4>2. \A j \in 1 .. k : j \in 1 .. Len(pipe)
        BY <4>1
      <4> QED BY <2>2, <4>1, <4>2
    <3>2. CASE phase' = "crashed" /\ op' = op /\ todo' = todo /\ history' = history
      BY <3>2
    <3>3. CASE \E o \in Data : \/ Finish(o)
                               \/ /\ Len(todo) # 1 /\ todo' = Tail(todo) /\ phase' = "issue"
                                  /\ op' = o /\ history' = history
      <4>1. PICK o \in Data : \/ Finish(o)
                              \/ /\ Len(todo) # 1 /\ todo' = Tail(todo) /\ phase' = "issue"
                                 /\ op' = o /\ history' = history
        BY <3>3
      <4>2. CASE Finish(o)
        <5>1. todo' = <<>> /\ phase' = "idle" /\ op' = o /\ history' \in Seq(Data)
          BY <4>2, FinishIs
        <5> QED BY <5>1
      <4>3. CASE Len(todo) # 1 /\ todo' = Tail(todo) /\ phase' = "issue" /\ op' = o /\ history' = history
        <5>1. Tail(todo) \in Seq(Command) /\ Len(Tail(todo)) = Len(todo) - 1 /\ Len(todo) \in Nat
          BY <1>4, HeadTailProperties, LenProperties
        <5>2. Tail(todo) # <<>>
          <6> DEFINE t == Tail(todo)
          <6>1. Len(t) # 0 /\ t \in Seq(Command)
            BY <4>3, <5>1
          <6> HIDE DEF t
          <6>2. t # <<>>
            BY <6>1, EmptySeq
          <6> QED BY <6>2 DEF t
        <5> QED BY <4>3, <5>1, <5>2 DEF Typed
      <4> QED BY <4>1, <4>2, <4>3
    <3> QED BY <2>2, <3>1, <3>2, <3>3, TakeIs
  <2>3. CASE \E result : /\ Take(Head(todo), result)
                         /\ result = NoResult \/ \E j \in 1 .. k : result = pipe[j]
    <3>1. \/ phase' = "crashed" /\ op' = op /\ todo' = todo /\ history' = history
          \/ /\ op' \in Data /\ history' \in Seq(Data) /\ todo' \in Seq(Command)
             /\ phase' = "idle" \/ (phase' = "issue" /\ todo' # <<>>)
      BY <2>2, <2>3
    <3> QED BY <2>1, <3>1
  <2> QED BY <1>1, <1>2, <2>1, <2>3
<1> QED BY <1>2, <1>3, <1>5 DEF Typed, Working

(* GDB: what an answer is made of, and what becomes of the program.        *)
LEMMA AnswerTyped ==
  ASSUME NEW p \in Part
  PROVE  /\ Answer(p) \in Seq(Part) /\ Len(Answer(p)) = 6
         /\ Answer(p)[1] = Start /\ Answer(p)[2] = p /\ Answer(p)[3] = Nl
         /\ Answer(p)[4] = Gdb /\ Answer(p)[5] = Blank /\ Answer(p)[6] = Nl
<1>1. Start \in Part /\ Nl \in Part /\ Gdb \in Part /\ Blank \in Part
  BY DEF Part, Plain
<1> DEFINE a == <<Start, p, Nl>>
           b == <<Gdb, Blank, Nl>>
<1>2. a \in Seq(Part) /\ Len(a) = 3 /\ a[1] = Start /\ a[2] = p /\ a[3] = Nl
  BY <1>1
<1>3. b \in Seq(Part) /\ Len(b) = 3 /\ b[1] = Gdb /\ b[2] = Blank /\ b[3] = Nl
  BY <1>1
<1>4. Answer(p) = a \o b
  BY DEF Answer, Prompt
<1> HIDE DEF a, b
<1>5. /\ a \o b \in Seq(Part) /\ Len(a \o b) = Len(a) + Len(b)
      /\ \A i \in 1 .. Len(a) + Len(b) : (a \o b)[i] = IF i <= Len(a) THEN a[i] ELSE b[i - Len(a)]
  BY <1>2, <1>3, ConcatProperties
<1>6. /\ a \o b \in Seq(Part) /\ Len(a \o b) = 6
      /\ \A i \in 1 .. 6 : (a \o b)[i] = IF i <= 3 THEN a[i] ELSE b[i - 3]
  BY <1>2, <1>3, <1>5
<1>7. (a \o b)[1] = a[1] /\ (a \o b)[2] = a[2] /\ (a \o b)[3] = a[3]
  BY <1>6
<1>8. (a \o b)[4] = b[1] /\ (a \o b)[5] = b[2] /\ (a \o b)[6] = b[3]
  <2>1. 4 \in 1 .. 6 /\ 5 \in 1 .. 6 /\ 6 \in 1 .. 6 /\ 4 - 3 = 1 /\ 5 - 3 = 2 /\ 6 - 3 = 3
    OBVIOUS
  <2> QED BY <1>6, <2>1
<1> QED BY <1>2, <1>3, <1>4, <1>6, <1>7, <1>8

LEMMA ReplyTyped ==
  ASSUME Typed, NEW cmd \in Command
  PROVE  /\ Reply(cmd) \in Part
         /\ Reply(cmd) \in {Bkpt, Wrong, Done, Running} \/ (cmd.name = "print" /\ Reply(cmd) = Value(gdb.pc))
         /\ Served(cmd) \in Debuggee
         /\ cmd.name = "print" => Served(cmd) = gdb
<1>1. gdb \in Debuggee /\ gdb.pc \in Nat
  BY DEF Typed, Debuggee
<1>2. cmd.name \in Name /\ cmd.arg \in Arg
  BY DEF Command
<1>3. Reply(cmd) \in {Bkpt, Wrong, Done, Running} \/ (cmd.name = "print" /\ Reply(cmd) = Value(gdb.pc))
  BY <1>2 DEF Reply, Name
<1>4. Reply(cmd) \in Part
  BY <1>1, <1>3 DEF Part, Plain
<1>5. Append(gdb.writes, <<gdb.pc, cmd.arg>>) \in Writes
  BY <1>1, <1>2, AppendProperties DEF Debuggee, Writes
<1>6. Served(cmd) \in Debuggee
  <2>1. CASE cmd.name = "insert"
    BY <1>1, <1>2, <2>1 DEF Served, Debuggee
  <2>2. CASE cmd.name = "run"
    <3>1. <<>> \in Writes
      BY DEF Writes
    <3>2. Served(cmd) = [gdb EXCEPT !.pc = 0, !.writes = <<>>, !.live = TRUE, !.busy = TRUE]
      BY <2>2 DEF Served
    <3>3. ASSUME NEW w \in Writes
          PROVE  [gdb EXCEPT !.pc = 0, !.writes = w, !.live = TRUE, !.busy = TRUE] \in Debuggee
      BY <1>1 DEF Debuggee
    <3> QED BY <3>1, <3>2, <3>3
  <2>3. CASE cmd.name = "continue"
    BY <1>1, <2>3 DEF Served, Debuggee
  <2>4. CASE cmd.name = "set"
    BY <1>1, <1>5, <2>4 DEF Served, Debuggee
  <2>5. CASE cmd.name \in {"tty", "confirm", "print"}
    BY <1>1, <2>5 DEF Served
  <2> QED BY <1>2, <2>1, <2>2, <2>3, <2>4, <2>5 DEF Name
<1>7. cmd.name = "print" => Served(cmd) = gdb
  BY DEF Served
<1> QED BY <1>3, <1>4, <1>6, <1>7

LEMMA TypedServe ==
  ASSUME Typed, Serve
  PROVE  Typed'
<1>1. /\ commands' = Tail(commands) /\ pipe' = pipe \o Answer(Reply(Head(commands)))
      /\ gdb' = Served(Head(commands)) /\ commands # <<>>
      /\ scene' = scene /\ path' = path /\ history' = history /\ op' = op /\ todo' = todo
      /\ phase' = phase
  BY DEF Serve, rccs
<1>2. Head(commands) \in Command /\ commands' \in Seq(Command)
  BY <1>1, HeadTailProperties DEF Typed
<1>3. Reply(Head(commands)) \in Part /\ gdb' \in Debuggee
  BY <1>1, <1>2, ReplyTyped
<1>4. pipe' \in Seq(Part)
  <2>1. Answer(Reply(Head(commands))) \in Seq(Part)
    BY <1>3, AnswerTyped
  <2> QED BY <1>1, <2>1, ConcatProperties DEF Typed
<1> QED BY <1>1, <1>2, <1>3, <1>4 DEF Typed, Working

LEMMA StopIs ==
  ASSUME Typed, Stop
  PROVE  /\ gdb' \in Debuggee /\ ~gdb'.busy /\ gdb.busy
         /\ pipe' = pipe \o Answer(Stopped)
         /\ scene' = scene /\ path' = path /\ history' = history /\ op' = op /\ todo' = todo
         /\ phase' = phase /\ commands' = commands
<1> DEFINE ahead == {i \in DOMAIN scene.program : i > gdb.pc /\ scene.program[i] \in gdb.stops}
<1>1. /\ gdb' = IF ahead = {}
                THEN [gdb EXCEPT !.busy = FALSE, !.live = FALSE, !.exits = 1]
                ELSE [gdb EXCEPT !.busy = FALSE, !.pc = Min(ahead),
                                 !.stops = @ \ {scene.program[Min(ahead)]}]
      /\ pipe' = pipe \o Answer(Stopped) /\ gdb.busy
      /\ scene' = scene /\ path' = path /\ history' = history /\ op' = op /\ todo' = todo
      /\ phase' = phase /\ commands' = commands
  BY DEF Stop, rccs
<1>2. gdb \in Debuggee
  BY DEF Typed
<1>3. ahead \subseteq Nat
  <2>1. scene.program \in Seq(STRING)
    BY ProgramsAreLists DEF Typed
  <2>2. DOMAIN scene.program = 1 .. Len(scene.program) /\ Len(scene.program) \in Nat
    BY <2>1, LenProperties
  <2> QED BY <2>2
<1>4. ahead # {} => Min(ahead) \in Nat
  <2> SUFFICES ASSUME ahead # {} PROVE Min(ahead) \in Nat
    OBVIOUS
  <2> HIDE DEF ahead
  <2>1. PICK m \in ahead : \A n \in ahead : m <= n
    BY <1>3, LeastNumber
  <2>2. Min(ahead) = m
    BY <1>3, <2>1, MinIs
  <2> QED BY <1>3, <2>1, <2>2
<1> HIDE DEF ahead
<1>5. gdb' \in Debuggee /\ ~gdb'.busy
  <2>1. CASE ahead = {}
    BY <1>1, <1>2, <2>1 DEF Debuggee
  <2>2. CASE ahead # {}
    <3>1. gdb.stops \ {scene.program[Min(ahead)]} \in SUBSET Arg
      BY <1>2 DEF Debuggee
    <3> QED BY <1>1, <1>2, <1>4, <2>2, <3>1 DEF Debuggee
  <2> QED BY <2>1, <2>2
<1> QED BY <1>1, <1>5

LEMMA TypedStop ==
  ASSUME Typed, Stop
  PROVE  Typed'
<1>1. Stopped \in Part
  BY DEF Part, Plain
<1>2. pipe \o Answer(Stopped) \in Seq(Part)
  BY <1>1, AnswerTyped, ConcatProperties DEF Typed
<1> QED BY <1>2, StopIs DEF Typed, Working

LEMMA TypedAtFirst == Init => Typed
<1> SUFFICES ASSUME Init PROVE Typed
  OBVIOUS
<1>1. <<>> \in Writes
  BY DEF Writes
<1>2. gdb \in Debuggee
  BY <1>1 DEF Init, Loaded, Debuggee
<1>3. op \in Data
  BY <1>1 DEF Init, Data, Arg
<1> QED BY <1>2, <1>3, ScriptsTyped DEF Init, Typed, Working

LEMMA TypedKept == Typed /\ [Next]_vars => Typed'
<1> SUFFICES ASSUME Typed, [Next]_vars PROVE Typed'
  OBVIOUS
<1>1. CASE UNCHANGED vars
  BY <1>1 DEF vars, Typed, Working
<1>2. CASE (\E l \in Labels : Send(l, "v") \/ Recv(l) \/ Visited(l)) \/ Display \/ Leave
  BY <1>2, TypedActs
<1> QED BY <1>1, <1>2, TypedBack, TypedIssue, TypedRead, TypedServe, TypedStop DEF Next

LEMMA AlwaysTyped == Spec => []Typed
<1> QED BY TypedAtFirst, TypedKept, PTL DEF Spec

-----------------------------------------------------------------------------
(* The list of states is the path of the search while no operation is      *)
(* under way.  A bound action enters the path before its commands are      *)
(* sent and the list after them; an undone one leaves both at once.        *)
Matches(h, p) ==
  /\ Len(h) = Len(p) + 1
  /\ \A i \in 1 .. Len(p) : h[i + 1].state = p[i].state /\ h[i + 1].location = p[i].location

PathInv ==
  Bound =>
    /\ op.state \in {"INIT", "SEND", "RECV", "BACK"}
    /\ phase = "idle" => Matches(history, path)
    /\ Working /\ op.state = "BACK" => Matches(history, path)
    /\ Working /\ op.state \in {"SEND", "RECV"} =>
         /\ path # <<>> /\ Matches(history, Front(path))
         /\ Last(path).state = op.state /\ Last(path).location = op.location
    /\ Working /\ op.state = "INIT" => history = <<>> /\ path = <<>>

LEMMA MatchesAppended ==
  ASSUME NEW h \in Seq(Data), NEW p \in Seq(Data), p # <<>>, Matches(h, Front(p)),
         NEW o \in Data, Last(p).state = o.state, Last(p).location = o.location
  PROVE  Matches(Append(h, o), p)
<1> DEFINE n == Len(p)
           g == Append(h, o)
<1>1. n \in Nat \ {0} /\ Len(Front(p)) = n - 1 /\ \A i \in 1 .. n - 1 : Front(p)[i] = p[i]
  BY Parts
<1>2. Len(h) = n /\ \A i \in 1 .. n - 1 : h[i + 1].state = p[i].state /\ h[i + 1].location = p[i].location
  BY <1>1 DEF Matches
<1>3. Len(g) = n + 1 /\ g[n + 1] = o /\ \A i \in 1 .. n : g[i] = h[i]
  BY <1>2, AppendProperties
<1> HIDE DEF g
<1>4. ASSUME NEW i \in 1 .. n
      PROVE  g[i + 1].state = p[i].state /\ g[i + 1].location = p[i].location
  <2>1. CASE i = n
    BY <1>3, <2>1 DEF Last
  <2>2. CASE i # n
    <3>1. i \in 1 .. n - 1 /\ i + 1 \in 1 .. n
      BY <1>1, <2>2
    <3> QED BY <1>2, <1>3, <3>1
  <2> QED BY <2>1, <2>2
<1> QED BY <1>3, <1>4 DEF Matches, g

LEMMA MatchesFront ==
  ASSUME NEW h \in Seq(Data), NEW p \in Seq(Data), p # <<>>, Matches(h, p)
  PROVE  Len(h) > 1 /\ Matches(Front(h), Front(p))
<1>1. /\ Len(p) \in Nat \ {0} /\ Len(Front(p)) = Len(p) - 1
      /\ \A i \in 1 .. Len(p) - 1 : Front(p)[i] = p[i]
  BY Parts
<1>2. Len(h) = Len(p) + 1 /\ Len(h) > 1
  BY <1>1 DEF Matches
<1>3. h # <<>>
  BY <1>1, <1>2
<1>4. Len(Front(h)) = Len(h) - 1 /\ \A i \in 1 .. Len(h) - 1 : Front(h)[i] = h[i]
  BY <1>3, Parts
<1>5. ASSUME NEW i \in 1 .. Len(p) - 1
      PROVE  Front(h)[i + 1].state = Front(p)[i].state /\ Front(h)[i + 1].location = Front(p)[i].location
  <2>1. i \in 1 .. Len(p) /\ i + 1 \in 1 .. Len(h) - 1
    BY <1>1, <1>2
  <2> QED BY <1>1, <1>4, <2>1 DEF Matches
<1> QED BY <1>1, <1>2, <1>4, <1>5 DEF Matches

(* The operation keeps its name and its line until it ends.                *)
LEMMA PathRead ==
  ASSUME Typed, PathInv, Bound, Read
  PROVE  PathInv'
<1>1. /\ phase \in {"first", "second"} /\ path' = path /\ Working
      /\ \/ op' = op /\ phase' = phase /\ history' = history
         \/ phase' = "second" /\ op' = op /\ history' = history
         \/ \E result : /\ Take(Head(todo), result)
                        /\ result = NoResult \/ result \in Part
  <2>1. Len(pipe) \in Nat /\ \A j \in 1 .. Len(pipe) : pipe[j] \in Part
    BY LenProperties, ElementOfSeq DEF Typed
  <2>2. \A k \in 0 .. Len(pipe) : \A j \in 1 .. k : pipe[j] \in Part
    BY <2>1
  <2> QED BY <2>2, ReadIs DEF Working
<1>2. /\ op.state \in {"INIT", "SEND", "RECV", "BACK"}
      /\ op.state = "BACK" => Matches(history, path)
      /\ op.state \in {"SEND", "RECV"} =>
           /\ path # <<>> /\ Matches(history, Front(path))
           /\ Last(path).state = op.state /\ Last(path).location = op.location
      /\ op.state = "INIT" => history = <<>> /\ path = <<>>
  BY <1>1 DEF PathInv
<1>3. CASE op' = op /\ history' = history /\ phase' \in {"first", "second", "crashed"}
  BY <1>1, <1>2, <1>3 DEF PathInv, Working
<1>4. ASSUME NEW o \in Data, o.state = op.state, o.location = op.location, Finish(o)
      PROVE  PathInv'
  <2>1. /\ phase' = "idle" /\ op' = o
        /\ o.state = "BACK" => history' = history
        /\ o.state # "BACK" => history' = Append(history, o)
    BY <1>4, FinishIs
  <2>2. history \in Seq(Data) /\ path \in Seq(Data)
    BY DEF Typed
  <2>3. Matches(history', path)
    <3>1. CASE op.state = "BACK"
      BY <1>2, <1>4, <2>1, <3>1
    <3>2. CASE op.state \in {"SEND", "RECV"}
      BY <1>2, <1>4, <2>1, <2>2, <3>2, MatchesAppended
    <3>3. CASE op.state = "INIT"
      <4>1. Len(history') = 1 /\ Len(path) = 0
        BY <1>2, <1>4, <2>1, <2>2, <3>3, AppendProperties, EmptySeq
      <4> QED BY <4>1 DEF Matches
    <3> QED BY <1>2, <3>1, <3>2, <3>3
  <2> QED BY <1>1, <1>2, <1>4, <2>1, <2>3 DEF PathInv, Working
<1>5. ASSUME NEW o \in Data, o.state = op.state, o.location = op.location,
             phase' = "issue", op' = o, history' = history
      PROVE  PathInv'
  BY <1>1, <1>2, <1>5 DEF PathInv, Working
<1>6. ASSUME NEW result, Take(Head(todo), result), result = NoResult \/ result \in Part
      PROVE  PathInv'
  <2>1. \/ phase' = "crashed" /\ op' = op /\ history' = history
        \/ \E o \in Data : /\ o.state = op.state /\ o.location = op.location
                           /\ \/ Finish(o)
                              \/ phase' = "issue" /\ op' = o /\ history' = history
    BY <1>6, TakeIs
  <2> QED BY <1>3, <1>4, <1>5, <2>1
<1> QED BY <1>1, <1>3, <1>6

LEMMA PathActs ==
  ASSUME Typed, PathInv, Bound, NEW l \in Labels, Send(l, "v") \/ Recv(l)
  PROVE  PathInv'
<1>1. PICK s \in {"SEND", "RECV"} : \E v \in Arg : op' = Op(s, l, v)
  BY DEF Send, Recv, Begin, Arg
<1>2. PICK v \in Arg : op' = Op(s, l, v)
  BY <1>1
<1>3. /\ path' = Append(path, op') /\ phase' = "issue" /\ history' = history /\ phase = "idle"
  BY DEF Send, Recv, Begin, Act
<1>4. op' \in Data /\ op'.state = s /\ op'.location = l
  <2>1. l \in Arg
    BY DEF Arg
  <2> QED BY <1>2, <2>1, OpTyped
<1>5. path \in Seq(Data) /\ Matches(history, path)
  BY <1>3 DEF Typed, PathInv
<1>6. path' # <<>> /\ Front(path') = path /\ Last(path') = op'
  <2>1. path' \in Seq(Data) /\ Len(path') = Len(path) + 1 /\ path'[Len(path) + 1] = op'
        /\ Len(path) \in Nat /\ \A i \in 1 .. Len(path) : path'[i] = path[i]
    BY <1>3, <1>4, <1>5, AppendProperties, LenProperties
  <2>2. path' # <<>>
    BY <2>1, EmptySeq
  <2>3. Front(path') \in Seq(Data) /\ Len(Front(path')) = Len(path)
        /\ \A i \in 1 .. Len(path) : Front(path')[i] = path[i]
    BY <2>1, <2>2, Parts
  <2>4. Front(path') = path
    BY <1>5, <2>3, SeqEqual
  <2> QED BY <2>1, <2>2, <2>4 DEF Last
<1> QED BY <1>3, <1>4, <1>5, <1>6 DEF PathInv, Working

LEMMA PathBack ==
  ASSUME Typed, PathInv, Bound, Back
  PROVE  PathInv'
<1>1. /\ phase = "idle" /\ path # <<>> /\ path' = Front(path)
      /\ history' = delete_last_state(history)
      /\ op' = [Last(path) EXCEPT !.state = "BACK"]
      /\ Len(history) > 1 => phase' = "issue"
  BY DEF Back
<1>2. path \in Seq(Data) /\ history \in Seq(Data) /\ Matches(history, path)
  BY <1>1 DEF Typed, PathInv
<1>3. Len(history) > 1 /\ Matches(Front(history), path')
  BY <1>1, <1>2, MatchesFront
<1>4. history' = Front(history) /\ phase' = "issue"
  BY <1>1, <1>3 DEF delete_last_state
<1>5. op'.state = "BACK"
  <2>1. Last(path) \in Data
    BY <1>1, <1>2, Parts
  <2> QED BY <1>1, <2>1 DEF Data
<1> QED BY <1>3, <1>4, <1>5 DEF PathInv, Working

LEMMA PathKept == Typed /\ PathInv /\ [Next]_vars => PathInv'
<1> SUFFICES ASSUME Typed, PathInv, [Next]_vars PROVE PathInv'
  OBVIOUS
<1>1. scene' = scene
  <2>1. [Next]_vars => UNCHANGED scene
    BY ReadIs DEF Next, vars, Send, Recv, Visited, Display, Leave, Act, Back, Issue, Serve, Stop
  <2> QED BY <2>1
<1>2. Bound' <=> Bound
  BY <1>1 DEF Bound
<1>3. CASE ~Bound
  BY <1>2, <1>3 DEF PathInv
<1>4. CASE Bound
  <2>1. CASE UNCHANGED <<path, history, op>> /\ (phase' = phase \/ (phase = "issue" /\ phase' \in {"first", "crashed"}))
    <3>1. path' = path /\ history' = history /\ op' = op
      BY <2>1
    <3>2. phase' = "idle" => phase = "idle"
      BY <2>1
    <3>3. Working' => Working
      BY <2>1 DEF Working
    <3> QED BY <1>2, <3>1, <3>2, <3>3 DEF PathInv
  <2>2. CASE \E l \in Labels : Send(l, "v") \/ Recv(l)
    BY <1>4, <2>2, PathActs
  <2>3. ~((\E l \in Labels : Visited(l)) \/ Display \/ Leave)
    BY <1>4 DEF Bound, Visited, Display, Leave, Act
  <2>4. CASE Back
    BY <1>4, <2>4, PathBack
  <2>5. CASE Read
    BY <1>4, <2>5, PathRead
  <2>6. CASE Issue \/ Serve \/ Stop \/ UNCHANGED vars
    BY <2>1, <2>6 DEF Issue, Crash, Serve, Stop, rccs, vars
  <2> QED BY <2>2, <2>3, <2>4, <2>5, <2>6 DEF Next
<1> QED BY <1>3, <1>4

LEMMA PathAtFirst == Init => PathInv
BY DEF Init, PathInv, Working

(* mc_back(1) takes the state from the end of the list that belongs to the *)
(* very action the verifier returns from, whatever GDB answered to it and  *)
(* for any program, because a state is appended even if a command failed.  *)
THEOREM ListOfStatesIsPath == Spec => []HistoryIsPath
<1>1. PathInv /\ Typed => HistoryIsPath
  <2> SUFFICES ASSUME PathInv, Typed, Bound, Idle PROVE Matches(history, path) /\ DOMAIN path = 1 .. Len(path)
    BY DEF HistoryIsPath, Matches
  <2> QED BY LenProperties DEF PathInv, Idle, Typed
<1> QED BY <1>1, TypedAtFirst, TypedKept, PathAtFirst, PathKept, PTL DEF Spec

-----------------------------------------------------------------------------
(* A printed value lies in the pipe, or its command before GDB, only while *)
(* rccs waits for it, and only one does; the program stands where it was   *)
(* when the value was printed.  So an input that takes a value takes its   *)
(* own, even when answers are cut up and lost.                             *)
ValuesIn(s) == {i \in 1 .. Len(s) : IsValue(s[i])}
PrintsIn(c) == {i \in 1 .. Len(c) : c[i].name = "print"}
Values == ValuesIn(pipe)
Prints == PrintsIn(commands)
Printing == phase = "first" /\ Head(todo).name = "print"

(* The script of an input ends in its only command that sets the value.    *)
InputScript ==
  Working /\ op.state = "RECV" =>
    /\ ~op.var
    /\ \A i \in 1 .. Len(todo) : /\ todo[i].name # "set"
                                 /\ todo[i].name = "print" => i = Len(todo)

OneValue ==
  /\ phase # "crashed" /\ ~Printing => Values = {} /\ Prints = {}
  /\ Printing => \/ Values = {} /\ Prints = {Len(commands)}
                 \/ /\ commands = <<>> /\ (Values = {} \/ ~gdb.busy)
                    /\ \A i, j \in Values : i = j
                    /\ \A i \in Values : pipe[i] = Value(gdb.pc)

LEMMA InputScriptRead ==
  ASSUME Typed, InputScript, Read
  PROVE  InputScript'
<1>1. /\ phase \in {"first", "second"} /\ Working
      /\ \/ op' = op /\ todo' = todo
         \/ \E result : /\ Take(Head(todo), result)
                        /\ result = NoResult \/ result \in Part
  <2>1. Len(pipe) \in Nat /\ \A j \in 1 .. Len(pipe) : pipe[j] \in Part
    BY LenProperties, ElementOfSeq DEF Typed
  <2>2. \A k \in 0 .. Len(pipe) : \A j \in 1 .. k : pipe[j] \in Part
    BY <2>1
  <2> QED BY <2>2, ReadIs DEF Working
<1>2. CASE op' = op /\ todo' = todo
  BY <1>1, <1>2 DEF InputScript
<1>3. ASSUME NEW result, Take(Head(todo), result), result = NoResult \/ result \in Part
      PROVE  InputScript'
  <2>1. todo \in Seq(Command) /\ todo # <<>>
    BY <1>1 DEF Typed
  <2>2. /\ Tail(todo) \in Seq(Command) /\ Len(Tail(todo)) = Len(todo) - 1 /\ Len(todo) \in Nat \ {0}
        /\ \A i \in 1 .. Len(todo) - 1 : Tail(todo)[i] = todo[i + 1]
        /\ Head(todo) = todo[1]
    <3>1. /\ Tail(todo) \in Seq(Command) /\ Len(Tail(todo)) = Len(todo) - 1
          /\ \A i \in 1 .. Len(Tail(todo)) : Tail(todo)[i] = todo[i + 1]
      BY <2>1, HeadTailProperties
    <3>2. Len(todo) \in Nat \ {0}
      BY <2>1, Parts
    <3> HIDE DEF Command
    <3> QED BY <2>1, <3>1, <3>2
  <2>3. CASE phase' = "crashed"
    BY <2>3 DEF InputScript, Working
  <2>4. ASSUME NEW o \in Data, Finish(o)
        PROVE  InputScript'
    BY <2>4, FinishIs DEF InputScript, Working
  <2>5. ASSUME NEW o \in Data, o.state = op.state, Head(todo).name \notin {"set", "print"} => o.var = op.var,
               Len(todo) # 1, todo' = Tail(todo), op' = o
        PROVE  InputScript'
    <3> SUFFICES ASSUME op.state = "RECV"
                 PROVE  /\ ~o.var
                        /\ \A i \in 1 .. Len(Tail(todo)) :
                             /\ Tail(todo)[i].name # "set"
                             /\ Tail(todo)[i].name = "print" => i = Len(Tail(todo))
      BY <2>5 DEF InputScript
    <3>1. /\ ~op.var
          /\ \A i \in 1 .. Len(todo) : todo[i].name # "set" /\ (todo[i].name = "print" => i = Len(todo))
      BY <1>1 DEF InputScript
    <3>2. 1 \in 1 .. Len(todo)
      BY <2>2
    <3>3. ~o.var
      BY <2>2, <2>5, <3>1, <3>2
    <3>4. \A i \in 1 .. Len(todo) - 1 : i + 1 \in 1 .. Len(todo) /\ (i + 1 = Len(todo) => i = Len(todo) - 1)
      <4>1. Len(todo) \in Nat
        BY <2>2
      <4> QED BY <4>1
    <3> QED BY <2>2, <3>1, <3>3, <3>4
  <2> QED BY <1>3, <2>3, <2>4, <2>5, TakeIs
<1> QED BY <1>1, <1>2, <1>3

LEMMA InputScriptKept == Typed /\ InputScript /\ [Next]_vars => InputScript'
<1> SUFFICES ASSUME Typed, InputScript, [Next]_vars PROVE InputScript'
  OBVIOUS
<1>1. ASSUME NEW l \in Labels, Send(l, "v")
      PROVE  InputScript'
  <2>1. op' = Op("SEND", l, "v")
    BY <1>1 DEF Send, Begin
  <2>2. op'.state # "RECV"
    BY <2>1 DEF Op
  <2> QED BY <2>2 DEF InputScript
<1>2. ASSUME NEW l \in Labels, Recv(l) \/ Visited(l)
      PROVE  InputScript'
  <2>1. op' = Op("RECV", l, Null) /\ todo' = mc_recv(l)
    BY <1>2 DEF Recv, Visited, Begin
  <2>2. ~op'.var
    BY <2>1 DEF Op
  <2>3. \A i \in 1 .. Len(mc_recv(l)) : /\ mc_recv(l)[i].name # "set"
                                        /\ mc_recv(l)[i].name = "print" => i = Len(mc_recv(l))
    <3> DEFINE a == <<Cmd("insert", l), Cmd("continue", Null)>>
               b == IF l \in NoVar THEN <<>> ELSE <<Cmd("print", l)>>
    <3>1. mc_recv(l) = a \o b
      BY DEF mc_recv
    <3>2. a \in Seq(Command) /\ b \in Seq(Command)
      <4>1. Cmd("insert", l) \in Command /\ Cmd("continue", Null) \in Command /\ Cmd("print", l) \in Command
        BY CmdTyped DEF Name, Arg
      <4> QED BY <4>1
    <3>3. Len(a) = 2 /\ a[1].name = "insert" /\ a[2].name = "continue"
      BY DEF Cmd
    <3>4. Len(b) \in {0, 1} /\ (Len(b) = 1 => b[1].name = "print")
      BY DEF Cmd
    <3> HIDE DEF a, b
    <3>5. /\ Len(a \o b) = 2 + Len(b)
          /\ \A i \in 1 .. 2 + Len(b) : (a \o b)[i] = IF i <= 2 THEN a[i] ELSE b[i - 2]
      <4>1. /\ Len(a \o b) = Len(a) + Len(b)
            /\ \A i \in 1 .. Len(a) + Len(b) : (a \o b)[i] = IF i <= Len(a) THEN a[i] ELSE b[i - Len(a)]
        BY <3>2, ConcatProperties
      <4>2. Len(a) = 2
        BY <3>3
      <4> QED BY <4>1, <4>2
    <3>6. ASSUME NEW i \in 1 .. Len(a \o b)
          PROVE  (a \o b)[i].name # "set" /\ ((a \o b)[i].name = "print" => i = Len(a \o b))
      <4>1. i \in {1, 2} \/ (i = 3 /\ Len(b) = 1)
        BY <3>4, <3>5
      <4>2. (a \o b)[i] = IF i <= 2 THEN a[i] ELSE b[i - 2]
        BY <3>5
      <4>3. CASE i \in {1, 2}
        BY <3>3, <4>2, <4>3
      <4>4. CASE i = 3 /\ Len(b) = 1
        BY <3>4, <3>5, <4>2, <4>4
      <4> QED BY <4>1, <4>3, <4>4
    <3> QED BY <3>1, <3>6
  <2> QED BY <2>1, <2>2, <2>3 DEF InputScript
<1>3. CASE Back
  <2>1. path # <<>> /\ op' = [Last(path) EXCEPT !.state = "BACK"]
    BY <1>3 DEF Back
  <2>2. Last(path) \in Data
    BY <2>1, Parts DEF Typed
  <2>3. op'.state # "RECV"
    BY <2>1, <2>2 DEF Data
  <2> QED BY <2>3 DEF InputScript
<1>4. CASE Read
  BY <1>4, InputScriptRead
<1>5. CASE Display \/ Leave \/ Issue \/ Serve \/ Stop \/ UNCHANGED vars
  <2>1. op' = op /\ todo' = todo /\ (Working' => Working)
    BY <1>5 DEF Display, Leave, Act, Issue, Crash, Serve, Stop, rccs, vars, Working
  <2> QED BY <2>1 DEF InputScript
<1> QED BY <1>1, <1>2, <1>3, <1>4, <1>5 DEF Next

(* Of the parts of an answer only its record can be a value.               *)
LEMMA ValueIs ==
  /\ ~IsValue(NoResult)
  /\ \A p \in Plain : ~IsValue(p)
  /\ \A v \in Nat : IsValue(Value(v)) /\ Value(v)[2] = v
<1>1. ASSUME NEW p \in Plain PROVE p[1] # "^done,value="
  <2>1. \E x \in {"start", "(gdb)", "blank", "newline", "^running", "^done", "^error,msg=",
                  "^done,bkpt=", "*stopped,reason="} : p = <<x>>
    BY DEF Plain, Start, Gdb, Blank, Nl, Running, Done, Wrong, Bkpt, Stopped
  <2>2. \A x : <<x>>[1] = x
    OBVIOUS
  <2> QED BY <2>1, <2>2
<1>2. NoResult[1] # "^done,value="
  BY DEF NoResult
<1>3. \A v \in Nat : Value(v)[1] = "^done,value=" /\ Value(v)[2] = v
  BY DEF Value
<1> QED BY <1>1, <1>2, <1>3 DEF IsValue

LEMMA ValuesAnswered ==
  ASSUME NEW s \in Seq(Part), NEW p \in Part
  PROVE  /\ ValuesIn(s \o Answer(p)) =
              ValuesIn(s) \cup IF IsValue(p) THEN {Len(s) + 2} ELSE {}
         /\ (s \o Answer(p))[Len(s) + 2] = p
         /\ \A i \in 1 .. Len(s) : (s \o Answer(p))[i] = s[i]
<1> DEFINE a == Answer(p)
           t == s \o a
           n == Len(s)
<1>1. /\ a \in Seq(Part) /\ Len(a) = 6
      /\ a[1] = Start /\ a[2] = p /\ a[3] = Nl /\ a[4] = Gdb /\ a[5] = Blank /\ a[6] = Nl
  BY AnswerTyped
<1> HIDE DEF a
<1>2. /\ Len(t) = n + Len(a)
      /\ \A i \in 1 .. n + Len(a) : t[i] = IF i <= n THEN s[i] ELSE a[i - n]
  BY <1>1, ConcatProperties
<1>3. n \in Nat
  BY LenProperties
<1> HIDE DEF t, n
<1>4. Len(t) = n + 6 /\ \A i \in 1 .. n : t[i] = s[i]
  BY <1>1, <1>2, <1>3
<1>5. \A j \in 1 .. 6 : t[n + j] = a[j]
  <2> SUFFICES ASSUME NEW j \in 1 .. 6 PROVE t[n + j] = a[j]
    OBVIOUS
  <2>1. n + j \in 1 .. n + Len(a) /\ ~(n + j <= n) /\ (n + j) - n = j
    BY <1>1, <1>3
  <2> QED BY <1>2, <2>1
<1>6. ~IsValue(Start) /\ ~IsValue(Nl) /\ ~IsValue(Gdb) /\ ~IsValue(Blank)
  BY ValueIs DEF Plain
<1>7. \A j \in 1 .. 6 : IsValue(a[j]) <=> j = 2 /\ IsValue(p)
  <2> SUFFICES ASSUME NEW j \in 1 .. 6 PROVE IsValue(a[j]) <=> j = 2 /\ IsValue(p)
    OBVIOUS
  <2>1. j \in {1, 2, 3, 4, 5, 6}
    OBVIOUS
  <2> QED BY <1>1, <1>6, <2>1
<1>8. ASSUME NEW i
      PROVE  i \in ValuesIn(t) <=> i \in ValuesIn(s) \/ (i = n + 2 /\ IsValue(p))
  <2>1. CASE i \in 1 .. n
    <3>1. i \in 1 .. Len(t) /\ i # n + 2
      BY <1>3, <1>4, <2>1
    <3> QED BY <1>4, <2>1, <3>1 DEF ValuesIn, n
  <2>2. CASE i \in n + 1 .. n + 6
    <3>1. i - n \in 1 .. 6 /\ i = n + (i - n) /\ i \notin 1 .. n /\ i \in 1 .. Len(t)
      BY <1>3, <1>4, <2>2
    <3>2. IsValue(t[i]) <=> i - n = 2 /\ IsValue(p)
      BY <1>5, <1>7, <3>1
    <3>3. i - n = 2 <=> i = n + 2
      BY <1>3, <2>2
    <3> QED BY <3>1, <3>2, <3>3 DEF ValuesIn, n
  <2>3. CASE i \notin 1 .. n + 6
    <3>1. i \notin 1 .. n /\ i \notin 1 .. Len(t) /\ i # n + 2
      BY <1>3, <1>4, <2>3
    <3> QED BY <3>1 DEF ValuesIn, n
  <2>4. i \in 1 .. n \/ i \in n + 1 .. n + 6 \/ i \notin 1 .. n + 6
    BY <1>3
  <2> QED BY <2>1, <2>2, <2>3, <2>4
<1>9. t[n + 2] = p
  BY <1>1, <1>5
<1>10. ValuesIn(t) = ValuesIn(s) \cup IF IsValue(p) THEN {n + 2} ELSE {}
  BY <1>8
<1> QED BY <1>4, <1>9, <1>10 DEF t, a, n

LEMMA ValuesRead ==
  ASSUME NEW s \in Seq(Part), NEW k \in 0 .. Len(s)
  PROVE  \A i \in ValuesIn(SubSeq(s, k + 1, Len(s))) :
           k + i \in ValuesIn(s) /\ i > 0 /\ SubSeq(s, k + 1, Len(s))[i] = s[k + i]
<1> DEFINE t == SubSeq(s, k + 1, Len(s))
<1>1. Len(t) = Len(s) - k /\ \A i \in 1 .. Len(s) - k : t[i] = s[k + i]
  BY Suffix
<1>2. Len(s) \in Nat
  BY LenProperties
<1> HIDE DEF t
<1>3. ASSUME NEW i \in ValuesIn(t)
      PROVE  k + i \in ValuesIn(s) /\ i > 0 /\ t[i] = s[k + i]
  <2>1. i \in 1 .. Len(s) - k /\ IsValue(t[i])
    BY <1>1 DEF ValuesIn
  <2>2. k + i \in 1 .. Len(s) /\ i > 0
    BY <1>2, <2>1
  <2> QED BY <1>1, <2>1, <2>2 DEF ValuesIn
<1> QED BY <1>3 DEF t

LEMMA PrintsIssued ==
  ASSUME NEW c \in Seq(Command), NEW cmd \in Command
  PROVE  /\ PrintsIn(Append(c, cmd)) =
              PrintsIn(c) \cup IF cmd.name = "print" THEN {Len(c) + 1} ELSE {}
         /\ Len(Append(c, cmd)) = Len(c) + 1
<1> DEFINE t == Append(c, cmd)
           n == Len(c)
<1>1. /\ n \in Nat /\ Len(t) = n + 1 /\ t[n + 1] = cmd
      /\ \A i \in 1 .. n : t[i] = c[i]
  BY AppendProperties, LenProperties
<1> HIDE DEF t, n
<1>2. \A i : i \in 1 .. n + 1 <=> i \in 1 .. n \/ i = n + 1
  BY <1>1
<1>3. n + 1 \notin 1 .. n
  BY <1>1
<1>4. ASSUME NEW i
      PROVE  i \in PrintsIn(t) <=> i \in PrintsIn(c) \/ (i = n + 1 /\ cmd.name = "print")
  BY <1>1, <1>2, <1>3 DEF PrintsIn, n
<1> QED BY <1>1, <1>4 DEF t, n

LEMMA PrintsServed ==
  ASSUME NEW c \in Seq(Command), c # <<>>
  PROVE  /\ Len(c) \in Nat \ {0} /\ Len(Tail(c)) = Len(c) - 1
         /\ Head(c).name = "print" <=> 1 \in PrintsIn(c)
         /\ \A i : i \in PrintsIn(Tail(c)) <=> i \in 1 .. Len(c) - 1 /\ i + 1 \in PrintsIn(c)
<1> DEFINE t == Tail(c)
           n == Len(c)
<1>1. n \in Nat \ {0}
  BY Parts
<1>2. Len(t) = n - 1 /\ Head(c) = c[1] /\ \A i \in 1 .. Len(t) : t[i] = c[i + 1]
  BY HeadTailProperties
<1> HIDE DEF t, n
<1>3. 1 \in 1 .. n /\ \A i \in 1 .. n - 1 : i + 1 \in 1 .. n
  BY <1>1
<1> QED BY <1>1, <1>2, <1>3 DEF PrintsIn, t, n

(* What a step of the reader does while a value may be about.              *)
LEMMA OneValueRead ==
  ASSUME Typed, OneValue, Read
  PROVE  OneValue'
<1>1. PICK k \in 0 .. Len(pipe) :
        /\ pipe' = SubSeq(pipe, k + 1, Len(pipe))
        /\ \/ op' = op /\ todo' = todo /\ phase' = phase /\ history' = history
           \/ /\ phase = "first" /\ Exec(Head(todo)) /\ phase' = "second"
              /\ op' = op /\ todo' = todo /\ history' = history
           \/ /\ ~(phase = "first" /\ Exec(Head(todo)))
              /\ \E result : /\ Take(Head(todo), result)
                             /\ result = NoResult \/ \E j \in 1 .. k : result = pipe[j]
  BY ReadIs
<1>2. phase \in {"first", "second"} /\ commands' = commands /\ gdb' = gdb
  BY ReadIs
<1>3. pipe \in Seq(Part) /\ Len(pipe) \in Nat /\ \A j \in 1 .. Len(pipe) : pipe[j] \in Part
  BY LenProperties, ElementOfSeq DEF Typed
<1>4. \A i \in Values' : k + i \in Values /\ i > 0 /\ pipe'[i] = pipe[k + i]
  BY <1>1, <1>3, ValuesRead DEF Values
<1>5. Prints' = Prints
  BY <1>2 DEF Prints
<1>6. /\ ~Printing => Values = {} /\ Prints = {}
      /\ Printing => \/ Values = {} /\ Prints = {Len(commands)}
                     \/ /\ commands = <<>> /\ (Values = {} \/ ~gdb.busy)
                        /\ \A i, j \in Values : i = j
                        /\ \A i \in Values : pipe[i] = Value(gdb.pc)
  BY <1>2 DEF OneValue
<1>7. Values = {} => Values' = {}
  BY <1>4
<1>8. CASE todo' = todo /\ phase' = phase
  <2>1. Printing' = Printing
    BY <1>8 DEF Printing
  <2>2. CASE Values = {}
    BY <1>2, <1>5, <1>6, <1>7, <2>1, <2>2 DEF OneValue
  <2>3. CASE Values # {}
    <3>1. /\ Printing /\ commands = <<>> /\ ~gdb.busy
          /\ \A i, j \in Values : i = j
          /\ \A i \in Values : pipe[i] = Value(gdb.pc)
      BY <1>6, <2>3
    <3>2. \A i \in Values' : i \in Nat
      BY DEF Values, ValuesIn
    <3>3. \A i, j \in Values' : i = j
      <4> SUFFICES ASSUME NEW i \in Values', NEW j \in Values' PROVE i = j
        OBVIOUS
      <4>1. k + i = k + j
        BY <1>4, <3>1
      <4> QED BY <3>2, <4>1
    <3>4. \A i \in Values' : pipe'[i] = Value(gdb'.pc)
      BY <1>2, <1>4, <3>1
    <3>5. commands' = <<>> /\ ~gdb'.busy
      BY <1>2, <3>1
    <3> QED BY <2>1, <3>1, <3>3, <3>4, <3>5 DEF OneValue
  <2> QED BY <2>2, <2>3
<1>9. CASE phase = "first" /\ Exec(Head(todo)) /\ phase' = "second"
  <2>1. ~Printing /\ ~Printing'
    BY <1>9 DEF Printing, Exec
  <2> QED BY <1>5, <1>6, <1>7, <2>1 DEF OneValue
<1>10. ASSUME ~(phase = "first" /\ Exec(Head(todo))),
              NEW result, Take(Head(todo), result),
              result = NoResult \/ \E j \in 1 .. k : result = pipe[j]
       PROVE  OneValue'
  <2>1. \A j \in 1 .. k : j \in 1 .. Len(pipe)
    BY <1>3
  <2>2. result = NoResult \/ result \in Part
    BY <1>3, <1>10, <2>1
  <2>3. \/ phase' = "crashed"
        \/ /\ phase' \in {"idle", "issue"}
           /\ Head(todo).name = "print" => IsValue(result)
    BY <1>10, <2>2, TakeIs DEF Finish
  <2>4. ~Printing'
    BY <2>3 DEF Printing
  <2>5. CASE phase' = "crashed"
    BY <2>4, <2>5 DEF OneValue
  <2>6. CASE phase' # "crashed" /\ ~Printing
    BY <1>5, <1>6, <1>7, <2>4, <2>6 DEF OneValue
  <2>7. CASE phase' # "crashed" /\ Printing
    <3>1. IsValue(result)
      BY <2>3, <2>7 DEF Printing
    <3>2. PICK j \in 1 .. k : result = pipe[j]
      BY <1>10, <3>1, ValueIs
    <3>3. j \in Values
      BY <2>1, <3>1, <3>2 DEF Values, ValuesIn
    <3>4. commands = <<>> /\ \A i \in Values : i = j
      BY <1>6, <2>7, <3>3
    <3>5. Prints' = {}
      BY <1>5, <3>4 DEF Prints, PrintsIn
    <3>6. Values' = {}
      <4> SUFFICES ASSUME NEW i \in Values' PROVE FALSE
        OBVIOUS
      <4>1. i \in Nat /\ i > 0 /\ k + i = j
        BY <1>4, <3>4 DEF Values, ValuesIn
      <4> QED BY <4>1
    <3> QED BY <2>4, <3>5, <3>6 DEF OneValue
  <2> QED BY <2>5, <2>6, <2>7
<1> QED BY <1>1, <1>8, <1>9, <1>10

LEMMA OneValueServe ==
  ASSUME Typed, OneValue, Serve
  PROVE  OneValue'
<1>1. /\ commands' = Tail(commands) /\ pipe' = pipe \o Answer(Reply(Head(commands)))
      /\ gdb' = Served(Head(commands)) /\ commands # <<>> /\ ~gdb.busy
      /\ todo' = todo /\ phase' = phase
  BY DEF Serve, rccs
<1>2. pipe \in Seq(Part) /\ commands \in Seq(Command) /\ Head(commands) \in Command /\ gdb.pc \in Nat
  BY <1>1, HeadTailProperties DEF Typed, Debuggee
<1> DEFINE c == Head(commands)
           r == Reply(c)
           n == Len(commands)
<1>3. /\ r \in Part
      /\ r \in {Bkpt, Wrong, Done, Running} \/ (c.name = "print" /\ r = Value(gdb.pc))
      /\ c.name = "print" => Served(c) = gdb
  BY <1>2, ReplyTyped
<1>4. IsValue(r) => c.name = "print" /\ r = Value(gdb.pc)
  <2>1. ~IsValue(Bkpt) /\ ~IsValue(Wrong) /\ ~IsValue(Done) /\ ~IsValue(Running)
    BY ValueIs DEF Plain
  <2> QED BY <1>3, <2>1
<1>5. /\ Values' = Values \cup IF IsValue(r) THEN {Len(pipe) + 2} ELSE {}
      /\ pipe'[Len(pipe) + 2] = r
  <2> HIDE DEF r
  <2>1. /\ ValuesIn(pipe \o Answer(r)) = ValuesIn(pipe) \cup IF IsValue(r) THEN {Len(pipe) + 2} ELSE {}
        /\ (pipe \o Answer(r))[Len(pipe) + 2] = r
    BY <1>2, <1>3, ValuesAnswered
  <2>2. pipe' = pipe \o Answer(r)
    BY <1>1 DEF r
  <2> QED BY <2>1, <2>2 DEF Values
<1>6. /\ n \in Nat \ {0} /\ Len(commands') = n - 1
      /\ c.name = "print" <=> 1 \in Prints
      /\ \A i : i \in Prints' <=> i \in 1 .. n - 1 /\ i + 1 \in Prints
  BY <1>1, <1>2, PrintsServed DEF Prints
<1>7. Printing' = Printing
  BY <1>1 DEF Printing
<1> HIDE DEF c, r, n
<1>8. CASE phase = "crashed"
  BY <1>1, <1>8 DEF OneValue, Printing
<1>9. CASE phase # "crashed" /\ ~Printing
  <2>1. Values = {} /\ Prints = {}
    BY <1>9 DEF OneValue
  <2>2. Values' = {} /\ Prints' = {}
    BY <1>4, <1>5, <1>6, <2>1
  <2> QED BY <1>7, <1>9, <2>2 DEF OneValue
<1>10. CASE Printing
  <2>1. Values = {} /\ Prints = {n}
    BY <1>1, <1>10 DEF OneValue, n
  <2>2. CASE n = 1
    <3>1. commands' = <<>> /\ c.name = "print"
      <4>1. Len(commands') = 0 /\ commands' \in Seq(Command)
        BY <1>1, <1>2, <1>6, <2>2, HeadTailProperties
      <4>2. commands' = <<>>
        BY <4>1, EmptySeq
      <4> QED BY <1>6, <2>1, <2>2, <4>2
    <3>2. gdb' = gdb
      BY <1>1, <1>3, <3>1 DEF c
    <3>3. \A i \in Values' : i = Len(pipe) + 2 /\ pipe'[i] = Value(gdb.pc)
      BY <1>4, <1>5, <2>1
    <3>4. ~gdb'.busy
      BY <1>1, <3>2
    <3> QED BY <1>7, <1>10, <3>1, <3>2, <3>3, <3>4 DEF OneValue
  <2>3. CASE n # 1
    <3>1. c.name # "print"
      BY <1>6, <2>1, <2>3
    <3>2. Values' = {}
      BY <1>4, <1>5, <2>1, <3>1
    <3>3. \A i : i \in Prints' <=> i = n - 1
      <4>1. n - 1 \in 1 .. n - 1
        BY <1>6, <2>3
      <4> QED BY <1>6, <2>1, <4>1
    <3>4. Prints' = {Len(commands')}
      BY <1>6, <3>3
    <3> QED BY <1>7, <1>10, <3>2, <3>4 DEF OneValue
  <2> QED BY <2>2, <2>3
<1> QED BY <1>8, <1>9, <1>10

LEMMA OneValueStop ==
  ASSUME Typed, OneValue, Stop
  PROVE  OneValue'
<1>1. /\ ~gdb'.busy /\ gdb.busy /\ pipe' = pipe \o Answer(Stopped)
      /\ todo' = todo /\ phase' = phase /\ commands' = commands
  BY StopIs
<1>2. Values' = Values
  <2>1. Stopped \in Part /\ ~IsValue(Stopped)
    BY ValueIs DEF Plain, Part
  <2>2. pipe \in Seq(Part)
    BY DEF Typed
  <2>3. ValuesIn(pipe \o Answer(Stopped)) = ValuesIn(pipe)
    BY <2>1, <2>2, ValuesAnswered
  <2> QED BY <1>1, <2>3 DEF Values
<1>3. Prints' = Prints /\ Printing' = Printing
  BY <1>1 DEF Prints, Printing
<1>4. CASE phase = "crashed"
  BY <1>1, <1>4 DEF OneValue, Printing
<1>5. CASE phase # "crashed"
  <2>1. Values = {}
    BY <1>1, <1>5 DEF OneValue
  <2> QED BY <1>1, <1>2, <1>3, <2>1 DEF OneValue
<1> QED BY <1>4, <1>5

LEMMA OneValueIssue ==
  ASSUME Typed, OneValue, Issue
  PROVE  OneValue'
<1>1. /\ phase = "issue" /\ pipe' = pipe /\ todo' = todo /\ gdb' = gdb
      /\ \/ phase' = "crashed"
         \/ phase' = "first" /\ commands' = Append(commands, Head(todo))
  BY DEF Issue, Crash
<1>2. Values = {} /\ Prints = {} /\ Values' = {}
  BY <1>1 DEF OneValue, Printing, Values
<1>3. CASE phase' = "crashed"
  BY <1>3 DEF OneValue, Printing
<1>4. CASE phase' = "first" /\ commands' = Append(commands, Head(todo))
  <2>1. Head(todo) \in Command /\ commands \in Seq(Command)
    BY <1>1, HeadTailProperties DEF Typed, Working
  <2>2. /\ Prints' = Prints \cup IF Head(todo).name = "print" THEN {Len(commands) + 1} ELSE {}
        /\ Len(commands') = Len(commands) + 1
    BY <1>4, <2>1, PrintsIssued DEF Prints
  <2>3. Printing' <=> Head(todo).name = "print"
    BY <1>1, <1>4 DEF Printing
  <2> QED BY <1>2, <1>4, <2>2, <2>3 DEF OneValue
<1> QED BY <1>1, <1>3, <1>4

LEMMA OneValueKept == Typed /\ OneValue /\ [Next]_vars => OneValue'
<1> SUFFICES ASSUME Typed, OneValue, [Next]_vars PROVE OneValue'
  OBVIOUS
<1>1. CASE phase = "idle" /\ phase' \in {"issue", "idle"} /\ commands' = commands /\ pipe' = pipe /\ gdb' = gdb
  <2>1. Values = {} /\ Prints = {} /\ Values' = Values /\ Prints' = Prints
    BY <1>1 DEF OneValue, Printing, Values, Prints
  <2> QED BY <1>1, <2>1 DEF OneValue, Printing
<1>2. CASE (\E l \in Labels : Send(l, "v") \/ Recv(l) \/ Visited(l)) \/ Display \/ Leave \/ Back
  BY <1>1, <1>2 DEF Send, Recv, Visited, Display, Leave, Back, Act, Begin
<1>3. CASE UNCHANGED vars
  <2>1. phase' = phase /\ commands' = commands /\ pipe' = pipe /\ gdb' = gdb /\ todo' = todo
    BY <1>3 DEF vars
  <2>2. Printing' = Printing /\ Values' = Values /\ Prints' = Prints
    BY <2>1 DEF Printing, Values, Prints
  <2> QED BY <2>1, <2>2 DEF OneValue
<1> QED BY <1>2, <1>3, OneValueIssue, OneValueRead, OneValueServe, OneValueStop DEF Next

LEMMA ValuesAtFirst == Init => InputScript /\ OneValue
<1> SUFFICES ASSUME Init PROVE InputScript /\ OneValue
  OBVIOUS
<1>1. Values = {} /\ Prints = {}
  BY DEF Init, Values, Prints, ValuesIn, PrintsIn
<1>2. op.state = "INIT" /\ phase = "issue"
  BY DEF Init
<1> QED BY <1>1, <1>2 DEF InputScript, OneValue, Printing

(* An input that ends with its variable set took the value in the answer   *)
(* to its own `print', at the line where the program stands: answers may   *)
(* be cut up, lost and misread, but none that was left over from an        *)
(* earlier command carries a value.                                        *)
THEOREM InputsAreFresh == Spec => NoStaleValue
<1>1. ASSUME Typed, InputScript, OneValue, Next, history' # history,
             op'.state = "RECV", op'.var, phase' = "idle"
      PROVE  Last(history').value = gdb.pc
  <2>1. CASE Back
    <3>1. path # <<>> /\ op' = [Last(path) EXCEPT !.state = "BACK"]
      BY <2>1 DEF Back
    <3>2. Last(path) \in Data
      BY <1>1, <3>1, Parts DEF Typed
    <3>3. op'.state = "BACK"
      BY <3>1, <3>2 DEF Data
    <3> QED BY <1>1, <3>3
  <2>2. CASE Read
    <3>1. PICK k \in 0 .. Len(pipe) :
            \/ history' = history
            \/ \E result : /\ Take(Head(todo), result)
                           /\ result = NoResult \/ \E j \in 1 .. k : result = pipe[j]
      BY <1>1, <2>2, ReadIs
    <3>2. PICK result : /\ Take(Head(todo), result)
                        /\ result = NoResult \/ \E j \in 1 .. k : result = pipe[j]
      BY <1>1, <3>1
    <3>3. /\ pipe \in Seq(Part) /\ Len(pipe) \in Nat
          /\ \A j \in 1 .. k : j \in 1 .. Len(pipe) /\ pipe[j] \in Part
      <4>1. pipe \in Seq(Part) /\ Len(pipe) \in Nat
        BY <1>1, LenProperties DEF Typed
      <4>2. \A j \in 1 .. k : j \in 1 .. Len(pipe)
        BY <4>1
      <4> QED BY <4>1, <4>2, ElementOfSeq
    <3>4. PICK o \in Data :
            /\ Head(todo).name = "print" => IsValue(result)
            /\ o.state = op.state
            /\ Head(todo).name \notin {"set", "print"} => o.var = op.var
            /\ Head(todo).name = "print" => o.value = result[2]
            /\ Finish(o)
      <4>1. result = NoResult \/ result \in Part
        BY <3>2, <3>3
      <4> QED BY <1>1, <3>2, <4>1, TakeIs
    <3>5. op' = o /\ history' = Append(history, o) /\ op.state = "RECV" /\ o.var
      BY <1>1, <3>4, FinishIs
    <3>6. phase \in {"first", "second"} /\ Working
      BY <1>1, <2>2, ReadIs DEF Working
    <3>7. Head(todo).name = "print"
      <4>1. todo \in Seq(Command) /\ todo # <<>>
        BY <1>1, <3>6 DEF Typed
      <4>2. Len(todo) \in Nat \ {0} /\ Head(todo) = todo[1]
        BY <4>1, Parts
      <4>3. 1 \in 1 .. Len(todo)
        BY <4>2
      <4>4. ~op.var /\ Head(todo).name # "set"
        BY <1>1, <3>5, <3>6, <4>2, <4>3 DEF InputScript
      <4> QED BY <3>4, <3>5, <4>4
    <3>8. PICK j \in 1 .. k : result = pipe[j] /\ j \in Values
      BY <3>2, <3>3, <3>4, <3>7, ValueIs DEF Values, ValuesIn
    <3>9. result = Value(gdb.pc)
      BY <1>1, <3>6, <3>8 DEF OneValue
    <3>10. o.value = gdb.pc
      <4>1. gdb.pc \in Nat
        BY <1>1 DEF Typed, Debuggee
      <4> QED BY <3>4, <3>7, <3>9, <4>1, ValueIs
    <3>11. Last(history') = o
      <4>1. history \in Seq(Data)
        BY <1>1 DEF Typed
      <4>2. Len(Append(history, o)) = Len(history) + 1 /\ Append(history, o)[Len(history) + 1] = o
        BY <4>1, AppendProperties
      <4> QED BY <3>5, <4>2 DEF Last
    <3> QED BY <3>10, <3>11
  <2>3. CASE ~Back /\ ~Read
    <3>1. history' = history
      BY <1>1, <2>3 DEF Next, Send, Recv, Visited, Display, Leave, Act, Issue, Crash, Serve, Stop, rccs
    <3> QED BY <1>1, <3>1
  <2> QED BY <2>1, <2>2, <2>3
<1>2. Typed /\ InputScript /\ OneValue /\ [Next]_vars
        => [history' # history /\ op'.state = "RECV" /\ op'.var /\ phase' = "idle"
              => Last(history').value = gdb.pc]_vars
  BY <1>1 DEF vars
<1> QED BY <1>2, TypedAtFirst, TypedKept, ValuesAtFirst, InputScriptKept, OneValueKept, PTL DEF Spec, NoStaleValue

-----------------------------------------------------------------------------
(* When whole answers are readable the reader takes one answer at a time:  *)
(* the end that it recognises and what it throws away behind it make up    *)
(* exactly the six parts of an answer.                                     *)
Record == {Done, Bkpt, Wrong, Stopped} \cup {Value(v) : v \in Nat}

LEMMA PartsDiffer ==
  /\ Start # Gdb /\ Start # Blank /\ Start # Nl /\ Gdb # Blank /\ Gdb # Nl /\ Blank # Nl
  /\ \A r \in Record \cup {Running} : r # Start /\ r # Gdb /\ r # Blank /\ r # Nl /\ r \in Part
  /\ \A r \in Record : r # Running /\ r # Exit
  /\ Running # Exit
<1>1. /\ Start[1] = "start" /\ Gdb[1] = "(gdb)" /\ Blank[1] = "blank" /\ Nl[1] = "newline"
      /\ Running[1] = "^running" /\ Exit[1] = "^exit"
  BY DEF Start, Gdb, Blank, Nl, Running, Exit
<1>2. \A r \in Record : r[1] \in {"^done", "^done,bkpt=", "^error,msg=", "*stopped,reason=", "^done,value="}
  <2>1. /\ Done[1] = "^done" /\ Bkpt[1] = "^done,bkpt=" /\ Wrong[1] = "^error,msg="
        /\ Stopped[1] = "*stopped,reason="
    BY DEF Done, Bkpt, Wrong, Stopped
  <2>2. \A v \in Nat : Value(v)[1] = "^done,value="
    BY DEF Value
  <2> QED BY <2>1, <2>2 DEF Record
<1>3. \A r \in Record \cup {Running} : r \in Part
  BY DEF Record, Part, Plain
<1> QED BY <1>1, <1>2, <1>3

LEMMA PairIs ==
  ASSUME NEW text \in Seq(Part), NEW i \in 2 .. Len(text), NEW p \in Part, NEW q \in Part
  PROVE  SubSeq(text, i - 1, i) = <<p, q>> <=> text[i - 1] = p /\ text[i] = q
<1> DEFINE s == SubSeq(text, i - 1, i)
<1>1. Len(text) \in Nat /\ \A j \in 1 .. Len(text) : text[j] \in Part
  BY LenProperties, ElementOfSeq
<1>2. i - 1 \in Int /\ i \in Int /\ i - 1 <= i /\ \A j \in i - 1 .. i : j \in 1 .. Len(text)
  BY <1>1
<1>3. /\ s \in Seq(Part) /\ Len(s) = IF i - 1 <= i THEN i - (i - 1) + 1 ELSE 0
      /\ \A j \in 1 .. i - (i - 1) + 1 : s[j] = text[i - 1 + j - 1]
  BY <1>1, <1>2, SubSeqProperties
<1> HIDE DEF s
<1>4. i - (i - 1) + 1 = 2 /\ i - 1 + 1 - 1 = i - 1 /\ i - 1 + 2 - 1 = i
  BY <1>2
<1>5. Len(s) = 2 /\ s[1] = text[i - 1] /\ s[2] = text[i]
  <2>1. \A j \in 1 .. 2 : s[j] = text[i - 1 + j - 1]
    BY <1>3, <1>4
  <2> QED BY <1>2, <1>3, <1>4, <2>1
<1>6. /\ <<p, q>> \in Seq(Part) /\ Len(<<p, q>>) = 2 /\ <<p, q>>[1] = p /\ <<p, q>>[2] = q
  OBVIOUS
<1>7. ASSUME s[1] = p, s[2] = q
      PROVE  s = <<p, q>>
  <2> DEFINE t == <<p, q>>
  <2>1. t \in Seq(Part) /\ Len(t) = 2 /\ t[1] = p /\ t[2] = q
    BY <1>6
  <2> HIDE DEF t
  <2>2. \A j \in 1 .. Len(s) : s[j] = t[j]
    <3>1. \A j \in 1 .. 2 : j = 1 \/ j = 2
      OBVIOUS
    <3> QED BY <1>5, <1>7, <2>1, <3>1
  <2>3. s = t
    BY <1>3, <1>5, <2>1, <2>2, SeqEqual
  <2> QED BY <2>3 DEF t
<1> QED BY <1>5, <1>6, <1>7 DEF s

LEMMA TripleIs ==
  ASSUME NEW text \in Seq(Part), NEW i \in 3 .. Len(text), NEW p, NEW q, NEW r
  PROVE  /\ SubSeq(text, i - 2, i) = <<p, q, r>>
              => text[i - 2] = p /\ text[i - 1] = q /\ text[i] = r
         /\ text[i - 2] = p /\ text[i - 1] = q /\ text[i] = r
              => SubSeq(text, i - 2, i) = <<p, q, r>>
<1> DEFINE s == SubSeq(text, i - 2, i)
<1>1. Len(text) \in Nat /\ \A j \in 1 .. Len(text) : text[j] \in Part
  BY LenProperties, ElementOfSeq
<1>2. i - 2 \in Int /\ i \in Int /\ i - 2 <= i /\ \A j \in i - 2 .. i : j \in 1 .. Len(text)
  BY <1>1
<1>3. /\ s \in Seq(Part) /\ Len(s) = IF i - 2 <= i THEN i - (i - 2) + 1 ELSE 0
      /\ \A j \in 1 .. i - (i - 2) + 1 : s[j] = text[i - 2 + j - 1]
  BY <1>1, <1>2, SubSeqProperties
<1> HIDE DEF s
<1>4. i - (i - 2) + 1 = 3 /\ i - 2 + 1 - 1 = i - 2 /\ i - 2 + 2 - 1 = i - 1 /\ i - 2 + 3 - 1 = i
  BY <1>2
<1>5. Len(s) = 3 /\ s[1] = text[i - 2] /\ s[2] = text[i - 1] /\ s[3] = text[i]
  <2>1. \A j \in 1 .. 3 : s[j] = text[i - 2 + j - 1]
    BY <1>3, <1>4
  <2> QED BY <1>2, <1>3, <1>4, <2>1
<1>6. Len(<<p, q, r>>) = 3 /\ <<p, q, r>>[1] = p /\ <<p, q, r>>[2] = q /\ <<p, q, r>>[3] = r
  OBVIOUS
<1>7. ASSUME s[1] = p, s[2] = q, s[3] = r
      PROVE  s = <<p, q, r>>
  <2> DEFINE t == <<p, q, r>>
  <2>1. p \in Part /\ q \in Part /\ r \in Part
    <3>1. i - 2 \in i - 2 .. i /\ i - 1 \in i - 2 .. i /\ i \in i - 2 .. i
      BY <1>2
    <3> QED BY <1>1, <1>2, <1>5, <1>7, <3>1
  <2>2. t \in Seq(Part) /\ Len(t) = 3 /\ t[1] = p /\ t[2] = q /\ t[3] = r
    BY <2>1
  <2> HIDE DEF t
  <2>3. \A j \in 1 .. Len(s) : s[j] = t[j]
    <3>1. \A j \in 1 .. 3 : j = 1 \/ j = 2 \/ j = 3
      OBVIOUS
    <3> QED BY <1>5, <1>7, <2>2, <3>1
  <2>4. s = t
    BY <1>3, <1>5, <2>2, <2>3, SeqEqual
  <2> QED BY <2>4 DEF t
<1> QED BY <1>5, <1>6, <1>7 DEF s

LEMMA EndIs ==
  ASSUME NEW text \in Seq(Part), NEW i \in 1 .. Len(text)
  PROVE  EndOfResponse(text, i) <=>
           \/ i > 1 /\ text[i - 1] = Gdb /\ text[i] = Blank
           \/ i > 2 /\ text[i - 2] = Start /\ text[i - 1] \in {Running, Exit} /\ text[i] = Nl
<1>1. Len(text) \in Nat
  BY LenProperties
<1>2. i > 1 => i \in 2 .. Len(text)
  BY <1>1
<1>3. i > 2 => i \in 3 .. Len(text)
  BY <1>1
<1>4. Gdb \in Part /\ Blank \in Part
  BY DEF Part, Plain
<1>5. i > 1 => (SubSeq(text, i - 1, i) = <<Gdb, Blank>> <=> text[i - 1] = Gdb /\ text[i] = Blank)
  BY <1>2, <1>4, PairIs
<1>6. ASSUME i > 2, NEW x
      PROVE  SubSeq(text, i - 2, i) = <<Start, x, Nl>>
               <=> text[i - 2] = Start /\ text[i - 1] = x /\ text[i] = Nl
  BY <1>3, <1>6, TripleIs
<1>7. ASSUME i > 2
      PROVE  SubSeq(text, i - 2, i) \in {<<Start, Running, Nl>>, <<Start, Exit, Nl>>}
               <=> text[i - 2] = Start /\ text[i - 1] \in {Running, Exit} /\ text[i] = Nl
  <2>1. /\ SubSeq(text, i - 2, i) = <<Start, Running, Nl>>
             <=> text[i - 2] = Start /\ text[i - 1] = Running /\ text[i] = Nl
        /\ SubSeq(text, i - 2, i) = <<Start, Exit, Nl>>
             <=> text[i - 2] = Start /\ text[i - 1] = Exit /\ text[i] = Nl
    BY <1>6, <1>7
  <2> QED BY <2>1
<1> QED BY <1>5, <1>7 DEF EndOfResponse

(* What is thrown away ends where the next part would not fit.             *)
LEMMA SizeGrows ==
  ASSUME NEW text, Len(text) \in Nat, NEW f, Size(text, f), NEW m \in 0 .. Len(text)
  PROVE  \A n \in m .. Len(text) : f[n] \in Nat /\ f[m] <= f[n]
<1> DEFINE N == Len(text)
           G == {n \in Nat : n <= N => f[n] \in Nat}
           H == {d \in Nat : m + d <= N => f[m] <= f[m + d]}
<1>1. /\ f[0] = 0
      /\ \A n \in 1 .. N : n - 1 \in 0 .. N /\ f[n] = f[n - 1] + Width(text[n])
  BY DEF Size
<1>2. ASSUME NEW n \in Nat, n + 1 <= N
      PROVE  f[n + 1] = f[n] + Width(text[n + 1])
  <2>1. n + 1 \in 1 .. N /\ (n + 1) - 1 = n
    BY <1>2
  <2> QED BY <1>1, <2>1
<1> HIDE DEF N
<1>3. Nat \subseteq G
  <2>1. 0 \in G
    BY <1>1
  <2>2. ASSUME NEW n \in Nat, n \in G
        PROVE  n + 1 \in G
    BY <1>2, <2>2, WidthTyped DEF N
  <2> HIDE DEF G
  <2> QED BY <2>1, <2>2, NatSetInduction
<1>4. Nat \subseteq H
  <2>1. 0 \in H
    BY <1>3
  <2>2. ASSUME NEW d \in Nat, d \in H
        PROVE  d + 1 \in H
    <3> SUFFICES ASSUME m + (d + 1) <= N PROVE f[m] <= f[m + (d + 1)]
      OBVIOUS
    <3>1. m + d \in Nat /\ m + (d + 1) = (m + d) + 1 /\ m + d <= N
      BY DEF N
    <3>2. f[m + (d + 1)] = f[m + d] + Width(text[m + d + 1])
      BY <1>2, <3>1
    <3>3. f[m + d] \in Nat /\ f[m] \in Nat /\ f[m] <= f[m + d]
      BY <1>3, <2>2, <3>1 DEF N
    <3> QED BY <3>2, <3>3, WidthTyped
  <2> HIDE DEF H
  <2> QED BY <2>1, <2>2, NatSetInduction
<1>5. ASSUME NEW n \in m .. N
      PROVE  f[n] \in Nat /\ f[m] <= f[n]
  <2>1. n \in Nat /\ n - m \in Nat /\ m + (n - m) = n /\ n <= N
    BY <1>5 DEF N
  <2>2. n \in G /\ n - m \in H
    BY <1>3, <1>4, <2>1
  <2> QED BY <2>1, <2>2
<1> QED BY <1>5 DEF N

LEMMA DiscardedUpTo ==
  ASSUME NEW text, Len(text) \in Nat, NEW n \in 0 .. Len(text),
         \A f : Size(text, f) => f[n] <= Room /\ (n = Len(text) \/ f[n + 1] > Room)
  PROVE  Discarded(text) = n
<1>1. PICK f : /\ Size(text, f)
               /\ Discarded(text) = Max({k \in 0 .. Len(text) : f[k] <= Room})
  BY DiscardedIs
<1> DEFINE M == {k \in 0 .. Len(text) : f[k] <= Room}
           d == Max(M)
<1>2. n \in M /\ (n = Len(text) \/ f[n + 1] > Room)
  BY <1>1
<1>3. d \in M /\ n <= d
  <2>1. M \subseteq 0 .. Len(text) /\ M # {}
    BY <1>2
  <2> HIDE DEF M
  <2>2. Max(M) \in M /\ \A y \in M : Max(M) >= y
    BY <2>1, GreatestNumber
  <2> QED BY <1>2, <2>1, <2>2
<1> HIDE DEF d
<1>4. ASSUME n < d PROVE FALSE
  <2>1. n + 1 \in 0 .. Len(text) /\ d \in n + 1 .. Len(text) /\ n # Len(text)
    BY <1>3, <1>4
  <2>2. f[n + 1] <= f[d] /\ f[n + 1] \in Nat /\ f[d] \in Nat
    <3>1. n + 1 \in n + 1 .. Len(text)
      BY <2>1
    <3> QED BY <1>1, <2>1, <3>1, SizeGrows
  <2>3. f[d] <= Room /\ f[n + 1] > Room
    BY <1>2, <1>3, <2>1
  <2> QED BY <2>2, <2>3 DEF Room
<1>5. d = n
  BY <1>3, <1>4
<1> QED BY <1>1, <1>5 DEF d

Shape(text, r) == /\ Len(text) >= 6 /\ text[1] = Start /\ text[2] = r /\ text[3] = Nl
                  /\ text[4] = Gdb /\ text[5] = Blank /\ text[6] = Nl

LEMMA AnswerRead ==
  ASSUME NEW text \in Seq(Part), NEW r \in Record \cup {Running}, Shape(text, r),
         Len(text) = 6 \/ (r = Running /\ Len(text) > 6 /\ text[7] = Start)
  PROVE  /\ get_gdb_response(text).read = 6 /\ get_gdb_response(text).response # NoEnd
         /\ r # Running => get_gdb_response(text).response = SubSeq(text, 1, 5)
<1> DEFINE e == IF r = Running THEN 3 ELSE 5
           ends == {i \in DOMAIN text : EndOfResponse(text, i)}
           rest == SubSeq(text, e + 1, Len(text))
<1>1. Len(text) \in Nat /\ DOMAIN text = 1 .. Len(text) /\ Len(text) >= 6
  BY LenProperties DEF Shape
<1>2. r # Running => r # Exit
  BY PartsDiffer
<1>3. e \in ends
  <2>1. CASE r = Running
    <3>1. 3 \in 1 .. Len(text)
      BY <1>1
    <3>2. EndOfResponse(text, 3)
      BY <2>1, <3>1, EndIs DEF Shape
    <3> QED BY <1>1, <2>1, <3>1, <3>2
  <2>2. CASE r # Running
    <3>1. 5 \in 1 .. Len(text)
      BY <1>1
    <3>2. EndOfResponse(text, 5)
      BY <3>1, EndIs DEF Shape
    <3> QED BY <1>1, <2>2, <3>1, <3>2
  <2> QED BY <2>1, <2>2
<1>4. ASSUME NEW i \in ends
      PROVE  e <= i
  <2>1. i \in 1 .. Len(text) /\ EndOfResponse(text, i)
    BY <1>1
  <2>2. \/ i > 1 /\ text[i - 1] = Gdb /\ text[i] = Blank
        \/ i > 2 /\ text[i - 2] = Start /\ text[i - 1] \in {Running, Exit} /\ text[i] = Nl
    BY <2>1, EndIs
  <2>3. i # 1
    BY <2>1, <2>2
  <2>4. i # 2
    <3>1. ASSUME i = 2 PROVE text[1] = Gdb
      BY <2>2, <3>1
    <3> QED BY <3>1, PartsDiffer DEF Shape
  <2>5. i = 3 => r = Running
    <3>1. ASSUME i = 3 PROVE text[2] = Gdb \/ text[2] \in {Running, Exit}
      BY <2>2, <3>1
    <3> QED BY <1>2, <3>1, PartsDiffer DEF Shape
  <2>6. i # 4
    <3>1. ASSUME i = 4 PROVE text[3] = Gdb \/ text[4] = Nl
      BY <2>2, <3>1
    <3> QED BY <3>1, PartsDiffer DEF Shape
  <2> QED BY <1>1, <2>1, <2>3, <2>4, <2>5, <2>6
<1>5. Min(ends) = e
  <2>1. ends \subseteq Nat
    BY <1>1
  <2> HIDE DEF ends, e
  <2> QED BY <1>3, <1>4, <2>1, MinIs
<1>6. get_gdb_response(text) = [response |-> SubSeq(text, 1, e), read |-> e + Discarded(rest)]
  BY <1>3, <1>5 DEF get_gdb_response
<1>7. SubSeq(text, 1, e) # NoEnd
  <2>1. e \in 0 .. Len(text) /\ e # 1
    BY <1>1
  <2> HIDE DEF e
  <2>2. Len(SubSeq(text, 1, e)) # 1
    BY <2>1, InitialSegment
  <2>3. Len(NoEnd) = 1
    BY DEF NoEnd
  <2> QED BY <2>2, <2>3
<1>8. Len(rest) = Len(text) - e /\ \A j \in 1 .. Len(text) - e : rest[j] = text[e + j]
  <2>1. e \in 0 .. Len(text)
    BY <1>1
  <2> HIDE DEF e
  <2> QED BY <2>1, Suffix
<1>9. Discarded(rest) = 6 - e
  <2>1. /\ \A f : Size(rest, f) =>
              f[6 - e] <= Room /\ (6 - e = Len(rest) \/ f[6 - e + 1] > Room)
        /\ Len(rest) \in Nat /\ 6 - e \in 0 .. Len(rest)
    <3>1. CASE r # Running
      <4>1. Len(rest) = 1 /\ rest[1] = Nl
        <5>1. Len(text) = 6 /\ e = 5 /\ text[6] = Nl
          BY <3>1 DEF Shape
        <5> HIDE DEF rest
        <5> QED BY <1>8, <5>1
      <4>2. Width(Nl) = 1
        BY PartsDiffer DEF Width, Running, Start, Gdb, Blank, Nl
      <4> HIDE DEF rest
      <4>3. ASSUME NEW f, Size(rest, f)
            PROVE  f[1] <= Room
        <5>1. f[0] = 0 /\ f[1] = f[0] + Width(rest[1])
          BY <4>1, <4>3 DEF Size
        <5> QED BY <4>1, <4>2, <5>1 DEF Room
      <4> QED BY <3>1, <4>1, <4>3
    <3>2. CASE r = Running
      <4>1. /\ Len(rest) >= 3 /\ Len(rest) \in Nat
            /\ rest[1] = Gdb /\ rest[2] = Blank /\ rest[3] = Nl
            /\ Len(rest) = 3 \/ rest[4] = Start
        <5>1. e = 3 /\ text[4] = Gdb /\ text[5] = Blank /\ text[6] = Nl
          BY <3>2 DEF Shape
        <5> HIDE DEF rest, e
        <5>2. /\ Len(rest) = Len(text) - 3
              /\ \A j \in 1 .. Len(text) - 3 : rest[j] = text[3 + j]
          BY <1>8, <5>1
        <5>3. rest[1] = text[4] /\ rest[2] = text[5] /\ rest[3] = text[6]
          BY <1>1, <5>2
        <5>4. Len(text) = 6 \/ (Len(text) > 6 /\ rest[4] = text[7])
          BY <1>1, <5>2
        <5> QED BY <1>1, <5>1, <5>2, <5>3, <5>4
      <4>2. Width(Gdb) = 5 /\ Width(Blank) = 1 /\ Width(Nl) = 1 /\ Width(Start) = 6
        BY PartsDiffer DEF Width, Running, Start, Gdb, Blank, Nl
      <4> HIDE DEF rest
      <4>3. ASSUME NEW f, Size(rest, f)
            PROVE  f[3] <= Room /\ (Len(rest) = 3 \/ f[4] > Room)
        <5>1. /\ f[0] = 0 /\ f[1] = f[0] + Width(rest[1]) /\ f[2] = f[1] + Width(rest[2])
              /\ f[3] = f[2] + Width(rest[3])
          BY <4>1, <4>3 DEF Size
        <5>2. f[3] = 7
          BY <4>1, <4>2, <5>1
        <5>3. CASE Len(rest) = 3
          BY <5>2, <5>3 DEF Room
        <5>4. CASE Len(rest) # 3
          <6>1. 4 \in 0 .. Len(rest)
            <7> DEFINE n == Len(rest)
            <7>1. n \in Nat /\ n >= 3 /\ n # 3
              BY <4>1, <5>4
            <7> HIDE DEF n
            <7>2. 4 \in 0 .. n
              BY <7>1
            <7> QED BY <7>2 DEF n
          <6>2. f[4] = f[3] + Width(rest[4])
            BY <4>3, <6>1 DEF Size
          <6> QED BY <4>1, <4>2, <5>2, <5>4, <6>2 DEF Room
        <5> QED BY <5>3, <5>4
      <4> QED BY <3>2, <4>1, <4>3
    <3> QED BY <3>1, <3>2
  <2> HIDE DEF rest, e
  <2> QED BY <2>1, DiscardedUpTo
<1> HIDE DEF rest
<1> QED BY <1>6, <1>7, <1>9

LEMMA TwoAnswers ==
  ASSUME NEW p \in Part, NEW q \in Part
  PROVE  LET s == Answer(p) \o Answer(q)
         IN  /\ s \in Seq(Part) /\ Len(s) = 12 /\ Shape(s, p)
             /\ s[7] = Start /\ s[8] = q /\ s[9] = Nl /\ s[10] = Gdb /\ s[11] = Blank /\ s[12] = Nl
             /\ SubSeq(s, 7, 12) = Answer(q)
<1> DEFINE a == Answer(p)
           b == Answer(q)
           s == a \o b
<1>1. /\ a \in Seq(Part) /\ Len(a) = 6 /\ b \in Seq(Part) /\ Len(b) = 6
      /\ a[1] = Start /\ a[2] = p /\ a[3] = Nl /\ a[4] = Gdb /\ a[5] = Blank /\ a[6] = Nl
      /\ b[1] = Start /\ b[2] = q /\ b[3] = Nl /\ b[4] = Gdb /\ b[5] = Blank /\ b[6] = Nl
  BY AnswerTyped
<1> HIDE DEF a, b
<1>2. /\ s \in Seq(Part) /\ Len(s) = Len(a) + Len(b)
      /\ \A i \in 1 .. Len(a) + Len(b) : s[i] = IF i <= Len(a) THEN a[i] ELSE b[i - Len(a)]
  BY <1>1, ConcatProperties
<1> HIDE DEF s
<1>3. Len(s) = 12 /\ \A i \in 1 .. 12 : s[i] = IF i <= 6 THEN a[i] ELSE b[i - 6]
  BY <1>1, <1>2
<1>4. s[1] = a[1] /\ s[2] = a[2] /\ s[3] = a[3] /\ s[4] = a[4] /\ s[5] = a[5] /\ s[6] = a[6]
  BY <1>3
<1>5. s[7] = b[1] /\ s[8] = b[2] /\ s[9] = b[3] /\ s[10] = b[4] /\ s[11] = b[5] /\ s[12] = b[6]
  <2>1. \A j \in 1 .. 6 : s[6 + j] = b[j]
    <3> SUFFICES ASSUME NEW j \in 1 .. 6 PROVE s[6 + j] = b[j]
      OBVIOUS
    <3>1. 6 + j \in 1 .. 12 /\ ~(6 + j <= 6) /\ (6 + j) - 6 = j
      OBVIOUS
    <3> QED BY <1>3, <3>1
  <2> QED BY <2>1
<1>6. SubSeq(s, 7, 12) = b
  <2> DEFINE t == SubSeq(s, 6 + 1, Len(s))
  <2>1. 6 \in 0 .. Len(s)
    BY <1>3
  <2>2. t \in Seq(Part) /\ Len(t) = Len(s) - 6 /\ \A j \in 1 .. Len(s) - 6 : t[j] = s[6 + j]
    BY <1>2, <2>1, Suffix
  <2>3. t = SubSeq(s, 7, 12)
    BY <1>3
  <2> HIDE DEF t
  <2>4. Len(t) = 6 /\ \A j \in 1 .. 6 : t[j] = s[6 + j]
    BY <1>3, <2>2
  <2>5. \A j \in 1 .. Len(t) : t[j] = b[j]
    <3> SUFFICES ASSUME NEW j \in 1 .. 6 PROVE t[j] = b[j]
      BY <2>4
    <3>1. 6 + j \in 1 .. 12 /\ ~(6 + j <= 6) /\ (6 + j) - 6 = j
      OBVIOUS
    <3> QED BY <1>3, <2>4, <3>1
  <2>6. t = b
    BY <1>1, <2>2, <2>4, <2>5, SeqEqual
  <2> QED BY <2>3, <2>6
<1>7. Shape(s, p)
  BY <1>1, <1>3, <1>4 DEF Shape
<1> QED BY <1>1, <1>2, <1>3, <1>5, <1>6, <1>7 DEF s, a, b

LEMMA PromptAt ==
  ASSUME NEW s \in Seq(Part), NEW n \in 1 .. Len(s), n > 2, SubSeq(s, n - 2, n) = Prompt
  PROVE  s[n - 2] = Gdb /\ s[n - 1] = Blank /\ s[n] = Nl
<1>1. Len(s) \in Nat
  BY LenProperties
<1>2. n \in 3 .. Len(s)
  BY <1>1
<1> QED BY <1>2, TripleIs DEF Prompt

(* The reader takes the first of at most two whole answers.                *)
LEMMA WholeRead ==
  ASSUME NEW s \in Seq(Part), NEW n \in 1 .. Len(s), n > 2, SubSeq(s, n - 2, n) = Prompt,
         \/ \E r \in Record \cup {Running} : s = Answer(r)
         \/ s = Answer(Running) \o Answer(Stopped)
  PROVE  LET r == get_gdb_response(SubSeq(s, 1, n))
         IN  /\ r.read = 6 /\ r.response # NoEnd
             /\ \A q \in Record : s = Answer(q) => /\ Shape(SubSeq(s, 1, n), q)
                                                  /\ r.response = SubSeq(SubSeq(s, 1, n), 1, 5)
<1> DEFINE text == SubSeq(s, 1, n)
<1>1. s[n - 2] = Gdb /\ s[n - 1] = Blank /\ s[n] = Nl
  BY PromptAt
<1>2. text \in Seq(Part) /\ Len(text) = n /\ \A j \in 1 .. n : text[j] = s[j]
  <2>1. n \in 0 .. Len(s)
    BY LenProperties
  <2> QED BY <2>1, InitialSegment
<1> HIDE DEF text
<1>3. ASSUME NEW r \in Record \cup {Running}, Shape(s, r),
             n = 6 \/ (r = Running /\ n = 12 /\ s[7] = Start)
      PROVE  /\ get_gdb_response(text).read = 6 /\ get_gdb_response(text).response # NoEnd
             /\ Shape(text, r) /\ (r # Running => get_gdb_response(text).response = SubSeq(text, 1, 5))
  <2>1. Shape(text, r)
    BY <1>2, <1>3 DEF Shape
  <2>2. Len(text) = 6 \/ (r = Running /\ Len(text) > 6 /\ text[7] = Start)
    BY <1>2, <1>3
  <2> QED BY <1>2, <1>3, <2>1, <2>2, AnswerRead
<1>4. ASSUME NEW r \in Record \cup {Running}, s = Answer(r)
      PROVE  Shape(s, r) /\ n = 6
  <2>1. r \in Part /\ r # Gdb
    BY PartsDiffer
  <2>2. Shape(s, r) /\ Len(s) = 6
    BY <1>4, <2>1, AnswerTyped DEF Shape
  <2>3. n \in {3, 4, 5, 6}
    BY <2>2
  <2>4. s[1] # Gdb /\ s[2] # Gdb /\ s[3] # Gdb
    BY <2>1, <2>2, PartsDiffer DEF Shape
  <2>5. n - 2 \notin {1, 2, 3}
    BY <1>1, <2>4
  <2> QED BY <2>2, <2>3, <2>5
<1>5. ASSUME s = Answer(Running) \o Answer(Stopped)
      PROVE  Shape(s, Running) /\ (n = 6 \/ (n = 12 /\ s[7] = Start))
  <2>1. Running \in Part /\ Stopped \in Part /\ Running # Gdb /\ Stopped # Gdb
    BY PartsDiffer DEF Record
  <2>2. /\ Shape(s, Running) /\ Len(s) = 12 /\ s[7] = Start /\ s[8] = Stopped /\ s[9] = Nl
        /\ s[10] = Gdb
    BY <1>5, <2>1, TwoAnswers
  <2>3. n \in {3, 4, 5, 6, 7, 8, 9, 10, 11, 12}
    BY <2>2
  <2>4. /\ s[1] # Gdb /\ s[2] # Gdb /\ s[3] # Gdb /\ s[5] # Gdb /\ s[6] # Gdb
        /\ s[7] # Gdb /\ s[8] # Gdb /\ s[9] # Gdb
    BY <2>1, <2>2, PartsDiffer DEF Shape
  <2>5. n - 2 \notin {1, 2, 3, 5, 6, 7, 8, 9}
    BY <1>1, <2>4
  <2> QED BY <2>2, <2>3, <2>5
<1>6. get_gdb_response(text).read = 6 /\ get_gdb_response(text).response # NoEnd
  BY <1>3, <1>4, <1>5
<1>7. ASSUME NEW q \in Record, s = Answer(q)
      PROVE  Shape(text, q) /\ get_gdb_response(text).response = SubSeq(text, 1, 5)
  <2>1. q # Running
    BY PartsDiffer
  <2> QED BY <1>3, <1>4, <1>7, <2>1
<1> QED BY <1>6, <1>7 DEF text

(* The parser finds the record of an answer that is an error or carries    *)
(* results.                                                                *)
LEMMA RecordParsed ==
  ASSUME NEW text \in Seq(Part), NEW r \in Record \ {Done}, Shape(text, r)
  PROVE  parse_gdbmi_response(SubSeq(text, 1, 5)) = r
<1> DEFINE t == SubSeq(text, 1, 5)
           lines == {j \in DOMAIN t \ {1} : t[j - 1] = Start /\ t[j] \notin {Running, Done, Exit}}
<1>1. Len(t) = 5 /\ t \in Seq(Part) /\ \A j \in 1 .. 5 : t[j] = text[j]
  <2>1. 5 \in 0 .. Len(text)
    BY LenProperties DEF Shape
  <2> QED BY <2>1, InitialSegment
<1>2. DOMAIN t = 1 .. 5
  BY <1>1, LenProperties
<1>3. parse_gdbmi_response(t) = IF lines = {} THEN NoResult ELSE t[Max(lines)]
  BY DEF parse_gdbmi_response
<1> HIDE DEF t
<1>4. t[1] = Start /\ t[2] = r /\ t[3] = Nl /\ t[4] = Gdb /\ t[5] = Blank
  BY <1>1 DEF Shape
<1>5. r \notin {Running, Done, Exit} /\ r # Start /\ Start # Nl /\ Start # Gdb
  BY PartsDiffer
<1>6. lines = {2}
  <2>1. 2 \in lines
    BY <1>2, <1>4, <1>5
  <2>2. ASSUME NEW j \in lines PROVE j = 2
    <3>1. j \in {2, 3, 4, 5} /\ t[j - 1] = Start
      BY <1>2
    <3>2. j # 3 /\ j # 4 /\ j # 5
      BY <1>4, <1>5, <3>1
    <3> QED BY <3>1, <3>2
  <2> QED BY <2>1, <2>2
<1>7. Max(lines) = 2
  <2>1. lines \subseteq 0 .. 2 /\ lines # {}
    BY <1>6
  <2>2. Max(lines) \in lines
    BY <2>1, GreatestNumber
  <2> QED BY <1>6, <2>2
<1> QED BY <1>3, <1>4, <1>6, <1>7 DEF t

(* In step: what lies in the pipe are the whole answers, one or two, that  *)
(* belong to the command rccs waits for.                                   *)
Waiting == \/ commands = <<Head(todo)>> /\ pipe = <<>> /\ ~gdb.busy
           \/ commands = <<>> /\ ~gdb.busy /\ \E r \in Record : pipe = Answer(r)
           \/ /\ commands = <<>> /\ Exec(Head(todo))
              /\ \/ gdb.busy /\ pipe = Answer(Running)
                 \/ ~gdb.busy /\ pipe = Answer(Running) \o Answer(Stopped)
StepInv ==
  scene.whole =>
    /\ phase \in {"issue", "idle"} => pipe = <<>> /\ commands = <<>> /\ ~gdb.busy
    /\ phase = "first" => Waiting
    /\ phase = "second" => commands = <<>> /\ (pipe = <<>> \/ (pipe = Answer(Stopped) /\ ~gdb.busy))

LEMMA TakePhase ==
  ASSUME NEW cmd, NEW result, Take(cmd, result)
  PROVE  phase' \in {"crashed", "idle", "issue"}
<1> DEFINE o == CASE cmd.name = "set"   -> [op EXCEPT !.var = TRUE]
                  [] cmd.name = "print" -> [op EXCEPT !.var = TRUE, !.value = result[2]]
                  [] OTHER              -> op
<1>1. IF cmd.name = "print" /\ ~IsValue(result) THEN Crash
      ELSE IF GivesUp(cmd, result) \/ Len(todo) = 1 THEN Finish(o)
      ELSE /\ todo' = Tail(todo) /\ phase' = "issue" /\ op' = o
           /\ UNCHANGED history
  BY DEF Take
<1> HIDE DEF o
<1> QED BY <1>1 DEF Crash, Finish

(* One call of get_gdb_response() takes an answer and hands over what is   *)
(* in it; for a breakpoint that was set that is its record.                *)
LEMMA AnswerTaken ==
  ASSUME Typed, StepInv, scene.whole, Read
  PROVE  /\ phase \in {"first", "second"} /\ commands = <<>>
         /\ scene' = scene /\ path' = path /\ commands' = commands /\ gdb' = gdb
         /\ \/ /\ ~gdb.busy /\ \E r \in Record : pipe = Answer(r)
            \/ phase = "first" /\ Exec(Head(todo)) /\ gdb.busy /\ pipe = Answer(Running)
            \/ /\ phase = "first" /\ Exec(Head(todo)) /\ ~gdb.busy
               /\ pipe = Answer(Running) \o Answer(Stopped)
         /\ pipe' = SubSeq(pipe, 7, Len(pipe))
         /\ \/ /\ phase = "first" /\ Exec(Head(todo)) /\ phase' = "second"
               /\ op' = op /\ todo' = todo /\ history' = history
            \/ /\ ~(phase = "first" /\ Exec(Head(todo)))
               /\ \E result : /\ Take(Head(todo), result)
                              /\ result = NoResult \/ result \in Part
                              /\ pipe = Answer(Bkpt) => result = Bkpt
<1>1. PICK n \in 1 .. Len(pipe) :
        /\ Readable(n)
        /\ LET r == get_gdb_response(SubSeq(pipe, 1, n)) IN
           /\ pipe' = SubSeq(pipe, r.read + 1, Len(pipe))
           /\ IF r.response = NoEnd
              THEN UNCHANGED <<op, todo, phase, history>>
              ELSE IF phase = "first" /\ Exec(Head(todo))
                   THEN phase' = "second" /\ UNCHANGED <<op, todo, history>>
                   ELSE Take(Head(todo), parse_gdbmi_response(r.response))
  BY DEF Read
<1>2. /\ phase \in {"first", "second"}
      /\ scene' = scene /\ path' = path /\ commands' = commands /\ gdb' = gdb
  BY DEF Read
<1>3. n > 2 /\ SubSeq(pipe, n - 2, n) = Prompt
  BY <1>1 DEF Readable
<1>4. pipe \in Seq(Part) /\ pipe # <<>>
  <2>1. pipe \in Seq(Part) /\ Len(pipe) # 0
    BY <1>1 DEF Typed
  <2> QED BY <2>1, EmptySeq
<1>5. /\ commands = <<>>
      /\ \/ /\ ~gdb.busy /\ \E r \in Record : pipe = Answer(r)
         \/ phase = "first" /\ Exec(Head(todo)) /\ gdb.busy /\ pipe = Answer(Running)
         \/ /\ phase = "first" /\ Exec(Head(todo)) /\ ~gdb.busy
            /\ pipe = Answer(Running) \o Answer(Stopped)
  <2>1. Stopped \in Record
    BY DEF Record
  <2> QED BY <1>2, <1>4, <2>1 DEF StepInv, Waiting
<1> DEFINE text == SubSeq(pipe, 1, n)
           r == get_gdb_response(text)
           result == parse_gdbmi_response(r.response)
<1>6. r.read = 6 /\ r.response # NoEnd
  BY <1>3, <1>4, <1>5, WholeRead
<1>7. /\ pipe' = SubSeq(pipe, r.read + 1, Len(pipe))
      /\ \/ /\ phase = "first" /\ Exec(Head(todo)) /\ phase' = "second"
            /\ op' = op /\ todo' = todo /\ history' = history
         \/ ~(phase = "first" /\ Exec(Head(todo))) /\ Take(Head(todo), result)
  BY <1>1, <1>6
<1>8. text \in Seq(Part) /\ Len(text) = n /\ \A j \in 1 .. n : text[j] = pipe[j] /\ pipe[j] \in Part
  <2>1. Len(pipe) \in Nat /\ \A j \in 1 .. Len(pipe) : pipe[j] \in Part
    BY <1>4, LenProperties, ElementOfSeq
  <2>2. n \in 0 .. Len(pipe) /\ \A j \in 1 .. n : j \in 1 .. Len(pipe)
    BY <2>1
  <2> QED BY <1>4, <2>1, <2>2, InitialSegment
<1>9. result = NoResult \/ result \in Part
  <2> HIDE DEF text
  <2>1. PICK i \in 1 .. Len(text) : r.response = SubSeq(text, 1, i)
    BY <1>6, <1>8, ResponseIs
  <2>2. result = NoResult \/ \E j \in 1 .. i : result = text[j]
    BY <1>8, <2>1, ResultIs
  <2>3. \A j \in 1 .. i : j \in 1 .. n
    BY <1>8
  <2> HIDE DEF result
  <2> QED BY <1>8, <2>2, <2>3
<1>10. ASSUME pipe = Answer(Bkpt)
       PROVE  result = Bkpt
  <2>1. Bkpt \in Record /\ Bkpt # Done
    BY DEF Record, Bkpt, Done
  <2>2. Shape(text, Bkpt) /\ r.response = SubSeq(text, 1, 5)
    BY <1>3, <1>4, <1>5, <1>10, <2>1, WholeRead
  <2> HIDE DEF text
  <2>3. parse_gdbmi_response(SubSeq(text, 1, 5)) = Bkpt
    BY <1>8, <2>1, <2>2, RecordParsed
  <2> QED BY <2>2, <2>3
<1> HIDE DEF r, result
<1> QED BY <1>2, <1>5, <1>6, <1>7, <1>9, <1>10

LEMMA StepRead ==
  ASSUME Typed, StepInv, scene.whole, Read
  PROVE  StepInv'
<1>1. scene' = scene /\ commands' = commands /\ gdb' = gdb
  BY AnswerTaken
<1>2. /\ commands = <<>>
      /\ \/ /\ ~gdb.busy /\ \E r \in Record : pipe = Answer(r)
         \/ phase = "first" /\ Exec(Head(todo)) /\ gdb.busy /\ pipe = Answer(Running)
         \/ /\ phase = "first" /\ Exec(Head(todo)) /\ ~gdb.busy
            /\ pipe = Answer(Running) \o Answer(Stopped)
  BY AnswerTaken
<1>3. /\ pipe' = SubSeq(pipe, 7, Len(pipe))
      /\ \/ phase = "first" /\ Exec(Head(todo)) /\ phase' = "second"
         \/ ~(phase = "first" /\ Exec(Head(todo))) /\ phase' \in {"crashed", "idle", "issue"}
  BY AnswerTaken, TakePhase
<1>4. ASSUME NEW r \in Record \cup {Running}, pipe = Answer(r)
      PROVE  pipe' = <<>>
  <2>1. Len(pipe) = 6
    BY <1>4, PartsDiffer, AnswerTyped
  <2> QED BY <1>3, <2>1, SubSeqEmpty
<1>5. ASSUME pipe = Answer(Running) \o Answer(Stopped)
      PROVE  pipe' = Answer(Stopped)
  <2>1. Running \in Part /\ Stopped \in Part
    BY DEF Part, Plain
  <2>2. Len(pipe) = 12 /\ SubSeq(pipe, 7, 12) = Answer(Stopped)
    BY <1>5, <2>1, TwoAnswers
  <2> QED BY <1>3, <2>2
<1>6. commands' = <<>> /\ gdb'.busy = gdb.busy
  BY <1>1, <1>2
<1>7. \/ pipe' = <<>> /\ ~gdb.busy
      \/ /\ phase = "first" /\ Exec(Head(todo))
         /\ pipe' = <<>> \/ (pipe' = Answer(Stopped) /\ ~gdb.busy)
  BY <1>2, <1>4, <1>5
<1>8. CASE phase = "first" /\ Exec(Head(todo))
  <2>1. phase' = "second"
    BY <1>3, <1>8
  <2> QED BY <1>6, <1>7, <2>1 DEF StepInv
<1>9. CASE ~(phase = "first" /\ Exec(Head(todo)))
  <2>1. phase' \in {"crashed", "idle", "issue"} /\ pipe' = <<>> /\ ~gdb.busy
    BY <1>3, <1>7, <1>9
  <2> QED BY <1>6, <2>1 DEF StepInv
<1> QED BY <1>8, <1>9

LEMMA StepServe ==
  ASSUME Typed, StepInv, scene.whole, Serve
  PROVE  StepInv'
<1> DEFINE c == Head(commands)
<1>1. /\ commands' = Tail(commands) /\ pipe' = pipe \o Answer(Reply(c))
      /\ gdb' = Served(c) /\ commands # <<>> /\ ~gdb.busy
      /\ todo' = todo /\ phase' = phase
  BY DEF Serve, rccs
<1>2. CASE phase = "crashed"
  BY <1>1, <1>2 DEF StepInv
<1>3. CASE phase # "crashed"
  <2>1. phase = "first" /\ commands = <<Head(todo)>> /\ pipe = <<>>
    BY <1>1, <1>3 DEF StepInv, Waiting, Typed
  <2>2. c = Head(todo) /\ commands' = <<>>
    BY <1>1, <2>1
  <2>3. c \in Command /\ c.name \in Name /\ gdb \in Debuggee /\ gdb.pc \in Nat
    <3>1. commands \in Seq(Command) /\ gdb \in Debuggee
      BY DEF Typed
    <3>2. c \in Command
      BY <1>1, <3>1, HeadTailProperties
    <3> QED BY <3>1, <3>2 DEF Command, Debuggee
  <2> HIDE DEF c
  <2>4. Reply(c) \in Part
    BY <2>3, ReplyTyped
  <2>5. pipe' = Answer(Reply(c))
    <3>1. Answer(Reply(c)) \in Seq(Part)
      BY <2>4, AnswerTyped
    <3> QED BY <1>1, <2>1, <3>1, ConcatEmptySeq
  <2>6. \/ Reply(c) \in Record /\ ~gdb'.busy
        \/ Reply(c) = Running /\ Exec(c) /\ gdb'.busy
    <3>1. Bkpt \in Record /\ Wrong \in Record /\ Done \in Record /\ Value(gdb.pc) \in Record
      BY <2>3 DEF Record
    <3>2. CASE c.name = "insert"
      <4>1. Reply(c) \in {Bkpt, Wrong}
        BY <3>2 DEF Reply
      <4>2. ~Served(c).busy
        BY <1>1, <2>3, <3>2 DEF Served, Debuggee
      <4> QED BY <1>1, <3>1, <4>1, <4>2
    <3>3. CASE c.name = "run"
      <4>1. Exec(c)
        BY <3>3 DEF Exec
      <4>2. Reply(c) = Running
        BY <3>3 DEF Reply
      <4>3. Served(c).busy
        BY <2>3, <3>3 DEF Served, Debuggee
      <4> QED BY <1>1, <4>1, <4>2, <4>3
    <3>4. CASE c.name = "continue" /\ gdb.live
      <4>1. Exec(c)
        BY <3>4 DEF Exec
      <4>2. Reply(c) = Running
        BY <3>4 DEF Reply
      <4>3. Served(c).busy
        BY <2>3, <3>4 DEF Served, Debuggee
      <4> QED BY <1>1, <4>1, <4>2, <4>3
    <3>5. CASE c.name = "continue" /\ ~gdb.live
      <4>1. Reply(c) = Wrong /\ Served(c) = gdb
        BY <3>5 DEF Reply, Served
      <4> QED BY <1>1, <3>1, <4>1
    <3>6. CASE c.name = "set"
      <4>1. Reply(c) \in {Wrong, Done}
        BY <3>6 DEF Reply
      <4>2. ~Served(c).busy
        BY <1>1, <2>3, <3>6 DEF Served, Debuggee
      <4> QED BY <1>1, <3>1, <4>1, <4>2
    <3>7. CASE c.name \in {"tty", "confirm", "print"}
      <4>1. Reply(c) \in {Wrong, Done, Value(gdb.pc)} /\ Served(c) = gdb
        BY <3>7 DEF Reply, Served
      <4> QED BY <1>1, <3>1, <4>1
    <3> QED BY <2>3, <3>2, <3>3, <3>4, <3>5, <3>6, <3>7 DEF Name
  <2>7. Waiting'
    BY <1>1, <2>2, <2>5, <2>6 DEF Waiting
  <2> QED BY <1>1, <2>1, <2>7 DEF StepInv
<1> QED BY <1>2, <1>3

LEMMA StepStop ==
  ASSUME Typed, StepInv, scene.whole, Stop
  PROVE  StepInv'
<1>1. /\ ~gdb'.busy /\ gdb.busy /\ pipe' = pipe \o Answer(Stopped)
      /\ todo' = todo /\ phase' = phase /\ commands' = commands
  BY StopIs
<1>2. CASE phase = "crashed"
  BY <1>1, <1>2 DEF StepInv
<1>3. CASE phase = "first"
  <2>1. commands = <<>> /\ Exec(Head(todo)) /\ pipe = Answer(Running)
    BY <1>1, <1>3 DEF StepInv, Waiting
  <2>2. Waiting'
    BY <1>1, <2>1 DEF Waiting
  <2> QED BY <1>1, <1>3, <2>2 DEF StepInv
<1>4. CASE phase = "second"
  <2>1. commands = <<>> /\ pipe = <<>>
    BY <1>1, <1>4 DEF StepInv
  <2>2. Answer(Stopped) \in Seq(Part)
    BY AnswerTyped DEF Part, Plain
  <2>3. pipe' = Answer(Stopped)
    BY <1>1, <2>1, <2>2, ConcatEmptySeq
  <2> QED BY <1>1, <1>4, <2>1, <2>3 DEF StepInv
<1> QED BY <1>1, <1>2, <1>3, <1>4 DEF StepInv, Typed

LEMMA StepIssue ==
  ASSUME Typed, StepInv, scene.whole, Issue
  PROVE  StepInv'
<1>1. /\ phase = "issue" /\ pipe' = pipe /\ todo' = todo /\ gdb' = gdb
      /\ \/ phase' = "crashed"
         \/ phase' = "first" /\ commands' = Append(commands, Head(todo))
  BY DEF Issue, Crash
<1>2. pipe = <<>> /\ commands = <<>> /\ ~gdb.busy
  BY <1>1 DEF StepInv
<1>3. CASE phase' = "crashed"
  BY <1>3 DEF StepInv
<1>4. CASE phase' = "first" /\ commands' = Append(commands, Head(todo))
  <2>1. commands' = <<Head(todo')>>
    BY <1>1, <1>2, <1>4
  <2>2. Waiting'
    BY <1>1, <1>2, <2>1 DEF Waiting
  <2> QED BY <1>4, <2>2 DEF StepInv
<1> QED BY <1>1, <1>3, <1>4

LEMMA StepKept == Typed /\ StepInv /\ [Next]_vars => StepInv'
<1> SUFFICES ASSUME Typed, StepInv, [Next]_vars PROVE StepInv'
  OBVIOUS
<1>1. scene' = scene
  <2>1. [Next]_vars => UNCHANGED scene
    BY ReadIs DEF Next, vars, Send, Recv, Visited, Display, Leave, Act, Back, Issue, Serve, Stop
  <2> QED BY <2>1
<1>2. CASE ~scene.whole
  BY <1>1, <1>2 DEF StepInv
<1>3. CASE scene.whole
  <2>1. CASE phase = "idle" /\ phase' \in {"issue", "idle"} /\ commands' = commands /\ pipe' = pipe /\ gdb' = gdb
    BY <1>3, <2>1 DEF StepInv
  <2>2. CASE (\E l \in Labels : Send(l, "v") \/ Recv(l) \/ Visited(l)) \/ Display \/ Leave \/ Back
    BY <2>1, <2>2 DEF Send, Recv, Visited, Display, Leave, Back, Act, Begin
  <2>3. CASE UNCHANGED vars
    <3>1. phase' = phase /\ commands' = commands /\ pipe' = pipe /\ gdb' = gdb /\ todo' = todo
      BY <2>3 DEF vars
    <3>2. Waiting' <=> Waiting
      BY <3>1 DEF Waiting
    <3> QED BY <1>1, <3>1, <3>2 DEF StepInv
  <2> QED BY <1>3, <2>2, <2>3, StepIssue, StepRead, StepServe, StepStop DEF Next
<1> QED BY <1>2, <1>3

(* If answers are readable whole, no operation leaves a command unserved,  *)
(* an answer unread or the program running behind: guessing the ends of    *)
(* answers from the text never brings rccs out of step with GDB.           *)
THEOREM AnswersInStep == Spec => []InStep
<1>1. Init => StepInv
  BY DEF Init, Loaded, StepInv
<1>2. StepInv => InStep
  BY DEF StepInv, InStep
<1> QED BY <1>1, <1>2, TypedAtFirst, TypedKept, StepKept, PTL DEF Spec
===============================================================================
