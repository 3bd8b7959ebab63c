----------------------------- MODULE McHistory ------------------------------
(***************************************************************************)
(* The interface to a program under GDB.  An output or input that is bound *)
(* to a line of the program lets it run up to that line and sets or reads  *)
(* a variable there; the verifier undoes it, when it has explored what     *)
(* follows, by restarting the program and repeating the outputs.           *)
(*                                                                         *)
(* The program and GDB itself are not part of rccs: Serve, Stop and the    *)
(* variables gdb, commands and pipe describe what rccs relies on.          *)
(***************************************************************************)
EXTENDS GdbPipe

CONSTANTS Scenes,    \* [program: the lines it passes, whole: whether an
                     \* answer is readable at once, acts: of the verifier,
                     \* max: a bound of the model, how many of them]
          Labels,    \* the bound labels, named by their lines
          NoVar      \* those whose line assigns no variable
ASSUME ProgramsAreLists == \A s \in Scenes : s.program \in Seq(STRING)

VARIABLES scene, acts,
          path,      \* the actions that the verifier is below
          history,   \* initState ... lastState
          op,        \* the operation under way or done last
          todo,      \* its commands that are still to come
          phase,     \* "issue" | "first" | "second" | "idle" | "crashed"
          commands, pipe, gdb
rccs == <<acts, path, history, op, todo, phase>>
vars == <<scene, acts, path, history, op, todo, phase, commands, pipe, gdb>>

Target == [pc |-> gdb.pc, writes |-> gdb.writes]

-----------------------------------------------------------------------------
(* The list of states: the initial one is never deleted.                   *)
append_state(h, data) == Append(h, data)
(* Mutated form: nothing is deleted.                                        *)
delete_last_state_Keep(h) == h
delete_last_state(h) == IF Len(h) > 1 THEN Front(h) ELSE h

Cmd(name, arg) == [name |-> name, arg |-> arg]
Exec(cmd) == cmd.name \in {"run", "continue"}
Null == "NULL"

(* The commands of the operations; `set' of a state whose variable is not  *)
(* known violates an assertion.                                            *)
mc_init_debugger == <<Cmd("tty", Null), Cmd("confirm", Null),
                      Cmd("insert", "main"), Cmd("run", Null)>>
mc_send(l, v) == <<Cmd("insert", l), Cmd("continue", Null)>>
                 \o IF l \in NoVar THEN <<>> ELSE <<Cmd("set", v)>>
(* Mutated form: the variable is read before the program gets there.       *)
mc_recv_Early(l) == <<Cmd("insert", l), Cmd("print", l), Cmd("continue", Null)>>
mc_recv(l) == <<Cmd("insert", l), Cmd("continue", Null)>>
              \o IF l \in NoVar THEN <<>> ELSE <<Cmd("print", l)>>
re_send(data) == <<Cmd("insert", data.location), Cmd("continue", Null),
                   Cmd("set", IF data.var THEN data.value ELSE Null)>>
(* Mutated form: the program is not run again from its beginning.          *)
mc_back_NoRun(h) ==
  <<Cmd("insert", "main")>>
  \o FlattenSeq([i \in DOMAIN h |-> IF h[i].state = "SEND" THEN re_send(h[i]) ELSE <<>>])
mc_back(h) == <<Cmd("insert", "main"), Cmd("run", Null)>>
              \o FlattenSeq([i \in DOMAIN h |-> IF h[i].state = "SEND" THEN re_send(h[i]) ELSE <<>>])

-----------------------------------------------------------------------------
Loaded == [pc |-> 0, stops |-> {}, live |-> FALSE, busy |-> FALSE, writes |-> <<>>, exits |-> 0]
Op(state, l, v) == [state |-> state, location |-> l, value |-> v, var |-> FALSE, mark |-> Target]

(* GDB has been started and has greeted.                                   *)
Init == /\ scene \in Scenes
        /\ acts = 0
        /\ path = <<>> /\ history = <<>>
        /\ gdb = Loaded
        /\ op = [state |-> "INIT", location |-> "main", value |-> Null, var |-> FALSE,
                 mark |-> [pc |-> 0, writes |-> <<>>]]
        /\ todo = mc_init_debugger
        /\ phase = "issue"
        /\ commands = <<>> /\ pipe = <<>>

(* The verifier performs a bound action and goes on below it.              *)
Begin(o, script) ==
  /\ op' = o
  /\ todo' = script
  /\ phase' = "issue"
Act(name) == /\ phase = "idle" /\ acts < scene.max /\ name \in scene.acts
             /\ acts' = acts + 1
             /\ UNCHANGED <<scene, commands, pipe, gdb, history>>

Send(l, v) == /\ Act("send")
              /\ Begin(Op("SEND", l, v), mc_send(l, v))
              /\ path' = Append(path, op')
Recv(l) == /\ Act("recv")
           /\ Begin(Op("RECV", l, Null), mc_recv(l))
           /\ path' = Append(path, op')

(* An output to the display is registered like a bound one, but nothing    *)
(* is sent to GDB and nothing appended.                                    *)
Display == /\ Act("display")
           /\ path' = Append(path, Op("FILE_SYS", "display", Null))
           /\ UNCHANGED <<op, todo, phase>>

(* The second search reads an input and only then finds that it has been   *)
(* here before.                                                            *)
Visited(l) == /\ Act("visited")
              /\ Begin(Op("RECV", l, Null), mc_recv(l))
              /\ UNCHANGED path

(* A warning or the last counterexample leaves the search by longjmp().    *)
Leave == /\ Act("leave") /\ path # <<>>
         /\ path' = <<>>
         /\ UNCHANGED <<op, todo, phase>>

(* Back from what follows the last action: its state is deleted, and the   *)
(* program run again; nothing is done if there is only the initial state.  *)
Back == /\ phase = "idle" /\ path # <<>>
        /\ path' = Front(path)
        /\ history' = delete_last_state(history)
        /\ op' = [Last(path) EXCEPT !.state = "BACK"]
        /\ IF Len(history) > 1
           THEN todo' = mc_back(history') /\ phase' = "issue"
           ELSE UNCHANGED <<todo, phase>>
        /\ UNCHANGED <<scene, acts, commands, pipe, gdb>>

-----------------------------------------------------------------------------
Crash == phase' = "crashed" /\ UNCHANGED <<op, todo, history>>

Issue == /\ phase = "issue"
         /\ IF Head(todo) = Cmd("set", Null)
            THEN Crash /\ UNCHANGED commands
            ELSE /\ phase' = "first"
                 /\ commands' = Append(commands, Head(todo))
                 /\ UNCHANGED <<op, todo, history>>
         /\ UNCHANGED <<scene, acts, path, pipe, gdb>>

(* A bound action stops early when the breakpoint is refused or nothing    *)
(* readable comes of the stop; undoing goes on whatever the answers are.   *)
GivesUp(cmd, result) == /\ op.state \in {"SEND", "RECV"}
                        /\ \/ cmd.name = "insert" /\ result # Bkpt
                           \/ cmd.name = "continue" /\ result = NoResult
IsValue(result) == result[1] = Value(0)[1]

(* A state is appended whatever became of the commands.                    *)
Finish(o) == /\ todo' = <<>>
             /\ phase' = "idle"
             /\ op' = o
             /\ history' = IF o.state = "BACK" THEN history ELSE append_state(history, o)

(* The answer to the first of the commands: an answer to `print' that is   *)
(* none ends in a null pointer.                                            *)
Take(cmd, result) ==
  LET o == CASE cmd.name = "set"   -> [op EXCEPT !.var = TRUE]
             [] cmd.name = "print" -> [op EXCEPT !.var = TRUE, !.value = result[2]]
             [] OTHER              -> op
  IN  IF cmd.name = "print" /\ ~IsValue(result) THEN Crash
      ELSE IF GivesUp(cmd, result) \/ Len(todo) = 1 THEN Finish(o)
      ELSE /\ todo' = Tail(todo) /\ phase' = "issue" /\ op' = o
           /\ UNCHANGED history

(* One call of get_gdb_response() with the first n parts readable.         *)
Readable(n) == scene.whole => n > 2 /\ SubSeq(pipe, n - 2, n) = Prompt
Read ==
  /\ phase \in {"first", "second"}
  /\ \E n \in {n \in 1..Len(pipe) : Readable(n)} :
       LET r == get_gdb_response(SubSeq(pipe, 1, n)) IN
       /\ pipe' = SubSeq(pipe, r.read + 1, Len(pipe))
       /\ IF r.response = NoEnd
          THEN UNCHANGED <<op, todo, phase, history>>
          ELSE IF phase = "first" /\ Exec(Head(todo))
               THEN phase' = "second" /\ UNCHANGED <<op, todo, history>>
               ELSE Take(Head(todo), parse_gdbmi_response(r.response))
  /\ UNCHANGED <<scene, acts, path, commands, gdb>>

-----------------------------------------------------------------------------
(* GDB takes a command when the program does not run.                      *)
Known == ToSet(scene.program)
Reply(cmd) ==
  CASE cmd.name = "insert"        -> IF cmd.arg \in Known THEN Bkpt ELSE Wrong
    [] cmd.name \in {"tty", "confirm"} -> Done
    [] cmd.name = "run"           -> Running
    [] cmd.name \in {"continue", "set", "print"} ->
         IF ~gdb.live THEN Wrong
         ELSE CASE cmd.name = "continue" -> Running
                [] cmd.name = "set"      -> Done
                [] cmd.name = "print"    -> Value(gdb.pc)
Served(cmd) ==
  CASE cmd.name = "insert" /\ cmd.arg \in Known -> [gdb EXCEPT !.stops = @ \cup {cmd.arg}]
    [] cmd.name = "run" -> [gdb EXCEPT !.pc = 0, !.writes = <<>>, !.live = TRUE, !.busy = TRUE]
    [] cmd.name = "continue" /\ gdb.live -> [gdb EXCEPT !.busy = TRUE]
    [] cmd.name = "set" /\ gdb.live -> [gdb EXCEPT !.writes = Append(@, <<gdb.pc, cmd.arg>>)]
    [] OTHER -> gdb
Serve == /\ commands # <<>> /\ ~gdb.busy
         /\ commands' = Tail(commands)
         /\ pipe' = pipe \o Answer(Reply(Head(commands)))
         /\ gdb' = Served(Head(commands))
         /\ UNCHANGED <<scene, rccs>>

(* The program stops at the next line with a temporary breakpoint, which   *)
(* is gone then, or runs to its end.                                       *)
Stop == /\ gdb.busy
        /\ LET ahead == {i \in DOMAIN scene.program : i > gdb.pc /\ scene.program[i] \in gdb.stops}
           IN  gdb' = IF ahead = {}
                      THEN [gdb EXCEPT !.busy = FALSE, !.live = FALSE, !.exits = 1]
                      ELSE [gdb EXCEPT !.busy = FALSE, !.pc = Min(ahead),
                                       !.stops = @ \ {scene.program[Min(ahead)]}]
        /\ pipe' = pipe \o Answer(Stopped)
        /\ UNCHANGED <<scene, commands, rccs>>

Next == \/ \E l \in Labels : Send(l, "v") \/ Recv(l) \/ Visited(l)
        \/ Display \/ Leave \/ Back
        \/ Issue \/ Read \/ Serve \/ Stop

(* rccs polls the pipe, GDB answers, the program stops or ends.            *)
Fairness == WF_vars(Issue) /\ WF_vars(Read) /\ WF_vars(Serve) /\ WF_vars(Stop)
Spec == Init /\ [][Next]_vars /\ Fairness

-----------------------------------------------------------------------------
Idle == phase = "idle"
Bound == scene.acts \subseteq {"send", "recv"}   \* nothing but bound actions

(* mc_back(1) deletes the state of the very action the verifier returns    *)
(* from: the list of states is the path of the search.                     *)
HistoryIsPath ==
  Bound /\ Idle => /\ Len(history) = Len(path) + 1
                   /\ \A i \in DOMAIN path : /\ history[i + 1].state = path[i].state
                                              /\ history[i + 1].location = path[i].location

(* A sibling is explored from where the undone action began: running the   *)
(* program again with the outputs that are left brings it back there.      *)
(* Inputs are not repeated, and breakpoints a program did not reach stay.  *)
Restored ==
  (/\ scene.whole /\ Bound /\ Idle /\ op.state = "BACK" /\ gdb.exits = 0
   /\ \A i \in DOMAIN history : history[i].state # "RECV") => Target = op.mark

(* When answers are readable at once every answer is read by the command   *)
(* it belongs to, although the ends of answers are guessed from the text.  *)
InStep ==
  scene.whole /\ phase \in {"issue", "idle"} => pipe = <<>> /\ commands = <<>> /\ ~gdb.busy

(* However the answers are cut up and lost, what an input gives to the     *)
(* model is the variable at the line where the program stands.             *)
NoStaleValue == [][history' # history /\ op'.state = "RECV" /\ op'.var /\ phase' = "idle"
                   => Last(history').value = gdb.pc]_vars

(* An operation ends, unless the program has.                              *)
OpEnds == (scene.whole /\ ~(Idle \/ phase = "crashed"))
            ~> (Idle \/ phase = "crashed" \/ ~gdb.live)
=============================================================================
