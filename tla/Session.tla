------------------------------ MODULE Session -------------------------------
(***************************************************************************)
(* The driver loop.  It reads a form from the current source and treats it *)
(* as a definition, a binding of a label to a connection, or an agent to   *)
(* be evaluated; `load' makes a file the source and calls the loop again.  *)
(* A loop never returns: at the end of a file the same loop goes on with   *)
(* the file below, so definitions stay, and so do the frames of the loops. *)
(***************************************************************************)
EXTENDS Naturals, Sequences, FiniteSets, SequencesExt

CONSTANTS FileSystem,        \* path |-> forms; a path is a sequence of names
          Sessions,          \* what a user may type: sequences of forms
          OSENV_MAX_DEPTH,   \* 32 in include/osenv.h
          MaxFrames,         \* bound of the C stack: loops inside each other
          Primitive          \* key, display, ...: registered from the start

(* The forms that occur.                                                   *)
Forms == UNION {Range(t) : t \in Sessions \cup Range(FileSystem)}
ASSUME LimitsAreNumbers == OSENV_MAX_DEPTH \in Nat /\ MaxFrames \in Nat \ {0}
ASSUME PrimitivesAreFew == IsFiniteSet(Primitive)
ASSUME FilesHaveNames == <<>> \notin DOMAIN FileSystem
ASSUME TextsAreForms == /\ \A f \in DOMAIN FileSystem : FileSystem[f] \in Seq(Forms)
                        /\ \A s \in Sessions : s \in Seq(Forms)
ASSUME FormsAreWellFormed ==
         \A f \in Forms :
           /\ f.op = "load" => f.path \in Seq(STRING) \ {<<>>} /\ f.scope \subseteq STRING
           /\ f.op \in {"define", "definit"} => f.name \in STRING

VARIABLES source,     \* [forms: still to be read, dir: where the file is,
                      \*  file: its path, <<>> for the standard input]
          backup,     \* os_env_backup: the sources below
          frames,     \* loops inside each other: [procedures, env]
          vpath,      \* RCCS_VPATH
          registry,   \* hash_tbl_LS: [label, number, qualifier]
          opened,     \* connections that have been opened
          closed,     \* numbers that epilogue() has closed
          read,       \* history: the forms that have been read
          returned,   \* history: reload_os_env() has gone back to a source, as a
                      \*  file has ended or could not be opened
          status      \* "run" | "quit" | "fatal"
vars == <<source, backup, frames, vpath, registry, opened, closed, read, returned, status>>

Frame(procedures, env) == [procedures |-> procedures, env |-> env]
Innermost == Last(frames)

Init == /\ \E s \in Sessions : source = [forms |-> s, dir |-> <<>>, file |-> <<>>]
        /\ backup = <<>>
        /\ frames = <<Frame({}, {})>>
        /\ vpath = <<>>
        /\ registry = SetToSeq({[label |-> l, number |-> 0, qualifier |-> "FILE_SYS"] : l \in Primitive})
        /\ opened = {} /\ closed = {} /\ read = <<>> /\ returned = FALSE
        /\ status = "run"

Form == Head(source.forms)
Reads(op) == /\ status = "run" /\ source.forms # <<>> /\ Form.op = op
             /\ read' = Append(read, Form)
Consumed == [source EXCEPT !.forms = Tail(@)]
InFrame(f) == frames' = [frames EXCEPT ![Len(frames)] = f]

Define == /\ Reads("define")
          /\ InFrame([Innermost EXCEPT !.procedures = @ \cup {Form.name}])
          /\ source' = Consumed
          /\ UNCHANGED <<backup, vpath, registry, opened, closed, returned, status>>

Definit == /\ Reads("definit")
           /\ InFrame([Innermost EXCEPT !.env = @ \cup {Form.name}])
           /\ source' = Consumed
           /\ UNCHANGED <<backup, vpath, registry, opened, closed, returned, status>>

(* The connection is opened before the registry is asked; the first entry  *)
(* of a label stays.                                                       *)
mberLS(label) == \E i \in DOMAIN registry : registry[i].label = label
Connection == 3 + Cardinality(opened)
(* Mutated form: another entry in front of the first.                      *)
registry1_Front(label, number, qualifier) ==
  <<[label |-> label, number |-> number, qualifier |-> qualifier]>> \o
  SelectSeq(registry, LAMBDA e : e.label # label)
registry1(label, number, qualifier) ==
  IF mberLS(label) THEN registry
  ELSE Append(registry, [label |-> label, number |-> number, qualifier |-> qualifier])

(* The address says what a label stands for: a connection, or a number,    *)
(* the line of a breakpoint or the index of a system call.                 *)
Connecting == {"client", "server"}
Numbered == {"target", "syscall"}
Binds(form) == form.op = "bind" /\ form.to \in Connecting \cup Numbered

Bind == /\ Reads("bind")
        /\ \/ /\ Form.to \in Connecting
              /\ opened' = opened \cup {Connection}
              /\ registry' = registry1(Form.name, Connection, "FILE_SYS")
           \/ /\ Form.to \in Numbered
              /\ registry' = registry1(Form.name, Form.number,
                                       IF Form.to = "target" THEN "BREAK_POINT" ELSE "SYS_CALL")
              /\ UNCHANGED opened
        /\ source' = Consumed
        /\ UNCHANGED <<backup, frames, vpath, closed, returned, status>>

(* epilogue() closes what every label stands for, be it a connection, the  *)
(* line of a breakpoint or a system call, except for the primitive labels. *)
Exit(why) == /\ status' = why
             /\ closed' = {registry[i].number : i \in {j \in DOMAIN registry : registry[j].label \notin Primitive}}

(* An address of no kind, or a system call of no name.                     *)
BindFails == /\ Reads("bind") /\ ~Binds(Form)
             /\ Exit("fatal")
             /\ UNCHANGED <<source, backup, frames, vpath, registry, opened, returned>>

-----------------------------------------------------------------------------
(* load: the path is taken below RCCS_VPATH, and RCCS_VPATH moves to the   *)
(* directory of the file whether the file can be opened or not.            *)
TooDeep == /\ Reads("load") /\ Len(backup) = OSENV_MAX_DEPTH
           /\ Exit("fatal")
           /\ UNCHANGED <<source, backup, frames, vpath, registry, opened, returned>>
(* Mutated forms: the depth is not tested; the loop is entered afresh.     *)
Deep_Unchecked == TRUE
Deep == Len(backup) < OSENV_MAX_DEPTH
Loop_Fresh(scope) == Append(frames, Frame({}, scope))
Loop(scope) == Append(frames, Frame(Innermost.procedures, Innermost.env \cup scope))

Directory_Kept(path) == vpath
Directory(path) == vpath \o Front(path)

Opens == /\ Reads("load") /\ Deep
         /\ vpath \o Form.path \in DOMAIN FileSystem
         /\ vpath' = Directory(Form.path)
         /\ backup' = Append(backup, Consumed)
         /\ source' = [forms |-> FileSystem[vpath \o Form.path],
                       dir   |-> vpath \o Front(Form.path),
                       file  |-> vpath \o Form.path]
         /\ UNCHANGED <<registry, opened, closed, returned, status>>
LoadIn == Opens /\ Len(frames) < MaxFrames /\ frames' = Loop(Form.scope)

(* No such file: the saved source is taken back, as at the end of a file,  *)
(* but RCCS_VPATH has moved, and a loop is entered.                        *)
Missing == /\ Reads("load") /\ Deep
           /\ vpath \o Form.path \notin DOMAIN FileSystem
           /\ vpath' = Directory(Form.path)
           /\ source' = Consumed
           /\ returned' = TRUE
           /\ UNCHANGED <<backup, registry, opened, closed, status>>
LoadNone == Missing /\ Len(frames) < MaxFrames /\ frames' = Loop(Form.scope)

(* SIGSEGV: the driver starts again, with everything else as it is.  The   *)
(* stack is used up in n_load() or in the loop that the load enters, or    *)
(* the parser meets the end of the file in the middle of a form.           *)
Afresh == frames' = <<Frame({}, {})>>
Lost == /\ Afresh
        /\ source' = Consumed
        /\ UNCHANGED <<backup, vpath, registry, opened, closed, returned, status>>
StackOverflow == /\ Len(frames) = MaxFrames
                 /\ \/ Reads("load") /\ Deep /\ Lost
                    \/ (Opens \/ Missing) /\ Afresh
EndInside == Reads("open") /\ Lost

(* The end of a file: n_read() finds nothing.  At the end of the standard  *)
(* input the loop goes on reading it.  No log is ever opened: every call   *)
(* of initsf() passes NIL for its name, so n_end() has none to close.      *)
(* Mutated forms: the saved source stays on the stack; it is not taken.    *)
n_end_Forever == /\ status = "run" /\ source.forms = <<>>
                 /\ UNCHANGED vars
n_end_Kept == /\ status = "run" /\ source.forms = <<>>
              /\ source.file # <<>>
              /\ source' = Last(backup)
              /\ returned' = TRUE
              /\ UNCHANGED <<backup, frames, vpath, registry, opened, closed, read, status>>
n_end == /\ status = "run" /\ source.forms = <<>>
         /\ IF source.file = <<>>
            THEN UNCHANGED <<source, backup, returned>>
            ELSE /\ source' = Last(backup)
                 /\ backup' = Front(backup)
                 /\ returned' = TRUE
         /\ UNCHANGED <<frames, vpath, registry, opened, closed, read, status>>

-----------------------------------------------------------------------------
(* An agent is evaluated, or a warning of the parser or of the evaluation  *)
(* comes back by longjmp(): what is bound stays as it was.                 *)
Agent == /\ Reads("agent")
         /\ source' = Consumed
         /\ UNCHANGED <<backup, frames, vpath, registry, opened, closed, returned, status>>

Quit == /\ Reads("quit")
        /\ Exit("quit")
        /\ UNCHANGED <<source, backup, frames, vpath, registry, opened, returned>>
Fatal == /\ Reads("fatal")
         /\ Exit("fatal")
         /\ UNCHANGED <<source, backup, frames, vpath, registry, opened, returned>>

Next == \/ Define \/ Definit \/ Bind \/ BindFails \/ TooDeep \/ LoadIn \/ LoadNone
        \/ StackOverflow \/ EndInside \/ n_end \/ Agent \/ Quit \/ Fatal
Spec == Init /\ [][Next]_vars /\ WF_vars(Next)
-----------------------------------------------------------------------------
Paths == DOMAIN FileSystem \cup {<<>>}
Sources == [forms : Seq(Forms), dir : Seq(STRING), file : Paths]
Frames == [procedures : SUBSET STRING, env : SUBSET STRING]
(* Type invariant: the saved sources fit into os_env_backup.               *)
TypeOK == /\ source \in Sources /\ backup \in Seq(Sources)
          /\ Len(backup) <= OSENV_MAX_DEPTH
          /\ frames \in Seq(Frames) /\ Len(frames) \in 1 .. MaxFrames
          /\ vpath \in Seq(STRING)
          /\ returned \in BOOLEAN /\ status \in {"run", "quit", "fatal"}

(* The standard input, and nothing else, lies at the bottom of the stack   *)
(* of sources, after loads that failed and after the driver has started    *)
(* over too: reload_os_env() never finds the stack empty.                  *)
StdinAtBottom ==
  LET all == Append(backup, source)
  IN  \A i \in DOMAIN all : (all[i].file = <<>>) <=> (i = 1)

(* A path is relative to the directory of the file it is written in, as    *)
(* long as no file has ended and no load has failed (or all the files are  *)
(* in one directory): RCCS_VPATH is the directory of the file that is      *)
(* being read.  It is not set back with the source.                        *)
Plain == \A i \in DOMAIN read : read[i].op = "load" => Len(read[i].path) = 1
RelativeToFile == ~returned \/ Plain => vpath = source.dir

(* What the program closes before it ends is what the labels were bound to *)
(* first: a connection that was made for a label bound already, or for a   *)
(* primitive one, stays open, and lines of breakpoints and indices of      *)
(* system calls are closed as if they were connections.                    *)
Bindings == {i \in DOMAIN read : Binds(read[i])}
Connections == {i \in Bindings : read[i].to \notin Numbered}
Number(i) == IF read[i].to \in Numbered THEN read[i].number
             ELSE 3 + Cardinality({j \in Connections : j < i})
Again(i) == \/ read[i].name \in Primitive
            \/ \E j \in Bindings : j < i /\ read[j].name = read[i].name
First == {i \in Bindings : ~Again(i)}
ClosedAtExit == status # "run" => closed = {Number(i) : i \in First}

(* Loads in files and sources that cannot be opened make one text, and the *)
(* definitions of a file are there for what comes after it.                *)
Pending(sources) ==
  LET above[n \in 0 .. Len(sources)] ==
        IF n = 0 THEN <<>> ELSE sources[n].forms \o above[n - 1]
  IN  above[Len(sources)]
Included == INSTANCE Inclusion WITH
              Texts   <- Range(FileSystem) \cup {<<>>},
              text    <- Pending(Append(backup, source)),
              defined <- Innermost.procedures \cup Innermost.env
InclusionSpec == Included!Spec

(* A session comes back to its user, whatever files load each other: the   *)
(* prompt appears again and again, or the program has ended.               *)
PromptAgain == []<>(source.file = <<>> \/ status # "run")
=============================================================================
