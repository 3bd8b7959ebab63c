------------------------------ MODULE GdbPipe -------------------------------
(***************************************************************************)
(* What passes between rccs and GDB.  An answer is a line and a prompt; a  *)
(* command that lets the program run is answered twice: at once, and when  *)
(* the program stops.  rccs reads the pipe without blocking.  GDB keeps    *)
(* its end of the pipe open as long as rccs runs: the end of file, where   *)
(* the code takes what it has read for an answer, is left out.             *)
(***************************************************************************)
EXTENDS Naturals, Sequences, FiniteSetsExt, SequencesExt

(* A line is cut where the reader looks: its first six characters, the     *)
(* rest, the newline; a prompt behind `(gdb)' and behind the blank.        *)
Start == <<"start">>
Gdb   == <<"(gdb)">>
Blank == <<"blank">>
Nl    == <<"newline">>

Running  == <<"^running">>
Done     == <<"^done">>
Exit     == <<"^exit">>
Wrong    == <<"^error,msg=">>
Bkpt     == <<"^done,bkpt=">>
Stopped  == <<"*stopped,reason=">>
Value(v) == <<"^done,value=", v>>

Prompt == <<Gdb, Blank, Nl>>
Answer(record) == <<Start, record, Nl>> \o Prompt

-----------------------------------------------------------------------------
(* The end of an answer: a prompt up to its blank, or the first answer of  *)
(* a command that lets the program run, or the last answer of all.         *)
EndOfResponse(text, i) ==
  \/ i > 1 /\ SubSeq(text, i - 1, i) = <<Gdb, Blank>>
  \/ i > 2 /\ SubSeq(text, i - 2, i) \in {<<Start, Running, Nl>>, <<Start, Exit, Nl>>}

(* Behind it seven characters are thrown away, as far as they are there.   *)
Room == 7
Width(part) == CASE part = Start -> 6 [] part = Gdb -> 5 [] part = Running -> 2
                 [] part \in {Blank, Nl} -> 1 [] OTHER -> Room + 1
(* Mutated forms: nothing, or all there is.                                *)
Discarded_Nothing(text) == 0
Discarded_All(text) == Len(text)
Discarded(text) ==
  LET size[n \in 0..Len(text)] == IF n = 0 THEN 0 ELSE size[n - 1] + Width(text[n])
  IN  Max({n \in 0..Len(text) : size[n] <= Room})

(* One call of get_gdb_response() with this text in the pipe: what has     *)
(* been read is the response if it contains an end, and otherwise lost,    *)
(* because the next call starts again at the front of the buffer.          *)
NoEnd == <<"-1">>
get_gdb_response(text) ==
  LET ends == {i \in DOMAIN text : EndOfResponse(text, i)} IN
  IF ends = {} THEN [response |-> NoEnd, read |-> Len(text)]
  ELSE LET i == Min(ends) IN
       [response |-> SubSeq(text, 1, i),
        read     |-> i + Discarded(SubSeq(text, i + 1, Len(text)))]

(* The last line of a response that carries results.                       *)
NoResult == <<"NULL">>
parse_gdbmi_response(response) ==
  LET lines == {i \in DOMAIN response \ {1} :
                  /\ response[i - 1] = Start
                  /\ response[i] \notin {Running, Done, Exit}}
  IN  IF lines = {} THEN NoResult ELSE response[Max(lines)]
=============================================================================
