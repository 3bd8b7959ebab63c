--------------------------- MODULE Session_proofs ---------------------------
(***************************************************************************)
(* Proofs about the driver loop, for every file system, every session and  *)
(* every limit of the nesting and of the stack.                            *)
(***************************************************************************)
EXTENDS Session, SequenceLemmas, TLAPS

(* A form that is read leaves a source of forms.                           *)
LEMMA Consuming ==
  ASSUME TypeOK, source.forms # <<>>
  PROVE  Consumed \in Sources /\ Consumed.file = source.file /\ Form \in Forms
<1>1. source \in Sources /\ source.forms \in Seq(Forms)
  BY DEF TypeOK, Sources
<1>2. Tail(source.forms) \in Seq(Forms) /\ Head(source.forms) \in Forms
  BY <1>1, Parts
<1> QED BY <1>1, <1>2 DEF Consumed, Sources, Form

(* A file that is opened is a source, and is not the standard input.       *)
LEMMA Opening ==
  ASSUME TypeOK, Opens
  PROVE  /\ source' \in Sources /\ source'.file # <<>>
         /\ backup' = Append(backup, Consumed)
         /\ backup' \in Seq(Sources) /\ Len(backup') = Len(backup) + 1
         /\ Len(backup') <= OSENV_MAX_DEPTH
         /\ vpath' \in Seq(STRING)
<1>1. source.forms # <<>> /\ Form.op = "load"
  BY DEF Opens, Reads
<1>2. Consumed \in Sources /\ Form \in Forms
  BY <1>1, Consuming
<1>3. Form.path \in Seq(STRING) /\ Form.path # <<>>
  BY <1>1, <1>2, FormsAreWellFormed
<1>4. vpath \in Seq(STRING) /\ Front(Form.path) \in Seq(STRING)
  BY <1>3, Parts DEF TypeOK
<1>5. vpath \o Front(Form.path) \in Seq(STRING)
  BY <1>4, ConcatProperties
<1>6. vpath \o Form.path \in DOMAIN FileSystem
  BY DEF Opens
<1>7. source' = [forms |-> FileSystem[vpath \o Form.path],
                 dir |-> vpath \o Front(Form.path), file |-> vpath \o Form.path]
  BY DEF Opens
<1>8. source' \in Sources /\ source'.file # <<>>
  BY <1>5, <1>6, <1>7, TextsAreForms, FilesHaveNames DEF Sources, Paths
<1>9. backup \in Seq(Sources) /\ Len(backup) < OSENV_MAX_DEPTH /\ Len(backup) \in Nat
  BY LenProperties DEF TypeOK, Opens, Deep
<1>10. /\ backup' = Append(backup, Consumed) /\ backup' \in Seq(Sources)
       /\ Len(backup') = Len(backup) + 1
  BY <1>2, <1>9, AppendProperties DEF Opens
<1>11. vpath' \in Seq(STRING)
  BY <1>5 DEF Opens, Directory
<1> QED BY <1>8, <1>9, <1>10, <1>11, LimitsAreNumbers

-----------------------------------------------------------------------------
FramesOK == frames \in Seq(Frames) /\ Len(frames) \in 1 .. MaxFrames
Inv == TypeOK /\ StdinAtBottom

(* Only the first source of a stack of sources is the standard input.      *)
Kinds(b, s) == /\ \A i \in 1 .. Len(b) : (b[i].file = <<>>) <=> (i = 1)
               /\ (s.file = <<>>) <=> (b = <<>>)

LEMMA KindsOfStack ==
  ASSUME NEW b \in Seq(Sources), NEW s \in Sources
  PROVE  (\A i \in DOMAIN Append(b, s) : (Append(b, s)[i].file = <<>>) <=> (i = 1))
           <=> Kinds(b, s)
<1>1. Len(b) \in Nat /\ (b = <<>> <=> Len(b) = 0)
  BY LenProperties, EmptySeq
<1>2. /\ DOMAIN Append(b, s) = 1 .. Len(b) + 1
      /\ \A i \in 1 .. Len(b) : Append(b, s)[i] = b[i]
      /\ Append(b, s)[Len(b) + 1] = s
  BY <1>1, AppendProperties, LenProperties
<1> QED BY <1>1, <1>2 DEF Kinds

LEMMA InvIsKinds == Inv <=> TypeOK /\ Kinds(backup, source)
BY KindsOfStack DEF Inv, StdinAtBottom, TypeOK

LEMMA InvIsKindsNext == Inv' <=> TypeOK' /\ Kinds(backup', source')
BY KindsOfStack DEF Inv, StdinAtBottom, TypeOK

LEMMA InitKeeps == Init => Inv
<1> SUFFICES ASSUME Init PROVE Inv
  OBVIOUS
<1>1. PICK s \in Sessions : source = [forms |-> s, dir |-> <<>>, file |-> <<>>]
  BY DEF Init
<1>2. source \in Sources /\ source.file = <<>>
  BY <1>1, TextsAreForms, EmptySeq DEF Sources, Paths
<1>3. backup = <<>> /\ backup \in Seq(Sources) /\ Len(backup) = 0
  BY EmptySeq DEF Init
<1>4. Len(frames) = 1
  BY DEF Init
<1>5. TypeOK
  <2>1. frames \in Seq(Frames) /\ Len(frames) \in 1 .. MaxFrames
    BY <1>4, LimitsAreNumbers DEF Init, Frame, Frames
  <2>4. Len(backup) <= OSENV_MAX_DEPTH
    BY <1>3, <1>4, LimitsAreNumbers
  <2>2. vpath \in Seq(STRING)
    BY EmptySeq DEF Init
  <2>3. returned \in BOOLEAN /\ status \in {"run", "quit", "fatal"}
    BY DEF Init
  <2> QED BY <1>2, <1>3, <2>1, <2>2, <2>3, <2>4 DEF TypeOK
<1>6. Kinds(backup, source)
  BY <1>2, <1>3 DEF Kinds
<1> QED BY <1>5, <1>6, InvIsKinds

(* A step that takes a form and opens no file.                             *)
LEMMA TakingKeeps ==
  ASSUME Inv, source.forms # <<>>, UNCHANGED backup,
         source' \in {source, Consumed}, FramesOK',
         vpath' \in Seq(STRING), returned' \in BOOLEAN,
         status' \in {"run", "quit", "fatal"}
  PROVE  Inv'
<1>1. source' \in Sources /\ source'.file = source.file
  BY Consuming DEF Inv, TypeOK
<1>2. TypeOK'
  BY <1>1 DEF Inv, TypeOK, FramesOK
<1>3. Kinds(backup, source)
  BY InvIsKinds
<1>4. Kinds(backup', source')
  BY <1>1, <1>3 DEF Kinds
<1> QED BY <1>2, <1>4, InvIsKindsNext

(* A step that opens a file.                                               *)
LEMMA OpeningKeeps ==
  ASSUME Inv, Opens, FramesOK'
  PROVE  Inv'
<1>1. source.forms # <<>>
  BY DEF Opens, Reads
<1>2. /\ Consumed \in Sources /\ Consumed.file = source.file
      /\ source' \in Sources /\ source'.file # <<>>
      /\ backup' = Append(backup, Consumed) /\ backup' \in Seq(Sources)
      /\ Len(backup') = Len(backup) + 1 /\ Len(backup') <= OSENV_MAX_DEPTH
      /\ vpath' \in Seq(STRING)
  BY <1>1, Consuming, Opening DEF Inv
<1>3. TypeOK'
  BY <1>2 DEF Inv, TypeOK, FramesOK, Opens
<1>4. /\ Kinds(backup, source)
      /\ backup \in Seq(Sources) /\ Len(backup) \in Nat /\ (backup = <<>> <=> Len(backup) = 0)
  BY InvIsKinds, LenProperties, EmptySeq DEF TypeOK
<1>5. /\ \A i \in 1 .. Len(backup) : backup'[i] = backup[i]
      /\ backup'[Len(backup) + 1] = Consumed
      /\ backup' # <<>>
  BY <1>2, <1>4, AppendProperties, EmptySeq
<1>6. Kinds(backup', source')
  BY <1>2, <1>4, <1>5 DEF Kinds
<1> QED BY <1>3, <1>6, InvIsKindsNext

(* A step that finds no file.                                              *)
LEMMA MissingKeeps ==
  ASSUME Inv, Missing, FramesOK'
  PROVE  Inv'
<1>s. Inv
  OBVIOUS
<1>t. TypeOK
  BY DEF Inv
<1>1. Form \in Forms /\ Form.op = "load" /\ source.forms # <<>>
  BY <1>t, Consuming DEF Missing, Reads
<1>2. Front(Form.path) \in Seq(STRING)
  BY <1>1, FormsAreWellFormed, Parts
<1>3. vpath' \in Seq(STRING)
  BY <1>t, <1>2, ConcatProperties DEF Missing, Directory, TypeOK
<1> QED BY <1>s, <1>t, <1>1, <1>3, TakingKeeps DEF Missing, TypeOK

(* The end of a file takes the last source off the stack.                  *)
LEMMA EndKeeps ==
  ASSUME Inv, n_end
  PROVE  Inv'
<1>1. /\ Kinds(backup, source) /\ TypeOK
      /\ backup \in Seq(Sources) /\ Len(backup) \in Nat /\ (backup = <<>> <=> Len(backup) = 0)
  BY InvIsKinds, LenProperties, EmptySeq DEF TypeOK
<1>2. CASE source.file = <<>>
  <2>1. UNCHANGED <<source, backup, returned, frames, vpath, status>>
    BY <1>2 DEF n_end
  <2>2. TypeOK'
    BY <1>1, <2>1 DEF TypeOK
  <2> QED BY <1>1, <2>1, <2>2, InvIsKindsNext
<1>3. CASE source.file # <<>>
  <2>1. /\ source' = Last(backup) /\ backup' = Front(backup) /\ returned' = TRUE
        /\ UNCHANGED <<frames, vpath, status>>
    BY <1>3 DEF n_end
  <2>2. backup # <<>>
    BY <1>1, <1>3 DEF Kinds
  <2>3. /\ Front(backup) \in Seq(Sources) /\ Len(Front(backup)) = Len(backup) - 1
        /\ \A i \in 1 .. Len(backup) - 1 : Front(backup)[i] = backup[i]
        /\ Last(backup) \in Sources /\ Len(backup) \in Nat \ {0}
        /\ (Front(backup) = <<>> <=> Len(Front(backup)) = 0)
    BY <1>1, <2>2, Parts, EmptySeq
  <2>4. TypeOK'
    BY <1>1, <2>1, <2>3, LimitsAreNumbers DEF TypeOK
  <2>5. Last(backup) = backup[Len(backup)]
    BY DEF Last
  <2>6. Kinds(backup', source')
    BY <1>1, <2>1, <2>3, <2>5 DEF Kinds
  <2> QED BY <2>4, <2>6, InvIsKindsNext
<1> QED BY <1>2, <1>3

(* What the steps do to the frames of the loops.                           *)
LEMMA FramesFit ==
  ASSUME TypeOK
  PROVE  /\ \A f \in Frames : InFrame(f) => FramesOK'
         /\ Afresh => FramesOK'
         /\ \A s \in SUBSET STRING : Len(frames) < MaxFrames /\ frames' = Loop(s) => FramesOK'
         /\ UNCHANGED frames => FramesOK'
         /\ Innermost \in Frames
<1>1. frames \in Seq(Frames) /\ Len(frames) \in 1 .. MaxFrames /\ Len(frames) \in Nat
  BY LenProperties DEF TypeOK
<1>2. Innermost \in Frames
  BY <1>1, ElementOfSeq DEF Innermost, Last
<1>3. ASSUME NEW f \in Frames, InFrame(f)
      PROVE  FramesOK'
  BY <1>1, <1>3, ExceptSeq DEF InFrame, FramesOK
<1>4. ASSUME Afresh
      PROVE  FramesOK'
  <2>1. Frame({}, {}) \in Frames
    BY DEF Frame, Frames
  <2> QED BY <1>4, <2>1, LimitsAreNumbers DEF Afresh, FramesOK
<1>5. ASSUME NEW s \in SUBSET STRING, Len(frames) < MaxFrames, frames' = Loop(s)
      PROVE  FramesOK'
  <2>1. Frame(Innermost.procedures, Innermost.env \cup s) \in Frames
    BY <1>2 DEF Frame, Frames
  <2> DEFINE f == Frame(Innermost.procedures, Innermost.env \cup s)
  <2>2. frames' = Append(frames, f)
    BY <1>5 DEF Loop
  <2> HIDE DEF f
  <2>3. Append(frames, f) \in Seq(Frames) /\ Len(Append(frames, f)) = Len(frames) + 1
    BY <1>1, <2>1, AppendProperties DEF f
  <2> QED BY <1>1, <1>5, <2>2, <2>3, LimitsAreNumbers DEF FramesOK
<1>6. UNCHANGED frames => FramesOK'
  BY <1>1 DEF FramesOK
<1> QED BY <1>2, <1>3, <1>4, <1>5, <1>6

LEMMA StepKeeps == Inv /\ [Next]_vars => Inv'
<1> SUFFICES ASSUME Inv, [Next]_vars PROVE Inv'
  OBVIOUS
<1> USE DEF Reads
<1>t. TypeOK
  BY DEF Inv
<1>s. /\ FramesOK /\ vpath \in Seq(STRING)
      /\ returned \in BOOLEAN /\ status \in {"run", "quit", "fatal"}
  BY <1>t DEF TypeOK, FramesOK
<1>1. CASE Define
  <2>1. Form \in Forms /\ Form.op = "define" /\ source.forms # <<>>
    BY <1>1, <1>t, Consuming DEF Define
  <2>2. [Innermost EXCEPT !.procedures = @ \cup {Form.name}] \in Frames
    BY <2>1, <1>t, FramesFit, FormsAreWellFormed DEF Frames
  <2>3. FramesOK'
    BY <1>1, <1>t, <2>2, FramesFit DEF Define
  <2> QED BY <1>1, <1>s, <2>1, <2>3, TakingKeeps DEF Define
<1>2. CASE Definit
  <2>1. Form \in Forms /\ Form.op = "definit" /\ source.forms # <<>>
    BY <1>2, <1>t, Consuming DEF Definit
  <2>2. [Innermost EXCEPT !.env = @ \cup {Form.name}] \in Frames
    BY <2>1, <1>t, FramesFit, FormsAreWellFormed DEF Frames
  <2>3. FramesOK'
    BY <1>2, <1>t, <2>2, FramesFit DEF Definit
  <2> QED BY <1>2, <1>s, <2>1, <2>3, TakingKeeps DEF Definit
<1>3. CASE Bind
  BY <1>3, <1>s, <1>t, FramesFit, TakingKeeps DEF Bind
<1>4. CASE TooDeep \/ BindFails
  BY <1>4, <1>s, <1>t, FramesFit, TakingKeeps DEF TooDeep, BindFails, Exit
<1>5. CASE LoadIn
  <2>1. Form \in Forms /\ Form.op = "load"
    BY <1>5, <1>t, Consuming DEF LoadIn, Opens
  <2>2. FramesOK'
    BY <1>5, <1>t, <2>1, FramesFit, FormsAreWellFormed DEF LoadIn
  <2> QED BY <1>5, <2>2, OpeningKeeps DEF LoadIn
<1>6. CASE LoadNone
  <2>1. Form \in Forms /\ Form.op = "load"
    BY <1>6, <1>t, Consuming DEF LoadNone, Missing, Reads
  <2>2. FramesOK'
    BY <1>6, <1>t, <2>1, FramesFit, FormsAreWellFormed DEF LoadNone
  <2> QED BY <1>6, <2>2, MissingKeeps DEF LoadNone
<1>7. CASE StackOverflow
  <2>1. CASE Lost /\ source.forms # <<>>
    BY <2>1, <1>s, <1>t, FramesFit, TakingKeeps DEF Lost
  <2>2. CASE (Opens \/ Missing) /\ Afresh
    BY <2>2, <1>t, FramesFit, OpeningKeeps, MissingKeeps
  <2> QED BY <1>7, <2>1, <2>2 DEF StackOverflow
<1>8. CASE EndInside
  BY <1>8, <1>s, <1>t, FramesFit, TakingKeeps DEF EndInside, Lost
<1>9. CASE n_end
  BY <1>9, EndKeeps
<1>10. CASE Agent
  BY <1>10, <1>s, <1>t, FramesFit, TakingKeeps DEF Agent
<1>11. CASE Quit
  BY <1>11, <1>s, <1>t, FramesFit, TakingKeeps DEF Quit, Exit
<1>12. CASE Fatal
  BY <1>12, <1>s, <1>t, FramesFit, TakingKeeps DEF Fatal, Exit
<1>13. CASE UNCHANGED vars
  <2>1. TypeOK'
    BY <1>13, <1>t DEF vars, TypeOK
  <2> QED BY <1>13, <2>1, InvIsKinds, InvIsKindsNext DEF vars
<1> QED BY <1>1, <1>2, <1>3, <1>4, <1>5, <1>6, <1>7, <1>8, <1>9, <1>10,
           <1>11, <1>12, <1>13 DEF Next

(* The saved sources fit into os_env_backup, and the loops into the stack: *)
(* n_load() and n_end() never write or read outside them.                  *)
THEOREM TypeCorrect == Spec => []TypeOK
<1>1. Inv => TypeOK
  BY DEF Inv
<1> QED BY InitKeeps, StepKeeps, <1>1, PTL DEF Spec

(* n_end() always finds a source to go on with: reload_os_env() is never   *)
(* called with nothing saved, for any files, sessions and failures.        *)
THEOREM AlwaysASource == Spec => []StdinAtBottom
<1>1. Inv => StdinAtBottom
  BY DEF Inv
<1> QED BY InitKeeps, StepKeeps, <1>1, PTL DEF Spec

-----------------------------------------------------------------------------
(* RCCS_VPATH.  As long as no file has ended it is the directory of the    *)
(* source; when all the files are in one directory, it never moves.        *)
Relative == /\ read \in Seq(Forms)
            /\ ~returned => vpath = source.dir
            /\ Plain => /\ vpath = <<>> /\ source.dir = <<>>
                        /\ \A i \in DOMAIN backup : backup[i].dir = <<>>

(* What has been read grows by the form at hand.                           *)
LEMMA Reading ==
  ASSUME TypeOK, read \in Seq(Forms), source.forms # <<>>, read' = Append(read, Form)
  PROVE  /\ read' \in Seq(Forms) /\ Form \in Forms /\ Len(read) \in Nat
         /\ DOMAIN read = 1 .. Len(read) /\ DOMAIN read' = 1 .. Len(read) + 1
         /\ \A i \in DOMAIN read : read'[i] = read[i]
         /\ read'[Len(read) + 1] = Form
<1>1. Form \in Forms
  BY Consuming
<1> QED BY <1>1, AppendProperties, LenProperties

LEMMA PlainBefore ==
  ASSUME TypeOK, read \in Seq(Forms), source.forms # <<>>, read' = Append(read, Form), Plain'
  PROVE  Plain /\ (Form.op = "load" => Len(Form.path) = 1)
<1>1. /\ Len(read) \in Nat
      /\ DOMAIN read = 1 .. Len(read) /\ DOMAIN read' = 1 .. Len(read) + 1
      /\ \A i \in DOMAIN read : read'[i] = read[i]
      /\ read'[Len(read) + 1] = Form
  BY Reading
<1>2. \A i \in DOMAIN read' : read'[i].op = "load" => Len(read'[i].path) = 1
  BY DEF Plain
<1> QED BY <1>1, <1>2 DEF Plain

(* A path of one name stays where it is.                                   *)
LEMMA OneName ==
  ASSUME NEW p \in Seq(STRING), Len(p) = 1
  PROVE  Front(p) = <<>> /\ <<>> \o Front(p) = <<>>
<1>1. Front(p) = <<>>
  <2>1. SubSeq(p, 1, 0) = <<>>
    BY SubSeqEmpty
  <2> QED BY <2>1 DEF Front
<1> QED BY <1>1, EmptySeq, ConcatEmptySeq

LEMMA RelativeAtFirst == Init => Relative
<1> SUFFICES ASSUME Init PROVE Relative
  OBVIOUS
<1>1. vpath = <<>> /\ source.dir = <<>> /\ backup = <<>> /\ read = <<>>
  BY DEF Init
<1>2. read \in Seq(Forms)
  BY <1>1, EmptySeq
<1>3. \A i \in DOMAIN backup : FALSE
  BY <1>1
<1> QED BY <1>1, <1>2, <1>3 DEF Relative

(* A step that moves to no other source.                                   *)
LEMMA RelativeInPlace ==
  ASSUME TypeOK, Relative, source' \in {source, Consumed},
         backup' = backup, vpath' = vpath, returned' = returned,
         read' = read \/ (source.forms # <<>> /\ read' = Append(read, Form))
  PROVE  Relative'
<1>1. read' \in Seq(Forms) /\ (Plain' => Plain)
  <2>1. CASE UNCHANGED read
    BY <2>1 DEF Relative, Plain
  <2>2. CASE source.forms # <<>> /\ read' = Append(read, Form)
    BY <2>2, Reading, PlainBefore DEF Relative
  <2> QED BY <2>1, <2>2
<1>2. source'.dir = source.dir
  BY DEF Consumed, TypeOK, Sources
<1> QED BY <1>1, <1>2 DEF Relative

LEMMA RelativeOpening ==
  ASSUME TypeOK, Relative, Opens
  PROVE  Relative'
<1>1. source.forms # <<>> /\ Form.op = "load" /\ read' = Append(read, Form)
  BY DEF Opens, Reads
<1>2. Form \in Forms /\ read' \in Seq(Forms) /\ Consumed.dir = source.dir /\ Consumed \in Sources
  BY <1>1, Reading, Consuming DEF Relative, Consumed, TypeOK, Sources
<1>3. vpath' = vpath \o Front(Form.path) /\ source'.dir = vpath \o Front(Form.path)
  BY DEF Opens, Directory
<1>4. ASSUME Plain'
      PROVE  /\ vpath' = <<>> /\ source'.dir = <<>>
             /\ \A i \in DOMAIN backup' : backup'[i].dir = <<>>
  <2>1. Plain /\ Len(Form.path) = 1
    BY <1>1, <1>4, PlainBefore DEF Relative
  <2>2. Form.path \in Seq(STRING)
    BY <1>1, <1>2, FormsAreWellFormed
  <2>3. vpath = <<>> /\ source.dir = <<>> /\ \A i \in DOMAIN backup : backup[i].dir = <<>>
    BY <2>1 DEF Relative
  <2>4. vpath' = <<>> /\ source'.dir = <<>>
    BY <1>3, <2>1, <2>2, <2>3, OneName
  <2>5. backup \in Seq(Sources) /\ backup' = Append(backup, Consumed)
    BY DEF TypeOK, Opens
  <2>6. /\ Len(backup) \in Nat /\ DOMAIN backup = 1 .. Len(backup)
        /\ DOMAIN backup' = 1 .. Len(backup) + 1
        /\ \A i \in 1 .. Len(backup) : backup'[i] = backup[i]
        /\ backup'[Len(backup) + 1] = Consumed
    BY <1>2, <2>5, AppendProperties, LenProperties
  <2>7. \A i \in DOMAIN backup' : backup'[i].dir = <<>>
    BY <1>2, <2>3, <2>6
  <2> QED BY <2>4, <2>7
<1> QED BY <1>2, <1>3, <1>4 DEF Relative

LEMMA RelativeUnopened ==
  ASSUME TypeOK, Relative, Missing
  PROVE  Relative'
<1>1. /\ source.forms # <<>> /\ Form.op = "load" /\ read' = Append(read, Form)
      /\ source' = Consumed /\ returned' = TRUE /\ UNCHANGED backup
      /\ vpath' = vpath \o Front(Form.path)
  BY DEF Missing, Reads, Directory
<1>2. Form \in Forms /\ read' \in Seq(Forms) /\ Consumed.dir = source.dir
  BY <1>1, Reading DEF Relative, Consumed, TypeOK, Sources
<1>3. ASSUME Plain'
      PROVE  vpath' = <<>> /\ source'.dir = <<>> /\ Plain
  <2>1. Plain /\ Len(Form.path) = 1
    BY <1>1, <1>3, PlainBefore DEF Relative
  <2>2. Form.path \in Seq(STRING)
    BY <1>1, <1>2, FormsAreWellFormed
  <2> QED BY <1>1, <1>2, <2>1, <2>2, OneName DEF Relative
<1> QED BY <1>1, <1>2, <1>3 DEF Relative

LEMMA RelativeAtEnd ==
  ASSUME Inv, Relative, n_end
  PROVE  Relative'
<1>1. CASE source.file = <<>>
  <2>1. /\ source' \in {source, Consumed} /\ backup' = backup
        /\ vpath' = vpath /\ returned' = returned /\ read' = read
    BY <1>1 DEF n_end
  <2> QED BY <2>1, RelativeInPlace DEF Inv
<1>2. CASE source.file # <<>>
  <2>1. /\ source' = Last(backup) /\ backup' = Front(backup) /\ returned' = TRUE
        /\ UNCHANGED <<vpath, read>>
    BY <1>2 DEF n_end
  <2>2. backup \in Seq(Sources) /\ backup # <<>>
    BY <1>2, InvIsKinds DEF Kinds, TypeOK
  <2>3. /\ Len(backup) \in Nat \ {0} /\ DOMAIN backup = 1 .. Len(backup)
        /\ Front(backup) \in Seq(Sources) /\ Len(Front(backup)) = Len(backup) - 1
        /\ \A i \in 1 .. Len(backup) - 1 : Front(backup)[i] = backup[i]
    BY <2>2, Parts, LenProperties
  <2>4. DOMAIN Front(backup) = 1 .. Len(backup) - 1
    BY <2>3, LenProperties
  <2>5. read' \in Seq(Forms) /\ (Plain' => Plain)
    BY <2>1 DEF Relative, Plain
  <2>6. Plain => source'.dir = <<>> /\ \A i \in DOMAIN backup' : backup'[i].dir = <<>>
    BY <2>1, <2>3, <2>4 DEF Relative, Last
  <2> QED BY <2>1, <2>5, <2>6 DEF Relative
<1> QED BY <1>1, <1>2

LEMMA RelativeKept == Inv /\ Relative /\ [Next]_vars => Relative'
<1> SUFFICES ASSUME Inv, Relative, [Next]_vars PROVE Relative'
  OBVIOUS
<1>t. TypeOK
  BY DEF Inv
<1>1. CASE Define \/ Definit \/ Bind \/ Agent \/ EndInside
  BY <1>1, <1>t, RelativeInPlace DEF Define, Definit, Bind, Agent, EndInside, Lost, Reads
<1>2. CASE TooDeep \/ BindFails \/ Quit \/ Fatal
  BY <1>2, <1>t, RelativeInPlace DEF TooDeep, BindFails, Quit, Fatal, Reads
<1>3. CASE LoadIn
  BY <1>3, <1>t, RelativeOpening DEF LoadIn
<1>4. CASE LoadNone
  BY <1>4, <1>t, RelativeUnopened DEF LoadNone
<1>5. CASE StackOverflow
  BY <1>5, <1>t, RelativeInPlace, RelativeOpening, RelativeUnopened DEF StackOverflow, Lost, Reads
<1>6. CASE n_end
  BY <1>6, RelativeAtEnd
<1>7. CASE UNCHANGED vars
  <2>1. /\ source' \in {source, Consumed} /\ backup' = backup
        /\ vpath' = vpath /\ returned' = returned /\ read' = read
    BY <1>7 DEF vars
  <2> QED BY <2>1, <1>t, RelativeInPlace
<1> QED BY <1>1, <1>2, <1>3, <1>4, <1>5, <1>6, <1>7 DEF Next

(* Until a file has ended, or while no path names a directory, a path is   *)
(* looked up in the directory of the file it is written in, after loads    *)
(* that failed and after the driver has started over too.                  *)
THEOREM PathsAreRelative == Spec => []RelativeToFile
<1>1. Relative => RelativeToFile
  BY DEF Relative, RelativeToFile
<1> QED BY InitKeeps, StepKeeps, RelativeAtFirst, RelativeKept, <1>1, PTL DEF Spec

-----------------------------------------------------------------------------
(* The registry: which labels are in it, and which numbers epilogue() will *)
(* find there.                                                             *)
Entries == [label : Primitive \cup {f.name : f \in Forms},
            number : Nat \cup {f.number : f \in Forms},
            qualifier : {"FILE_SYS", "BREAK_POINT", "SYS_CALL"}]
Registered(label) == \/ label \in Primitive
                     \/ \E b \in Bindings : read[b].name = label
Closing == {registry[i].number : i \in {j \in DOMAIN registry : registry[j].label \notin Primitive}}
Booked == /\ registry \in Seq(Entries)
          /\ opened = 3 .. 2 + Cardinality(Connections)
          /\ \A label : mberLS(label) <=> Registered(label)
          /\ Closing = {Number(b) : b \in First}

LEMMA FewConnections ==
  ASSUME read \in Seq(Forms)
  PROVE  IsFiniteSet(Connections) /\ Cardinality(Connections) \in Nat
<1>1. Len(read) \in Nat /\ DOMAIN read = 1 .. Len(read)
  BY LenProperties
<1>2. Connections \in SUBSET (1 .. Len(read))
  BY <1>1 DEF Connections, Bindings
<1>3. IsFiniteSet(1 .. Len(read))
  BY <1>1, FS_Interval
<1>4. IsFiniteSet(Connections)
  BY <1>2, <1>3, FS_Subset
<1> QED BY <1>4, FS_CardinalityType

(* A form that is read leaves the bindings before it as they were.         *)
LEMMA EarlierBindings ==
  ASSUME TypeOK, read \in Seq(Forms), source.forms # <<>>, read' = Append(read, Form)
  PROVE  /\ \A b \in Bindings : /\ b \in Bindings' /\ read'[b] = read[b]
                                /\ Number(b)' = Number(b) /\ (Again(b)' <=> Again(b))
         /\ ~Binds(Form) => /\ Bindings' = Bindings /\ Connections' = Connections
                                /\ \A label : Registered(label)' <=> Registered(label)
<1> DEFINE n == Len(read) + 1
<1>1. /\ Len(read) \in Nat /\ DOMAIN read = 1 .. Len(read) /\ DOMAIN read' = 1 .. n
      /\ \A i \in DOMAIN read : read'[i] = read[i]
      /\ read'[n] = Form
  BY Reading
<1>2. /\ Bindings \subseteq 1 .. Len(read)
      /\ Bindings' = {i \in 1 .. n : Binds(read'[i])}
      /\ Connections' = {i \in Bindings' : read'[i].to \notin Numbered}
  BY <1>1 DEF Bindings, Connections
<1>3. \A b \in 1 .. Len(read) : /\ b \in Bindings' <=> b \in Bindings
                                /\ b \in Connections' <=> b \in Connections
  BY <1>1, <1>2 DEF Bindings, Connections
<1>4. ASSUME NEW b \in Bindings
      PROVE  /\ b \in Bindings' /\ read'[b] = read[b]
             /\ Number(b)' = Number(b) /\ (Again(b)' <=> Again(b))
  <2>1. b \in 1 .. Len(read) /\ read'[b] = read[b] /\ b \in Bindings'
    BY <1>1, <1>2, <1>3
  <2>2. /\ {j \in Connections' : j < b} = {j \in Connections : j < b}
        /\ {j \in Bindings' : j < b} = {j \in Bindings : j < b}
    <3>1. Connections \subseteq Bindings /\ Connections' \subseteq Bindings' /\ Bindings' \subseteq 1 .. n
      BY <1>2 DEF Connections
    <3>2. ASSUME NEW j \in 1 .. n, j < b
          PROVE  /\ j \in Bindings' <=> j \in Bindings
                 /\ j \in Connections' <=> j \in Connections
      <4>1. j \in 1 .. Len(read)
        BY <1>1, <2>1, <3>2
      <4> QED BY <4>1, <1>3
    <3>3. Bindings \subseteq 1 .. n /\ Connections \subseteq 1 .. n /\ Connections' \subseteq 1 .. n
      BY <1>1, <1>2, <3>1
    <3> QED BY <3>1, <3>2, <3>3
  <2>3. Number(b)' = Number(b)
    BY <2>1, <2>2 DEF Number
  <2>4. \A j \in Bindings : j < b => read'[j] = read[j]
    BY <1>1, <1>2
  <2>5. Again(b)' <=> Again(b)
    BY <2>1, <2>2, <2>4 DEF Again
  <2> QED BY <2>1, <2>3, <2>5
<1>5. ASSUME ~Binds(Form)
      PROVE  /\ Bindings' = Bindings /\ Connections' = Connections
             /\ \A label : Registered(label)' <=> Registered(label)
  <2>1. Bindings' = Bindings
    <3>1. n \notin Bindings'
      BY <1>1, <1>2, <1>5
    <3>2. \A i \in 1 .. n : i # n => i \in 1 .. Len(read)
      BY <1>1
    <3>3. Bindings' \subseteq 1 .. Len(read)
      BY <1>2, <3>1, <3>2
    <3> QED BY <1>2, <1>3, <3>3
  <2>2. Connections' = Connections
    BY <1>1, <1>2, <1>3, <2>1 DEF Connections
  <2>3. \A b \in Bindings : read'[b] = read[b]
    BY <1>4
  <2>4. \A label : Registered(label)' <=> Registered(label)
    BY <2>1, <2>3 DEF Registered
  <2> QED BY <2>1, <2>2, <2>4
<1> QED BY <1>4, <1>5

(* The binding that is read is one more, and may be the first of its       *)
(* label.                                                                  *)
LEMMA LatestBinding ==
  ASSUME TypeOK, read \in Seq(Forms), source.forms # <<>>, read' = Append(read, Form),
         Binds(Form), NEW n, n = Len(read) + 1
  PROVE  /\ Bindings' = Bindings \cup {n} /\ n \notin Bindings
         /\ Connections' = IF Form.to \in Numbered THEN Connections ELSE Connections \cup {n}
         /\ Again(n)' <=> Registered(Form.name)
         /\ Number(n)' = IF Form.to \in Numbered THEN Form.number ELSE 3 + Cardinality(Connections)
         /\ \A label : Registered(label)' <=> Registered(label) \/ label = Form.name
<1>1. /\ Len(read) \in Nat /\ DOMAIN read = 1 .. Len(read) /\ DOMAIN read' = 1 .. n
      /\ \A i \in DOMAIN read : read'[i] = read[i]
      /\ read'[n] = Form
  BY Reading
<1>2. \A b \in Bindings : b \in Bindings' /\ read'[b] = read[b]
  BY EarlierBindings
<1>3. Bindings \subseteq 1 .. Len(read) /\ n \notin Bindings /\ Connections \subseteq Bindings
  BY <1>1 DEF Bindings, Connections
<1>4. Bindings' = Bindings \cup {n}
  <2>1. DOMAIN read' = DOMAIN read \cup {n}
    BY <1>1
  <2>2. \A i \in DOMAIN read : Binds(read'[i]) <=> i \in Bindings
    BY <1>1 DEF Bindings
  <2>3. Binds(read'[n])
    BY <1>1
  <2>4. Bindings' = {i \in DOMAIN read \cup {n} : Binds(read'[i])}
    BY <2>1 DEF Bindings
  <2>5. Bindings \subseteq DOMAIN read
    BY DEF Bindings
  <2> QED BY <2>2, <2>3, <2>4, <2>5
<1>5. Connections' = IF Form.to \in Numbered THEN Connections ELSE Connections \cup {n}
  <2>1. Connections' = {b \in Bindings \cup {n} : read'[b].to \notin Numbered}
    BY <1>4 DEF Connections
  <2>2. \A b \in Bindings : read'[b].to \notin Numbered <=> b \in Connections
    BY <1>2 DEF Connections
  <2> QED BY <1>1, <1>3, <2>1, <2>2
<1>6. /\ {j \in Connections' : j < n} = Connections
      /\ \A j \in Bindings' : j < n <=> j \in Bindings
  <2>1. \A j \in Bindings : j < n
    BY <1>1, <1>3
  <2>2. ~ (n < n)
    BY <1>1
  <2> QED BY <1>3, <1>4, <1>5, <2>1, <2>2
<1>7. Again(n)' <=> Registered(Form.name)
  BY <1>1, <1>2, <1>6 DEF Again, Registered
<1>8. Number(n)' = IF Form.to \in Numbered THEN Form.number ELSE 3 + Cardinality(Connections)
  BY <1>1, <1>6 DEF Number
<1>9. \A label : Registered(label)' <=> Registered(label) \/ label = Form.name
  BY <1>1, <1>2, <1>4 DEF Registered
<1> QED BY <1>3, <1>4, <1>5, <1>7, <1>8, <1>9

(* At first there are the primitive labels.                                *)
LEMMA SequenceOfSet ==
  ASSUME NEW S, IsFiniteSet(S)
  PROVE  SetToSeq(S) \in Seq(S) /\ \A e : e \in S <=> \E i \in DOMAIN SetToSeq(S) : SetToSeq(S)[i] = e
<1> DEFINE n == Cardinality(S)
           f == SetToSeq(S)
<1>1. n \in Nat /\ ExistsBijection(1 .. n, S)
  BY FS_CardinalityType
<1>2. \E g \in [1 .. n -> S] : IsInjective(g)
  BY <1>1 DEF ExistsBijection, Bijection, Injection, IsInjective
<1>3. f \in [1 .. n -> S] /\ IsInjective(f)
  BY <1>2 DEF SetToSeq
<1>4. f \in Injection(1 .. n, S)
  BY <1>3 DEF Injection, IsInjective
<1>5. Cardinality(1 .. n) = n
  BY <1>1, FS_Interval
<1>6. f \in Surjection(1 .. n, S)
  BY <1>4, <1>5, FS_Injection
<1>7. f \in Seq(S)
  BY <1>1, <1>3, SeqDef
<1> HIDE DEF f
<1>8. \A e : e \in S <=> \E i \in DOMAIN f : f[i] = e
  BY <1>3, <1>6 DEF Surjection
<1> QED BY <1>7, <1>8 DEF f

LEMMA BookedAtFirst == Init => Booked
<1> SUFFICES ASSUME Init PROVE Booked
  OBVIOUS
<1> DEFINE entry == [l \in Primitive |-> [label |-> l, number |-> 0, qualifier |-> "FILE_SYS"]]
           S == {[label |-> l, number |-> 0, qualifier |-> "FILE_SYS"] : l \in Primitive}
<1>1. entry \in Surjection(Primitive, S)
  BY DEF Surjection
<1>2. IsFiniteSet(S)
  <2> HIDE DEF S, entry
  <2> QED BY <1>1, PrimitivesAreFew, FS_Surjection
<1>3. registry = SetToSeq(S) /\ opened = {} /\ read = <<>>
  BY DEF Init
<1>4. registry \in Seq(S) /\ \A e : e \in S <=> \E i \in DOMAIN registry : registry[i] = e
  <2> HIDE DEF S
  <2> QED BY <1>2, <1>3, SequenceOfSet
<1>5. Bindings = {} /\ Connections = {} /\ First = {}
  BY <1>3 DEF Bindings, Connections, First
<1>6. registry \in Seq(Entries)
  <2>1. S \subseteq Entries
    BY DEF Entries
  <2> HIDE DEF S
  <2> QED BY <1>4, <2>1, SeqMonotonic
<1>7. opened = 3 .. 2 + Cardinality(Connections)
  BY <1>3, <1>5, FS_EmptySet
<1>8. \A i \in DOMAIN registry : registry[i].label \in Primitive
  BY <1>4
<1>9. \A l \in Primitive : \E i \in DOMAIN registry : registry[i].label = l
  <2> SUFFICES ASSUME NEW l \in Primitive
               PROVE  \E i \in DOMAIN registry : registry[i].label = l
    OBVIOUS
  <2>1. [label |-> l, number |-> 0, qualifier |-> "FILE_SYS"] \in S
    OBVIOUS
  <2>2. PICK i \in DOMAIN registry :
          registry[i] = [label |-> l, number |-> 0, qualifier |-> "FILE_SYS"]
    <3> HIDE DEF S
    <3> QED BY <1>4, <2>1
  <2> QED BY <2>2
<1>10. \A label : mberLS(label) <=> Registered(label)
  BY <1>5, <1>8, <1>9 DEF mberLS, Registered
<1>11. Closing = {Number(b) : b \in First}
  BY <1>5, <1>8 DEF Closing
<1> QED BY <1>6, <1>7, <1>10, <1>11 DEF Booked

(* A step that binds no label.                                             *)
LEMMA BookedBesides ==
  ASSUME TypeOK, read \in Seq(Forms), Booked, registry' = registry, opened' = opened,
         \/ read' = read
         \/ source.forms # <<>> /\ read' = Append(read, Form) /\ ~Binds(Form)
  PROVE  Booked' /\ {Number(b) : b \in First}' = {Number(b) : b \in First}
<1>1. CASE read' = read
  <2>1. /\ Bindings' = Bindings /\ Connections' = Connections
        /\ \A label : Registered(label)' <=> Registered(label)
    BY <1>1 DEF Bindings, Connections, Registered
  <2>2. \A b \in Bindings : Number(b)' = Number(b) /\ (Again(b)' <=> Again(b))
    BY <1>1, <2>1 DEF Number, Again
  <2>3. {Number(b) : b \in First}' = {Number(b) : b \in First}
    BY <2>1, <2>2 DEF First
  <2>4. Closing' = Closing /\ \A label : mberLS(label)' <=> mberLS(label)
    BY DEF Closing, mberLS
  <2> QED BY <2>1, <2>3, <2>4 DEF Booked
<1>2. CASE source.forms # <<>> /\ read' = Append(read, Form) /\ ~Binds(Form)
  <2>1. /\ Bindings' = Bindings /\ Connections' = Connections
        /\ \A label : Registered(label)' <=> Registered(label)
    BY <1>2, EarlierBindings
  <2>2. \A b \in Bindings : Number(b)' = Number(b) /\ (Again(b)' <=> Again(b))
    BY <1>2, EarlierBindings
  <2>3. {Number(b) : b \in First}' = {Number(b) : b \in First}
    BY <2>1, <2>2 DEF First
  <2>4. Closing' = Closing /\ \A label : mberLS(label)' <=> mberLS(label)
    BY DEF Closing, mberLS
  <2> QED BY <2>1, <2>3, <2>4 DEF Booked
<1> QED BY <1>1, <1>2

(* A label is entered with its number, unless it is there.                 *)
LEMMA Entering ==
  ASSUME TypeOK, read \in Seq(Forms), Booked, source.forms # <<>>, read' = Append(read, Form),
         Binds(Form), NEW n, n = Len(read) + 1,
         NEW number \in Nat \cup {f.number : f \in Forms}, Number(n)' = number,
         NEW qualifier \in {"FILE_SYS", "BREAK_POINT", "SYS_CALL"},
         registry' = registry1(Form.name, number, qualifier)
  PROVE  /\ registry' \in Seq(Entries)
         /\ \A label : mberLS(label)' <=> Registered(label)'
         /\ Closing' = {Number(b) : b \in First}'
<1>1. /\ Bindings' = Bindings \cup {n} /\ n \notin Bindings
      /\ Again(n)' <=> Registered(Form.name)
      /\ \A label : Registered(label)' <=> Registered(label) \/ label = Form.name
  BY LatestBinding
<1>2. \A b \in Bindings : /\ b \in Bindings' /\ Number(b)' = Number(b) /\ (Again(b)' <=> Again(b))
  BY EarlierBindings
<1>3. Form \in Forms
  BY Reading
<1>4. /\ registry \in Seq(Entries) /\ \A label : mberLS(label) <=> Registered(label)
      /\ Closing = {Number(b) : b \in First}
  BY DEF Booked
<1>5. CASE Registered(Form.name)
  <2>1. registry' = registry
    BY <1>4, <1>5 DEF registry1
  <2>2. First' = First /\ First \subseteq Bindings
    BY <1>1, <1>2, <1>5 DEF First
  <2>3. {Number(b) : b \in First}' = {Number(b) : b \in First}
    BY <1>2, <2>2
  <2>4. \A label : mberLS(label)' <=> Registered(label)'
    BY <1>1, <1>4, <1>5, <2>1 DEF mberLS
  <2>5. Closing' = Closing
    BY <2>1 DEF Closing
  <2> QED BY <1>4, <2>1, <2>3, <2>4, <2>5
<1>6. CASE ~Registered(Form.name)
  <2> DEFINE e == [label |-> Form.name, number |-> number, qualifier |-> qualifier]
             k == Len(registry)
  <2>1. registry' = Append(registry, e)
    BY <1>4, <1>6 DEF registry1
  <2>2. e \in Entries
    BY <1>3 DEF Entries
  <2>3. Form.name \notin Primitive
    BY <1>6 DEF Registered
  <2>4. e.label = Form.name /\ e.number = number
    OBVIOUS
  <2> HIDE DEF e
  <2>5. /\ k \in Nat /\ DOMAIN registry = 1 .. k /\ DOMAIN registry' = 1 .. k + 1
        /\ \A i \in 1 .. k : registry'[i] = registry[i]
        /\ registry'[k + 1] = e /\ registry' \in Seq(Entries)
    BY <1>4, <2>1, <2>2, AppendProperties, LenProperties
  <2> HIDE DEF k
  <2>6. DOMAIN registry' = DOMAIN registry \cup {k + 1}
    BY <2>5
  <2>7. \A label : mberLS(label)' <=> mberLS(label) \/ label = Form.name
    BY <2>4, <2>5, <2>6 DEF mberLS
  <2>8. \A label : mberLS(label)' <=> Registered(label)'
    BY <1>1, <1>4, <2>7
  <2>9. Closing' = Closing \cup {number}
    <3> DEFINE D == {j \in DOMAIN registry : registry[j].label \notin Primitive}
    <3>1. /\ {j \in DOMAIN registry' : registry'[j].label \notin Primitive} = D \cup {k + 1}
          /\ \A j \in D : registry'[j] = registry[j]
      BY <2>3, <2>4, <2>5, <2>6
    <3>2. Closing' = {registry'[j].number : j \in D \cup {k + 1}}
      BY <3>1 DEF Closing
    <3>3. registry'[k + 1].number = number
      BY <2>4, <2>5
    <3>4. Closing = {registry[j].number : j \in D}
      BY DEF Closing
    <3> HIDE DEF D
    <3> QED BY <3>1, <3>2, <3>3, <3>4
  <2>10. First' = First \cup {n} /\ First \subseteq Bindings
    <3>1. First' = {b \in Bindings' : ~Again(b)'} /\ First \subseteq Bindings
      BY DEF First
    <3>2. n \in First'
      BY <1>1, <1>6, <3>1
    <3>3. \A b \in Bindings : b \in First' <=> b \in First
      BY <1>2, <3>1 DEF First
    <3> QED BY <1>1, <3>1, <3>2, <3>3
  <2>11. {Number(b) : b \in First}' = {Number(b) : b \in First} \cup {number}
    <3>1. {Number(b) : b \in First}' = {Number(b)' : b \in First'}
      OBVIOUS
    <3>2. \A b \in First : Number(b)' = Number(b)
      BY <1>2, <2>10
    <3> QED BY <2>10, <3>1, <3>2
  <2> QED BY <1>4, <2>5, <2>8, <2>9, <2>11
<1> QED BY <1>5, <1>6

LEMMA BookedBinding ==
  ASSUME TypeOK, read \in Seq(Forms), Booked, Bind
  PROVE  Booked'
<1> DEFINE n == Len(read) + 1
<1>1. source.forms # <<>> /\ read' = Append(read, Form) /\ Binds(Form) /\ Form \in Forms
  BY Reading DEF Bind, Reads, Binds
<1>2. IsFiniteSet(Connections) /\ Cardinality(Connections) \in Nat
  BY FewConnections
<1>3. Connection = 3 + Cardinality(Connections)
  <2>1. opened = 3 .. 2 + Cardinality(Connections)
    BY DEF Booked
  <2>2. Cardinality(opened) = Cardinality(Connections)
    BY <1>2, <2>1, FS_Interval
  <2> QED BY <2>2 DEF Connection
<1>4. PICK m : m = n
  OBVIOUS
<1>5. /\ Connections' = IF Form.to \in Numbered THEN Connections ELSE Connections \cup {m}
      /\ m \notin Bindings
      /\ Number(m)' = IF Form.to \in Numbered THEN Form.number ELSE 3 + Cardinality(Connections)
  BY <1>1, <1>4, LatestBinding
<1>6. CASE Form.to \in Numbered
  <2>1. /\ opened' = opened
        /\ \E qualifier \in {"BREAK_POINT", "SYS_CALL"} :
              registry' = registry1(Form.name, Form.number, qualifier)
    BY <1>6 DEF Bind, Connecting, Numbered
  <2>2. opened' = 3 .. 2 + Cardinality(Connections')
    BY <1>5, <1>6, <2>1 DEF Booked
  <2>3. Form.number \in {f.number : f \in Forms} /\ Number(m)' = Form.number
    BY <1>1, <1>5, <1>6
  <2> QED BY <1>1, <1>4, <2>1, <2>2, <2>3, Entering DEF Booked
<1>7. CASE Form.to \notin Numbered
  <2>1. registry' = registry1(Form.name, Connection, "FILE_SYS") /\ opened' = opened \cup {Connection}
    BY <1>7 DEF Bind
  <2>2. Cardinality(Connections') = Cardinality(Connections) + 1
    <3>1. m \notin Connections
      BY <1>5 DEF Connections
    <3> QED BY <1>2, <1>5, <1>7, <3>1, FS_AddElement
  <2>3. opened' = 3 .. 2 + Cardinality(Connections')
    BY <1>2, <1>3, <2>1, <2>2 DEF Booked
  <2>4. Connection \in Nat /\ Number(m)' = Connection
    BY <1>2, <1>3, <1>5, <1>7
  <2> QED BY <1>1, <1>4, <2>1, <2>3, <2>4, Entering DEF Booked
<1> QED BY <1>6, <1>7

LEMMA BookedKept ==
  TypeOK /\ Relative /\ Booked /\ ClosedAtExit /\ [Next]_vars => Booked' /\ ClosedAtExit'
<1> SUFFICES ASSUME TypeOK, Relative, Booked, ClosedAtExit, [Next]_vars
             PROVE  Booked' /\ ClosedAtExit'
  OBVIOUS
<1>r. read \in Seq(Forms)
  BY DEF Relative
<1>1. CASE \/ Define \/ Definit \/ LoadIn \/ LoadNone \/ StackOverflow \/ EndInside \/ Agent
  <2>1. /\ source.forms # <<>> /\ read' = Append(read, Form) /\ ~Binds(Form)
        /\ status = "run" /\ status' = status
        /\ registry' = registry /\ opened' = opened
    BY <1>1 DEF Define, Definit, LoadIn, LoadNone, StackOverflow, EndInside, Agent,
                 Opens, Missing, Lost, Reads, Binds
  <2>2. Booked'
    BY <1>r, <2>1, BookedBesides
  <2> QED BY <2>1, <2>2 DEF ClosedAtExit
<1>2. CASE Bind
  <2>1. status' = "run"
    BY <1>2 DEF Bind, Reads
  <2> QED BY <1>2, <1>r, <2>1, BookedBinding DEF ClosedAtExit
<1>3. CASE TooDeep \/ BindFails \/ Quit \/ Fatal
  <2>1. /\ source.forms # <<>> /\ read' = Append(read, Form) /\ ~Binds(Form)
        /\ registry' = registry /\ opened' = opened
        /\ closed' = Closing
    BY <1>3 DEF TooDeep, BindFails, Quit, Fatal, Exit, Closing, Reads, Binds
  <2>2. Booked' /\ {Number(b) : b \in First}' = {Number(b) : b \in First}
    BY <1>r, <2>1, BookedBesides
  <2>3. Closing = {Number(b) : b \in First}
    BY DEF Booked
  <2> QED BY <2>1, <2>2, <2>3 DEF ClosedAtExit
<1>4. CASE n_end \/ UNCHANGED vars
  <2>1. /\ read' = read /\ registry' = registry /\ opened' = opened
        /\ closed' = closed /\ status' = status
    BY <1>4 DEF n_end, vars
  <2>2. Booked' /\ {Number(b) : b \in First}' = {Number(b) : b \in First}
    BY <1>r, <2>1, BookedBesides
  <2> QED BY <2>1, <2>2 DEF ClosedAtExit
<1> QED BY <1>1, <1>2, <1>3, <1>4 DEF Next

(* epilogue() closes the connection, or the line of the breakpoint, that   *)
(* every label was bound to first, and nothing else: one that was opened   *)
(* for a label bound already stays open, however the program ends.         *)
THEOREM FirstBindingsClosed == Spec => []ClosedAtExit
<1>1. Init => ClosedAtExit
  BY DEF Init, ClosedAtExit
<1>2. Inv => TypeOK
  BY DEF Inv
<1> QED BY InitKeeps, StepKeeps, RelativeAtFirst, RelativeKept, BookedAtFirst, BookedKept,
           <1>1, <1>2, PTL DEF Spec

-----------------------------------------------------------------------------
(* The driver loop implements the inclusion of texts: for every file       *)
(* system, every session and every limit, what it reads and defines is     *)
(* what one text with its loads replaced by files would be.                *)

(* What the sources up to each one have left to read.                      *)
Above(sources, n, f) ==
  f = [k \in 0 .. n |-> IF k = 0 THEN <<>> ELSE sources[k].forms \o f[k - 1]]

LEMMA AboveTyped ==
  ASSUME NEW b \in Seq(Sources), NEW n \in 0 .. Len(b), NEW f, Above(b, n, f)
  PROVE  f \in [0 .. n -> Seq(Forms)]
<1> DEFINE G == {k \in Nat : k <= n => f[k] \in Seq(Forms)}
<1>1. Len(b) \in Nat /\ n \in Nat
  BY LenProperties
<1>2. /\ DOMAIN f = 0 .. n /\ f[0] = <<>>
      /\ \A k \in 1 .. n : f[k] = b[k].forms \o f[k - 1]
  BY <1>1 DEF Above
<1>3. 0 \in G
  BY <1>2, EmptySeq
<1>4. ASSUME NEW k \in Nat, k \in G
      PROVE  k + 1 \in G
  <2> SUFFICES ASSUME k + 1 <= n PROVE f[k + 1] \in Seq(Forms)
    OBVIOUS
  <2>1. f[k + 1] = b[k + 1].forms \o f[k] /\ f[k] \in Seq(Forms)
    BY <1>1, <1>2, <1>4
  <2>2. b[k + 1] \in Sources
    BY <1>1, ElementOfSeq
  <2>3. b[k + 1].forms \in Seq(Forms)
    BY <2>2 DEF Sources
  <2> QED BY <2>1, <2>3, ConcatProperties
<1>5. Nat \subseteq G
  <2> HIDE DEF G
  <2> QED BY <1>3, <1>4, NatSetInduction
<1>6. \A k \in 0 .. n : f[k] \in Seq(Forms)
  BY <1>1, <1>5
<1>7. f = [k \in 0 .. n |-> f[k]]
  BY DEF Above
<1> QED BY <1>6, <1>7

LEMMA AboveExists ==
  ASSUME NEW b \in Seq(Sources), NEW n \in 0 .. Len(b)
  PROVE  \E f : Above(b, n, f)
<1> DEFINE G == {k \in Nat : k <= Len(b) => \E f : Above(b, k, f)}
<1>1. Len(b) \in Nat
  BY LenProperties
<1>2. 0 \in G
  <2> DEFINE f == [k \in 0 .. 0 |-> <<>>]
  <2>1. f = [k \in 0 .. 0 |-> IF k = 0 THEN <<>> ELSE b[k].forms \o f[k - 1]]
    OBVIOUS
  <2> QED BY <2>1 DEF Above
<1>3. ASSUME NEW k \in Nat, k \in G
      PROVE  k + 1 \in G
  <2> SUFFICES ASSUME k + 1 <= Len(b) PROVE \E g : Above(b, k + 1, g)
    OBVIOUS
  <2>1. PICK f : Above(b, k, f)
    BY <1>1, <1>3
  <2> DEFINE g == [j \in 0 .. k + 1 |-> IF j = k + 1 THEN b[k + 1].forms \o f[k] ELSE f[j]]
  <2>2. /\ DOMAIN f = 0 .. k
        /\ \A j \in 0 .. k : f[j] = IF j = 0 THEN <<>> ELSE b[j].forms \o f[j - 1]
    BY <2>1 DEF Above
  <2>3. ASSUME NEW j \in 0 .. k + 1
        PROVE  g[j] = IF j = 0 THEN <<>> ELSE b[j].forms \o g[j - 1]
    <3>1. CASE j = k + 1
      <4>1. j # 0 /\ j - 1 = k /\ k \in 0 .. k + 1 /\ k # k + 1
        BY <3>1
      <4>2. g[j - 1] = f[k]
        BY <4>1
      <4> QED BY <3>1, <4>1, <4>2
    <3>2. CASE j # k + 1
      <4>1. j \in 0 .. k /\ (j # 0 => j - 1 \in 0 .. k /\ j - 1 # k + 1)
        BY <3>2
      <4>2. g[j] = f[j] /\ (j # 0 => g[j - 1] = f[j - 1])
        BY <3>2, <4>1
      <4> QED BY <2>2, <4>1, <4>2
    <3> QED BY <3>1, <3>2
  <2>4. g = [j \in 0 .. k + 1 |-> g[j]]
    OBVIOUS
  <2> HIDE DEF g
  <2>5. g = [j \in 0 .. k + 1 |-> IF j = 0 THEN <<>> ELSE b[j].forms \o g[j - 1]]
    BY <2>3, <2>4
  <2> QED BY <2>5 DEF Above
<1>4. Nat \subseteq G
  <2> HIDE DEF G
  <2> QED BY <1>2, <1>3, NatSetInduction
<1> QED BY <1>1, <1>4

(* Sources that agree have the same left to read.                          *)
LEMMA AboveAgrees ==
  ASSUME NEW b, NEW c, NEW n \in Nat, NEW m \in Nat, n <= m,
         \A i \in 1 .. n : b[i] = c[i],
         NEW f, Above(b, n, f), NEW g, Above(c, m, g)
  PROVE  f[n] = g[n]
<1> DEFINE G == {k \in Nat : k <= n => f[k] = g[k]}
<1>1. /\ f[0] = <<>> /\ g[0] = <<>>
      /\ \A k \in 1 .. n : f[k] = b[k].forms \o f[k - 1]
      /\ \A k \in 1 .. m : g[k] = c[k].forms \o g[k - 1]
  BY DEF Above
<1>2. 0 \in G
  BY <1>1
<1>3. ASSUME NEW k \in Nat, k \in G
      PROVE  k + 1 \in G
  <2> SUFFICES ASSUME k + 1 <= n PROVE f[k + 1] = g[k + 1]
    OBVIOUS
  <2>1. k + 1 \in 1 .. n /\ k + 1 \in 1 .. m /\ (k + 1) - 1 = k /\ k <= n
    OBVIOUS
  <2>2. f[k + 1] = b[k + 1].forms \o f[k] /\ g[k + 1] = c[k + 1].forms \o g[k]
    BY <1>1, <2>1
  <2> QED BY <1>3, <2>1, <2>2
<1>4. Nat \subseteq G
  <2> HIDE DEF G
  <2> QED BY <1>2, <1>3, NatSetInduction
<1> QED BY <1>4

(* Pending() is what the recursion of its definition says it is.           *)
LEMMA PendingIsAbove ==
  ASSUME NEW b \in Seq(Sources)
  PROVE  \E f : Above(b, Len(b), f) /\ Pending(b) = f[Len(b)]
<1> DEFINE F == CHOOSE f : Above(b, Len(b), f)
<1>1. Len(b) \in Nat
  BY LenProperties
<1>2. Above(b, Len(b), F)
  BY <1>1, AboveExists
<1>3. Pending(b) = F[Len(b)]
  BY DEF Pending, Above
<1> QED BY <1>2, <1>3

LEMMA PendingTyped ==
  ASSUME NEW b \in Seq(Sources)
  PROVE  Pending(b) \in Seq(Forms)
<1>1. PICK f : Above(b, Len(b), f) /\ Pending(b) = f[Len(b)]
  BY PendingIsAbove
<1>2. Len(b) \in Nat /\ Len(b) \in 0 .. Len(b)
  BY LenProperties
<1> QED BY <1>1, <1>2, AboveTyped

(* One source more: its forms come first.                                  *)
LEMMA PendingAppend ==
  ASSUME NEW b \in Seq(Sources), NEW s \in Sources
  PROVE  Pending(Append(b, s)) = s.forms \o Pending(b)
<1> DEFINE n == Len(b)
           c == Append(b, s)
<1>1. n \in Nat
  BY LenProperties
<1>2. /\ c \in Seq(Sources) /\ Len(c) = n + 1
      /\ \A i \in 1 .. n : c[i] = b[i]
      /\ c[n + 1] = s
  BY AppendProperties
<1>3. PICK f : Above(b, n, f) /\ Pending(b) = f[n]
  BY PendingIsAbove
<1> HIDE DEF c
<1>4. PICK g : Above(c, n + 1, g) /\ Pending(c) = g[n + 1]
  BY <1>2, PendingIsAbove
<1>5. f[n] = g[n]
  <2> HIDE DEF n
  <2>1. n + 1 \in Nat /\ n <= n + 1 /\ \A i \in 1 .. n : b[i] = c[i]
    BY <1>1, <1>2
  <2> QED BY <1>1, <1>3, <1>4, <2>1, AboveAgrees
<1>6. g[n + 1] = c[n + 1].forms \o g[n]
  <2> HIDE DEF n
  <2>1. n + 1 \in 0 .. n + 1 /\ n + 1 # 0 /\ (n + 1) - 1 = n
    BY <1>1
  <2> QED BY <1>4, <2>1 DEF Above
<1> QED BY <1>2, <1>3, <1>4, <1>5, <1>6 DEF c

-----------------------------------------------------------------------------
Text == Pending(Append(backup, source))
Defined == Innermost.procedures \cup Innermost.env

LEMMA TextOfSources ==
  ASSUME TypeOK
  PROVE  /\ Text = source.forms \o Pending(backup)
         /\ source.forms \in Seq(Forms) /\ Pending(backup) \in Seq(Forms)
<1>1. backup \in Seq(Sources) /\ source \in Sources
  BY DEF TypeOK
<1> QED BY <1>1, PendingAppend, PendingTyped DEF Text, Sources

LEMMA TextOfSourcesNext ==
  ASSUME TypeOK'
  PROVE  Text' = source'.forms \o Pending(backup')
<1>1. backup' \in Seq(Sources) /\ source' \in Sources
  BY DEF TypeOK
<1> QED BY <1>1, PendingAppend DEF Text

(* The form at hand is the front of the text.                              *)
LEMMA FormIsFront ==
  ASSUME TypeOK, source.forms # <<>>
  PROVE  /\ Text # <<>> /\ Head(Text) = Form
         /\ Tail(Text) = Consumed.forms \o Pending(backup)
<1>1. Consumed.forms = Tail(source.forms)
  BY DEF Consumed, TypeOK, Sources
<1> QED BY <1>1, TextOfSources, HeadOfConcat DEF Form

(* A form that is read and not replaced is taken from the text.            *)
LEMMA TextIsTaken ==
  ASSUME TypeOK, TypeOK', source.forms # <<>>, source' = Consumed, backup' = backup
  PROVE  Text # <<>> /\ Head(Text) = Form /\ Text' = Tail(Text)
BY FormIsFront, TextOfSourcesNext

(* A file that is opened comes in the place of the load.                   *)
LEMMA TextIsLoaded ==
  ASSUME TypeOK, TypeOK', Opens
  PROVE  /\ Text # <<>> /\ Head(Text) = Form
         /\ \E t \in Range(FileSystem) : Text' = t \o Tail(Text)
<1>1. source.forms # <<>>
  BY DEF Opens, Reads
<1>2. Consumed \in Sources /\ backup \in Seq(Sources)
  BY <1>1, Consuming DEF TypeOK
<1> DEFINE t == FileSystem[vpath \o Form.path]
<1>3. t \in Range(FileSystem) /\ source'.forms = t /\ backup' = Append(backup, Consumed)
  BY DEF Opens, Range
<1>4. Text' = t \o Pending(Append(backup, Consumed))
  BY <1>3, TextOfSourcesNext
<1>5. Pending(Append(backup, Consumed)) = Tail(Text)
  BY <1>1, <1>2, FormIsFront, PendingAppend
<1> QED BY <1>1, <1>3, <1>4, <1>5, FormIsFront

(* The end of a file takes nothing from the text.                          *)
LEMMA TextAtEnd ==
  ASSUME Inv, TypeOK', n_end
  PROVE  Text' = Text
<1>t. TypeOK
  BY DEF Inv
<1>1. CASE source.file = <<>>
  BY <1>1 DEF n_end, Text
<1>2. CASE source.file # <<>>
  <2>1. source.forms = <<>> /\ source' = Last(backup) /\ backup' = Front(backup)
    BY <1>2 DEF n_end
  <2>2. backup \in Seq(Sources) /\ backup # <<>>
    BY <1>2, InvIsKinds DEF Kinds, TypeOK
  <2>3. backup = Append(backup', source') /\ backup' \in Seq(Sources) /\ source' \in Sources
    BY <2>1, <2>2, FrontAndLast, Parts
  <2>4. Text = Pending(backup)
    BY <1>t, <2>1, TextOfSources, ConcatEmptySeq
  <2>5. Pending(backup) = Text'
    BY <2>3 DEF Text
  <2> QED BY <2>4, <2>5
<1> QED BY <1>1, <1>2

-----------------------------------------------------------------------------
(* What is defined is what the innermost loop knows.                       *)
LEMMA DefinedIs ==
  ASSUME TypeOK
  PROVE  /\ Innermost \in Frames
         /\ frames' = frames => Defined' = Defined
         /\ Afresh => Defined' = {}
         /\ \A f : InFrame(f) => Defined' = f.procedures \cup f.env
         /\ \A scope : frames' = Loop(scope) => Defined' = Defined \cup scope
<1>1. frames \in Seq(Frames) /\ Len(frames) \in 1 .. MaxFrames /\ Len(frames) \in Nat
  BY LenProperties DEF TypeOK
<1>2. Innermost \in Frames
  BY FramesFit
<1>3. frames' = frames => Defined' = Defined
  BY DEF Defined, Innermost
<1>4. Afresh => Defined' = {}
  BY DEF Afresh, Defined, Innermost, Last, Frame
<1>5. ASSUME NEW f, InFrame(f)
      PROVE  Defined' = f.procedures \cup f.env
  <2>1. DOMAIN frames = 1 .. Len(frames)
    BY <1>1, LenProperties
  <2>2. frames' = [frames EXCEPT ![Len(frames)] = f]
    BY <1>5 DEF InFrame
  <2>3. Len(frames') = Len(frames) /\ frames'[Len(frames)] = f
    BY <1>1, <2>1, <2>2
  <2> QED BY <2>3 DEF Defined, Innermost, Last
<1>6. ASSUME NEW scope, frames' = Loop(scope)
      PROVE  Defined' = Defined \cup scope
  <2> DEFINE f == Frame(Innermost.procedures, Innermost.env \cup scope)
  <2>1. frames' = Append(frames, f) /\ f.procedures \cup f.env = Defined \cup scope
    BY <1>6 DEF Loop, Frame, Defined
  <2> HIDE DEF f
  <2>2. Last(frames') = f
    BY <1>1, <2>1 DEF Last
  <2> QED BY <2>1, <2>2 DEF Defined, Innermost
<1> QED BY <1>2, <1>3, <1>4, <1>5, <1>6

-----------------------------------------------------------------------------
(* The steps of the inclusion, in terms of the loop.                       *)
LEMMA Takes ==
  ASSUME Text # <<>>, Head(Text) = Form, Text' = Tail(Text),
         Defined' = IF Form.op \in {"define", "definit"} THEN Defined \cup {Form.name} ELSE Defined
  PROVE  Included!Next
<1>1. Included!Take
  BY DEF Included!Take, Included!Defines, Text, Defined
<1> QED BY <1>1 DEF Included!Next

LEMMA Loads ==
  ASSUME Text # <<>>, Head(Text) = Form, Form.op = "load",
         NEW t \in Range(FileSystem) \cup {<<>>}, Text' = t \o Tail(Text),
         Defined' = Defined \cup Form.scope
  PROVE  Included!Next
<1>1. Included!Load
  BY DEF Included!Load, Text, Defined
<1> QED BY <1>1 DEF Included!Next

LEMMA StartsOver ==
  ASSUME Text # <<>>, Head(Text) = Form, Form.op \in {"load", "open"},
         NEW t \in Range(FileSystem) \cup {<<>>}, Text' = t \o Tail(Text),
         Defined' = {}
  PROVE  Included!Next
<1>1. Included!StartOver
  BY DEF Included!StartOver, Text, Defined
<1> QED BY <1>1 DEF Included!Next

(* Nothing is put in the place of a load that opens nothing.               *)
LEMMA Nothing ==
  ASSUME TypeOK, source.forms # <<>>
  PROVE  Tail(Text) = <<>> \o Tail(Text)
<1>1. Text \in Seq(Forms) /\ Text # <<>>
  BY TextOfSources, ConcatProperties, FormIsFront
<1>2. Tail(Text) \in Seq(Forms)
  BY <1>1, HeadTailProperties
<1> QED BY <1>2, ConcatEmptySeq

LEMMA StepImplements ==
  Inv /\ Inv' /\ [Next]_vars => [Included!Next]_(Included!vars)
<1> SUFFICES ASSUME Inv, Inv', [Next]_vars
             PROVE  Included!Next \/ (Text' = Text /\ Defined' = Defined)
  BY DEF Included!vars, Text, Defined
<1>t. TypeOK /\ TypeOK'
  BY DEF Inv
<1>1. CASE Define
  <2>1. /\ source.forms # <<>> /\ source' = Consumed /\ backup' = backup /\ Form.op = "define"
        /\ InFrame([Innermost EXCEPT !.procedures = @ \cup {Form.name}])
    BY <1>1 DEF Define, Reads
  <2>2. Text # <<>> /\ Head(Text) = Form /\ Text' = Tail(Text)
    BY <1>t, <2>1, TextIsTaken
  <2>3. Defined' = Defined \cup {Form.name}
    <3> DEFINE f == [Innermost EXCEPT !.procedures = @ \cup {Form.name}]
    <3>1. Defined' = f.procedures \cup f.env /\ Innermost \in Frames
      BY <1>t, <2>1, DefinedIs
    <3>2. f.procedures = Innermost.procedures \cup {Form.name} /\ f.env = Innermost.env
      BY <3>1 DEF Frames
    <3> QED BY <3>1, <3>2 DEF Defined
  <2> QED BY <2>1, <2>2, <2>3, Takes
<1>2. CASE Definit
  <2>1. /\ source.forms # <<>> /\ source' = Consumed /\ backup' = backup /\ Form.op = "definit"
        /\ InFrame([Innermost EXCEPT !.env = @ \cup {Form.name}])
    BY <1>2 DEF Definit, Reads
  <2>2. Text # <<>> /\ Head(Text) = Form /\ Text' = Tail(Text)
    BY <1>t, <2>1, TextIsTaken
  <2>3. Defined' = Defined \cup {Form.name}
    <3> DEFINE f == [Innermost EXCEPT !.env = @ \cup {Form.name}]
    <3>1. Defined' = f.procedures \cup f.env /\ Innermost \in Frames
      BY <1>t, <2>1, DefinedIs
    <3>2. f.procedures = Innermost.procedures /\ f.env = Innermost.env \cup {Form.name}
      BY <3>1 DEF Frames
    <3> QED BY <3>1, <3>2 DEF Defined
  <2> QED BY <2>1, <2>2, <2>3, Takes
<1>3. CASE Bind \/ Agent
  <2>1. /\ source.forms # <<>> /\ source' = Consumed /\ backup' = backup
        /\ Form.op \in {"bind", "agent"} /\ frames' = frames
    BY <1>3 DEF Bind, Agent, Reads
  <2>2. Text # <<>> /\ Head(Text) = Form /\ Text' = Tail(Text)
    BY <1>t, <2>1, TextIsTaken
  <2>3. Defined' = Defined
    BY <1>t, <2>1, DefinedIs
  <2> QED BY <2>1, <2>2, <2>3, Takes
<1>4. CASE TooDeep \/ BindFails \/ Quit \/ Fatal \/ UNCHANGED vars
  <2>1. source' = source /\ backup' = backup /\ frames' = frames
    BY <1>4 DEF TooDeep, BindFails, Quit, Fatal, vars
  <2> QED BY <1>t, <2>1, DefinedIs DEF Text
<1>5. CASE LoadIn
  <2>1. Opens /\ frames' = Loop(Form.scope) /\ Form.op = "load"
    BY <1>5 DEF LoadIn, Opens, Reads
  <2>2. /\ Text # <<>> /\ Head(Text) = Form
        /\ \E t \in Range(FileSystem) : Text' = t \o Tail(Text)
    BY <1>t, <2>1, TextIsLoaded
  <2>3. Defined' = Defined \cup Form.scope
    BY <1>t, <2>1, DefinedIs
  <2> QED BY <2>1, <2>2, <2>3, Loads
<1>6. CASE LoadNone
  <2>1. /\ source.forms # <<>> /\ source' = Consumed /\ backup' = backup
        /\ Form.op = "load" /\ frames' = Loop(Form.scope)
    BY <1>6 DEF LoadNone, Missing, Reads
  <2>2. Text # <<>> /\ Head(Text) = Form /\ Text' = <<>> \o Tail(Text)
    BY <1>t, <2>1, TextIsTaken, Nothing
  <2>3. Defined' = Defined \cup Form.scope
    BY <1>t, <2>1, DefinedIs
  <2> QED BY <2>1, <2>2, <2>3, Loads
<1>7. CASE StackOverflow \/ EndInside
  <2>1. Afresh
    BY <1>7 DEF StackOverflow, EndInside, Lost
  <2>2. Defined' = {}
    BY <1>t, <2>1, DefinedIs
  <2>3. source.forms # <<>> /\ Form.op \in {"load", "open"}
    BY <1>7 DEF StackOverflow, EndInside, Opens, Missing, Reads
  <2>4. CASE Opens
    BY <1>t, <2>2, <2>3, <2>4, TextIsLoaded, StartsOver
  <2>5. CASE Lost \/ Missing
    <3>1. source' = Consumed /\ backup' = backup
      BY <2>5 DEF Lost, Missing
    <3>2. Text # <<>> /\ Head(Text) = Form /\ Text' = <<>> \o Tail(Text)
      BY <1>t, <2>3, <3>1, TextIsTaken, Nothing
    <3> QED BY <2>2, <2>3, <3>2, StartsOver
  <2> QED BY <1>7, <2>4, <2>5 DEF StackOverflow, EndInside
<1>8. CASE n_end
  <2>1. Text' = Text
    BY <1>t, <1>8, TextAtEnd
  <2>2. frames' = frames
    BY <1>8 DEF n_end
  <2> QED BY <1>t, <2>1, <2>2, DefinedIs
<1> QED BY <1>1, <1>2, <1>3, <1>4, <1>5, <1>6, <1>7, <1>8 DEF Next

LEMMA InitImplements == Init => Included!Init
<1> SUFFICES ASSUME Init PROVE Included!Init
  OBVIOUS
<1>1. Innermost = Frame({}, {})
  BY DEF Init, Innermost, Last
<1> QED BY <1>1 DEF Included!Init, Frame

(* The driver loop, with its stack of sources, its frames, loads that fail *)
(* and starts over, implements the text that a session is with the files   *)
(* put in the places of their loads: no form is lost, repeated or read out *)
(* of order, and what is defined stays until the driver starts over.       *)
THEOREM LoadIsInclusion == Spec => InclusionSpec
<1>1. Spec => []Inv
  BY InitKeeps, StepKeeps, PTL DEF Spec
<1>2. Init => Included!Init
  BY InitImplements
<1>3. Inv /\ Inv' /\ [Next]_vars => [Included!Next]_(Included!vars)
  BY StepImplements
<1> QED BY <1>1, <1>2, <1>3, PTL DEF Spec, InclusionSpec, Included!Spec
===============================================================================
