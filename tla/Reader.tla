------------------------------- MODULE Reader -------------------------------
(***************************************************************************)
(* A user types a form; the parser reads it as it is typed, accepts it, or *)
(* leaves it at the first token it cannot use; an accepted form is written *)
(* by the printer, which is what the driver does with a form whose         *)
(* evaluation cannot begin.                                                *)
(***************************************************************************)
EXTENDS Printer, FiniteSetsExt

CONSTANTS Vocabularies,   \* records: how a form begins, how many phrases
                          \* follow, and the phrases (sequences of tokens)
          NoForm          \* the result while a form is being read

VARIABLES vocabulary, typed, count, result, shown
vars == <<vocabulary, typed, count, result, shown>>

(* The parser asks for the token after s: put an unusable one there, and   *)
(* it is consumed.                                                         *)
Asked(s) == parser(Source(s \o <<"@">>)).p.in = <<>>

(* What has been read when the parser stops in the phrase or after it.     *)
Typed(s, phrase) ==
  LET Read(k) == s \o SubSeq(phrase, 1, k)
      stops == {k \in DOMAIN phrase : ~Asked(Read(k))}
  IN  Read(IF stops = {} THEN Len(phrase) ELSE Min(stops))

Init == /\ vocabulary \in Vocabularies
        /\ typed = vocabulary.from
        /\ count = 0
        /\ result = NoForm
        /\ shown = <<>>

Type == /\ result = NoForm
        /\ count < vocabulary.max
        /\ count' = count + 1
        /\ \E phrase \in vocabulary.phrases :
             /\ typed' = Typed(typed, phrase)
             /\ result' = IF Asked(typed') THEN NoForm ELSE parser(Source(typed'))
        /\ UNCHANGED <<vocabulary, shown>>

Eof == /\ result = NoForm
       /\ result' = parser(Source(typed))
       /\ UNCHANGED <<vocabulary, typed, count, shown>>

(* The driver takes definitions and bindings before it evaluates anything. *)
Write == /\ result.st = "ok"
         /\ result.t[1] \notin {"DEF", "BIND", "DEFINIT"}
         /\ shown = <<>>
         /\ shown' = operand(result.t)
         /\ UNCHANGED <<vocabulary, typed, count, result>>

Next == Type \/ Eof \/ Write
Spec == Init /\ [][Next]_vars

-----------------------------------------------------------------------------
(***************************************************************************)
(* The parser against the grammar of the manual.  It accepts more: empty   *)
(* agents, definitions anywhere, fix, a comma after the last name and      *)
(* operators without an operand.                                           *)
(***************************************************************************)
G == INSTANCE Grammar

RECURSIVE Extended(_)
Extended(t) ==
  LET Some(ts) == \E i \in DOMAIN ts : Extended(ts[i]) IN
  CASE t \in {NIL, Empty} \/ t[1] \in {"DEF", "BIND", "DEFINIT", "CLS"} -> TRUE
    [] t[1] \in {"SEND", "RECV"} -> Extended(t[4]) \/ Some(t[3])
    [] t[1] = "CON" -> Some(t[3])
    [] t[1] \in {"RES", "REL"} -> t[3] = NIL \/ Extended(t[2])
    [] OTHER -> Some(Tail(t))
BeyondManual(t) ==
  CASE typed[2] \in {")", "bind"} -> FALSE
    [] typed[2] = "define"  -> t[3] = NIL \/ Extended(t[4])
    [] typed[2] = "definit" -> t[2] = NIL \/ \E i \in DOMAIN t[3] : Extended(t[3][i])
    [] OTHER                -> Extended(t)

(* The forms that are accepted are those of the grammar and these.         *)
AcceptedIsGrammar ==
  result.st = "ok" => (G!Derives("Command_Form", typed) <=> ~BeyondManual(result.t))

(* It accepts less: a list of names must not be empty, pairs of co-names   *)
(* are never accepted, and a name takes a parenthesis behind it for its    *)
(* arguments where it may begin the other agent of a conditional.          *)
Ends(s, e) == Len(s) >= Len(e) /\ SubSeq(s, Len(s) - Len(e) + 1, Len(s)) = e
RefusedByMistake(s) ==
  \/ \E x \in {"]", ","} : Ends(s, <<"[", x>>)
  \/ \E x \in {")", ","} : Ends(s, <<"definit", "(", x>>)
  \/ \E a \in Ids : Ends(s, <<"define", a, "(", ",">>)
  \/ \E a, b \in Ids : Ends(s, <<"~", a, "/", "~", b>>)
  \/ \E i, j \in 1 .. Len(s) - 1 : i < j /\ s[i] = "if" /\ s[j] \in Ids /\ s[j + 1] = "("
Rejected == result.st \in {"warning", "undefined"} /\ ~Asked(typed)

(* A form is left only where no form of the grammar can go on, these       *)
(* apart.                                                                  *)
GrammarIsAccepted ==
  Rejected /\ ~RefusedByMistake(typed) => ~G!Begins("Command_Form", typed)

(* What is written reads as what was read exactly when no operator needs   *)
(* the parentheses that are not written, and nothing is left out.          *)
Level(t) == IF t # NIL /\ t[1] \in ArithOps THEN CHOOSE n \in 1 .. 2 : t[1] \in Ops[n] ELSE 0
RECURSIVE PlainVal(_), PlainBool(_), Plain(_)
PlainVal(t) ==
  /\ t # NIL /\ t[1] \notin CompOps
  /\ t[1] \in BoolOps => PlainBool(t)
  /\ t[1] \in ArithOps => /\ PlainVal(t[2]) /\ PlainVal(t[3])
                          /\ Level(t[2]) <= Level(t) /\ Level(t[3]) < Level(t)
PlainBool(t) ==
  /\ t # NIL /\ t[1] \notin ArithOps
  /\ t[1] \in BoolOps => \A i \in 2 .. Len(t) : PlainBool(t[i])
  /\ t[1] \in CompOps => PlainVal(t[2]) /\ PlainVal(t[3])
Plain(t) ==
  /\ t[1] \notin {"RES", "REL", "CLS", "BIND", "DEFINIT"}
  /\ t[1] \in {"SEND", "CON"} => \A i \in DOMAIN t[3] : PlainVal(t[3][i])
  /\ t[1] = "RECV" => \A i \in DOMAIN t[3] : t[3][i] # NIL /\ Len(t[3][i]) = 1
  /\ t[1] = "DEF" => t[3] # NIL /\ Len(t[3]) <= 1
  /\ t[1] \in {"SEND", "RECV", "DEF"} => Plain(t[4])
  /\ t[1] \in {"++", "||"} => Plain(t[2]) /\ Plain(t[3])
  /\ t[1] = "IF" => PlainBool(t[2]) /\ Plain(t[3]) /\ Plain(t[4])
ReadsBack == /\ Prints(shown)
             /\ LET r == parser(Source(shown)) IN r.st = "ok" /\ r.t = result.t
RoundTrip == shown # <<>> => (ReadsBack <=> Plain(result.t))

(* An identifier that a form uses in one role has that role when the form  *)
(* is evaluated (a list of names that ends in a comma is forgotten).       *)
RECURSIVE Roles(_)
Roles(t) ==
  LET Acts(ids) == ToSet(ids) \X {"ACT"} IN
  CASE t[1] \in {"SEND", "RECV"} -> Acts(t[2]) \cup Roles(t[4])
    [] t[1] = "CON" -> {<<t[2][1], "A_CON">>}
    [] t[1] = "DEF" -> {<<t[2][1], "A_CON">>} \cup Roles(t[4])
                       \cup IF t[3] = NIL THEN {} ELSE Acts(t[3])
    [] t[1] \in {"++", "||"} -> Roles(t[2]) \cup Roles(t[3])
    [] t[1] = "IF"  -> Roles(t[3]) \cup Roles(t[4])
    [] t[1] = "RES" -> Roles(t[2]) \cup IF t[3] = NIL THEN {} ELSE Acts(t[3])
    [] t[1] = "REL" -> Roles(t[2]) \cup UNION {Acts(t[3][i]) : i \in DOMAIN t[3]}
    [] t[1] = "BIND" -> Acts(t[2])
    [] t[1] = "DEFINIT" -> IF t[2] = NIL THEN {} ELSE Acts(t[2])
    [] t[1] = "CLS" -> {<<t[2], "A_VAR">>} \cup Roles(t[3])
    [] OTHER -> {}
Role(id) == LET own == SelectSeq(result.p.marks, LAMBDA m : m[1] = id)
            IN  IF own = <<>> THEN "none" ELSE Last(own)[2]
NameForgotten == \E i \in 2 .. Len(typed) : typed[i - 1] = "," /\ typed[i] \in {"]", ")"}
RolesFit == result.st = "ok" /\ ~NameForgotten =>
  \A id \in Ids : LET used == {u[2] : u \in {v \in Roles(result.t) : v[1] = id}}
                  IN  Cardinality(used) = 1 => used = {Role(id)}
=============================================================================
