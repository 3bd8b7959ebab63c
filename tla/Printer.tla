------------------------------- MODULE Printer -------------------------------
(***************************************************************************)
(* print.c writes the expression that a form has become.  The text is a    *)
(* sequence of tokens; FATAL in it stands for the call of error() that     *)
(* ends the program before anything is written.                            *)
(***************************************************************************)
EXTENDS Parser, SequencesExt

FATAL == "FATAL"
ArithOps == Ops[1] \cup Ops[2]

(* How a token is written: operators that have no sign of their own are    *)
(* nothing.                                                                *)
prtsym(tok) == CASE tok = "SEND" -> <<"~">>
                 [] tok = "DEF"  -> <<"define">>
                 [] tok = "IF"   -> <<"if">>
                 [] tok \in {"RECV", "CON", "RES", "REL", "CLS"} -> <<>>
                 [] OTHER -> <<tok>>

(* Arithmetic is written without parentheses, and a comparison may not be  *)
(* an operand of it, of a comparison, or the value of an output.           *)
RECURSIVE val_exp(_), bool_exp(_), operand(_)
val_exp(t) ==
  CASE t = NIL -> <<FATAL>>
    [] t[1] \in ArithOps -> val_exp(t[2]) \o prtsym(t[1]) \o val_exp(t[3])
    [] t[1] \in BoolOps  -> bool_exp(t)
    [] t[1] \in CompOps  -> <<FATAL>>
    [] OTHER -> prtsym(t[1])

bool_exp(t) ==
  CASE t = NIL -> <<FATAL>>
    [] t[1] \in CompOps -> <<"(">> \o val_exp(t[2]) \o prtsym(t[1]) \o val_exp(t[3]) \o <<")">>
    [] t[1] \in {"|", "&"} -> <<"(">> \o bool_exp(t[2]) \o prtsym(t[1]) \o bool_exp(t[3]) \o <<")">>
    [] t[1] = "!" -> prtsym(t[1]) \o bool_exp(t[2])
    [] t[1] \in ArithOps -> <<FATAL>>
    [] OTHER -> prtsym(t[1])

(* Arguments were built in reverse, and are written the other way round.   *)
Listed(texts) ==
  IF texts = <<>> THEN <<>>
  ELSE <<"(">> \o FoldLeft(LAMBDA text, e : text \o <<",">> \o e, Last(texts),
                           Tail(Reverse(texts))) \o <<")">>
(* Mutant: the arguments are written in the order they are kept in. *)
val_exp_ls_Kept(args) == Listed(Reverse([i \in DOMAIN args |-> val_exp(args[i])]))
val_exp_ls(args) == Listed([i \in DOMAIN args |-> val_exp(args[i])])
val_var(t) == IF t = NIL THEN <<FATAL>> ELSE prtsym(t[1])
val_var_ls(args) == Listed([i \in DOMAIN args |-> val_var(args[i])])

(* A definition shows one parameter of its list, a `bind' not its keyword. *)
Shown(ids) == CASE ids = NIL  -> <<FATAL>>
                [] ids = <<>> -> <<"(", ")">>
                [] OTHER      -> <<"(", ids[1], ")">>

operand(t) ==
  LET Par(text) == <<"(">> \o text \o <<")">> IN
  CASE t = Empty -> <<"(", ")">>
    [] t[1] = "RECV" -> Par(t[2] \o val_var_ls(t[3]) \o <<":">> \o operand(t[4]))
    [] t[1] = "SEND" -> Par(prtsym(t[1]) \o t[2] \o val_exp_ls(t[3]) \o <<":">> \o operand(t[4]))
    [] t[1] \in {"++", "||"} -> Par(operand(t[2]) \o prtsym(t[1]) \o operand(t[3]))
    [] t[1] = "DEF"  -> Par(prtsym(t[1]) \o t[2] \o Shown(t[3]) \o operand(t[4]))
    [] t[1] = "IF"   -> Par(prtsym(t[1]) \o <<"(">> \o bool_exp(t[2]) \o <<")">>
                            \o operand(t[3]) \o operand(t[4]))
    [] t[1] = "CON"  -> Par(t[2] \o val_exp_ls(t[3]))
    [] t[1] = "BIND" -> Par(t[2] \o t[3])
    [] t[1] \in {"CLS", "RES", "REL", "DEFINIT"} -> Par(<<FATAL>>)

Prints(text) == FATAL \notin ToSet(text)
=============================================================================
