------------------------------ MODULE Channel ------------------------------
(***************************************************************************)
(* The default channel of rccs (channel_order = C_STACK): one immutable    *)
(* list `ch' of (label value) pairs, newest first, passed from call to     *)
(* call of eval().  A step is what eval() does with one prefix: the        *)
(* test made by derivatives1() and, when it succeeds, the update made by   *)
(* evalprefix() (firstDFS1() and secondDFS1() of the verifier make the     *)
(* same tests and the same updates).                                       *)
(*                                                                         *)
(* `sent' and `rcvd' are history variables: the values written to and read *)
(* from every label, in order.                                             *)
(***************************************************************************)
EXTENDS ChannelList

CONSTANTS
  Label,     \* the labels of inner actions
  Outer,     \* the labels that isouter_action() accepts: key, display, bound sockets
  Value,     \* the values that can be transmitted
  MaxSends   \* bound of the model: the number of values written per label

ASSUME NilIsNoValue == Nil \notin Value
ASSUME NilIsNoList == Nil \notin Seq([label : Label, value : Value])
ASSUME MaxSendsIsNat == MaxSends \in Nat

VARIABLES
  ch,        \* the list of messages in transit, or Nil
  status,    \* "running", or "fatal" once error(FATAL,..) has ended the program
  sent,      \* history: what was written to every label
  rcvd       \* history: what was read from every label

vars == <<ch, status, sent, rcvd>>

Message == [label : Label, value : Value]

TypeOK == /\ ch \in Seq(Message) \cup {Nil}
          /\ status \in {"running", "fatal"}
          /\ sent \in [Label -> Seq(Value)]
          /\ rcvd \in [Label -> Seq(Value)]
-----------------------------------------------------------------------------
Init == /\ ch = <<>>
        /\ status = "running"
        /\ sent = [l \in Label |-> <<>>]
        /\ rcvd = [l \in Label |-> <<>>]

(* Mutated form of SendInner: the sender does not wait for the reader.     *)
SendInner_NoWait(l, v) ==
  /\ status = "running" /\ ch # Nil
  /\ Len(sent[l]) < MaxSends
  /\ ch' = n_bound_ch(ch, l, v)
  /\ sent' = [sent EXCEPT ![l] = Append(@, v)]
  /\ UNCHANGED <<status, rcvd>>

(* SEND with an inner label: enabled when no message carries the label.    *)
SendInner(l, v) ==
  /\ status = "running" /\ ch # Nil
  /\ ~istrans_in_act(ch, l)
  /\ Len(sent[l]) < MaxSends
  /\ ch' = n_bound_ch(ch, l, v)
  /\ sent' = [sent EXCEPT ![l] = Append(@, v)]
  /\ UNCHANGED <<status, rcvd>>

(* Mutated form of RecvInner: the message is read and left in the list.    *)
RecvInner_Keep(l) ==
  /\ status = "running" /\ ch # Nil
  /\ istrans_in_act(ch, l)
  /\ Len(rcvd[l]) < MaxSends
  /\ rcvd' = [rcvd EXCEPT ![l] = Append(@, lookup_ch1(ch, l))]
  /\ UNCHANGED <<ch, status, sent>>

(* RECV with an inner label: enabled when a message carries the label; its *)
(* value is looked up and the pair of label and value is deleted.          *)
RecvInner(l) ==
  /\ status = "running" /\ ch # Nil
  /\ istrans_in_act(ch, l)
  /\ LET v == lookup_ch1(ch, l)
     IN  /\ ch' = delete(Msg(l, v), ch)
         /\ rcvd' = [rcvd EXCEPT ![l] = Append(@, v)]
  /\ UNCHANGED <<status, sent>>

(* RECV with an outer label (key, a socket): n_recv() gets the value and   *)
(* evalprefix continues with new_ch, which this branch left NIL.           *)
RecvOuter(l) ==
  /\ status = "running"
  /\ l \in Outer
  /\ ch' = Nil
  /\ UNCHANGED <<status, sent, rcvd>>

(* The test of any inner prefix on a NIL channel is a fatal error.         *)
TestNil(l) ==
  /\ status = "running" /\ ch = Nil
  /\ status' = "fatal"
  /\ UNCHANGED <<ch, sent, rcvd>>

InnerNext == \E l \in Label : \/ RecvInner(l)
                              \/ \E v \in Value : SendInner(l, v)

Next == \/ InnerNext
        \/ \E l \in Outer : RecvOuter(l)
        \/ \E l \in Label : TestNil(l)

Spec == Init /\ [][Next]_vars
-----------------------------------------------------------------------------
(* The messages in transit on a label.                                     *)
Pending(l) == IF ch = Nil \/ ~istrans_in_act(ch, l) THEN <<>>
              ELSE <<lookup_ch1(ch, l)>>

(* The bound theorem of the manual (0 <= length(m) <= 1 for every message  *)
(* medium m): two positions of the list never carry the same label, so     *)
(* lookup and delete, which stop at the first match, are about the same    *)
(* message.                                                                *)
OnePerLabel(c) == \A i, j \in 1..Len(c) : c[i].label = c[j].label => i = j
Bound == ch # Nil => OnePerLabel(ch)

(* Messages do not vanish from a channel, none is read twice and none is   *)
(* read that was not written: what was written to a label is what was read *)
(* from it followed by what is in transit.                                 *)
NotVanish == \A l \in Label : sent[l] = rcvd[l] \o Pending(l)

(* The fatal error of a NIL channel is never met by a program without      *)
(* outer input actions, and never before one was performed; as long as it  *)
(* was not, no message has vanished.                                       *)
NotVanishBeforeOuter == ch # Nil => NotVanish /\ status = "running"

(* The list implements one register per label, up to the outer input that  *)
(* loses it; without outer inputs MediaSpec holds as it stands.            *)
slots == [l \in Label |-> IF ch = Nil THEN Nil ELSE lookup_ch1(ch, l)]
Media == INSTANCE MessageMedia WITH Empty <- Nil, slot <- slots
MediaSpec == Media!Spec
MediaUntilOuter == Media!Init /\ [][ch' = Nil \/ Media!Next]_slots
=============================================================================
