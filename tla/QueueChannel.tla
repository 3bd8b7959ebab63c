---------------------------- MODULE QueueChannel ----------------------------
(***************************************************************************)
(* The channel of option -q in the search of the verifier.  firstDFS()     *)
(* explores the two operands of a sum or a composition one after the       *)
(* other, with the same channel: the list of the default is restored when  *)
(* the first operand is done, because nobody changes a list; the queue is  *)
(* left as the first operand left it.                                      *)
(*                                                                         *)
(* `branches' keeps for every operand that is being explored whether its   *)
(* sibling has a channel; `list' is a history variable, the default        *)
(* channel updated by the same actions since the search last returned.     *)
(***************************************************************************)
EXTENDS CellQueue, SequencesExt

CONSTANTS Label, Value,
          MaxDepth   \* bound of the model: how many operands are nested
ASSUME NullIsNoValue == Null \notin Value
ASSUME NullIsNoMessage == Null \notin [label : Label, value : Value]

VARIABLES que,       \* the header and the cells
          ch,        \* "que", or "nil" after an outer input
          branches,  \* a stack: ch of the siblings that are still to come
          list       \* history
vars == <<que, ch, branches, list>>

Default == INSTANCE ChannelList WITH Nil <- Null

Messages == [i \in DOMAIN Buffer(que) |-> que.msg[Buffer(que)[i]]]
Vacant == Cell \ ToSet(Buffer(que))

Init == /\ que = make_que
        /\ ch = "que"
        /\ branches = <<>>
        /\ list = <<>>

(* cons() gives any cell that is vacant.                                   *)
SendInner(l, v) ==
  /\ ch = "que" /\ ~istrans_in_act(que, l)
  /\ \E c \in Vacant : que' = q_append(que, Default!Msg(l, v), c)
  /\ list' = Default!n_bound_ch(list, l, v)
  /\ UNCHANGED <<ch, branches>>

RecvInner(l) ==
  /\ ch = "que" /\ istrans_in_act(que, l)
  /\ LET m == Default!Msg(l, lookup_ch1(que, l))
     IN  /\ que' = q_remove(que, m)
         /\ list' = Default!delete(m, list)
  /\ UNCHANGED <<ch, branches>>

(* An input from outside goes on with a channel that is NIL, in this       *)
(* operand; the header of the queue is still there for the sibling.        *)
RecvOuter == /\ ch = "que"
             /\ ch' = "nil"
             /\ UNCHANGED <<que, branches, list>>

Fork == /\ Len(branches) < MaxDepth
        /\ branches' = Append(branches, ch)
        /\ UNCHANGED <<que, ch, list>>

(* The first operand is done: the sibling takes the same queue.            *)
Sibling == /\ branches # <<>>
           /\ ch' = Last(branches)
           /\ branches' = Front(branches)
           /\ list' = Reverse(Messages)
           /\ UNCHANGED que

Next == \/ \E l \in Label : RecvInner(l) \/ \E v \in Value : SendInner(l, v)
        \/ RecvOuter \/ Fork \/ Sibling
Spec == Init /\ [][Next]_vars
-----------------------------------------------------------------------------
(* The cells between car and cdr are the queue: no cell twice, the last    *)
(* one ends the walk and is the one that cdr points to.                    *)
WellFormed ==
  LET b == Buffer(que) IN
  /\ IsInjective(b)
  /\ que.cdr = IF b = <<>> THEN Null ELSE Last(b)
  /\ b # <<>> => que.next[Last(b)] = Null

(* Until the search returns, and again from there on, the queue holds the  *)
(* messages of the default channel in the order they were sent, so every   *)
(* test and lookup has the same answer with both implementations.          *)
SameAsDefault == Messages = Reverse(list)

(* The queue is one register per label; a sibling starts with the          *)
(* registers of the operand before it.                                     *)
slots == [l \in Label |-> lookup_ch1(que, l)]
Media == INSTANCE MessageMedia WITH Empty <- Null, slot <- slots
QueueIsMedia == Media!Spec
=============================================================================
