------------------------------ MODULE LtlBuchi ------------------------------
(***************************************************************************)
(* The translation of a formula (option -f) to an automaton in RCCS: the   *)
(* text is parsed, the tableau expanded node by node, and a definition     *)
(* written for each node, a chain of conditionals that ends in the node    *)
(* without a condition or in Abort.                                        *)
(***************************************************************************)
EXTENDS LtlParser, LtlSemantics

CONSTANT Texts      \* what may be given to -f: sequences of lexemes

VARIABLES text,       \* the formula
          rest,       \* lexemes still to be scanned, "EOT" at the end
          parser,     \* ltl_parser_state
          stack,      \* nodes that expand_node() has to look at, in order
          completed,  \* completed_nodes; a node is known by its place
          program,    \* the definitions, the one of _MC_START at the end
          status      \* "parse" | "expand" | "write" | "done" | "refused" |
                      \* "crash" | "fatal" | "two else" | "unwritten"
vars == <<text, rest, parser, stack, completed, program, status>>

Init == /\ text \in Texts /\ rest = Append(text, "EOT")
        /\ parser = Start
        /\ stack = <<>> /\ completed = <<>> /\ program = <<>>
        /\ status = "parse"

Parsed == Tree(parser.tokens, parser.top)
Formula == rewrite_to_basic_ops(Parsed)

(* ltl2ccs() feeds the parser up to the end of the text.                   *)
Parse == /\ status = "parse" /\ rest # <<>>
         /\ parser' = ltl_parse(parser, Head(rest))
         /\ rest' = Tail(rest)
         /\ status' = IF parser'.refused THEN "refused" ELSE status
         /\ UNCHANGED <<text, stack, completed, program>>

(* The incoming nodes of a node, 0 for _MC_START.                          *)
Node(incoming, new) == [incoming |-> incoming, old |-> <<>>, new |-> new, next |-> <<>>]
(* A missing operand is a null pointer: SIGSEGV, after which the driver    *)
(* starts over with the same formula, for ever.                            *)
Normalize == /\ status = "parse" /\ rest = <<>>
             /\ IF Misses(parser)
                THEN status' = "crash" /\ UNCHANGED stack
                ELSE status' = "expand" /\ stack' = <<Node(<<0>>, <<Formula>>)>>
             /\ UNCHANGED <<text, rest, parser, completed, program>>

-----------------------------------------------------------------------------
(* expand_node(): one call for the node on the top of the stack.           *)
SameContent(s, t) == /\ Len(s) = Len(t)
                     /\ \A f \in Range(s) \cup Range(t) :
                          Cardinality({i \in DOMAIN s : s[i] = f}) = Cardinality({i \in DOMAIN t : t[i] = f})
(* Mutated form: nodes that agree on what they require are the same.       *)
completed_nodes_comparator_Old(n, m) == SameContent(n.old, m.old)
completed_nodes_comparator(n, m) == SameContent(n.old, m.old) /\ SameContent(n.next, m.next)

(* Mutated form: the node is not added to the completed ones.              *)
Complete_Lost(n) ==
  /\ stack' = <<Node(<<Len(completed) + 1>>, n.next)>> \o Tail(stack)
  /\ UNCHANGED completed
Complete(n) ==
  LET same == {i \in DOMAIN completed : completed_nodes_comparator(completed[i], n)}
  IN  IF same # {}
      THEN /\ completed' = [completed EXCEPT ![CHOOSE i \in same : \A j \in same : i <= j].incoming = @ \o n.incoming]
           /\ stack' = Tail(stack)
      ELSE /\ completed' = Append(completed, n)
           /\ stack' = <<Node(<<Len(completed) + 1>>, n.next)>> \o Tail(stack)

(* What a formula that is taken from `new' makes of its node: one node,    *)
(* two, or none.                                                           *)
Add(n, new, next) == [n EXCEPT !.new = @ \o new, !.next = @ \o next]
Alternatives(m, t) ==
  CASE t[1] = "U"   -> <<Add(m, <<t[2]>>, <<t>>), Add(m, <<t[3]>>, <<>>)>>
    [] t[1] = "R"   -> <<Add(m, <<t[3]>>, <<t>>), Add(m, <<t[3], t[2]>>, <<>>)>>
    [] t[1] = "OR"  -> <<Add(m, <<t[2]>>, <<>>), Add(m, <<t[3]>>, <<>>)>>
    [] t[1] = "AND" -> <<Add(m, <<t[2], t[3]>>, <<>>)>>
    [] t[1] = "X"   -> <<Add(m, <<>>, <<t[2]>>)>>

Contradicts(n, t) == is_false(t) \/ <<"!", t>> \in Range(n.old)
Expanded(n, t) ==
  LET m == [n EXCEPT !.new = Tail(@)]
      k == [m EXCEPT !.old = Append(@, t)]
  IN  IF t \in Range(n.old) THEN <<m>>
      ELSE IF is_proposition(t) THEN IF Contradicts(n, t) THEN <<>> ELSE <<k>>
      ELSE Alternatives(k, t)

Unknown(n, t) == /\ t \notin Range(n.old) /\ ~is_proposition(t)
                 /\ t[1] \notin {"U", "R", "OR", "AND", "X"}
Expand ==
  /\ status = "expand" /\ stack # <<>>
  /\ LET n == Head(stack)
         t == Head(n.new)
     IN  IF n.new = <<>> THEN Complete(n) /\ UNCHANGED status
         ELSE IF Unknown(n, t) THEN status' = "fatal" /\ UNCHANGED <<stack, completed>>
         ELSE stack' = Expanded(n, t) \o Tail(stack) /\ UNCHANGED <<completed, status>>
  /\ UNCHANGED <<text, rest, parser, program>>

ExpandEnd == /\ status = "expand" /\ stack = <<>>
             /\ status' = "write"
             /\ UNCHANGED <<text, rest, parser, stack, completed, program>>

-----------------------------------------------------------------------------
required_propositions(n) == SelectSeq(n.old, is_proposition)

(* A node without a proposition is left out of what its predecessors write,*)
(* and a node that is reached in several ways appears several times.       *)
Times(n, i) == Cardinality({j \in DOMAIN n.incoming : n.incoming[j] = i})
outgoing(i) ==
  FlattenSeq([j \in DOMAIN completed |->
                IF required_propositions(completed[j]) = <<>> THEN <<>>
                ELSE [k \in 1 .. Times(completed[j], i) |-> j]])

calc_accept_states(n) ==
  \A u \in untils_from_ltl_formula(Formula) : u[3] \in Range(n.old) \/ u \notin Range(n.old)

(* Mutated form: a node that requires tt among others has no condition.    *)
Unconditional_Any(j) == \E f \in Range(required_propositions(completed[j])) : is_true(f)
Unconditional(j) == LET r == required_propositions(completed[j])
                    IN  Len(r) = 1 /\ is_true(r[1])
Target(j) == [props |-> required_propositions(completed[j]), accept |-> calc_accept_states(completed[j]), to |-> j]
Abort == 99
(* The end of a chain of conditionals, and a node that nothing follows.    *)
NoElse == [props |-> <<>>, accept |-> FALSE, to |-> Abort]
Nothing == [props |-> <<>>, accept |-> TRUE, to |-> Abort]

Definition(i) ==
  LET conditional == SelectSeq(outgoing(i), LAMBDA j : ~Unconditional(j))
      otherwise   == SelectSeq(outgoing(i), Unconditional)
  IN  [k \in DOMAIN conditional |-> Target(conditional[k])] \o
      IF otherwise # <<>> THEN <<[Target(otherwise[1]) EXCEPT !.props = <<>>]>>
      ELSE IF conditional # <<>> THEN <<NoElse>> ELSE <<Nothing>>

(* buchi2ccs(): one definition.  An assertion says that there is one node  *)
(* without a condition at most, another that `->' is not written.          *)
buchi2ccs ==
  /\ status = "write" /\ Len(program) <= Len(completed)
  /\ LET k == Len(program) + 1
         i == IF k <= Len(completed) THEN k ELSE 0
         unwritten == \E j \in Range(outgoing(i)) : \E f \in Range(required_propositions(completed[j])) : Implies(f)
     IN  IF Len(SelectSeq(outgoing(i), Unconditional)) > 1 THEN status' = "two else" /\ UNCHANGED program
         ELSE IF unwritten THEN status' = "unwritten" /\ UNCHANGED program
         ELSE /\ program' = Append(program, Definition(i))
              /\ status' = IF i = 0 THEN "done" ELSE status
  /\ UNCHANGED <<text, rest, parser, stack, completed>>

Stopped == status \in {"done", "refused", "crash", "fatal", "two else", "unwritten"} /\ UNCHANGED vars
Next == Parse \/ Normalize \/ Expand \/ ExpandEnd \/ buchi2ccs \/ Stopped
Spec == Init /\ [][Next]_vars /\ WF_vars(Next)
-----------------------------------------------------------------------------
CONSTANTS AllWords,   \* words that formulas are tried on
          Simple      \* texts whose definitions must be exact

Final == {"done", "refused", "crash", "fatal", "two else", "unwritten"}
G == INSTANCE LtlGrammar

(* The parser takes the texts in which operands and binary operators take  *)
(* turns, and no other, and reads them from the left: the tree of the      *)
(* token that all others hang from is the plain one.  It takes all texts   *)
(* of the manual, and reads as the manual does exactly those in which      *)
(* every operator may have all that stands to its left.                    *)
ParserDecides ==
  /\ status \in {"refused", "crash"} => G!Plain(text) = {} /\ G!Manual(text) = {}
  /\ status = "expand" /\ completed = <<>> /\ Len(stack) = 1 =>
       /\ G!Plain(text) = {Parsed}
       /\ G!Manual(text) # {} => (Parsed \in G!Manual(text) <=> ~G!Regrouped(text))

(* What Docs/manual-ltlgrm.tex says of the texts that it derives; it does  *)
(* not hold (<> p & q), and no run is kept for it.                         *)
ReadAsManual == status = "expand" /\ G!Manual(text) # {} => Parsed \in G!Manual(text)

(* A letter satisfies what a node requires.                                *)
Fits(props, letter) == \A f \in Range(props) : Holds([letters |-> <<letter>>, loop |-> 1], f)

(* The tableau as an automaton: a run moves from node to node along the    *)
(* edges, and accepting nodes come again and again.                        *)
RECURSIVE Closure(_, _, _)
Edges(w, v) == {<<k, Succ(w, v[2])>> : k \in {j \in DOMAIN completed :
                   /\ v[1] \in Range(completed[j].incoming)
                   /\ Fits(required_propositions(completed[j]), w.letters[Succ(w, v[2])])}}
Closure(w, known, front) ==
  IF front = {} THEN known
  ELSE LET new == UNION {Edges(w, v) : v \in front} \ known IN Closure(w, known \cup new, new)
TableauAccepts(w) ==
  LET first == {<<j, 1>> : j \in {i \in DOMAIN completed :
                  /\ 0 \in Range(completed[i].incoming)
                  /\ Fits(required_propositions(completed[i]), w.letters[1])}}
  IN  \E v \in Closure(w, first, first) :
        /\ calc_accept_states(completed[v[1]])
        /\ LET next == Edges(w, v) IN v \in Closure(w, next, next)

(* The nodes that expand_node() makes accept only words on which the       *)
(* formula holds, and all of them when it has one until at most: there is  *)
(* one set of accepting nodes, where all the untils are fulfilled at once. *)
TableauIsFormula ==
  status = "write" /\ program = <<>> =>
    \A w \in AllWords : /\ TableauAccepts(w) => Holds(w, Parsed)
                        /\ Cardinality(untils_from_ltl_formula(Formula)) < 2 =>
                             (Holds(w, Parsed) => TableauAccepts(w))

(* The definitions as they are evaluated: the first condition that holds   *)
(* decides.  accept: Abort accepts whatever follows.                       *)
Of(at) == program[IF at = 0 THEN Len(program) ELSE at]
Step(at, letter) ==
  IF at = Abort THEN NoElse
  ELSE LET k == SelectInSeq(Of(at), LAMBDA t : Fits(t.props, letter)) IN Of(at)[k]
RunAccepts(w) ==
  LET n == (Len(program) + 1) * Len(w.letters)
      place[i \in 0 .. 2 * n] == IF i = 0 THEN 1 ELSE Succ(w, place[i - 1])
      at[i \in 0 .. 2 * n] == IF i = 0 THEN 0 ELSE Step(at[i - 1], w.letters[place[i - 1]]).to
      Takes(i) == Step(at[i], w.letters[place[i]])
  IN  \/ \E i \in 0 .. n : Takes(i) = Nothing
      \/ \E i \in n .. 2 * n - 1 : Takes(i).accept

(* A definition says `accept: Abort' where nothing is left to be fulfilled.*)
(* It says so too where an obligation without a proposition is left (X p), *)
(* or one that cannot be fulfilled (ff).                                   *)
NoDeadEnd == \A i \in DOMAIN program :
               program[i] = <<Nothing>> => i < Len(program) /\ completed[i].next = <<>>

(* What the definitions accept satisfies the formula, and for a simple     *)
(* formula they accept all that does.  Other formulas lose words: the      *)
(* first condition that holds decides where the tableau has a choice.      *)
ProgramIsFormula ==
  status = "done" =>
    \A w \in AllWords : /\ NoDeadEnd => (RunAccepts(w) => Holds(w, Parsed))
                        /\ text \in Simple => (Holds(w, Parsed) => RunAccepts(w))

(* The expansion of every formula ends, and so does the rest.              *)
TranslationEnds == <>(status \in Final)

(* The assertion of buchi2ccs() on the node without a condition holds.     *)
OneElse == status # "two else"
=============================================================================
