# A TLA+ development of rccs

rccs (`src/`) is an interpreter and an LTL model checker for a language in the
style of CCS.  A program is typed or loaded form by form; an agent expression
is run by an evaluator written as one tail-recursive function with explicit
continuations, its processes communicate through a list of messages that the
documents call the channel, everything lives in a heap of cons cells with a
collector of its own, and a formula of LTL is checked by a nested depth-first
search over the product of the program and an automaton that is itself
translated into a process.  Outer actions connect a program to the terminal,
to sockets and, through GDB, to a C program under test.

Paths below are relative to the repository (`src/` in the map of
`PROJECT.json`), so `driver/driver.c` is `src/src/driver/driver.c`.

## 1. Inventory

| Component | State | Operations | Interacts with |
|---|---|---|---|
| Driver loop (`driver.c` driver_loop, driver1, driver; `ccs.c`, `error.c`) | `driver_env` (jump buffer), `interactive_mode`, `trace_on`, the list of definitions | read a form, define, eval, verify; longjmp on warnings; exit on fatal errors; start over after SIGSEGV | evaluator, verifier, file handler, gc (before each form) |
| Load (`osenv.c`, `n_load`) | stack of saved inputs (32 deep), search path `RCCS_VPATH` | push, pop, nested driver_loop | driver loop, file handler |
| Evaluator (`driver.c` eval ... resume) | none but the arguments of the call: expression, environment, continuation, channel | one branch per operator | channel, list ADT, outer actions |
| Value operators (`applyto*`, `primvalop_apply`) | none | arithmetic and comparison on tagged values | evaluator |
| Channel, list (`driver.c` n_bound_ch, lookup_ch1; `list.c` delete) | an immutable list of (label value) pairs | test, look up, insert, delete | evaluator, verifier |
| Channel, queue (`channel.c`, option `-q`) | a mutable queue | the same, in place | evaluator, verifier, gc |
| List ADT and heap (`list.c`) | the cells, FREE_LIST | car, cdr, cons, copy, append, delete | everything |
| Collector (`gc.c`) | colour of every cell, mark stack through `ref`, registers CONS and AX | gc_push, maintain_reg, gc_init, gc_mark_tail, sweep | list ADT, C stack |
| Verifier (`verifier.c`) | two queues of visited states, depth, number of counterexamples, `g_step_exec` | firstDFS, secondDFS and their per-operator parts | evaluator, channel, mc_interface, gc |
| LTL translation (`ltl/`) | tableau nodes | normalise, expand, postprocess, print as processes | driver loop, parser |
| Outer actions and registry (`ehand.c`, `primitive.c`) | hash table from labels to sockets, breakpoints, system calls | bind, send, recv, select, epilogue | evaluator, mc_interface |
| GDB histories (`mc_interface.c`, `gdb_control.c`) | list of states of the debugged program | mc_send, mc_recv, mc_back | verifier, pipe |
| GDB pipe (`debugger.c`, `mi_parser.c`) | non-blocking pipe, response buffer | send_to_gdb, get_gdb_response | histories |
| Parser, scanner, symbols (`parse/`) | look-ahead token, symbol table | recursive descent | file handler |
| File handler (`fhand.c`) | buffers, look-ahead ring | getch, enque, deque, initsf | scanner, load |
| Printer (`print/`) | none | | |

Hard to test, and what is right about each part:

* **Evaluator.**  One thread interleaves the processes of a parallel
  composition by rewriting a continuation, an expression with a hole.  Nothing
  in the types says that there is one hole, that a process which waits keeps
  its own environment while its sibling binds the same names, that every
  process gets a turn before eval() gives up, or that the walk ends.
* **Channel.**  `lookup`, `delete` and the test all stop at the first pair of a
  list that carries the label: they agree only while no label occurs twice.
  Messages must not vanish, be doubled or be invented.
* **Collector.**  Every list primitive runs a piece of the *next* collection
  (maintain_reg greys and stacks what it displaces from a register), so marking
  is spread over arbitrary program steps which may rewrite the heap, and a
  collection may start in the middle of cons().  Nothing reachable may be
  freed; a vacant cell is never lost; collections end.
* **Verifier.**  Two global queues of visited states stand for the stacks and
  hash tables of the textbook search; backtracking copies immutable channels
  but shares mutable ones; the search is cut by depth and by the number of
  counterexamples.  It should report an accepting path exactly where the
  product has one.
* **GDB histories.**  The recursion of the verifier and a list of states of
  another program have to stay in step.
  The program is brought back by running it again with the outputs that are
  left; breakpoints, answers of GDB and variables must be those of this run.
* **Pipe.**  The reader does not block and guesses the end of an answer from
  its text.  No command may read the answer to another one.
* **Driver loop and load.**  A loop never returns: `load` enters it again, the
  end of a file is met by the inner loop, a signal starts it from nothing.
  Definitions, sources, search path and registry have lives of their own.
* **Parser and printer.**  Text goes through a recursive descent whose only
  state is one token; an identifier is one symbol whose role the parser
  overwrites.  What is accepted should be the grammar of the manual, and what
  is printed should be read as the same form.
* **LTL translation.**  A formula is expanded to a graph of nodes that are
  merged when they look alike, and written as conditionals of which the first
  that holds decides.  The program should accept the words on which the
  formula holds.

`PROJECT.json` lists every such hazard at its line, with the properties that
cover it or the reason why none does yet.

## 2. Modules

| Module | Models | Used by |
|---|---|---|
| `MessageMedia` | abstract: one register per label | Channel, Processes, QueueChannel |
| `ChannelList` | the list operations of the default channel, as pure operators | Channel, Terms, QueueChannel |
| `Channel` | the default channel under inputs and outputs of any program, with history variables | MCChannel, Channel_proofs |
| `Channel_proofs` | theorems about Channel | |
| `CellQueue` | the queue of option `-q`, cell by cell, as operators on a header and pointers | QueueChannel |
| `QueueChannel` | that queue under the operands that the verifier explores one after the other | MCQueueChannel, QueueChannel_proofs |
| `QueueChannel_proofs` | theorems about QueueChannel | |
| `Gc` | heap, list primitives, collector | MCGc, Gc_proofs |
| `Gc_proofs` | theorems about Gc | |
| `Terms` | agent expressions; derivatives, closures, continuations, resume | Processes, Evaluator |
| `Processes` | abstract: a row of processes over MessageMedia | Evaluator |
| `Evaluator` | eval() and evalprefix() | MCEvaluator, Evaluator_proofs |
| `Evaluator_proofs` | theorems about Terms and Evaluator, which implements Processes | |
| `Automaton` | the automaton of a formula and its step in eval() | Product |
| `Product` | reference: the product of a program and an automaton by the rules of the language, without a search | Verifier |
| `Verifier` | the nested depth-first search | MCVerifier |
| `GdbPipe` | the answers of GDB as they are read from the pipe | McHistory |
| `McHistory` | bound outputs and inputs, the list of states, undoing | MCMcHistory, McHistory_proofs |
| `McHistory_proofs` | theorems about McHistory and GdbPipe | McReplay_proofs |
| `McReplay_proofs` | the theorem about undoing | |
| `Inclusion` | abstract: a session with loads as one text | Session |
| `Session` | driver loop, load, ends of files, registry, restart | MCSession, Session_proofs |
| `Session_proofs` | theorems about Session, which implements Inclusion | |
| `SequenceLemmas` | lemmas about sequences, recursive functions and the folds of the community modules | the proofs of Session, QueueChannel, McHistory and Evaluator |
| `Parser` | the recursive descent of `parse.c` | Printer, Reader |
| `Printer` | what is written for a form | Reader |
| `Grammar` | reference: the grammar of the manual | Reader |
| `Reader` | a form that is typed, read and written | MCText |
| `LtlParser` | the parser of formulas and the normal form | LtlBuchi |
| `LtlSemantics` | reference: where in a lasso a formula holds | LtlBuchi |
| `LtlGrammar` | reference: the trees of a text by the manual, and from the left | LtlBuchi |
| `LtlBuchi` | tableau, accepting nodes, definitions written | MCLtlBuchi |
| `MC...` | finite instances for TLC | the runs |

### Channel

State: `ch` is the argument `ch` of eval(), a sequence of records for the list
of pairs, newest first, or `Nil`, the C null pointer.  `sent` and `rcvd` are
history.  An action is one prefix, with the test that derivatives1() makes and
the update that evalprefix() makes: `SendInner`, `RecvInner`, `RecvOuter`
(which leaves the new channel NIL, `driver.c:1657`) and `TestNil` (the fatal
error of lookup_ch1 on a NIL channel).  The order of the prefixes is left
open: any program, any scheduler, and so also the branches of firstDFS1 and
secondDFS1, which make the same tests and updates on the immutable list.

### CellQueue, QueueChannel

`que` is the header of `channel.c` (car and cdr) with the pointers and messages
of its cells; the operators are the functions of the file.  The walks of
enque1(), q_first1() and q_remove1() are recursive functions over the number of
the call (`Walk`), bounded by the number of cells.  A new message takes any
cell that is not in the buffer (`Vacant`), as cons() may give it.  `QueueChannel` calls them as the verifier does.
firstDFS() explores the operands of a sum or composition one after the other
with the same channel argument (`Fork`, `Sibling`); the list of the default is
back in its old state for the second operand, the queue is what the first
operand has left.  `list` is history: the default channel under the same
actions since the search last returned.  A search with this queue is not
composed with `Verifier`, so it is not said here what its answers mean: that
the second operand starts with messages which another one has left is
what the code does.

### Gc

A program step is one call of a list primitive, a collector step one turn of a
loop.  `held` is the set of cells some word of the C stack points to (what the
conservative scan finds, so a stale word counts too: `Forget` may come
late or never).  `m` collects the colours, the mark stack (the chain through `ref`, top
first) and the registers CONS and AX.  cons() is split where it may call gc():
`cons` passes its arguments through AX, `Exhausted` starts the collection,
`makecell` takes the vacant cell; the arguments are live in between because
they are parameters of a running function (`call`).  `Queues` says whether
set_car() and set_cdr() are ever called (option `-q`).  `touched` is history:
what went through maintain_reg() since the last collection.

### Terms, Processes, Evaluator

The state of `Evaluator` is the argument list of the call of eval() that is
about to run (`exp`, `env`, `cont`, `ch`), the flag of the interactive mode,
the last output, how eval() has ended and, as history, the program that was
typed in.  A step is the body of one call up
to the next tail call; there is one action per branch, so `Park` is the branch
"no derivative, put it back into the continuation and start over from the
whole", and `AfterSend` the switch to the neighbouring process after an output.
`Terms` has the pure functions: `derivatives`, `resume` (fills *every* hole),
`make_cont`, `make_switch`, `make_cls`.  The empty list, which plays three
roles in the code (no continuation, hole, no expression), is `Hole` in all
three, so confusions between them stay possible in the model.  `BreakPoints` are
the outer labels that are bound to a breakpoint: as no program runs under GDB
here, an output to one is a warning and an input from one violates an assertion.
The ways in which a branch fails are actions of their own (`PrefixFails`,
`NoTarget`, `TestFails`, `IfFails`, `PrimitiveFails`, `UnfoldFails`).  An expression is
a tree of records; `Expression` is the set of those nested up to `Height`, and
what the code computes by recursion over a tree is a recursive function on that
set.  `derivatives` unfolds constants as well: `Tests` is one such function, given
the tests of the bodies of constants, and is iterated as often as there are
definitions, after which a constant has been met twice (`diverged`, section 6).

`Processes` states what the machinery is for: a row of processes, each with an
environment, that share `MessageMedia`; a step changes one process.  The
refinement mapping (`procs` in `Evaluator`) reads the row off the continuation
with the running expression put into its hole, and the registers off the list.
`Return`, `Park`, `ConStop`, `Open` and the descent into an operand of a
parallel composition must then be invisible, and every other step must be the
step of one process in its own environment.

### Automaton, Product, Verifier

The translator writes an automaton as more definitions of the program, a
conditional or a prefix `accept` per node; its step is eval() with
`g_step_exec` set, which evaluates at most two conditionals and, when a
variable is unbound, jumps back to the first of them (`driver.c:1902-1946`).
`Automaton` is that step.

`Verifier` models firstDFS, firstDFS1, firstDFS2 and their three twins.  The
functions call each other; `call` has the arguments of the call about to run,
`stack` the calls that still wait for a result: the second operand of a sum or
of a composition ("right"), the second search of an accepting state
("accept"), and firstDFS2 that drops that search's result ("drop").  Calls in
tail position replace `call`.  One action is a branch of a function up to the
next call or return; the twins share an action where they differ only in the
queue they use, and `Own` says which that is.  `queue` is what is behind the
two queue headers.  The functions pass and return pointers to them, which can
get crossed (`ConStop` returns the first queue from the second search, as the
code does), so `result` and `call.second` say which header is meant.
`g_emptyness`, `g_counter` and `g_step_exec` are the globals, with what a
longjmp() leaves in them.  History: `call.root`, the whole that is searched
below this call, and `seen`, what the search of this form has reported and
whether it cut a path.

The two queues are sets, since only membership is ever asked.  Both searches
call eval() for the step of the automaton; it is one step of the model, as
nothing else can run in between.  The `history` that is printed with a
counterexample is left out.

`Product` is not a translation.  It states the product from the rules of the
language: a node is a row of processes, a state of the automaton and the
messages in transit; outputs are silent, an input moves the automaton in the
environment in which the receiver waited (that is what the code passes to
eval()).  Constants are unfolded and environments reduced to what can be
looked up, since the code does not distinguish them either in what follows.
`Explored` compares the first queue with the reachable nodes of the product as
sets, so continuations, pruning and backtracking must neither lose nor invent
a state; `Verdict` says exactly when the answer is TRUE.

To see that the model is the program, the programs of the runs were also given
to rccs built from this source: the number of calls of firstDFS and secondDFS
that the model counts is the number that rccs prints as "states explored" for
every one that was compared, and each disagreement of section 5 shows there,
too.

### GdbPipe, McHistory

An operation on a bound label is a sequence of commands to GDB (`todo`), each
sent by `Issue` and answered through the pipe.  `Read` is one call of
get_gdb_response() with what is in the pipe at that moment: a scene says
whether an answer is always readable as a whole or may be cut anywhere.  An
answer is a sequence of pieces that are as fine as what the reader looks for;
`Discarded` counts the characters that are thrown away behind an end.
`history` is the list of states; `path` is history of the model, what the
verifier is below.  `Back` is mc_back(1) with the return of the search;
`Visited` is the second search that reads an input before it finds that it has
been there; `Leave` is a warning or the last counterexample.  `Display` is an
outer output that is not bound, for which mc_back(1) is called all the same.
`Serve` and `Stop` are GDB and the program under test, modelled from what rccs
relies on: temporary breakpoints, one answer at once and one at the stop, an
error when there is no program.

### Session

A state has the source that is read (the forms left, the file and its
directory), the sources below it, the frames of the loops inside each other
with their definitions, `RCCS_VPATH`, the registry, what was opened and closed.
A form is one step.  `LoadIn` enters a file and a loop; `LoadNone` enters a
loop only, for a file that cannot be opened (`Missing`); `n_end` goes back to
the source below in the same loop.  `Bind` gives a label a connection, the line
of a breakpoint or the index of a system call; an address of another kind or a
system call of no name ends the program (`BindFails`).
`StackOverflow` and `EndInside` are the two ways to SIGSEGV that were found:
frames that are never given back, and a file that ends inside a form.
`Inclusion` states what load promises, that a session is one text with the
forms of the files in the place of the loads; the mapping reads the text off the
stack of sources and the definitions off the innermost frame.

### Parser, Printer, Grammar, Reader

`Parser` has a function per function of `parse.c`, from a state to a tree or an
error and the state behind it; a state is the rest of the input, the
look-ahead token and the roles that addattr() has written.  A token is one
value.  `Reader` lets a user type phrase by phrase, in a vocabulary, until the
form is complete or the parser stops (`Typed` finds where).  `Grammar` is the
reference, written from the grammar of the manual and not from the code.  The
parser differs from it, and `AcceptedIsGrammar` and `GrammarIsAccepted` say
exactly where (section 5); the printer writes a form back exactly when
`Plain`, which says for which forms brackets are missing.

### LtlParser, LtlBuchi, LtlSemantics, LtlGrammar

`LtlParser` feeds the parser lexeme by lexeme.  `LtlGrammar` gives a text its
trees: `Plain` those of the reading in which unary operators bind closest and
binary ones are taken from the left, `Manual` those of
`Docs/manual-ltlgrm.tex`.  `ParserDecides` says that the parser takes what has
a plain tree, and builds that tree, brackets included; and that this tree is
one of the manual, for a text of the manual, exactly when its operators come
in the order in which they bind (`Regrouped` says when they do not).  `Expand` is one call of
expand_node() up to the next one; `stack` are the nodes it has still to look
at, in order.  `Complete` merges a node with one that has the same obligations,
`calc_accept_states`, `outgoing` and `Definition` are what is made of the
completed nodes.  The definitions that the model writes were compared with
those the built program writes for 1195 formulas, and are the same.
`LtlSemantics` evaluates a formula on a word that ends in a loop;
`TableauAccepts` and `RunAccepts` say what the nodes and what the definitions
accept.

## 3. Runs

| Run | Instance | Shows |
|---|---|---|
| `channel` | 2 inner labels and an outer one, 2 values, 3 messages per label | up to the first outer input: the bound of one message per label, nothing lost or doubled, refinement of MessageMedia |
| `queue` | 3 labels, 2 values, operands nested two deep, 3 interchangeable cells | the pointers stay those of a queue; the same answers as the list since the search last returned; refinement of MessageMedia, across operands |
| `gc` | 2 cells, lists and queues, 3 collections | safety of the collector, also with cells rewritten between collections and with cycles; exactly what it keeps; the first exhaustion is fatal; every collection ends |
| `eval` | 8 closed programs, 14 ill-formed programs or programs that read | one hole; refinement of Processes up to the error, if there is one; eval() gives up only when nothing can move and does not walk around for ever; closed programs meet no error, and `ClosedPrograms` says that exactly the first eight are closed |
| `verify_strong` | 13 closed programs, 4 formulas | the first search enters exactly the nodes of the product; the answer is TRUE exactly for an accepting node with one more input ahead |
| `verify_again` | weak acceptance, two forms in a row: the 8 programs without sums, loops, ill-formed programs | the same answer, with halting paths accepted; a path is ended only where the program halts; every search ends, by a visited state or at the depth limit; a form that ends in a warning, at the limit of counterexamples or by an error leaves nothing that changes the next answer |
| `verify_cycle` | one program | violation, section 5 |
| `debugger` | a program that passes its lines once and one that loops, 3 actions, answers whole; one with answers cut anywhere, 2 actions; one with everything that is not a bound action, too | the list of states is the path of the search; undoing restores the program; every answer is read by its command; an input never yields a stale value; an operation ends |
| `session` | up to 3 of 16 forms, 5 files in 2 directories, depth 3, 4 frames | standard input at the bottom of the sources; paths relative to the file; what is closed at exit; refinement of Inclusion; the prompt comes back |
| `text` | 7 vocabularies, up to 8 phrases | accepted are exactly the forms of the grammar and the listed extensions, refused only what cannot go on and the listed mistakes; read, written and read again; the role of an identifier |
| `ltl` | formulas of up to 3 operators over 2 propositions, in brackets and in rows, all texts of up to 4 of 7 lexemes and of up to 3 of 12; all lassos of up to 2 letters | what the parser takes and how it groups operators, against the manual; what tableau and definitions accept; the expansion ends |
| `ltl_else` | the same formulas | violation of an assertion, section 5 |

`Height`, how deep an expression may be nested, is 7 in the runs of `eval` and
`verify_...`.  A call of eval() with a deeper expression is left out of the
model; it would leave eval() running with no next step, which `Progress`
excludes.

Why the bounds are enough.  *Channel*: the operations look at one label at a
time and stop at the first match, so a second label (something in front of or
behind the match) and a second value (a pair with the same label that is not
equal) are the cases there are; three messages per label let a label be used
again after it was emptied.  The proofs remove the bound.  *Gc*: two cells suffice for a
shared cell, a cycle, a grey cell that is rewritten and a cell to be consed
while another lives; the third collection starts from a heap the first two
have shaped.  The proofs remove the bound here, too, except for `GcEnds`.  *Evaluator*: the programs, in `MCEvaluator.tla`, are
chosen so that each covers a mechanism (pipeline of loops, nested compositions
under prefixes with the same names on both sides, a sum as a memory cell, dynamic
scoping through a constant, mutual blocking, accept, abort, quit), every one
is run automatically and under every sequence of answers of an interactive
user, and every action of the module fires.  *Verifier*: the formulas are
`<>(x=1)`, `[]<>(x=1)`, `[](x=0)` and `(x=0) U (y=1)`, with the automata that
the translator writes for them (acceptance once, again and again, at every
step; `abort`; two guards in a row).  The programs have loops, values that
change, processes that appear under a prefix, conditionals, two receivers of
one message, sums, and two ways to one place with different states of the
automaton.  `DEPTH_LIMIT` is 6, or 4 where loops run into it, instead of 128: of a
search in which a path was cut there, `Explored` and `Verdict` say only that
nothing was invented, of the others that nothing is missing either.
`MAX_COUNTEREXAMPLES` is 1000 in `verify_strong`, so that every search
comes to its end, and 3, as in the program, elsewhere.  Two forms are enough for
what one leaves to the next, except for the counter, where it takes three
(section 5).  *Queue*: three labels make a first, a middle and a last cell;
one more value than a label needs shows a stale message; with operands
nested two deep one is left with another between.  *Debugger*: three actions
make a state with one above and one below it; a loop in the program reaches a
line again after undoing.  Answers that are cut are kept to two actions,
since every cut multiplies the states.  *Session*: three forms let one load be
followed by another and by a use of what both left; the files load to depth
two and, by themselves, to the limit.  *Text*: each vocabulary is a part of
the grammar with every token of it and one that does not belong there; the
bound is the number of phrases after the beginning of the form.  *Ltl*: two
untils, releases and nexts nested in each other, with a choice between two
propositions that may hold at once; rows of two and three operators, of every
level of the manual but sums, are the shortest in which two of them can be
grouped in two ways; the texts of `Simple` are all among them; lassos of two letters have a prefix and
a loop, or a loop of two.

Fairness.  rccs is one thread.  `FairSpec` of `Gc` is weak fairness of the
collector's own steps (once gc() was called nothing else runs until it
returns) and none for the program; `FairSpec` of `Evaluator` is weak fairness
of its next step, since eval() waits for nobody but the user, whose answers are
steps; `Progress` assumes that the user stops choosing.  `FairSpec` of
`Verifier` is weak fairness of the search: one thread that runs until
verifier() returns, while the forms come when the user types them.  There is
*no* fairness between the processes of a program: eval() prefers left
operands, a program may starve one of its processes, and nothing here says
otherwise.

`Fairness` of `McHistory` is weak fairness of rccs, which polls the pipe, of
GDB, which takes and answers commands, and of the program, which stops or
ends; none for the verifier's next action.  `OpEnds` excludes a program that
has ended, where rccs does wait for ever.  `Session` has weak fairness of
its next step: the loop reads on, and the user types.  `LtlBuchi` is a program
that runs to its end.

Deadlock checking is off where the system stops by itself: a channel is used
up, the collections of the model are bounded, eval() returns, a session quits,
a form is read, a bound on the number of actions is reached.  `ltl`
and `ltl_else` have it on; a translation that has ended stutters (`Stopped`).

## 4. Theorems

All are of the form `Spec => ...` for arbitrary values of the constants under the
named assumptions of the modules, which TLC evaluates on the instances.  They say
that the null pointers are no values, names, cells or lists (`NilIsNoValue`,
`NilIsNoList`, `NullIsNoCell`, `NullIsNoValue`, `NullIsNoMessage`,
`EpsIsNoCell`), that the heap of the queue and the table of primitives are finite
(`CellsAreFew`, `PrimitivesAreFew`), that bounds are numbers and flags flags (`MaxSendsIsNat`,
`QueuesIsFlag`, `LimitsAreNumbers`), and that files are lists of forms,
programs lists of lines or agent expressions, and definitions finitely many names
with parameters and a body, and that what is connected to a breakpoint is
bound (`BreakPointsAssumption`; `FilesHaveNames`, `TextsAreForms`,
`FormsAreWellFormed`, `ProgramsAreLists`, `ProgramsAssumption`, `TermsAssumption`).

Sequences, recursive functions and folds.  The library's induction theorems
have an operator as a parameter, which the provers cannot instantiate;
`SequenceLemmas` states induction over the numbers about sets instead
(`NatSetInduction`: a set with 0 and with every successor has every number), and
derives the existence of recursive functions (`PrefixRecursion`), least and
greatest numbers, and what `Reverse`, `RemoveAt` and `FlattenSeq` yield.  So what is
recursive over numbers or along a sequence is proved about: the walks of the
queue, the reader's count of characters, the text that is pending in the
sources, the script that repeats outputs.

*Channel_proofs.*  The inductive invariant is that the list is well typed,
that no two positions carry the same label, and that for every label what was
sent is what was received followed by what is pending.  The second part is
what makes lookup and delete speak of the same pair; without it the third is
not inductive.  From it follow `TypeOK`, `Bound`, `NotVanish` (when there are
no outer labels), `NotVanishBeforeOuter` (in general), and the refinement of
`MessageMedia`, for programs without outer inputs (`ImplementsMedia`) and, in
general, up to the outer input that loses the list
(`ImplementsMediaUntilOuter`).

*Gc_proofs.*  The inductive invariant `IInv` says, besides types: the free
list is the set of vacant cells; no cell in use leads to a vacant one, and
everything the program holds, has touched or has passed to cons() is in use;
the mark stack lists each grey cell once and no other cell, and no vacant cell
is grey, black or in a register (`MarksOK`).  Between collections nothing is
black, and the grey cells and the registers together are exactly what was
touched.  While marking (`MarkInv`), no root is white, no black cell leads to
a white one, and every closed set that contains the roots contains what is
grey or black.  The two halves depend on each other: maintain_reg() keeps the
stack in order only while it pushes cells in use, and the
roots of a collection are complete only because nothing the program touched
was dropped between a register and the stack.  It gives all properties of
`gc` but `GcEnds`, for any number of cells and collections, with and without
queues, and besides them `TypeOK`, `Conservation` (the free list is exactly
the set of vacant cells) and `GlayOnStack`, which no run repeats.

*QueueChannel_proofs.*  The inductive invariant `Agrees` is about the heap: the
cells of the buffer are distinct, each points to the next one and the last to
nothing, the header points to the first and the last (`Linked`), each carries a
message and no two the same label (`Carried`), and the messages are those of
`list`, the other way round.  That labels are distinct is needed because
q_remove1() looks for the message and q_first1() for the label; that vacant
cells are not in the buffer, because enque1() writes into the new cell before it
walks.  `WalkIs` says where the n-th call of a walk is, `WalkStops` where it ends.
For each of the two functions that change the queue there is a list of cells
of which the result is made (the old one and a cell, the old one without one),
and its uniqueness (`BufferIs`) makes it the buffer.  From it follow
`WellFormed`, `SameAsDefault` and the refinement of `MessageMedia`
(`QueueIsRegisters`), for any number of cells, labels and operands.

*Session_proofs.*  `AlwaysASource` and `TypeCorrect` are one inductive
invariant: types, the
depth of the saved sources, and that in the sequence of the saved sources and
the current one the first and only the first is the standard input.  The last
part is what makes n_end() find a source whenever a file ends; it needs the
types for the operations on sequences and the bound on the depth for
`TypeOK`.  The steps are treated by what they do to the sources: one form is
taken (`TakingKeeps`), a file is opened (`OpeningKeeps`) or not found
(`MissingKeeps`), a file ends (`EndKeeps`).  `PathsAreRelative` adds that
`RCCS_VPATH` is the directory of the source until the first file ends or cannot
be opened, and that with all files in one directory
every source has it (`Relative`).  `FirstBindingsClosed` adds what the registry
holds: a label is found in it exactly if it was ever bound, the numbers given to
connections are consecutive, and what epilogue() will find are the numbers of
the first bindings (`Booked`); it counts connections, so it needs that only
finitely many forms have been read.

`LoadIsInclusion`, in the second part of the module, is the refinement of `Inclusion`: the
text that one would read is what the sources have left, the innermost first.
The text and the definitions are folds over the stack of sources; the lemmas say
how they change when one form is taken (`TextIsTaken`), a file replaces a
load (`TextIsLoaded`), or a source ends (`TextAtEnd`), which is a stutter.

*McHistory_proofs.*  Three invariants with the types in `Typed`.  `PathInv`: the
list of states matches the path below which the verifier is, between the
operations; during a bound action the path is one ahead, during undoing it is
not; this gives `ListOfStatesIsPath` (`HistoryIsPath`).  `InputScript` and
`OneValue`: the script of an input ends in `print`; the answer to it or
the command itself lies in the pipe only while rccs waits for it, there is at
most one, and while it lies there the program stands where it was printed.
This gives `InputsAreFresh` (`NoStaleValue`), for answers that are cut anywhere and
lost: that a lost answer cannot be replaced by an older one is the point.
`StepInv`: with whole answers, what is in the pipe is nothing, the answer to
the command that rccs waits for, or the two answers of a command that lets the program
run.  The proof of `AnswersInStep` (`InStep`) has to show that the reader takes
exactly the six parts of the first of two answers, although it stops at the
newline behind `^running` and throws away what follows up to seven characters
(`AnswerRead`, `TwoAnswers`, `WholeRead`).

*McReplay_proofs.*  `UndoingRestores` (`Restored`) is about the whole search:
what mc_back(1) repeats may have been done many actions ago.  `Outcome` is what a
script makes of a program when each command is served and the program then runs to
its next stop; it is a recursion along the script, so it can be unfolded
command by command (`OutcomeOfMore`) but the order of steps in which rccs and GDB
get there must be followed by the invariant.  A list of states is a `Link` to a
place if its script leads there from wherever the program is started over:
to a stop without breakpoints left over, and to this very place if there are
no inputs in it.  The invariant `Restoring` says, as long as answers are whole and the
program has not ended (`Exact`):

- every beginning of the list of states is a link to the place where the action
  that follows it on the path began (`Chained`).  This must be known of all
  beginnings, because the search may return from any number of actions;
- during an operation the program is where the commands served so far lead to
  from where the operation began (`Replaying`); after `run` or `continue` it may
  still be on its way there (`Settled`);
- between operations it stands where it is marked to, without breakpoints
  (`gdb = At(Target)`).

An output makes the list longer by a link because repeating it takes the same
three commands (`LinkOfOutput`); a state whose variable was not set is a link too,
because its repetition ends rccs; an input makes a link to no place in
particular.  `InsertAnswered` is needed for the actions that are given up:
a refused breakpoint is one that the program does not have, so that
repeating the action would not stop there either.  The rest is in `StepInv` and
`PathInv`.  The hypotheses of `Exact` only exclude what `Restored` excludes, and
none of them can come back once it is lost (`ExactBefore`).

Two proofs that failed at first changed the models.  The guards of `Reply` overlapped,
so that CHOOSE, not the model, decided what GDB answers to a command for a
program that has ended.  The heap of `QueueChannel` had as many
cells as labels and CHOOSE gave the vacant one, so that the proof could not say
which cell a message gets and a heap that is full was never seen; cons() gives
any vacant cell now, and a heap may have fewer cells than there are labels.

*Evaluator_proofs.*  The first result is `ImplementsProcesses`: eval(), for any
programs, definitions, inputs and answers of an interactive user, is a row of
processes that share registers.  The inductive invariant `IInv`
(`Invariance`) has three parts.

- `Called`: what eval() is called with is an agent expression, without any hole,
  in an environment, and a continuation that is a `Context`: the hole alone, or a
  composition of one context and one operand that is `Suspended`, that is,
  a closure or a composition of such.  Both are needed.  One hole is what
  makes resume(), which fills every hole, put the expression into the one place that
  it came from (`ContinuationsHaveOneHole` is a consequence).  That the rest
  is suspended is what makes the environment of the call a matter of the
  running expression alone: the code changes it with every closure
  that it opens, and would change that of a sibling which is not closed
  (`LeavesSuspended`).
- `ChannelOK`: the list is well typed and no label occurs twice, as in
  `Channel_proofs`; otherwise delete() could take another message than
  lookup_ch1() has read.
- `Settled`: when eval() has returned there is no continuation and the whole
  expression has no derivative.  `ReturnsStuck` follows by going down the
  expression to its processes (`StuckParts`).

The argument is about positions in a row.  `Row` reads the row off an expression, an environment
and a continuation; putting the expression back into its hole leaves the row as
it is (`Returned`), closing it with its environment does not change it either
(`Closing`), going down into an operand only splits the row differently
(`ContextAround` says where the running process stands), and turning to the
neighbour after an output (`Switched`) fills one hole and makes another.  So the
moves of the walk are stutters, and a branch of eval() that does something
replaces the part of the row that is running by the processes of what it
becomes (`OneReplaced`, `OneMoved`): this is the step of `Processes` of that process.
More than half of the module is about the operators: what the recursive functions of `Terms` yield
for an expression from what they yield for its parts (`TermInduction`,
`FilledInIs`, `LeavesInIs`, `TestsIs`).  An expression of height n + 1 has parts
of height n, so this is induction over a number, and `Height` may be any number.

The refinement was first attempted with an abstract `Read` that left the
registers as they are.  This cannot be proved, because an outer input makes the channel
NIL (`driver.c:1657`), and TLC had not seen it: no program of `eval`
read from outside while a message was in transit.  `Read` empties the registers
now, and `eval` has such a program.

The third result is `ClosedProgramsRun`: a program that is closed ends in no
warning and no fatal error (`NoError`).  `Lacking` says what an expression
lacks: the variables that an environment has to bind, and `Nil` for what no
environment can repair: an input or output with another number of values than its
label carries, a constant with another number of arguments than parameters or without a
definition, an input from outside, a closure whose environment does not bind
what its body lacks.  A *typing* gives the number of values of each label and,
because eval() evaluates the body of a constant in the environment of its caller
extended by the parameters, the variables that a definition reads from its
caller.  `ClosedUnder` compares each definition with what the typing says of it
and is a property of the text: nothing is run.  That such a program
meets no error holds step by step (`Sober` is the invariant): what is running
lacks only what `env` binds, what is suspended lacks nothing, and every message
in transit has the number of values of its label.  The steps that have to be
right are those at which the environment changes: a closure that is opened
brings its own (`ClosureLacks`), an operand that is left behind is closed with the
one it was reached in (`ContLacks`, `SwitchLacks`), a prefix or a definition
extends the present one (`BoundlsKnown`, `ListKnown`), and a test of a
conditional is decided wherever its variables are bound (`TestsSound`).  Had
resume() or make_cont() a closure with the wrong environment, a variable that the program
binds would be found unbound.

*Only model-checked.*  Liveness: `GcEnds`, `Progress`, `SearchEnds`, `OpEnds`,
`PromptAgain` and `TranslationEnds`, which rest on fairness.  All of `Verifier`,
`Reader` and `LtlBuchi`: `Automaton`, `Product`, `Parser` and
`LtlParser` have operators that are recursive over the structure of
expressions, and the prover handles no module with such an operator; `Verdict` and
`Explored` are, besides, statements about the whole of a search, whose proof needs
induction over paths.

The prover takes two CASE expressions for equal that differ in a later branch only.
No proof rests on this: where a proof opens a definition with
alternatives, the definition is written with IF, or the proof has been checked with
IF in the place of CASE.

## 5. Disagreements with the documents and with assertions

Runs that are expected to fail:

* `verify_cycle`: `Docs/manual-en.tex:603-604` accept a history on which an
  accepting state appears infinitely often.  secondDFS2() looks for the state
  after one input in the queue of *all* states of the first search, so every
  accepting node with an input ahead is reported, cycle or not.
* `ltl_else`: `ltl/buchi-converter.c:27` asserts that a node has at most one
  successor without a condition; for `<>tt` or `<>p \/ <>q` there are two and
  the program aborts.

The following were met, too, and are seen in the built program.  No run is kept
for them; where a property is named, the modules have the property and the
program, and each is one cfg like `MCVerifier_cycle.cfg` away.

* `NotVanish` of `Channel`: `Docs/manual-en.tex:376` says that messages do not
  spontaneously vanish from a channel.  An input on an outer label (`key`, a
  socket) continues with a channel that was never assigned (`driver.c:1657`).
  All messages in transit are lost and the next inner prefix ends the program.
* `SumCommitsToMovingOperand` of `Evaluator`, with `Conditional`:
  `Docs/manual-sem.tex:69` and `:105` let a sum move as an operand that moves,
  and a conditional as its selected branch.  derivatives() answers TRUE for
  every conditional (`driver.c:804`), so a sum drops a right operand that could
  act for a conditional that is blocked.
* `SearchEnds` with `OuterForms`: in the second search the state of an outer
  output is not pushed (`verifier.c:311`, the call is commented out); a loop of
  outputs never ends.
* `NothingMissed` with `StaleForms`: outer outputs are remembered without their
  environment (`verifier.c:660`); the same output in another one is taken for
  visited, and an accepting cycle behind it is missed.
* `TruncatedOnlyWhenStuck` with `SumForms` and weak acceptance: the test for "a
  model cannot produce transition" (`verifier.c:715`) is repeated after a sum
  has dropped one operand; a blocked operand then counts as the end of the
  program and is reported.
* `LimitOfThisForm` with `FiniteForms` and `MaxForms = 3`: the counter of
  counterexamples survives the form (`verifier.c:196`, `:844`), so that the
  third form is ended after one.
* `StepReachesNode` with `GuardForms`: a step of the automaton evaluates two
  conditionals at most; a node with three guards is left half-way, and the
  next input decides the rest.
* `StepEnds` with `UnboundForms`: with two unbound guards the step jumps back
  for ever (`driver.c:1937`).
* `NoStaleJump` with `JumpForms`: `g_step_exec` stays set after a visited state
  (`verifier.c:557`); an unbound variable in the next operand jumps into a
  function that has returned.

* GDB: after the program has ended `continue` is answered once and
  wait_for_async_stop() waits for ever (`gdb_control.c:67`); a piece of an
  answer that was read without its end is lost, and a prompt cut behind
  `(gdb)` is waited for in vain; mc_back(1) after an output to the display
  deletes the state of an action above it; inputs are not repeated, so that
  the program stands earlier after undoing; a repeated output whose variable
  is not known violates an assertion; an error in answer to `print` ends in a
  null pointer; the search that is left by a warning leaves its states.
  `HistoryIsPath` and `Restored` exclude these by name (`Bound`, no `RECV`).
* Sessions: `RCCS_VPATH` is not set back when a file ends; the connection of a
  label that is bound twice is never closed, and lines of breakpoints and indices
  of system calls are closed as if they were descriptors; the form behind a `load` inside an
  agent is not evaluated; a file that ends inside a form makes the driver start
  over without definitions; files that load themselves end the program; at
  the end of standard input the loop reads on for ever.
* The parser accepts more than the grammar of the manual: empty agents inside
  forms, define, bind and definit inside agents, fix, a comma
  behind the last name (the list is forgotten), operators without an operand
  (`&a`, a `|` at the end).  It accepts less: `[ ]`, `definit ( )`,
  relabelling of co-names, and a conditional whose first agent is a name and
  whose second one is in parentheses, which are taken for its arguments.  A fix
  leaves one parenthesis to the next form.
* The printer writes no parentheses in arithmetic, one parameter of a
  definition, and gives up (fatal error) on a comparison as a value, on
  restriction and relabelling and on fix.
* `ReadAsManual` of `LtlBuchi`: `Docs/manual-ltlgrm.tex` has five levels of
  operators, the parser one.  It reads `p & q = p` as `(p & q) = p`, `<> p & q`
  as `(<> p) & q`, `p U q & r` as `(p U q) & r` and `p /\ q U r` as
  `(p /\ q) U r`, where the manual groups them the other way, and `[] x = 1` as
  `([] x) = 1`, which the translation then refuses with a fatal error.  It takes
  more: `R`, `! p` and path formulas as any operand (`p & ! q`, `<> ! <> p`).
* LTL: one of the words on which the formula holds is lost where several
  conditions hold at once (`p U q` when p and q hold), or where two untils are
  fulfilled in turn; `X p` and `ff` accept everything; a negated
  temporal operator, `&`, `|` or `->` over one is a fatal error, `p -> q`
  violates an assertion (`ltl-token.c:321`); so does a formula with a string
  twice (`ltl-token.c:99`), and is_true() follows a string as if it were the
  argument of a bracket (`ltl-token.c:173`, where LTL_BRACKETS is a type of
  token and not LTL_BRACKET); an operator without its left
  operand crashes the normaliser and the driver tries the same formula again.
  `ProgramIsFormula` says which formulas have exact definitions (`Simple`).

## 6. Not modelled, and limits of the models

* Unguarded recursion (`A = A + B`) makes derivatives() recurse without end;
  programs are assumed guarded.
* `isothers()` (`primitive.c`) reads past its table; the label `others` is not
  modelled.  A name that *begins* with abort aborts; two such names stand for all.
* `load` and `quit` end the model of eval() (status "driver"); `Session` goes on
  from there.
* `Verifier` has the immutable channel and no program under GDB; `QueueChannel`
  and `McHistory` have these two under the calls the search makes, without the
  search.  An outer input ends its search with a fatal
  error, since the new channel is NIL; so outer inputs occur only there.
* `Verdict` and `Explored` describe what the search does; they do not say that the answer is what the manual means
  (`TrueMeansCycle` and `NothingMissed` do, and do not hold).
* A program that aborts is run under strong acceptance only.  With weak
  acceptance the search does not take `abort` for the end of a path, since
  derivatives() answers TRUE for it (`driver.c:808`), while in `Product` a process
  that aborts stands still; the two are not compared.
* ChannelList has no target: under GDB lookup_ch1() does not look into the
  channel but asks for the value of a variable (`driver.c:412-416`).  GDB does
  not die: the end of file in its pipe (`debugger.c:263-266`), where
  the code writes six characters before the end of what it has read, even if
  that is nothing, does not occur.  Connections, once asked for, succeed;
  errexit() ends the program without closing any.
* No log is ever written: every call of initsf() passes NIL for its name, so the
  flush and close of `fhand.c:355-358` are never reached.
* Outer outputs have entries of their own in the first queue; `Explored` says
  nothing of a search that performed one (`seen.outer`).
* Values of one type only; display needs strings in the program, numbers
  stand for them here.
* The collector's scan of the C stack is a set of cells; alignment and the
  inclusive upper bound at `gc.c:193` are not modelled, nor the limits read
  from /proc.
* Formulas have no strings, and none of their texts in the runs a sum.
* Text below the level of lexemes is left out: scanner (`scan.c`,
  `ltl-scanner.c`), character buffers and the look-ahead ring (`fhand.c`), the
  hash tables of symbols and spellings (`shand.c`), the inside of MI results.
  So are sockets and system calls, the options of the command line, the
  drawing of automata and the history printed with a counterexample.
* Value operators (`driver.c:1171-1598`) are arithmetic and comparison on
  tagged values without state; only the comparison is modelled.
* Files that are not linked into the program (`list-improp.c`, tests) are not
  modelled.

## 7. Plan

Done: the core (`Channel`, `Gc`, `Evaluator`, `Verifier`), the queue, the
debugger interface, sessions, text and the translation of formulas; the proofs
about `Channel`, `Gc`, `QueueChannel`, `Session`, `McHistory` and `Evaluator`, with the
refinements of `MessageMedia` by both channels, of `Inclusion` by the driver
loop and of `Processes` by the evaluator.  Next, in this order:

1. The first search of `Verifier` over `Processes`: with the evaluator proved to
   be a row of processes, that every node is entered that the product reaches.
2. The search with the queue in the place of the list.
3. Value operators with the types of their operands.
