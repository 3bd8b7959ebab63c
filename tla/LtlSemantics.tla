---------------------------- MODULE LtlSemantics ----------------------------
(***************************************************************************)
(* Linear temporal logic by its definition: where in a word that ends in a *)
(* loop a formula holds.  A word is a sequence of letters, the sets of the *)
(* propositions that hold, whose last letter is followed by letter `loop'. *)
(* A value is 1 or 0, what conditions are in the program: comparisons are  *)
(* those of truth values.                                                  *)
(***************************************************************************)
EXTENDS Naturals, Sequences, FiniteSets

Words(propositions, n) ==
  UNION {{[letters |-> l, loop |-> k] : l \in [1 .. m -> SUBSET propositions], k \in 1 .. m} : m \in 1 .. n}

Succ(w, i) == IF i = Len(w.letters) THEN w.loop ELSE i + 1

RECURSIVE Until(_, _, _)
(* The places from which b is reached through a.                           *)
Until(w, a, b) == LET c == b \cup {i \in a : Succ(w, i) \in b}
                  IN  IF c = b THEN b ELSE Until(w, a, c)

RECURSIVE Where(_, _)
Where(w, f) ==
  LET all == DOMAIN w.letters
      A == Where(w, f[2])
      B == Where(w, f[3])
  IN  CASE f[1] \in {"tt", "1"} -> all
        [] f[1] = "ff" -> {}
        [] f[1] = "("  -> A
        [] f[1] = "!"  -> all \ A
        [] f[1] \in {"AND", "&"} -> A \cap B
        [] f[1] \in {"OR", "|"}  -> A \cup B
        [] f[1] \in {"->", "<="} -> (all \ A) \cup B
        [] f[1] = "="  -> {i \in all : i \in A <=> i \in B}
        [] f[1] = "<"  -> B \ A
        [] f[1] = ">"  -> A \ B
        [] f[1] = ">=" -> A \cup (all \ B)
        [] f[1] = "X"  -> {i \in all : Succ(w, i) \in A}
        [] f[1] = "U"  -> Until(w, A, B)
        [] f[1] = "R"  -> all \ Until(w, all \ A, all \ B)
        [] f[1] = "<>" -> Until(w, all, A)
        [] f[1] = "[]" -> all \ Until(w, all, all \ A)
        [] OTHER -> {i \in all : f[1] \in w.letters[i]}

Holds(w, f) == 1 \in Where(w, f)
=============================================================================
