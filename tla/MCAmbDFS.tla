------------------------------ MODULE MCAmbDFS ------------------------------
(* Instances of AmbDFS for TLC: all programs of a small depth and width. *)
EXTENDS AmbDFS, FiniteSets

\* The program that first chooses one of the programs sub[0], sub[1], ...
Graft(sub) ==
  LET below(i) == {<<i>> \o s : s \in DOMAIN sub[i]}
  IN  [s \in {<<>>} \cup UNION {below(i) : i \in DOMAIN sub} |->
         IF s = <<>> THEN Cardinality(DOMAIN sub) ELSE sub[Head(s)][Tail(s)]]

RECURSIVE TreesOf(_, _)
TreesOf(depth, width) ==
  IF depth = 0 THEN {[s \in {<<>>} |-> 0]}
  ELSE UNION {{Graft(sub) : sub \in [0..(w - 1) -> TreesOf(depth - 1, width)]} : w \in 0..width}

MCTrees == TreesOf(3, 2) \cup TreesOf(2, 3)
=============================================================================
