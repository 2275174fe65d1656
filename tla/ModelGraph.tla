----------------------------- MODULE ModelGraph -----------------------------
(***************************************************************************)
(* The graph of memory models, src/memmodel/graph.go: a node is a number    *)
(* from 1, or a set of them once nodes are collapsed, and a graph is its    *)
(* set of edges.                                                            *)
(***************************************************************************)
EXTENDS Naturals, Sequences, SequencesExt, FiniteSets

CONSTANT N    \* the nodes are 1..N

Nodes == 1..N
From(i) == [k \in 1..(N - i + 1) |-> i + k - 1]

\* The nodes after id, in order, that are connected both ways to all so far.
Clique(g, have, id) ==
  FoldLeft(LAMBDA clique, oid :
             IF oid \notin have /\ \A c \in clique : <<c, oid>> \in g /\ <<oid, c>> \in g
             THEN clique \cup {oid} ELSE clique,
           {id}, From(id + 1))

MaximalCliques(g) ==
  FoldLeft(LAMBDA cliques, id :
             IF id \in UNION cliques THEN cliques
             ELSE cliques \cup {Clique(g, UNION cliques, id)},
           {}, From(1))

\* Edges within a group go, except self-edges.
CollapseNodes(g, groups) ==
  {e \in groups \X groups :
     \E i \in e[1], j \in e[2] : <<i, j>> \in g /\ (e[1] = e[2] => i = j)}

Out(g, n) == {e[2] : e \in {x \in g : x[1] = n}}

\* rec: what a depth-first search below the nodes of front visits.
RECURSIVE Visit(_, _, _)
Visit(g, front, visited) ==
  LET next == UNION {Out(g, n) : n \in front} \ visited
  IN  IF next = {} THEN visited ELSE Visit(g, next, visited \cup next)

\* Slip: the search starts at the node, not at its children.
TransitiveReduction_all(g) == {e \in g : e[2] \notin Visit(g, {e[1]}, {})}

\* Edges to what is below a child are implied by others.
TransitiveReduction(g) == {e \in g : e[2] \notin Visit(g, Out(g, e[1]), {})}

\* writeModelGraph with simplify
Groups(g) == MaximalCliques(g)
Simplified(g) == LET collapsed == CollapseNodes(g, Groups(g)) IN TransitiveReduction(collapsed)

-----------------------------------------------------------------------------
Below(g, n) == Visit(g, {n}, {})

\* "A -> B means A is stronger than B" (main.go:204): models share a node when
\* each is as strong as the other, a path in the simplified graph leads from
\* one model to another exactly when it is stronger, and no edge is implied by
\* the others.
Faithful(g) ==
  LET groups == Groups(g)
      s == Simplified(g)
      paths == UNION {{<<A, B>> : B \in Below(s, A)} : A \in groups}
  IN  /\ \A i, j \in Nodes : \E A, B \in groups :
           /\ i \in A /\ j \in B
           /\ A = B <=> (i = j \/ {<<i, j>>, <<j, i>>} \subseteq g)
           /\ A # B => (<<A, B>> \in paths <=> <<i, j>> \in g)
      /\ \A e \in s : e[2] \notin Below(s \ {e}, e[1])

\* Every relation that is transitive, as "no counterexample" is.
Preorders ==
  {g \in SUBSET {e \in Nodes \X Nodes : e[1] # e[2]} :
     \A a, b \in g : a[2] = b[1] /\ a[1] # b[2] => <<a[1], b[2]>> \in g}
=============================================================================
