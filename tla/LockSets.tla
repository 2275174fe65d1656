------------------------------ MODULE LockSets ------------------------------
(***************************************************************************)
(* The sets of held locks, the stacks and the lock order of src/rtcheck     *)
(* (main.go, order.go).  A stack is its calls, outermost first, and the     *)
(* identity of its innermost frame; a lock set maps the lock classes to the *)
(* stacks that acquired them and knows whether it has had a lock (lca).     *)
(***************************************************************************)
EXTENDS Naturals, Sequences, SequencesExt, FiniteSets, FiniteSetsExt, Functions

NilStack == [calls |-> <<>>, id |-> 0]
Extend(stack, call, id) == [calls |-> Append(stack.calls, call), id |-> id]

\* The longest common prefix that leaves both with minLen frames goes.
TrimCommonPrefix(s1, s2, minLen) ==
  LET short == IF Len(s1) < Len(s2) THEN Len(s1) ELSE Len(s2)
      common == CHOOSE n \in 0..short :
                  /\ n = 0 \/ n + minLen <= short
                  /\ \A k \in 1..n : s1[k] = s2[k]
                  /\ n + 1 + minLen > short \/ s1[n + 1] # s2[n + 1]
  IN  <<SubSeq(s1, common + 1, Len(s1)), SubSeq(s2, common + 1, Len(s2))>>

NewLockSet == [lca |-> FALSE, stacks |-> [l \in {} |-> NilStack]]
Locks(set) == DOMAIN set.stacks
Has(set, lc) == lc \in Locks(set)

Plus(set, lc, stack) ==
  IF Has(set, lc) THEN set
  ELSE [lca |-> TRUE, stacks |-> [l \in Locks(set) \cup {lc} |-> IF l = lc THEN stack ELSE set.stacks[l]]]

Minus(set, lc) ==
  IF ~Has(set, lc) THEN set ELSE [lca |-> TRUE, stacks |-> Restrict(set.stacks, Locks(set) \ {lc})]

\* Stacks are compared by identity.
Equal(set, set2) ==
  /\ set.lca = set2.lca
  /\ Locks(set) = Locks(set2)
  /\ \A l \in Locks(set) : set.stacks[l].id = set2.stacks[l].id

\* LockOrder.Add: the edges from the locks in locked to lc, acquired at stack,
\* with the two stacks trimmed.  Interned stacks are equal when their calls are.
Add(locked, lc, stack) ==
  {LET trimmed == TrimCommonPrefix(locked.stacks[l].calls, stack.calls, 1)
   IN  [from |-> l, to |-> lc, fromStack |-> trimmed[1], toStack |-> trimmed[2]] : l \in Locks(locked)}

-----------------------------------------------------------------------------
(* FindCycles *)

Out(edges, node) == {e[2] : e \in {x \in edges : x[1] = node}}

Lowest(root, path) == \A n \in Range(path) : root <= n

\* The cycles through root that extend path, with root the least node.
RECURSIVE dfs(_, _)
dfs(edges, path) ==
  LET root == path[1]
      next(node, cycles) ==
        IF node \notin Range(path) THEN cycles \o dfs(edges, Append(path, node))
        ELSE IF node = root /\ Lowest(root, path) THEN Append(cycles, path)
        ELSE cycles
  IN  FoldSet(next, <<>>, Out(edges, Last(path)))

FindCycles(edges) ==
  FoldSet(LAMBDA root, cycles : cycles \o dfs(edges, <<root>>), <<>>, {e[1] : e \in edges})

\* The elementary cycles of edges, from each of their nodes.
Elementary(edges, nodes) ==
  {c \in UNION {[1..n -> nodes] : n \in 1..Cardinality(nodes)} :
     /\ IsInjective(c)
     /\ \A i \in 1..Len(c) : <<c[i], c[(i % Len(c)) + 1]>> \in edges}

\* order.go:117 "This gets us each elementary cycle exactly once": the list has
\* elementary cycles only, and of every one exactly one rotation, at one place.
CyclesExact(edges, nodes) ==
  LET cycles == FindCycles(edges)
      elementary == Elementary(edges, nodes)
      Rotation(c, d) == Len(c) = Len(d) /\ \E k \in 1..Len(c) : \A i \in 1..Len(c) : d[i] = c[((i + k) % Len(c)) + 1]
  IN  /\ Range(cycles) \subseteq elementary
      /\ \A c \in elementary : Cardinality({i \in 1..Len(cycles) : Rotation(c, cycles[i])}) = 1
=============================================================================
