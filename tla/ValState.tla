------------------------------ MODULE ValState ------------------------------
(***************************************************************************)
(* The value states of src/rtcheck/val.go: persistent maps that share their *)
(* tails.  A version is the number of a node and 0 is the nil pointer; a    *)
(* node is one binding in front of its parent's, or the map that flatten    *)
(* has put in its place.  The chains of a stack frame and of the heap are   *)
(* the same code on two kinds of keys, and Keys is either.                  *)
(***************************************************************************)
EXTENDS Integers, Sequences, FiniteSets

CONSTANTS
  Keys,
  StartBudget,    \* the budget of the first node (4)
  MaxNodes        \* bound on the nodes

VARIABLES
  nodes,    \* the nodes, in the order they were made
  maps      \* version -> the map that its calls of Extend describe

vars == <<nodes, maps>>

Nil == 0         \* not bound
Unknown == -1    \* dynUnknown
Empty == [k \in {} |-> Nil]

\* The bindings of a chain, those near its head before the others.
RECURSIVE Collect(_, _)
Collect(ns, n) ==
  IF n = 0 THEN Empty
  ELSE IF ns[n].isFlat THEN ns[n].flat
  ELSE LET below == Collect(ns, ns[n].parent)
       IN  [k \in DOMAIN below \cup {ns[n].bind} |-> IF k = ns[n].bind THEN ns[n].val ELSE below[k]]

\* Slip: a value that was unbound shows what it was bound to before.
Flat_unbound(ns, n) ==
  LET all == Collect(ns, n)
      old == Collect(ns, ns[n].parent)
  IN  [k \in DOMAIN all |-> IF all[k] = Nil /\ k \in DOMAIN old THEN old[k] ELSE all[k]]

\* Unbound values are left out.
Flat(ns, n) == LET all == Collect(ns, n) IN [k \in {j \in DOMAIN all : all[j] # Nil} |-> all[k]]

\* flatten changes a node in place, under every version that shares it.
flatten(ns, n) ==
  IF n = 0 \/ ns[n].isFlat THEN ns
  ELSE [ns EXCEPT ![n] = [isFlat |-> TRUE, flat |-> Flat(ns, n), budget |-> Cardinality(DOMAIN Flat(ns, n)) + 1,
                          parent |-> 0, bind |-> Nil, val |-> Nil]]

RECURSIVE Get(_, _)
Get(n, k) ==
  IF n = 0 THEN Nil
  ELSE LET nd == nodes[n]
       IN  CASE nd.isFlat -> IF k \in DOMAIN nd.flat THEN nd.flat[k] ELSE Nil
             [] ~nd.isFlat /\ nd.bind = k -> nd.val
             [] OTHER -> Get(nd.parent, k)

EqualAt(n1, n2, at) ==
  LET i1 == IF n1 = 0 THEN Empty ELSE flatten(nodes, n1)[n1].flat
      i2 == IF n2 = 0 THEN Empty ELSE flatten(nodes, n2)[n2].flat
  IN  \A k \in at :
        /\ k \in DOMAIN i1 <=> k \in DOMAIN i2
        /\ k \in DOMAIN i1 => i1[k] = i2[k]

Init ==
  /\ nodes = <<>>
  /\ maps = <<>>

\* A new version from any old one.  A node whose budget is used up is flattened
\* at once; dynUnknown unbinds, and makes no node when k is not bound.
Extend(n, k, dyn) ==
  /\ Len(nodes) < MaxNodes
  /\ dyn = Unknown => Get(n, k) # Nil
  /\ LET val == IF dyn = Unknown THEN Nil ELSE dyn
         budget == IF n = 0 THEN StartBudget ELSE nodes[n].budget - 1
         ns == Append(nodes, [isFlat |-> FALSE, flat |-> Empty, budget |-> budget,
                              parent |-> n, bind |-> k, val |-> val])
         old == IF n = 0 THEN [j \in Keys |-> Nil] ELSE maps[n]
     IN  /\ nodes' = IF budget <= 0 THEN flatten(ns, Len(ns)) ELSE ns
         /\ maps' = Append(maps, [old EXCEPT ![k] = val])

\* EqualAt flattens both of its versions.
Compare(n1, n2) ==
  /\ nodes' = flatten(flatten(nodes, n1), n2)
  /\ nodes' # nodes
  /\ UNCHANGED maps

\* Every value is another one, so that no mix-up of bindings goes unseen.
Next ==
  \/ \E n \in 0..Len(nodes), k \in Keys, dyn \in {Len(nodes) + 1, Nil, Unknown} : Extend(n, k, dyn)
  \/ \E n1, n2 \in 1..Len(nodes) : Compare(n1, n2)

Spec == Init /\ [][Next]_vars

-----------------------------------------------------------------------------
RECURSIVE Depth(_)
Depth(n) == IF n = 0 \/ nodes[n].isFlat THEN 0 ELSE 1 + Depth(nodes[n].parent)

\* Every version keeps its own map (val.go:28 "effectively a persistent map"),
\* whatever was extended and flattened around it: Get reads it, EqualAt compares
\* it, and no chain is longer than the first budget or the number of keys.
Persistent ==
  \A n \in 1..Len(nodes) :
    /\ \A k \in Keys : Get(n, k) = maps[n][k]
    /\ \A m \in 1..Len(nodes) : EqualAt(n, m, Keys) <=> maps[n] = maps[m]
    /\ Depth(n) <= StartBudget \/ Depth(n) <= Cardinality(Keys)
=============================================================================
