------------------------------- MODULE MaxTree -------------------------------
(***************************************************************************)
(* The concurrent max-tree of src/go-weave/models/maxtree.go.  A node holds *)
(* a value for each child and one of its own; a worker sets the own value   *)
(* of its leaf and carries a changed maximum towards the root.  Every set   *)
(* and every max is one action: the code yields only after them.            *)
(***************************************************************************)
EXTENDS Naturals, Sequences, SequencesExt, FiniteSetsExt

CONSTANTS
  Depth, Degree,
  Workers,        \* the leaf of a worker w is Leaf(w); workers are 1..n
  Values,         \* what a worker may set, from 0
  Rounds          \* how often all workers run

VARIABLES
  Vals,     \* node -> slot -> value; slot Degree + 1 is the node's own
  wk,       \* worker -> [pc, n, newMax, pChanged, pMax]
  round

vars == <<Vals, wk, round>>

\* A node is its path from the root.
Nodes == UNION {[1..d -> 1..Degree] : d \in 0..Depth-1}
Slots == 1..Degree+1
Own == Degree + 1
Leaves == {n \in Nodes : Len(n) = Depth - 1}

\* State.Init lists the leaves from left to right.
Leaf(w) == [d \in 1..Depth-1 |-> IF d = Depth - 1 THEN w ELSE 1]

Idle(w) == [pc |-> "idle", n |-> Leaf(w), newMax |-> 0, pMax |-> 0, pChanged |-> FALSE]

Init ==
  /\ Vals = [n \in Nodes |-> [s \in Slots |-> 0]]
  /\ wk = [w \in Workers |-> Idle(w)]
  /\ round = 1

maxNoSched(vals) == Max({vals[s] : s \in Slots})

\* Node.set: afterwards, the maximum and whether it changed.
Set(n, slot, v) == Vals' = [Vals EXCEPT ![n][slot] = v]
NewMax(n) == maxNoSched(Vals'[n])
Changed(n) == NewMax(n) # maxNoSched(Vals[n])

\* worker: Update(Amb(3)).
Start(w) ==
  /\ wk[w].pc = "idle"
  /\ \E v \in Values : Set(Leaf(w), Own, v)
  /\ wk' = [wk EXCEPT ![w] = [Idle(w) EXCEPT !.pc = IF Changed(Leaf(w)) THEN "parent" ELSE "done",
                                             !.newMax = NewMax(Leaf(w))]]
  /\ UNCHANGED round

SetParent(w) ==
  LET n == wk[w].n
  IN  /\ wk[w].pc = "parent"
      /\ Set(Front(n), Last(n), wk[w].newMax)
      /\ wk' = [wk EXCEPT ![w].pc = "recheck", ![w].pMax = NewMax(Front(n)),
                          ![w].pChanged = Changed(Front(n))]
      /\ UNCHANGED round

\* Go on at the parent, if its maximum changed and it has a parent.
Up(k) ==
  IF k.pChanged /\ Len(k.n) > 1
  THEN [k EXCEPT !.pc = "parent", !.n = Front(@), !.newMax = k.pMax]
  ELSE [k EXCEPT !.pc = "done"]

\* Slip: no second look at the node's own maximum.
Recheck_none(w) ==
  /\ wk[w].pc = "recheck"
  /\ wk' = [wk EXCEPT ![w] = Up(wk[w])]
  /\ UNCHANGED <<Vals, round>>

\* The node may have changed since its maximum was taken: then set it again.
Recheck(w) ==
  LET checkMax == maxNoSched(Vals[wk[w].n])
  IN  /\ wk[w].pc = "recheck"
      /\ wk' = [wk EXCEPT ![w] = IF checkMax # wk[w].newMax
                                 THEN [wk[w] EXCEPT !.pc = "parent", !.newMax = checkMax]
                                 ELSE Up(wk[w])]
      /\ UNCHANGED <<Vals, round>>

AllDone == \A w \in Workers : wk[w].pc = "done"

\* wg.Wait returns, and main starts the workers again.
NextRound ==
  /\ AllDone /\ round < Rounds
  /\ round' = round + 1
  /\ wk' = [w \in Workers |-> Idle(w)]
  /\ UNCHANGED Vals

Next ==
  \/ \E w \in Workers : Start(w) \/ SetParent(w) \/ Recheck(w)
  \/ NextRound

Spec == Init /\ [][Next]_vars

-----------------------------------------------------------------------------
\* Node.Check (maxtree.go:106): when the workers have run, every parent slot
\* holds the maximum of that child, whatever updates raced on the way up.
TreeConsistent ==
  AllDone => \A n \in Nodes \ {<<>>} : Vals[Front(n)][Last(n)] = maxNoSched(Vals[n])

=============================================================================
