---------------------------- MODULE Exploration ----------------------------
(***************************************************************************)
(* What an exhaustive amb.Strategy promises (the comments of                *)
(* src/go-weave/amb/run.go and det.go): the program under test is a tree of *)
(* choices; every path from the root that ends, or that reaches MaxDepth,   *)
(* is run exactly once, and exploration finishes when none is left.         *)
(***************************************************************************)
EXTENDS Naturals, Sequences

CONSTANTS
  Trees,      \* the programs: functions from a sequence of choices to the
              \* width of the next one, 0 where the program ends
  MaxDepth    \* Strategy.maxDepth()

VARIABLES tree, visited, finished

absVars == <<tree, visited, finished>>

\* Where a run stops: the program ends or the strategy cuts it off.
Leaves(t) == {s \in DOMAIN t : Len(s) <= MaxDepth /\ (t[s] = 0 \/ Len(s) = MaxDepth)}

AbsInit == tree \in Trees /\ visited = {} /\ finished = FALSE

Visit(s) ==
  /\ ~finished /\ s \in Leaves(tree) \ visited
  /\ visited' = visited \cup {s}
  /\ UNCHANGED <<tree, finished>>

Finish ==
  /\ ~finished /\ visited = Leaves(tree)
  /\ finished' = TRUE
  /\ UNCHANGED <<tree, visited>>

AbsNext == (\E s \in DOMAIN tree : Visit(s)) \/ Finish

AbsSpec == AbsInit /\ [][AbsNext]_absVars /\ WF_absVars(AbsNext)
=============================================================================
