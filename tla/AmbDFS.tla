------------------------------- MODULE AmbDFS -------------------------------
(***************************************************************************)
(* Depth-first exploration of a program's choices: StrategyDFS in           *)
(* src/go-weave/amb/det.go, driven by Scheduler.Run in run.go.  The program *)
(* is a tree of choices; `path` is the sequence of choices it has been      *)
(* given in the current run.  Positions are counted from 1.                 *)
(***************************************************************************)
EXTENDS Integers, Sequences

CONSTANTS
  Trees,      \* the programs: functions from a sequence of choices to the
              \* width of the next one, 0 where the program ends
  MaxDepth    \* maxDepth()

ASSUME AmbAssumption ==
  /\ MaxDepth \in Nat \ {0}
  /\ \A t \in Trees :
       /\ <<>> \in DOMAIN t
       /\ \A s \in DOMAIN t :
            /\ s \in Seq(Nat) /\ t[s] \in Nat
            /\ \A i \in 0..(t[s] - 1) : Append(s, i) \in DOMAIN t

VARIABLES
  tree, path,                    \* the program and its choices in this run
  branchWidths, curPath, step,   \* StrategyDFS
  pc,                            \* Run: "run1", "Next" or "done"
  visited                        \* the paths run so far (history)

strategy == <<branchWidths, curPath, step>>
vars == <<tree, path, strategy, pc, visited>>

\* Strategy.Reset, then the first run1.
Init ==
  /\ tree \in Trees /\ path = <<>>
  /\ branchWidths = <<>> /\ curPath = <<>> /\ step = 0
  /\ pc = "run1" /\ visited = {}

-----------------------------------------------------------------------------
(* run1: the program calls Amb(n), where n = tree[path] > 0, or returns. *)

Replaying == step < Len(curPath)

\* Amb in replay mode.
AmbReplay ==
  /\ pc = "run1" /\ tree[path] > 0 /\ Replaying
  /\ tree[path] = branchWidths[step + 1]
  /\ path' = Append(path, curPath[step + 1])
  /\ step' = step + 1
  /\ UNCHANGED <<tree, branchWidths, curPath, pc, visited>>

DepthReached == Len(curPath) = MaxDepth

\* Amb in exploration mode.
AmbExplore ==
  /\ pc = "run1" /\ tree[path] > 0 /\ ~Replaying /\ ~DepthReached
  /\ branchWidths' = Append(branchWidths, tree[path])
  /\ curPath' = Append(curPath, 0)
  /\ step' = step + 1
  /\ path' = Append(path, 0)
  /\ UNCHANGED <<tree, pc, visited>>

\* Amb returns false, Scheduler.Amb panics with PathTerminated, run1 recovers.
AmbTerminates ==
  /\ pc = "run1" /\ tree[path] > 0 /\ ~Replaying /\ DepthReached
  /\ visited' = visited \cup {path} /\ pc' = "Next"
  /\ UNCHANGED <<tree, path, strategy>>

\* The program returns, or panics with an error of its own.
RootReturns ==
  /\ pc = "run1" /\ tree[path] = 0
  /\ visited' = visited \cup {path} /\ pc' = "Next"
  /\ UNCHANGED <<tree, path, strategy>>

-----------------------------------------------------------------------------
(* Next, and the loop of Run *)

\* Slip: the last alternative of every choice is skipped.
HasSibling_skip(i) == curPath[i] + 1 < branchWidths[i] - 1

\* After curPath[i]++ the loop in Next stops.
HasSibling(i) == curPath[i] + 1 < branchWidths[i]

\* Slip: the widths are those of the whole old path.
NextPath_widths ==
  \E i \in 1..Len(curPath) :
    /\ pc = "Next" /\ HasSibling(i)
    /\ \A j \in (i + 1)..Len(curPath) : ~HasSibling(j)
    /\ curPath' = Append(SubSeq(curPath, 1, i - 1), curPath[i] + 1)
    /\ step' = 0 /\ path' = <<>> /\ pc' = "run1"
    /\ UNCHANGED <<tree, branchWidths, visited>>

\* Slip: cuts the path and does not advance it.
NextPath_again ==
  \E i \in 1..Len(curPath) :
    /\ pc = "Next" /\ HasSibling(i)
    /\ \A j \in (i + 1)..Len(curPath) : ~HasSibling(j)
    /\ curPath' = SubSeq(curPath, 1, i)
    /\ branchWidths' = SubSeq(branchWidths, 1, i)
    /\ step' = 0 /\ path' = <<>> /\ pc' = "run1"
    /\ UNCHANGED <<tree, visited>>

\* Cut the path after the last choice that has an alternative left, and take it.
NextPath ==
  \E i \in 1..Len(curPath) :
    /\ pc = "Next" /\ HasSibling(i)
    /\ \A j \in (i + 1)..Len(curPath) : ~HasSibling(j)
    /\ curPath' = Append(SubSeq(curPath, 1, i - 1), curPath[i] + 1)
    /\ branchWidths' = SubSeq(branchWidths, 1, i)
    /\ step' = 0 /\ path' = <<>> /\ pc' = "run1"
    /\ UNCHANGED <<tree, visited>>

OutOfPaths ==
  /\ pc = "Next" /\ \A i \in 1..Len(curPath) : ~HasSibling(i)
  /\ curPath' = <<>> /\ branchWidths' = <<>> /\ step' = 0
  /\ pc' = "done"
  /\ UNCHANGED <<tree, path, visited>>

-----------------------------------------------------------------------------
Amb == AmbReplay \/ AmbExplore \/ AmbTerminates
Next == Amb \/ RootReturns \/ NextPath \/ OutOfPaths

Spec == Init /\ [][Next]_vars

\* Run is a sequential loop: it goes on as long as it can.
FairSpec == Spec /\ WF_vars(Next)

-----------------------------------------------------------------------------
TypeOK ==
  /\ tree \in Trees /\ path \in DOMAIN tree
  /\ branchWidths \in Seq(Nat) /\ curPath \in Seq(Nat) /\ step \in 0..Len(curPath)
  /\ Len(branchWidths) = Len(curPath)
  /\ pc \in {"run1", "Next", "done"} /\ visited \subseteq DOMAIN tree

\* Replay never raises ErrNondeterminism against a deterministic program: the
\* width recorded for a replayed choice is the one the program asks for again,
\* and the program never ends inside the replayed prefix.
ReplayAgrees ==
  pc = "run1" /\ Replaying => tree[path] = branchWidths[step + 1]

\* No path is longer than MaxDepth.
DepthBounded == Len(path) <= MaxDepth

\* s comes before t in depth-first order.
Before(s, t) ==
  \E i \in 1..Len(t) :
    /\ i <= Len(s) /\ SubSeq(s, 1, i - 1) = SubSeq(t, 1, i - 1)
    /\ s[i] < t[i]

\* "StrategyDFS explores the ambiguous value space in depth-first order": every
\* run comes after all earlier ones, so that none is repeated.
DepthFirst ==
  [][pc = "run1" /\ pc' = "Next" => \A s \in visited : Before(s, path)]_vars

\* "will explore the entire space": the strategy implements Exploration, which
\* visits every path exactly once and finishes only then.
Abs == INSTANCE Exploration WITH finished <- (pc = "done")
Exhaustive == Abs!AbsSpec
=============================================================================
