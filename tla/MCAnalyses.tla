----------------------------- MODULE MCAnalyses -----------------------------
(***************************************************************************)
(* The repository's analyses and the store of gover, checked together: a    *)
(* behaviour is one of the modules below, on the variables v1, v2, ... in   *)
(* the order of its declarations, and the others stay 0.  Of a module that  *)
(* is only operators, v1 (and v2) is an input, and there are no steps.      *)
(***************************************************************************)
EXTENDS Integers, Sequences

CONSTANTS p1, p2, h1, h2, d1, d2, n1, None, k1, k2

VARIABLES model, v1, v2, v3, v4, v5, v6, v7, v8

From4 == <<v4, v5, v6, v7, v8>>
From3 == <<v3, From4>>
vars == <<model, v1, v2, From3>>

\* Three threads of at most two operations: the litmus tests of the usual kind.
M == INSTANCE MemModel WITH MaxThreads <- 3, MaxOps <- 2, todo <- v1, outcomes <- v2, counterexamples <- v3
MG == INSTANCE ModelGraph WITH N <- 4

\* Two keys and a first budget of 2: versions are flattened and shared.
V == INSTANCE ValState WITH Keys <- {k1, k2}, StartBudget <- 2, MaxNodes <- 4, nodes <- v1, maps <- v2

L == INSTANCE LockSets

\* Programs of four statements, or of three with the special functions, that
\* test their condition at most twice.
P == INSTANCE RtPrograms
R == INSTANCE RtWalk WITH
       Sources <- P!Family(P!Plain, 4, 2) \cup P!Family(P!Plain \cup P!Special, 3, 2), Build <- P!Build,
       MaxSimilar <- 10, MaxLocks <- 16, prog <- v1, root <- v2, s <- v3

\* Two processes, two builds that share a file, one name.
Files(h) == IF h = h1 THEN {d1, d2} ELSE {d1}
G == INSTANCE Gover WITH
       Procs <- {p1, p2}, Hashes <- {h1, h2}, Data <- {d1, d2}, Names <- {n1}, MaxInodes <- 3,
       full <- v1, dedup <- v2, builds <- v3, dirs <- v4, commits <- v5, names <- v6, proc <- v7, accident <- v8

\* Every change there can be, with one message.
S == INSTANCE ChangeStatus
Message == [current : BOOLEAN, auto : BOOLEAN, labelOnly : BOOLEAN, author : BOOLEAN]
Commit == [id |-> 1, here |-> TRUE, patch |-> 1, msg |-> <<"Subject", "Text">>]
Mailed ==
  {Commit, [Commit EXCEPT !.id = 2, !.here = FALSE], [Commit EXCEPT !.id = 2, !.patch = 2],
   [Commit EXCEPT !.id = 2, !.msg = <<"Subject">>],
   [Commit EXCEPT !.id = 2, !.msg = <<"Subject", "Text", "Reviewed-by", "Reviewed-on">>]}
Infos ==
  [status : {"NEW", "MERGED"}, submittable : BOOLEAN, optional : {{}, {"TryBot"}, {"Code-Review", "Do-Not-Submit"}},
   rejected : SUBSET {"Do-Not-Submit", "Code-Review", "TryBot"}, approved : SUBSET {"TryBot"}, queued : BOOLEAN,
   commit : {Commit}, mailed : Mailed, unresolved : 0..1, messages : {{m} : m \in Message}]

\* Queries of depth two over constants of every type.
Q == INSTANCE Query

\* Varints of two bits and chunks of a few program counters.
T == INSTANCE PcValue WITH W <- 2
Tables == T!Raws({1, 2, 3, 5}, {-3, 0, 2, 10}, 3) \cup T!Raws({1, 2}, {1, 20}, 5)

\* Two logs of up to two lines of any kind, or of one and up to three of the
\* common kinds, with two packages.
A == INSTANCE Loganal WITH Systemic <- 2
Seqs(X, n) == UNION {[1..k -> X] : k \in 0..n}
LogLines == A!Kinds \X {"x"}
Common ==
  {<<"FAIL", "p">>, <<"build", "q">>, <<"test", "x">>, <<"gotest", "x">>, <<"misc", "x">>, <<"killed", "x">>,
   <<"text", "x">>, <<"panic", "x">>, <<"section", "x">>}
Failures(pkgs, lines) == [pkg : pkgs, msg : Seqs({<<"n", 1>>, <<"n", 2>>, <<"w">>}, 2), line : lines]

Pin4 == v4 = 0 /\ v5 = 0 /\ v6 = 0 /\ v7 = 0 /\ v8 = 0
Pin3 == v3 = 0 /\ Pin4
Pin2 == v2 = 0 /\ Pin3

Init ==
  \/ model = "memmodel" /\ M!Init /\ Pin4
  \/ model = "graph" /\ v1 \in MG!Preorders /\ Pin2
  \/ model = "valstate" /\ V!Init /\ Pin3
  \/ model = "cycles" /\ v1 \in SUBSET ((1..3) \X (1..3)) /\ Pin2
  \/ model = "walk" /\ R!Init /\ Pin4
  \/ model = "gover" /\ G!Init
  \/ model = "status" /\ v1 \in Infos /\ Pin2
  \/ model = "query" /\ v1 \in Q!Exprs /\ Pin2
  \/ model = "pcvalue" /\ v1 \in Tables /\ Pin2
  \/ model = "logs" /\ v1 \in Seqs(LogLines, 2) /\ v2 \in Seqs(LogLines, 2) /\ Pin3
  \/ model = "logs" /\ v1 \in Seqs(Common, 1) /\ v2 \in Seqs(Common, 3) /\ Pin3
  \/ model = "classes" /\ v1 \in Seqs(Failures({"p", "q"}, {3, 4}), 2) \cup Seqs(Failures({"p"}, {3}), 3) /\ Pin2

\* A step of one of the modules, as a step of the whole.
MemModel(X) == model = "memmodel" /\ X /\ UNCHANGED <<model, From4>>
ValState(X) == model = "valstate" /\ X /\ UNCHANGED <<model, From3>>
Walk(X) == model = "walk" /\ X /\ UNCHANGED <<model, From4>>
Gover(X) == model = "gover" /\ X /\ UNCHANGED model

Next == MemModel(M!Next) \/ ValState(V!Next) \/ Walk(R!Next) \/ Gover(G!Next)

Spec == Init /\ [][Next]_vars

-----------------------------------------------------------------------------
\* The two forms of a memory model agree and the models are ordered by strength
\* (MemModel!ModelsAgree).
ModelsAgree == model = "memmodel" => M!ModelsAgree

\* The graph that is written of the models says which is stronger
\* (MemModel!GraphFaithful), as does that of any order (ModelGraph!Faithful);
\* and every cycle of a lock graph is found once (LockSets!CyclesExact).
GraphsExact ==
  /\ model = "memmodel" => M!GraphFaithful
  /\ model = "graph" => MG!Faithful(v1)
  /\ model = "cycles" => L!CyclesExact(v1, 1..3)

\* Every version of a value state keeps its own map (ValState!Persistent).
Persistent == model = "valstate" => V!Persistent

\* The lock graph has every pair of locks held together on a path of the
\* program (RtWalk!EdgesComplete).
EdgesComplete == model = "walk" => R!EdgesComplete

\* A saved build has all of its files (Gover!BuildsWhole).
BuildsWhole == model = "gover" => G!BuildsWhole

\* The colours say what git-p's usage says (ChangeStatus!ColorsMean).
ColorsMean == model = "status" => S!ColorsMean(v1)

\* A query that compiles runs on every path (Query!Typed).
QueriesTyped == model = "query" => Q!Typed(v1)

\* The alternative encoding looks up what the varint encoding does
\* (PcValue!LookupsAgree).
LookupsAgree == model = "pcvalue" => T!LookupsAgree(v1)

\* Failures are those of the log (Loganal!ExtractSound), and in classes of the
\* same message (Loganal!ClassesExact).
FailuresSound ==
  /\ model = "logs" => A!ExtractSound(v1, v2)
  /\ model = "classes" => A!ClassesExact(v1)

=============================================================================
