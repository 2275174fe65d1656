----------------------------- MODULE Benchmany -----------------------------
(***************************************************************************)
(* src/benchmany: benchmarks run over the commits of a range, a few times   *)
(* each, in one of three orders, with a log that a restart reads back.      *)
(* Commits are numbered from the most recent.  The log is kept as the       *)
(* number of lines that parseLog looks for, by commit.                      *)
(***************************************************************************)
EXTENDS Integers, Sequences, FiniteSets, FiniteSetsExt, TLC

CONSTANTS
  Confs,          \* command lines and repositories, see Init
  Iterations,     \* run.iterations
  MaxFails,       \* maxFails
  Fraction,       \* 10 in pickCommitSpread: one commit in so many may be partial
  Outputs,        \* what a benchmark prints: sequences of "text" and "commit:" lines
  MaxInterrupts   \* bound on interruptions

VARIABLES
  conf,           \* [order, n, dry, saveTree, goTree, metric]
  info,           \* commit -> commitInfo, in memory
  log,            \* commit -> lines about it in the log
  bins,           \* commits whose binary is on disk
  trees,          \* commits with a tree in gover's cache
  pc, cur,        \* the step of doRun, and the commit picked
  cmd,            \* the command that combinedOutputTimeout waits for
  line,           \* whether the status line is on the screen
  interrupts,
  confused        \* a benchmark printed a line that the log parser takes for its own

vars == <<conf, info, log, bins, trees, pc, cur, cmd, line, interrupts, confused>>

All == 1..conf.n
NoLines == [commit |-> 0, failed |-> 0, build |-> 0]
NoCmd == [tick |-> "none", alive |-> FALSE]

Init ==
  /\ conf \in Confs
  /\ log = [c \in All |-> NoLines]
  /\ info = <<>>
  /\ bins = {}
  /\ trees = {}
  /\ pc = "start"
  /\ cur = 0
  /\ cmd = NoCmd
  /\ line = FALSE
  /\ interrupts = 0
  /\ confused = FALSE

-----------------------------------------------------------------------------
(* commits.go *)

failed(c) == info[c].buildFailed \/ info[c].fails >= MaxFails
runnable(c) == ~info[c].buildFailed /\ info[c].fails < MaxFails /\ info[c].count < Iterations
partial(c) == info[c].count > 0 /\ runnable(c)

parseLog(l) == [count |-> l.commit, fails |-> l.failed, buildFailed |-> l.build > 0]

\* Slip: nothing is escaped.
cleanLog_raw(out) == out

\* The expression lacks (?m): it matches the first line only.
cleanLog(out) ==
  IF out # <<>> /\ out[1] = "commit:" THEN <<"text">> \o Tail(out) ELSE out

Lines(out) == Cardinality({i \in DOMAIN out : out[i] = "commit:"})

\* The lines that a benchmark prints are about commit 1.
logRun(c, out) ==
  /\ log' = [[log EXCEPT ![c].commit = @ + 1] EXCEPT ![1].commit = @ + Lines(cleanLog(out))]
  /\ info' = [info EXCEPT ![c].count = @ + 1]
  /\ confused' = (confused \/ \E i \in 2..Len(out) : out[i] = "commit:")

\* Every line of the output is put behind a #.
logFailed(c, build) ==
  /\ log' = IF build THEN [log EXCEPT ![c].build = @ + 1] ELSE [log EXCEPT ![c].failed = @ + 1]
  /\ info' = IF build THEN [info EXCEPT ![c].buildFailed = TRUE] ELSE [info EXCEPT ![c].fails = @ + 1]
  /\ UNCHANGED confused

\* getCommits, then the header of the log and the status reporter.
getCommits ==
  /\ pc = "start"
  /\ info' = [c \in All |-> parseLog(log[c]) @@ [gover |-> c \in trees]]
  /\ pc' = "pick"
  /\ UNCHANGED <<conf, log, bins, trees, cur, cmd, line, interrupts, confused>>

-----------------------------------------------------------------------------
(* The three orders of run.go: each is the set of commits that may be picked. *)

pickCommitSeq ==
  {c \in All : /\ runnable(c)
               /\ \A d \in All : runnable(d) => info[c].count < info[d].count \/ (info[c].count = info[d].count /\ c <= d)}

\* The distance from commit c to one that has runs, on its left and on its right.
Fresh(S) == Cardinality({d \in S : info[d].count = 0 /\ runnable(d)})
Left(c) ==
  LET have == {d \in 1..c : info[d].count > 0}
  IN  IF have = {} THEN conf.n + Fresh(1..c) ELSE 1 + Fresh((Max(have) + 1)..c)
Right(c) ==
  LET have == {d \in c..conf.n : info[d].count > 0}
  IN  IF have = {} THEN conf.n + Fresh(c..conf.n) ELSE 1 + Fresh(c..(Min(have) - 1))

\* Every commit of positive weight may be drawn.
pickCommitSpread ==
  LET nPartial == Cardinality({c \in All : partial(c)})
      haveAny == \E c \in All : info[c].count > 0
      weight(c) ==
        IF nPartial >= conf.n \div Fraction THEN IF partial(c) THEN Iterations - info[c].count ELSE 0
        ELSE IF ~runnable(c) THEN 0
        ELSE IF ~haveAny THEN 1
        ELSE Min({Left(c), Right(c)})
  IN  {c \in All : weight(c) > 0}

Abs(x) == IF x < 0 THEN -x ELSE x

\* The results of a commit are in the log as soon as it has runs, and give its
\* metric, 0 when the benchmark does not report it.
pickCommitMetric ==
  LET some == {c \in All : partial(c)}
      left == {c \in All : ~failed(c)}
      at(i) == CHOOSE c \in left : Cardinality({d \in left : d < c}) = i - 1
      pos(c) == Cardinality({d \in left : d <= c})
      seen == {c \in left : info[c].count > 0 /\ conf.metric[c] # 0}
      gaps == {g \in seen \X seen : pos(g[2]) > pos(g[1]) + 1 /\ \A c \in seen : ~(g[1] < c /\ c < g[2])}
      diff(g) == Abs(conf.metric[g[1]] - conf.metric[g[2]])
      widest == {g \in gaps : \A h \in gaps : diff(g) > diff(h) \/ (diff(g) = diff(h) /\ g[1] <= h[1])}
  IN  IF some # {} THEN {Min(some)}
      ELSE IF left = {} THEN {}
      ELSE IF runnable(at(1)) THEN {at(1)}
      ELSE IF runnable(Max(left)) THEN {Max(left)}
      ELSE {at((pos(g[1]) + pos(g[2])) \div 2) : g \in widest}

pickCommit ==
  CASE conf.order = "seq" -> pickCommitSeq
    [] conf.order = "spread" -> pickCommitSpread
    [] conf.order = "metric" -> pickCommitMetric

-----------------------------------------------------------------------------
(* doRun and runBenchmark *)

\* Progress: the reporter's loop draws the status line, and again at every tick
\* and after a Message, which clears it.
Progress == line' = TRUE

Pick ==
  /\ pc = "pick"
  /\ \/ /\ pickCommit = {}
        /\ pc' = "stop"
        /\ UNCHANGED cur
     \/ /\ cur' \in pickCommit
        /\ pc' = IF cur' \in bins THEN "bench"
                 ELSE IF info[cur'].gover \/ ~conf.goTree THEN "build" ELSE "make"
  /\ Progress
  /\ UNCHANGED <<conf, info, log, bins, trees, cmd, interrupts, confused>>

\* combinedOutputTimeout: start, trace signal, kill, and the end of the command.
Start ==
  /\ pc \in {"make", "build", "bench"} /\ ~conf.dry
  /\ cmd = NoCmd
  /\ cmd' = [tick |-> "timeout", alive |-> TRUE]
  /\ UNCHANGED <<conf, info, log, bins, trees, pc, cur, line, interrupts, confused>>

Tick ==
  /\ \/ cmd.tick = "timeout" /\ cmd' = [cmd EXCEPT !.tick = "trace"]
     \/ cmd.tick = "trace" /\ cmd' = [tick |-> "off", alive |-> FALSE]
  /\ UNCHANGED <<conf, info, log, bins, trees, pc, cur, line, interrupts, confused>>

\* A command that is killed fails; gover has no tree to run in before it saved one.
Ended(ok) ==
  /\ cmd # NoCmd
  /\ ok => cmd.alive
  /\ ok /\ pc = "build" /\ info[cur].gover => cur \in trees
  /\ ok /\ pc = "bench" /\ conf.saveTree => cur \in trees
  /\ cmd' = NoCmd
  /\ UNCHANGED <<conf, cur, line, interrupts>>

BuildFails ==
  /\ pc \in {"make", "build"}
  /\ Ended(FALSE)
  /\ logFailed(cur, TRUE)
  /\ pc' = "pick"
  /\ UNCHANGED <<bins, trees>>

\* gover save, which may fail.
doGoverSave ==
  \/ trees' = trees \cup {cur} /\ info' = [info EXCEPT ![cur].gover = TRUE]
  \/ UNCHANGED <<trees, info>>

Make ==
  /\ pc = "make"
  /\ Ended(TRUE)
  /\ IF conf.saveTree THEN doGoverSave ELSE UNCHANGED <<trees, info>>
  /\ pc' = "build"
  /\ UNCHANGED <<log, bins, confused>>

Build ==
  /\ pc = "build"
  /\ Ended(TRUE)
  /\ bins' = bins \cup {cur}
  /\ pc' = "bench"
  /\ UNCHANGED <<info, log, trees, confused>>

Bench ==
  /\ pc = "bench"
  /\ \/ Ended(TRUE) /\ \E out \in Outputs : logRun(cur, out)
     \/ Ended(FALSE) /\ logFailed(cur, FALSE)
  /\ pc' = "pick"
  /\ UNCHANGED <<bins, trees>>

\* With -dry-run the commands are printed, and the run counts.
DryRun ==
  /\ pc \in {"make", "build", "bench"} /\ conf.dry
  /\ info' = [info EXCEPT ![cur] = [@ EXCEPT !.count = @ + 1, !.gover = @ \/ (pc = "make" /\ conf.saveTree)]]
  /\ pc' = "pick"
  /\ UNCHANGED <<conf, log, bins, trees, cur, cmd, line, interrupts, confused>>

\* StatusReporter.Stop closes the channel, and waits for the loop to clear the line.
Stop ==
  /\ pc = "stop"
  /\ pc' = "done"
  /\ line' = FALSE
  /\ UNCHANGED <<conf, info, log, bins, trees, cur, cmd, interrupts, confused>>

\* An interruption takes the command along.  The next start reads the log.
Interrupt ==
  /\ pc # "start" /\ interrupts < MaxInterrupts
  /\ interrupts' = interrupts + 1
  /\ pc' = "start"
  /\ cur' = 0
  /\ cmd' = NoCmd
  /\ info' = <<>>
  /\ line' = FALSE
  /\ UNCHANGED <<conf, log, bins, trees, confused>>

Step == getCommits \/ Pick \/ Start \/ Tick \/ BuildFails \/ Make \/ Build \/ Bench \/ DryRun \/ Stop

\* The metric that a benchmark does not report leaves its commit to be picked
\* for ever: followed for one run too many.
Overrun == \E c \in DOMAIN info : info[c].count > Iterations

Next ==
  /\ ~confused /\ ~Overrun
  /\ Step \/ Interrupt

Spec == Init /\ [][Next]_vars
FairSpec == Spec /\ WF_vars(~confused /\ ~Overrun /\ Step)

-----------------------------------------------------------------------------
\* Benchmany is safe to interrupt: a restart reads from the log what the
\* process knows, unless a benchmark prints a line of the log's own form after
\* its first line, which cleanLog leaves as it is.
RestartAgrees ==
  ~confused /\ ~conf.dry /\ info # <<>> =>
    \A c \in All : \A f \in {"count", "fails", "buildFailed"} : parseLog(log[c])[f] = info[c][f]

\* Only a commit that needs a run is run, and benchmany stops when no commit
\* needs one.  Two exceptions: a commit without the metric is run over and over,
\* and -order spread starts nothing when there are too few commits.
RunsExact ==
  /\ pc \in {"make", "build", "bench"} => runnable(cur) \/ conf.metric[cur] = 0
  /\ pc = "done" /\ ~(conf.order = "spread" /\ conf.n < Fraction) => \A c \in All : ~runnable(c)
  /\ pc = "done" => ~line

Ends == (pc # "done") ~> (pc = "done" \/ confused \/ Overrun)
=============================================================================
