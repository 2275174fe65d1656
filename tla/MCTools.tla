------------------------------- MODULE MCTools -------------------------------
(***************************************************************************)
(* The tools that must come to an end, and the parts of stress2 that must,  *)
(* checked together: a behaviour is one of Goroutines, or of one of the      *)
(* modules below on the variables v1, v2, ... in the order of its           *)
(* declarations.  The other variables stay 0.                               *)
(***************************************************************************)
EXTENDS Goroutines

VARIABLES v1, v2, v3, v4, v5, v6, v7, v8, v9, v10, v11, v12

others == <<v1, v2, v3, v4, v5, v6, v7, v8, v9, v10, v11, v12>>
toolsVars == <<vars, others>>

\* The process tree writes at most two chunks.  Four statuses: one displayed,
\* one inhibited, one superseding it, one more.  Four logs; a directory or the
\* callback may fail.
KillSignals == <<"trace", "int", "kill">>
Directories == [match : [1..4 -> BOOLEAN], readErr : {-1, 0, 3}, fnErr : {{}, {2}}]

\* Two runs of each of two to four commits, two failures allowed; a benchmark
\* prints a line of the log's own form, first or later, or not.
Plan == [order |-> "seq", n |-> 3, dry |-> FALSE, saveTree |-> FALSE, goTree |-> FALSE, metric |-> <<1, 1, 1>>]
Saving == [Plan EXCEPT !.saveTree = TRUE, !.goTree = TRUE]
Plans ==
  {[Plan EXCEPT !.n = 2], [Saving EXCEPT !.dry = TRUE], [Saving EXCEPT !.n = 2],
   [Plan EXCEPT !.order = "spread", !.n = 2], [Plan EXCEPT !.order = "spread"],
   [Plan EXCEPT !.order = "metric", !.metric = <<1, 0, 3>>], [Plan EXCEPT !.order = "metric", !.metric = <<3, 1, 1>>]}
B == INSTANCE Benchmany WITH
       Confs <- Plans, Iterations <- 2, MaxFails <- 2, Fraction <- 3, MaxInterrupts <- 1,
       Outputs <- {<<"text">>, <<"commit:", "text">>, <<"text", "commit:">>},
       conf <- v1, info <- v2, log <- v3, bins <- v4, trees <- v5, pc <- v6, cur <- v7, cmd <- v8,
       line <- v9, interrupts <- v10, confused <- v11

\* Five branches, one ignored, with changes that are ready, merged, discussed,
\* unknown to Gerrit, or two, and commits without a Change-Id.
Commit == [id |-> 1, here |-> TRUE, patch |-> 1, msg |-> <<"Subject">>]
Ready ==
  [status |-> "NEW", submittable |-> TRUE, optional |-> {}, rejected |-> {}, approved |-> {"TryBot"},
   queued |-> FALSE, commit |-> Commit, mailed |-> Commit, unresolved |-> 0, messages |-> {}]
Mailed(changes) == [cid |-> TRUE, changes |-> changes]
Local == [cid |-> FALSE, changes |-> <<>>]
Merged == Mailed(<<[Ready EXCEPT !.status = "MERGED"]>>)
Discussed == Mailed(<<[Ready EXCEPT !.unresolved = 1]>>)
Repository ==
  [local |-> FALSE, args |-> <<>>, head |-> <<"b">>, refs |-> <<"a", "b", "x", "c", "d">>, ignored |-> {"x"},
   commits |-> [a |-> <<Discussed, Local>>, b |-> <<Mailed(<<Ready>>), Merged>>, c |-> <<>>,
                d |-> <<Mailed(<<>>)>>, x |-> <<Mailed(<<Ready>>)>>]]
P == INSTANCE GitP WITH
       Confs <- {Repository, [Repository EXCEPT !.local = TRUE], [Repository EXCEPT !.head = <<>>],
                 [Repository EXCEPT !.commits.b = <<Mailed(<<Ready>>), Mailed(<<Ready, Ready>>)>>],
                 [Repository EXCEPT !.args = <<"c">>]},
       Limit <- 2, ReqCap <- 2, BatchMax <- 2,
       conf <- v1, pc <- v2, bi <- v3, ci <- v4, limit <- v5, token <- v6, first <- v7, prt <- v8,
       req <- v9, batch <- v10, answer <- v11, out <- v12

\* The explored program prints at most three times, on either stream; a pipe
\* holds two writes.
Streams == {"stdout", "stderr"}
A == INSTANCE Progress WITH
       Streams <- Streams, Outputs <- UNION {[1..n -> [by : Streams, nl : BOOLEAN]] : n \in 0..3}, PipeCap <- 2,
       pc <- v1, stop <- v2, diverted <- v3, todo <- v4, pipe <- v5, buf <- v6, bol <- v7,
       printLock <- v8, screen <- v9, line <- v10, fed <- v11, ended <- v12

NoGoroutines == NoCommand /\ status = 0 /\ NoReporter /\ NoQuery
NoOther ==
  /\ v1 = 0 /\ v2 = 0 /\ v3 = 0 /\ v4 = 0 /\ v5 = 0 /\ v6 = 0 /\ v7 = 0 /\ v8 = 0
  /\ v9 = 0 /\ v10 = 0 /\ v11 = 0 /\ v12 = 0

ToolsInit ==
  \/ Init /\ NoOther
  \/ /\ NoGoroutines
     /\ \/ model = "benchmany" /\ B!Init /\ v12 = 0
        \/ model = "git-p" /\ P!Init
        \/ model = "progress" /\ A!Init

\* A step of one of the modules, as a step of the whole.
Goroutine(Act) == Act /\ UNCHANGED others
Benchmany(Act) == model = "benchmany" /\ Act /\ UNCHANGED <<vars, v12>>
GitP(Act) == model = "git-p" /\ Act /\ UNCHANGED vars
Progress(Act) == model = "progress" /\ Act /\ UNCHANGED vars

ToolsNext ==
  \/ Goroutine(Next)
  \/ Benchmany(B!Next) \/ GitP(P!Next) \/ Progress(A!Next)

ToolsSpec == ToolsInit /\ [][ToolsNext]_toolsVars

\* A step of one actor of Goroutines.
CommandStep(Act) == Goroutine(Command(Act))
ReporterStep(Act) == Goroutine(Reporter(Act))

\* The fairness that each module states and justifies.
FairSpec ==
  /\ ToolsSpec
  /\ WF_toolsVars(CommandStep(C!Reader)) /\ WF_toolsVars(CommandStep(C!Waiter)) /\ WF_toolsVars(CommandStep(C!Run1))
  /\ WF_toolsVars(ReporterStep(R!Display)) /\ WF_toolsVars(ReporterStep(R!Final))
  /\ WF_toolsVars(ReporterStep(R!TimerFires)) /\ WF_toolsVars(ReporterStep(R!StopReturns))
  /\ SF_toolsVars(ReporterStep(R!Deinhibit)) /\ SF_toolsVars(ReporterStep(R!Stopped))
  /\ WF_toolsVars(Benchmany(~v11 /\ ~B!Overrun /\ B!Step))
  /\ WF_toolsVars(Goroutine(Dashquery(D!Next))) /\ WF_toolsVars(GitP(P!Next))
  /\ WF_toolsVars(Progress(A!Draw)) /\ SF_toolsVars(Progress(A!Stopped))
  /\ \A s \in Streams : WF_toolsVars(Progress(A!Feed(s)))

-----------------------------------------------------------------------------
\* Every status is drawn unless a newer one supersedes it, and StopStatus
\* returns (Reporter!NewestShown and Reporter!StopCompletes).
NewestShown ==
  /\ \A n \in 1..MaxStatus :
       (model = "reporter" /\ sent = n) ~> (model = "reporter" => drawn = n \/ sent > n)
  /\ (model = "reporter" /\ client = "waiting") ~> (model = "reporter" => client = "stopped")

\* A restart knows what the interrupted process knew (Benchmany!RestartAgrees),
\* and the runs are those that are needed (Benchmany!RunsExact).
RunsExact == model = "benchmany" => B!RestartAgrees /\ B!RunsExact

\* Matching logs come out in order, each once (Dashquery!PathsInOrder), and
\* branches are printed in order, with their own changes (GitP!ShownInOrder).  The
\* progress line erases nothing that the explored program printed
\* (Progress!NothingErased).
ShownInOrder ==
  /\ PathsInOrder
  /\ model = "git-p" => P!ShownInOrder
  /\ model = "progress" => A!NothingErased

\* What must end, in each of the modules, and what it comes to; model never
\* changes.
Running ==
  \/ model = "command" /\ C!Killing
  \/ model = "benchmany" /\ v6 # "done"
  \/ model = "dashquery" /\ ~returned
  \/ model = "git-p" /\ v2 \in {"branch", "query"}
  \/ model = "progress" /\ v2 /\ ~A!Unended
Ended ==
  \/ model = "command" /\ C!Reported
  \/ model = "benchmany" /\ (v6 = "done" \/ v11 \/ B!Overrun)
  \/ model = "dashquery" /\ (returned \/ D!Failed)
  \/ model = "git-p" /\ v2 \in {"done", "fatal", "panic"}
  \/ model = "progress" /\ v1 \in {"done", "restored"}
Exited == model = "command" /\ proc = "zombie"
Noticed == model = "command" /\ waitChan

\* The tools end.  run1 gets out of Kill, and a process that exits is noticed,
\* whatever is left of the process tree (Command!KillLeadsToReport and
\* Command!ExitIsNoticed);
\* benchmany, AllPaths and git-p do, as Benchmany!Ends, Dashquery!Ends and
\* GitP!Ends say; and stopProgress returns (Progress!StopReturns).
ToolsEnd == (Running ~> Ended) /\ (Exited ~> Noticed)

=============================================================================
