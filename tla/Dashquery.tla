----------------------------- MODULE Dashquery -----------------------------
(***************************************************************************)
(* Query.AllPaths of src/dashquery: a feeder hands the logs to workers, and *)
(* puts the same tasks on a queue from which an aggregator takes them, so   *)
(* that the matches come out in order.  A task is the number of its log.    *)
(***************************************************************************)
EXTENDS Integers, Sequences, FiniteSets, Functions

CONSTANTS
  Confs,        \* directories and callbacks, see conf
  Workers

VARIABLES
  conf,         \* [match: which logs match, readErr: logs before a directory that cannot
                \*  be read, or -1, fnErr: the logs on which the callback fails]
  feeder, next, \* "send", "reply" or "closed", and the log it is at
  held,         \* worker -> its task, 0 when it waits for one, -1 when it has returned
  replies,      \* the queue of tasks
  agg, task,    \* "next", "answer" or "done", and the task whose answer it waits for
  paths,        \* what the callback was given
  err,          \* the first error of the group
  returned

vars == <<conf, feeder, next, held, replies, agg, task, paths, err, returned>>

First(e) == IF err = "nil" THEN e ELSE err

Init ==
  /\ conf \in Confs
  /\ feeder = "send"
  /\ next = 1
  /\ held = [w \in Workers |-> 0]
  /\ replies = <<>>
  /\ agg = "next"
  /\ task = 0
  /\ paths = <<>>
  /\ err = "nil"
  /\ returned = FALSE

\* The send on tasks is received by an idle worker.
Send(w) ==
  /\ feeder = "send" /\ next <= Len(conf.match) /\ conf.readErr # next - 1
  /\ held[w] = 0
  /\ held' = [held EXCEPT ![w] = next]
  /\ feeder' = "reply"
  /\ UNCHANGED <<conf, next, replies, agg, task, paths, err, returned>>

\* The queue holds a task per worker.
Queue ==
  /\ feeder = "reply"
  /\ Len(replies) < Cardinality(Workers)
  /\ replies' = Append(replies, next)
  /\ next' = next + 1
  /\ feeder' = "send"
  /\ UNCHANGED <<conf, held, agg, task, paths, err, returned>>

\* The feeder ends, and closes both channels: at the last log, at a directory
\* that it cannot read, or when the group is cancelled by an error.
Close ==
  /\ feeder = "send"
  /\ \/ conf.readErr = next - 1 /\ err' = First("read")
     \/ conf.readErr # next - 1 /\ next > Len(conf.match) /\ UNCHANGED err
     \/ conf.readErr # next - 1 /\ next <= Len(conf.match) /\ err # "nil" /\ UNCHANGED err
  /\ feeder' = "closed"
  /\ UNCHANGED <<conf, next, held, replies, agg, task, paths, returned>>

WorkerReturns(w) ==
  /\ feeder = "closed"
  /\ held[w] = 0
  /\ held' = [held EXCEPT ![w] = -1]
  /\ UNCHANGED <<conf, feeder, next, replies, agg, task, paths, err, returned>>

TakeReply ==
  /\ agg = "next"
  /\ replies # <<>>
  /\ task' = Head(replies)
  /\ replies' = Tail(replies)
  /\ agg' = "answer"
  /\ UNCHANGED <<conf, feeder, next, held, paths, err, returned>>

\* The worker that has the task sends the answer, and the callback gets a match.
Answer(w) ==
  /\ agg = "answer"
  /\ held[w] = task
  /\ held' = [held EXCEPT ![w] = 0]
  /\ paths' = IF conf.match[task] THEN Append(paths, task) ELSE paths
  /\ IF conf.match[task] /\ task \in conf.fnErr
     THEN agg' = "done" /\ err' = First("fn")
     ELSE agg' = "next" /\ UNCHANGED err
  /\ UNCHANGED <<conf, feeder, next, replies, task, returned>>

AggReturns ==
  /\ agg = "next"
  /\ feeder = "closed" /\ replies = <<>>
  /\ agg' = "done"
  /\ UNCHANGED <<conf, feeder, next, held, replies, task, paths, err, returned>>

\* g.Wait
Return ==
  /\ ~returned
  /\ feeder = "closed" /\ agg = "done" /\ \A w \in Workers : held[w] = -1
  /\ returned' = TRUE
  /\ UNCHANGED <<conf, feeder, next, held, replies, agg, task, paths, err>>

Next ==
  \/ \E w \in Workers : Send(w) \/ WorkerReturns(w) \/ Answer(w)
  \/ Queue \/ Close \/ TakeReply \/ AggReturns \/ Return

Spec == Init /\ [][Next]_vars
FairSpec == Spec /\ WF_vars(Next)

-----------------------------------------------------------------------------
\* "Paths are returned in descending order by date": the callback gets the
\* matches in the order of the logs, each once and none left out, and all of
\* them when AllPaths returns nil.  The feeder never waits for the queue, since
\* a task leaves its worker only when the aggregator has taken it from the queue.
Matches == {log \in DOMAIN conf.match : conf.match[log]}
PathsInOrder ==
  /\ Range(paths) \subseteq Matches
  /\ \A i, j \in DOMAIN paths : i < j => paths[i] < paths[j]
  /\ \A given \in Range(paths), log \in Matches \ Range(paths) : given < log
  /\ returned /\ err = "nil" => Matches \subseteq Range(paths)
  /\ feeder = "reply" => Len(replies) < Cardinality(Workers)

\* AllPaths returns, unless the callback fails: then a worker may wait for ever
\* for the aggregator to take its answer.
Failed == paths # <<>> /\ paths[Len(paths)] \in conf.fnErr
Ends == (~returned) ~> (returned \/ Failed)
=============================================================================
