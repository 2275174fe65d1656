-------------------------------- MODULE Weave --------------------------------
(***************************************************************************)
(* The cooperative scheduler of go-weave (src/go-weave/weave/weave.go).     *)
(* Every thread of the program under test is a goroutine; exactly one of    *)
(* them, or the scheduler, runs at a time, handing control over the         *)
(* channels wake and wakeSched.  The lists runnable and blocked are arrays  *)
(* with removal by swapping with the last element; each thread remembers    *)
(* its index.  When a thread panics, or the strategy ends the path, all     *)
(* threads are woken to unwind.                                             *)
(*                                                                          *)
(* The program is any whose threads run one at a time: a running thread may *)
(* start threads, yield, block, unblock any thread, panic and return, and   *)
(* may do so again in its deferred functions while it unwinds, which may    *)
(* also recover a panic, be it the abort.  What the deferred functions of   *)
(* one thread do is bounded.  Indices are counted from 1.                   *)
(***************************************************************************)
EXTENDS Integers, Sequences, FiniteSets

CONSTANTS
  MaxThreads,   \* bound on the threads of an execution
  MaxDefers     \* bound on what the deferred functions of one thread do

ASSUME WeaveAssumption == MaxThreads \in Nat \ {0} /\ MaxDefers \in Nat

Threads == 1..MaxThreads

VARIABLES
  nextid,              \* threads created
  runnable, blocked,   \* sequences of threads
  index,               \* thread -> thread.index
  isBlocked,           \* thread -> thread.blocked
  goErr,               \* "nil", "panic" or "terminated"
  curThread,           \* thread chosen by the scheduler, 0 if none
  spc,                 \* scheduler: "pick", "wake", "wait", "returned" or "panicked"
  tpc,                 \* thread: "new", "wake" in <-t.wake, "running",
                       \* "sched" and "leave" sending wakeSched, "exited"
  err,                 \* thread -> its panic: "nil", "panic", "terminated", "abort"
  defers               \* thread -> operations its deferred functions may still do

lists == <<runnable, blocked, index, isBlocked>>
vars == <<nextid, lists, goErr, curThread, spc, tpc, err, defers>>

\* Run's function: reset the state, goNoSched(main), enter scheduler().
Init ==
  /\ nextid = 1
  /\ runnable = <<1>> /\ blocked = <<>>
  /\ index = [t \in Threads |-> 1] /\ isBlocked = [t \in Threads |-> FALSE]
  /\ goErr = "nil" /\ curThread = 0 /\ spc = "pick"
  /\ tpc = [t \in Threads |-> IF t = 1 THEN "wake" ELSE "new"]
  /\ err = [t \in Threads |-> "nil"]
  /\ defers = [t \in Threads |-> MaxDefers]

-----------------------------------------------------------------------------
(* The scheduler *)

\* Amb picks any; once there is an error, runnable[0].
MayPick(i) == goErr = "nil" \/ i = 1

Pick(i) ==
  /\ spc = "pick" /\ i \in 1..Len(runnable) /\ MayPick(i)
  /\ curThread' = runnable[i] /\ spc' = "wake"
  /\ UNCHANGED <<nextid, lists, goErr, tpc, err, defers>>

\* Amb panics with PathTerminated in the scheduler.
PickTerminated ==
  /\ spc = "pick" /\ runnable # <<>> /\ goErr = "nil"
  /\ goErr' = "terminated"
  /\ curThread' = runnable[1] /\ spc' = "wake"
  /\ UNCHANGED <<nextid, lists, tpc, err, defers>>

\* Amb panics otherwise (ErrNondeterminism); the scheduler panics again and is
\* left, with every thread where it is.
PickPanics ==
  /\ spc = "pick" /\ runnable # <<>> /\ goErr = "nil"
  /\ spc' = "panicked"
  /\ UNCHANGED <<nextid, lists, goErr, curThread, tpc, err, defers>>

SchedulerReturns ==
  /\ spc = "pick" /\ runnable = <<>>
  /\ spc' = "returned"
  /\ UNCHANGED <<nextid, lists, goErr, curThread, tpc, err, defers>>

\* curThread.wake <- void{} meets <-t.wake in desched, which panics with
\* threadAbort when the execution is being shut down.
Wake ==
  /\ spc = "wake" /\ tpc[curThread] = "wake"
  /\ spc' = "wait"
  /\ tpc' = [tpc EXCEPT ![curThread] = "running"]
  /\ err' = [err EXCEPT ![curThread] = IF goErr # "nil" THEN "abort" ELSE @]
  /\ UNCHANGED <<nextid, lists, goErr, curThread, defers>>

\* Slip: blocked threads are not woken.
WakeBlocked_not == UNCHANGED <<runnable, blocked>>

\* "we have to wake blocked threads so they can exit, too"
WakeBlocked ==
  IF goErr # "nil"
  THEN runnable' = runnable \o blocked /\ blocked' = <<>>
  ELSE UNCHANGED <<runnable, blocked>>

\* <-s.wakeSched meets a thread's send.
Descheduled(t) ==
  /\ spc = "wait" /\ tpc[t] \in {"sched", "leave"}
  /\ tpc' = [tpc EXCEPT ![t] = IF @ = "sched" THEN "wake" ELSE "exited"]
  /\ WakeBlocked
  /\ spc' = "pick"
  /\ UNCHANGED <<nextid, index, isBlocked, goErr, curThread, err, defers>>

-----------------------------------------------------------------------------
(* Threads *)

Unwinding(t) == err[t] # "nil"

\* A running thread does one more operation; while it unwinds, as part of a
\* deferred function.
Operates(t) ==
  /\ tpc[t] = "running" /\ (Unwinding(t) => defers[t] > 0)
  /\ defers' = [defers EXCEPT ![t] = IF Unwinding(t) THEN @ - 1 ELSE @]

\* A panic replaces the one that is being unwound.
Throw(t, e) == err' = [err EXCEPT ![t] = e]

Go(t) ==
  /\ Operates(t) /\ nextid < MaxThreads
  /\ LET new == nextid + 1 IN
       /\ nextid' = new
       /\ index' = [index EXCEPT ![new] = Len(runnable) + 1]
       /\ runnable' = Append(runnable, new)
       /\ tpc' = [tpc EXCEPT ![new] = "wake", ![t] = "sched"]
  /\ UNCHANGED <<blocked, isBlocked, goErr, curThread, spc, err>>

Sched(t) ==
  /\ Operates(t)
  /\ tpc' = [tpc EXCEPT ![t] = "sched"]
  /\ UNCHANGED <<nextid, lists, goErr, curThread, spc, err>>

\* Slip: cuts off the last thread without moving it.
SwapRemove_last(list, i) == SubSeq(list, 1, Len(list) - 1)

\* list[i] = list[len(list)-1]; list = list[:len(list)-1]
SwapRemove(list, i) ==
  SubSeq([list EXCEPT ![i] = list[Len(list)]], 1, Len(list) - 1)

\* Slip: the thread that takes the free place keeps its old index.
Reindex_not(list, i) == index

\* list[i].index = i for the thread that moved there.
Reindex(list, i) == [index EXCEPT ![list[Len(list)]] = i]

Block(t) ==
  /\ Operates(t)
  /\ IF isBlocked[t]
     THEN Throw(t, "panic") /\ UNCHANGED <<lists, tpc>>
     ELSE /\ isBlocked' = [isBlocked EXCEPT ![t] = TRUE]
          /\ runnable' = SwapRemove(runnable, index[t])
          /\ index' = [Reindex(runnable, index[t]) EXCEPT ![t] = Len(blocked) + 1]
          /\ blocked' = Append(blocked, t)
          /\ tpc' = [tpc EXCEPT ![t] = "sched"]
          /\ UNCHANGED err
  /\ UNCHANGED <<nextid, goErr, curThread, spc>>

\* t unblocks u, which panics unless u is blocked.  After an abort the list
\* blocked is empty and the access to it panics, too.
Unblock(t, u) ==
  /\ Operates(t) /\ u <= nextid
  /\ isBlocked' = [isBlocked EXCEPT ![u] = FALSE]
  /\ IF ~isBlocked[u] \/ index[u] > Len(blocked)
     THEN Throw(t, "panic") /\ UNCHANGED <<runnable, blocked, index>>
     ELSE /\ blocked' = SwapRemove(blocked, index[u])
          /\ index' = [Reindex(blocked, index[u]) EXCEPT ![u] = Len(runnable) + 1]
          /\ runnable' = Append(runnable, u)
          /\ UNCHANGED err
  /\ UNCHANGED <<nextid, goErr, curThread, spc, tpc>>

\* The program fails, or Amb ends the path inside one of its operations.
Panic(t, e) ==
  /\ Operates(t) /\ Throw(t, e)
  /\ UNCHANGED <<nextid, lists, goErr, curThread, spc, tpc>>

\* A deferred function calls recover() and the thread goes on.
Recover(t) ==
  /\ Unwinding(t) /\ Operates(t) /\ Throw(t, "nil")
  /\ UNCHANGED <<nextid, lists, goErr, curThread, spc, tpc>>

FirstError(t) ==
  IF err[t] \in {"nil", "abort"} \/ goErr # "nil" THEN goErr ELSE err[t]

\* Slip: a thread that aborts leaves without telling the scheduler.
LeavesTo_silent(t) == IF err[t] = "abort" THEN "exited" ELSE "leave"

LeavesTo(t) == "leave"

\* The goroutine's deferred function, reached by return or by a panic.
Exit(t) ==
  /\ tpc[t] = "running"
  /\ index' = Reindex(runnable, index[t])
  /\ runnable' = SwapRemove(runnable, index[t])
  /\ goErr' = FirstError(t)
  /\ tpc' = [tpc EXCEPT ![t] = LeavesTo(t)]
  /\ Throw(t, "nil") /\ defers' = [defers EXCEPT ![t] = 0]
  /\ UNCHANGED <<nextid, blocked, isBlocked, curThread, spc>>

-----------------------------------------------------------------------------
Scheduler ==
  \/ \E i \in 1..Len(runnable) : Pick(i)
  \/ PickTerminated \/ PickPanics \/ SchedulerReturns \/ Wake
  \/ \E t \in Threads : Descheduled(t)

ThreadStep(t) ==
  \/ Go(t) \/ Sched(t) \/ Block(t) \/ (\E u \in Threads : Unblock(t, u))
  \/ (\E e \in {"panic", "terminated"} : Panic(t, e)) \/ Recover(t) \/ Exit(t)

Next == Scheduler \/ \E t \in Threads : ThreadStep(t)

Spec == Init /\ [][Next]_vars

\* Goroutines that can run do run.  Nothing is assumed of the program while it
\* is not unwinding: it may yield for ever.
FairSpec == Spec /\ WF_vars(Scheduler) /\ WF_vars(\E t \in Threads : ThreadStep(t))

-----------------------------------------------------------------------------
TypeOK ==
  /\ nextid \in Threads /\ runnable \in Seq(Threads) /\ blocked \in Seq(Threads)
  /\ index \in [Threads -> Threads] /\ isBlocked \in [Threads -> BOOLEAN]
  /\ goErr \in {"nil", "panic", "terminated"} /\ curThread \in 0..MaxThreads
  /\ spc \in {"pick", "wake", "wait", "returned", "panicked"}
  /\ tpc \in [Threads -> {"new", "wake", "running", "sched", "leave", "exited"}]
  /\ err \in [Threads -> {"nil", "panic", "terminated", "abort"}]
  /\ defers \in [Threads -> 0..MaxDefers]

\* "The waking thread must immediately block on thread.wake or exit": control is
\* in one place.  A thread is active only while the scheduler waits for it, it
\* is the one the scheduler chose, and whom it wakes is there to be woken.
OneActive ==
  /\ \A t \in Threads : tpc[t] \in {"running", "sched", "leave"} => spc = "wait" /\ t = curThread
  /\ spc = "wake" => tpc[curThread] = "wake"
  /\ spc = "wait" => tpc[curThread] \in {"running", "sched", "leave"}

Live(t) == tpc[t] \in {"wake", "running", "sched"}

\* No thread is lost or listed twice by the swapping removals: the live threads
\* are exactly those on the two lists, each once.  Until an execution fails, the
\* threads on the list blocked, which Run reports as "threads asleep", are those
\* that have called block and that nobody has unblocked since.
ListedOnce ==
  LET listed == runnable \o blocked IN
  /\ \A i, j \in 1..Len(listed) : listed[i] = listed[j] => i = j
  /\ \A t \in Threads : Live(t) <=> \E i \in 1..Len(listed) : listed[i] = t
  /\ goErr = "nil" => {blocked[i] : i \in 1..Len(blocked)} = {t \in Threads : isBlocked[t]}

\* The index of a thread is its place in the list it is on.  Once an abort has
\* moved the blocked threads over, only runnable[0] can be relied on.
IndexCorrect ==
  /\ goErr = "nil" =>
       /\ \A i \in 1..Len(runnable) : index[runnable[i]] = i
       /\ \A i \in 1..Len(blocked) : index[blocked[i]] = i
  /\ \A t \in Threads : tpc[t] = "running" =>
       index[t] <= Len(runnable) /\ runnable[index[t]] = t

\* An execution that fails comes to its end, with no goroutine left behind: every
\* thread is woken and unwinds, although deferred functions may yield, block,
\* panic again and recover, boundedly often.
AbortCompletes == (goErr # "nil") ~> (spc = "returned" /\ \A t \in Threads : ~Live(t))
=============================================================================
