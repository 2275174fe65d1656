------------------------------ MODULE RunQueue ------------------------------
(***************************************************************************)
(* The scheduler run queue of src/go-weave/models/cl20858.go: one owner     *)
(* puts and gets, while another thread asks runqempty.  Every load or store *)
(* of a shared word is an action: the code yields after each.  What is      *)
(* queued does not matter here, so an entry is only counted.                *)
(***************************************************************************)
EXTENDS Naturals

CONSTANTS
  Ops,       \* how many operations the owner does
  RunqLen    \* len(runq)

VARIABLES
  runnext,             \* 0 or 1: is there a next goroutine?
  runqhead, runqtail,
  own,                 \* the owner: [pc, h, t, left]
  obs,                 \* runqempty: [pc, h, t, n, result]
  seen                 \* history: the states of the queue during the call

queue == <<runnext, runqhead, runqtail>>
vars == <<queue, own, obs, seen>>

Empty(n, h, t) == n = 0 /\ h = t

Init ==
  /\ runnext = 0 /\ runqhead = 0 /\ runqtail = 0
  /\ own = [pc |-> "idle", h |-> 0, t |-> 0, left |-> Ops]
  /\ obs = [pc |-> "head", h |-> 0, t |-> 0, n |-> 0, result |-> FALSE]
  /\ seen = {TRUE}

Owner(from, to, h, t) ==
  /\ own.pc = from
  /\ own' = IF to = "idle" THEN [pc |-> "idle", h |-> 0, t |-> 0, left |-> own.left - 1]
             ELSE [pc |-> to, h |-> h, t |-> t, left |-> own.left]
  /\ seen' = IF obs.pc = "end" THEN seen ELSE seen \cup {Empty(runnext', runqhead', runqtail')}
  /\ UNCHANGED obs

\* runqput takes the place of runnext; what was there goes to the tail.
PutNext ==
  /\ own.left > 0 /\ runnext' = 1
  /\ UNCHANGED <<runqhead, runqtail>>
  /\ Owner("idle", IF runnext = 0 THEN "idle" ELSE "put.head", 0, 0)

PutHead == UNCHANGED queue /\ Owner("put.head", "put.tail", runqhead, 0)

\* A full queue panics: RunqLen is more than the owner can put.
PutTail ==
  /\ runqtail - own.h < RunqLen
  /\ UNCHANGED queue
  /\ Owner("put.tail", "put.store", own.h, runqtail)

PutStore ==
  /\ runqtail' = own.t + 1
  /\ UNCHANGED <<runnext, runqhead>>
  /\ Owner("put.store", "idle", 0, 0)

GetNext ==
  /\ own.left > 0
  /\ runnext' = 0
  /\ UNCHANGED <<runqhead, runqtail>>
  /\ Owner("idle", IF runnext # 0 THEN "idle" ELSE "get.head", 0, 0)

GetHead == UNCHANGED queue /\ Owner("get.head", "get.tail", runqhead, 0)

GetTail ==
  /\ UNCHANGED queue
  /\ Owner("get.tail", IF runqtail = own.h THEN "idle" ELSE "get.take", own.h, runqtail)

\* Nobody else moves the head, so the compare never fails.
GetTake ==
  /\ runqhead = own.h /\ runqhead' = own.h + 1
  /\ UNCHANGED <<runnext, runqtail>>
  /\ Owner("get.take", "idle", 0, 0)

-----------------------------------------------------------------------------
(* runqempty *)

Observe(from, new) ==
  /\ obs.pc = from /\ obs' = new
  /\ UNCHANGED <<queue, own>>

LoadHead == Observe("head", [obs EXCEPT !.pc = "tail", !.h = runqhead]) /\ UNCHANGED seen
LoadTail == Observe("tail", [obs EXCEPT !.pc = "next", !.t = runqtail]) /\ UNCHANGED seen
LoadNext == Observe("next", [obs EXCEPT !.pc = "again", !.n = runnext]) /\ UNCHANGED seen

Return == [obs EXCEPT !.pc = "end", !.result = Empty(obs.n, obs.h, obs.t)]

\* Slip: runqemptyOld, which does not look at the tail again.
LoadTailAgain_old == Observe("again", Return) /\ UNCHANGED seen

\* Start again if the tail has moved.
LoadTailAgain ==
  /\ Observe("again", IF runqtail = obs.t THEN Return ELSE [obs EXCEPT !.pc = "head"])
  /\ UNCHANGED seen

\* The observer calls again.
Call ==
  /\ Observe("end", [pc |-> "head", h |-> 0, t |-> 0, n |-> 0, result |-> FALSE])
  /\ seen' = {Empty(runnext, runqhead, runqtail)}

Next ==
  \/ PutNext \/ PutHead \/ PutTail \/ PutStore
  \/ GetNext \/ GetHead \/ GetTail \/ GetTake
  \/ LoadHead \/ LoadTail \/ LoadNext \/ LoadTailAgain \/ Call

Spec == Init /\ [][Next]_vars

-----------------------------------------------------------------------------
\* runqempty is not spurious (the panics of cl20858.go:28,51,54): what it
\* returns was true of the queue at some moment of the call.
NotSpurious == obs.pc = "end" => obs.result \in seen

=============================================================================
