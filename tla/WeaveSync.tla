------------------------------ MODULE WeaveSync ------------------------------
(***************************************************************************)
(* The synchronisation objects of go-weave: Mutex and RWMutex               *)
(* (src/go-weave/weave/mutex.go), Semaphore (sema.go) and WaitGroup         *)
(* (waitgroup.go), one of each, shared by a set of threads.  The scheduler  *)
(* switches threads only in Sched and block, so an operation is one action; *)
(* the module Weave models the scheduler.  Programs are well behaved: they  *)
(* release only what they hold.                                             *)
(***************************************************************************)
EXTENDS Integers, Sequences, FiniteSets, FiniteSetsExt

CONSTANTS
  Threads,
  Tokens,      \* what the semaphore is given before the threads start
  Requests     \* how much a thread may ask of the semaphore

VARIABLES
  locked, waiters,          \* Mutex
  r, w, readers, writers,   \* RWMutex
  avail, wait,              \* Semaphore; wait is a queue of [thr, n]
  n, wgWaiters,             \* WaitGroup
  blocked,                  \* threads that are blocked
  has                       \* thread -> what it holds (history)

mutexVars == <<locked, waiters>>
rwVars == <<r, w, readers, writers>>
semaVars == <<avail, wait>>
wgVars == <<n, wgWaiters>>
vars == <<mutexVars, rwVars, semaVars, wgVars, blocked, has>>

Init ==
  /\ locked = FALSE /\ waiters = {}
  /\ r = 0 /\ w = 0 /\ readers = {} /\ writers = {}
  /\ avail = Tokens /\ wait = <<>>
  /\ n = 0 /\ wgWaiters = {}
  /\ blocked = {}
  /\ has = [t \in Threads |-> [lock |-> 0, rlock |-> 0, wlock |-> 0, sema |-> 0, add |-> 0]]

Runs(t) == t \in Threads \ blocked
Block(t) == blocked' = blocked \cup {t} /\ UNCHANGED has

\* The threads of T come to own a lock; t gives one up.
Gain(T, field) == [t \in Threads |-> [has[t] EXCEPT ![field] = IF t \in T THEN 1 ELSE @]]
Lose(own, t, field) == [own EXCEPT ![t][field] = 0]

-----------------------------------------------------------------------------
(* Mutex.  Which waiter Unlock wakes is arbitrary, so they are a set. *)

MutexLock(t) ==
  /\ Runs(t) /\ has[t].lock = 0
  /\ IF ~locked
     THEN locked' = TRUE /\ has' = Gain({t}, "lock") /\ UNCHANGED <<waiters, blocked>>
     ELSE waiters' = waiters \cup {t} /\ Block(t) /\ UNCHANGED locked
  /\ UNCHANGED <<rwVars, semaVars, wgVars>>

\* With waiters the mutex stays locked and is handed to one of them.
MutexUnlock(t) ==
  /\ Runs(t) /\ has[t].lock = 1
  /\ \/ /\ waiters = {} /\ locked' = FALSE
        /\ has' = Lose(has, t, "lock") /\ UNCHANGED <<waiters, blocked>>
     \/ \E u \in waiters :
          /\ waiters' = waiters \ {u} /\ blocked' = blocked \ {u}
          /\ has' = Lose(Gain({u}, "lock"), t, "lock")
          /\ UNCHANGED locked
  /\ UNCHANGED <<rwVars, semaVars, wgVars>>

-----------------------------------------------------------------------------
(* RWMutex *)

Free(t) == has[t].rlock = 0 /\ has[t].wlock = 0

RWLock(t) ==
  /\ Runs(t) /\ Free(t)
  /\ IF r = 0 /\ w = 0
     THEN w' = w + 1 /\ has' = Gain({t}, "wlock") /\ UNCHANGED <<writers, blocked>>
     ELSE writers' = writers \cup {t} /\ Block(t) /\ UNCHANGED w
  /\ UNCHANGED <<mutexVars, r, readers, semaVars, wgVars>>

RLock(t) ==
  /\ Runs(t) /\ Free(t)
  /\ IF w = 0
     THEN r' = r + 1 /\ has' = Gain({t}, "rlock") /\ UNCHANGED <<readers, blocked>>
     ELSE readers' = readers \cup {t} /\ Block(t) /\ UNCHANGED r
  /\ UNCHANGED <<mutexVars, w, writers, semaVars, wgVars>>

\* Slip: a writer is woken although readers remain.
MayWakeWriter_always(r1) == writers # {}

MayWakeWriter(r1) == r1 = 0 /\ writers # {}

\* release, with r1 readers and no writer left: wake all readers, or one writer.
Release(t, r1, field) ==
  \/ /\ readers # {}
     /\ r' = r1 + Cardinality(readers) /\ w' = 0
     /\ blocked' = blocked \ readers /\ readers' = {}
     /\ has' = Lose(Gain(readers, "rlock"), t, field)
     /\ UNCHANGED writers
  \/ /\ readers = {} /\ MayWakeWriter(r1)
     /\ r' = r1 /\ w' = 1
     /\ \E u \in writers :
          /\ writers' = writers \ {u} /\ blocked' = blocked \ {u}
          /\ has' = Lose(Gain({u}, "wlock"), t, field)
     /\ UNCHANGED readers
  \/ /\ readers = {} /\ ~MayWakeWriter(r1)
     /\ r' = r1 /\ w' = 0
     /\ has' = Lose(has, t, field)
     /\ UNCHANGED <<readers, writers, blocked>>

RWUnlock(t) ==
  /\ Runs(t) /\ has[t].wlock = 1
  /\ Release(t, r, "wlock")
  /\ UNCHANGED <<mutexVars, semaVars, wgVars>>

RUnlock(t) ==
  /\ Runs(t) /\ has[t].rlock = 1
  /\ Release(t, r - 1, "rlock")
  /\ UNCHANGED <<mutexVars, semaVars, wgVars>>

-----------------------------------------------------------------------------
(* Semaphore *)

Enough(k) == avail >= k

Acquire(t, k) ==
  /\ Runs(t) /\ has[t].sema = 0
  /\ IF Enough(k)
     THEN /\ avail' = avail - k /\ has' = [has EXCEPT ![t].sema = k]
          /\ UNCHANGED <<wait, blocked>>
     ELSE wait' = Append(wait, [thr |-> t, n |-> k]) /\ Block(t) /\ UNCHANGED avail
  /\ UNCHANGED <<mutexVars, rwVars, wgVars>>

\* What the first i waiters ask for.
Demand(i) == MapThenSumSet(LAMBDA j : wait[j].n, 1..i)

\* Slip: wakes at most one waiter.
Served_one(free) == IF wait # <<>> /\ Demand(1) <= free THEN 1 ELSE 0

\* How many waiters the loop of Release serves, in order, from `free` tokens.
Served(free) ==
  Cardinality({i \in 1..Len(wait) : Demand(i) <= free})

\* t gives back m of the tokens it holds.
SemaRelease(t, m) ==
  /\ Runs(t) /\ m <= has[t].sema
  /\ LET free == avail + m
         k == Served(free)
         woken == {wait[i].thr : i \in 1..k}
         got(u) == (CHOOSE i \in 1..k : wait[i].thr = u)
     IN  /\ avail' = free - Demand(k)
         /\ wait' = SubSeq(wait, k + 1, Len(wait))
         /\ blocked' = blocked \ woken
         /\ has' = [u \in Threads |->
                      [has[u] EXCEPT !.sema = IF u = t THEN @ - m
                                              ELSE IF u \in woken THEN wait[got(u)].n ELSE @]]
  /\ UNCHANGED <<mutexVars, rwVars, wgVars>>

-----------------------------------------------------------------------------
(* WaitGroup: every Add(1) is answered by a Done of the same thread. *)

Add(t) ==
  /\ Runs(t) /\ has[t].add = 0
  /\ n' = n + 1 /\ has' = [has EXCEPT ![t].add = 1]
  /\ UNCHANGED <<mutexVars, rwVars, semaVars, wgWaiters, blocked>>

Done(t) ==
  /\ Runs(t) /\ has[t].add = 1
  /\ n' = n - 1 /\ has' = Lose(has, t, "add")
  /\ IF n' = 0 THEN wgWaiters' = {} /\ blocked' = blocked \ wgWaiters
               ELSE UNCHANGED <<wgWaiters, blocked>>
  /\ UNCHANGED <<mutexVars, rwVars, semaVars>>

\* Wait when n = 0 only yields.
Wait(t) ==
  /\ Runs(t) /\ n # 0
  /\ wgWaiters' = wgWaiters \cup {t} /\ Block(t)
  /\ UNCHANGED <<mutexVars, rwVars, semaVars, n>>

-----------------------------------------------------------------------------
Step(t) ==
  \/ MutexLock(t) \/ MutexUnlock(t)
  \/ RWLock(t) \/ RLock(t) \/ RWUnlock(t) \/ RUnlock(t)
  \/ (\E k \in Requests : Acquire(t, k)) \/ (\E m \in 1..Tokens : SemaRelease(t, m))
  \/ Add(t) \/ Done(t) \/ Wait(t)

Next == \E t \in Threads : Step(t)

Spec == Init /\ [][Next]_vars

-----------------------------------------------------------------------------
Holders(field) == {t \in Threads : has[t][field] > 0}

TypeOK ==
  /\ locked \in BOOLEAN /\ r \in Nat /\ w \in Nat /\ avail \in Nat /\ n \in Nat
  /\ waiters \subseteq Threads /\ readers \subseteq Threads /\ writers \subseteq Threads
  /\ wgWaiters \subseteq Threads /\ blocked \subseteq Threads
  /\ wait \in Seq([thr : Threads, n : Requests])
  /\ has \in [Threads -> [lock : 0..1, rlock : 0..1, wlock : 0..1, sema : 0..Tokens, add : 0..1]]

\* The state of each object is what the threads own: the mutex and the writer
\* side have at most one owner, who excludes all readers, and no token of the
\* semaphore is lost or made up, also when ownership passes to woken threads.
OwnersMatch ==
  /\ Cardinality(Holders("lock")) = IF locked THEN 1 ELSE 0
  /\ r = Cardinality(Holders("rlock")) /\ w = Cardinality(Holders("wlock"))
  /\ w <= 1 /\ (w = 1 => r = 0)
  /\ avail + MapThenSumSet(LAMBDA t : has[t].sema, Threads) = Tokens
  /\ n = Cardinality(Holders("add"))

\* No wakeup is lost: a thread waits for a lock, or for the group, only while it
\* is not to be had; and the semaphore, which serves its waiters in the order of
\* the queue, never has enough for the first of them.  (Those behind it may wait
\* although there is enough for them.)
NoLostWakeup ==
  /\ waiters # {} => locked
  /\ readers # {} => w = 1
  /\ writers # {} => r + w > 0
  /\ wait # <<>> => avail < wait[1].n
  /\ wgWaiters # {} => n > 0

=============================================================================
