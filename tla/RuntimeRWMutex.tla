--------------------------- MODULE RuntimeRWMutex ---------------------------
(***************************************************************************)
(* The model of runtime.rwmutex in src/go-weave/models/rwmutex.go: writers  *)
(* and readers that each lock and unlock once.  An action ends where the    *)
(* code yields: after an atomic operation, a lock, or a park.  The unsigned *)
(* counters are kept as the int32 the code reads them as.                   *)
(***************************************************************************)
EXTENDS Integers, Sequences

CONSTANTS Writers, Readers, rwmutexMaxReaders, None

VARIABLES
  rLock, wLock,          \* owner, or None
  readers,               \* stack of queued readers
  readerPass, writer, readerCount, readerWait,
  checkReaders, checkWriters,
  park,                  \* thread -> count of its semaphore
  pc, r                  \* thread -> control, and the r of lock and unlock

locks == <<rLock, wLock>>
counts == <<readerPass, writer, readerCount, readerWait>>
checks == <<checkReaders, checkWriters>>
vars == <<locks, readers, counts, checks, park, pc, r>>

Threads == Writers \cup Readers

Init ==
  /\ rLock = None /\ wLock = None /\ readers = <<>>
  /\ readerPass = 0 /\ writer = None /\ readerCount = 0 /\ readerWait = 0
  /\ checkReaders = 0 /\ checkWriters = 0
  /\ park = [t \in Threads |-> 0]
  /\ pc = [t \in Threads |-> "start"] /\ r = [t \in Threads |-> 0]

Go(t, from, to) == pc[t] = from /\ pc' = [pc EXCEPT ![t] = to]

-----------------------------------------------------------------------------
(* rlock and runlock *)

\* atomicXadd(&readerCount, 1): negative while a writer is pending.
RCount(t) ==
  /\ Go(t, "start", IF readerCount + 1 < 0 THEN "rlock.pending" ELSE "rlock.in")
  /\ readerCount' = readerCount + 1
  /\ UNCHANGED <<locks, readers, readerPass, writer, readerWait, checks, park, r>>

\* Under rLock: take a pass a writer has left, or queue for the writer to come.
RPending(t) ==
  /\ rLock = None
  /\ IF readerPass > 0
     THEN Go(t, "rlock.pending", "rlock.in") /\ readerPass' = readerPass - 1 /\ UNCHANGED readers
     ELSE Go(t, "rlock.pending", "rlock.sleep") /\ readers' = <<t>> \o readers /\ UNCHANGED readerPass
  /\ UNCHANGED <<locks, writer, readerCount, readerWait, checks, park, r>>

RWoken(t) ==
  /\ park[t] > 0 /\ Go(t, "rlock.sleep", "rlock.in")
  /\ park' = [park EXCEPT ![t] = @ - 1]
  /\ UNCHANGED <<locks, readers, counts, checks, r>>

REnter(t) ==
  /\ Go(t, "rlock.in", IF checkWriters # 0 THEN "panic" ELSE "rlocked")
  /\ checkReaders' = checkReaders + 1
  /\ UNCHANGED <<locks, readers, counts, checkWriters, park, r>>

\* runlock: the self-checks, then atomicXadd(&readerCount, -1).
RUncount(t) ==
  /\ LET n == readerCount - 1
     IN  Go(t, "rlocked", CASE checkReaders <= 0 \/ checkWriters # 0 -> "panic"
                            [] n < 0 /\ n + 1 \in {0, -rwmutexMaxReaders} -> "panic"
                            [] n < 0 -> "runlock.wait"
                            [] OTHER -> "done")
  /\ checkReaders' = checkReaders - 1 /\ readerCount' = readerCount - 1
  /\ UNCHANGED <<locks, readers, readerPass, writer, readerWait, checkWriters, park, r>>

RUnwait(t) ==
  /\ Go(t, "runlock.wait", IF readerWait - 1 = 0 THEN "runlock.last" ELSE "done")
  /\ readerWait' = readerWait - 1
  /\ UNCHANGED <<locks, readers, readerPass, writer, readerCount, checks, park, r>>

\* The last reader wakes the writer, under rLock.
RLast(t) ==
  /\ rLock = None /\ Go(t, "runlock.last", "done")
  /\ park' = IF writer = None THEN park ELSE [park EXCEPT ![writer] = @ + 1]
  /\ UNCHANGED <<locks, readers, counts, checks, r>>

-----------------------------------------------------------------------------
(* lock and unlock *)

WLock(t) ==
  /\ wLock = None /\ wLock' = t /\ Go(t, "start", "lock.announce")
  /\ UNCHANGED <<rLock, readers, counts, checks, park, r>>

\* r is the number of readers that were in when the writer announced itself.
WAnnounce(t) ==
  /\ Go(t, "lock.announce", "lock.rlock")
  /\ readerCount' = readerCount - rwmutexMaxReaders
  /\ r' = [r EXCEPT ![t] = readerCount]
  /\ UNCHANGED <<locks, readers, readerPass, writer, readerWait, checks, park>>

\* Slip: without the lines marked NEW, rLock does not cover the count and the
\* publication of the writer.
WRLock_none(t) ==
  /\ Go(t, "lock.rlock", IF r[t] # 0 THEN "lock.wait" ELSE "lock.in")
  /\ UNCHANGED <<locks, readers, counts, checks, park, r>>

WRLock(t) ==
  /\ rLock = None
  /\ Go(t, "lock.rlock", IF r[t] # 0 THEN "lock.wait" ELSE "lock.in")
  /\ rLock' = IF r[t] # 0 THEN t ELSE None
  /\ UNCHANGED <<wLock, readers, counts, checks, park, r>>

WWait(t) ==
  /\ Go(t, "lock.wait", IF readerWait + r[t] # 0 THEN "lock.publish" ELSE "lock.in")
  /\ readerWait' = readerWait + r[t]
  /\ rLock' = IF readerWait' = 0 /\ rLock = t THEN None ELSE rLock
  /\ UNCHANGED <<wLock, readers, readerPass, writer, readerCount, checks, park, r>>

WPublish(t) ==
  /\ Go(t, "lock.publish", "lock.sleep")
  /\ writer' = t
  /\ rLock' = IF rLock = t THEN None ELSE rLock
  /\ UNCHANGED <<wLock, readers, readerPass, readerCount, readerWait, checks, park, r>>

WWoken(t) ==
  /\ park[t] > 0 /\ Go(t, "lock.sleep", "lock.in")
  /\ park' = [park EXCEPT ![t] = @ - 1]
  /\ UNCHANGED <<locks, readers, counts, checks, r>>

WEnter(t) ==
  /\ Go(t, "lock.in", IF checkReaders # 0 \/ checkWriters # 0 THEN "panic" ELSE "wlocked")
  /\ checkWriters' = checkWriters + 1
  /\ UNCHANGED <<locks, readers, counts, checkReaders, park, r>>

\* unlock: the self-checks, then let readers in again.
WLeave(t) ==
  /\ LET n == readerCount + rwmutexMaxReaders
     IN  /\ Go(t, "wlocked", IF checkReaders # 0 \/ checkWriters # 1 \/ n >= rwmutexMaxReaders
                             THEN "panic" ELSE "unlock.readers")
         /\ readerCount' = n /\ r' = [r EXCEPT ![t] = n]
  /\ checkWriters' = checkWriters - 1
  /\ UNCHANGED <<locks, readers, readerPass, writer, readerWait, checkReaders, park>>

\* Wake the queued readers; those not queued yet get a pass each.
WReleaseReaders(t) ==
  /\ rLock = None /\ Go(t, "unlock.readers", "unlock.w")
  /\ park' = [u \in Threads |-> park[u] + (IF \E i \in 1..Len(readers) : readers[i] = u THEN 1 ELSE 0)]
  /\ readerPass' = readerPass + (r[t] - Len(readers))
  /\ readers' = <<>>
  /\ UNCHANGED <<locks, writer, readerCount, readerWait, checks, r>>

WUnlock(t) ==
  /\ Go(t, "unlock.w", "done") /\ wLock' = None
  /\ UNCHANGED <<rLock, readers, counts, checks, park, r>>

Reader(t) ==
  \/ RCount(t) \/ RPending(t) \/ RWoken(t) \/ REnter(t)
  \/ RUncount(t) \/ RUnwait(t) \/ RLast(t)

Writer(t) ==
  \/ WLock(t) \/ WAnnounce(t) \/ WRLock(t) \/ WWait(t) \/ WPublish(t) \/ WWoken(t)
  \/ WEnter(t) \/ WLeave(t) \/ WReleaseReaders(t) \/ WUnlock(t)

Next == (\E t \in Readers : Reader(t)) \/ (\E t \in Writers : Writer(t))

Spec == Init /\ [][Next]_vars

-----------------------------------------------------------------------------
\* No self-check of rlock, runlock, lock and unlock fails: a writer is alone,
\* and the counters never run below what the operations account for.
NoPanic == \A t \in Threads : pc[t] # "panic"

\* t can take no step: it is done, or waits for a lock or a wakeup.
Stuck(t) ==
  \/ pc[t] \in {"done", "panic"}
  \/ pc[t] \in {"rlock.pending", "runlock.last", "lock.rlock", "unlock.readers"} /\ rLock # None
  \/ pc[t] \in {"rlock.sleep", "lock.sleep"} /\ park[t] = 0
  \/ t \in Writers /\ pc[t] = "start" /\ wLock # None

\* No wakeup is lost: when no thread can take a step, all have unlocked, and
\* no pass or token is left over for a later reader.
AllUnlock ==
  (\A t \in Threads : Stuck(t)) =>
    /\ \A t \in Threads : pc[t] = "done"
    /\ readerPass = 0 /\ readerCount = 0 /\ readerWait = 0
    /\ \A t \in Threads : park[t] = 0

RWMutexSound == NoPanic /\ AllUnlock

=============================================================================
