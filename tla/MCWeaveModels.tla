--------------------------- MODULE MCWeaveModels ---------------------------
(***************************************************************************)
(* The synchronisation objects of go-weave and the models in                *)
(* src/go-weave/models, checked together: a behaviour is one of the modules *)
(* below, on the variables s1, s2, ... as named there.  The others stay 0.  *)
(***************************************************************************)
EXTENDS Naturals, FiniteSets

CONSTANTS
  t1, g, nil, Heap1, Slots1, Writes1,           \* Yuasa
  Heap2, Slots2, Writes2,                       \* Yuasa again
  Writers, Readers, rwmutexMaxReaders,          \* RuntimeRWMutex
  Ops,                                          \* RunQueue
  Workers, markrootJobs, Iterations,            \* MarkDone
  Users, Tokens, Requests,                      \* WeaveSync
  None

VARIABLES model, s1, s2, s3, s4, s5, s6, s7, s8, s9, s10, s11, s12

vars == <<model, s1, s2, s3, s4, s5, s6, s7, s8, s9, s10, s11, s12>>

\* One stack, and two heaps: objects of one slot, and of several.
ASSUME YuasaConstants ==
  /\ Slots1 \in Nat \ {0} /\ Slots2 \in Nat \ {0} /\ Writes1 \in Nat /\ Writes2 \in Nat
  /\ t1 # g /\ t1 # nil /\ g # nil /\ {t1, g, nil} \cap (Heap1 \cup Heap2) = {}
Y == INSTANCE Yuasa WITH
       Threads <- {t1}, Global <- g, Nil <- nil, Heap <- Heap1, Slots <- Slots1, Writes <- Writes1,
       conf <- s1, mem <- s2, marked <- s3, work <- s4, rootCount <- s5, gc <- s6, mut <- s7
Y2 == INSTANCE Yuasa WITH
       Threads <- {t1}, Global <- g, Nil <- nil, Heap <- Heap2, Slots <- Slots2, Writes <- Writes2,
       conf <- s1, mem <- s2, marked <- s3, work <- s4, rootCount <- s5, gc <- s6, mut <- s7

T == INSTANCE MaxTree WITH
       Depth <- 3, Degree <- 2, Workers <- {1, 2}, Values <- 0..2, Rounds <- 2,
       Vals <- s1, wk <- s2, round <- s3

\* rwmutexMaxReaders bounds the readers, as the code says.
ASSUME RWMutexConstants ==
  /\ IsFiniteSet(Readers) /\ Readers \cap Writers = {} /\ None \notin Readers \cup Writers
  /\ rwmutexMaxReaders \in Nat /\ Cardinality(Readers) < rwmutexMaxReaders
W == INSTANCE RuntimeRWMutex WITH
       rLock <- s1, wLock <- s2, readers <- s3, readerPass <- s4, writer <- s5,
       readerCount <- s6, readerWait <- s7, checkReaders <- s8, checkWriters <- s9,
       park <- s10, pc <- s11, r <- s12

ASSUME RunQueueConstants == Ops \in Nat
Q == INSTANCE RunQueue WITH
       RunqLen <- 256,
       runnext <- s1, runqhead <- s2, runqtail <- s3, own <- s4, obs <- s5, seen <- s6

ASSUME MarkDoneConstants == IsFiniteSet(Workers) /\ markrootJobs \in Nat \ {0}
D == INSTANCE MarkDone WITH
       workers <- s1, markrootNext <- s2, scanned <- s3, markDoneSema <- s4, done <- s5, wk <- s6

ASSUME SyncConstants == IsFiniteSet(Users) /\ Tokens \in Nat /\ Requests \subseteq Nat \ {0}
S == INSTANCE WeaveSync WITH
       Threads <- Users,
       locked <- s1, waiters <- s2, r <- s3, w <- s4, readers <- s5, writers <- s6,
       avail <- s7, wait <- s8, n <- s9, wgWaiters <- s10, blocked <- s11, has <- s12

Zero(n) ==
  /\ n <= 4 => s4 = 0 /\ s5 = 0 /\ s6 = 0
  /\ n <= 7 => s7 = 0
  /\ n <= 8 => s8 = 0 /\ s9 = 0 /\ s10 = 0 /\ s11 = 0 /\ s12 = 0

Init ==
  \/ model = "yuasa" /\ Y!Init /\ Zero(8)
  \/ model = "yuasa, two slots" /\ Y2!Init /\ Zero(8)
  \/ model = "maxtree" /\ T!Init /\ Zero(4)
  \/ model = "rwmutex" /\ W!Init
  \/ model = "sync" /\ S!Init
  \/ model = "cl20858" /\ Q!Init /\ Zero(7)
  \/ model = "issue16083" /\ D!Init /\ Zero(7)

From8 == <<s8, s9, s10, s11, s12>>

Next ==
  \/ model = "yuasa" /\ Y!Next /\ UNCHANGED <<model, From8>>
  \/ model = "yuasa, two slots" /\ Y2!Next /\ UNCHANGED <<model, From8>>
  \/ model = "maxtree" /\ T!Next /\ UNCHANGED <<model, s4, s5, s6, s7, From8>>
  \/ model = "rwmutex" /\ W!Next /\ UNCHANGED model
  \/ model = "sync" /\ S!Next /\ UNCHANGED model
  \/ model = "cl20858" /\ Q!Next /\ UNCHANGED <<model, s7, From8>>
  \/ model = "issue16083" /\ D!Next /\ UNCHANGED <<model, s7, From8>>

Spec == Init /\ [][Next]_vars

-----------------------------------------------------------------------------
\* Everything reachable is marked when the collector checks (Yuasa!AllMarked).
AllMarked ==
  /\ model = "yuasa" => Y!AllMarked
  /\ model = "yuasa, two slots" => Y2!AllMarked

\* Parent slots agree with their children once the workers are done
\* (MaxTree!TreeConsistent).
TreeConsistent == model = "maxtree" => T!TreeConsistent

\* The reader/writer lock never fails a self-check and never loses a wakeup
\* (RuntimeRWMutex!NoPanic and RuntimeRWMutex!AllUnlock).
RWMutexSound == model = "rwmutex" => W!RWMutexSound

\* The objects belong to their owners, and no waiter is forgotten
\* (WeaveSync!OwnersMatch and WeaveSync!NoLostWakeup).
OwnersMatch == model = "sync" => S!OwnersMatch
NoLostWakeup == model = "sync" => S!NoLostWakeup

\* runqempty answers what was true during the call (RunQueue!NotSpurious).
NotSpurious == model = "cl20858" => Q!NotSpurious

\* Marking is not declared done with a root job missed (MarkDone!NoneMissed).
NoneMissed == model = "issue16083" => D!NoneMissed

=============================================================================
