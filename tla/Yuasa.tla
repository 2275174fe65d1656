-------------------------------- MODULE Yuasa --------------------------------
(***************************************************************************)
(* The concurrent marker of src/go-weave/models/yuasa.go: mutators shuffle  *)
(* pointers between their stacks, a global root and the heap through a      *)
(* write barrier while the collector marks.  The code fixes one barrier by  *)
(* constants and documents which of stackBeforeHeap and rescanStacks each   *)
(* barrier needs; here every documented combination is an initial state.    *)
(* An action is what the code does between two scheduling points, where an  *)
(* acquired lock is taken with the step that follows it and a released one  *)
(* with the step before it (they commute with the other threads' steps).    *)
(* Object t of Threads is the stack of thread t.                            *)
(***************************************************************************)
EXTENDS Naturals, FiniteSets

CONSTANTS
  Threads, Heap,  \* stacks and heap objects
  Global, Nil,    \* the global root and the nil pointer
  Slots,          \* slots of an object are 1..Slots
  Writes          \* how often a mutator writes

VARIABLES
  conf,       \* [barrier, stackBeforeHeap, rescanStacks]
  mem, marked, work, rootCount,
  gc,         \* the collector: [phase, pc, obj, slot, p, todo]
  mut         \* thread -> [pc, src, dst, slot, old, left]

vars == <<conf, mem, marked, work, rootCount, gc, mut>>

Objects == Threads \cup {Global} \cup Heap
Roots == Threads \cup {Global}

Configurations ==
  {[barrier |-> "yuasa", stackBeforeHeap |-> TRUE, rescanStacks |-> FALSE],
   [barrier |-> "dijkstraYuasa", stackBeforeHeap |-> FALSE, rescanStacks |-> FALSE],
   [barrier |-> "conditional", stackBeforeHeap |-> FALSE, rescanStacks |-> FALSE],
   [barrier |-> "dijkstra", stackBeforeHeap |-> FALSE, rescanStacks |-> TRUE]}

\* mark: the least set with the objects of from and all that its members point to.
Closed(objs) == \A o \in objs, i \in 1..Slots : mem[o][i] \in objs \cup {Nil}
Mark(from) ==
  {o \in Objects : \A objs \in SUBSET Objects : from \subseteq objs /\ Closed(objs) => o \in objs}

Reachable(t) == Mark({Global, t})

\* ambPointer with the reachable set, and with everything but stacks.
AmbSource(t) == Reachable(t) \cup {Nil}
AmbHeapPointer == {Nil, Global} \cup Heap

Idle == [pc |-> "idle", src |-> Nil, dst |-> Nil, slot |-> 1, old |-> Nil, left |-> Writes]

\* Greying the roots is done before the collector first yields.  What an
\* unreachable object holds is never read: it is nil.
Init ==
  /\ conf \in Configurations
  /\ mem \in [Objects -> [1..Slots -> AmbHeapPointer]]
  /\ \A o \in Heap \ Mark(Roots) : mem[o] = [i \in 1..Slots |-> Nil]
  /\ rootCount = Cardinality(Roots)
  /\ mut = [t \in Threads |-> Idle]
  /\ gc = [phase |-> IF conf.stackBeforeHeap THEN "roots" ELSE "heap",
           pc |-> "pick", obj |-> Nil, slot |-> 1, p |-> Nil, todo |-> Roots]
  /\ IF conf.stackBeforeHeap THEN marked = {} /\ work = {}
                             ELSE marked = Roots /\ work = Roots

\* shade(a); shade(b)
ShadeAll(ps) ==
  LET white == ps \ (marked \cup {Nil})
  IN  marked' = marked \cup white /\ work' = work \cup white

\* A mutator has its stack lock from reading src to having written, and world
\* from picking its target; the collector stops the world before the check.
InBarrier(t) == mut[t].pc \in {"write", "barrier"}
Stopped == gc.phase = "rescan" \/ gc.pc = "check"

-----------------------------------------------------------------------------
(* The collector: the roots if they come before the heap, then drain, then   *)
(* the stop, then the rescan if there is one, then the check.                *)

\* A stack is scanned under its lock; the first slot is read at once.
Scan(o) ==
  /\ gc.pc = "pick" /\ (o \in Threads => mut[o].pc = "idle")
  /\ gc' = [gc EXCEPT !.pc = "scan", !.obj = o, !.slot = 1, !.p = mem[o][1], !.todo = @ \ {o}]
  /\ UNCHANGED <<conf, mem, marked, rootCount, mut>>

\* The stacks, then the global root.
GcPickRoot ==
  /\ gc.phase = "roots"
  /\ \E o \in IF gc.todo = {Global} THEN gc.todo ELSE gc.todo \ {Global} : Scan(o)
  /\ UNCHANGED work

GcPickGrey ==
  /\ gc.phase # "roots"
  /\ \E o \in work : Scan(o) /\ work' = work \ {o}

\* Shade what the slot held when it was read, and read the next slot.
GcShade ==
  /\ gc.pc = "scan" /\ gc.slot < Slots
  /\ ShadeAll({gc.p})
  /\ gc' = [gc EXCEPT !.slot = @ + 1, !.p = mem[gc.obj][gc.slot + 1]]
  /\ UNCHANGED <<conf, mem, rootCount, mut>>

\* The last slot; a root scanned before the heap is marked only now.
GcScanned ==
  /\ gc.pc = "scan" /\ gc.slot = Slots
  /\ LET white == {gc.p} \ (marked \cup {Nil})
     IN  /\ work' = work \cup white
         /\ marked' = marked \cup white \cup (IF gc.phase = "roots" THEN {gc.obj} ELSE {})
  /\ rootCount' = IF gc.obj \in Roots THEN rootCount - 1 ELSE rootCount
  /\ gc' = [gc EXCEPT !.pc = "pick", !.obj = Nil, !.p = Nil, !.slot = 1,
                      !.phase = IF @ = "roots" /\ gc.todo = {} THEN "heap" ELSE @]
  /\ UNCHANGED <<conf, mem, mut>>

\* drain is done: world.Lock waits for the barriers.  The rescan greys the stacks.
GcStop ==
  /\ gc.phase = "heap" /\ gc.pc = "pick" /\ work = {}
  /\ \A t \in Threads : ~InBarrier(t)
  /\ IF conf.rescanStacks
     THEN /\ gc' = [gc EXCEPT !.phase = "rescan"]
          /\ work' = Threads /\ marked' = marked \cup Threads
     ELSE gc' = [gc EXCEPT !.pc = "check"] /\ UNCHANGED <<work, marked>>
  /\ UNCHANGED <<conf, mem, rootCount, mut>>

GcRescanned ==
  /\ gc.phase = "rescan" /\ gc.pc = "pick" /\ work = {}
  /\ gc' = [gc EXCEPT !.pc = "check"]
  /\ UNCHANGED <<conf, mem, marked, work, rootCount, mut>>

Collector == GcPickRoot \/ GcPickGrey \/ GcShade \/ GcScanned \/ GcStop \/ GcRescanned

-----------------------------------------------------------------------------
(* A mutator *)

Set(t, m) == mut' = [mut EXCEPT ![t] = m]

MutSource(t) ==
  /\ mut[t].pc = "idle" /\ mut[t].left > 0
  /\ ~(gc.pc = "scan" /\ gc.obj = t)
  /\ \E s \in AmbSource(t) : Set(t, [mut[t] EXCEPT !.pc = "dst", !.src = s])
  /\ UNCHANGED <<conf, mem, marked, work, rootCount, gc>>

\* Pick where to write, and enter writePointer: world.RLock waits for the stop.
MutTarget(t) ==
  /\ mut[t].pc = "dst" /\ ~Stopped
  /\ \E d \in IF mut[t].src = t THEN {t} ELSE Reachable(t), i \in 1..Slots :
       Set(t, [mut[t] EXCEPT !.pc = "write", !.dst = d, !.slot = i])
  /\ UNCHANGED <<conf, mem, marked, work, rootCount, gc>>

\* mem[obj][slot] = val; the locks are released.
Store(t) ==
  /\ mem' = [mem EXCEPT ![mut[t].dst][mut[t].slot] = mut[t].src]
  /\ Set(t, [Idle EXCEPT !.left = mut[t].left - 1])
  /\ UNCHANGED <<conf, rootCount, gc>>

\* A stack is written without a barrier.
MutWriteStack(t) ==
  /\ mut[t].pc = "write" /\ mut[t].dst = t
  /\ Store(t) /\ UNCHANGED <<marked, work>>

MutDijkstra(t) ==
  /\ mut[t].pc = "write" /\ mut[t].dst # t /\ conf.barrier = "dijkstra"
  /\ Store(t) /\ ShadeAll({mut[t].src})

\* The deletion barriers read the old pointer and yield before they shade it.
MutReadOld(t) ==
  /\ mut[t].pc = "write" /\ mut[t].dst # t /\ conf.barrier # "dijkstra"
  /\ Set(t, [mut[t] EXCEPT !.pc = "barrier", !.old = mem[mut[t].dst][mut[t].slot]])
  /\ UNCHANGED <<conf, mem, marked, work, rootCount, gc>>

\* Slip: the conditional barrier never shades the new pointer.
ShadesNew_never == conf.barrier = "dijkstraYuasa"

\* Does the deletion barrier shade the new pointer, too?
ShadesNew ==
  \/ conf.barrier = "dijkstraYuasa"
  \/ conf.barrier = "conditional" /\ rootCount > 0

MutBarrier(t) ==
  /\ mut[t].pc = "barrier"
  /\ Store(t) /\ ShadeAll({mut[t].old} \cup (IF ShadesNew THEN {mut[t].src} ELSE {}))

Mutator(t) ==
  \/ MutSource(t) \/ MutTarget(t) \/ MutWriteStack(t)
  \/ MutDijkstra(t) \/ MutReadOld(t) \/ MutBarrier(t)

Next == Collector \/ \E t \in Threads : Mutator(t)

Spec == Init /\ [][Next]_vars

-----------------------------------------------------------------------------
\* checkmark (yuasa.go:406): when the world has been stopped and marking is
\* over, everything reachable from a stack or the global root is marked, with
\* each barrier under what its comment says it needs.
AllMarked == gc.pc = "check" => Mark(Roots) \subseteq marked

=============================================================================
