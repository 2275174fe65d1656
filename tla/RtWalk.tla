------------------------------- MODULE RtWalk -------------------------------
(***************************************************************************)
(* The lock analysis of src/rtcheck: walkFunction and walkBlock (main.go)   *)
(* explore a program from its roots, with the values they know (val.go) and *)
(* the special functions of handlers.go, and add every pair of locks they   *)
(* see held together to the lock order.                                     *)
(*                                                                         *)
(* A program maps function names to their blocks; a block has instructions, *)
(* the numbers of its successors and of its predecessors.  An instruction   *)
(* has an operation, the value it defines, its operands, and the lock       *)
(* class, the field or the functions (arg) it is about.  Values known on a  *)
(* path are partial functions: that chains of bindings stand for such maps  *)
(* is what ValState shows.                                                  *)
(***************************************************************************)
EXTENDS Integers, Sequences, SequencesExt, FiniteSets, FiniteSetsExt, Functions, TLC

CONSTANTS
  Sources,       \* the programs to analyse; their first root is "main"
  Build(_),      \* the blocks of a source
  MaxSimilar,    \* path states of one block and lock set (10)
  MaxLocks       \* locks held on one path (16)

VARIABLES
  prog,    \* the program
  root,    \* how many roots have been walked
  s        \* state: lockOrder, fns' exitStates, roots, stack, next frame identity

vars == <<prog, root, s>>

L == INSTANCE LockSets

-----------------------------------------------------------------------------
(* Dynamic values *)

DynConst(c) == [t |-> "const", c |-> c]
DynHeapPtr(elem) == [t |-> "ptr", elem |-> elem]
DynStruct(fields) == [t |-> "struct", fields |-> fields]
Unknown == [t |-> "unknown"]
Nil == [t |-> "nil"]
Consts == ("#0" :> 0) @@ ("#1" :> 1)

\* The heap on entry from user space.
Heap0 ==
  [curG |-> DynHeapPtr("userG"), userG |-> DynStruct([m |-> "userG.m"]), g0 |-> DynStruct([m |-> "g0.m"]),
   curM |-> DynStruct([curg |-> "curM.curg", g0 |-> "curM.g0", locks |-> "curM.locks"])]
    @@ ("userG.m" :> DynHeapPtr("curM")) @@ ("g0.m" :> DynHeapPtr("curM")) @@ ("curM.g0" :> DynHeapPtr("g0"))
    @@ ("curM.curg" :> DynHeapPtr("userG")) @@ ("curM.locks" :> DynConst(0))

Get(ps, v) ==
  IF v \in DOMAIN Consts THEN DynConst(Consts[v]) ELSE IF v \in DOMAIN ps.frame THEN ps.frame[v] ELSE Nil
GetHeap(ps, h) == IF h \in DOMAIN ps.heap THEN ps.heap[h] ELSE Nil

Bind(map, k, dyn) ==
  IF dyn \in {Unknown, Nil} THEN Restrict(map, DOMAIN map \ {k})
  ELSE [j \in DOMAIN map \cup {k} |-> IF j = k THEN dyn ELSE map[j]]
Extend(ps, v, dyn) == IF v \in DOMAIN Consts THEN ps ELSE [ps EXCEPT !.frame = Bind(@, v, dyn)]
ExtendHeap(ps, h, dyn) == [ps EXCEPT !.heap = Bind(@, h, dyn)]
Boolean(b) == DynConst(IF b THEN 1 ELSE 0)

FieldAddr(ps, x, field) ==
  LET obj == GetHeap(ps, x.elem)
  IN  IF obj # Nil /\ field \in DOMAIN obj.fields THEN DynHeapPtr(obj.fields[field]) ELSE Unknown

\* ValState.Do
Do(ps, i) ==
  LET x == Get(ps, i.xs[1])
      y == Get(ps, i.xs[2])
  IN  CASE i.op = "eql" /\ x # Nil /\ y # Nil -> Extend(ps, i.v, Boolean(x = y))
        [] i.op = "not" /\ x # Nil -> Extend(ps, i.v, Boolean(x.c = 0))
        [] i.op = "load" /\ x # Nil -> Extend(ps, i.v, IF x.t = "ptr" THEN GetHeap(ps, x.elem) ELSE Unknown)
        [] i.op = "fieldaddr" /\ x # Nil -> Extend(ps, i.v, FieldAddr(ps, x, i.field))
        [] i.op = "store" /\ x # Nil /\ x.t = "ptr" -> ExtendHeap(ps, x.elem, y)
        [] OTHER -> ps

-----------------------------------------------------------------------------
(* livenessFor *)

DefBlock(f, v) == {b \in DOMAIN prog[f] : \E i \in Range(prog[f][b].instrs) : i.v = v}

\* def is live in use, and in the blocks from its definition to there.
RECURSIVE walk(_, _, _, _)
walk(f, deps, def, use) ==
  IF def \in deps[use] \cup DOMAIN Consts THEN deps
  ELSE LET d == [deps EXCEPT ![use] = @ \cup {def}]
       IN  IF use \in DefBlock(f, def) THEN d
           ELSE FoldLeft(LAMBDA acc, pred : walk(f, acc, def, pred), d, prog[f][use].preds)

\* An instruction's operands are live where it is, and so are theirs.  Of a phi
\* the operands' own operands are not followed: it is the phi itself that is
\* visited again.
RECURSIVE doInstr(_, _, _, _)
doInstr(f, st, b, i) ==
  IF <<b, i>> \in st.visited THEN st
  ELSE LET blk == prog[f][b]
           ins == blk.instrs[i]
           st1 == [st EXCEPT !.visited = @ \cup {<<b, i>>}]
           phi(acc, k) == [acc EXCEPT !.deps = walk(f, [@ EXCEPT ![b] = @ \cup {ins.xs[k]}], ins.xs[k], blk.preds[k])]
           regular(acc, x) ==
             LET acc1 == [acc EXCEPT !.deps = walk(f, @, x, b)]
                 defs == {<<db, di>> \in DefBlock(f, x) \X (1..8) :
                            di <= Len(prog[f][db].instrs) /\ prog[f][db].instrs[di].v = x}
             IN  IF defs = {} THEN acc1 ELSE LET d == CHOOSE d \in defs : TRUE IN doInstr(f, acc1, d[1], d[2])
       IN  IF ins.op = "phi" THEN FoldLeft(phi, st1, [k \in 1..Len(ins.xs) |-> k])
                             ELSE FoldLeft(regular, st1, ins.xs)

livenessFor(f) ==
  LET ifs == {b \in DOMAIN prog[f] : Last(prog[f][b].instrs).op = "if"}
      st0 == [deps |-> [b \in DOMAIN prog[f] |-> {}], visited |-> {}]
  IN  FoldSet(LAMBDA b, st : doInstr(f, st, b, Len(prog[f][b].instrs)), st0, ifs).deps

-----------------------------------------------------------------------------
(* PathState, PathStateSet and PathStateMap *)

HashKey(ps) == <<ps.block, L!Locks(ps.lockSet)>>
AgreeAt(m1, m2, at) == \A k \in at : (k \in DOMAIN m1 <=> k \in DOMAIN m2) /\ (k \in DOMAIN m1 => m1[k] = m2[k])

\* Slip: path states with the same locks are taken for the same.
PsEqual_locks(ps, ps2) == ps.block = ps2.block /\ L!Locks(ps.lockSet) = L!Locks(ps2.lockSet)

PsEqual(ps, ps2) ==
  /\ ps.block = ps2.block
  /\ L!Equal(ps.lockSet, ps2.lockSet)
  /\ AgreeAt(ps.frame, ps2.frame, ps.mask)
  /\ ps.heap = ps2.heap

NoFrame == [v \in {} |-> Nil]
EntryState(ps) == [block |-> 0, lockSet |-> ps.lockSet, frame |-> NoFrame, heap |-> ps.heap, mask |-> {}]
ExitState(ps) == EntryState(ps)

\* A set is a sequence, whose elements with one key are a slice of the code.
AddState(set, ps) == IF \E i \in 1..Len(set) : PsEqual(set[i], ps) THEN set ELSE Append(set, ps)
Cached(set, ps) == \E i \in 1..Len(set) : PsEqual(set[i], ps)
Similar(set, ps) == Cardinality({i \in 1..Len(set) : HashKey(set[i]) = HashKey(ps)})

\* MapInPlace with the effect of an instruction as its function.  The element
\* that takes the place of a removed one is not visited.
RECURSIVE MapSlice(_, _, _, _)
MapSlice(slice, i, instr, toAdd) ==
  IF i > Len(slice) THEN <<slice, toAdd>>
  ELSE LET ps2 == Do(slice[i], instr)
       IN  IF PsEqual(slice[i], ps2) THEN MapSlice(slice, i + 1, instr, toAdd)
           ELSE MapSlice(Front([slice EXCEPT ![i] = Last(slice)]), i + 1, instr, Append(toAdd, ps2))

MapInPlace(set, instr) ==
  LET slice(key) == SelectSeq(set, LAMBDA ps : HashKey(ps) = key)
      all == FoldSet(LAMBDA key, acc : LET m == MapSlice(slice(key), 1, instr, <<>>)
                                       IN  <<acc[1] \o m[1], acc[2] \o m[2]>>,
                     <<<<>>, <<>>>>, {HashKey(ps) : ps \in Range(set)})
  IN  FoldLeft(AddState, all[1], all[2])

MemoGet(st, f, ps) == {m \in st.memo : m.f = f /\ PsEqual(m.ps, ps)}
MemoSet(st, f, ps, exits) ==
  [st EXCEPT !.memo = (@ \ MemoGet(st, f, ps)) \cup {[f |-> f, ps |-> ps, exits |-> exits]}]

-----------------------------------------------------------------------------
(* The special functions: what they add to the lock order and the path states *)
(* they return.                                                               *)

Locked(st, ps, lc) == [st EXCEPT !.lockOrder = @ \cup L!Add(ps.lockSet, lc, st.stack)]
AddLocks(ps, n) == ExtendHeap(ps, "curM.locks", DynConst(GetHeap(ps, "curM.locks").c + n))
Held(ps) == GetHeap(ps, "curM.locks").c

\* A lock class of "" is a lock whose class cannot be told.
handleRuntimeLock(st, ps, i) ==
  LET ls2 == L!Plus(ps.lockSet, i.lock, st.stack)
      ps2 == IF i.lock = "" THEN ps ELSE [ps EXCEPT !.lockSet = ls2]
  IN  [s |-> IF i.lock = "" THEN st ELSE Locked(st, ps, i.lock),
       ps |-> IF (i.lock # "" /\ L!Has(ps.lockSet, i.lock)) \/ Held(ps) >= MaxLocks THEN <<>> ELSE <<AddLocks(ps2, 1)>>]

handleRuntimeUnlock(st, ps, i) ==
  LET held == L!Has(ps.lockSet, i.lock)
      ps2 == [ps EXCEPT !.lockSet = L!Minus(@, i.lock)]
  IN  [s |-> st, ps |-> CASE ~held -> <<ps2>> [] held /\ Held(ps) <= 0 -> <<>> [] OTHER -> <<AddLocks(ps2, -1)>>]

handleRuntimeCasgstatus(st, ps, i) == [s |-> Locked(st, ps, "_Gscan"), ps |-> <<ps>>]

handleRuntimeCastogscanstatus(st, ps, i) ==
  [s |-> Locked(st, ps, "_Gscan"),
   ps |-> <<Extend([ps EXCEPT !.lockSet = L!Plus(@, "_Gscan", st.stack)], i.v, Boolean(TRUE)),
            Extend(ps, i.v, Boolean(FALSE))>>]

handleRuntimeCasfrom_Gscanstatus(st, ps, i) == [s |-> st, ps |-> <<[ps EXCEPT !.lockSet = L!Minus(@, "_Gscan")]>>]
handleRuntimeGetg(st, ps, i) == [s |-> st, ps |-> <<Extend(ps, i.v, GetHeap(ps, "curG"))>>]
handleRuntimeAcquirem(st, ps, i) == [s |-> st, ps |-> <<AddLocks(Extend(ps, i.v, DynHeapPtr("curM")), 1)>>]
handleRuntimeReleasem(st, ps, i) == [s |-> st, ps |-> <<AddLocks(ps, -1)>>]
handleRuntimePresystemstack(st, ps, i) ==
  [s |-> st, ps |-> <<Extend(ExtendHeap(ps, "curG", DynHeapPtr("g0")), i.v, GetHeap(ps, "curG"))>>]
handleRuntimePostsystemstack(st, ps, i) == [s |-> st, ps |-> <<ExtendHeap(ps, "curG", Get(ps, i.xs[1]))>>]

-----------------------------------------------------------------------------
(* The walk *)

RECURSIVE walkFunction(_, _, _)
RECURSIVE walkBlock(_, _, _)

\* On a user stack newstack may be called on the system stack.  The path states
\* it returns have no block, mask or frame.
handleRuntimeMorestack(st, ps, i) ==
  LET curG == GetHeap(ps, "curG")
      entry == EntryState(ExtendHeap(ps, "curG", DynHeapPtr("g0")))
      back(ps2) == ExtendHeap([entry EXCEPT !.lockSet = ps2.lockSet, !.heap = ps2.heap], "curG", curG)
      returned(r) == [s |-> r.s, ps |-> <<ps>> \o [k \in 1..Len(r.exits) |-> back(r.exits[k])]]
  IN  IF curG.elem = "g0" THEN [s |-> st, ps |-> <<ps>>] ELSE returned(walkFunction(st, "newstack", entry))

Handlers == {"lock", "unlock", "casgstatus", "castogscanstatus", "casfrom_Gscanstatus", "getg", "acquirem",
             "releasem", "presystemstack", "postsystemstack", "morestack"}
Handle(fn, st, ps, i) ==
  CASE fn = "lock" -> handleRuntimeLock(st, ps, i)
    [] fn = "unlock" -> handleRuntimeUnlock(st, ps, i)
    [] fn = "casgstatus" -> handleRuntimeCasgstatus(st, ps, i)
    [] fn = "castogscanstatus" -> handleRuntimeCastogscanstatus(st, ps, i)
    [] fn = "casfrom_Gscanstatus" -> handleRuntimeCasfrom_Gscanstatus(st, ps, i)
    [] fn = "getg" -> handleRuntimeGetg(st, ps, i)
    [] fn = "acquirem" -> handleRuntimeAcquirem(st, ps, i)
    [] fn = "releasem" -> handleRuntimeReleasem(st, ps, i)
    [] fn = "presystemstack" -> handleRuntimePresystemstack(st, ps, i)
    [] fn = "postsystemstack" -> handleRuntimePostsystemstack(st, ps, i)
    [] fn = "morestack" -> handleRuntimeMorestack(st, ps, i)

\* Of the functions in trackArgs the argument is bound on entry.  The memo does
\* not tell its values apart.
trackArgs == {"copystack"}
BindArgs(entry, ps, fn, i) == IF fn \in trackArgs THEN Extend(entry, "arg", Get(ps, i.xs[1])) ELSE entry

\* One path state through the functions that a call may reach.  A callee sees
\* the locks and heap before the call, a handler those its predecessor left.
Handled(acc, h) == [acc EXCEPT !.s = h.s, !.out = @ \o h.ps]
Walked(acc, r) ==
  LET after(exit) == [acc.ps EXCEPT !.lockSet = exit.lockSet, !.heap = exit.heap]
  IN  [s |-> r.s, ps |-> IF r.exits = <<>> THEN acc.ps ELSE after(Last(r.exits)),
       out |-> acc.out \o [k \in 1..Len(r.exits) |-> after(r.exits[k])]]

Callees(st, ps0, i, fns) ==
  FoldLeft(LAMBDA acc, fn :
             IF fn \in Handlers THEN Handled(acc, Handle(fn, acc.s, acc.ps, i))
             ELSE Walked(acc, walkFunction(acc.s, fn, BindArgs(EntryState(ps0), ps0, fn, i))),
           [s |-> st, ps |-> ps0, out |-> <<>>], fns)

\* doCall with FlatMap
doCall(st, pss, site, i) ==
  LET stack == st.stack
      st1 == [st EXCEPT !.stack = L!Extend(stack, site, st.next), !.next = @ + 1]
      add(acc, c) == [s |-> c.s, pss |-> FoldLeft(AddState, acc.pss, c.out)]
  IN  [FoldLeft(LAMBDA acc, ps : add(acc, Callees(acc.s, ps, i, i.arg)), [s |-> st1, pss |-> <<>>], pss)
         EXCEPT !.s.stack = stack]

addRoot(st, fn) == IF fn \in Range(st.roots) THEN st ELSE [st EXCEPT !.roots = Append(@, fn)]

\* w has the analysis state, the function, its blockCache, its exitStates and
\* the path states at this point of the block.
Effect(w, i, site) ==
  LET return(call) == [w EXCEPT !.s = call.s, !.pss = call.pss]
  IN  CASE i.op = "call" -> return(doCall(w.s, w.pss, site, i))
        [] i.op = "go" -> [w EXCEPT !.s = FoldLeft(addRoot, @, i.arg)]
        [] i.op = "return" -> [w EXCEPT !.exits = FoldLeft(LAMBDA acc, ps : AddState(acc, ExitState(ps)), @, w.pss)]
        [] OTHER -> w

Instr(w, b, k) ==
  LET i == prog[w.f][b].instrs[k]
  IN  Effect([w EXCEPT !.pss = MapInPlace(@, i)], i, <<w.f, b, k>>)

\* The value of the condition on the way to the k-th of the successors that
\* are taken: true for the first, also when the path that is left is the false
\* one.
BindCond(ps, i, k) == Extend(ps, i.xs[1], Boolean(k = 1))

PhiValues(f, ps, b, b2) ==
  LET blk == prog[f][b2]
  IN  FoldLeft(LAMBDA acc, i :
                 IF i.op # "phi" THEN acc
                 ELSE FoldLeft(LAMBDA a, k : IF blk.preds[k] # b \/ Get(a, i.xs[k]) = Nil THEN a
                                             ELSE Extend(a, i.v, Get(a, i.xs[k])),
                               acc, [k \in 1..Len(i.xs) |-> k]),
               ps, blk.instrs)

Successors(w, b, ps) ==
  LET blk == prog[w.f][b]
      last == Last(blk.instrs)
      x == IF last.op = "if" THEN Get(ps, last.xs[1]) ELSE Nil
      succs == IF x = Nil THEN blk.succs ELSE IF x.c = 1 THEN <<blk.succs[1]>> ELSE Tail(blk.succs)
      enter(k) ==
        LET ps2 == IF last.op = "if" THEN BindCond(ps, last, k) ELSE ps
        IN  [PhiValues(w.f, ps2, b, succs[k]) EXCEPT !.block = succs[k]]
  IN  FoldLeft(LAMBDA acc, k : walkBlock(acc, enter(k), succs[k]), w, [k \in 1..Len(succs) |-> k])

walkBlock(w, ps, b) ==
  LET enter == [ps EXCEPT !.mask = w.ifDeps[b]]
      w1 == [w EXCEPT !.cache = AddState(@, enter), !.pss = <<enter>>]
      leave(w2) == FoldLeft(LAMBDA acc, p : Successors(acc, b, p), w2, w2.pss)
  IN  IF Cached(w.cache, enter) \/ Similar(w.cache, enter) > MaxSimilar THEN w
      ELSE leave(FoldLeft(LAMBDA acc, k : Instr(acc, b, k), w1, [k \in 1..Len(prog[w.f][b].instrs) |-> k]))

walkFunction(st, f, ps) ==
  LET memo == MemoGet(st, f, ps)
      start == [s |-> MemoSet(st, f, ps, <<>>), f |-> f, ifDeps |-> livenessFor(f), cache |-> <<>>,
                exits |-> <<>>, pss |-> <<>>]
      leave(w) == [s |-> MemoSet(w.s, f, ps, w.exits), exits |-> w.exits]
  IN  IF f \notin DOMAIN prog THEN [s |-> st, exits |-> <<ps>>]
      ELSE IF memo # {} THEN [s |-> st, exits |-> (CHOOSE m \in memo : TRUE).exits]
      ELSE leave(walkBlock(start, [ps EXCEPT !.block = 1], 1))

Init ==
  /\ \E source \in Sources : prog = Build(source)
  /\ root = 0
  /\ s = [lockOrder |-> {}, memo |-> {}, roots |-> <<"main">>, stack |-> L!NilStack, next |-> 1]

WalkRoot ==
  /\ root < Len(s.roots)
  /\ root' = root + 1
  /\ s' = walkFunction(s, s.roots[root'],
                       [block |-> 0, lockSet |-> L!NewLockSet, frame |-> NoFrame, heap |-> Heap0, mask |-> {}]).s
  /\ UNCHANGED prog

Next == WalkRoot

Spec == Init /\ [][Next]_vars
-----------------------------------------------------------------------------
(* What the program does when it runs: from a state with all values known, the *)
(* states after an instruction, a block and a function.  pairs has the locks   *)
(* acquired with those held then; a thread that blocks for ever or throws is   *)
(* dead.                                                                       *)

Kill(c) == [c EXCEPT !.dead = TRUE]
Acquire(c, l) == [c EXCEPT !.pairs = @ \cup (c.held \X {l})]
Take(c, l) == [Acquire(c, l) EXCEPT !.held = @ \cup {l}, !.dead = l \in c.held]
CurG(c) == c.heap["curG"]

RECURSIVE Run(_, _)
RECURSIVE RunBlock(_, _, _)

RunCall(c, fn, i) ==
  CASE fn = "lock" -> {AddLocks(IF i.lock = "" THEN c ELSE Take(c, i.lock), 1)}
    [] fn = "unlock" -> {IF i.lock \in c.held THEN AddLocks([c EXCEPT !.held = @ \ {i.lock}], -1) ELSE Kill(c)}
    [] fn = "casgstatus" -> {[Acquire(c, "_Gscan") EXCEPT !.dead = "_Gscan" \in c.held]}
    [] fn = "castogscanstatus" -> {Extend(Take(c, "_Gscan"), i.v, Boolean(TRUE)),
                                   Extend(Acquire(c, "_Gscan"), i.v, Boolean(FALSE))}
    [] fn = "casfrom_Gscanstatus" -> {[c EXCEPT !.held = @ \ {"_Gscan"}]}
    [] fn = "getg" -> {Extend(c, i.v, CurG(c))}
    [] fn = "acquirem" -> {AddLocks(Extend(c, i.v, DynHeapPtr("curM")), 1)}
    [] fn = "releasem" -> {AddLocks(c, -1)}
    [] fn = "presystemstack" -> {Extend(ExtendHeap(c, "curG", DynHeapPtr("g0")), i.v, CurG(c))}
    [] fn = "postsystemstack" -> {ExtendHeap(c, "curG", Get(c, i.xs[1]))}
    [] fn = "morestack" ->
         {c} \cup (IF CurG(c) = DynHeapPtr("g0") THEN {}
                   ELSE {[r EXCEPT !.frame = c.frame, !.heap["curG"] = CurG(c)] :
                           r \in Run("newstack", ExtendHeap(c, "curG", DynHeapPtr("g0")))})
    [] OTHER -> {[r EXCEPT !.frame = c.frame] : r \in Run(fn, c)}

RunInstr(c, i) ==
  IF c.dead THEN {c}
  ELSE CASE i.op = "call" -> UNION {RunCall(c, fn, i) : fn \in Range(i.arg)}
         [] i.op = "any" -> {Extend(c, i.v, Boolean(b)) : b \in BOOLEAN}
         [] OTHER -> {Do(c, i)}

RunBlock(f, b, c0) ==
  LET blk == prog[f][b]
      last == Last(blk.instrs)
      cs == FoldLeft(LAMBDA acc, i : UNION {RunInstr(c, i) : c \in acc}, {c0}, blk.instrs)
      next(c) == IF last.op = "if" THEN blk.succs[IF Get(c, last.xs[1]).c = 1 THEN 1 ELSE 2] ELSE blk.succs[1]
  IN  UNION {IF c.dead \/ blk.succs = <<>> THEN {c} ELSE RunBlock(f, next(c), PhiValues(f, c, b, next(c))) : c \in cs}

Run(f, c) ==
  IF f \notin DOMAIN prog THEN {c}
  ELSE UNION {RunBlock(f, 1, [c EXCEPT !.frame = [v \in {"c"} |-> Boolean(b)]]) : b \in BOOLEAN}

Pairs(f) ==
  UNION {c.pairs : c \in Run(f, [frame |-> NoFrame, heap |-> Heap0, held |-> {}, pairs |-> {}, dead |-> FALSE])}

\* main.go:43 "Any such path produces one or more edges in the lock graph": when
\* the roots have been walked, two locks that some execution of one of them
\* holds together have their edge, and the two stacks of an edge start in one
\* function, where the report has them start.
EdgesComplete ==
  root = Len(s.roots) =>
    /\ \A k \in 1..root : \A p \in Pairs(s.roots[k]) : \E e \in s.lockOrder : <<e.from, e.to>> = p
    /\ \A e \in s.lockOrder : e.fromStack[1][1] = e.toStack[1][1]
=============================================================================
