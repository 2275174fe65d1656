------------------------------ MODULE MemModel ------------------------------
(***************************************************************************)
(* The memory model comparison of src/memmodel: litmus programs are         *)
(* generated, every model computes the outcomes it permits, and the models  *)
(* are put in a graph by strength.  A program is a sequence of threads, a   *)
(* thread a sequence of operations; an outcome is the set of the loads that *)
(* read 1.  A happens-before model and a machine are recursive operators,   *)
(* as in the code; main's loop over the programs is the state machine.      *)
(***************************************************************************)
EXTENDS Integers, Sequences, SequencesExt, FiniteSets

CONSTANTS MaxThreads, MaxOps

VARIABLES
  todo,           \* programs that GenerateProgs has still to send
  outcomes,       \* model -> what it permits of the last program
  counterexamples \* pairs of models <<i, j>> with a counterexample

vars == <<todo, outcomes, counterexamples>>

MaxVar == (MaxThreads * MaxOps) \div 2
Store(v) == [type |-> "store", var |-> v, id |-> 0]
Load(v, id) == [type |-> "load", var |-> v, id |-> id]

\* genrec, with the finished threads and the one under construction.  Thread
\* lengths are weakly decreasing, and stores number the variables.
RECURSIVE genrec(_, _, _, _, _)
genrec(p, thr, maxops, nextstore, nextload) ==
  LET next(op, ns, nl) ==
        IF Len(thr) + 1 = maxops THEN genrec(Append(p, Append(thr, op)), <<>>, maxops, ns, nl)
                                 ELSE genrec(p, Append(thr, op), maxops, ns, nl)
      exit == IF thr # <<>> THEN genrec(Append(p, thr), <<>>, Len(thr), nextstore, nextload)
              ELSE IF Len(p) < 2 THEN {} ELSE {p}
      stores == IF nextstore = MaxVar THEN {} ELSE next(Store(nextstore), nextstore + 1, nextload)
      loads == UNION {next(Load(v, nextload), nextstore, nextload + 1) : v \in 0..MaxVar-1}
  IN  IF Len(p) = MaxThreads THEN {p} ELSE exit \cup stores \cup loads

Ops(p) == {<<t, i>> \in (1..Len(p)) \X (1..MaxOps) : i <= Len(p[t])}
OpAt(p, pc) == p[pc[1]][pc[2]]
Of(p, type) == {pc \in Ops(p) : OpAt(p, pc).type = type}

\* storeThread starts at 0, which is also the number of the first thread: a
\* variable stored there counts as never stored.
storeThread(p, v) ==
  LET st == {pc[1] - 1 : pc \in {x \in Of(p, "store") : OpAt(p, x).var = v}}
  IN  IF st = {} THEN 0 ELSE CHOOSE t \in st : TRUE

silly(p) ==
  \/ \E ld \in Of(p, "load") : storeThread(p, OpAt(p, ld).var) = 0
  \/ \E st \in Of(p, "store") :
       \A ld \in Of(p, "load") : OpAt(p, ld).var = OpAt(p, st).var => ld[1] = st[1]

GenerateProgs == {p \in genrec(<<>>, <<>>, MaxOps, 0, 0) : ~silly(p)}

-----------------------------------------------------------------------------
(* The machines *)

Running(p, pcs) == {t \in 1..Len(p) : pcs[t] <= Len(p[t])}
Start(p) == [t \in 1..Len(p) |-> 1]
Read(out, op, mem) == IF op.var \in mem THEN out \cup {op.id} ELSE out

RECURSIVE scRec(_, _, _, _)
scRec(p, mem, pcs, out) ==
  LET run(t) ==
        LET op == p[t][pcs[t]]
            npcs == [pcs EXCEPT ![t] = @ + 1]
        IN  IF op.type = "store" THEN scRec(p, mem \cup {op.var}, npcs, out)
                                 ELSE scRec(p, mem, npcs, Read(out, op, mem))
  IN  IF Running(p, pcs) = {} THEN {out} ELSE UNION {run(t) : t \in Running(p, pcs)}

\* m has the fences; s has the memory and, for every thread, all it stored (its
\* overlay) and the store buffer.
Flush(s, t) == [s EXCEPT !.mem = @ \cup s.overlay[t], !.buf[t] = <<>>]

tsoLoad(m, s, t, op) ==
  LET f == IF m.MFenceLoad THEN Flush(s, t) ELSE s
  IN  [f EXCEPT !.pcs[t] = @ + 1, !.out = Read(@, op, f.mem \cup f.overlay[t])]

tsoStore(m, s, t, op) ==
  LET b == [s EXCEPT !.pcs[t] = @ + 1, !.overlay[t] = @ \cup {op.var}, !.buf[t] = Append(@, op.var)]
  IN  IF m.StoreMFence THEN Flush(b, t) ELSE b

RECURSIVE tsoRec(_, _, _)
tsoRec(p, m, s) ==
  LET run(t) ==
        LET op == p[t][s.pcs[t]]
        IN  tsoRec(p, m, IF op.type = "store" THEN tsoStore(m, s, t, op) ELSE tsoLoad(m, s, t, op))
      pop(t) == tsoRec(p, m, [s EXCEPT !.mem = @ \cup {Head(s.buf[t])}, !.buf[t] = Tail(@)])
  IN  IF Running(p, s.pcs) = {} THEN {s.out}
      ELSE UNION {run(t) : t \in Running(p, s.pcs)}
             \cup UNION {pop(t) : t \in {u \in 1..Len(p) : s.buf[u] # <<>>}}

-----------------------------------------------------------------------------
(* The happens-before models *)

HBSC(p, i, j) == "before"

\* Slip: a load is not ordered before what follows it in its thread.
HBTSO_loadsPass(p, i, j) ==
  LET a == OpAt(p, i)
      b == OpAt(p, j)
  IN  CASE a.type = "store" /\ b.type = "store" -> "before"
        [] a.type = "store" /\ b.type = "load" /\ a.var = b.var -> "conditional"
        [] OTHER -> "concurrent"

HBTSO(p, i, j) ==
  LET a == OpAt(p, i)
      b == OpAt(p, j)
  IN  CASE a.type = "store" /\ b.type = "store" -> "before"
        [] i[1] = j[1] /\ a.type = "load" -> "before"
        [] a.type = "store" /\ b.type = "load" /\ a.var = b.var -> "conditional"
        [] OTHER -> "concurrent"

HBAcqRel(p, i, j) ==
  LET a == OpAt(p, i)
      b == OpAt(p, j)
  IN  CASE a.type = "store" /\ b.type = "store" /\ a.var = b.var -> "before"
        [] a.type = "store" /\ b.type = "load" /\ a.var = b.var -> "conditional"
        [] OTHER -> "concurrent"

HBUnordered(p, i, j) == "concurrent"

\* The plug-in order of a model.
HappensBefore(gen, p, i, j) ==
  CASE gen = "SC" -> HBSC(p, i, j)
    [] gen = "TSO" -> HBTSO(p, i, j)
    [] gen = "AcqRel" -> HBAcqRel(p, i, j)
    [] gen = "Unordered" -> HBUnordered(p, i, j)

\* The in-edges of the next instruction, from the last one back, with what
\* happened before each.
InEdges(p, gen, s, pc) ==
  FoldRight(LAMBDA prev, node :
              IF prev \in node \/ HappensBefore(gen, p, s.sequence[prev], pc) # "before" THEN node
              ELSE node \cup {prev} \cup s.nodes[prev],
            [i \in 1..Len(s.sequence) |-> i], {})

\* A load that may read both reads either.
addOutcomes(s) == {s.allow1 \ zero : zero \in SUBSET (s.allow0 \cap s.allow1)}

\* s is the execution so far: the sequence of instructions, the instructions
\* before each, where the threads are, and which loads may read 0 and 1.
RECURSIVE hbRec(_, _, _)
hbRec(p, gen, s) ==
  LET Executed(type, v) == {i \in 1..Len(s.sequence) :
                              LET op == OpAt(p, s.sequence[i]) IN op.type = type /\ op.var = v}
      id(i) == OpAt(p, s.sequence[i]).id
      run(t) ==
        LET pc == <<t, s.pcs[t]>>
            op == OpAt(p, pc)
            node == InEdges(p, gen, s, pc)
            ns == [s EXCEPT !.sequence = Append(@, pc), !.nodes = Append(@, node), !.pcs[t] = @ + 1]
            local(i) == s.sequence[i][1] = t \/ i \in node
            \* Earlier loads that may after all have read this store.
            late == {ld \in Executed("load", op.var) :
                       ~local(ld) /\ HappensBefore(gen, p, pc, s.sequence[ld]) # "conditional"}
            stores == Executed("store", op.var)
            lastStore == CHOOSE st \in stores : TRUE
        IN  CASE op.type = "store" ->
                   hbRec(p, gen, [ns EXCEPT !.allow1 = @ \cup {id(ld) : ld \in late}])
              [] op.type = "load" /\ stores = {} ->
                   hbRec(p, gen, [ns EXCEPT !.allow0 = @ \cup {op.id}])
              [] op.type = "load" /\ \E st \in stores : local(st) ->
                   hbRec(p, gen, [ns EXCEPT !.allow1 = @ \cup {op.id}])
              [] OTHER ->
                   IF HappensBefore(gen, p, s.sequence[lastStore], pc) = "conditional"
                   THEN hbRec(p, gen, [ns EXCEPT !.allow0 = @ \cup {op.id}])
                        \cup hbRec(p, gen,
                               [ns EXCEPT !.allow1 = @ \cup {op.id},
                                          !.nodes[Len(ns.nodes)] = @ \cup {lastStore} \cup s.nodes[lastStore]])
                   ELSE hbRec(p, gen, [ns EXCEPT !.allow0 = @ \cup {op.id}, !.allow1 = @ \cup {op.id}])
  IN  IF Running(p, s.pcs) = {} THEN addOutcomes(s) ELSE UNION {run(t) : t \in Running(p, s.pcs)}

-----------------------------------------------------------------------------
(* main *)

SCEval(p) == scRec(p, {}, Start(p), {})

TSOEval(p, m) ==
  tsoRec(p, m, [mem |-> {}, overlay |-> [t \in 1..Len(p) |-> {}], buf |-> [t \in 1..Len(p) |-> <<>>],
                pcs |-> Start(p), out |-> {}])

HBEval(p, gen) ==
  hbRec(p, gen, [sequence |-> <<>>, nodes |-> <<>>, pcs |-> Start(p), allow0 |-> {}, allow1 |-> {}])

Eval(p) ==
  <<SCEval(p),
    TSOEval(p, [StoreMFence |-> FALSE, MFenceLoad |-> FALSE]),
    TSOEval(p, [StoreMFence |-> TRUE, MFenceLoad |-> FALSE]),
    TSOEval(p, [StoreMFence |-> FALSE, MFenceLoad |-> TRUE]),
    HBEval(p, "SC"), HBEval(p, "TSO"), HBEval(p, "AcqRel"), HBEval(p, "Unordered")>>
models == 1..8

Init ==
  /\ todo = GenerateProgs
  /\ outcomes = <<>>
  /\ counterexamples = {}

\* OutcomeSet.Contains
Permits(s, s2) == s2 \subseteq s

\* A counterexample is a program of which model i permits strictly more.
Compare ==
  /\ todo # {}
  /\ LET p == CHOOSE q \in todo : TRUE
     IN  todo' = todo \ {p} /\ outcomes' = Eval(p)
  /\ counterexamples' = counterexamples \cup
       {<<i, j>> \in models \X models : outcomes'[i] # outcomes'[j] /\ Permits(outcomes'[i], outcomes'[j])}

Next == Compare

Spec == Init /\ [][Next]_vars

-----------------------------------------------------------------------------
\* What main.go:37 and the comments of the models promise of every program:
\* the machine and the happens-before form of a model permit the same outcomes,
\* fences on loads or on stores turn TSO into SC, and the models are ordered SC,
\* TSO, acquire/release, unordered.
ModelsAgree ==
  outcomes # <<>> =>
    LET o == outcomes
    IN  /\ o[1] = o[5] /\ o[2] = o[6] /\ o[3] = o[1] /\ o[4] = o[1]
        /\ o[5] \subseteq o[6] /\ o[6] \subseteq o[7] /\ o[7] \subseteq o[8]

\* The graph that is written, after any number of programs, says which model is
\* stronger than which.
G == INSTANCE ModelGraph WITH N <- 8
GraphFaithful == todo = {} => G!Faithful({e \in models \X models : e[1] # e[2] /\ e \notin counterexamples})

=============================================================================
