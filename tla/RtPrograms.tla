----------------------------- MODULE RtPrograms -----------------------------
(***************************************************************************)
(* Small programs for RtWalk: main is a few statements in a row, compiled   *)
(* to basic blocks.                                                         *)
(***************************************************************************)
EXTENDS Naturals, Sequences, SequencesExt, FiniteSets

I(op, v, xs, arg) == [op |-> op, v |-> v, xs |-> xs, arg |-> arg, lock |-> "", field |-> ""]
Call(fn) == I("call", "", <<>>, <<fn>>)
CallV(fn, v, xs) == I("call", v, xs, <<fn>>)
Lock(l) == [Call("lock") EXCEPT !.lock = l]
Unlock(l) == [Call("unlock") EXCEPT !.lock = l]
Field(v, x, field) == [I("fieldaddr", v, <<x>>, <<>>) EXCEPT !.field = field]
If(x) == I("if", "", <<x>>, <<>>)
Jump == I("jump", "", <<>>, <<>>)
Return == I("return", "", <<>>, <<>>)

\* A statement: instructions, perhaps under a condition on a value.
Do(instrs) == [cond |-> "", instrs |-> instrs]
When(cond, instrs) == [cond |-> cond, instrs |-> instrs]

\* fn is the blocks so far; the last one is open.
Add(blocks, stmt) ==
  LET n == Len(blocks)
  IN  IF stmt.cond = "" THEN [blocks EXCEPT ![n].instrs = @ \o stmt.instrs]
      ELSE [blocks EXCEPT ![n].instrs = Append(@, If(stmt.cond)), ![n].succs = <<n + 1, n + 2>>]
           \o <<[instrs |-> Append(stmt.instrs, Jump), succs |-> <<n + 2>>, preds |-> <<n>>],
                [instrs |-> <<>>, succs |-> <<>>, preds |-> <<n, n + 1>>]>>

Compile(stmts) ==
  LET blocks == FoldLeft(Add, <<[instrs |-> <<>>, succs |-> <<>>, preds |-> <<>>]>>, stmts)
  IN  [blocks EXCEPT ![Len(blocks)].instrs = Append(@, Return)]

\* if getg().m.locks == 0 { lock C; unlock C }; casgstatus
g == Compile(<<Do(<<CallV("getg", "g", <<>>), Field("a", "g", "m"), I("load", "m", <<"a">>, <<>>),
                    Field("b", "m", "locks"), I("load", "n", <<"b">>, <<>>), I("eql", "e", <<"n", "#0">>, <<>>)>>),
               When("e", <<Lock("C"), Unlock("C")>>), Do(<<Call("casgstatus")>>)>>)
\* if c { lock B; lock A; unlock B }: leaves a lock held
h == Compile(<<When("c", <<Lock("B"), Lock("A"), Unlock("B")>>)>>)
newstack == Compile(<<Do(<<Lock("B"), Call("h"), Unlock("B")>>)>>)

Plain ==
  {Do(<<Lock("A")>>), Do(<<Lock("B")>>), Do(<<Unlock("A")>>), Do(<<Call("g")>>),
   When("c", <<Lock("A")>>), When("c", <<Unlock("A")>>), When("c", <<Lock("B")>>)}
Special ==
  {Do(<<Lock("")>>), Do(<<Call("h")>>), Do(<<Call("morestack")>>), Do(<<I("go", "", <<>>, <<"h">>)>>),
   Do(<<I("call", "", <<>>, <<"g", "h">>)>>), Do(<<I("call", "", <<>>, <<"h", "unlock">>)>>),
   Do(<<CallV("presystemstack", "og", <<>>), Call("morestack"), CallV("postsystemstack", "", <<"og">>)>>),
   Do(<<CallV("acquirem", "am", <<>>), Call("g"), Call("releasem")>>),
   Do(<<CallV("castogscanstatus", "t", <<>>)>>), When("t", <<Call("casfrom_Gscanstatus")>>)}

Conds(stmts, v) == Cardinality({i \in 1..Len(stmts) : stmts[i].cond = v})
Defs(stmts, v) == {i \in 1..Len(stmts) : \E j \in 1..Len(stmts[i].instrs) : stmts[i].instrs[j].v = v}
\* Values are defined once, before they are used.
Valid(stmts) ==
  /\ \A v \in {"t", "og", "am"} : Cardinality(Defs(stmts, v)) <= 1
  /\ \A i \in 1..Len(stmts) : stmts[i].cond = "t" => \E j \in Defs(stmts, "t") : j < i

\* The programs of n statements with at most maxIfs conditionals on c.
Family(stmts, n, maxIfs) == {q \in [1..n -> stmts] : Valid(q) /\ Conds(q, "c") <= maxIfs}
Build(stmts) == [main |-> Compile(stmts), g |-> g, h |-> h, newstack |-> newstack]
=============================================================================
