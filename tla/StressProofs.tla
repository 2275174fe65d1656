---------------------------- MODULE StressProofs ----------------------------
(***************************************************************************)
(* Proofs about Stress, for every number of runners and every setting of   *)
(* the limits and flags.                                                   *)
(***************************************************************************)
EXTENDS Stress, FiniteSetTheorems, SequenceTheorems, TLAPS

\* A result is classified as one of the four kinds.
LEMMA KindType ==
  ASSUME NEW o
  PROVE  resultKind(o) \in Kinds /\ LogPrefix(resultKind(o)) \in Prefixes
BY DEF resultKind, Kinds, LogPrefix, Prefixes

\* What the channel operations do to a channel's contents.
LEMMA SendType ==
  ASSUME NEW S, NEW c \in Seq(S), NEW v \in S
  PROVE  Append(c, v) \in Seq(S) /\ Len(Append(c, v)) = Len(c) + 1
BY AppendProperties

\* Receiving takes the head and leaves the tail.
LEMMA ReceiveType ==
  ASSUME NEW S, NEW c \in Seq(S), c # <<>>
  PROVE  Head(c) \in S /\ Tail(c) \in Seq(S) /\ Len(Tail(c)) = Len(c) - 1
BY HeadTailProperties

\* Counting a result keeps the counters natural numbers.
LEMMA ClassifyType ==
  ASSUME TypeOK, NEW res, Classify(res)
  PROVE  counts' \in [Kinds -> Nat] /\ totalRuns' \in Nat /\ active' \subseteq Nat
<1>1. PICK k \in Kinds : counts' = [counts EXCEPT ![k] = @ + 1]
  <2>1. resultKind(res.out) \in Kinds
    BY KindType
  <2>2. QED
    BY <2>1 DEF Classify
<1>2. totalRuns' = totalRuns + 1 /\ active' = active \ {res.id}
  BY DEF Classify
<1>3. counts \in [Kinds -> Nat] /\ totalRuns \in Nat /\ active \subseteq Nat
  BY DEF TypeOK
<1>4. counts' \in [Kinds -> Nat]
  BY <1>1, <1>3
<1>5. totalRuns' \in Nat
  BY <1>2, <1>3
<1>6. active' \subseteq Nat
  BY <1>2, <1>3
<1>7. QED
  BY <1>4, <1>5, <1>6

\* A step of a runner changes no variable of Run, and only that runner's place.
LEMMA RunnerFrame ==
  ASSUME TypeOK, NEW r \in Runners, Runner(r)
  PROVE  /\ UNCHANGED <<mainVars, interrupt>>
         /\ \E to \in RunnerPlaces : rpc' = [rpc EXCEPT ![r] = to]
         /\ rpc' \in [Runners -> RunnerPlaces]
<1>1. PICK from, to : Goto(r, from, to) /\ to \in RunnerPlaces
  BY DEF Runner, TakeToken, RangeEnds, CreateFile, CreateFails, StartCommand,
         StartCommandFails, SelectStop, SelectTimeout, SelectDone, Killed,
         TimeoutKilled, SendResult, SendError, RemoveFile, RunnerPlaces, Holding
<1>2. QED
  BY <1>1 DEF Goto, TypeOK

\* Every variable of Run and of the runners keeps its type.
THEOREM TypeCorrect == Spec => []TypeOK
<1> USE ConstantsAssumption
<1>1. Init => TypeOK
  <2> SUFFICES ASSUME Init PROVE TypeOK
    OBVIOUS
  <2>1. /\ counts \in [Kinds -> Nat] /\ logIdx \in [Prefixes -> Nat]
        /\ nextId \in Nat /\ totalRuns \in Nat
        /\ active \subseteq Nat /\ runFiles \subseteq Nat
    BY DEF Init
  <2>2. start \in Seq(Nat) /\ results \in Seq(Results)
    BY DEF Init
  <2>3. rpc \in [Runners -> RunnerPlaces] /\ tok \in [Runners -> Nat]
    BY DEF Init, RunnerPlaces
  <2>4. out \in [Runners -> AnyOutcome]
    BY DEF Init, AnyOutcome
  <2>5. QED
    BY <2>1, <2>2, <2>3, <2>4 DEF Init, TypeOK
<1>2. TypeOK /\ [Next]_vars => TypeOK'
  <2> SUFFICES ASSUME TypeOK, [Next]_vars PROVE TypeOK'
    OBVIOUS
  <2> USE DEF TypeOK
  <2>1. CASE Spawn
    <3>1. start' \in Seq(Nat)
      BY <2>1, SendType DEF Spawn, SendStart
    <3>2. rpc' \in [Runners -> RunnerPlaces]
      BY <2>1 DEF Spawn, RunnerPlaces
    <3>3. nextId' \in Nat /\ active' \subseteq Nat
      <4>1. /\ nextId \in Nat /\ active \subseteq Nat
            /\ nextId' = nextId + 1 /\ active' = active \cup {nextId}
        BY <2>1 DEF Spawn, SendStart
      <4>2. nextId' \in Nat
        BY <4>1
      <4>3. active' \subseteq Nat
        <5>1. \A i \in active' : i \in active \/ i = nextId
          BY <4>1
        <5>2. QED
          BY <4>1, <5>1
      <4>4. QED
        BY <4>2, <4>3
    <3>4. QED
      BY <2>1, <3>1, <3>2, <3>3 DEF Spawn
  <2>2. CASE Receive
    <3>1. results' \in Seq(Results)
      BY <2>2, ReceiveType DEF Receive
    <3>2. Classify(Head(results))
      BY <2>2 DEF Receive
    <3>3. counts' \in [Kinds -> Nat] /\ totalRuns' \in Nat /\ active' \subseteq Nat
      BY <3>2, ClassifyType
    <3>4. saveLog(Head(results), LogPrefix(resultKind(Head(results).out)))
      BY <2>2 DEF Receive
    <3>5. logIdx' \in [Prefixes -> Nat] /\ runFiles' \subseteq Nat
      <4>1. PICK p \in Prefixes : saveLog(Head(results), p)
        BY <3>4, KindType
      <4>2. PICK n \in FreeIndices(p, logIdx[p]) :
                /\ logIdx' = [logIdx EXCEPT ![p] = n + 1]
                /\ runFiles' = runFiles \ {Head(results).id}
        BY <4>1 DEF saveLog
      <4>3. runFiles' \subseteq Nat
        BY <4>2
      <4>4. n \in Int /\ n >= logIdx[p]
        BY DEF FreeIndices
      <4>5. logIdx' \in [Prefixes -> Nat]
        BY <4>2, <4>4
      <4>6. QED
        BY <4>3, <4>5
    <3>6. mpc' \in {"closeStart", "restart"}
      BY <2>2 DEF Receive, AfterResult
    <3>7. QED
      BY <2>2, <3>1, <3>3, <3>5, <3>6 DEF Receive, runnerVars
  <2>3. CASE ReceiveBad
    BY <2>3, ReceiveType DEF ReceiveBad, Fatal, runnerVars
  <2>4. CASE ReceiveUnsaved
    <3>1. results' \in Seq(Results)
      BY <2>4, ReceiveType DEF ReceiveUnsaved
    <3>2. Classify(Head(results))
      BY <2>4 DEF ReceiveUnsaved
    <3>3. counts' \in [Kinds -> Nat] /\ totalRuns' \in Nat /\ active' \subseteq Nat
      BY <3>2, ClassifyType
    <3>4. logIdx' \in [Prefixes -> Nat]
      BY <2>4, KindType DEF ReceiveUnsaved, FreeIndices
    <3>5. QED
      BY <2>4, <3>1, <3>3, <3>4 DEF ReceiveUnsaved, Fatal, runnerVars
  <2>5. CASE Restart
    <3>1. start' \in Seq(Nat)
      BY <2>5, SendType DEF Restart, SendStart
    <3>2. QED
      BY <2>5, <3>1 DEF Restart, SendStart, runnerVars
  <2>6. CASE BreakOnInterrupt \/ CloseStart \/ CloseStop \/ Interrupt
    BY <2>6 DEF BreakOnInterrupt, CloseStart, CloseStop, Interrupt, mainVars,
                chanVars, runnerVars
  <2>7. CASE Return
    BY <2>7 DEF Return, Verdict, chanVars, runnerVars
  <2>8. ASSUME NEW r \in Runners, Runner(r) PROVE TypeOK'
    <3>1. UNCHANGED mainVars /\ interrupt' = interrupt
      BY <2>8, RunnerFrame
    <3>2. rpc' \in [Runners -> RunnerPlaces]
      BY <2>8, RunnerFrame
    <3>3. tok' \in [Runners -> Nat] /\ out' \in [Runners -> AnyOutcome]
      <4>1. CASE TakeToken(r)
        BY <4>1, ReceiveType DEF TakeToken
      <4>2. CASE DropLocals(r)
        BY <4>2 DEF DropLocals, AnyOutcome
      <4>3. CASE \E o \in Outcomes : SelectDone(r, o) \/ TimeoutKilled(r, o)
        BY <4>3 DEF SelectDone, TimeoutKilled, AnyOutcome
      <4>4. CASE CreateFails(r) \/ StartCommandFails(r)
        BY <4>4 DEF CreateFails, StartCommandFails, AnyOutcome
      <4>5. CASE UNCHANGED <<tok, out>>
        BY <4>5
      <4>6. QED
        BY <2>8, <4>1, <4>2, <4>3, <4>4, <4>5
           DEF Runner, RangeEnds, CreateFile, StartCommand, SelectStop, SelectTimeout,
               Killed, SendResult, SendError, RemoveFile
    <3>4. start' \in Seq(Nat) /\ results' \in Seq(Results)
      <4>1. [id |-> tok[r], out |-> out[r]] \in Results
        BY DEF Results
      <4>2. CASE TakeToken(r)
        BY <4>2, ReceiveType DEF TakeToken
      <4>3. CASE SendResult(r) \/ SendError(r)
        <5>1. Append(results, [id |-> tok[r], out |-> out[r]]) \in Seq(Results)
          BY <4>1, SendType
        <5>2. QED
          BY <4>3, <5>1 DEF SendResult, SendError
      <4>4. CASE UNCHANGED <<start, results>>
        BY <4>4
      <4>5. QED
        BY <2>8, <4>2, <4>3, <4>4
           DEF Runner, RangeEnds, CreateFile, CreateFails, StartCommand,
               StartCommandFails, SelectStop, SelectTimeout, SelectDone, Killed,
               TimeoutKilled, RemoveFile, chanVars
    <3>5. startClosed' \in BOOLEAN /\ stop' \in BOOLEAN /\ runFiles' \subseteq Nat
      BY <2>8 DEF Runner, TakeToken, RangeEnds, CreateFile, CreateFails, StartCommand,
               StartCommandFails, SelectStop, SelectTimeout, SelectDone, Killed,
               TimeoutKilled, SendResult, SendError, RemoveFile, chanVars
    <3>6. QED
      BY <3>1, <3>2, <3>3, <3>4, <3>5 DEF mainVars
  <2>9. CASE UNCHANGED vars
    BY <2>9 DEF vars, mainVars, chanVars, runnerVars
  <2>10. QED
    BY <2>1, <2>2, <2>3, <2>4, <2>5, <2>6, <2>7, <2>8, <2>9 DEF Next, Main
<1>3. QED
  BY <1>1, <1>2, PTL DEF Spec
-----------------------------------------------------------------------------
(* Token conservation.  TokensConserved is not inductive: that a runner only *)
(* gives up a token unanswered (Killed) after Run has left its loop needs    *)
(* the link from "kill" to the closed stop channel and from that to Run's    *)
(* place; that Spawn disturbs no busy runner needs the runners not yet       *)
(* spawned.                                                                  *)

KillNeedsStop == \A r \in Runners : rpc[r] = "kill" => stop
StopNeedsExit == stop => mpc \in {"wait", "returned"}
UnbornWaiting == mpc = "spawn" => \A r \in Runners : r > nextId => rpc[r] = "unborn"
TokenInv == TokensConserved /\ KillNeedsStop /\ StopNeedsExit /\ UnbornWaiting

\* The set of busy runners is finite, so that its size is a number.
LEMMA BusyFinite == IsFiniteSet(Busy) /\ Cardinality(Busy) \in Nat
<1>1. IsFiniteSet(Runners)
  BY ConstantsAssumption, FS_Interval DEF Runners
<1>2. Busy \in SUBSET Runners
  BY DEF Busy
<1>3. QED
  BY <1>1, <1>2, FS_Subset, FS_CardinalityType

\* Run's own steps that leave the runners alone leave the busy ones alone.
LEMMA BusyStable ==
  ASSUME rpc' = rpc
  PROVE  Busy' = Busy
BY DEF Busy

\* How a runner's step changes the number of runners that hold a token.
LEMMA BusyStep ==
  ASSUME TypeOK, NEW r \in Runners, NEW from, NEW to, Goto(r, from, to)
  PROVE  /\ from \notin Holding /\ to \in Holding
              => Cardinality(Busy') = Cardinality(Busy) + 1
         /\ from \in Holding /\ to \notin Holding
              => Cardinality(Busy') = Cardinality(Busy) - 1
         /\ (from \in Holding <=> to \in Holding)
              => Cardinality(Busy') = Cardinality(Busy)
<1>1. rpc[r] = from /\ rpc' = [rpc EXCEPT ![r] = to] /\ DOMAIN rpc = Runners
  BY DEF Goto, TypeOK
<1>2. CASE from \notin Holding /\ to \in Holding
  <2>1. Busy' = Busy \cup {r} /\ r \notin Busy
    BY <1>1, <1>2 DEF Busy
  <2>2. QED
    BY <1>2, <2>1, BusyFinite, FS_AddElement
<1>3. CASE from \in Holding /\ to \notin Holding
  <2>1. Busy' = Busy \ {r} /\ r \in Busy
    BY <1>1, <1>3 DEF Busy
  <2>2. QED
    BY <1>3, <2>1, BusyFinite, FS_RemoveElement
<1>4. CASE from \in Holding <=> to \in Holding
  <2>1. Busy' = Busy
    BY <1>1, <1>4 DEF Busy
  <2>2. QED
    BY <1>4, <2>1
<1>5. QED
  BY <1>2, <1>3, <1>4

\* A runner's step keeps the number of outstanding tokens, except that a kill
\* at shutdown drops one.
LEMMA RunnerTokens ==
  ASSUME TypeOK, KillNeedsStop, NEW r \in Runners, Runner(r)
  PROVE  Outstanding' = Outstanding \/ (stop /\ Outstanding' = Outstanding - 1)
<1> USE DEF Holding, chanVars
<1> Cardinality(Busy) \in Nat
  BY BusyFinite
<1> start \in Seq(Nat) /\ results \in Seq(Results)
  BY DEF TypeOK
<1>1. CASE TakeToken(r)
  <2>1. Cardinality(Busy') = Cardinality(Busy) + 1
    <3>1. Goto(r, "idle", "create")
      BY <1>1 DEF TakeToken
    <3>2. QED
      BY <3>1, BusyStep
  <2>2. Len(start') = Len(start) - 1 /\ results' = results
    BY <1>1, ReceiveType DEF TakeToken
  <2>3. QED
    BY <2>1, <2>2 DEF Outstanding
<1>2. CASE SendResult(r) \/ SendError(r)
  <2>1. Cardinality(Busy') = Cardinality(Busy) - 1
    <3>1. Goto(r, "send", "idle") \/ Goto(r, "send", "cleanup")
      BY <1>2 DEF SendResult, SendError
    <3>2. CASE Goto(r, "send", "idle")
      BY <3>2, BusyStep
    <3>3. CASE Goto(r, "send", "cleanup")
      BY <3>3, BusyStep
    <3>4. QED
      BY <3>1, <3>2, <3>3
  <2>2. [id |-> tok[r], out |-> out[r]] \in Results
    BY DEF Results, TypeOK
  <2>3. Len(Append(results, [id |-> tok[r], out |-> out[r]])) = Len(results) + 1
    BY <2>2, SendType
  <2>4. start' = start /\ Len(results') = Len(results) + 1
    BY <1>2, <2>3 DEF SendResult, SendError
  <2>5. QED
    <3>1. Len(results) \in Nat /\ Len(start) \in Nat
      OBVIOUS
    <3>2. QED
      BY <2>1, <2>4, <3>1 DEF Outstanding
<1>3. CASE Killed(r)
  <2>1. Cardinality(Busy') = Cardinality(Busy) - 1
    BY <1>3, BusyStep DEF Killed
  <2>2. stop
    BY <1>3 DEF Killed, Goto, KillNeedsStop
  <2>3. QED
    BY <1>3, <2>1, <2>2 DEF Killed, Outstanding
<1>4. CASE CreateFile(r) \/ CreateFails(r) \/ StartCommand(r) \/ StartCommandFails(r)
  <2>1. Cardinality(Busy') = Cardinality(Busy)
    BY <1>4, BusyStep DEF CreateFile, CreateFails, StartCommand, StartCommandFails
  <2>2. QED
    BY <1>4, <2>1 DEF CreateFile, CreateFails, StartCommand, StartCommandFails, Outstanding
<1>5. CASE \/ SelectStop(r) \/ SelectTimeout(r)
           \/ \E o \in Outcomes : SelectDone(r, o) \/ TimeoutKilled(r, o)
  <2>1. Cardinality(Busy') = Cardinality(Busy)
    BY <1>5, BusyStep DEF SelectStop, SelectTimeout, SelectDone, TimeoutKilled
  <2>2. QED
    BY <1>5, <2>1 DEF SelectStop, SelectTimeout, SelectDone, TimeoutKilled, Outstanding
<1>6. CASE RangeEnds(r) \/ RemoveFile(r)
  <2>1. Cardinality(Busy') = Cardinality(Busy)
    BY <1>6, BusyStep DEF RangeEnds, RemoveFile
  <2>2. QED
    BY <1>6, <2>1 DEF RangeEnds, RemoveFile, Outstanding
<1>7. QED
  BY <1>1, <1>2, <1>3, <1>4, <1>5, <1>6 DEF Runner

\* Exactly Parallelism runs are outstanding while Run collects results, one
\* less between a result and the next start, never more.
THEOREM TokenConservation == Spec => []TokensConserved
<1> USE ConstantsAssumption
<1>1. Init => TokenInv
  <2> SUFFICES ASSUME Init PROVE TokenInv
    OBVIOUS
  <2>1. Busy = {}
    BY DEF Init, Busy, Holding
  <2>2. Outstanding = 0
    BY <2>1, FS_EmptySet DEF Init, Outstanding
  <2>3. QED
    BY <2>2 DEF Init, TokenInv, TokensConserved, KillNeedsStop, StopNeedsExit, UnbornWaiting
<1>2. TypeOK /\ TokenInv /\ [Next]_vars => TokenInv'
  <2> SUFFICES ASSUME TypeOK, TokenInv, [Next]_vars PROVE TokenInv'
    OBVIOUS
  <2> USE DEF TokenInv
  <2> Cardinality(Busy) \in Nat
    BY BusyFinite
  <2> start \in Seq(Nat) /\ results \in Seq(Results) /\ nextId \in Nat
    BY DEF TypeOK
  <2>1. CASE Spawn
    <3>1. nextId + 1 \in Runners /\ rpc[nextId + 1] = "unborn"
      BY <2>1 DEF Spawn, TokensConserved, UnbornWaiting, Runners
    <3>2. Busy' = Busy
      BY <2>1, <3>1 DEF Spawn, Busy, Holding, TypeOK
    <3>3. Len(start') = Len(start) + 1 /\ results' = results
      BY <2>1, SendType DEF Spawn, SendStart
    <3>4. Outstanding' = Outstanding + 1
      BY <3>2, <3>3 DEF Outstanding
    <3>5. nextId' = nextId + 1 /\ mpc = "spawn"
          /\ mpc' = (IF nextId + 1 = Parallelism THEN "loop" ELSE "spawn")
      BY <2>1 DEF Spawn, SendStart
    <3>6. TokensConserved'
      BY <3>4, <3>5 DEF TokensConserved
    <3>7. UnbornWaiting'
      BY <2>1, <3>5 DEF Spawn, UnbornWaiting, TypeOK, Runners
    <3>8. KillNeedsStop' /\ StopNeedsExit'
      BY <2>1, <3>5 DEF Spawn, KillNeedsStop, StopNeedsExit, TypeOK
    <3>9. QED
      BY <3>6, <3>7, <3>8
  <2>2. CASE Receive \/ ReceiveBad \/ ReceiveUnsaved
    <3>1. mpc = "loop" /\ rpc' = rpc /\ stop' = stop /\ start' = start
      BY <2>2 DEF Receive, ReceiveBad, ReceiveUnsaved, runnerVars
    <3>2. mpc' \in {"restart", "closeStart"}
      BY <2>2 DEF Receive, ReceiveBad, ReceiveUnsaved, AfterResult, Fatal
    <3>3. Len(results') = Len(results) - 1
      BY <2>2, ReceiveType DEF Receive, ReceiveBad, ReceiveUnsaved
    <3>4. Outstanding' = Outstanding - 1
      BY <3>1, <3>3, BusyStable DEF Outstanding
    <3>5. QED
      BY <3>1, <3>2, <3>4 DEF TokensConserved, KillNeedsStop, StopNeedsExit, UnbornWaiting
  <2>3. CASE Restart
    <3>1. Len(start') = Len(start) + 1 /\ results' = results /\ rpc' = rpc
      BY <2>3, SendType DEF Restart, SendStart, runnerVars
    <3>2. Outstanding' = Outstanding + 1
      BY <3>1, BusyStable DEF Outstanding
    <3>3. mpc = "restart" /\ mpc' = "loop" /\ stop' = stop
      BY <2>3 DEF Restart
    <3>4. Parallelism \in Nat /\ Outstanding = Parallelism - 1
      BY <3>3, ConstantsAssumption DEF TokensConserved
    <3>5. Outstanding' = Parallelism
      BY <3>2, <3>4
    <3>6. TokensConserved'
      BY <3>3, <3>4, <3>5 DEF TokensConserved
    <3>7. KillNeedsStop' /\ StopNeedsExit' /\ UnbornWaiting'
      BY <3>1, <3>3 DEF KillNeedsStop, StopNeedsExit, UnbornWaiting
    <3>8. QED
      BY <3>6, <3>7
  <2>4. CASE BreakOnInterrupt \/ CloseStart \/ CloseStop \/ Return
    <3>1. start' = start /\ results' = results /\ rpc' = rpc /\ nextId' = nextId
      BY <2>4 DEF BreakOnInterrupt, CloseStart, CloseStop, Return, chanVars, runnerVars
    <3>2. Outstanding' = Outstanding
      BY <3>1, BusyStable DEF Outstanding
    <3>3. /\ mpc' \in {"closeStart", "closeStop", "wait", "returned"}
          /\ stop => stop'
          /\ stop' => mpc' \in {"wait", "returned"}
      <4>1. CASE BreakOnInterrupt
        BY <4>1 DEF BreakOnInterrupt, chanVars, StopNeedsExit
      <4>2. CASE CloseStart
        BY <4>2 DEF CloseStart, StopNeedsExit
      <4>3. CASE CloseStop
        BY <4>3 DEF CloseStop
      <4>4. CASE Return
        BY <4>4 DEF Return, chanVars
      <4>5. QED
        BY <2>4, <4>1, <4>2, <4>3, <4>4
    <3>4. QED
      BY <3>1, <3>2, <3>3 DEF TokensConserved, KillNeedsStop, StopNeedsExit, UnbornWaiting
  <2>5. ASSUME NEW r \in Runners, Runner(r) PROVE TokenInv'
    <3>1. UNCHANGED <<mpc, nextId>>
      BY <2>5, RunnerFrame DEF mainVars
    <3>2. stop' = stop
      BY <2>5 DEF Runner, TakeToken, RangeEnds, CreateFile, CreateFails, StartCommand,
               StartCommandFails, SelectStop, SelectTimeout, SelectDone, Killed,
               TimeoutKilled, SendResult, SendError, RemoveFile, chanVars
    <3>3. TokensConserved'
      <4>1. Outstanding' = Outstanding \/ (stop /\ Outstanding' = Outstanding - 1)
        BY <2>5, RunnerTokens
      <4>2. Outstanding \in Int
        BY DEF Outstanding
      <4>3. CASE Outstanding' = Outstanding
        BY <3>1, <4>3 DEF TokensConserved
      <4>4. CASE stop /\ Outstanding' = Outstanding - 1
        <5>1. mpc' \in {"wait", "returned"}
          BY <3>1, <4>4 DEF StopNeedsExit
        <5>2. Outstanding <= Parallelism
          BY DEF TokensConserved
        <5>3. Outstanding - 1 <= Parallelism
          BY <4>2, <5>2, ConstantsAssumption
        <5>4. QED
          BY <4>4, <5>1, <5>3 DEF TokensConserved
      <4>5. QED
        BY <4>1, <4>3, <4>4
    <3>4. KillNeedsStop'
      <4>1. \A q \in Runners : rpc'[q] = "kill" => rpc[q] = "kill" \/ stop
        BY <2>5 DEF Runner, TakeToken, RangeEnds, CreateFile, CreateFails, StartCommand,
                 StartCommandFails, SelectStop, SelectTimeout, SelectDone, Killed,
                 TimeoutKilled, SendResult, SendError, RemoveFile, Goto, TypeOK
      <4>2. QED
        BY <3>2, <4>1 DEF KillNeedsStop
    <3>5. UnbornWaiting'
      <4>1. rpc[r] # "unborn"
        BY <2>5 DEF Runner, TakeToken, RangeEnds, CreateFile, CreateFails, StartCommand,
                 StartCommandFails, SelectStop, SelectTimeout, SelectDone, Killed,
                 TimeoutKilled, SendResult, SendError, RemoveFile, Goto
      <4>2. \A q \in Runners : q # r => rpc'[q] = rpc[q]
        <5>1. PICK to \in RunnerPlaces : rpc' = [rpc EXCEPT ![r] = to]
          BY <2>5, RunnerFrame
        <5>2. rpc \in [Runners -> RunnerPlaces]
          BY DEF TypeOK
        <5>3. QED
          BY <5>1, <5>2
      <4>3. QED
        BY <3>1, <4>1, <4>2 DEF UnbornWaiting
    <3>6. QED
      BY <3>1, <3>2, <3>3, <3>4, <3>5 DEF StopNeedsExit
  <2>6. CASE Interrupt \/ UNCHANGED vars
    <3>1. UNCHANGED <<mpc, nextId, start, results, rpc, stop>>
      BY <2>6 DEF Interrupt, vars, mainVars, chanVars, runnerVars
    <3>2. Outstanding' = Outstanding
      BY <3>1, BusyStable DEF Outstanding
    <3>3. QED
      BY <3>1, <3>2 DEF TokensConserved, KillNeedsStop, StopNeedsExit, UnbornWaiting
  <2>7. QED
    BY <2>1, <2>2, <2>3, <2>4, <2>5, <2>6 DEF Next, Main
<1>3. TokenInv => TokensConserved
  BY DEF TokenInv
<1>4. QED
  BY <1>1, <1>2, <1>3, TypeCorrect, PTL DEF Spec

\* No goroutine blocks on a send: the buffers Run makes are large enough.
THEOREM NoSendBlocks == Spec => []SendsNeverBlock
<1>1. TypeOK /\ TokensConserved => SendsNeverBlock
  <2> SUFFICES ASSUME TypeOK, TokensConserved PROVE SendsNeverBlock
    OBVIOUS
  <2>1. Len(start) \in Nat /\ Len(results) \in Nat /\ Cardinality(Busy) \in Nat
    BY BusyFinite DEF TypeOK
  <2>2. ASSUME NEW r \in Runners, rpc[r] = "send" PROVE Cardinality(Busy) # 0
    <3>1. r \in Busy
      BY <2>2 DEF Busy, Holding
    <3>2. QED
      BY <3>1, BusyFinite, FS_EmptySet
  <2>3. Parallelism \in Nat /\ Outstanding <= Parallelism
    BY ConstantsAssumption DEF TokensConserved
  <2>4. ASSUME NEW r \in Runners, rpc[r] = "send" PROVE Len(results) < Parallelism
    <3>1. Cardinality(Busy) # 0
      BY <2>2, <2>4
    <3>2. QED
      BY <2>1, <2>3, <3>1 DEF Outstanding
  <2>5. ASSUME mpc \in {"spawn", "restart"} PROVE Len(start) < Parallelism
    <3>1. Outstanding < Parallelism
      BY <2>3, <2>5 DEF TokensConserved
    <3>2. QED
      BY <2>1, <2>3, <3>1 DEF Outstanding
  <2>6. QED
    BY <2>4, <2>5 DEF SendsNeverBlock
<1>2. QED
  BY <1>1, TypeCorrect, TokenConservation, PTL
=============================================================================
