------------------------------- MODULE Stress -------------------------------
(***************************************************************************)
(* The run loop of stress2 (src/stress2/stress.go): Run hands start tokens *)
(* to Parallelism runner goroutines over the channel `start`, collects     *)
(* their results from the channel `results`, classifies and counts them,   *)
(* moves the output file of each run to its final name, and shuts the      *)
(* runners down when a limit is reached, a fatal error occurs or the user  *)
(* interrupts.  A subprocess is abstracted to the moment it finishes, to   *)
(* its exit status and to which of the two regexps its output matches; the *)
(* module Command models its management in detail.  os.Remove, whose error *)
(* the code ignores, is taken to succeed.                                   *)
(***************************************************************************)
EXTENDS Integers, Sequences, FiniteSets

CONSTANTS
  Parallelism,                                  \* number of runners
  MaxPasses, MaxFails, MaxRuns, MaxTotalRuns,   \* limits; 0 means no limit
  MaxInt,                                       \* stands for the largest int
  TimeoutsFail,                                 \* the -timeouts-fail flag
  HasPassRe, HasFailRe,                         \* were -pass and -fail given?
  Exits,                                        \* how the command may exit
  OldLogs                                       \* logs an earlier run left in OutDir

Runners == 1..Parallelism
Kinds == {"pass", "fail", "flake", "timeout"}
Prefixes == {"pass", "fail", "flake"}           \* ".pass-", "" and "flake-"

\* How a finished run looks to resultKind: exit "none" is the nil status of a
\* timeout, "ok" success, "c125" the exit code 125, "bad" any other failure.
Outcomes ==
  [exit : Exits \cup {"none"},
   pass : IF HasPassRe THEN BOOLEAN ELSE {FALSE},
   fail : IF HasFailRe THEN BOOLEAN ELSE {FALSE}]

\* The result of a run that could not be started (result.err # nil).
StartError == [exit |-> "err", pass |-> FALSE, fail |-> FALSE]
AnyOutcome == Outcomes \cup {StartError}
Results == [id : Nat, out : AnyOutcome]

ASSUME ConstantsAssumption ==
  /\ Parallelism \in Nat \ {0}
  /\ {MaxPasses, MaxFails, MaxRuns, MaxTotalRuns, MaxInt} \subseteq Nat
  /\ {TimeoutsFail, HasPassRe, HasFailRe} \subseteq BOOLEAN
  /\ Exits \subseteq {"ok", "c125", "bad"} /\ Exits # {}
  /\ OldLogs \subseteq (Prefixes \X Nat) /\ IsFiniteSet(OldLogs)

VARIABLES
  mpc,        \* where Run is
  nextId,     \* the local variable id of Run
  active,     \* domain of activeStartTimes
  fatal, counts, totalRuns, logIdx, verdict,   \* other locals of Run
  start, startClosed, stop, results,           \* the three channels
  rpc, tok, out,                               \* each runner: place, token, outcome
  runFiles,   \* ids whose hidden .run-NNNNNN file exists
  logs,       \* final log name -> id of the run it holds
  interrupt,  \* has the Interrupt channel been closed?
  counted,    \* id -> [outcome, kind], for every classified result (history)
  failed      \* the result that ended Run before it was classified (history)

mainVars ==
  <<mpc, nextId, active, fatal, failed, counts, totalRuns, logIdx, verdict, counted>>
chanVars == <<start, startClosed, stop, results>>
runnerVars == <<rpc, tok, out>>
vars == <<mainVars, chanVars, runnerVars, runFiles, logs, interrupt>>

-----------------------------------------------------------------------------
(* Classification. *)

\* "0 as infinity" limits.
Limit(n) == IF n <= 0 THEN MaxInt ELSE n

resultKind(o) ==
  IF o.exit = "none" /\ ~TimeoutsFail THEN "timeout"
  ELSE IF \/ ~HasPassRe /\ o.exit = "ok"
          \/ HasPassRe /\ o.pass THEN "pass"
  ELSE IF \/ ~HasFailRe /\ o.exit # "c125"
          \/ HasFailRe /\ o.fail THEN "fail"
  ELSE "flake"

\* Which family of log names a result of a kind goes to.
LogPrefix(kind) == IF kind = "timeout" THEN "fail" ELSE kind

\* Slip: stops one run too late.
LimitReached_late(c, total) ==
  \/ total > Limit(MaxTotalRuns)
  \/ c["pass"] + c["fail"] > Limit(MaxRuns)
  \/ c["pass"] > Limit(MaxPasses)
  \/ c["fail"] > Limit(MaxFails)

LimitReached(c, total) ==
  \/ total >= Limit(MaxTotalRuns)
  \/ c["pass"] + c["fail"] >= Limit(MaxRuns)
  \/ c["pass"] >= Limit(MaxPasses)
  \/ c["fail"] >= Limit(MaxFails)

\* The first index from idx on whose name is not taken: a singleton.
FreeIndices(prefix, idx) ==
  LET taken == DOMAIN logs \cup OldLogs
  IN  {n \in idx..(idx + Cardinality(taken)) :
         /\ <<prefix, n>> \notin taken
         /\ \A m \in idx..(n - 1) : <<prefix, m>> \in taken}

-----------------------------------------------------------------------------
Init ==
  /\ mpc = "spawn" /\ nextId = 0 /\ active = {} /\ fatal = FALSE /\ failed = {}
  /\ counts = [k \in Kinds |-> 0] /\ totalRuns = 0
  /\ logIdx = [p \in Prefixes |-> 0] /\ verdict = "none" /\ counted = <<>>
  /\ start = <<>> /\ startClosed = FALSE /\ stop = FALSE /\ results = <<>>
  /\ rpc = [r \in Runners |-> "unborn"]
  /\ tok = [r \in Runners |-> 0]
  /\ out = [r \in Runners |-> StartError]
  /\ runFiles = {} /\ logs = <<>> /\ interrupt = FALSE

-----------------------------------------------------------------------------
(* Run. *)

\* Queue a token and enter its start time.
SendStart ==
  /\ Len(start) < Parallelism
  /\ start' = Append(start, nextId)
  /\ active' = active \cup {nextId}
  /\ nextId' = nextId + 1

\* One iteration of the loop that starts the runners.
Spawn ==
  /\ mpc = "spawn"
  /\ SendStart
  /\ rpc' = [rpc EXCEPT ![nextId + 1] = "idle"]
  /\ mpc' = IF nextId + 1 = Parallelism THEN "loop" ELSE "spawn"
  /\ UNCHANGED <<fatal, failed, counts, totalRuns, logIdx, verdict, counted, startClosed,
                 stop, results, tok, out, runFiles, logs, interrupt>>

\* Slip: the break leaves the select and not the loop.
Fatal_continue ==
  /\ fatal' = TRUE
  /\ mpc' = "loop"

\* A broken command or an I/O error on the log file ends the loop.
Fatal ==
  /\ fatal' = TRUE
  /\ mpc' = "closeStart"

\* The result is an error, or its output cannot be read back.
ReceiveBad ==
  /\ mpc = "loop" /\ results # <<>>
  /\ results' = Tail(results)
  /\ Fatal /\ failed' = failed \cup {Head(results)}
  /\ UNCHANGED <<nextId, active, counts, totalRuns, logIdx, verdict, counted, start,
                 startClosed, stop, runnerVars, runFiles, logs, interrupt>>

\* Slip: the start time of a finished run is kept.
Classify_keepsActive(res) ==
  LET kind == resultKind(res.out)
  IN  /\ totalRuns' = totalRuns + 1
      /\ counts' = [counts EXCEPT ![kind] = @ + 1]
      /\ counted' = [i \in DOMAIN counted \cup {res.id} |->
                       IF i = res.id THEN [out |-> res.out, kind |-> kind] ELSE counted[i]]
      /\ UNCHANGED active

Classify(res) ==
  LET kind == resultKind(res.out)
  IN  /\ totalRuns' = totalRuns + 1
      /\ counts' = [counts EXCEPT ![kind] = @ + 1]
      /\ counted' = [i \in DOMAIN counted \cup {res.id} |->
                       IF i = res.id THEN [out |-> res.out, kind |-> kind] ELSE counted[i]]
      /\ active' = active \ {res.id}

saveLog(res, prefix) ==
  \E n \in FreeIndices(prefix, logIdx[prefix]) :
    /\ logIdx' = [logIdx EXCEPT ![prefix] = n + 1]
    /\ logs' = [name \in DOMAIN logs \cup {<<prefix, n>>} |->
                  IF name = <<prefix, n>> THEN res.id ELSE logs[name]]
    /\ runFiles' = runFiles \ {res.id}

\* Slip: a finished run is not replaced by a new one.
AfterResult_noRestart(c, total) ==
  IF LimitReached(c, total) THEN "closeStart" ELSE "loop"

\* Done, or start another process?
AfterResult(c, total) ==
  IF LimitReached(c, total) THEN "closeStart" ELSE "restart"

\* A good result: classify and count it, save its log, and go on unless a
\* limit is reached.
Receive ==
  /\ mpc = "loop" /\ results # <<>>
  /\ Head(results).out.exit # "err"
  /\ results' = Tail(results)
  /\ Classify(Head(results))
  /\ saveLog(Head(results), LogPrefix(resultKind(Head(results).out)))
  /\ mpc' = AfterResult(counts', totalRuns')
  /\ UNCHANGED <<nextId, fatal, failed, verdict, start, startClosed, stop, runnerVars, interrupt>>

\* The same, but linking the log to its final name fails (not because the name
\* exists): the result stays counted, the log keeps its hidden name.
ReceiveUnsaved ==
  /\ mpc = "loop" /\ results # <<>>
  /\ Head(results).out.exit # "err"
  /\ results' = Tail(results)
  /\ Classify(Head(results))
  /\ LET prefix == LogPrefix(resultKind(Head(results).out))
     IN  \E n \in FreeIndices(prefix, logIdx[prefix]) :
           logIdx' = [logIdx EXCEPT ![prefix] = n + 1]
  /\ Fatal
  /\ UNCHANGED <<nextId, failed, verdict, start, startClosed, stop, runnerVars, runFiles,
                 logs, interrupt>>

\* Start another process.
Restart ==
  /\ mpc = "restart"
  /\ SendStart
  /\ mpc' = "loop"
  /\ UNCHANGED <<fatal, failed, counts, totalRuns, logIdx, verdict, counted, startClosed,
                 stop, results, runnerVars, runFiles, logs, interrupt>>

BreakOnInterrupt ==
  /\ mpc = "loop" /\ interrupt
  /\ mpc' = "closeStart"
  /\ UNCHANGED <<nextId, active, fatal, failed, counts, totalRuns, logIdx, verdict, counted,
                 chanVars, runnerVars, runFiles, logs, interrupt>>

CloseStart ==
  /\ mpc = "closeStart"
  /\ startClosed' = TRUE
  /\ mpc' = "closeStop"
  /\ UNCHANGED <<nextId, active, fatal, failed, counts, totalRuns, logIdx, verdict, counted,
                 start, stop, results, runnerVars, runFiles, logs, interrupt>>

CloseStop ==
  /\ mpc = "closeStop"
  /\ stop' = TRUE
  /\ mpc' = "wait"
  /\ UNCHANGED <<nextId, active, fatal, failed, counts, totalRuns, logIdx, verdict, counted,
                 start, startClosed, results, runnerVars, runFiles, logs, interrupt>>

\* Slip: one pass hides the failures.
Verdict_anyPass ==
  IF fatal THEN "flake"
  ELSE IF counts["pass"] > 0 THEN "pass"
  ELSE IF counts["fail"] > 0 THEN "fail"
  ELSE "flake"

Verdict ==
  IF fatal THEN "flake"
  ELSE IF counts["fail"] > 0 THEN "fail"
  ELSE IF counts["pass"] > 0 THEN "pass"
  ELSE "flake"

\* wg.Wait returns; Run turns the counts into its verdict.
Return ==
  /\ mpc = "wait"
  /\ \A r \in Runners : rpc[r] = "exited"
  /\ mpc' = "returned"
  /\ verdict' = Verdict
  /\ UNCHANGED <<nextId, active, fatal, failed, counts, totalRuns, logIdx, counted,
                 chanVars, runnerVars, runFiles, logs, interrupt>>

-----------------------------------------------------------------------------
(* A runner: the loop over `start`, with run1 inlined. *)

Goto(r, from, to) ==
  /\ rpc[r] = from
  /\ rpc' = [rpc EXCEPT ![r] = to]
  /\ UNCHANGED <<mainVars, interrupt>>

TakeToken(r) ==
  /\ start # <<>>
  /\ Goto(r, "idle", "create")
  /\ tok' = [tok EXCEPT ![r] = Head(start)]
  /\ start' = Tail(start)
  /\ UNCHANGED <<startClosed, stop, results, out, runFiles, logs>>

\* The range over `start` ends when the channel is closed and drained.
RangeEnds(r) ==
  /\ start = <<>> /\ startClosed
  /\ Goto(r, "idle", "exited")
  /\ UNCHANGED <<chanVars, tok, out, runFiles, logs>>

CreateFile(r) ==
  /\ Goto(r, "create", "startCmd")
  /\ runFiles' = runFiles \cup {tok[r]}
  /\ UNCHANGED <<chanVars, tok, out, logs>>

CreateFails(r) ==
  /\ Goto(r, "create", "send")
  /\ out' = [out EXCEPT ![r] = StartError]
  /\ UNCHANGED <<chanVars, tok, runFiles, logs>>

StartCommand(r) ==
  /\ Goto(r, "startCmd", "select")
  /\ UNCHANGED <<chanVars, tok, out, runFiles, logs>>

StartCommandFails(r) ==
  /\ Goto(r, "startCmd", "send")
  /\ out' = [out EXCEPT ![r] = StartError]
  /\ UNCHANGED <<chanVars, tok, runFiles, logs>>

\* The three cases of the select.
SelectStop(r) ==
  /\ stop
  /\ Goto(r, "select", "kill")
  /\ UNCHANGED <<chanVars, tok, out, runFiles, logs>>

SelectTimeout(r) ==
  /\ Goto(r, "select", "killTimeout")
  /\ UNCHANGED <<chanVars, tok, out, runFiles, logs>>

SelectDone(r, o) ==
  /\ o.exit # "none"
  /\ Goto(r, "select", "send")
  /\ out' = [out EXCEPT ![r] = o]
  /\ UNCHANGED <<chanVars, tok, runFiles, logs>>

\* run1 returns and its locals go out of scope.
DropLocals(r) ==
  /\ tok' = [tok EXCEPT ![r] = 0]
  /\ out' = [out EXCEPT ![r] = StartError]

\* Slip: the file of a killed run is kept, as that of a finished one.
Killed_keepsFile(r) ==
  /\ Goto(r, "kill", "exited")
  /\ DropLocals(r)
  /\ UNCHANGED <<chanVars, runFiles, logs>>

\* Kill has returned: run1 returns false, its deferred function removes the
\* file, and the runner loop returns.
Killed(r) ==
  /\ Goto(r, "kill", "exited")
  /\ runFiles' = runFiles \ {tok[r]}
  /\ DropLocals(r)
  /\ UNCHANGED <<chanVars, logs>>

\* Slip: a timeout is reported both when it fires and when the kill is done.
TimeoutKilled_twice(r, o) ==
  /\ o.exit = "none"
  /\ Goto(r, "killTimeout", "send")
  /\ out' = [out EXCEPT ![r] = o]
  /\ results' = Append(results, [id |-> tok[r], out |-> o])
  /\ UNCHANGED <<start, startClosed, stop, tok, runFiles, logs>>

\* After a timeout run1 also waits for Done before it reports.
TimeoutKilled(r, o) ==
  /\ o.exit = "none"
  /\ Goto(r, "killTimeout", "send")
  /\ out' = [out EXCEPT ![r] = o]
  /\ UNCHANGED <<chanVars, tok, runFiles, logs>>

\* Send the result of a run; the runner goes for the next token.
SendResult(r) ==
  /\ Len(results) < Parallelism
  /\ out[r].exit # "err"
  /\ Goto(r, "send", "idle")
  /\ results' = Append(results, [id |-> tok[r], out |-> out[r]])
  /\ DropLocals(r)
  /\ UNCHANGED <<start, startClosed, stop, runFiles, logs>>

\* A run that did not start has its deferred function to run after the send.
SendError(r) ==
  /\ Len(results) < Parallelism
  /\ out[r].exit = "err"
  /\ Goto(r, "send", "cleanup")
  /\ results' = Append(results, [id |-> tok[r], out |-> out[r]])
  /\ UNCHANGED <<start, startClosed, stop, tok, out, runFiles, logs>>

RemoveFile(r) ==
  /\ Goto(r, "cleanup", "idle")
  /\ runFiles' = runFiles \ {tok[r]}
  /\ DropLocals(r)
  /\ UNCHANGED <<chanVars, logs>>

-----------------------------------------------------------------------------
\* A terminal signal closes the Interrupt channel.
Interrupt ==
  /\ ~interrupt
  /\ interrupt' = TRUE
  /\ UNCHANGED <<mainVars, chanVars, runnerVars, runFiles, logs>>

Main ==
  \/ Spawn \/ Receive \/ ReceiveBad \/ ReceiveUnsaved \/ Restart
  \/ BreakOnInterrupt \/ CloseStart \/ CloseStop \/ Return

Runner(r) ==
  \/ TakeToken(r) \/ RangeEnds(r)
  \/ CreateFile(r) \/ CreateFails(r) \/ StartCommand(r) \/ StartCommandFails(r)
  \/ SelectStop(r) \/ SelectTimeout(r) \/ \E o \in Outcomes : SelectDone(r, o)
  \/ Killed(r) \/ \E o \in Outcomes : TimeoutKilled(r, o)
  \/ SendResult(r) \/ SendError(r) \/ RemoveFile(r)

Next == Main \/ (\E r \in Runners : Runner(r)) \/ Interrupt

Spec == Init /\ [][Next]_vars

\* Goroutines keep running: Run and every runner take their next step when
\* they can.  A runner in its select gets out of it, because its timer fires.
\* The interrupt is the user's and is not assumed.
FairSpec == Spec /\ WF_vars(Main) /\ \A r \in Runners : WF_vars(Runner(r))

-----------------------------------------------------------------------------
(* Properties. *)

\* The runners that hold a token they have not yet answered for.
Holding == {"create", "startCmd", "select", "kill", "killTimeout", "send"}
RunnerPlaces == Holding \cup {"unborn", "idle", "cleanup", "exited"}
Busy == {r \in Runners : rpc[r] \in Holding}

TypeOK ==
  /\ mpc \in {"spawn", "loop", "restart", "closeStart", "closeStop", "wait", "returned"}
  /\ nextId \in Nat
  /\ active \subseteq Nat
  /\ fatal \in BOOLEAN /\ startClosed \in BOOLEAN
  /\ stop \in BOOLEAN /\ interrupt \in BOOLEAN
  /\ counts \in [Kinds -> Nat] /\ totalRuns \in Nat
  /\ logIdx \in [Prefixes -> Nat]
  /\ verdict \in {"none", "pass", "fail", "flake"}
  /\ start \in Seq(Nat)
  /\ results \in Seq(Results)
  /\ rpc \in [Runners -> RunnerPlaces]
  /\ tok \in [Runners -> Nat]
  /\ out \in [Runners -> AnyOutcome]
  /\ runFiles \subseteq Nat

\* Run relies on buffers of size Parallelism to keep its sends from blocking:
\* a runner that blocked on `results` after Run stopped receiving would hang
\* wg.Wait, and Run blocked on `start` would hang everything.  Neither can
\* happen: whoever is about to send finds room.
SendsNeverBlock ==
  /\ \A r \in Runners : rpc[r] = "send" => Len(results) < Parallelism
  /\ mpc \in {"spawn", "restart"} => Len(start) < Parallelism

\* While Run is collecting results, exactly Parallelism runs are queued,
\* running or answered for; between a result and the next start one less.
\* After that tokens are only lost, to the kill at shutdown.
Outstanding == Len(start) + Cardinality(Busy) + Len(results)
TokensConserved ==
  /\ mpc = "spawn" => Outstanding = nextId /\ nextId < Parallelism
  /\ mpc = "loop" => Outstanding = Parallelism
  /\ mpc = "restart" => Outstanding = Parallelism - 1
  /\ Outstanding <= Parallelism

\* activeStartTimes, from which "max active" is reported, names exactly the
\* runs that are outstanding, and none of them twice.  The last report, after
\* the loop, also counts the run whose result was fatal.
Ids == [i \in DOMAIN start |-> start[i]] \o [i \in DOMAIN results |-> results[i].id]
ActiveIsOutstanding ==
  mpc \in {"spawn", "loop", "restart", "closeStart"} =>
    /\ active = {Ids[i] : i \in DOMAIN Ids} \cup {tok[r] : r \in Busy}
                  \cup {res.id : res \in failed}
    /\ Cardinality(active) = Outstanding + Cardinality(failed)

\* No run's output is lost or mixed up: every counted run has its log under
\* exactly one final name, in the family of its kind (a timeout goes with the
\* failures, as the code has it), and its hidden name is
\* gone -- except the one whose save failed, which ends Run as fatal.
LogsKept ==
  /\ DOMAIN logs \cap OldLogs = {}
  /\ \A name \in DOMAIN logs :
       /\ logs[name] \in DOMAIN counted
       /\ name[1] = LogPrefix(counted[logs[name]].kind)
       /\ logs[name] \notin runFiles
  /\ Cardinality({logs[name] : name \in DOMAIN logs}) = Cardinality(DOMAIN logs)
  /\ LET unsaved == DOMAIN counted \ {logs[name] : name \in DOMAIN logs}
     IN  Cardinality(unsaved) <= (IF fatal THEN 1 ELSE 0) /\ unsaved \subseteq runFiles

\* "Actively running commands log to .run-NNNNNN files": a runner whose command
\* is running has its file.  Once Run has returned, the hidden files are exactly
\* those of the runs that finished without Run having saved their output: it no
\* longer received the result, could not read the output, or could not link it.
\* Runs that were killed or never started leave none.
RunFilesMatch ==
  /\ \A r \in Runners :
       rpc[r] \in {"startCmd", "select", "kill", "killTimeout"} => tok[r] \in runFiles
  /\ mpc = "returned" =>
       LET unsaved == {results[i] : i \in DOMAIN results} \cup failed IN
       runFiles = {res.id : res \in {x \in unsaved : x.out.exit # "err"}}
                    \cup (DOMAIN counted \ {logs[name] : name \in DOMAIN logs})

\* What is in the output directory, saved and hidden: LogsKept and RunFilesMatch.
LogsExact == LogsKept /\ RunFilesMatch

\* The limits hold exactly: Run never counts one run more than a -max-* flag
\* allows, even though Parallelism more may be finishing.
LimitsExact ==
  /\ totalRuns <= Limit(MaxTotalRuns)
  /\ counts["pass"] + counts["fail"] <= Limit(MaxRuns)
  /\ counts["pass"] <= Limit(MaxPasses)
  /\ counts["fail"] <= Limit(MaxFails)
  /\ mpc = "restart" => ~LimitReached(counts, totalRuns)

\* The exit status can be trusted when bisecting: success means that some
\* saved log is a pass and none is a failure.  There may be timeouts and flakes
\* beside it, although a comment in Run says "only successes".
VerdictSound ==
  verdict = "pass" =>
    /\ \E i \in DOMAIN counted : counted[i].kind = "pass"
    /\ \A i \in DOMAIN counted : counted[i].kind # "fail"
    /\ DOMAIN counted = {logs[name] : name \in DOMAIN logs}

\* With a limit on all runs Run returns by itself, and after an interrupt or an
\* error whatever the runners are doing: starting a command, in the select,
\* killing or sending.
RunEnds == <>(mpc = "returned")

\* -timeouts-fail: "consider timeouts to be failures".
TimeoutsCountAsFailures ==
  TimeoutsFail =>
    \A i \in DOMAIN counted : counted[i].out.exit = "none" => counted[i].kind = "fail"
=============================================================================
