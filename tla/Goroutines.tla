----------------------------- MODULE Goroutines -----------------------------
(***************************************************************************)
(* The tools whose goroutines share channels, a lock or a file: one managed *)
(* command of stress2, its status line, and AllPaths of dashquery.  A       *)
(* behaviour is one of the three, named by model; the variables of the      *)
(* others stay 0.                                                           *)
(***************************************************************************)
EXTENDS Integers, Sequences, FiniteSets

CONSTANTS
  Signals, MaxChunks,   \* of Command
  MaxStatus,            \* of Reporter
  Confs, Workers        \* of Dashquery

\* Kill ends with SIGKILL.  AllPaths has finitely many workers; a log matches
\* or not.
ASSUME SignalsAssumption ==
  /\ Signals \in Seq(STRING) /\ Signals # <<>>
  /\ Signals[Len(Signals)] = "kill"
ASSUME WorkersAssumption == IsFiniteSet(Workers)
ASSUME ConfsAssumption ==
  \A c \in Confs : c.match \in Seq(BOOLEAN) /\ c.readErr \in Int

VARIABLES
  model,
  proc, kids, pipe, written, cmd, sigProc, readDone, waitChan, mu, rpc, rbuf,
  wpc, late, kpc, ksig, reason, file, ioError,
  status,               \* of Command and of Reporter
  client, sent, stop, pc, inhibit, pending, timer, timerC, line, kept, drawn,
  conf, feeder, next, held, replies, agg, task, paths, err, returned

commandVars ==
  <<proc, kids, pipe, written, cmd, sigProc, readDone, waitChan, mu, rpc, rbuf,
    wpc, late, kpc, ksig, reason, file, ioError>>
reporterVars ==
  <<client, sent, stop, pc, inhibit, pending, timer, timerC, line, kept, drawn>>
queryVars == <<conf, feeder, next, held, replies, agg, task, paths, err, returned>>
vars == <<model, commandVars, status, reporterVars, queryVars>>

C == INSTANCE Command
R == INSTANCE Reporter
D == INSTANCE Dashquery

NoCommand ==
  /\ proc = 0 /\ kids = 0 /\ pipe = 0 /\ written = 0 /\ cmd = 0 /\ sigProc = 0
  /\ readDone = 0 /\ waitChan = 0 /\ mu = 0 /\ rpc = 0 /\ rbuf = 0 /\ wpc = 0
  /\ late = 0 /\ kpc = 0 /\ ksig = 0 /\ reason = 0 /\ file = 0 /\ ioError = 0
NoReporter ==
  /\ client = 0 /\ sent = 0 /\ stop = 0 /\ pc = 0 /\ inhibit = 0 /\ pending = 0
  /\ timer = 0 /\ timerC = 0 /\ line = 0 /\ kept = 0 /\ drawn = 0
NoQuery ==
  /\ conf = 0 /\ feeder = 0 /\ next = 0 /\ held = 0 /\ replies = 0 /\ agg = 0
  /\ task = 0 /\ paths = 0 /\ err = 0 /\ returned = 0

Init ==
  \/ model = "command" /\ C!Init /\ NoReporter /\ NoQuery
  \/ model = "reporter" /\ R!Init /\ NoCommand /\ NoQuery
  \/ model = "dashquery" /\ D!Init /\ NoCommand /\ NoReporter /\ status = 0

\* A step of one of the modules, as a step of the whole.
Command(Act) == model = "command" /\ Act /\ UNCHANGED <<model, reporterVars, queryVars>>
Reporter(Act) == model = "reporter" /\ Act /\ UNCHANGED <<model, commandVars, queryVars>>
Dashquery(Act) ==
  model = "dashquery" /\ Act /\ UNCHANGED <<model, commandVars, status, reporterVars>>

Next == Command(C!Next) \/ Reporter(R!Next) \/ Dashquery(D!Next)

Spec == Init /\ [][Next]_vars

-----------------------------------------------------------------------------
\* A log is complete and in order, apart from what I/O errors and the waiter's
\* timer cost (Command!OutputComplete and Command!OutputInOrder), and no process
\* is left behind (Command!GroupGone and Command!KillKills).
OutputExact ==
  model = "command" => C!OutputComplete /\ C!OutputInOrder /\ C!GroupGone /\ C!KillKills

\* Nobody but run1 writes to the log after Done (Command!OutputStopsAtDone).
OutputStopsAtDone ==
  [][model = "command" /\ waitChan /\ file'.data # file.data => kpc = "report"]_vars

\* The newest status stays at the stop, alone (Reporter!LastStatusKept).
LastStatusKept == model = "reporter" => R!LastStatusKept

\* Matching logs come out in order, each once (Dashquery!PathsInOrder).
PathsInOrder == model = "dashquery" => D!PathsInOrder

=============================================================================
