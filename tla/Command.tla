------------------------------ MODULE Command ------------------------------
(***************************************************************************)
(* One managed subprocess of stress2 (src/stress2/cmd.go) and the run1 that *)
(* uses it (src/stress2/stress.go).  Four actors share a Command: the       *)
(* process tree it started, the goroutine `reader` that copies the pipe to  *)
(* the log file, the goroutine `waiter` that reaps the process, and run1,   *)
(* which may Kill it.  Output is a sequence of chunks, each named by its    *)
(* writer.                                                                  *)
(***************************************************************************)
EXTENDS Naturals, Sequences, FiniteSets, SequencesExt

CONSTANTS
  Signals,     \* what Kill sends in turn: <<traceSignal, Interrupt, Kill>>
  MaxChunks    \* bound on what the process tree writes

VARIABLES
  proc,       \* the process: "running", "zombie" or "reaped"
  kids,       \* live subprocesses with the pipe open: "grouped" is in the
              \* process group, "stray" has left it
  pipe,       \* chunks written and not yet read
  written,    \* every chunk written, in order (history)
  cmd,        \* is c.cmd non-nil?
  sigProc,    \* is c.sigProc non-nil?
  status,     \* is c.Status set?
  readDone, waitChan,     \* has the channel been closed?
  mu,         \* who holds c.mu: "none" or "reader"
  rpc, rbuf,  \* reader: place, chunk read
  wpc, late,  \* waiter: place; did its one-second timer fire first?
  kpc, ksig,  \* run1: place, index of the next signal of Kill
  reason,     \* run1: which case of its select was taken
  file,       \* the log file: contents and whether it is open
  ioError     \* has reading the pipe or writing the open file failed? (history)

procVars == <<proc, kids, pipe, written>>
cmdVars == <<cmd, sigProc, status, readDone, waitChan, mu>>
readerVars == <<rpc, rbuf>>
waiterVars == <<wpc, late>>
run1Vars == <<kpc, ksig, reason>>
vars == <<procVars, cmdVars, readerVars, waiterVars, run1Vars, file, ioError>>

\* StartCommand has returned: process, reader and waiter are running.
Init ==
  /\ proc = "running" /\ kids = {} /\ pipe = <<>> /\ written = <<>>
  /\ cmd = TRUE /\ sigProc = TRUE /\ status = FALSE
  /\ readDone = FALSE /\ waitChan = FALSE /\ mu = "none"
  /\ rpc = "read" /\ rbuf = "none"
  /\ wpc = "wait" /\ late = FALSE
  /\ kpc = "select" /\ ksig = 1 /\ reason = "none"
  /\ file = [data |-> <<>>, open |-> TRUE] /\ ioError = FALSE

-----------------------------------------------------------------------------
(* The process tree (environment). *)

Write(who) ==
  /\ \/ who = "leader" /\ proc = "running"
     \/ who \in kids
  /\ Len(written) < MaxChunks /\ rpc # "done"   \* else the pipe is broken
  /\ pipe' = Append(pipe, who)
  /\ written' = Append(written, who)
  /\ UNCHANGED <<proc, kids, cmdVars, readerVars, waiterVars, run1Vars, file, ioError>>

Fork(kid) ==
  /\ proc = "running" /\ kid \notin kids
  /\ kids' = kids \cup {kid}
  /\ UNCHANGED <<proc, pipe, written, cmdVars, readerVars, waiterVars, run1Vars, file, ioError>>

Exit ==
  /\ proc = "running"
  /\ proc' = "zombie"
  /\ UNCHANGED <<kids, pipe, written, cmdVars, readerVars, waiterVars, run1Vars, file, ioError>>

KidExits(kid) ==
  /\ kid \in kids
  /\ kids' = kids \ {kid}
  /\ UNCHANGED <<proc, pipe, written, cmdVars, readerVars, waiterVars, run1Vars, file, ioError>>

\* A signal to the process group.  SIGKILL ends the process and what is left
\* of its group; the others leave it to the process whether it exits.
Signal(sig) ==
  IF sig = "kill"
  THEN /\ proc' = IF proc = "running" THEN "zombie" ELSE proc
       /\ kids' = kids \ {"grouped"}
  ELSE UNCHANGED <<proc, kids>>

-----------------------------------------------------------------------------
(* reader *)

ReadChunk ==
  /\ rpc = "read" /\ pipe # <<>>
  /\ rbuf' = Head(pipe) /\ pipe' = Tail(pipe)
  /\ rpc' = "lock"
  /\ UNCHANGED <<proc, kids, written, cmdVars, waiterVars, run1Vars, file, ioError>>

\* Slip: looks at c.cmd without taking c.mu.
ReaderLock_unlocked ==
  /\ rpc = "lock"
  /\ rpc' = IF cmd THEN "write" ELSE "read"
  /\ UNCHANGED <<procVars, cmdVars, rbuf, waiterVars, run1Vars, file, ioError>>

\* c.mu.Lock and the test of c.cmd; without a command nothing is written.
ReaderLock ==
  /\ rpc = "lock" /\ mu = "none"
  /\ IF cmd THEN mu' = "reader" /\ rpc' = "write"
            ELSE mu' = "none" /\ rpc' = "read"
  /\ UNCHANGED <<procVars, cmd, sigProc, status, readDone, waitChan, rbuf,
                 waiterVars, run1Vars, file, ioError>>

\* c.out.Write and Unlock.  Its error is ignored: the file may be closed, or the
\* chunk may not fit on the disk.
ReaderWrite ==
  /\ rpc = "write"
  /\ \/ file.open /\ file' = [file EXCEPT !.data = Append(@, rbuf)] /\ UNCHANGED ioError
     \/ file.open /\ ioError' = TRUE /\ UNCHANGED file
     \/ ~file.open /\ UNCHANGED <<file, ioError>>
  /\ mu' = "none" /\ rpc' = "read"
  /\ UNCHANGED <<procVars, cmd, sigProc, status, readDone, waitChan, rbuf,
                 waiterVars, run1Vars>>

\* End of file: nobody has the pipe open for writing and it is empty.
ReadEOF ==
  /\ rpc = "read" /\ pipe = <<>> /\ proc # "running" /\ kids = {}
  /\ rpc' = "done" /\ readDone' = TRUE
  /\ UNCHANGED <<procVars, cmd, sigProc, status, waitChan, mu, rbuf, waiterVars,
                 run1Vars, file, ioError>>

\* Reading fails otherwise: the reader logs it, closes the pipe and is done.
ReadError ==
  /\ rpc = "read"
  /\ rpc' = "done" /\ readDone' = TRUE /\ ioError' = TRUE
  /\ UNCHANGED <<procVars, cmd, sigProc, status, waitChan, mu, rbuf, waiterVars,
                 run1Vars, file>>

-----------------------------------------------------------------------------
(* waiter *)

Wait ==
  /\ wpc = "wait" /\ proc = "zombie"
  /\ proc' = "reaped" /\ wpc' = "killGroup"
  /\ UNCHANGED <<kids, pipe, written, cmdVars, readerVars, late, run1Vars, file, ioError>>

KillGroup ==
  /\ wpc = "killGroup" /\ mu = "none"
  /\ Signal("kill")
  /\ sigProc' = FALSE /\ wpc' = "select"
  /\ UNCHANGED <<pipe, written, cmd, status, readDone, waitChan, mu, readerVars,
                 late, run1Vars, file, ioError>>

\* Slip: does not give the reader its chance to catch up.
WaiterReadDone_early ==
  /\ wpc = "select"
  /\ wpc' = "finish"
  /\ UNCHANGED <<procVars, cmdVars, readerVars, late, run1Vars, file, ioError>>

WaiterReadDone ==
  /\ wpc = "select" /\ readDone
  /\ wpc' = "finish"
  /\ UNCHANGED <<procVars, cmdVars, readerVars, late, run1Vars, file, ioError>>

WaiterTimer ==
  /\ wpc = "select"
  /\ wpc' = "finish" /\ late' = TRUE
  /\ UNCHANGED <<procVars, cmdVars, readerVars, run1Vars, file, ioError>>

\* Slip: returns without closing waitChan.
Finish_open ==
  /\ wpc = "finish" /\ mu = "none"
  /\ status' = TRUE /\ cmd' = FALSE
  /\ wpc' = "done"
  /\ UNCHANGED <<procVars, sigProc, readDone, waitChan, mu, readerVars, late, run1Vars, file, ioError>>

Finish ==
  /\ wpc = "finish" /\ mu = "none"
  /\ status' = TRUE /\ cmd' = FALSE /\ waitChan' = TRUE
  /\ wpc' = "done"
  /\ UNCHANGED <<procVars, sigProc, readDone, mu, readerVars, late, run1Vars, file, ioError>>

-----------------------------------------------------------------------------
(* run1 and Kill *)

\* The stop and the timeout case of the select: both call Kill.
SelectKill(why) ==
  /\ kpc = "select"
  /\ kpc' = "kill" /\ ksig' = 1 /\ reason' = why
  /\ UNCHANGED <<procVars, cmdVars, readerVars, waiterVars, file, ioError>>

SelectDone ==
  /\ kpc = "select" /\ waitChan
  /\ kpc' = "report" /\ reason' = "done"
  /\ UNCHANGED <<procVars, cmdVars, readerVars, waiterVars, ksig, file, ioError>>

\* Kill returns to run1, which goes on to <-cmd.Done() only after a timeout.
AfterKill == IF reason = "timeout" THEN "waitDone" ELSE "remove"

LastSignal == ksig >= Len(Signals)

\* One turn of Kill's loop: under c.mu, send the next signal unless the
\* process is already reaped.
KillSignal ==
  /\ kpc = "kill" /\ mu = "none"
  /\ IF sigProc
     THEN Signal(Signals[ksig]) /\ kpc' = "killWait"
     ELSE UNCHANGED <<proc, kids>> /\ kpc' = AfterKill
  /\ UNCHANGED <<pipe, written, cmdVars, readerVars, waiterVars, ksig, reason, file, ioError>>

KillSeesExit ==
  /\ kpc = "killWait" /\ waitChan
  /\ kpc' = AfterKill
  /\ UNCHANGED <<procVars, cmdVars, readerVars, waiterVars, ksig, reason, file, ioError>>

KillTimer ==
  /\ kpc = "killWait"
  /\ IF LastSignal THEN kpc' = AfterKill /\ UNCHANGED ksig
                   ELSE kpc' = "kill" /\ ksig' = ksig + 1
  /\ UNCHANGED <<procVars, cmdVars, readerVars, waiterVars, reason, file, ioError>>

WaitDone ==
  /\ kpc = "waitDone" /\ waitChan
  /\ kpc' = "report"
  /\ UNCHANGED <<procVars, cmdVars, readerVars, waiterVars, ksig, reason, file, ioError>>

\* Add the last line ("timeout after", "exited:") and pass the file on; Run
\* may read it from now on.
Report ==
  /\ kpc = "report"
  /\ \/ file' = [file EXCEPT !.data = Append(@, "run1")]
     \/ reason = "done" /\ UNCHANGED file   \* a successful exit adds no line
  /\ kpc' = "sent"
  /\ UNCHANGED <<procVars, cmdVars, readerVars, waiterVars, ksig, reason, ioError>>

\* Stopped: the deferred function closes and removes the file.
RemoveLog ==
  /\ kpc = "remove"
  /\ file' = [file EXCEPT !.open = FALSE]
  /\ kpc' = "exited"
  /\ UNCHANGED <<procVars, cmdVars, readerVars, waiterVars, ksig, reason, ioError>>

-----------------------------------------------------------------------------
Kids == {"grouped", "stray"}

Environment ==
  \/ \E who \in Kids \cup {"leader"} : Write(who)
  \/ \E kid \in Kids : Fork(kid) \/ KidExits(kid)
  \/ Exit

Reader == ReadChunk \/ ReaderLock \/ ReaderWrite \/ ReadEOF
Waiter == Wait \/ KillGroup \/ WaiterReadDone \/ WaiterTimer \/ Finish
KillStep == KillSignal \/ KillSeesExit \/ KillTimer
Run1 == SelectDone \/ KillStep \/ WaitDone \/ Report \/ RemoveLog

Next ==
  \/ Environment \/ Reader \/ ReadError \/ Waiter \/ Run1
  \/ \E why \in {"stop", "timeout"} : SelectKill(why)

Spec == Init /\ [][Next]_vars

\* The goroutines keep running and their timers fire.  Nothing is assumed of
\* the processes: they may run, ignore signals and hold the pipe for ever.
FairSpec == Spec /\ WF_vars(Reader) /\ WF_vars(Waiter) /\ WF_vars(Run1)

-----------------------------------------------------------------------------
TypeOK ==
  /\ proc \in {"running", "zombie", "reaped"} /\ kids \subseteq Kids
  /\ pipe \in Seq(Kids \cup {"leader"}) /\ written \in Seq(Kids \cup {"leader"})
  /\ {cmd, sigProc, status, readDone, waitChan, late, ioError} \subseteq BOOLEAN
  /\ mu \in {"none", "reader"}
  /\ rpc \in {"read", "lock", "write", "done"}
  /\ wpc \in {"wait", "killGroup", "select", "finish", "done"}
  /\ kpc \in {"select", "kill", "killWait", "waitDone", "report", "remove", "sent", "exited"}
  /\ ksig \in 1..Len(Signals)
  /\ file.data \in Seq(Kids \cup {"leader", "run1"}) /\ file.open \in BOOLEAN

\* "Output to out will be stopped when the command completes, even if
\* sub-processes continue to write": once Done is closed the file is run1's
\* alone, and once the result is sent nobody writes to it.
OutputStopsAtDone ==
  [][waitChan /\ file'.data # file.data => kpc = "report"]_vars

\* A clean exit loses no output: unless the waiter's timer ran out, or reading
\* the pipe or writing the file failed (both are ignored), the log holds
\* everything the process tree wrote, in order, when the run is reported.
OutputComplete ==
  kpc \in {"report", "sent"} /\ ~late /\ ~ioError =>
    file.data \in {written, Append(written, "run1")}

\* The log without run1's line, which comes last.
Copied == IF file.data # <<>> /\ Last(file.data) = "run1" THEN Front(file.data)
                                                        ELSE file.data

\* Even a late log is a prefix of what was written, and one with failed writes
\* has gaps but is still in order: nothing is reordered or invented.
OutputInOrder ==
  \E S \in SUBSET (1..Len(written)) :
    LET at == SetToSortSeq(S, <) IN
    /\ Copied = [i \in 1..Cardinality(S) |-> written[at[i]]]
    /\ ~ioError => S = 1..Cardinality(S)

\* When the run is reported, the status is there and no process of the group
\* is left behind.
GroupGone ==
  waitChan => status /\ proc = "reaped" /\ "grouped" \notin kids

\* "Kill kills the process, first gracefully then aggressively": however Kill
\* returns, and whatever signals the process ignores, it is dead.
KillKills ==
  kpc \in {"waitDone", "remove", "exited"} => proc # "running"

\* run1 gets out of Kill and, after a timeout, of <-cmd.Done(), although a
\* stray subprocess may keep the pipe open for ever.
Killing == kpc = "kill"
Reported == kpc \in {"sent", "exited"}
KillLeadsToReport == Killing ~> Reported

\* A process that exits is noticed.
ExitIsNoticed == (proc = "zombie") ~> waitChan
=============================================================================
