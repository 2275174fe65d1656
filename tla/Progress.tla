------------------------------ MODULE Progress ------------------------------
(***************************************************************************)
(* The progress line of src/go-weave/amb: a goroutine draws it and diverts  *)
(* os.Stdout and os.Stderr to pipes, a feeder for each pipe copies what the *)
(* explored program prints, and printLock keeps the progress line out of    *)
(* the program's lines.  A write is [by, nl]: the stream, and whether it    *)
(* ends a line.  A step takes printLock, writes and releases it; a feeder   *)
(* in the middle of a line keeps it.                                        *)
(***************************************************************************)
EXTENDS Integers, Sequences, SequencesExt

CONSTANTS
  Streams,        \* stdout and stderr
  Outputs,        \* what the program may print, a set of sequences of writes
  PipeCap         \* writes that a pipe holds

VARIABLES
  pc,             \* of the goroutine that draws
  stop,           \* progress.stop is closed
  diverted,       \* os.Stdout and os.Stderr are the pipes
  todo,           \* what the program has still to print
  pipe,           \* stream -> writes not yet read
  buf,            \* stream -> writes its feeder has read and not yet printed
  bol,            \* stream -> its feeder is at the beginning of a line
  printLock,      \* the stream whose feeder holds it, or "free"
  screen,         \* the lines that are complete
  line,           \* the terminal's current line
  fed,            \* stream -> what its feeder has printed
  ended           \* the feeders that have ended

vars == <<pc, stop, diverted, todo, pipe, buf, bol, printLock, screen, line, fed, ended>>

Init ==
  /\ pc = "start" /\ stop = FALSE /\ diverted = FALSE
  /\ todo \in Outputs
  /\ pipe = [s \in Streams |-> <<>>] /\ buf = [s \in Streams |-> <<>>] /\ fed = [s \in Streams |-> <<>>]
  /\ bol = [s \in Streams |-> TRUE]
  /\ printLock = "free"
  /\ screen = <<>> /\ line = <<>>
  /\ ended = {}

\* The terminal after text: the complete lines, and the current one.
Terminal(old, text) ==
  LET all == old \o text
      n == SelectLastInSeq(all, LAMBDA w : w.nl)
  IN  screen' = screen \o SubSeq(all, 1, n) /\ line' = SubSeq(all, n + 1, Len(all))

-----------------------------------------------------------------------------
\* Until the goroutine has run, the program prints to the terminal itself.
PrintDirectly ==
  /\ todo # <<>> /\ ~diverted
  /\ todo' = Tail(todo)
  /\ Terminal(line, <<[by |-> "direct", nl |-> Head(todo).nl]>>)
  /\ UNCHANGED <<pc, stop, diverted, pipe, buf, bol, printLock, fed, ended>>

\* A full pipe blocks the program.
PrintToPipe ==
  /\ todo # <<>> /\ diverted
  /\ LET w == Head(todo)
     IN  Len(pipe[w.by]) < PipeCap /\ pipe' = [pipe EXCEPT ![w.by] = Append(@, w)]
  /\ todo' = Tail(todo)
  /\ UNCHANGED <<pc, stop, diverted, buf, bol, printLock, screen, line, fed, ended>>

stopProgress ==
  /\ todo = <<>> /\ ~stop
  /\ stop' = TRUE
  /\ UNCHANGED <<pc, diverted, todo, pipe, buf, bol, printLock, screen, line, fed, ended>>

startProgress ==
  /\ pc = "start"
  /\ diverted' = TRUE /\ pc' = "report"
  /\ UNCHANGED <<stop, todo, pipe, buf, bol, printLock, screen, line, fed, ended>>

report(final) ==
  /\ printLock = "free"
  /\ Terminal(<<>>, <<[by |-> "progress", nl |-> final]>>)
  /\ UNCHANGED <<stop, diverted, todo, pipe, buf, bol, printLock, fed, ended>>

Report == pc = "report" /\ report(FALSE) /\ pc' = "select"
FinalReport == pc = "final" /\ report(TRUE) /\ pc' = "done"

\* The select: the ticker, or the stop.
Tick ==
  /\ pc = "select" /\ pc' = "report"
  /\ UNCHANGED <<stop, diverted, todo, pipe, buf, bol, printLock, screen, line, fed, ended>>
Stopped ==
  /\ pc = "select" /\ stop /\ pc' = "final"
  /\ UNCHANGED <<stop, diverted, todo, pipe, buf, bol, printLock, screen, line, fed, ended>>

\* The deferred function, after progress.done is closed: what is left in the
\* pipes is lost.
Restore ==
  /\ pc = "done" /\ pc' = "restored"
  /\ diverted' = FALSE /\ pipe' = [s \in Streams |-> <<>>]
  /\ UNCHANGED <<stop, todo, buf, bol, printLock, screen, line, fed, ended>>

\* pipeFeeder: a read returns some of what is in the pipe.
FeederReads(s) ==
  /\ s \notin ended /\ buf[s] = <<>>
  /\ \E n \in 1..Len(pipe[s]) :
       /\ buf' = [buf EXCEPT ![s] = SubSeq(pipe[s], 1, n)]
       /\ pipe' = [pipe EXCEPT ![s] = SubSeq(@, n + 1, Len(@))]
  /\ UNCHANGED <<pc, stop, diverted, todo, bol, printLock, screen, line, fed, ended>>

\* At the beginning of a line it takes the lock and clears the progress line; it
\* keeps the lock unless what it has read ends a line.
FeederPrints(s) ==
  /\ buf[s] # <<>>
  /\ bol[s] => printLock = "free"
  /\ Terminal(IF bol[s] THEN <<>> ELSE line, buf[s])
  /\ bol' = [bol EXCEPT ![s] = Last(buf[s]).nl]
  /\ printLock' = IF Last(buf[s]).nl THEN "free" ELSE s
  /\ fed' = [fed EXCEPT ![s] = @ \o buf[s]]
  /\ buf' = [buf EXCEPT ![s] = <<>>]
  /\ UNCHANGED <<pc, stop, diverted, todo, pipe, ended>>

\* Its pipe is closed; it closes the stream it wrote to.
FeederEnds(s) ==
  /\ pc = "restored" /\ s \notin ended /\ buf[s] = <<>>
  /\ ended' = ended \cup {s}
  /\ UNCHANGED <<pc, stop, diverted, todo, pipe, buf, bol, printLock, screen, line, fed>>

Draw == startProgress \/ Report \/ FinalReport
Feed(s) == FeederReads(s) \/ FeederPrints(s)

Next ==
  \/ PrintDirectly \/ PrintToPipe \/ stopProgress
  \/ Draw \/ Tick \/ Stopped \/ Restore
  \/ \E s \in Streams : Feed(s) \/ FeederEnds(s)

\* The goroutines run when they can; a select with several ready cases takes
\* each of them again and again.
Fairness ==
  /\ WF_vars(Draw) /\ SF_vars(Stopped)
  /\ \A s \in Streams : WF_vars(Feed(s))

Spec == Init /\ [][Next]_vars /\ Fairness

-----------------------------------------------------------------------------
\* What a feeder has printed stays on the terminal, in order: neither the
\* progress line nor the other feeder, which clear the line they start on, ever
\* clears it.
NothingErased == \A s \in Streams : SelectSeq(screen \o line, LAMBDA w : w.by = s) = fed[s]

\* Some stream's last line is not ended.
Unended ==
  \E s \in Streams :
    IF pipe[s] # <<>> THEN ~Last(pipe[s]).nl
    ELSE IF buf[s] # <<>> THEN ~Last(buf[s]).nl ELSE ~bol[s]

\* stopProgress returns, if the program has ended its last lines: otherwise a
\* feeder keeps printLock and the final report waits for it.
StopReturns == stop /\ ~Unended ~> pc \in {"done", "restored"}

=============================================================================
