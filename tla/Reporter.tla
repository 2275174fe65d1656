------------------------------ MODULE Reporter ------------------------------
(***************************************************************************)
(* The terminal status line of stress2 (ReporterVT100 in                    *)
(* src/stress2/reporter.go).  The client, Stress.Run, sends statuses over   *)
(* an unbuffered channel and writes text; the goroutine run displays the    *)
(* newest status, at most once per minUpdate unless its ticker fires.       *)
(* Statuses are numbered in the order in which they are sent; 0 is the      *)
(* empty status run starts with.                                            *)
(***************************************************************************)
EXTENDS Naturals, Sequences

CONSTANT MaxStatus   \* bound on the statuses sent

VARIABLES
  client,    \* the client: "running", "waiting" in StopStatus, "stopped"
  sent,      \* number of statuses sent
  stop,      \* is r.stop closed?
  pc,        \* run: "print", "select", "final" or "done"
  status,    \* run's status
  inhibit, pending,
  timer,     \* deinhibit is running
  timerC,    \* deinhibit.C holds a tick
  line,      \* the status on the current terminal line, if any (a set)
  kept,      \* the status lines that ended with a newline
  drawn      \* the status drawn last (history)

runVars == <<pc, status, inhibit, pending, timer, timerC>>
clientVars == <<client, sent, stop>>
screen == <<line, kept, drawn>>
vars == <<clientVars, runVars, screen>>

\* StartStatus has returned and run has made its timer, which expires at once.
Init ==
  /\ client = "running" /\ sent = 0 /\ stop = FALSE
  /\ pc = "print" /\ status = 0
  /\ inhibit = FALSE /\ pending = FALSE
  /\ timer = TRUE /\ timerC = FALSE
  /\ line = {} /\ kept = <<>> /\ drawn = 0

-----------------------------------------------------------------------------
(* The goroutine run. *)

Display ==
  /\ pc = "print"
  /\ line' = {status} /\ drawn' = status /\ pending' = FALSE
  /\ pc' = "select"
  /\ UNCHANGED <<clientVars, status, inhibit, timer, timerC, kept>>

Tick ==
  /\ pc = "select"
  /\ pc' = "print"
  /\ UNCHANGED <<clientVars, status, inhibit, pending, timer, timerC, screen>>

\* Slip: forgets to restart the timer.
Update_noReset ==
  /\ pc = "select" /\ client = "running" /\ sent < MaxStatus
  /\ sent' = sent + 1 /\ status' = sent'
  /\ IF inhibit
     THEN pending' = TRUE /\ UNCHANGED <<pc, inhibit, timer, timerC>>
     ELSE /\ inhibit' = TRUE /\ pc' = "print"
          /\ UNCHANGED <<pending, timer, timerC>>
  /\ UNCHANGED <<client, stop, screen>>

\* The client's Status meets run's select.  A tick that is already in
\* deinhibit.C stays there over Reset.
Update ==
  /\ pc = "select" /\ client = "running" /\ sent < MaxStatus
  /\ sent' = sent + 1 /\ status' = sent'
  /\ IF inhibit
     THEN pending' = TRUE /\ UNCHANGED <<pc, inhibit, timer, timerC>>
     ELSE /\ inhibit' = TRUE /\ timer' = TRUE /\ pc' = "print"
          /\ UNCHANGED <<pending, timerC>>
  /\ UNCHANGED <<client, stop, screen>>

Deinhibit ==
  /\ pc = "select" /\ timerC
  /\ timerC' = FALSE /\ inhibit' = FALSE
  /\ pc' = IF pending THEN "print" ELSE "select"
  /\ UNCHANGED <<clientVars, status, pending, timer, screen>>

Stopped ==
  /\ pc = "select" /\ stop
  /\ pc' = "final"
  /\ UNCHANGED <<clientVars, status, inhibit, pending, timer, timerC, screen>>

\* Slip: leaves the line as it was last displayed.
Final_asShown ==
  /\ pc = "final"
  /\ kept' = Append(kept, drawn) /\ line' = {} /\ UNCHANGED drawn
  /\ pc' = "done"
  /\ UNCHANGED <<clientVars, status, inhibit, pending, timer, timerC>>

\* The deferred function: keep the last status line, then wg.Done.
Final ==
  /\ pc = "final"
  /\ kept' = Append(kept, status) /\ line' = {} /\ drawn' = status
  /\ pc' = "done"
  /\ UNCHANGED <<clientVars, status, inhibit, pending, timer, timerC>>

\* The runtime: the timer expires and puts its tick into the channel.
TimerFires ==
  /\ timer
  /\ timer' = FALSE /\ timerC' = TRUE
  /\ UNCHANGED <<clientVars, pc, status, inhibit, pending, screen>>

-----------------------------------------------------------------------------
(* The client. *)

\* Write clears the status line and prints text in its place.
Write ==
  /\ client \in {"running", "stopped"} /\ line # {}
  /\ line' = {}
  /\ UNCHANGED <<clientVars, runVars, kept, drawn>>

StopStatus ==
  /\ client = "running"
  /\ stop' = TRUE /\ client' = "waiting"
  /\ UNCHANGED <<sent, runVars, screen>>

StopReturns ==
  /\ client = "waiting" /\ pc = "done"
  /\ client' = "stopped"
  /\ UNCHANGED <<sent, stop, runVars, screen>>

-----------------------------------------------------------------------------
Next ==
  \/ Display \/ Tick \/ Update \/ Deinhibit \/ Stopped \/ Final \/ TimerFires
  \/ Write \/ StopStatus \/ StopReturns

Spec == Init /\ [][Next]_vars

\* run prints when it can, its timer expires, and a channel that stays ready
\* is picked by the select in the end.  Nothing is assumed of the ticker, which
\* alone would show every status, nor of the client outside StopStatus.
FairSpec ==
  /\ Spec
  /\ WF_vars(Display) /\ WF_vars(Final) /\ WF_vars(TimerFires)
  /\ SF_vars(Deinhibit) /\ SF_vars(Stopped) /\ WF_vars(StopReturns)

-----------------------------------------------------------------------------
TypeOK ==
  /\ client \in {"running", "waiting", "stopped"} /\ sent \in 0..MaxStatus
  /\ pc \in {"print", "select", "final", "done"} /\ status \in 0..MaxStatus
  /\ stop \in BOOLEAN /\ inhibit \in BOOLEAN /\ pending \in BOOLEAN
  /\ timer \in BOOLEAN /\ timerC \in BOOLEAN
  /\ line \subseteq 0..MaxStatus /\ drawn \in 0..MaxStatus
  /\ kept \in {<<>>} \cup {<<n>> : n \in 0..MaxStatus}

\* "Keep the last status line": when StopStatus returns, the newest status has
\* been left on the terminal, exactly once, however many updates were inhibited.
\* The status line is gone then: run draws nothing over what the client writes.
LastStatusKept == client = "stopped" => kept = <<sent>> /\ line = {}

\* Every status is drawn unless a newer one supersedes it, even if the ticker
\* never fires.
NewestShown ==
  \A n \in 1..MaxStatus : (sent = n) ~> (drawn = n \/ sent > n)

\* StopStatus returns, whatever ticks and timers run does first.
StopCompletes == (client = "waiting") ~> (client = "stopped")
=============================================================================
