------------------------------ MODULE MarkDone ------------------------------
(***************************************************************************)
(* The mark workers of src/go-weave/models/issue16083.go: the last worker   *)
(* to stop looks whether marking is done.  Every atomic operation is an     *)
(* action: the code yields after each.                                      *)
(***************************************************************************)
EXTENDS Naturals

CONSTANTS
  Workers,
  markrootJobs,  \* jobs are 0..markrootJobs-1
  Iterations,    \* the bound of the worker loop
  None

VARIABLES workers, markrootNext, scanned, markDoneSema, done, wk

vars == <<workers, markrootNext, scanned, markDoneSema, done, wk>>

Init ==
  /\ workers = 0 /\ markrootNext = 0 /\ scanned = {}
  /\ markDoneSema = None /\ done = FALSE
  /\ wk = [w \in Workers |-> [pc |-> "loop", i |-> 0, job |-> 0]]

Go(w, from, new) == wk[w].pc = from /\ wk' = [wk EXCEPT ![w] = new]
To(w, pc) == [wk[w] EXCEPT !.pc = pc]

\* The loop's condition and workers.Add(+1).
Enter(w) ==
  /\ wk[w].i < Iterations /\ ~done
  /\ workers' = workers + 1 /\ Go(w, "loop", To(w, "drain"))
  /\ UNCHANGED <<markrootNext, scanned, markDoneSema, done>>

\* gcDrain claims a job ...
Claim(w) ==
  /\ Go(w, "drain", [wk[w] EXCEPT !.pc = IF markrootNext < markrootJobs THEN "scan" ELSE "leave",
                                  !.job = IF markrootNext < markrootJobs THEN markrootNext ELSE 0])
  /\ markrootNext' = markrootNext + 1
  /\ UNCHANGED <<workers, scanned, markDoneSema, done>>

\* ... and does it.
Scan(w) ==
  /\ Go(w, "scan", [wk[w] EXCEPT !.pc = "leave", !.job = 0])
  /\ scanned' = scanned \cup {wk[w].job}
  /\ UNCHANGED <<workers, markrootNext, markDoneSema, done>>

Again(w) == [wk[w] EXCEPT !.pc = "loop", !.i = @ + 1]

Leave(w) ==
  /\ Go(w, "leave", IF workers - 1 = 0 THEN To(w, "avail") ELSE Again(w))
  /\ workers' = workers - 1
  /\ UNCHANGED <<markrootNext, scanned, markDoneSema, done>>

gcMarkWorkAvailable == markrootNext < markrootJobs

Available(w) ==
  /\ Go(w, "avail", IF gcMarkWorkAvailable THEN Again(w) ELSE To(w, "sema"))
  /\ UNCHANGED <<workers, markrootNext, scanned, markDoneSema, done>>

Lock(w) ==
  /\ markDoneSema = None /\ markDoneSema' = w /\ Go(w, "sema", To(w, "recheck"))
  /\ UNCHANGED <<workers, markrootNext, scanned, done>>

Unlock(w, new) == Go(w, wk[w].pc, new) /\ markDoneSema' = None

\* Slip: gcMarkDone does not look at the workers again.
Recheck_none(w) ==
  /\ Go(w, "recheck", To(w, "recheck2"))
  /\ UNCHANGED <<workers, markrootNext, scanned, markDoneSema, done>>

\* gcMarkDone gives up if another worker has started since.
Recheck(w) ==
  /\ wk[w].pc = "recheck"
  /\ IF workers = 0 THEN Go(w, "recheck", To(w, "recheck2")) /\ UNCHANGED markDoneSema
                    ELSE Unlock(w, Again(w))
  /\ UNCHANGED <<workers, markrootNext, scanned, done>>

Recheck2(w) ==
  /\ wk[w].pc = "recheck2"
  /\ IF gcMarkWorkAvailable THEN Unlock(w, Again(w))
                            ELSE Go(w, "recheck2", To(w, "check")) /\ UNCHANGED markDoneSema
  /\ UNCHANGED <<workers, markrootNext, scanned, done>>

\* gcMarkRootCheck: one load after the other; a missed job panics.
RootCheck(w) ==
  /\ wk[w].pc = "check"
  /\ IF wk[w].job \in scanned
     THEN IF wk[w].job + 1 < markrootJobs
          THEN Go(w, "check", [wk[w] EXCEPT !.job = @ + 1]) /\ UNCHANGED <<done, markDoneSema>>
          ELSE done' = TRUE /\ Unlock(w, [Again(w) EXCEPT !.job = 0])
     ELSE Go(w, "check", To(w, "panic")) /\ UNCHANGED <<done, markDoneSema>>
  /\ UNCHANGED <<workers, markrootNext, scanned>>

Next ==
  \E w \in Workers :
    \/ Enter(w) \/ Claim(w) \/ Scan(w) \/ Leave(w) \/ Available(w)
    \/ Lock(w) \/ Recheck(w) \/ Recheck2(w) \/ RootCheck(w)

Spec == Init /\ [][Next]_vars

-----------------------------------------------------------------------------
\* gcMarkRootCheck never finds a missed job (issue16083.go:101): once no worker
\* runs and no job is left to claim, all that were claimed are done.
NoneMissed == \A w \in Workers : wk[w].pc # "panic"

=============================================================================
