---------------------------- MODULE ChangeStatus ----------------------------
(***************************************************************************)
(* changeStatus and printChange of src/git-p (main.go, style.go):           *)
(* the status of a change, its warnings and its colour, from what Gerrit    *)
(* and git say of it: [status, submittable, optional, rejected, approved,   *)
(* queued, commit, mailed, unresolved, messages].  A commit is [id, here,   *)
(* patch, msg]: whether it is in this repository, its patch ID, and the     *)
(* lines of its message, of which Gerrit adds those of gerritFields.        *)
(***************************************************************************)
EXTENDS Naturals, Sequences, FiniteSets, FiniteSetsExt

gerritFields == {"Reviewed-on", "Run-TryBot", "TryBot-Result", "Reviewed-by"}

\* Fields of Gerrit are taken from the end of a message, up to its first line.
canonGerritMessage(msg) ==
  SubSeq(msg, 1, Max({i \in DOMAIN msg : i = 1 \/ msg[i] \notin gerritFields} \cup {0}))

\* How serious the differences with the mailed change are.
Local(commit, mailed) ==
  IF commit.id = mailed.id THEN "same"
  ELSE IF ~mailed.here \/ commit.patch # mailed.patch THEN "differs"
  ELSE IF canonGerritMessage(commit.msg) # canonGerritMessage(mailed.msg) THEN "message differs" ELSE "same"

\* Slip: comments on older patch sets count.
Warnings_old(info) ==
  LET required(l) == l \in info.rejected \ info.optional
      human == {m \in info.messages : ~m.auto /\ ~m.labelOnly /\ m.author}
      local == Local(info.commit, info.mailed)
  IN  (IF local = "same" THEN {} ELSE {local})
      \cup (IF required("Do-Not-Submit") THEN {"do not submit"} ELSE {})
      \cup (IF required("Code-Review") \/ required("TryBot") THEN {"rejected"} ELSE {})
      \cup (IF human # {} \/ info.unresolved > 0 THEN {"comments"} ELSE {})
      \cup (IF "TryBot" \in info.approved \ info.rejected THEN {} ELSE {"TryBots"})

\* The first part of changeStatus.
Warnings(info) ==
  LET required(l) == l \in info.rejected \ info.optional
      human == {m \in info.messages : m.current /\ ~m.auto /\ ~m.labelOnly /\ m.author}
      local == Local(info.commit, info.mailed)
  IN  (IF local = "same" THEN {} ELSE {local})
      \cup (IF required("Do-Not-Submit") THEN {"do not submit"} ELSE {})
      \cup (IF required("Code-Review") THEN {"rejected"} ELSE {})
      \cup (IF info.unresolved > 0 THEN {"unresolved"} ELSE {})
      \cup (IF human # {} THEN {"comments"} ELSE {})
      \cup (IF "TryBot" \in info.rejected THEN {"TryBots failed"}
            ELSE IF "TryBot" \in info.approved \/ info.status = "MERGED" THEN {}
            ELSE IF info.queued THEN {"TryBots running"} ELSE {"TryBots not run"})
      \cup (IF required("TryBot") THEN {"rejected"} ELSE {})

Status(info) ==
  CASE info.status = "MERGED" -> "Submitted"
    [] info.status = "ABANDONED" -> "Abandoned"
    [] info.status = "DRAFT" -> "Draft"
    [] info.status = "NEW" ->
         IF "rejected" \in Warnings(info) THEN "Rejected" ELSE IF info.submittable THEN "Ready" ELSE "Pending"
    [] OTHER -> "Unknown"

\* printChange: the style of a status with warnings, or else of the status.
Color(status, warned) ==
  CASE status \in {"Pending", "Ready"} /\ warned -> "yellow"
    [] status = "Rejected" /\ warned -> "red"
    [] status = "Ready" /\ ~warned -> "green"
    [] status \in {"Submitted", "Abandoned", "Draft"} -> "gray"
    [] status = "Not mailed" -> "magenta"
    [] OTHER -> "none"

\* The answer to the question about a commit is the sequence of its changes.
Line(results) ==
  IF results = <<>> THEN "magenta"
  ELSE Color(Status(results[1]), Warnings(results[1]) # {})

-----------------------------------------------------------------------------
\* "green indicates a CL is submittable and has no warnings, yellow indicates a
\* CL has warnings, and red indicates a CL has been rejected", for a change
\* that is not submitted.  What Gerrit itself adds to a message is no difference.
ColorsMean(info) ==
  LET color == Line(<<info>>)
      vetoed == (info.rejected \ info.optional) \cap {"Code-Review", "TryBot"} # {}
      held == "Do-Not-Submit" \in info.rejected \ info.optional
      mine(msg) == SelectSeq(msg, LAMBDA l : l \notin gerritFields)
      clean == /\ ~held /\ info.unresolved = 0
               /\ info.commit.id # info.mailed.id =>
                    /\ info.mailed.here /\ info.commit.patch = info.mailed.patch
                    /\ mine(info.commit.msg) = mine(info.mailed.msg)
               /\ "TryBot" \in info.approved \ info.rejected
               /\ \A m \in info.messages : ~m.current \/ m.auto \/ m.labelOnly \/ ~m.author
  IN  info.status = "NEW" =>
        /\ (color = "red") = vetoed
        /\ (color = "green") = (info.submittable /\ clean /\ ~vetoed)
        /\ (color = "yellow") = (~vetoed /\ ~clean)
=============================================================================
