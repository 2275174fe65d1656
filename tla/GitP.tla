-------------------------------- MODULE GitP --------------------------------
(***************************************************************************)
(* src/git-p: main walks the branches, asks Gerrit about their commits      *)
(* through a goroutine that sends the questions in batches, and starts a    *)
(* goroutine for each branch that prints it when the one before is done.    *)
(***************************************************************************)
EXTENDS Integers, Sequences, FiniteSets, SequencesExt, ChangeStatus

CONSTANTS
  Confs,        \* repositories and command lines, see conf
  Limit,        \* 3: branches that are asked about before they are printed
  ReqCap,       \* 10: the buffer of Gerrit's request channel
  BatchMax      \* 10: questions in a batch

VARIABLES
  conf,         \* [local, args, head, refs, ignored, commits: ref -> sequence of commits]
  pc, bi, ci,   \* main: its step, the branch, and the commit it asks about
  limit,        \* tokens in the limit channel
  token,        \* the channel main will hand to the next branch: 0, or the branch that sends
  first,        \* whether the initial token is still in its channel
  prt,          \* branch number -> its printer: [pc, prev, at]
  req,          \* Gerrit's request channel
  batch,
  answer,       \* request -> its result, for the requests whose done is closed
  out           \* what is printed

main == <<pc, bi, ci, token>>
vars == <<conf, main, limit, first, prt, req, batch, answer, out>>

-----------------------------------------------------------------------------
\* Without arguments: HEAD, and the branches that no pattern ignores.
ListBranches == conf.head \o SelectSeq(conf.refs, LAMBDA r : r \notin conf.ignored /\ r \notin Range(conf.head))
Branches == IF conf.args # <<>> THEN conf.args ELSE ListBranches

Commits(b) == conf.commits[Branches[b]]

Init ==
  /\ conf \in Confs
  /\ pc = "branch"
  /\ bi = 1
  /\ ci = 0
  /\ limit = 0
  /\ token = 0
  /\ first = TRUE
  /\ prt = <<>>
  /\ req = <<>>
  /\ batch = <<>>
  /\ answer = <<>>
  /\ out = <<>>

\* showBranch: with -l there is no Gerrit whose project could be read.
Enter ==
  /\ pc = "branch" /\ bi <= Len(Branches)
  /\ limit < Limit
  /\ limit' = limit + 1
  /\ pc' = IF conf.local THEN "panic" ELSE "query"
  /\ ci' = 1
  /\ UNCHANGED <<conf, bi, token, first, prt, req, batch, answer, out>>

\* QueryChanges, for a commit with a Change-Id.
Ask ==
  /\ pc = "query" /\ ci <= Len(Commits(bi))
  /\ IF Commits(bi)[ci].cid
     THEN Len(req) < ReqCap /\ req' = Append(req, <<bi, ci>>)
     ELSE UNCHANGED req
  /\ ci' = ci + 1
  /\ UNCHANGED <<conf, pc, bi, limit, token, first, prt, batch, answer, out>>

\* Slip: every printer waits for the initial token only.
Leave_unchained ==
  /\ pc = "query" /\ ci > Len(Commits(bi))
  /\ bi' = bi + 1
  /\ pc' = "branch"
  /\ token' = bi
  /\ prt' = Append(prt, [pc |-> "print", prev |-> 0, at |-> 1])
  /\ UNCHANGED <<conf, ci, limit, first, req, batch, answer, out>>

\* A branch with nothing to show passes its token on.
Leave ==
  /\ pc = "query" /\ ci > Len(Commits(bi))
  /\ bi' = bi + 1
  /\ pc' = "branch"
  /\ IF Commits(bi) = <<>>
     THEN limit' = limit - 1 /\ prt' = Append(prt, [pc |-> "done", prev |-> 0, at |-> 0]) /\ UNCHANGED token
     ELSE token' = bi /\ prt' = Append(prt, [pc |-> "wait", prev |-> token, at |-> 0]) /\ UNCHANGED limit
  /\ UNCHANGED <<conf, ci, first, req, batch, answer, out>>

\* A receive from the token's channel: the buffered one, or a printer's send.
Receive(prev, q) ==
  IF prev = 0 THEN first /\ first' = FALSE /\ prt' = q
  ELSE prt[prev].pc = "send" /\ prt' = [q EXCEPT ![prev].pc = "done"] /\ UNCHANGED first

Begin(b) ==
  /\ prt[b].pc = "wait"
  /\ Receive(prt[b].prev, [prt EXCEPT ![b].pc = "print", ![b].at = 1])
  /\ UNCHANGED <<conf, main, limit, req, batch, answer, out>>

\* printChange waits for the answer; an error ends the program.
PrintChange(b) ==
  LET i == prt[b].at
      r == <<b, i>>
      asked == Commits(b)[i].cid
  IN  /\ prt[b].pc = "print" /\ i <= Len(Commits(b))
      /\ asked => r \in DOMAIN answer
      /\ IF asked /\ (answer[r].err \/ Len(answer[r].result) > 1)
         THEN pc' = "fatal" /\ UNCHANGED <<prt, out>>
         ELSE /\ out' = Append(out, <<b, i, IF asked THEN Line(answer[r].result) ELSE "magenta">>)
              /\ prt' = [prt EXCEPT ![b].at = @ + 1]
              /\ UNCHANGED pc
      /\ UNCHANGED <<conf, bi, ci, limit, token, first, req, batch, answer>>

Finish(b) ==
  /\ prt[b].pc = "print" /\ prt[b].at > Len(Commits(b))
  /\ limit' = limit - 1
  /\ prt' = [prt EXCEPT ![b].pc = "send"]
  /\ UNCHANGED <<conf, main, first, req, batch, answer, out>>

\* The last receive of main.
End ==
  /\ pc = "branch" /\ bi > Len(Branches)
  /\ Receive(token, prt)
  /\ pc' = "done"
  /\ UNCHANGED <<conf, bi, ci, limit, token, req, batch, answer, out>>

-----------------------------------------------------------------------------
(* Gerrit's goroutine. *)

Collect ==
  /\ req # <<>> /\ Len(batch) < BatchMax
  /\ batch' = Append(batch, Head(req))
  /\ req' = Tail(req)
  /\ UNCHANGED <<conf, main, limit, first, prt, answer, out>>

Server(r) == Commits(r[1])[r[2]].changes

\* queryChanges1, when the batch is full or the millisecond is over: each
\* request gets the answer at its own place, or all of them an error.
Query ==
  /\ batch # <<>>
  /\ \E fails \in BOOLEAN :
       answer' = [r \in DOMAIN answer \cup Range(batch) |->
                    IF r \in DOMAIN answer THEN answer[r]
                    ELSE [err |-> fails, result |-> IF fails THEN <<>> ELSE Server(r)]]
  /\ batch' = <<>>
  /\ UNCHANGED <<conf, main, limit, first, prt, req, out>>

Step ==
  \/ Enter \/ Ask \/ Leave \/ End \/ Collect \/ Query
  \/ \E b \in DOMAIN prt : Begin(b) \/ PrintChange(b) \/ Finish(b)

Next == pc \in {"branch", "query"} /\ Step

Spec == Init /\ [][Next]_vars
FairSpec ==
  /\ Spec
  /\ WF_vars(Next)

-----------------------------------------------------------------------------
\* What is to be printed, by what Gerrit knows of each commit.
Expected ==
  FlattenSeq([b \in DOMAIN Branches |->
    [i \in DOMAIN Commits(b) |->
       <<b, i, IF Commits(b)[i].cid THEN Line(Commits(b)[i].changes) ELSE "magenta">>]])

\* Branches are fetched ahead and printed in order: what is printed is a part
\* from the start of what is to be printed, every commit with the status of its
\* own change however the questions were batched, and all of it at the end.  No
\* more than Limit branches are under way, and the limit is given back.
ShownInOrder ==
  /\ IsPrefix(out, Expected)
  /\ pc = "done" => out = Expected /\ limit = 0
  /\ Cardinality({b \in DOMAIN prt : prt[b].pc \in {"wait", "print"}}) <= Limit

\* git-p ends: it prints everything, or it stops with an error.
Ends == (pc \in {"branch", "query"}) ~> (pc \in {"done", "fatal", "panic"})
=============================================================================
