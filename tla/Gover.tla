------------------------------- MODULE Gover -------------------------------
(***************************************************************************)
(* The saved builds of src/gover: gover processes that save a tree, name    *)
(* it, clean the cache of file contents (_dedup) and remove builds, on one  *)
(* directory without a lock.  A file of a tree is known by its content; a   *)
(* file on disk is an inode, complete or not, that the cache and the builds *)
(* link to.  A process may die at any point.                                *)
(***************************************************************************)
EXTENDS Naturals, Sequences, FiniteSets

CONSTANTS
  Procs,
  Hashes,
  Files(_),     \* the contents of the files in a hash's tree
  Data,         \* all contents
  Names,
  None,
  MaxInodes     \* bound on the files written to the cache

VARIABLES
  full,         \* the inodes, and whether each is complete
  dedup,        \* content -> inode in _dedup, or 0
  builds,       \* hash -> content -> inode in the build's directory, or 0
  dirs,         \* hashes whose directory exists
  commits,      \* hashes whose commit file exists
  names,        \* name -> hash that the symlink points to, or None
  proc,         \* what every process does
  accident      \* a death in a write, or a removal of what is being saved

vars == <<full, dedup, builds, dirs, commits, names, proc, accident>>
disk == <<full, dedup, builds, dirs, commits, names>>

Idle == [pc |-> "idle", hash |-> None, name |-> None, todo |-> {}, data |-> None, inode |-> 0]
Exit(p) == proc' = [proc EXCEPT ![p] = Idle]
Goto(p, pc) == proc' = [proc EXCEPT ![p].pc = pc]

Init ==
  /\ full = <<>>
  /\ dedup = [d \in Data |-> 0]
  /\ builds = [h \in Hashes |-> [d \in Data |-> 0]]
  /\ dirs = {}
  /\ commits = {}
  /\ names = [n \in Names |-> None]
  /\ proc = [p \in Procs |-> Idle]
  /\ accident = FALSE

\* main, save: refused when the hash or the name exists.  hash is the name of a
\* directory; the lookup of a prefix is left out.
Save(p, h, n) ==
  /\ proc[p].pc = "idle"
  /\ h \notin dirs
  /\ n # None => names[n] = None
  /\ proc' = [proc EXCEPT ![p] = [Idle EXCEPT !.pc = "file", !.hash = h, !.name = n, !.todo = Files(h)]]
  /\ UNCHANGED <<disk, accident>>

\* main, build: a hash that exists is only given the name.
Build(p, h, n) ==
  /\ proc[p].pc = "idle"
  /\ proc' = [proc EXCEPT ![p] =
                [Idle EXCEPT !.pc = IF h \notin dirs THEN "file" ELSE "name", !.hash = h, !.name = n, !.todo = Files(h)]]
  /\ h \in dirs => n # None /\ names[n] = None
  /\ UNCHANGED <<disk, accident>>

\* cp: is the content in the cache?
Stat(p, d) ==
  /\ proc[p].pc = "file"
  /\ d \in proc[p].todo
  /\ proc' = [proc EXCEPT ![p].pc = IF dedup[d] = 0 THEN "create" ELSE "link", ![p].data = d, ![p].todo = @ \ {d}]
  /\ UNCHANGED <<disk, accident>>

\* WriteFile truncates the file when another process has made it since.
Create(p) ==
  LET d == proc[p].data
      new == dedup[d] = 0
      i == IF new THEN Len(full) + 1 ELSE dedup[d]
  IN  /\ proc[p].pc = "create"
      /\ i <= MaxInodes
      /\ full' = IF new THEN Append(full, FALSE) ELSE [full EXCEPT ![i] = FALSE]
      /\ dedup' = [dedup EXCEPT ![d] = i]
      /\ proc' = [proc EXCEPT ![p].pc = "write", ![p].inode = i]
      /\ UNCHANGED <<builds, dirs, commits, names, accident>>

Write(p) ==
  /\ proc[p].pc = "write"
  /\ full' = [full EXCEPT ![proc[p].inode] = TRUE]
  /\ proc' = [proc EXCEPT ![p].pc = "link", ![p].inode = 0]
  /\ UNCHANGED <<dedup, builds, dirs, commits, names, accident>>

\* Link fails when the cache has lost the content or the build has the file.
Link(p) ==
  LET d == proc[p].data
      h == proc[p].hash
      ok == dedup[d] # 0 /\ builds[h][d] = 0
  IN  /\ proc[p].pc = "link"
      /\ dirs' = dirs \cup {h}
      /\ builds' = IF ok THEN [builds EXCEPT ![h][d] = dedup[d]] ELSE builds
      /\ IF ok THEN Goto(p, "file") ELSE Exit(p)
      /\ UNCHANGED <<full, dedup, commits, names, accident>>

\* Slip: the commit file is written as soon as there is a directory.
Commit_early(p) ==
  /\ proc[p].pc = "file"
  /\ proc[p].hash \in dirs
  /\ commits' = commits \cup {proc[p].hash}
  /\ IF proc[p].name = None THEN Exit(p) ELSE Goto(p, "name")
  /\ UNCHANGED <<full, dedup, builds, dirs, names, accident>>

\* The end of doSave.
Commit(p) ==
  /\ proc[p].pc = "file"
  /\ proc[p].todo = {}
  /\ dirs' = dirs \cup {proc[p].hash}
  /\ commits' = commits \cup {proc[p].hash}
  /\ IF proc[p].name = None THEN Exit(p) ELSE Goto(p, "name")
  /\ UNCHANGED <<full, dedup, builds, names, accident>>

doLink(p) ==
  LET n == proc[p].name
  IN  /\ proc[p].pc = "name"
      /\ names' = IF names[n] = None THEN [names EXCEPT ![n] = proc[p].hash] ELSE names
      /\ Exit(p)
      /\ UNCHANGED <<full, dedup, builds, dirs, commits, accident>>

\* doGC looks at one file after the other, and removes what nothing else links to.
Nlink(i) == Cardinality({h \in Hashes : \E d \in Data : builds[h][d] = i}) + 1

GCStat(p, d) ==
  /\ proc[p].pc = "idle"
  /\ dedup[d] # 0
  /\ Nlink(dedup[d]) = 1
  /\ proc' = [proc EXCEPT ![p].pc = "gc", ![p].data = d]
  /\ UNCHANGED <<disk, accident>>

GCRemove(p) ==
  /\ proc[p].pc = "gc"
  /\ dedup' = [dedup EXCEPT ![proc[p].data] = 0]
  /\ Exit(p)
  /\ UNCHANGED <<full, builds, dirs, commits, names, accident>>

\* doRemoveUnlabeled lists the builds first, and removes them later.
ListUnlabeled(p) ==
  LET unlabeled == {h \in dirs : \A n \in Names : names[n] # h}
  IN  /\ proc[p].pc = "idle"
      /\ unlabeled # {}
      /\ proc' = [proc EXCEPT ![p].pc = "rm", ![p].todo = unlabeled]
      /\ UNCHANGED <<disk, accident>>

RemoveAll(p, h) ==
  /\ proc[p].pc = "rm"
  /\ h \in proc[p].todo
  /\ builds' = [builds EXCEPT ![h] = [d \in Data |-> 0]]
  /\ dirs' = dirs \ {h}
  /\ commits' = commits \ {h}
  /\ accident' = (accident \/ \E q \in Procs : proc[q].hash = h \/ \E n \in Names : names[n] = h)
  /\ IF proc[p].todo = {h} THEN Exit(p) ELSE proc' = [proc EXCEPT ![p].todo = @ \ {h}]
  /\ UNCHANGED <<full, dedup, names>>

Die(p) ==
  /\ proc[p].pc # "idle"
  /\ accident' = (accident \/ proc[p].pc = "write")
  /\ Exit(p)
  /\ UNCHANGED disk

\* Followed up to the first accident.
Next ==
  /\ ~accident
  /\ \E p \in Procs :
       \/ \E h \in Hashes, n \in Names \cup {None} : Save(p, h, n) \/ Build(p, h, n)
       \/ \E d \in Data : Stat(p, d) \/ GCStat(p, d)
       \/ Create(p) \/ Write(p) \/ Link(p) \/ Commit(p) \/ doLink(p)
       \/ GCRemove(p) \/ ListUnlabeled(p) \/ (\E h \in Hashes : RemoveAll(p, h))
       \/ Die(p)

Spec == Init /\ [][Next]_vars

-----------------------------------------------------------------------------
\* Short of the two accidents the code cannot rule out, a death in the middle
\* of writing a cached file and the removal of a build that is being saved or
\* named, a build with its commit file has every file of its tree, whole or
\* about to be by a process that lives, and a name is the name of a build.
BuildsWhole ==
  ~accident =>
    /\ \A h \in commits : \A d \in Files(h) :
         /\ builds[h][d] # 0
         /\ full[builds[h][d]] \/ \E p \in Procs : proc[p].pc = "write" /\ proc[p].inode = builds[h][d]
    /\ \A n \in Names : names[n] # None => names[n] \in dirs
=============================================================================
