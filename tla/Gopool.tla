------------------------------- MODULE Gopool -------------------------------
(***************************************************************************)
(* The buildlet pool of gopool (src/gopool/main.go).  Several `gopool run`  *)
(* and `gopool destroy` processes share a directory that holds the pool     *)
(* configuration, the pool's lock file, a lock file per buildlet and one    *)
(* per process that is creating a buildlet.  A process may die at any       *)
(* point, which drops its file locks and nothing else.                      *)
(*                                                                          *)
(* What a process does while it holds the pool lock is cut into one action  *)
(* per change that survives a crash (a flush of the configuration, a file,  *)
(* a buildlet).                                                             *)
(*                                                                          *)
(* Assumed of the world outside: the kernel does not reuse the pid of one   *)
(* process for another, and the coordinator does not reuse the name of a    *)
(* buildlet.                                                                *)
(***************************************************************************)
EXTENDS Naturals, FiniteSets, Sequences, SequencesExt

CONSTANTS
  Procs,          \* gopool processes; a pid is not reused
  Names,          \* buildlet names the coordinator may hand out, each once
  None,           \* no process, no buildlet
  MaxBuildlets,   \* the pool's limit, cfg.Max
  MaxCreateTries, \* maxCreateTries in Get
  HasSetup,       \* was the pool created with -setup?
  CreateMayFail,  \* may the coordinator fail to create a buildlet?
  Commands,       \* what is run: a subset of {"run", "destroy"}
  MaxCrashes      \* bound on the number of crashes

ASSUME GopoolAssumption ==
  /\ IsFiniteSet(Procs) /\ IsFiniteSet(Names) /\ None \notin Procs \cup Names
  /\ MaxBuildlets \in Nat /\ MaxCreateTries \in Nat /\ MaxCrashes \in Nat
  /\ HasSetup \in BOOLEAN /\ CreateMayFail \in BOOLEAN
  /\ Commands \subseteq {"run", "destroy"}

VARIABLES
  disk,      \* contents of the config file: free, inUse and creating
  poolLock,  \* the process that holds the pool lock, or None
  mem,       \* that process's copy of the configuration, cfg
  files,     \* the pool directory: "config", "lock", and the buildlets and
             \* processes (creating-<pid>) that have a lock file
  opened,    \* processes in LockFile that opened "lock" before it was unlinked
  blk,       \* buildlet -> the process that has its file locked, or None
  clock,     \* process -> its lock on creating-<pid>: "none", "held", or
             \* "leaked" when no variable refers to it but its file is open
  vm,        \* buildlet -> "new", "up" or "closed"; a broken one is up
  pc, cmd, b, todo, tries, ret,   \* process -> its locals
  crashes,   \* crashes so far
  lost,      \* buildlets whose creator died, or lost the pool, before it
             \* could record them, or whose Close failed (history)
  wrecked    \* has a Destroy begun to unlink files? (history)

lockVars == <<poolLock, mem, opened, blk, clock>>
durable == <<disk, files, vm, wrecked>>
locals == <<cmd, b, todo, tries, ret>>
vars == <<durable, lockVars, pc, locals, crashes, lost>>

EmptyPool == [free |-> <<>>, inUse |-> <<>>, creating |-> <<>>]

\* cmdCreate has made the pool.
Init ==
  /\ disk = EmptyPool /\ files = {"config", "lock"} /\ wrecked = FALSE
  /\ poolLock = None /\ mem = EmptyPool /\ opened = {}
  /\ blk = [n \in Names |-> None] /\ clock = [p \in Procs |-> "none"]
  /\ vm = [n \in Names |-> "new"]
  /\ pc = [p \in Procs |-> "start"] /\ cmd = [p \in Procs |-> "run"]
  /\ b = [p \in Procs |-> None] /\ todo = [p \in Procs |-> <<>>]
  /\ tries = [p \in Procs |-> 0] /\ ret = [p \in Procs |-> "get"]
  /\ crashes = 0 /\ lost = {}

-----------------------------------------------------------------------------
dropInUse(cfg, n) == [cfg EXCEPT !.inUse = RemoveFirst(@, n)]

dropCreating(cfg, p) == [cfg EXCEPT !.creating = RemoveFirst(@, p)]
addFree(cfg, n) == [cfg EXCEPT !.free = Append(@, n)]
addInUse(cfg, n) == [cfg EXCEPT !.inUse = Append(@, n)]

Goto(p, from, to) == pc[p] = from /\ pc' = [pc EXCEPT ![p] = to]

\* The process ends, by exiting, log.Fatal or a crash: the kernel closes its
\* files.  A buildlet nobody has recorded is lost.
Die(p) ==
  /\ pc' = [pc EXCEPT ![p] = "done"]
  /\ IF poolLock = p THEN poolLock' = None /\ mem' = EmptyPool
                     ELSE UNCHANGED <<poolLock, mem>>
  /\ blk' = [n \in Names |-> IF blk[n] = p THEN None ELSE blk[n]]
  /\ clock' = [clock EXCEPT ![p] = "none"] /\ opened' = opened \ {p}
  /\ b' = [b EXCEPT ![p] = None] /\ todo' = [todo EXCEPT ![p] = <<>>]
  /\ tries' = [tries EXCEPT ![p] = 0] /\ ret' = [ret EXCEPT ![p] = "get"]
  /\ cmd' = [cmd EXCEPT ![p] = "run"]
  /\ lost' = IF pc[p] \in {"created", "record"} THEN lost \cup {b[p]} ELSE lost
  /\ UNCHANGED durable

\* Where the next thing a process does to the pool is p.lock().
LockPlaces == {"open", "opened", "creating", "created", "setup", "run"}

\* LockFile can open the lock file, or has done so when it was still there.
LockOpens(p) == "lock" \in files \/ p \in opened

MayLock(p) == LockOpens(p) /\ poolLock = None /\ "config" \in files

\* p.lock: take the pool lock and load the configuration.
LockPool(p) ==
  /\ MayLock(p)
  /\ poolLock' = p /\ mem' = disk /\ opened' = opened \ {p}

\* p.lock when the lock file, or under the lock the configuration, is gone:
\* log.Fatal.
LockFails(p) ==
  /\ pc[p] \in LockPlaces
  /\ ~LockOpens(p) \/ (poolLock = None /\ "config" \notin files)
  /\ Die(p) /\ UNCHANGED crashes

UnlockPool == poolLock' = None /\ mem' = EmptyPool /\ UNCHANGED opened
KeepPool == UNCHANGED <<poolLock, opened>>
Flush(cfg) == disk' = cfg

-----------------------------------------------------------------------------
(* OpenPool: reap *)

Start(p, c) ==
  /\ Goto(p, "start", "open")
  /\ cmd' = [cmd EXCEPT ![p] = c]
  /\ UNCHANGED <<durable, lockVars, b, todo, tries, ret, crashes, lost>>

ReapLock(p) ==
  /\ Goto(p, "open", "reapInUse") /\ LockPool(p)
  /\ todo' = [todo EXCEPT ![p] = disk.inUse]
  /\ UNCHANGED <<durable, blk, clock, cmd, b, tries, ret, crashes, lost>>

ReapFatal(p) ==
  /\ \/ pc[p] = "reapInUse"
     \/ pc[p] = "reapCreating"
  /\ todo[p] # <<>> /\ Head(todo[p]) \notin files
  /\ Die(p) /\ UNCHANGED crashes

\* Slip: does not look at the buildlet's lock.
Abandoned_any(n) == TRUE

\* tryLock succeeds.
Abandoned(n) == blk[n] = None

\* Look at one in-use buildlet; an abandoned one goes to discardLocked.
ReapInUse(p) ==
  /\ pc[p] = "reapInUse" /\ todo[p] # <<>> /\ Head(todo[p]) \in files
  /\ LET n == Head(todo[p]) IN
       IF Abandoned(n)
       THEN /\ pc' = [pc EXCEPT ![p] = "close"]
            /\ blk' = [blk EXCEPT ![n] = p]
            /\ b' = [b EXCEPT ![p] = n] /\ ret' = [ret EXCEPT ![p] = "reapInUse"]
       ELSE UNCHANGED <<pc, blk, b, ret>>
  /\ todo' = [todo EXCEPT ![p] = Tail(@)]
  /\ UNCHANGED <<durable, poolLock, mem, opened, clock, cmd, tries, crashes, lost>>

ReapInUseEnds(p) ==
  /\ todo[p] = <<>> /\ Goto(p, "reapInUse", "reapCreating")
  /\ todo' = [todo EXCEPT ![p] = mem.creating]
  /\ UNCHANGED <<durable, lockVars, cmd, b, tries, ret, crashes, lost>>

\* Look at one creating process; one that no longer has its file locked is
\* dropped from the list, then its file is removed.
ReapCreating(p) ==
  /\ pc[p] = "reapCreating" /\ todo[p] # <<>> /\ Head(todo[p]) \in files
  /\ IF clock[Head(todo[p])] = "none"
     THEN /\ mem' = dropCreating(mem, Head(todo[p])) /\ Flush(mem')
          /\ pc' = [pc EXCEPT ![p] = "reapRemove"] /\ UNCHANGED todo
     ELSE /\ todo' = [todo EXCEPT ![p] = Tail(@)]
          /\ UNCHANGED <<pc, mem, disk>>
  /\ KeepPool
  /\ UNCHANGED <<files, vm, wrecked, blk, clock, cmd, b, tries, ret, crashes, lost>>

ReapRemove(p) ==
  /\ Goto(p, "reapRemove", "reapCreating")
  /\ files' = files \ {Head(todo[p])}
  /\ todo' = [todo EXCEPT ![p] = Tail(@)]
  /\ UNCHANGED <<disk, vm, wrecked, lockVars, cmd, b, tries, ret, crashes, lost>>

ReapEnds(p) ==
  /\ todo[p] = <<>> /\ Goto(p, "reapCreating", "opened")
  /\ UnlockPool
  /\ UNCHANGED <<durable, blk, clock, locals, crashes, lost>>

-----------------------------------------------------------------------------
(* discardLocked, also the failed setup, which has not locked the buildlet *)

\* client.Close() of buildlet n, whose error nobody looks at: the buildlet may
\* stay up, and nothing will close it.
CloseClient(n) ==
  \/ vm' = [vm EXCEPT ![n] = "closed"] /\ lost' = lost \ {n}
  \/ vm[n] # "closed" /\ lost' = lost \cup {n} /\ UNCHANGED vm

Close(p) ==
  /\ Goto(p, "close", "drop") /\ CloseClient(b[p])
  /\ UNCHANGED <<disk, files, wrecked, lockVars, locals, crashes>>

Drop(p) ==
  /\ Goto(p, "drop", ret[p])
  /\ mem' = dropInUse(mem, b[p]) /\ Flush(mem')
  /\ blk' = [blk EXCEPT ![b[p]] = IF @ = p THEN None ELSE @]
  /\ b' = [b EXCEPT ![p] = None] /\ ret' = [ret EXCEPT ![p] = "get"]
  /\ KeepPool
  /\ UNCHANGED <<files, vm, wrecked, clock, cmd, todo, tries, crashes, lost>>

-----------------------------------------------------------------------------
(* Get *)

GetLock(p) ==
  /\ cmd[p] = "run" /\ Goto(p, "opened", "get") /\ LockPool(p)
  /\ UNCHANGED <<durable, blk, clock, locals, crashes, lost>>

\* Slip: does not count the buildlets that are being created.
LimitReached_inUse(cfg) == Len(cfg.inUse) >= MaxBuildlets

LimitReached(cfg) == Len(cfg.inUse) + Len(cfg.creating) >= MaxBuildlets

TriesLeft(p) == tries[p] < MaxCreateTries

\* Get returns an error and run dies of it.
GetFails(p) ==
  /\ pc[p] = "get" /\ mem.free = <<>>
  /\ ~TriesLeft(p) \/ LimitReached(mem)
  /\ Die(p) /\ UNCHANGED crashes

\* touch(cpath)
Intend(p) ==
  /\ Goto(p, "get", "lockCreating") /\ mem.free = <<>>
  /\ TriesLeft(p) /\ ~LimitReached(mem)
  /\ tries' = [tries EXCEPT ![p] = @ + 1]
  /\ files' = files \cup {p}
  /\ UNCHANGED <<disk, vm, wrecked, lockVars, cmd, b, todo, ret, crashes, lost>>

\* LockFile(cpath) waits for any open lock of the file, also for one of this
\* very process.  Then record the intent and let go of the pool.
LockCreating(p) ==
  /\ Goto(p, "lockCreating", "creating") /\ clock[p] = "none"
  /\ clock' = [clock EXCEPT ![p] = "held"]
  /\ Flush([mem EXCEPT !.creating = Append(@, p)])
  /\ UnlockPool
  /\ UNCHANGED <<files, vm, wrecked, blk, locals, crashes, lost>>

\* The garbage collector closes the file of a lock that nothing refers to.
CollectLock(p) ==
  /\ clock[p] = "leaked"
  /\ clock' = [clock EXCEPT ![p] = "none"]
  /\ UNCHANGED <<durable, poolLock, mem, opened, blk, pc, locals, crashes, lost>>

\* The coordinator makes a buildlet under a name it has not used before.  A
\* process that waits for the pool lock is past this call.
Create(p, n) ==
  /\ Goto(p, "creating", "created") /\ vm[n] = "new" /\ p \notin opened
  /\ vm' = [vm EXCEPT ![n] = "up"]
  /\ b' = [b EXCEPT ![p] = n]
  /\ UNCHANGED <<disk, files, wrecked, lockVars, cmd, todo, tries, ret, crashes, lost>>

\* CreateBuildlet fails; `continue` forgets clock without unlocking it, which
\* matters as long as its file is still in the directory.
CreateFails(p) ==
  /\ CreateMayFail /\ Goto(p, "creating", "get")
  /\ LockPool(p)
  /\ clock' = [clock EXCEPT ![p] = IF p \in files THEN "leaked" ELSE "none"]
  /\ UNCHANGED <<durable, blk, locals, crashes, lost>>

CreatedLock(p) ==
  /\ Goto(p, "created", "record") /\ LockPool(p)
  /\ UNCHANGED <<durable, blk, clock, locals, crashes, lost>>

Record(p) ==
  /\ Goto(p, "record", "forget")
  /\ mem' = dropCreating(addInUse(mem, b[p]), p) /\ Flush(mem')
  /\ KeepPool
  /\ UNCHANGED <<files, vm, wrecked, blk, clock, locals, crashes, lost>>

\* Unlock and remove creating-<pid>.
ForgetCreating(p) ==
  /\ Goto(p, "forget", "touch")
  /\ clock' = [clock EXCEPT ![p] = "none"]
  /\ files' = files \ {p}
  /\ KeepPool
  /\ UNCHANGED <<disk, vm, wrecked, mem, blk, locals, crashes, lost>>

\* Slip: the pool stays locked during the setup, and Get locks it again after.
Touch_locked(p) ==
  /\ Goto(p, "touch", IF HasSetup THEN "setup" ELSE "avail")
  /\ files' = files \cup {b[p]}
  /\ UNCHANGED <<disk, vm, wrecked, lockVars, locals, crashes, lost>>

\* Make the buildlet's lock file, start the setup command.
Touch(p) ==
  /\ Goto(p, "touch", IF HasSetup THEN "setup" ELSE "avail")
  /\ files' = files \cup {b[p]}
  /\ IF HasSetup THEN UnlockPool ELSE KeepPool /\ UNCHANGED mem
  /\ UNCHANGED <<disk, vm, wrecked, blk, clock, locals, crashes, lost>>

SetupSucceeds(p) ==
  /\ Goto(p, "setup", "avail") /\ LockPool(p)
  /\ UNCHANGED <<durable, blk, clock, locals, crashes, lost>>

SetupFails(p) ==
  /\ Goto(p, "setup", "close") /\ LockPool(p)
  /\ ret' = [ret EXCEPT ![p] = "get"]
  /\ UNCHANGED <<durable, blk, clock, cmd, b, todo, tries, crashes, lost>>

\* "It's now available": put the new buildlet on the free list.
Available(p) ==
  /\ Goto(p, "avail", "pop")
  /\ mem' = dropInUse(addFree(mem, b[p]), b[p]) /\ Flush(mem')
  /\ b' = [b EXCEPT ![p] = None]
  /\ KeepPool
  /\ UNCHANGED <<files, vm, wrecked, blk, clock, cmd, todo, tries, ret, crashes, lost>>

\* Take the last free buildlet, in memory only.
Pop(p) ==
  /\ mem.free # <<>> /\ (Goto(p, "get", "lockBuildlet") \/ Goto(p, "pop", "lockBuildlet"))
  /\ b' = [b EXCEPT ![p] = Last(mem.free)]
  /\ mem' = [mem EXCEPT !.free = Front(@)]
  /\ KeepPool
  /\ UNCHANGED <<durable, blk, clock, cmd, todo, tries, ret, crashes, lost>>

\* b.lock gets the lock.
CanLock(n) == n \in files /\ blk[n] = None

\* b.lock finds no file to open: log.Fatal.
LockBuildletFails(p) ==
  /\ pc[p] = "lockBuildlet" /\ b[p] \notin files
  /\ Die(p) /\ UNCHANGED crashes

\* b.lock, then Status and ListDir both succeed.
Check(p) ==
  /\ Goto(p, "lockBuildlet", "run") /\ CanLock(b[p]) /\ vm[b[p]] = "up"
  /\ blk' = [blk EXCEPT ![b[p]] = p]
  /\ Flush(addInUse(mem, b[p]))
  /\ UnlockPool
  /\ UNCHANGED <<files, vm, wrecked, clock, locals, crashes, lost>>

\* b.lock, then one of the two fails: the buildlet is broken or closed, or the
\* connection was lost.
CheckFails(p) ==
  /\ Goto(p, "lockBuildlet", "close") /\ CanLock(b[p])
  /\ blk' = [blk EXCEPT ![b[p]] = p]
  /\ ret' = [ret EXCEPT ![p] = "get"]
  /\ UNCHANGED <<durable, poolLock, mem, opened, clock, cmd, b, todo, tries, crashes, lost>>

-----------------------------------------------------------------------------
(* The command has run: Put or Discard.  Destroy. *)

Put(p) ==
  /\ Goto(p, "run", "exit") /\ MayLock(p) /\ opened' = opened \ {p}
  /\ Flush(dropInUse(addFree(disk, b[p]), b[p]))
  /\ blk' = [blk EXCEPT ![b[p]] = None]
  /\ b' = [b EXCEPT ![p] = None]
  /\ UNCHANGED <<files, vm, wrecked, poolLock, mem, clock, cmd, todo, tries, ret, crashes, lost>>

Discard(p) ==
  /\ Goto(p, "run", "close") /\ LockPool(p)
  /\ ret' = [ret EXCEPT ![p] = "exit"]
  /\ UNCHANGED <<durable, blk, clock, cmd, b, todo, tries, crashes, lost>>

Exit(p) == pc[p] = "exit" /\ Die(p) /\ UNCHANGED crashes

DestroyLock(p) ==
  /\ cmd[p] = "destroy" /\ Goto(p, "opened", "destroy") /\ LockPool(p)
  /\ todo' = [todo EXCEPT ![p] = disk.free \o disk.inUse]
  /\ UNCHANGED <<durable, blk, clock, cmd, b, tries, ret, crashes, lost>>

DestroyBuildlet(p) ==
  /\ pc[p] = "destroy" /\ todo[p] # <<>>
  /\ CloseClient(Head(todo[p]))
  /\ todo' = [todo EXCEPT ![p] = Tail(@)]
  /\ UNCHANGED <<disk, files, wrecked, lockVars, pc, cmd, b, tries, ret, crashes>>

\* os.RemoveAll unlinks one file after the other, in the order of the directory.
\* Others keep the files they have open: the lock file on which they wait, and
\* a leaked lock, which then stands in nobody's way.
RemoveFile(p, f) ==
  /\ pc[p] = "destroy" /\ todo[p] = <<>> /\ f \in files
  /\ files' = files \ {f} /\ wrecked' = TRUE
  /\ disk' = IF f = "config" THEN EmptyPool ELSE disk
  /\ clock' = [q \in Procs |-> IF q = f /\ clock[q] = "leaked" THEN "none" ELSE clock[q]]
  /\ IF f = "lock" THEN opened' \in SUBSET {q \in Procs : pc[q] \in LockPlaces}
                   ELSE UNCHANGED opened
  /\ UNCHANGED <<vm, poolLock, mem, blk, pc, locals, crashes, lost>>

\* A file could not be unlinked: log.Fatalf.
RemoveFails(p) ==
  /\ pc[p] = "destroy" /\ todo[p] = <<>> /\ files # {}
  /\ Die(p) /\ UNCHANGED crashes

\* The directory is gone.  What others are creating at this moment is lost.
RemovePool(p) ==
  /\ Goto(p, "destroy", "exit") /\ todo[p] = <<>> /\ files = {}
  /\ UnlockPool
  /\ UNCHANGED <<durable, blk, clock, locals, crashes, lost>>

-----------------------------------------------------------------------------
(* The environment *)

\* The process dies, or a failing read or write makes it call log.Fatal.
Crash(p) ==
  /\ crashes < MaxCrashes /\ pc[p] \notin {"start", "done"}
  /\ Die(p) /\ crashes' = crashes + 1

Reap(p) ==
  \/ ReapLock(p) \/ ReapFatal(p) \/ ReapInUse(p) \/ ReapInUseEnds(p)
  \/ ReapCreating(p) \/ ReapRemove(p) \/ ReapEnds(p)
discardLocked(p) == Close(p) \/ Drop(p)
Get(p) ==
  \/ GetLock(p) \/ GetFails(p) \/ Intend(p) \/ LockCreating(p)
  \/ (\E n \in Names : Create(p, n)) \/ CreateFails(p) \/ CreatedLock(p)
  \/ Record(p) \/ ForgetCreating(p) \/ Touch(p) \/ SetupSucceeds(p) \/ SetupFails(p)
  \/ Available(p) \/ Pop(p) \/ LockBuildletFails(p) \/ Check(p) \/ CheckFails(p)
Destroy(p) ==
  \/ DestroyLock(p) \/ DestroyBuildlet(p)
  \/ (\E f \in files : RemoveFile(p, f)) \/ RemoveFails(p) \/ RemovePool(p)

Step(p) ==
  \/ Reap(p) \/ discardLocked(p) \/ Get(p) \/ Put(p) \/ Discard(p)
  \/ Destroy(p) \/ LockFails(p) \/ Exit(p)

Next ==
  \E p \in Procs : Step(p) \/ CollectLock(p) \/ Crash(p)
                   \/ \E c \in Commands : Start(p, c)

Spec == Init /\ [][Next]_vars

\* Processes keep running, and the setup and the user's command end.  Nothing
\* is assumed of the garbage collector, which need not run in a process that
\* waits in flock.
FairSpec == Spec /\ \A p \in Procs : WF_vars(Step(p))

-----------------------------------------------------------------------------
HoldingPool ==
  {"reapInUse", "reapCreating", "reapRemove", "close", "drop", "get", "lockCreating",
   "record", "forget", "touch", "avail", "pop", "lockBuildlet", "destroy"}
Places ==
  HoldingPool \cup LockPlaces \cup {"start", "exit", "done"}
Configs == [free : Seq(Names), inUse : Seq(Names), creating : Seq(Procs)]

TypeOK ==
  /\ disk \in Configs /\ mem \in Configs /\ wrecked \in BOOLEAN
  /\ files \subseteq {"config", "lock"} \cup Procs \cup Names
  /\ poolLock \in Procs \cup {None} /\ opened \subseteq Procs
  /\ blk \in [Names -> Procs \cup {None}]
  /\ clock \in [Procs -> {"none", "held", "leaked"}]
  /\ vm \in [Names -> {"new", "up", "closed"}]
  /\ pc \in [Procs -> Places] /\ cmd \in [Procs -> {"run", "destroy"}]
  /\ b \in [Procs -> Names \cup {None}]
  /\ todo \in [Procs -> Seq(Names \cup Procs)]
  /\ tries \in [Procs -> 0..MaxCreateTries]
  /\ ret \in [Procs -> {"get", "reapInUse", "exit"}]
  /\ crashes \in 0..MaxCrashes /\ lost \subseteq Names

\* A buildlet that a command is using belongs to that command alone: its file
\* is locked, and the configuration, while there is one, has it in use and not
\* free.
UseConsistent ==
  \A p \in Procs : pc[p] = "run" =>
    /\ blk[b[p]] = p
    /\ "config" \in files =>
         b[p] \in Range(disk.inUse) /\ b[p] \notin Range(disk.free)

\* No other process closes a buildlet under a running command, except `gopool
\* destroy`: reap takes only what it finds unlocked.
InUseProtected ==
  [][\A p \in Procs :
       pc[p] = "run" /\ pc'[p] = "run" /\ vm[b[p]] # "closed" /\ vm'[b[p]] = "closed"
         => \E q \in Procs : pc[q] = "destroy"]_vars

\* Get takes the lock of a free buildlet while it holds the pool lock; it never
\* has to wait for it, and unless a Destroy has died while it removed the pool
\* directory, it finds the lock file.
BuildletLockFree ==
  \A p \in Procs : pc[p] = "lockBuildlet" =>
    blk[b[p]] = None /\ (b[p] \in files \/ wrecked)

Held == {n \in Names : vm[n] = "up"}

\* "create at most n buildlets at once": the pool never holds more than Max
\* buildlets, whoever crashes, breaks or is reaped while others create.  Not
\* counted are the buildlets that the pool has lost: those whose creator died,
\* or found the pool gone, before it could record them, and those that were
\* dropped although client.Close() failed.
AtMostMax == Cardinality(Held \ lost) <= MaxBuildlets

\* No buildlet is forgotten or listed twice: as long as the pool has its
\* configuration, every buildlet that is held and not lost (in the sense of
\* AtMostMax) is free, in use, or about to be recorded by its creator; and no
\* buildlet is in two places.
RecordedOnce ==
  LET listed == disk.free \o disk.inUse IN
  /\ IsInjective(listed)
  /\ "config" \in files =>
       Held \subseteq Range(listed) \cup lost \cup
                        {b[p] : p \in {q \in Procs : pc[q] \in {"created", "record"}}}

\* The limit, the lists, the files and the locks: AtMostMax, RecordedOnce,
\* UseConsistent and BuildletLockFree.
PoolExact == AtMostMax /\ RecordedOnce /\ UseConsistent /\ BuildletLockFree

\* The process waits, under the pool lock, for a lock that it has itself leaked
\* in an earlier turn of Get's loop, whose CreateBuildlet failed.
SelfBlocked(p) == pc[p] = "lockCreating" /\ clock[p] = "leaked"

\* Locks are taken under locks, yet nothing but SelfBlocked stops the pool:
\* every gopool process ends, unless from some time on one of them waits for
\* itself (the garbage collector may end that wait by closing the file, but
\* nothing makes it run).
ProcessesEnd ==
  \A p \in Procs :
    (pc[p] # "start") ~> (pc[p] = "done" \/ [](\E q \in Procs : SelfBlocked(q)))

-----------------------------------------------------------------------------
(* What comments in the code say *)

\* reap: "Found an "in use" buildlet that isn't locked, which means it got
\* abandoned."  No live process is still at work on a buildlet that is reaped.
ReapedIsAbandoned ==
  \A p \in Procs : pc[p] = "close" /\ ret[p] = "reapInUse" =>
    \A q \in Procs \ {p} : b[q] # b[p]

\* Get: "Also drop ourselves from creating."  A process that has recorded its
\* buildlet is no longer listed as creating.
DroppedFromCreating ==
  \A p \in Procs : pc[p] = "forget" => p \notin Range(disk.creating)

\* Get: "Add it to the in-use list ASAP so it gets reaped in case something
\* goes wrong during setup."  reap can open the lock file of every in-use
\* buildlet.
InUseIsReapable ==
  poolLock = None => Range(disk.inUse) \subseteq files
=============================================================================
