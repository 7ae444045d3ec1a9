----------------------------- MODULE UpdateLocks -----------------------------
(***************************************************************************)
(* Several programs on one database directory: vpdupdate (it is started by *)
(* the systemd unit, by the package's %post script and by hand), vpdupdate *)
(* -a, and the readers lsvpd, lscfg, lsmcode and lsvio.  Two lock files    *)
(* order them: vpd.db-updatelock, shared for those who read and exclusive  *)
(* for those who write, and spyre.db-updatelock, exclusive, which vpdupdate*)
(* creates when it starts and unlinks when it ends (updater.cpp:117-120).  *)
(*                                                                         *)
(* VpdDbEnv::UpdateLock belongs to libvpd: it opens (or creates) the lock  *)
(* file and then waits for the lock on the inode it opened.  vpdupdate     *)
(* deletes none of its locks but -a's.  A VpdDbEnv is built on a reference *)
(* to a lock and does not end it.  A process does not wait for itself, for *)
(* extractSpyreData leaves its shared lock behind and initializeDB then    *)
(* asks for the exclusive one.                                             *)
(***************************************************************************)
EXTENDS Naturals, FiniteSets

CONSTANTS
  Updaters, Archivers, Readers,
  Faults,       \* what may happen: the classes listed next
  MaxRuns       \* bound: runs of each program

Procs == Updaters \cup Archivers \cup Readers

\* SIGTERM and its like, SIGKILL, a link archiveDB cannot make, a store that fails.
FaultKinds == {"signal", "kill", "link", "store"}

ASSUME LocksAssumption ==
  /\ Updaters \cap Archivers = {} /\ Readers \cap (Updaters \cup Archivers) = {}
  /\ Faults \subseteq FaultKinds
  /\ MaxRuns \in Nat

VARIABLES
  vpd,      \* vpd.db: the update that wrote in it last, whether its whole tree
            \* is there, and whether rows of earlier updates may be, too
  updates,  \* number of updates that came to archive the old database so far
  spyreDb,  \* the process whose spyre.db the directory holds, as a set
  lockFile, \* inode number of spyre.db-updatelock, 0 when unlinked
  inodes,   \* inodes created for it so far
  fd,       \* the inode each process opened
  spyre,    \* processes that hold the lock on the inode they opened
  main,     \* how each process holds vpd.db-updatelock
  pc, runs,
  dblock,   \* processes whose handler removes vpd.db
  got,      \* what each reader has read so far
  cut,      \* history: the update in vpd.db was killed outright or a store failed
  kept      \* history: the last archiving failed

files == <<vpd, updates, spyreDb>>
locks == <<lockFile, inodes, fd, spyre, main>>
history == <<cut, kept>>
vars == <<files, locks, pc, runs, dblock, got, history>>

NoDb == [ver |-> 0, whole |-> FALSE, mixed |-> FALSE]

\* Waiting and critical places; handlers are installed from "create" on.
Early == {"openSpyre", "lockSpyre", "initSpyre", "wantShared", "wantEx", "archive"}
Handled == {"create", "store", "storing", "fini", "disarm", "cleanSpyre", "unlinkLock", "exit"}
Handling == {"sigUnlink", "sigDelete"}

Init ==
  /\ vpd = NoDb /\ updates = 0 /\ spyreDb = {}
  /\ lockFile = 0 /\ inodes = 0
  /\ fd = [u \in Updaters |-> 0] /\ spyre = {}
  /\ main = [p \in Procs |-> "none"]
  /\ pc = [p \in Procs |-> "idle"] /\ runs = [p \in Procs |-> 0]
  /\ dblock = {} /\ cut = FALSE /\ kept = FALSE
  /\ got = [r \in Readers |-> {}]

Move(p, from, to) ==
  /\ pc[p] = from
  /\ pc' = [pc EXCEPT ![p] = to]

-----------------------------------------------------------------------------
(* The lock on vpd.db-updatelock.                                          *)

TakeShared(p) ==
  /\ \A q \in Procs \ {p} : main[q] # "ex"
  /\ main' = [main EXCEPT ![p] = "sh"]

TakeExclusive(p) ==
  /\ \A q \in Procs \ {p} : main[q] = "none"
  /\ main' = [main EXCEPT ![p] = "ex"]

Release(p) == main' = [main EXCEPT ![p] = "none"]

-----------------------------------------------------------------------------
(* vpdupdate.                                                              *)

Start(u) ==
  /\ runs[u] < MaxRuns
  /\ Move(u, "idle", "openSpyre")
  /\ runs' = [runs EXCEPT ![u] = @ + 1]
  /\ UNCHANGED <<files, locks, dblock, got, history>>

\* The UpdateLock of spyre.db: open or create the file ...
OpenSpyreLock(u) ==
  /\ Move(u, "openSpyre", "lockSpyre")
  /\ IF lockFile = 0
     THEN inodes' = inodes + 1 /\ lockFile' = inodes'
     ELSE UNCHANGED <<inodes, lockFile>>
  /\ fd' = [fd EXCEPT ![u] = lockFile']
  /\ UNCHANGED <<files, spyre, main, runs, dblock, got, history>>

\* ... and wait for the inode that was opened, whatever the name is now.
TakeSpyreLock(u) ==
  /\ Move(u, "lockSpyre", "initSpyre")
  /\ \A v \in spyre : fd[v] # fd[u]
  /\ spyre' = spyre \cup {u}
  /\ UNCHANGED <<files, lockFile, inodes, fd, main, runs, dblock, got, history>>

\* Replace spyre.db, then look whether there is a vpd.db to extract from.
InitSpyre(u) ==
  /\ Move(u, "initSpyre", IF vpd = NoDb THEN "wantEx" ELSE "wantShared")
  /\ spyreDb' = {u}
  /\ UNCHANGED <<vpd, updates, locks, runs, dblock, got, history>>

LockForExtract(u) ==
  /\ Move(u, "wantShared", "wantEx")
  /\ TakeShared(u)
  /\ UNCHANGED <<files, lockFile, inodes, fd, spyre, runs, dblock, got, history>>

\* Mutant: the shared lock of the extraction is kept beside the exclusive one.
LockForUpdateBoth(u) ==
  /\ Move(u, "wantEx", "archive")
  /\ \A q \in Procs \ {u} : main[q] = "none"
  /\ main' = [main EXCEPT ![u] = IF @ = "sh" THEN "both" ELSE "ex"]
  /\ UNCHANGED <<files, lockFile, inodes, fd, spyre, runs, dblock, got, history>>

\* Mutant: the process waits for the shared lock it left behind itself.
LockForUpdateSelf(u) ==
  /\ Move(u, "wantEx", "archive")
  /\ main[u] = "none" /\ TakeExclusive(u)
  /\ UNCHANGED <<files, lockFile, inodes, fd, spyre, runs, dblock, got, history>>

LockForUpdate(u) ==
  /\ Move(u, "wantEx", "archive")
  /\ TakeExclusive(u)
  /\ UNCHANGED <<files, lockFile, inodes, fd, spyre, runs, dblock, got, history>>

\* archiveDB: a link that cannot be made leaves vpd.db where it is.
Archive ==
  \/ vpd' = NoDb /\ cut' = FALSE /\ kept' = FALSE
  \/ "link" \in Faults /\ vpd # NoDb /\ kept' = TRUE /\ UNCHANGED <<vpd, cut>>

\* archiveDB, then dblock and the handlers, whether or not it is archived.
ArchiveOld(u) ==
  /\ Move(u, "archive", "create")
  /\ Archive
  /\ updates' = updates + 1
  /\ dblock' = dblock \cup {u}
  /\ UNCHANGED <<spyreDb, locks, runs, got>>

\* new VpdDbEnv creates vpd.db, or opens the one that was not archived.
CreateNew(u) ==
  /\ Move(u, "create", "store")
  /\ vpd' = IF vpd = NoDb THEN [ver |-> updates, whole |-> FALSE, mixed |-> FALSE] ELSE vpd
  /\ UNCHANGED <<updates, spyreDb, locks, runs, dblock, got, history>>

\* storeComponents, the first component and the others: over the rows of an
\* old database, of which those of devices that are gone stay.
StoreFirst(u) ==
  /\ Move(u, "store", "storing")
  /\ vpd' = [ver |-> updates, whole |-> FALSE, mixed |-> vpd.mixed \/ vpd.ver # updates]
  /\ cut' = FALSE
  /\ UNCHANGED <<updates, spyreDb, locks, runs, dblock, got, kept>>

StoreRest(u) ==
  /\ Move(u, "storing", "fini")
  /\ vpd' = [vpd EXCEPT !.whole = TRUE]
  /\ UNCHANGED <<updates, spyreDb, locks, runs, dblock, got, history>>

\* A store fails: the run goes on to its end, and vpd.db stays as it is.
StoreFails(u) ==
  /\ "store" \in Faults
  /\ Move(u, "store", "fini") \/ Move(u, "storing", "fini")
  /\ cut' = TRUE
  /\ UNCHANGED <<files, locks, runs, dblock, got, kept>>

\* Mutant: deleting db gives up its lock, while the handler is still armed.
FiniDeleteReleases(u) ==
  /\ Move(u, "fini", "disarm")
  /\ Release(u)
  /\ UNCHANGED <<files, lockFile, inodes, fd, spyre, runs, dblock, got, history>>

FiniDelete(u) ==
  /\ Move(u, "fini", "disarm")
  /\ UNCHANGED <<files, locks, runs, dblock, got, history>>

FiniDisarm(u) ==
  /\ Move(u, "disarm", "cleanSpyre")
  /\ dblock' = dblock \ {u}
  /\ UNCHANGED <<files, locks, runs, got, history>>

\* cleanupSpyreFiles: unlink spyre.db, delete its VpdDbEnv, which leaves the
\* lock, and unlink the lock's file.
CleanSpyre(u) ==
  /\ Move(u, "cleanSpyre", "unlinkLock")
  /\ spyreDb' = {}
  /\ UNCHANGED <<vpd, updates, locks, runs, dblock, got, history>>

UnlinkLock(u) ==
  /\ Move(u, "unlinkLock", "exit")
  /\ lockFile' = 0
  /\ UNCHANGED <<files, inodes, fd, spyre, main, runs, dblock, got, history>>

\* The process ends, whatever the reason, and with it its locks.
Gone(p) ==
  /\ pc' = [pc EXCEPT ![p] = "idle"]
  /\ Release(p)
  /\ spyre' = spyre \ {p}
  /\ dblock' = dblock \ {p}
  /\ fd' = [u \in Updaters |-> IF u = p THEN 0 ELSE fd[u]]
  /\ got' = [r \in Readers |-> IF r = p THEN {} ELSE got[r]]
  /\ UNCHANGED <<files, lockFile, inodes, runs>>

Exit(p) == pc[p] = "exit" /\ Gone(p) /\ UNCHANGED history

Kill(u) ==
  /\ "kill" \in Faults /\ pc[u] # "idle" /\ Gone(u)
  /\ cut' = (cut \/ pc[u] \in {"store", "storing", "sigUnlink"})
  /\ UNCHANGED kept

\* A signal that arrives in the handler only starts it anew (see VpdUpdate).
Signal(u) ==
  /\ "signal" \in Faults
  /\ \/ pc[u] \in Early /\ Gone(u) /\ UNCHANGED history
     \/ /\ pc[u] \in Handled
        /\ pc' = [pc EXCEPT ![u] = "sigUnlink"]
        /\ UNCHANGED <<files, locks, runs, dblock, got, history>>

SigUnlink(u) ==
  /\ Move(u, "sigUnlink", "sigDelete")
  /\ vpd' = IF u \in dblock THEN NoDb ELSE vpd
  /\ UNCHANGED <<updates, spyreDb, locks, runs, dblock, got, history>>

\* __lsvpdFini; the locks go with the VpdDbEnv or with the process.
SigEnd(u) == pc[u] = "sigDelete" /\ Gone(u) /\ UNCHANGED history

-----------------------------------------------------------------------------
(* vpdupdate -a and the readers.                                           *)

StartArchive(a) ==
  /\ runs[a] < MaxRuns
  /\ Move(a, "idle", "wantEx")
  /\ runs' = [runs EXCEPT ![a] = @ + 1]
  /\ UNCHANGED <<files, locks, dblock, got, history>>

\* Mutant: -a takes the lock as a reader does.
LockForArchiveShared(a) ==
  /\ Move(a, "wantEx", "archive")
  /\ TakeShared(a)
  /\ UNCHANGED <<files, lockFile, inodes, fd, spyre, runs, dblock, got, history>>

LockForArchive(a) ==
  /\ Move(a, "wantEx", "archive")
  /\ TakeExclusive(a)
  /\ UNCHANGED <<files, lockFile, inodes, fd, spyre, runs, dblock, got, history>>

ArchiveDB(a) ==
  /\ Move(a, "archive", "exit")
  /\ Archive
  /\ UNCHANGED <<updates, spyreDb, locks, runs, dblock, got>>

StartRead(r) ==
  /\ runs[r] < MaxRuns
  /\ Move(r, "idle", "wantShared")
  /\ runs' = [runs EXCEPT ![r] = @ + 1]
  /\ UNCHANGED <<files, locks, dblock, got, history>>

LockForRead(r) ==
  /\ Move(r, "wantShared", "read")
  /\ TakeShared(r)
  /\ UNCHANGED <<files, lockFile, inodes, fd, spyre, runs, dblock, got, history>>

\* VpdRetriever::getComponentTree fetches one component after the other: two
\* reads stand for them.
Read(r) ==
  /\ Move(r, "read", "reread") \/ Move(r, "reread", "exit")
  /\ got' = [got EXCEPT ![r] = @ \cup {vpd}]
  /\ UNCHANGED <<files, locks, runs, dblock, history>>

-----------------------------------------------------------------------------
Update(u) ==
  \/ OpenSpyreLock(u) \/ TakeSpyreLock(u) \/ InitSpyre(u)
  \/ LockForExtract(u) \/ LockForUpdate(u)
  \/ ArchiveOld(u) \/ CreateNew(u) \/ StoreFirst(u) \/ StoreRest(u) \/ StoreFails(u)
  \/ FiniDelete(u) \/ FiniDisarm(u) \/ CleanSpyre(u)
  \/ UnlinkLock(u) \/ Exit(u) \/ SigUnlink(u) \/ SigEnd(u)

ArchiveRun(a) == LockForArchive(a) \/ ArchiveDB(a) \/ Exit(a)
ReadRun(r) == LockForRead(r) \/ Read(r) \/ Exit(r)

Next ==
  \/ \E u \in Updaters : Start(u) \/ Update(u) \/ Kill(u) \/ Signal(u)
  \/ \E a \in Archivers : StartArchive(a) \/ ArchiveRun(a)
  \/ \E r \in Readers : StartRead(r) \/ ReadRun(r)

Spec == Init /\ [][Next]_vars

\* Every program that was started goes on; nobody has to be started, and the
\* kernel need not be fair between those who wait for a lock.
FairSpec ==
  /\ Spec
  /\ \A u \in Updaters : WF_vars(Update(u))
  /\ \A a \in Archivers : WF_vars(ArchiveRun(a))
  /\ \A r \in Readers : WF_vars(ReadRun(r))

-----------------------------------------------------------------------------
(* Properties.                                                             *)

Database == [ver : Nat, whole : BOOLEAN, mixed : BOOLEAN]

TypeOK ==
  /\ vpd \in Database /\ updates \in Nat
  /\ spyreDb \in SUBSET Updaters
  /\ lockFile \in Nat /\ inodes \in Nat /\ fd \in [Updaters -> Nat]
  /\ spyre \in SUBSET Updaters
  /\ main \in [Procs -> {"none", "sh", "ex"}]
  /\ pc \in [Procs -> Early \cup Handled \cup Handling \cup {"idle", "read", "reread"}]
  /\ runs \in [Procs -> 0 .. MaxRuns]
  /\ dblock \in SUBSET Updaters
  /\ got \in [Readers -> SUBSET Database]
  /\ cut \in BOOLEAN /\ kept \in BOOLEAN

\* A reader sees one state of the database from its first component to its
\* last.  It is absent or the whole of one update, unless one of that
\* update's stores failed or it was killed outright, and it holds nothing of
\* earlier updates unless that update's archiving failed.  (updater.cpp: the
\* locks at 219-224, 463 and 522; archiveDB's return at 349-353; the failing
\* store at 546-552, after which the run goes on and the lock is given up.)
Complete(x) == x = NoDb \/ x.whole \/ cut
Unmixed(x) == x.mixed => kept

ReaderSeesOneInventory ==
  \A r \in Readers :
    /\ \A x, y \in got[r] : x = y
    /\ \A x \in got[r] : Complete(x) /\ Unmixed(x)

\* vpd.db changes only in the hands of a process that holds its lock alone:
\* no step of an updater, of its handler or of an archiver slips out.
OnlyTheHolderWrites ==
  [][vpd' # vpd => \E p \in Procs : main[p] = "ex" /\ pc'[p] # pc[p]]_vars

\* Two updates that slipped past each other at the unlinked lock file read
\* the old database under a shared lock, and each keeps it (updater.cpp:463)
\* while it waits for the exclusive one (522).
UpgradeDeadlock ==
  \E u, v \in Updaters :
    /\ u # v /\ pc[u] = "wantEx" /\ pc[v] = "wantEx"
    /\ main[u] = "sh" /\ main[v] = "sh"

\* Everyone who was started ends unless two updates wait for each other so:
\* one's own shared lock, the two locks' order and whatever failed, was
\* killed or ran before block nobody for ever.
AllRunsEnd == \A p \in Procs : pc[p] # "idle" ~> pc[p] = "idle" \/ UpgradeDeadlock

-----------------------------------------------------------------------------
(* What the documentation says and the code does not do.                   *)

\* ChangeLog 1.7.17, "Resolve critical race conditions that could cause SQLite
\* logic errors under concurrent access": from its creation until the last
\* component is gathered and stored, the spyre.db of the directory is the one
\* this vpdupdate created and has open, and nobody else's.
UsesSpyreDb(u) == pc[u] \in {"wantShared", "wantEx", "archive", "create", "store"}
OwnSpyreDb == \A u \in Updaters : UsesSpyreDb(u) => spyreDb = {u}
=============================================================================
