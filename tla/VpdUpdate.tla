------------------------------ MODULE VpdUpdate ------------------------------
(***************************************************************************)
(* The vpdupdate program (src/src/internal/updater.cpp): successive runs   *)
(* of one vpdupdate at a time on one database directory, each run one      *)
(* system call or one database call per step, with the signals, the hard   *)
(* kills, the failing calls and the hot-plugging that may fall between     *)
(* two of them.  What several vpdupdates do at once is in UpdateLocks.     *)
(*                                                                         *)
(* On disk: vpd.db, its archives, and spyre.db, the private copy of the    *)
(* Spyre adapters' VPD that a run takes out of the old vpd.db because an   *)
(* adapter in use by a container cannot be read.  In memory: the global    *)
(* pointers db and dblock, the handler table, the gathered tree.           *)
(***************************************************************************)
EXTENDS Naturals, FiniteSets

CONSTANTS
  Comps,       \* components a tree may hold, the System node included
  Root,        \* the System node, present in every tree
  Spyres,      \* the components that are Spyre adapters
  Commands,    \* what is run: "update", and "archive" for vpdupdate -a
  Faults,      \* the kinds of failure the environment may produce
  MaxRuns,     \* bound: program starts
  MaxSignals,  \* bound: handled signals per process (the code handles five)
  MaxHotplugs  \* bound: devices plugged or unplugged

FaultKinds == {"kill", "signal", "throw", "ensure", "link", "archive", "store", "vfio"}

ASSUME UpdateAssumption ==
  /\ Root \in Comps
  /\ Spyres \subseteq Comps \ {Root}
  /\ Commands \subseteq {"update", "archive"}
  /\ Faults \subseteq FaultKinds
  /\ MaxRuns \in Nat /\ MaxSignals \in 1 .. 5 /\ MaxHotplugs \in Nat

VARIABLES
  vpdDb,     \* the database file vpd.db
  archives,  \* the archive files beside it
  spyre,     \* the file spyre.db
  hw,        \* components the kernel shows in sysfs and the device tree
  hotplugs,  \* devices plugged or unplugged so far
  pc,        \* where the process is; "idle" when no vpdupdate runs
  cmd,       \* the command of the process
  run,       \* number of the run
  db,        \* the global VpdDbEnv pointer and the state of its object
  dblock,    \* the global dblock is set: the signal handler removes vpd.db
  handlers,  \* the signal handlers are installed
  sigs,      \* signals the handler has been entered for
  keys,      \* keys of the old database still to be looked at
  tree,      \* the gathered component tree
  todo,      \* components of the tree still to be stored
  stamp,     \* the timestamp archiveDB put into the archive's name
  buf,       \* the copy of the old database read into memory
  rc,        \* 0, or 1 for the code's -1
  outcome,   \* how the last process ended
  before,    \* history: vpd.db when the run started
  clean,     \* history: components nothing went wrong with in this run
  failed,    \* history: archiving failed, or died while only memory held a copy
  wholeBefore \* history: vpd.db was whole when the run started

disk == <<vpdDb, archives, spyre>>
pointers == <<db, dblock, handlers, sigs>>
work == <<keys, tree, todo, stamp, buf, rc>>
history == <<before, clean, failed, wholeBefore>>
env == <<hw, hotplugs>>
vars == <<disk, env, pc, cmd, run, pointers, work, outcome, history>>

(***************************************************************************)
(* Data.  A row says which run stored it and whether it carries the VPD    *)
(* read from a Spyre adapter.  ver is the last run that wrote a file: it   *)
(* stands for st_mtime, from which the name of an archive is made.         *)
(***************************************************************************)
Runs == 0 .. MaxRuns
Entry == [run : Runs, vpd : BOOLEAN]
NoEntry == [run |-> 0, vpd |-> FALSE]
Rows == [Comps -> Entry]
NoRows == [c \in Comps |-> NoEntry]
File == [ver : Runs, rows : Rows]
NoFile == [ver |-> 0, rows |-> NoRows]
Archive == [form : {"link", "gz"}, whole : BOOLEAN, file : File]
SpyreFile == [exists : BOOLEAN, vpd : SUBSET Spyres]
NoSpyreFile == [exists |-> FALSE, vpd |-> {}]

Absent(f) == f.ver = 0
Held(rows) == {c \in Comps : rows[c] # NoEntry}

\* vpd.db holds every component of the tree of the run that wrote it.
Whole == ~Absent(vpdDb) /\ IF vpdDb.ver = run THEN todo = {} ELSE wholeBefore

\* The handler's steps, and those of archiveDB that leave the old database
\* in memory alone.
Handling == {"sigUnlink", "sigDelete", "sigClear"}
GzWindow == {"gzopen", "gzwrite"}
Normal == {"ensure", "spyreInit", "extract", "lockMain", "prune", "stat",
           "unlinkDb", "openTs", "gzopen", "gzwrite", "arm", "create", "gather",
           "store", "fini", "finiArm", "finiNull", "cleanSpyre", "exit"}

\* What "vpdupdate -a" left at an earlier time, older than every run here.
OldArchive ==
  [form |-> "gz", whole |-> TRUE,
   file |-> [ver |-> 0, rows |-> [c \in Comps |-> [run |-> 0, vpd |-> c \in Spyres]]]]

Init ==
  /\ vpdDb = NoFile /\ archives \in {{}, {OldArchive}} /\ spyre = NoSpyreFile
  /\ hw \in {h \in SUBSET Comps : Root \in h} /\ hotplugs = 0
  /\ pc = "idle" /\ cmd = "update" /\ run = 0
  /\ db = "null" /\ dblock = FALSE /\ handlers = FALSE /\ sigs = 0
  /\ keys = {} /\ tree = NoRows /\ todo = {} /\ stamp = 0 /\ buf = NoFile /\ rc = 0
  /\ outcome = "none"
  /\ before = NoFile /\ clean = {} /\ failed = FALSE
  /\ wholeBefore = FALSE

-----------------------------------------------------------------------------
(* The environment.                                                        *)

Hotplug(c) ==
  /\ hotplugs < MaxHotplugs /\ c # Root
  /\ hotplugs' = hotplugs + 1
  /\ hw' = IF c \in hw THEN hw \ {c} ELSE hw \cup {c}
  /\ clean' = clean \ {c}
  /\ UNCHANGED <<disk, pc, cmd, run, pointers, work, outcome, before, failed, wholeBefore>>

\* main up to initializeDB or, for -a, up to the lock on vpd.db.
Start(c) ==
  /\ pc = "idle" /\ run < MaxRuns
  /\ run' = run + 1 /\ cmd' = c
  /\ pc' = IF c = "update" THEN "ensure" ELSE "stat"
  /\ db' = "null" /\ dblock' = FALSE /\ handlers' = FALSE /\ sigs' = 0
  /\ keys' = {} /\ tree' = NoRows /\ todo' = Comps
  /\ stamp' = 0 /\ buf' = NoFile /\ rc' = 0
  /\ outcome' = "none"
  /\ before' = vpdDb /\ wholeBefore' = Whole /\ clean' = Comps /\ failed' = FALSE
  /\ UNCHANGED <<disk, env>>

\* The process is gone; its files stay.
Die(how) ==
  /\ pc' = "idle" /\ outcome' = how
  /\ failed' = (failed \/ pc \in GzWindow)
  /\ UNCHANGED <<disk, env, cmd, run, pointers, work, before, clean, wholeBefore>>

\* SIGKILL, a signal without a handler, a machine crash.
Kill ==
  /\ "kill" \in Faults /\ pc # "idle"
  /\ Die("killed")

EnterHandler ==
  IF handlers
  THEN /\ sigs < MaxSignals
       /\ sigs' = sigs + 1
       /\ pc' = "sigUnlink"
       /\ UNCHANGED <<disk, env, cmd, run, db, dblock, handlers, work, outcome, history>>
  ELSE Die("killed")

\* One of the five signals.  While one is handled the other four are not
\* blocked (sa_mask is empty), so a second one starts the handler again.
Signal ==
  /\ "signal" \in Faults /\ pc # "idle"
  /\ EnterHandler

\* An exception nobody catches ends in abort() and so in SIGABRT.
Throw ==
  /\ "throw" \in Faults
  /\ pc \in {"spyreInit", "extract", "lockMain", "create", "gather"}
  /\ EnterHandler

-----------------------------------------------------------------------------
(* initializeDB up to the archiving of the old database.                   *)

Goto(label) == pc' = label

EnsureEnv ==
  /\ pc = "ensure"
  /\ \/ Goto("spyreInit") /\ UNCHANGED rc
     \/ "ensure" \in Faults /\ Goto("fini") /\ rc' = 1
  /\ UNCHANGED <<disk, env, cmd, run, pointers, keys, tree, todo, stamp, buf, outcome, history>>

\* Mutant: isSpyreDevice is not asked, every key of the old database is copied.
SpyreInitAllKeys ==
  /\ pc = "spyreInit"
  /\ spyre' = [exists |-> TRUE, vpd |-> {}]
  /\ IF Absent(vpdDb)
     THEN Goto("lockMain") /\ UNCHANGED keys
     ELSE Goto("extract") /\ keys' = Held(vpdDb.rows)
  /\ UNCHANGED <<vpdDb, archives, env, cmd, run, pointers, tree, todo, stamp, buf, rc, outcome, history>>

\* Lock spyre.db, throw an old one away, create it empty; then the test of
\* vpd.db's existence that leads to the extraction.
SpyreInit ==
  /\ pc = "spyreInit"
  /\ spyre' = [exists |-> TRUE, vpd |-> {}]
  /\ IF Absent(vpdDb)
     THEN Goto("lockMain") /\ UNCHANGED keys
     ELSE Goto("extract") /\ keys' = Held(vpdDb.rows) \cap Spyres
  /\ UNCHANGED <<vpdDb, archives, env, cmd, run, pointers, tree, todo, stamp, buf, rc, outcome, history>>

\* A key of the old database that sysfs still shows as a Spyre adapter is
\* stored in spyre.db; the result of that store is ignored.  Keys of other
\* components change nothing and are left out.
ExtractKey(s) ==
  /\ pc = "extract" /\ s \in keys
  /\ keys' = keys \ {s}
  /\ \/ /\ spyre' = [spyre EXCEPT !.vpd =
                       IF s \in hw /\ vpdDb.rows[s].vpd THEN @ \cup {s} ELSE @]
        /\ UNCHANGED clean
     \/ /\ "store" \in Faults
        /\ clean' = clean \ {s}
        /\ UNCHANGED spyre
  /\ UNCHANGED <<vpdDb, archives, env, pc, cmd, run, pointers, tree, todo, stamp, buf, rc, outcome, before, failed, wholeBefore>>

ExtractDone ==
  /\ pc = "extract" /\ keys = {}
  /\ Goto("lockMain")
  /\ UNCHANGED <<disk, env, cmd, run, pointers, work, outcome, history>>

\* Mutant: the handler is armed before the old database is archived.
LockMainArms ==
  /\ pc = "lockMain"
  /\ dblock' = TRUE /\ handlers' = TRUE
  /\ Goto("prune")
  /\ UNCHANGED <<disk, env, cmd, run, db, sigs, work, outcome, history>>

\* Mutant: spyre.db is cleaned up once the old database has been read.
LockMainCleansSpyre ==
  /\ pc = "lockMain"
  /\ spyre' = NoSpyreFile
  /\ Goto("prune")
  /\ UNCHANGED <<vpdDb, archives, env, cmd, run, pointers, work, outcome, history>>

\* Mutant: the shared lock extractSpyreData leaves behind blocks the exclusive one.
LockMainWaitsForItself ==
  /\ pc = "lockMain" /\ Absent(before)
  /\ Goto("prune")
  /\ UNCHANGED <<disk, env, cmd, run, pointers, work, outcome, history>>

LockMain ==
  /\ pc = "lockMain"
  /\ Goto("prune")
  /\ UNCHANGED <<disk, env, cmd, run, pointers, work, outcome, history>>

\* removeOldArchiveDB: every archive goes, one unlink at a time.
PruneOne(a) ==
  /\ pc = "prune" /\ a \in archives
  /\ archives' = archives \ {a}
  /\ UNCHANGED <<vpdDb, spyre, env, pc, cmd, run, pointers, work, outcome, history>>

PruneDone ==
  /\ pc = "prune"
  /\ archives = {} \/ "archive" \in Faults  \* scandir failed
  /\ Goto("stat")
  /\ UNCHANGED <<disk, env, cmd, run, pointers, work, outcome, history>>

-----------------------------------------------------------------------------
(* archiveDB, shared by the update and by vpdupdate -a.                    *)

AfterArchive == IF cmd = "archive" THEN "exit" ELSE "arm"

\* A directory that cannot be opened, or a link that cannot be made (its name
\* may exist already), ends archiveDB with vpd.db still in place.
LinkArchive ==
  /\ pc = "stat"
  /\ \/ /\ Absent(vpdDb)
        /\ Goto(AfterArchive)
        /\ UNCHANGED <<archives, stamp, failed>>
     \/ /\ ~Absent(vpdDb)
        /\ \/ "link" \in Faults
           \/ \E a \in archives : a.form = "link" /\ a.file.ver = vpdDb.ver
        /\ Goto(AfterArchive)
        /\ failed' = TRUE
        /\ UNCHANGED <<archives, stamp>>
     \/ /\ ~Absent(vpdDb)
        /\ \A a \in archives : a.form = "link" => a.file.ver # vpdDb.ver
        /\ stamp' = vpdDb.ver
        /\ archives' = archives \cup {[form |-> "link", whole |-> TRUE, file |-> vpdDb]}
        /\ Goto("unlinkDb")
        /\ UNCHANGED failed
  /\ UNCHANGED <<vpdDb, spyre, env, cmd, run, pointers, keys, tree, todo, buf, rc, outcome, before, clean, wholeBefore>>

\* Mutant: archiveDB links vpd.db but does not unlink it.
UnlinkDbKept ==
  /\ pc = "unlinkDb"
  /\ Goto("openTs")
  /\ UNCHANGED <<disk, env, cmd, run, pointers, work, outcome, history>>

UnlinkDb ==
  /\ pc = "unlinkDb"
  /\ vpdDb' = NoFile
  /\ Goto("openTs")
  /\ UNCHANGED <<archives, spyre, env, cmd, run, pointers, work, outcome, history>>

\* Read the link into memory and unlink it.  A read that fails or is short
\* goes unnoticed: what it did not bring stays zero, and no row of the file is
\* counted on.  A link that cannot be opened stays as an uncompressed archive.
ReadLink ==
  /\ pc = "openTs"
  /\ \/ \E a \in archives :
          /\ a.form = "link" /\ a.file.ver = stamp
          /\ \/ buf' = a.file /\ UNCHANGED failed
             \/ /\ "archive" \in Faults
                /\ buf' = [a.file EXCEPT !.rows = NoRows] /\ failed' = TRUE
          /\ archives' = archives \ {a}
          /\ Goto("gzopen")
     \/ /\ "archive" \in Faults
        /\ Goto(AfterArchive)
        /\ UNCHANGED <<archives, buf, failed>>
  /\ UNCHANGED <<vpdDb, spyre, env, cmd, run, pointers, keys, tree, todo, stamp, rc, outcome, before, clean, wholeBefore>>

SameGz(a) == a.form = "gz" /\ a.file.ver = stamp

GzOpen ==
  /\ pc = "gzopen"
  /\ \/ /\ archives' = {a \in archives : ~SameGz(a)}
                          \cup {[form |-> "gz", whole |-> FALSE, file |-> buf]}
        /\ Goto("gzwrite")
        /\ UNCHANGED <<buf, failed>>
     \/ /\ "archive" \in Faults
        /\ Goto(AfterArchive)
        /\ buf' = NoFile
        /\ failed' = TRUE
        /\ UNCHANGED archives
  /\ UNCHANGED <<vpdDb, spyre, env, cmd, run, pointers, keys, tree, todo, stamp, rc, outcome, before, clean, wholeBefore>>

GzWrite ==
  /\ pc = "gzwrite"
  /\ \/ /\ archives' = {a \in archives : ~SameGz(a)}
                          \cup {[form |-> "gz", whole |-> TRUE, file |-> buf]}
        /\ UNCHANGED failed
     \/ /\ "archive" \in Faults
        /\ failed' = TRUE
        /\ UNCHANGED archives
  /\ buf' = NoFile
  /\ Goto(AfterArchive)
  /\ UNCHANGED <<vpdDb, spyre, env, cmd, run, pointers, keys, tree, todo, stamp, rc, outcome, before, clean, wholeBefore>>

-----------------------------------------------------------------------------
(* initializeDB from the arming of the handler to the last store.          *)

\* Mutant: the handlers are installed but dblock is not set.
ArmHandlersOnly ==
  /\ pc = "arm"
  /\ handlers' = TRUE
  /\ Goto("create")
  /\ UNCHANGED <<disk, env, cmd, run, db, dblock, sigs, work, outcome, history>>

Arm ==
  /\ pc = "arm"
  /\ dblock' = TRUE /\ handlers' = TRUE
  /\ Goto("create")
  /\ UNCHANGED <<disk, env, cmd, run, db, sigs, work, outcome, history>>

\* new VpdDbEnv creates vpd.db, or opens the one archiveDB left in place.
CreateDb ==
  /\ pc = "create"
  /\ vpdDb' = IF Absent(vpdDb) THEN [ver |-> run, rows |-> NoRows] ELSE vpdDb
  /\ db' = "open"
  /\ Goto("gather")
  /\ UNCHANGED <<archives, spyre, env, cmd, run, dblock, handlers, sigs, work, outcome, history>>

\* Gatherer::getComponentTree, of which only this matters here: a Spyre
\* adapter is read (fresh), or its VFIO group is busy and the copy in
\* spyre.db is used, or another step of reading it fails and it gets no VPD.
Gather(fresh, busy) ==
  LET spyres == Spyres \cap hw
      unread == spyres \ (fresh \cup busy)
  IN
  /\ pc = "gather"
  /\ fresh \subseteq spyres /\ busy \subseteq spyres /\ fresh \cap busy = {}
  /\ unread # {} => "vfio" \in Faults
  /\ tree' = [c \in Comps |->
                IF c \in hw
                THEN [run |-> run, vpd |-> c \in fresh \cup (busy \cap spyre.vpd)]
                ELSE NoEntry]
  /\ todo' = hw
  /\ clean' = clean \ unread
  /\ Goto("store")
  /\ UNCHANGED <<disk, env, cmd, run, pointers, keys, stamp, buf, rc, outcome, before, failed, wholeBefore>>

\* One db.store of storeComponents; the order of the tree walk is abstracted.
Store(c) ==
  /\ pc = "store" /\ c \in todo
  /\ vpdDb' = [ver |-> run, rows |-> [vpdDb.rows EXCEPT ![c] = tree[c]]]
  /\ todo' = todo \ {c}
  /\ UNCHANGED <<archives, spyre, env, pc, cmd, run, pointers, keys, tree, stamp, buf, rc, outcome, history>>

\* Mutant: storeComponents drops the result of a child's store.
StoreEndsQuiet ==
  /\ pc = "store"
  /\ todo = {} \/ "store" \in Faults
  /\ Goto("fini")
  /\ UNCHANGED <<disk, env, cmd, run, pointers, work, outcome, history>>

\* Mutant: the way out of a store that failed deletes the database, too.
StoreEndsDeletes ==
  /\ pc = "store"
  /\ \/ todo = {} /\ UNCHANGED <<db, rc>>
     \/ todo # {} /\ "store" \in Faults /\ rc' = 1 /\ db' = "freed"
  /\ Goto("fini")
  /\ UNCHANGED <<disk, env, cmd, run, dblock, handlers, sigs, keys, tree, todo, stamp, buf, outcome, history>>

StoreEnds ==
  /\ pc = "store"
  /\ \/ todo = {} /\ UNCHANGED rc
     \/ todo # {} /\ "store" \in Faults /\ rc' = 1
  /\ Goto("fini")
  /\ UNCHANGED <<disk, env, cmd, run, pointers, keys, tree, todo, stamp, buf, outcome, history>>

-----------------------------------------------------------------------------
(* The end of main: __lsvpdFini in three steps, cleanupSpyreFiles, return. *)

Freed == IF db = "open" THEN "freed" ELSE "twice"

FiniDelete ==
  /\ pc = "fini"
  /\ IF db = "null" THEN Goto("cleanSpyre") /\ UNCHANGED db
                    ELSE Goto("finiArm") /\ db' = Freed
  /\ UNCHANGED <<disk, env, cmd, run, dblock, handlers, sigs, work, outcome, history>>

FiniDisarm ==
  /\ pc = "finiArm"
  /\ dblock' = FALSE
  /\ Goto("finiNull")
  /\ UNCHANGED <<disk, env, cmd, run, db, handlers, sigs, work, outcome, history>>

FiniNull ==
  /\ pc = "finiNull"
  /\ db' = "null"
  /\ Goto("cleanSpyre")
  /\ UNCHANGED <<disk, env, cmd, run, dblock, handlers, sigs, work, outcome, history>>

CleanSpyre ==
  /\ pc = "cleanSpyre"
  /\ spyre' = NoSpyreFile
  /\ Goto("exit")
  /\ UNCHANGED <<vpdDb, archives, env, cmd, run, pointers, work, outcome, history>>

Exit ==
  /\ pc = "exit"
  /\ Goto("idle")
  /\ outcome' = IF cmd = "archive" THEN "archived"
                ELSE IF rc = 0 THEN "ok" ELSE "error"
  /\ UNCHANGED <<disk, env, cmd, run, pointers, work, history>>

-----------------------------------------------------------------------------
(* lsvpdSighandler.  A second signal may start it again before any step.   *)

\* Mutant: the handler leaves a database alone that is open.
SigUnlinkUnopened ==
  /\ pc = "sigUnlink"
  /\ vpdDb' = IF dblock /\ db = "null" THEN NoFile ELSE vpdDb
  /\ Goto("sigDelete")
  /\ UNCHANGED <<archives, spyre, env, cmd, run, pointers, work, outcome, history>>

SigUnlink ==
  /\ pc = "sigUnlink"
  /\ vpdDb' = IF dblock THEN NoFile ELSE vpdDb
  /\ Goto("sigDelete")
  /\ UNCHANGED <<archives, spyre, env, cmd, run, pointers, work, outcome, history>>

SigDelete ==
  /\ pc = "sigDelete"
  /\ db' = IF db = "null" THEN db ELSE Freed
  /\ Goto("sigClear")
  /\ UNCHANGED <<disk, env, cmd, run, dblock, handlers, sigs, work, outcome, history>>

\* dblock and db are reset, and the re-raised signal ends the process when
\* the handler returns.
SigClear ==
  /\ pc = "sigClear"
  /\ dblock' = (dblock /\ db = "null")
  /\ db' = "null"
  /\ Goto("idle")
  /\ outcome' = "signal"
  /\ UNCHANGED <<disk, env, cmd, run, handlers, sigs, work, history>>

-----------------------------------------------------------------------------
Extract == (\E s \in Spyres : ExtractKey(s)) \/ ExtractDone
Prune == (\E a \in archives : PruneOne(a)) \/ PruneDone
ArchiveDB == LinkArchive \/ UnlinkDb \/ ReadLink \/ GzOpen \/ GzWrite
GatherTree == \E fresh, busy \in SUBSET Spyres : Gather(fresh, busy)
StoreComponents == (\E c \in Comps : Store(c)) \/ StoreEnds
Fini == FiniDelete \/ FiniDisarm \/ FiniNull
Handler == SigUnlink \/ SigDelete \/ SigClear

\* What the process itself does, as opposed to what happens to it.
Program ==
  \/ EnsureEnv \/ SpyreInit \/ Extract \/ LockMain \/ Prune \/ ArchiveDB
  \/ Arm \/ CreateDb \/ GatherTree \/ StoreComponents
  \/ Fini \/ CleanSpyre \/ Exit \/ Handler

Environment ==
  \/ \E c \in Commands : Start(c)
  \/ \E c \in Comps : Hotplug(c)
  \/ Kill \/ Signal \/ Throw

Next == Program \/ Environment

Spec == Init /\ [][Next]_vars
FairSpec == Spec /\ WF_vars(Program)

-----------------------------------------------------------------------------
(* Properties.                                                             *)

TypeOK ==
  /\ vpdDb \in File /\ archives \in SUBSET Archive /\ spyre \in SpyreFile
  /\ hw \in SUBSET Comps /\ hotplugs \in 0 .. MaxHotplugs
  /\ pc \in Normal \cup Handling \cup {"idle"}
  /\ cmd \in {"update", "archive"} /\ run \in Runs
  /\ db \in {"null", "open", "freed", "twice"}
  /\ dblock \in BOOLEAN /\ handlers \in BOOLEAN /\ sigs \in 0 .. MaxSignals
  /\ keys \in SUBSET Spyres /\ tree \in Rows /\ todo \in SUBSET Comps
  /\ stamp \in Runs /\ buf \in File /\ rc \in {0, 1}
  /\ outcome \in {"none", "ok", "error", "archived", "signal", "killed"}
  /\ before \in File /\ clean \in SUBSET Comps /\ failed \in BOOLEAN
  /\ wholeBefore \in BOOLEAN

\* The inventory a run found survives that run, however the run ends: vpd.db,
\* a readable archive or the process's memory holds it, unless archiving
\* failed or the process died while memory held the only copy (archiveDB
\* unlinks the old file before it writes the compressed one).
OldInventoryKept ==
  ~failed /\ ~Absent(before) =>
    \/ vpdDb = before
    \/ buf = before
    \/ \E a \in archives : a.whole /\ a.file = before

Succeeded == pc = "idle" /\ outcome = "ok"

\* A run that returns 0 leaves every component of the gathered tree in
\* vpd.db, as this run stored it: no early return of storeComponents, no
\* handler and no earlier run's debris is hidden behind a 0.
SuccessIsComplete ==
  Succeeded => /\ vpdDb.ver = run
               /\ \A c \in Held(tree) : vpdDb.rows[c] = tree[c]

\* If moreover the old database could be moved away, vpd.db holds nothing
\* else: no row of an earlier run, whatever debris earlier runs left.
SuccessIsFresh == Succeeded /\ ~failed => vpdDb.rows = tree

\* The cleanup of the signal handler: a process ended by a handled signal
\* leaves no half-stored vpd.db, at whichever step and however often the
\* handler was started (a store that failed before is another matter).
NoPartialAfterAbort ==
  pc = "idle" /\ outcome = "signal" /\ rc = 0 => Absent(vpdDb) \/ Whole

\* The VPD of a Spyre adapter that vpd.db held when a run started is in the
\* vpd.db of a successful run, though a container may be using the adapter,
\* if it stayed plugged in, was copied into spyre.db and no step of reading
\* it failed but the opening of its busy group.
RetainedWithinRun ==
  Succeeded =>
    \A s \in Spyres \cap clean :
      before.rows[s].vpd /\ tree[s] # NoEntry => vpdDb.rows[s].vpd

\* A run ends, whatever interrupts it: no debris and no failing call leaves
\* the process without a next step.
RunEnds == pc # "idle" ~> pc = "idle"

\* What readers find in vpd.db between two runs, see InventoryStore.
Published ==
  INSTANCE InventoryStore WITH
    writing <- pc # "idle",
    latest <- run,
    report <- IF outcome = "signal" /\ rc = 1 THEN "error" ELSE outcome,
    shown <- IF pc = "idle" THEN [ver |-> vpdDb.ver, whole |-> Whole]
                            ELSE [ver |-> before.ver, whole |-> wholeBefore]

\* The updater implements the abstract inventory: a run that returns 0 shows
\* readers its whole tree; any other leaves them the previous inventory, none,
\* or a whole one of its own, and a torn one only if it was killed or a store
\* had failed.
PublishedSpec == Published!Spec

\* updater.cpp:647-649: signal handling is set up "to ensure proper cleanup if
\* process if prematurely aborted".  The VpdDbEnv is never used when it is
\* deleted, and deleted again only by a handler, which must have come between
\* __lsvpdFini's deletion and its db = NULL, or have been interrupted itself
\* while it did the same.
DeletedOnceUnlessSignalled ==
  /\ pc \in {"gather", "store"} => db = "open"
  /\ db = "twice" => sigs > 0

-----------------------------------------------------------------------------
(* What the documentation says and the code does not do.                   *)

\* updater.cpp:525, the comment on arming the handler: "The db is now
\* archived so when signal handler runs it should remove any db it finds".
ArmedMeansArchived == dblock /\ pc # "idle" => vpdDb.ver \in {0, run}
=============================================================================
