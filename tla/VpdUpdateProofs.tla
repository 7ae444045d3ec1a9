--------------------------- MODULE VpdUpdateProofs ---------------------------
(***************************************************************************)
(* Machine-checked proofs about VpdUpdate, for every set of components and *)
(* Spyre adapters, every set of faults and every bound.                    *)
(***************************************************************************)
EXTENDS VpdUpdate, TLAPS

-----------------------------------------------------------------------------
(* Lemmas.                                                                 *)

\* The constant rows and files have the types of rows and files.
LEMMA ConstantTypes == NoEntry \in Entry /\ NoRows \in Rows /\ NoFile \in File
BY UpdateAssumption DEF NoEntry, Entry, NoRows, Rows, NoFile, File, Runs

\* What archiveDB adds to the directory is an archive.
LEMMA ArchiveTypes ==
  ASSUME NEW f \in File, NEW w \in BOOLEAN, NEW g \in {"link", "gz"}
  PROVE  [form |-> g, whole |-> w, file |-> f] \in Archive
BY DEF Archive

\* Entering the handler keeps the count of signals within its bound.
LEMMA EnterHandlerType ==
  ASSUME TypeOK, EnterHandler
  PROVE  /\ pc' \in {"sigUnlink", "idle"} /\ sigs' \in 0 .. MaxSignals
         /\ outcome' \in {outcome, "killed"} /\ failed' \in BOOLEAN
         /\ UNCHANGED <<disk, env, cmd, run, db, dblock, handlers, work, before, clean, wholeBefore>>
<1> USE UpdateAssumption DEF TypeOK, EnterHandler, Die, pointers, history
<1>1. CASE handlers
  BY <1>1
<1>2. CASE ~handlers
  <2>1. failed' \in BOOLEAN
    BY <1>2
  <2>2. QED
    BY <1>2, <2>1
<1>3. QED
  BY <1>1, <1>2

\* A step is one action of the program or of the environment.
LEMMA NextCases ==
  ASSUME Next
  PROVE  \/ EnsureEnv \/ SpyreInit \/ (\E s \in Spyres : ExtractKey(s))
         \/ ExtractDone \/ LockMain \/ (\E a \in archives : PruneOne(a))
         \/ PruneDone \/ LinkArchive \/ UnlinkDb \/ ReadLink \/ GzOpen
         \/ GzWrite \/ Arm \/ CreateDb
         \/ (\E fresh, busy \in SUBSET Spyres : Gather(fresh, busy))
         \/ (\E c \in Comps : Store(c)) \/ StoreEnds
         \/ FiniDelete \/ FiniDisarm \/ FiniNull \/ CleanSpyre \/ Exit
         \/ SigUnlink \/ SigDelete \/ SigClear
         \/ (\E c \in Commands : Start(c)) \/ (\E c \in Comps : Hotplug(c))
         \/ Kill \/ Signal \/ Throw
BY Zenon DEF Next, Program, Environment, Extract, Prune, ArchiveDB, GatherTree,
  StoreComponents, Fini, Handler

\* TypeOK is inductive.
LEMMA TypeStep == TypeOK /\ [Next]_vars => TypeOK'
<1> SUFFICES ASSUME TypeOK, [Next]_vars PROVE TypeOK'
  OBVIOUS
<1> USE UpdateAssumption, ConstantTypes DEF TypeOK, disk, env, pointers, work, history,
  Normal, Handling, Goto
<1>1. CASE EnsureEnv
  BY <1>1 DEF EnsureEnv
<1>2. CASE SpyreInit
  BY <1>2 DEF SpyreInit, SpyreFile, Held
<1>3. CASE ExtractDone
  BY <1>3 DEF ExtractDone
<1>4. CASE LockMain
  BY <1>4 DEF LockMain
<1>5. CASE PruneDone
  BY <1>5 DEF PruneDone
<1>6. CASE LinkArchive
  <2>1. archives' \in SUBSET Archive /\ stamp' \in Runs /\ failed' \in BOOLEAN
    BY <1>6, ArchiveTypes DEF LinkArchive, File
  <2>2. QED
    BY <1>6, <2>1 DEF LinkArchive, AfterArchive
<1>7. CASE UnlinkDb
  BY <1>7 DEF UnlinkDb
<1>8. CASE ReadLink
  <2>1. archives' \in SUBSET Archive /\ buf' \in File
    BY <1>8 DEF ReadLink, Archive, File
  <2>2. failed' \in BOOLEAN
    BY <1>8 DEF ReadLink
  <2>3. QED
    BY <1>8, <2>1, <2>2 DEF ReadLink, AfterArchive
<1>9. CASE GzOpen
  <2>1. archives' \in SUBSET Archive /\ failed' \in BOOLEAN
    BY <1>9, ArchiveTypes DEF GzOpen
  <2>2. QED
    BY <1>9, <2>1 DEF GzOpen, AfterArchive
<1>10. CASE GzWrite
  <2>1. archives' \in SUBSET Archive /\ failed' \in BOOLEAN
    BY <1>10, ArchiveTypes DEF GzWrite
  <2>2. QED
    BY <1>10, <2>1 DEF GzWrite, AfterArchive
<1>11. CASE Arm
  BY <1>11 DEF Arm
<1>12. CASE CreateDb
  BY <1>12 DEF CreateDb, File
<1>13. CASE StoreEnds
  BY <1>13 DEF StoreEnds
<1>14. CASE FiniDelete
  BY <1>14 DEF FiniDelete, Freed
<1>15. CASE FiniDisarm
  BY <1>15 DEF FiniDisarm
<1>16. CASE FiniNull
  BY <1>16 DEF FiniNull
<1>17. CASE CleanSpyre
  BY <1>17 DEF CleanSpyre, NoSpyreFile, SpyreFile
<1>18. CASE Exit
  BY <1>18 DEF Exit
<1>19. CASE SigUnlink
  BY <1>19 DEF SigUnlink
<1>20. CASE SigDelete
  BY <1>20 DEF SigDelete, Freed
<1>21. CASE SigClear
  BY <1>21 DEF SigClear
<1>22. CASE Kill
  BY <1>22 DEF Kill, Die
<1>23. CASE Signal
  BY <1>23, EnterHandlerType DEF Signal
<1>24. CASE Throw
  BY <1>24, EnterHandlerType DEF Throw
<1>25. ASSUME NEW s \in Spyres, ExtractKey(s) PROVE TypeOK'
  BY <1>25 DEF ExtractKey, SpyreFile
<1>26. ASSUME NEW a \in archives, PruneOne(a) PROVE TypeOK'
  BY <1>26 DEF PruneOne
<1>27. ASSUME NEW fresh \in SUBSET Spyres, NEW busy \in SUBSET Spyres, Gather(fresh, busy) PROVE TypeOK'
  BY <1>27 DEF Gather, Rows, Entry
<1>28. ASSUME NEW c \in Comps, Store(c) PROVE TypeOK'
  BY <1>28 DEF Store, File, Rows, Entry
<1>29. ASSUME NEW c \in Commands, Start(c) PROVE TypeOK'
  <2>1. run' \in Runs
    BY <1>29 DEF Start, Runs
  <2>2. wholeBefore' \in BOOLEAN
    BY <1>29 DEF Start, Whole
  <2>3. stamp' \in Runs
    BY <1>29 DEF Start, Runs
  <2>4. sigs' \in 0 .. MaxSignals
    BY <1>29 DEF Start
  <2>5. QED
    BY <1>29, <2>1, <2>2, <2>3, <2>4 DEF Start
<1>30. ASSUME NEW c \in Comps, Hotplug(c) PROVE TypeOK'
  BY <1>30 DEF Hotplug
<1>31. CASE UNCHANGED vars
  BY <1>31 DEF vars
<1>32. QED
  BY NextCases, <1>1, <1>2, <1>3, <1>4, <1>5, <1>6, <1>7, <1>8, <1>9, <1>10, <1>11, <1>12, <1>13, <1>14, <1>15, <1>16, <1>17, <1>18, <1>19, <1>20, <1>21, <1>22, <1>23, <1>24, <1>25, <1>26, <1>27, <1>28, <1>29, <1>30, <1>31

\* Type correctness of every behaviour.
THEOREM TypeCorrect == Spec => []TypeOK
<1>1. Init => TypeOK
  <2> USE UpdateAssumption, ConstantTypes DEF TypeOK
  <2>1. Init => stamp \in Runs /\ run \in Runs /\ sigs \in 0 .. MaxSignals /\ hotplugs \in 0 .. MaxHotplugs
    BY DEF Init, Runs
  <2>2. Init => spyre \in SpyreFile /\ hw \in SUBSET Comps
    BY DEF Init, NoSpyreFile, SpyreFile
  <2>3. OldArchive \in Archive
    BY DEF OldArchive, Archive, File, Rows, Entry, Runs
  <2>4. Init => archives \in SUBSET Archive
    BY <2>3 DEF Init
  <2>5. QED
    BY <2>1, <2>2, <2>4 DEF Init
<1>2. QED
  BY <1>1, TypeStep, PTL DEF Spec

-----------------------------------------------------------------------------
(* The previous inventory.  Where its copy is depends on how far archiveDB *)
(* has come, and the handler may remove vpd.db only once dblock is set.    *)

InArchive(f) == \E a \in archives : a.whole /\ a.file = f

Untouched == {"ensure", "spyreInit", "extract", "lockMain", "prune", "stat", "unlinkDb"}
Linked == {"unlinkDb", "openTs"}
Unarmed == Untouched \cup Linked \cup GzWindow \cup {"arm"}
Armed == {"arm", "create", "gather", "store"}

\* Up to the unlink vpd.db is the previous inventory; then its link is, under
\* the one name archiveDB will open; then the buffer; and from the arming of
\* the handler on a whole archive.
CopyInv ==
  /\ pc \in Untouched => vpdDb = before
  /\ pc \in Linked =>
       /\ stamp = before.ver
       /\ \E a \in archives : a.form = "link" /\ a.file.ver = stamp
       /\ \A a \in archives : a.form = "link" /\ a.file.ver = stamp => a.whole /\ a.file = before
  /\ pc \in GzWindow /\ ~failed => buf = before
  /\ pc \in Unarmed => ~dblock /\ ~handlers
  /\ ~failed /\ ~Absent(before) /\ (dblock \/ pc \in Armed) => InArchive(before)
  /\ OldInventoryKept

\* CopyInv is inductive, given the types.
LEMMA CopyStep == TypeOK /\ CopyInv /\ [Next]_vars => CopyInv'
<1> SUFFICES ASSUME TypeOK, CopyInv, [Next]_vars PROVE CopyInv'
  OBVIOUS
<1> USE DEF CopyInv, InArchive, Untouched, Linked, Unarmed, Armed, GzWindow, OldInventoryKept,
  Absent, disk, env, pointers, work, history, Goto
<1>1. CASE EnsureEnv
  BY <1>1 DEF EnsureEnv
<1>2. CASE SpyreInit
  BY <1>2 DEF SpyreInit
<1>3. CASE ExtractDone
  BY <1>3 DEF ExtractDone
<1>4. CASE LockMain
  BY <1>4 DEF LockMain
<1>5. CASE PruneDone
  BY <1>5 DEF PruneDone
<1>6. CASE LinkArchive
  <2>1. CASE pc' = "unlinkDb"
    <3> DEFINE new == [form |-> "link", whole |-> TRUE, file |-> vpdDb]
    <3>1. archives' = archives \cup {new} /\ stamp' = vpdDb.ver /\ vpdDb' = vpdDb /\ before' = before
      BY <1>6, <2>1 DEF LinkArchive, AfterArchive
    <3>2. \A a \in archives : a.form = "link" => a.file.ver # vpdDb.ver
      BY <1>6, <2>1 DEF LinkArchive, AfterArchive
    <3>3. new \in archives' /\ new.form = "link" /\ new.whole /\ new.file = before
      BY <1>6, <3>1 DEF LinkArchive
    <3>4. QED
      BY <1>6, <2>1, <3>1, <3>2, <3>3 DEF LinkArchive
  <2>2. CASE pc' # "unlinkDb"
    BY <1>6, <2>2 DEF LinkArchive, AfterArchive
  <2>3. QED
    BY <2>1, <2>2
<1>7. CASE UnlinkDb
  BY <1>7 DEF UnlinkDb, NoFile
<1>8. CASE ReadLink
  <2>1. CASE failed'
    BY <1>8, <2>1 DEF ReadLink, AfterArchive
  <2>2. CASE ~failed'
    BY <1>8, <2>2 DEF ReadLink, AfterArchive
  <2>3. QED
    BY <2>1, <2>2
<1>9. CASE GzOpen
  BY <1>9 DEF GzOpen, AfterArchive, SameGz
<1>10. CASE GzWrite
  <2>1. CASE failed'
    BY <1>10, <2>1 DEF GzWrite, AfterArchive
  <2>2. CASE ~failed'
    <3> DEFINE new == [form |-> "gz", whole |-> TRUE, file |-> buf]
    <3>1. new \in archives' /\ new.whole /\ new.file = before
      BY <1>10, <2>2 DEF GzWrite
    <3>2. /\ before' = before /\ dblock' = dblock /\ handlers' = handlers
          /\ pc' \in {"exit", "arm"}
          /\ pc = "gzwrite"
      BY <1>10 DEF GzWrite, AfterArchive
    <3>3. InArchive(before)'
      BY <3>1, <3>2
    <3>4. ~dblock' /\ ~handlers'
      BY <3>2
    <3>5. QED
      BY <3>2, <3>3, <3>4
  <2>3. QED
    BY <2>1, <2>2
<1>11. CASE Arm
  BY <1>11 DEF Arm
<1>12. CASE CreateDb
  BY <1>12 DEF CreateDb, NoFile
<1>13. CASE StoreEnds
  BY <1>13 DEF StoreEnds
<1>14. CASE FiniDelete
  BY <1>14 DEF FiniDelete, Freed
<1>15. CASE FiniDisarm
  BY <1>15 DEF FiniDisarm
<1>16. CASE FiniNull
  BY <1>16 DEF FiniNull
<1>17. CASE CleanSpyre
  BY <1>17 DEF CleanSpyre
<1>18. CASE Exit
  BY <1>18 DEF Exit
<1>19. CASE SigUnlink
  BY <1>19 DEF SigUnlink, NoFile
<1>20. CASE SigDelete
  BY <1>20 DEF SigDelete, Freed
<1>21. CASE SigClear
  BY <1>21 DEF SigClear
<1>22. CASE Kill
  BY <1>22 DEF Kill, Die
<1>23. CASE Signal
  BY <1>23 DEF Signal, EnterHandler, Die
<1>24. CASE Throw
  BY <1>24 DEF Throw, EnterHandler, Die
<1>25. ASSUME NEW s \in Spyres, ExtractKey(s) PROVE CopyInv'
  BY <1>25 DEF ExtractKey
<1>26. ASSUME NEW a \in archives, PruneOne(a) PROVE CopyInv'
  BY <1>26 DEF PruneOne
<1>27. ASSUME NEW fresh \in SUBSET Spyres, NEW busy \in SUBSET Spyres, Gather(fresh, busy) PROVE CopyInv'
  BY <1>27 DEF Gather
<1>28. ASSUME NEW c \in Comps, Store(c) PROVE CopyInv'
  BY <1>28 DEF Store
<1>29. ASSUME NEW c \in Commands, Start(c) PROVE CopyInv'
  BY <1>29 DEF Start
<1>30. ASSUME NEW c \in Comps, Hotplug(c) PROVE CopyInv'
  BY <1>30 DEF Hotplug
<1>31. CASE UNCHANGED vars
  BY <1>31 DEF vars
<1>32. QED
  BY NextCases, <1>1, <1>2, <1>3, <1>4, <1>5, <1>6, <1>7, <1>8, <1>9, <1>10, <1>11, <1>12, <1>13, <1>14, <1>15, <1>16, <1>17, <1>18, <1>19, <1>20, <1>21, <1>22, <1>23, <1>24, <1>25, <1>26, <1>27, <1>28, <1>29, <1>30, <1>31

\* The previous inventory survives every run that archives without failing.
THEOREM OldInventorySurvives == Spec => []OldInventoryKept
<1>1. Init => CopyInv
  BY DEF Init, CopyInv, Untouched, Linked, GzWindow, Unarmed, Armed, OldInventoryKept, Absent, NoFile
<1>2. CopyInv => OldInventoryKept
  BY DEF CopyInv
<1>3. QED
  BY <1>1, <1>2, CopyStep, TypeCorrect, PTL DEF Spec

-----------------------------------------------------------------------------
(* What a run has stored, and what its handler leaves behind.              *)

Complete ==
  /\ vpdDb.ver = run
  /\ \A c \in Held(tree) : vpdDb.rows[c] = tree[c]
Finished == {"fini", "finiArm", "finiNull", "cleanSpyre"}

\* While storing, what is not left to do is done; a run that goes on to its
\* end with rc 0 has stored all; and only such a run disarms the handler.
StoreInv ==
  /\ Root \in hw
  /\ pc # "idle" => run # 0
  /\ pc = "store" =>
       /\ Root \in Held(tree) /\ todo \subseteq Held(tree)
       /\ todo # Held(tree) => vpdDb.ver = run
       /\ \A c \in Held(tree) \ todo : vpdDb.rows[c] = tree[c]
  /\ rc = 0 /\ (pc \in Finished \/ (pc = "exit" /\ cmd = "update")) => Complete /\ todo = {}
  /\ Succeeded => Complete

\* StoreInv is inductive, given the types.
LEMMA StoreStep == TypeOK /\ StoreInv /\ [Next]_vars => StoreInv'
<1> SUFFICES ASSUME TypeOK, StoreInv, [Next]_vars PROVE StoreInv'
  OBVIOUS
<1> USE UpdateAssumption DEF TypeOK, StoreInv, Complete, Held, Finished, Succeeded,
  disk, env, pointers, work, history, Goto
<1>1. CASE EnsureEnv
  BY <1>1 DEF EnsureEnv
<1>2. CASE SpyreInit
  BY <1>2 DEF SpyreInit
<1>3. CASE ExtractDone
  BY <1>3 DEF ExtractDone
<1>4. CASE LockMain
  BY <1>4 DEF LockMain
<1>5. CASE PruneDone
  BY <1>5 DEF PruneDone
<1>6. CASE LinkArchive
  BY <1>6 DEF LinkArchive, AfterArchive
<1>7. CASE UnlinkDb
  BY <1>7 DEF UnlinkDb
<1>8. CASE ReadLink
  <2>1. CASE failed'
    BY <1>8, <2>1 DEF ReadLink, AfterArchive
  <2>2. CASE ~failed'
    BY <1>8, <2>2 DEF ReadLink, AfterArchive
  <2>3. QED
    BY <2>1, <2>2
<1>9. CASE GzOpen
  BY <1>9 DEF GzOpen, AfterArchive
<1>10. CASE GzWrite
  BY <1>10 DEF GzWrite, AfterArchive
<1>11. CASE Arm
  BY <1>11 DEF Arm
<1>12. CASE CreateDb
  BY <1>12 DEF CreateDb
<1>13. CASE StoreEnds
  BY <1>13 DEF StoreEnds
<1>14. CASE FiniDelete
  BY <1>14 DEF FiniDelete, Freed
<1>15. CASE FiniDisarm
  BY <1>15 DEF FiniDisarm
<1>16. CASE FiniNull
  BY <1>16 DEF FiniNull
<1>17. CASE CleanSpyre
  BY <1>17 DEF CleanSpyre
<1>18. CASE Exit
  BY <1>18 DEF Exit
<1>19. CASE SigUnlink
  BY <1>19 DEF SigUnlink
<1>20. CASE SigDelete
  BY <1>20 DEF SigDelete, Freed
<1>21. CASE SigClear
  BY <1>21 DEF SigClear
<1>22. CASE Kill
  BY <1>22 DEF Kill, Die
<1>23. CASE Signal
  BY <1>23 DEF Signal, EnterHandler, Die
<1>24. CASE Throw
  BY <1>24 DEF Throw, EnterHandler, Die
<1>25. ASSUME NEW s \in Spyres, ExtractKey(s) PROVE StoreInv'
  BY <1>25 DEF ExtractKey
<1>26. ASSUME NEW a \in archives, PruneOne(a) PROVE StoreInv'
  BY <1>26 DEF PruneOne
<1>27. ASSUME NEW fresh \in SUBSET Spyres, NEW busy \in SUBSET Spyres, Gather(fresh, busy) PROVE StoreInv'
  BY <1>27 DEF Gather, NoEntry
<1>28. ASSUME NEW c \in Comps, Store(c) PROVE StoreInv'
  BY <1>28 DEF Store, File, Rows
<1>29. ASSUME NEW c \in Commands, Start(c) PROVE StoreInv'
  BY <1>29 DEF Start, Runs
<1>30. ASSUME NEW c \in Comps, Hotplug(c) PROVE StoreInv'
  BY <1>30 DEF Hotplug
<1>31. CASE UNCHANGED vars
  BY <1>31 DEF vars
<1>32. QED
  BY NextCases, <1>1, <1>2, <1>3, <1>4, <1>5, <1>6, <1>7, <1>8, <1>9, <1>10, <1>11, <1>12, <1>13, <1>14, <1>15, <1>16, <1>17, <1>18, <1>19, <1>20, <1>21, <1>22, <1>23, <1>24, <1>25, <1>26, <1>27, <1>28, <1>29, <1>30, <1>31

\* A run that returns 0 has published its whole tree.
THEOREM SuccessMeansComplete == Spec => []SuccessIsComplete
<1>1. Init => StoreInv
  BY DEF Init, StoreInv, Finished, Succeeded
<1>2. StoreInv => SuccessIsComplete
  BY DEF StoreInv, SuccessIsComplete, Complete, Succeeded
<1>3. QED
  BY <1>1, <1>2, StoreStep, TypeCorrect, PTL DEF Spec

\* Before the handlers are installed there is nothing to clean; afterwards the
\* handler is armed until all is stored (or a store failed), and what follows
\* its unlink finds no vpd.db or a whole one.
CleanOrWhole == Absent(vpdDb) \/ (vpdDb.ver = run /\ todo = {})
Storing == {"create", "gather", "store", "fini", "finiArm"}
AbortInv ==
  /\ pc \in Normal \ (Storing \cup {"finiNull", "cleanSpyre", "exit"}) => ~handlers
  /\ pc \in Storing /\ handlers => dblock
  /\ pc \in Handling => handlers
  /\ pc # "idle" /\ handlers /\ ~dblock /\ rc = 0 => CleanOrWhole
  /\ pc \in {"sigDelete", "sigClear"} /\ rc = 0 => CleanOrWhole
  /\ pc = "idle" /\ outcome = "signal" /\ rc = 0 => CleanOrWhole

\* AbortInv is inductive, given the types and what has been stored.
LEMMA AbortStep == TypeOK /\ StoreInv /\ AbortInv /\ [Next]_vars => AbortInv'
<1> SUFFICES ASSUME TypeOK, StoreInv, AbortInv, [Next]_vars PROVE AbortInv'
  OBVIOUS
<1> USE DEF TypeOK, AbortInv, CleanOrWhole, Storing, Normal, Handling,
  Absent, disk, env, pointers, work, history, Goto
<1>1. CASE EnsureEnv
  BY <1>1 DEF EnsureEnv
<1>2. CASE SpyreInit
  BY <1>2 DEF SpyreInit
<1>3. CASE ExtractDone
  BY <1>3 DEF ExtractDone
<1>4. CASE LockMain
  BY <1>4 DEF LockMain
<1>5. CASE PruneDone
  BY <1>5 DEF PruneDone
<1>6. CASE LinkArchive
  BY <1>6 DEF LinkArchive, AfterArchive
<1>7. CASE UnlinkDb
  BY <1>7 DEF UnlinkDb
<1>8. CASE ReadLink
  <2>1. CASE failed'
    BY <1>8, <2>1 DEF ReadLink, AfterArchive
  <2>2. CASE ~failed'
    BY <1>8, <2>2 DEF ReadLink, AfterArchive
  <2>3. QED
    BY <2>1, <2>2
<1>9. CASE GzOpen
  BY <1>9 DEF GzOpen, AfterArchive
<1>10. CASE GzWrite
  BY <1>10 DEF GzWrite, AfterArchive
<1>11. CASE Arm
  BY <1>11 DEF Arm
<1>12. CASE CreateDb
  BY <1>12 DEF CreateDb
<1>13. CASE StoreEnds
  BY <1>13 DEF StoreEnds
<1>14. CASE FiniDelete
  BY <1>14 DEF FiniDelete, Freed
<1>15. CASE FiniDisarm
  BY <1>15 DEF FiniDisarm, StoreInv, Finished, Complete
<1>16. CASE FiniNull
  BY <1>16 DEF FiniNull
<1>17. CASE CleanSpyre
  BY <1>17 DEF CleanSpyre
<1>18. CASE Exit
  BY <1>18 DEF Exit
<1>19. CASE SigUnlink
  BY <1>19 DEF SigUnlink, NoFile
<1>20. CASE SigDelete
  BY <1>20 DEF SigDelete, Freed
<1>21. CASE SigClear
  BY <1>21 DEF SigClear
<1>22. CASE Kill
  BY <1>22 DEF Kill, Die
<1>23. CASE Signal
  BY <1>23 DEF Signal, EnterHandler, Die
<1>24. CASE Throw
  BY <1>24 DEF Throw, EnterHandler, Die
<1>25. ASSUME NEW s \in Spyres, ExtractKey(s) PROVE AbortInv'
  BY <1>25 DEF ExtractKey
<1>26. ASSUME NEW a \in archives, PruneOne(a) PROVE AbortInv'
  BY <1>26 DEF PruneOne
<1>27. ASSUME NEW fresh \in SUBSET Spyres, NEW busy \in SUBSET Spyres, Gather(fresh, busy) PROVE AbortInv'
  BY <1>27 DEF Gather
<1>28. ASSUME NEW c \in Comps, Store(c) PROVE AbortInv'
  BY <1>28 DEF Store
<1>29. ASSUME NEW c \in Commands, Start(c) PROVE AbortInv'
  BY <1>29 DEF Start
<1>30. ASSUME NEW c \in Comps, Hotplug(c) PROVE AbortInv'
  BY <1>30 DEF Hotplug
<1>31. CASE UNCHANGED vars
  BY <1>31 DEF vars
<1>32. QED
  BY NextCases, <1>1, <1>2, <1>3, <1>4, <1>5, <1>6, <1>7, <1>8, <1>9, <1>10, <1>11, <1>12, <1>13, <1>14, <1>15, <1>16, <1>17, <1>18, <1>19, <1>20, <1>21, <1>22, <1>23, <1>24, <1>25, <1>26, <1>27, <1>28, <1>29, <1>30, <1>31

\* A process ended by a handled signal leaves no half-stored database.
THEOREM AbortLeavesNoPartial == Spec => []NoPartialAfterAbort
<1>1. Init => StoreInv /\ AbortInv
  BY DEF Init, StoreInv, Finished, Succeeded, AbortInv, CleanOrWhole, Storing, Normal, Handling
<1>2. TypeOK /\ AbortInv => NoPartialAfterAbort
  BY DEF AbortInv, NoPartialAfterAbort, CleanOrWhole, Whole, Absent
<1>3. QED
  BY <1>1, <1>2, StoreStep, AbortStep, TypeCorrect, PTL DEF Spec
-----------------------------------------------------------------------------
(* What a run that archived the old database finds when it stores.         *)

Emptied == {"openTs", "gzopen", "gzwrite", "arm", "create"}

\* Unless archiving failed vpd.db is gone when the run creates it, so that
\* while storing it holds what was stored and nothing else.
FreshInv ==
  ~failed =>
    /\ pc \in Emptied => Absent(vpdDb)
    /\ pc = "gather" => vpdDb.rows = NoRows
    /\ pc = "store" =>
         \A c \in Comps : vpdDb.rows[c] = IF c \in todo THEN NoEntry ELSE tree[c]
    /\ rc = 0 /\ (pc \in Finished \/ (pc = "exit" /\ cmd = "update")) => vpdDb.rows = tree
    /\ SuccessIsFresh

\* FreshInv is inductive, given the types and what has been stored.
LEMMA FreshStep == TypeOK /\ StoreInv /\ FreshInv /\ [Next]_vars => FreshInv'
<1> SUFFICES ASSUME TypeOK, StoreInv, FreshInv, [Next]_vars PROVE FreshInv'
  OBVIOUS
<1> USE DEF FreshInv, Emptied, Finished, SuccessIsFresh, Succeeded, Absent,
  disk, env, pointers, work, history, Goto
<1>1. CASE EnsureEnv \/ SpyreInit \/ ExtractDone \/ LockMain \/ PruneDone
  BY <1>1 DEF EnsureEnv, SpyreInit, ExtractDone, LockMain, PruneDone
<1>2. CASE LinkArchive \/ UnlinkDb \/ ReadLink \/ GzOpen \/ GzWrite
  BY <1>2 DEF LinkArchive, UnlinkDb, ReadLink, GzOpen, GzWrite, AfterArchive, NoFile
<1>3. CASE Arm \/ CreateDb
  BY <1>3 DEF Arm, CreateDb
<1>4. CASE StoreEnds
  <2>1. CASE rc' = 0
    <3>1. todo = {} /\ vpdDb' = vpdDb /\ tree' = tree /\ pc = "store"
      BY <1>4, <2>1 DEF StoreEnds
    <3>2. ~failed => \A c \in Comps : vpdDb.rows[c] = tree[c]
      BY <3>1
    <3>3. ~failed => vpdDb.rows = tree
      BY <3>2 DEF TypeOK, File, Rows
    <3>4. QED
      BY <1>4, <3>1, <3>3 DEF StoreEnds
  <2>2. CASE rc' # 0
    BY <1>4, <2>2 DEF StoreEnds
  <2>3. QED
    BY <2>1, <2>2
<1>5. CASE FiniDelete \/ FiniDisarm \/ FiniNull \/ CleanSpyre
  BY <1>5 DEF FiniDelete, FiniDisarm, FiniNull, CleanSpyre
<1>6. CASE Exit
  BY <1>6 DEF Exit, TypeOK
<1>7. CASE SigUnlink \/ SigDelete \/ SigClear
  BY <1>7 DEF SigUnlink, SigDelete, SigClear
<1>8. CASE Kill \/ Signal \/ Throw
  BY <1>8 DEF Kill, Signal, Throw, EnterHandler, Die
<1>9. ASSUME NEW s \in Spyres, ExtractKey(s) PROVE FreshInv'
  BY <1>9 DEF ExtractKey
<1>10. ASSUME NEW a \in archives, PruneOne(a) PROVE FreshInv'
  BY <1>10 DEF PruneOne
<1>11. ASSUME NEW fresh \in SUBSET Spyres, NEW busy \in SUBSET Spyres, Gather(fresh, busy) PROVE FreshInv'
  BY <1>11 DEF Gather, NoRows
<1>12. ASSUME NEW c \in Comps, Store(c) PROVE FreshInv'
  <2>1. vpdDb.rows \in [Comps -> Entry]
    BY DEF TypeOK, File, Rows
  <2>2. QED
    BY <1>12, <2>1 DEF Store
<1>13. ASSUME NEW c \in Commands, Start(c) PROVE FreshInv'
  BY <1>13 DEF Start
<1>14. ASSUME NEW c \in Comps, Hotplug(c) PROVE FreshInv'
  BY <1>14 DEF Hotplug
<1>15. CASE UNCHANGED vars
  BY <1>15 DEF vars
<1>16. QED
  BY NextCases, <1>1, <1>2, <1>3, <1>4, <1>5, <1>6, <1>7, <1>8, <1>9, <1>10, <1>11, <1>12, <1>13, <1>14, <1>15

\* A run that returns 0 after archiving publishes its tree and nothing else.
THEOREM SuccessMeansFresh == Spec => []SuccessIsFresh
<1>1. Init => StoreInv /\ FreshInv
  BY DEF Init, StoreInv, Finished, Succeeded, FreshInv, Emptied, SuccessIsFresh
<1>2. FreshInv => SuccessIsFresh
  BY DEF FreshInv, SuccessIsFresh
<1>3. QED
  BY <1>1, <1>2, StoreStep, FreshStep, TypeCorrect, PTL DEF Spec

-----------------------------------------------------------------------------
(* The database object.                                                    *)

Before == {"ensure", "spyreInit", "extract", "lockMain", "prune", "stat", "unlinkDb",
           "openTs", "gzopen", "gzwrite", "arm", "create", "cleanSpyre", "exit"}

\* Where the program stands says what db points to, as long as no handler runs;
\* a handler never gives way to the program again.
PointerInv ==
  /\ IF sigs > 0 THEN pc \in Handling \cup {"idle"} ELSE pc \notin Handling /\ db # "twice"
  /\ pc \in Before => db = "null"
  /\ pc \in {"gather", "store"} => db = "open"
  /\ pc = "fini" => db \in {"null", "open"}
  /\ pc = "finiArm" \/ pc = "finiNull" => db = "freed"

\* PointerInv is inductive, given the types.
LEMMA PointerStep == TypeOK /\ PointerInv /\ [Next]_vars => PointerInv'
<1> SUFFICES ASSUME TypeOK, PointerInv, [Next]_vars PROVE PointerInv'
  OBVIOUS
<1>0. sigs \in Nat
  BY UpdateAssumption DEF TypeOK
<1> USE <1>0 DEF PointerInv, Before, Handling, disk, env, pointers, work, history, Goto
<1>1. CASE EnsureEnv \/ SpyreInit \/ ExtractDone \/ LockMain \/ PruneDone
  BY <1>1 DEF EnsureEnv, SpyreInit, ExtractDone, LockMain, PruneDone
<1>2. CASE LinkArchive \/ UnlinkDb \/ ReadLink \/ GzOpen \/ GzWrite
  BY <1>2 DEF LinkArchive, UnlinkDb, ReadLink, GzOpen, GzWrite, AfterArchive
<1>3. CASE Arm \/ CreateDb
  BY <1>3 DEF Arm, CreateDb
<1>4. CASE StoreEnds
  BY <1>4 DEF StoreEnds
<1>5. CASE FiniDelete \/ FiniDisarm \/ FiniNull \/ CleanSpyre
  BY <1>5 DEF FiniDelete, FiniDisarm, FiniNull, CleanSpyre, Freed
<1>6. CASE Exit
  BY <1>6 DEF Exit
<1>7. CASE SigUnlink \/ SigDelete \/ SigClear
  BY <1>7 DEF SigUnlink, SigDelete, SigClear, Freed
<1>8. CASE Kill \/ Signal \/ Throw
  BY <1>8 DEF Kill, Signal, Throw, EnterHandler, Die
<1>9. ASSUME NEW s \in Spyres, ExtractKey(s) PROVE PointerInv'
  BY <1>9 DEF ExtractKey
<1>10. ASSUME NEW a \in archives, PruneOne(a) PROVE PointerInv'
  BY <1>10 DEF PruneOne
<1>11. ASSUME NEW fresh \in SUBSET Spyres, NEW busy \in SUBSET Spyres, Gather(fresh, busy) PROVE PointerInv'
  BY <1>11 DEF Gather
<1>12. ASSUME NEW c \in Comps, Store(c) PROVE PointerInv'
  BY <1>12 DEF Store
<1>13. ASSUME NEW c \in Commands, Start(c) PROVE PointerInv'
  BY <1>13 DEF Start
<1>14. ASSUME NEW c \in Comps, Hotplug(c) PROVE PointerInv'
  BY <1>14 DEF Hotplug
<1>15. CASE UNCHANGED vars
  BY <1>15 DEF vars
<1>16. QED
  BY NextCases, <1>1, <1>2, <1>3, <1>4, <1>5, <1>6, <1>7, <1>8, <1>9, <1>10, <1>11, <1>12, <1>13, <1>14, <1>15

\* updater.cpp:681-689, 705-718: nothing is stored through a database object
\* that is deleted, and without a signal it is deleted once.
THEOREM DatabaseDeletedOnce == Spec => []DeletedOnceUnlessSignalled
<1>1. Init => PointerInv
  BY DEF Init, PointerInv, Before, Handling
<1>2. TypeOK /\ PointerInv => DeletedOnceUnlessSignalled
  BY UpdateAssumption DEF TypeOK, PointerInv, DeletedOnceUnlessSignalled
<1>3. QED
  BY <1>1, <1>2, PointerStep, TypeCorrect, PTL DEF Spec

-----------------------------------------------------------------------------
(* The updater implements InventoryStore.                                  *)

ArchivePlaces == {"stat", "unlinkDb", "openTs", "gzopen", "gzwrite", "exit"}

\* A running process finds in vpd.db what the run began with, nothing, or its
\* own database; -a never makes one and never arms the handler.
DbInv ==
  /\ vpdDb.ver <= run
  /\ pc # "idle" =>
       /\ outcome = "none" /\ before.ver < run
       /\ vpdDb.ver = run \/ Absent(vpdDb) \/ vpdDb = before
  /\ pc # "idle" /\ cmd = "archive" =>
       /\ pc \in ArchivePlaces /\ ~handlers
       /\ Absent(vpdDb) \/ vpdDb = before

\* DbInv is inductive, given the types.
LEMMA DbStep == TypeOK /\ DbInv /\ [Next]_vars => DbInv'
<1> SUFFICES ASSUME TypeOK, DbInv, [Next]_vars PROVE DbInv'
  OBVIOUS
<1>0. run \in Nat /\ vpdDb.ver \in Nat /\ before.ver \in Nat
  BY UpdateAssumption DEF TypeOK, Runs, File
<1> USE <1>0 DEF DbInv, ArchivePlaces, Absent, disk, env, pointers, work, history, Goto
<1>1. CASE EnsureEnv \/ SpyreInit \/ ExtractDone \/ LockMain \/ PruneDone
  BY <1>1 DEF EnsureEnv, SpyreInit, ExtractDone, LockMain, PruneDone
<1>2. CASE LinkArchive \/ UnlinkDb \/ ReadLink \/ GzOpen \/ GzWrite
  BY <1>2 DEF LinkArchive, UnlinkDb, ReadLink, GzOpen, GzWrite, AfterArchive, NoFile
<1>3. CASE Arm \/ CreateDb
  BY <1>3 DEF Arm, CreateDb
<1>4. CASE StoreEnds
  BY <1>4 DEF StoreEnds
<1>5. CASE FiniDelete \/ FiniDisarm \/ FiniNull \/ CleanSpyre
  BY <1>5 DEF FiniDelete, FiniDisarm, FiniNull, CleanSpyre
<1>6. CASE Exit
  BY <1>6 DEF Exit
<1>7. CASE SigUnlink \/ SigDelete \/ SigClear
  BY <1>7 DEF SigUnlink, SigDelete, SigClear, NoFile
<1>8. CASE Kill \/ Signal \/ Throw
  BY <1>8 DEF Kill, Signal, Throw, EnterHandler, Die
<1>9. ASSUME NEW s \in Spyres, ExtractKey(s) PROVE DbInv'
  BY <1>9 DEF ExtractKey
<1>10. ASSUME NEW a \in archives, PruneOne(a) PROVE DbInv'
  BY <1>10 DEF PruneOne
<1>11. ASSUME NEW fresh \in SUBSET Spyres, NEW busy \in SUBSET Spyres, Gather(fresh, busy) PROVE DbInv'
  BY <1>11 DEF Gather
<1>12. ASSUME NEW c \in Comps, Store(c) PROVE DbInv'
  BY <1>12 DEF Store
<1>13. ASSUME NEW c \in Commands, Start(c) PROVE DbInv'
  BY <1>13, UpdateAssumption DEF Start
<1>14. ASSUME NEW c \in Comps, Hotplug(c) PROVE DbInv'
  BY <1>14 DEF Hotplug
<1>15. CASE UNCHANGED vars
  BY <1>15 DEF vars
<1>16. QED
  BY NextCases, <1>1, <1>2, <1>3, <1>4, <1>5, <1>6, <1>7, <1>8, <1>9, <1>10, <1>11, <1>12, <1>13, <1>14, <1>15

Shown == IF pc = "idle" THEN [ver |-> vpdDb.ver, whole |-> Whole]
                        ELSE [ver |-> before.ver, whole |-> wholeBefore]
Running == pc # "idle" /\ pc' # "idle"
Ending == pc # "idle" /\ pc' = "idle"

\* A step inside a run shows readers nothing.
LEMMA HiddenStep ==
  ASSUME DbInv, Running, UNCHANGED <<run, outcome, before, wholeBefore>>
  PROVE  UNCHANGED Published!vars
BY DEF Running, DbInv, Published!vars

\* What a process that ends without changing vpd.db leaves to readers.
LEMMA EndStep ==
  ASSUME TypeOK, StoreInv, DbInv, Ending, UNCHANGED <<vpdDb, run, todo, wholeBefore>>
  PROVE  /\ Shown' \in {Shown, Published!Nothing, Published!WholeOfLatest, Published!TornOfLatest}
         /\ Absent(vpdDb) => Shown' = Published!Nothing
         /\ vpdDb.ver = run /\ todo = {} => Shown' = Published!WholeOfLatest
         /\ vpdDb = before => Shown' \in {Shown, Published!Nothing}
<1>1. /\ pc # "idle" /\ pc' = "idle"
      /\ UNCHANGED <<vpdDb, run, todo, wholeBefore>>
      /\ run # 0 /\ before.ver # run
  BY UpdateAssumption DEF Ending, StoreInv, DbInv, TypeOK, Runs, File
<1>2. Absent(vpdDb) => Shown' = Published!Nothing
  BY <1>1 DEF Shown, Whole, Absent, Published!Nothing
<1>3. vpdDb.ver = run /\ todo = {} => Shown' = Published!WholeOfLatest
  BY <1>1 DEF Shown, Whole, Absent, Published!WholeOfLatest
<1>4. vpdDb.ver = run /\ todo # {} => Shown' = Published!TornOfLatest
  BY <1>1 DEF Shown, Whole, Absent, Published!TornOfLatest
<1>5. vpdDb = before /\ ~Absent(vpdDb) => Shown' = Shown
  <2>1. vpdDb = before /\ ~Absent(vpdDb) => Whole' = wholeBefore /\ vpdDb'.ver = before.ver
    BY <1>1 DEF Whole, Absent, TypeOK
  <2>2. QED
    BY <1>1, <2>1 DEF Shown
<1>6. vpdDb.ver = run \/ Absent(vpdDb) \/ vpdDb = before
  BY <1>1 DEF DbInv
<1>7. QED
  BY <1>2, <1>3, <1>4, <1>5, <1>6

\* Every step of the updater is a step of the inventory store or is hidden.
LEMMA PublishStep ==
  TypeOK /\ StoreInv /\ AbortInv /\ DbInv /\ [Next]_vars => [Published!Next]_(Published!vars)
<1> SUFFICES ASSUME TypeOK, StoreInv, AbortInv, DbInv, [Next]_vars
             PROVE  [Published!Next]_(Published!vars)
  OBVIOUS
<1> USE DEF Running, Ending, disk, env, pointers, work, history, Goto
<1>1. CASE EnsureEnv \/ SpyreInit \/ ExtractDone \/ LockMain \/ PruneDone
  BY <1>1, HiddenStep DEF EnsureEnv, SpyreInit, ExtractDone, LockMain, PruneDone
<1>2. CASE LinkArchive \/ UnlinkDb \/ ReadLink \/ GzOpen \/ GzWrite
  BY <1>2, HiddenStep DEF LinkArchive, UnlinkDb, ReadLink, GzOpen, GzWrite, AfterArchive
<1>3. CASE Arm \/ CreateDb
  BY <1>3, HiddenStep DEF Arm, CreateDb
<1>4. CASE StoreEnds
  BY <1>4, HiddenStep DEF StoreEnds
<1>5. CASE FiniDelete \/ FiniDisarm \/ FiniNull \/ CleanSpyre
  BY <1>5, HiddenStep DEF FiniDelete, FiniDisarm, FiniNull, CleanSpyre
<1>6. CASE Exit
  <2>1. Ending /\ UNCHANGED <<vpdDb, run, todo, wholeBefore, rc>>
    BY <1>6 DEF Exit
  <2>2. CASE cmd = "archive"
    <3>1. outcome' = "archived" /\ Shown' \in {Shown, Published!Nothing}
      BY <1>6, <2>1, <2>2, EndStep DEF Exit, DbInv
    <3>2. Published!Archive
      BY <2>1, <3>1 DEF Published!Archive, Shown
    <3>3. QED
      BY <3>2 DEF Published!Next
  <2>3. CASE cmd # "archive" /\ rc = 0
    <3>1. outcome' = "ok" /\ vpdDb.ver = run /\ todo = {}
      BY <1>6, <2>3 DEF Exit, TypeOK, StoreInv, Complete
    <3>2. Shown' = Published!WholeOfLatest
      BY <2>1, <3>1, EndStep
    <3>3. Published!Succeed
      BY <2>1, <3>1, <3>2 DEF Published!Succeed, Shown
    <3>4. QED
      BY <3>3 DEF Published!Next
  <2>4. CASE cmd # "archive" /\ rc # 0
    <3>1. outcome' = "error"
      BY <1>6, <2>4 DEF Exit
    <3>2. Published!Abort
      BY <2>1, <3>1, EndStep DEF Published!Abort, Shown
    <3>3. QED
      BY <3>2 DEF Published!Next
  <2>5. QED
    BY <2>2, <2>3, <2>4
<1>7. CASE SigUnlink \/ SigDelete
  BY <1>7, HiddenStep DEF SigUnlink, SigDelete
<1>8. CASE SigClear
  <2>1. Ending /\ outcome' = "signal" /\ UNCHANGED <<vpdDb, run, todo, wholeBefore, rc>>
    BY <1>8 DEF SigClear
  <2>2. CASE rc = 1
    BY <2>1, <2>2, EndStep DEF Published!Next, Published!Abort, Shown
  <2>3. CASE rc # 1
    <3>1. Absent(vpdDb) \/ (vpdDb.ver = run /\ todo = {})
      BY <1>8, <2>3 DEF SigClear, TypeOK, AbortInv, CleanOrWhole
    <3>2. Shown' \in {Published!Nothing, Published!WholeOfLatest}
      BY <2>1, <3>1, EndStep
    <3>3. Published!Abort
      BY <2>1, <2>3, <3>2 DEF Published!Abort, Shown
    <3>4. QED
      BY <3>3 DEF Published!Next
  <2>4. QED
    BY <2>2, <2>3
<1>9. CASE Kill \/ Signal \/ Throw
  <2>1. pc # "idle"
    BY <1>9 DEF Kill, Signal, Throw
  <2>2. CASE pc' = "sigUnlink"
    BY <1>9, <2>1, <2>2, HiddenStep DEF Kill, Signal, Throw, EnterHandler, Die
  <2>3. CASE pc' # "sigUnlink"
    <3>1. Ending /\ outcome' = "killed" /\ UNCHANGED <<vpdDb, run, todo, wholeBefore>>
      BY <1>9, <2>1, <2>3 DEF Kill, Signal, Throw, EnterHandler, Die
    <3>2. Published!Abort
      BY <3>1, EndStep DEF Published!Abort, Shown
    <3>3. QED
      BY <3>2 DEF Published!Next
  <2>4. QED
    BY <2>2, <2>3
<1>10. ASSUME NEW s \in Spyres, ExtractKey(s) PROVE [Published!Next]_(Published!vars)
  BY <1>10, HiddenStep DEF ExtractKey
<1>11. ASSUME NEW a \in archives, PruneOne(a) PROVE [Published!Next]_(Published!vars)
  BY <1>11, HiddenStep DEF PruneOne
<1>12. ASSUME NEW fresh \in SUBSET Spyres, NEW busy \in SUBSET Spyres, Gather(fresh, busy) PROVE [Published!Next]_(Published!vars)
  BY <1>12, HiddenStep DEF Gather
<1>13. ASSUME NEW c \in Comps, Store(c) PROVE [Published!Next]_(Published!vars)
  BY <1>13, HiddenStep DEF Store
<1>14. ASSUME NEW c \in Commands, Start(c) PROVE [Published!Next]_(Published!vars)
  BY <1>14, UpdateAssumption DEF Start, Published!Next, Published!Begin
<1>15. ASSUME NEW c \in Comps, Hotplug(c) PROVE [Published!Next]_(Published!vars)
  BY <1>15 DEF Hotplug, Published!vars, Whole, Absent
<1>16. CASE UNCHANGED vars
  BY <1>16 DEF vars, Published!vars, Whole, Absent
<1>17. QED
  BY NextCases, <1>1, <1>2, <1>3, <1>4, <1>5, <1>6, <1>7, <1>8, <1>9, <1>10, <1>11, <1>12, <1>13, <1>14, <1>15, <1>16

\* The updater implements the abstract inventory.
THEOREM ImplementsStore == Spec => PublishedSpec
<1>1. Init => Published!Init
  <2>1. Init => vpdDb.ver = 0 /\ Whole = FALSE
    BY DEF Init, NoFile, Whole, Absent
  <2>2. QED
    BY <2>1 DEF Init, Published!Init, Published!Nothing
<1>2. Init => StoreInv /\ AbortInv /\ DbInv
  BY DEF Init, StoreInv, Finished, Succeeded, AbortInv, CleanOrWhole, Storing, Normal,
    Handling, DbInv, NoFile
<1>3. QED
  BY <1>1, <1>2, StoreStep, AbortStep, DbStep, PublishStep, TypeCorrect, PTL
    DEF Spec, PublishedSpec, Published!Spec

-----------------------------------------------------------------------------
(* The VPD of Spyre adapters in use.                                       *)

Extracted == {"lockMain", "prune", "stat", "unlinkDb", "openTs", "gzopen", "gzwrite",
              "arm", "create", "gather"}
Wanted == {s \in Spyres \cap clean : before.rows[s].vpd}

\* What the old database holds of an adapter that stays plugged in is still to
\* be copied, then in spyre.db until the tree is gathered, then in the tree.
RetainInv ==
  /\ (Absent(vpdDb) => vpdDb = NoFile) /\ (Absent(before) => before = NoFile)
  /\ pc = "extract" => \A s \in Wanted \cap hw : s \in keys \cup spyre.vpd
  /\ pc \in Extracted /\ cmd = "update" => \A s \in Wanted \cap hw : s \in spyre.vpd
  /\ \A s \in Wanted : tree[s] # NoEntry => tree[s].vpd

\* RetainInv is inductive, given the types and where the old database is.
LEMMA RetainStep == TypeOK /\ CopyInv /\ StoreInv /\ DbInv /\ RetainInv /\ [Next]_vars => RetainInv'
<1> SUFFICES ASSUME TypeOK, CopyInv, StoreInv, DbInv, RetainInv, [Next]_vars PROVE RetainInv'
  OBVIOUS
<1> USE DEF RetainInv, Extracted, Wanted, Absent, disk, env, pointers, work, history, Goto
<1>1. CASE EnsureEnv \/ LockMain \/ PruneDone
  BY <1>1 DEF EnsureEnv, LockMain, PruneDone
<1>2. CASE SpyreInit
  <2>1. vpdDb = before /\ before.rows \in [Comps -> Entry] /\ Spyres \subseteq Comps
    BY <1>2, UpdateAssumption DEF SpyreInit, CopyInv, Untouched, TypeOK, File, Rows
  <2>2. \A s \in Wanted : s \in Held(before.rows)
    BY <2>1 DEF Held, NoEntry
  <2>3. Absent(vpdDb) => Wanted = {}
    BY <2>1, UpdateAssumption DEF NoFile, NoRows, NoEntry
  <2>4. QED
    BY <1>2, <2>1, <2>2, <2>3 DEF SpyreInit
<1>3. CASE ExtractDone
  BY <1>3 DEF ExtractDone
<1>4. CASE LinkArchive \/ UnlinkDb \/ ReadLink \/ GzOpen \/ GzWrite
  BY <1>4 DEF LinkArchive, UnlinkDb, ReadLink, GzOpen, GzWrite, AfterArchive
<1>5. CASE Arm \/ CreateDb
  BY <1>5, UpdateAssumption DEF Arm, CreateDb, StoreInv
<1>6. CASE StoreEnds
  BY <1>6 DEF StoreEnds
<1>7. CASE FiniDelete \/ FiniDisarm \/ FiniNull \/ CleanSpyre \/ Exit
  BY <1>7 DEF FiniDelete, FiniDisarm, FiniNull, CleanSpyre, Exit
<1>8. CASE SigUnlink \/ SigDelete \/ SigClear
  BY <1>8 DEF SigUnlink, SigDelete, SigClear
<1>9. CASE Kill \/ Signal \/ Throw
  BY <1>9 DEF Kill, Signal, Throw, EnterHandler, Die
<1>10. ASSUME NEW s \in Spyres, ExtractKey(s) PROVE RetainInv'
  <2>1. vpdDb = before
    BY <1>10 DEF ExtractKey, CopyInv, Untouched
  <2>2. /\ spyre.vpd \subseteq spyre'.vpd
        /\ s \in hw /\ before.rows[s].vpd => s \in spyre'.vpd \/ s \notin clean'
    <3>1. CASE spyre' = spyre /\ clean' = clean \ {s}
      BY <3>1
    <3>2. CASE spyre' = [spyre EXCEPT !.vpd = IF s \in hw /\ vpdDb.rows[s].vpd THEN @ \cup {s} ELSE @]
      BY <2>1, <3>2 DEF TypeOK, SpyreFile
    <3>3. QED
      BY <1>10, <3>1, <3>2 DEF ExtractKey
  <2>3. keys' = keys \ {s} /\ clean' \subseteq clean /\ UNCHANGED <<vpdDb, hw, pc, cmd, tree, before>> /\ pc = "extract"
    BY <1>10 DEF ExtractKey
  <2>4. QED
    BY <2>1, <2>2, <2>3
<1>11. ASSUME NEW a \in archives, PruneOne(a) PROVE RetainInv'
  BY <1>11 DEF PruneOne
<1>12. ASSUME NEW fresh \in SUBSET Spyres, NEW busy \in SUBSET Spyres, Gather(fresh, busy) PROVE RetainInv'
  <2>1. cmd = "update" /\ pc = "gather" /\ pc' = "store" /\ clean' \subseteq clean
        /\ UNCHANGED <<vpdDb, before>>
    BY <1>12 DEF Gather, DbInv, ArchivePlaces, TypeOK
  <2>2. ASSUME NEW s \in Wanted', tree'[s] # NoEntry PROVE tree'[s].vpd
    <3>1. s \in Comps /\ s \in Wanted /\ s \in hw
      BY <1>12, <2>1, <2>2, UpdateAssumption DEF Gather
    <3>2. s \in fresh \cup busy /\ s \in spyre.vpd
      BY <1>12, <2>1, <2>2, <3>1 DEF Gather
    <3>3. QED
      BY <1>12, <3>1, <3>2 DEF Gather
  <2>3. QED
    BY <2>1, <2>2
<1>13. ASSUME NEW c \in Comps, Store(c) PROVE RetainInv'
  BY <1>13 DEF Store, StoreInv
<1>14. ASSUME NEW c \in Commands, Start(c) PROVE RetainInv'
  BY <1>14, UpdateAssumption DEF Start, NoRows
<1>15. ASSUME NEW c \in Comps, Hotplug(c) PROVE RetainInv'
  BY <1>15 DEF Hotplug
<1>16. CASE UNCHANGED vars
  BY <1>16 DEF vars
<1>17. QED
  BY NextCases, <1>1, <1>2, <1>3, <1>4, <1>5, <1>6, <1>7, <1>8, <1>9, <1>10, <1>11, <1>12, <1>13, <1>14, <1>15, <1>16

\* updater.cpp:482-498, 546: a Spyre adapter that a container keeps busy has in
\* the new database the VPD it had in the old one.
THEOREM BusyAdaptersKeepVpd == Spec => []RetainedWithinRun
<1>1. Init => CopyInv /\ StoreInv /\ DbInv /\ RetainInv
  <2>1. Init => CopyInv
    BY DEF Init, CopyInv, Untouched, Linked, GzWindow, Unarmed, Armed, OldInventoryKept, Absent, NoFile
  <2>2. Init => StoreInv /\ DbInv
    BY DEF Init, StoreInv, Finished, Succeeded, DbInv, NoFile
  <2>3. Init => RetainInv
    BY UpdateAssumption DEF Init, RetainInv, Wanted, Extracted, NoFile, NoRows, NoEntry
  <2>4. QED
    BY <2>1, <2>2, <2>3
<1>2. TypeOK /\ StoreInv /\ RetainInv => RetainedWithinRun
  BY UpdateAssumption DEF TypeOK, StoreInv, Complete, Held, Rows, RetainInv, Wanted, RetainedWithinRun
<1>3. QED
  BY <1>1, <1>2, CopyStep, StoreStep, DbStep, RetainStep, TypeCorrect, PTL DEF Spec
=============================================================================
