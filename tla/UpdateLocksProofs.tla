--------------------------- MODULE UpdateLocksProofs ---------------------------
(***************************************************************************)
(* Proofs about UpdateLocks, for every number of updaters, archivers and   *)
(* readers and of runs of each, with signals, kills and failing steps.      *)
(***************************************************************************)
EXTENDS UpdateLocks, TLAPS

\* The steps, by the program that takes them and by what they change.
LEMMA NextCases ==
  ASSUME Next
  PROVE  \/ \E u \in Updaters :
              \/ Start(u) \/ OpenSpyreLock(u) \/ TakeSpyreLock(u) \/ InitSpyre(u)
              \/ LockForExtract(u) \/ LockForUpdate(u)
              \/ ArchiveOld(u) \/ CreateNew(u) \/ StoreFirst(u) \/ StoreRest(u) \/ StoreFails(u)
              \/ FiniDelete(u) \/ FiniDisarm(u) \/ CleanSpyre(u)
              \/ UnlinkLock(u) \/ Exit(u) \/ SigUnlink(u) \/ SigEnd(u)
              \/ Kill(u) \/ Signal(u)
         \/ \E a \in Archivers : StartArchive(a) \/ LockForArchive(a) \/ ArchiveDB(a) \/ Exit(a)
         \/ \E r \in Readers : StartRead(r) \/ LockForRead(r) \/ Read(r) \/ Exit(r)
BY DEF Next, Update, ArchiveRun, ReadRun

Pcs == Early \cup Handled \cup Handling \cup {"idle", "read", "reread"}

-----------------------------------------------------------------------------
(* Type correctness.                                                       *)

LEMMA TypedGone ==
  ASSUME TypeOK, NEW p \in Procs, Gone(p), cut' \in BOOLEAN, kept' = kept
  PROVE  TypeOK'
BY DEF Gone, Release, TypeOK, files, Procs, Handled

LEMMA TypedArchive ==
  ASSUME TypeOK, Archive
  PROVE  vpd' \in Database /\ cut' \in BOOLEAN /\ kept' \in BOOLEAN
<1>1. CASE vpd' = NoDb /\ cut' = FALSE /\ kept' = FALSE
  BY <1>1 DEF NoDb, Database
<1>2. CASE kept' = TRUE /\ UNCHANGED <<vpd, cut>>
  BY <1>2 DEF TypeOK
<1> QED
  BY <1>1, <1>2 DEF Archive

LEMMA UpdaterTyped ==
  ASSUME TypeOK, NEW u \in Updaters,
         \/ Start(u) \/ OpenSpyreLock(u) \/ TakeSpyreLock(u) \/ InitSpyre(u)
         \/ LockForExtract(u) \/ LockForUpdate(u)
         \/ ArchiveOld(u) \/ CreateNew(u) \/ StoreFirst(u) \/ StoreRest(u) \/ StoreFails(u)
         \/ FiniDelete(u) \/ FiniDisarm(u) \/ CleanSpyre(u)
         \/ UnlinkLock(u) \/ Exit(u) \/ SigUnlink(u) \/ SigEnd(u)
         \/ Kill(u) \/ Signal(u)
  PROVE  TypeOK'
<1> USE DEF files, locks, history, Move
<1>0. u \in Procs /\ MaxRuns \in Nat
  BY LocksAssumption DEF Procs
<1>1. CASE Start(u)
  BY <1>0, <1>1 DEF Start, TypeOK, Early
<1>2. CASE OpenSpyreLock(u)
  BY <1>0, <1>2 DEF OpenSpyreLock, TypeOK, Early
<1>3. CASE TakeSpyreLock(u)
  BY <1>0, <1>3 DEF TakeSpyreLock, TypeOK, Early
<1>4. CASE InitSpyre(u)
  BY <1>0, <1>4 DEF InitSpyre, TypeOK, Early
<1>5. CASE LockForExtract(u)
  BY <1>0, <1>5 DEF LockForExtract, TakeShared, TypeOK, Early
<1>6. CASE StoreFirst(u)
  BY <1>0, <1>6 DEF StoreFirst, TypeOK, Handled, Database
<1>7. CASE LockForUpdate(u)
  BY <1>0, <1>7 DEF LockForUpdate, TakeExclusive, TypeOK, Early
<1>8. CASE ArchiveOld(u)
  BY <1>0, <1>8, TypedArchive DEF ArchiveOld, TypeOK, Handled
<1>9. CASE CreateNew(u)
  BY <1>0, <1>9 DEF CreateNew, TypeOK, Handled, Database
<1>10. CASE StoreRest(u)
  BY <1>0, <1>10 DEF StoreRest, TypeOK, Handled, Database
<1>11. CASE FiniDelete(u)
  BY <1>0, <1>11 DEF FiniDelete, TypeOK, Handled
<1>12. CASE FiniDisarm(u)
  BY <1>0, <1>12 DEF FiniDisarm, TypeOK, Handled
<1>13. CASE CleanSpyre(u)
  BY <1>0, <1>13 DEF CleanSpyre, TypeOK, Handled
<1>14. CASE StoreFails(u)
  BY <1>0, <1>14 DEF StoreFails, TypeOK, Handled
<1>15. CASE UnlinkLock(u)
  BY <1>0, <1>15 DEF UnlinkLock, TypeOK, Handled
<1>16. CASE SigUnlink(u)
  BY <1>0, <1>16 DEF SigUnlink, NoDb, TypeOK, Handling, Database
<1>17. CASE Exit(u) \/ SigEnd(u)
  BY <1>0, <1>17, TypedGone DEF Exit, SigEnd, TypeOK
<1>18. CASE Kill(u)
  <2>1. cut' \in BOOLEAN /\ kept' = kept
    BY <1>18 DEF Kill, TypeOK
  <2> QED
    BY <1>0, <1>18, <2>1, TypedGone DEF Kill
<1>19. CASE Signal(u)
  <2>1. CASE Gone(u) /\ UNCHANGED history
    BY <1>0, <2>1, TypedGone DEF TypeOK
  <2>2. CASE pc' = [pc EXCEPT ![u] = "sigUnlink"] /\ UNCHANGED <<files, locks, runs, dblock, got, history>>
    BY <1>0, <2>2 DEF TypeOK, Handling
  <2> QED
    BY <1>19, <2>1, <2>2 DEF Signal
<1> QED
  BY <1>1, <1>2, <1>3, <1>4, <1>5, <1>6, <1>7, <1>8, <1>9, <1>10, <1>11, <1>12, <1>13, <1>14,
     <1>15, <1>16, <1>17, <1>18, <1>19

LEMMA NextTyped == TypeOK /\ [Next]_vars => TypeOK'
<1> SUFFICES ASSUME TypeOK, [Next]_vars PROVE TypeOK'
  OBVIOUS
<1> USE DEF files, locks, history, Move
<1>0. Updaters \subseteq Procs /\ Archivers \subseteq Procs /\ Readers \subseteq Procs /\ MaxRuns \in Nat
  BY LocksAssumption DEF Procs
<1>1. ASSUME NEW a \in Archivers, StartArchive(a) \/ LockForArchive(a) \/ ArchiveDB(a) \/ Exit(a)
      PROVE  TypeOK'
  <2>1. CASE StartArchive(a)
    BY <1>0, <2>1 DEF StartArchive, TypeOK, Early
  <2>2. CASE LockForArchive(a)
    BY <1>0, <2>2 DEF LockForArchive, TakeExclusive, TypeOK, Early
  <2>3. CASE ArchiveDB(a)
    BY <1>0, <2>3, TypedArchive DEF ArchiveDB, TypeOK, Handled
  <2>4. CASE Exit(a)
    BY <1>0, <2>4, TypedGone DEF Exit, TypeOK
  <2> QED
    BY <1>1, <2>1, <2>2, <2>3, <2>4
<1>2. ASSUME NEW r \in Readers, StartRead(r) \/ LockForRead(r) \/ Read(r) \/ Exit(r)
      PROVE  TypeOK'
  <2>1. CASE StartRead(r)
    BY <1>0, <2>1 DEF StartRead, TypeOK, Early
  <2>2. CASE LockForRead(r)
    BY <1>0, <2>2 DEF LockForRead, TakeShared, TypeOK, Early
  <2>3. CASE Read(r)
    <3>1. pc' \in [Procs -> Pcs]
      BY <1>0, <2>3 DEF Read, TypeOK, Pcs, Handled
    <3>2. got' \in [Readers -> SUBSET Database]
      BY <2>3 DEF Read, TypeOK
    <3> QED
      BY <2>3, <3>1, <3>2 DEF Read, TypeOK, Pcs
  <2>4. CASE Exit(r)
    BY <1>0, <2>4, TypedGone DEF Exit, TypeOK
  <2> QED
    BY <1>2, <2>1, <2>2, <2>3, <2>4
<1>3. CASE UNCHANGED vars
  BY <1>3 DEF vars, TypeOK, history
<1> QED
  BY <1>1, <1>2, <1>3, NextCases, UpdaterTyped

LEMMA InitTyped == Init => TypeOK
<1> SUFFICES ASSUME Init PROVE TypeOK
  OBVIOUS
<1>1. cut \in BOOLEAN /\ kept \in BOOLEAN
  BY Zenon DEF Init
<1>2. vpd \in Database
  BY DEF Init, NoDb, Database
<1>3. runs \in [Procs -> 0 .. MaxRuns]
  BY LocksAssumption DEF Init
<1> QED
  BY <1>1, <1>2, <1>3 DEF Init, TypeOK, Procs

\* Type correctness of the programs and their locks.
THEOREM LocksTypeCorrect == Spec => []TypeOK
BY InitTyped, NextTyped, PTL DEF Spec

-----------------------------------------------------------------------------
(* Who holds vpd.db-updatelock, by the place of each program.              *)

Writers == Updaters \cup Archivers
Writing == {"archive"} \cup Handled \cup Handling

Alone == \A p, q \in Procs : p # q /\ main[p] = "ex" => main[q] = "none"
WriterPlaces ==
  /\ \A p \in Writers : main[p] = "ex" <=> pc[p] \in Writing
  /\ \A a \in Archivers : pc[a] \in {"idle", "wantEx", "archive", "exit"}
ReaderPlaces ==
  \A r \in Readers :
    /\ pc[r] \in {"idle", "wantShared", "read", "reread", "exit"}
    /\ main[r] # "ex"
    /\ pc[r] \in {"read", "reread", "exit"} => main[r] = "sh"
LockInv == Alone /\ WriterPlaces /\ ReaderPlaces

\* A step that leaves main alone and stays on its side of the lock.
LEMMA LockKept ==
  ASSUME TypeOK, LockInv, NEW p \in Procs, NEW to, main' = main, pc' = [pc EXCEPT ![p] = to],
         p \in Writers => (pc[p] \in Writing <=> to \in Writing),
         p \in Archivers => to \in {"idle", "wantEx", "archive", "exit"},
         p \in Readers => /\ to \in {"idle", "wantShared", "read", "reread", "exit"}
                          /\ to \in {"read", "reread", "exit"} => main[p] = "sh"
  PROVE  LockInv'
<1>0. Writers \subseteq Procs /\ Archivers \subseteq Procs /\ Readers \subseteq Procs
  BY DEF Writers, Procs
<1>1. Alone'
  BY DEF LockInv, Alone
<1>2. WriterPlaces'
  BY <1>0 DEF LockInv, WriterPlaces, TypeOK
<1>3. ReaderPlaces'
  BY <1>0 DEF LockInv, ReaderPlaces, TypeOK
<1> QED
  BY <1>1, <1>2, <1>3 DEF LockInv

\* A step that takes the lock shared.
LEMMA LockShared ==
  ASSUME TypeOK, LockInv, NEW p \in Procs, NEW to, TakeShared(p), pc' = [pc EXCEPT ![p] = to],
         p \in Writers => pc[p] \notin Writing /\ to \notin Writing,
         p \notin Archivers,
         p \in Readers => to \in {"read", "reread", "exit"}
  PROVE  LockInv'
<1>0. Writers \subseteq Procs /\ Archivers \subseteq Procs /\ Readers \subseteq Procs
  BY DEF Writers, Procs
<1>1. Alone'
  BY DEF LockInv, Alone, TakeShared, TypeOK
<1>2. WriterPlaces'
  BY <1>0 DEF LockInv, WriterPlaces, TakeShared, TypeOK
<1>3. ReaderPlaces'
  BY <1>0 DEF LockInv, ReaderPlaces, TakeShared, TypeOK
<1> QED
  BY <1>1, <1>2, <1>3 DEF LockInv

\* A step that takes the lock alone.
LEMMA LockExclusive ==
  ASSUME TypeOK, LockInv, NEW p \in Writers, TakeExclusive(p), pc' = [pc EXCEPT ![p] = "archive"]
  PROVE  LockInv'
<1>0. Writers \subseteq Procs /\ Archivers \subseteq Procs /\ Readers \subseteq Procs
  BY DEF Writers, Procs
<1>1. Alone'
  BY <1>0 DEF LockInv, Alone, TakeExclusive, TypeOK
<1>2. WriterPlaces'
  BY <1>0 DEF LockInv, WriterPlaces, TakeExclusive, TypeOK, Writing
<1>3. ReaderPlaces'
  BY <1>0, LocksAssumption DEF LockInv, ReaderPlaces, TakeExclusive, TypeOK, Writers
<1> QED
  BY <1>1, <1>2, <1>3 DEF LockInv

\* The end of a process.
LEMMA LockGone ==
  ASSUME TypeOK, LockInv, NEW p \in Procs, Gone(p)
  PROVE  LockInv'
<1>0. Writers \subseteq Procs /\ Archivers \subseteq Procs /\ Readers \subseteq Procs
  BY DEF Writers, Procs
<1>1. Alone'
  BY DEF LockInv, Alone, Gone, Release, TypeOK
<1>2. WriterPlaces'
  BY <1>0 DEF LockInv, WriterPlaces, Gone, Release, TypeOK, Writing, Handled, Handling
<1>3. ReaderPlaces'
  BY <1>0 DEF LockInv, ReaderPlaces, Gone, Release, TypeOK
<1> QED
  BY <1>1, <1>2, <1>3 DEF LockInv

LEMMA NextKeepsLockInv == TypeOK /\ LockInv /\ [Next]_vars => LockInv'
<1> SUFFICES ASSUME TypeOK, LockInv, [Next]_vars PROVE LockInv'
  OBVIOUS
<1> USE DEF files, locks, history, Move
<1>0. /\ Updaters \subseteq Writers /\ Archivers \subseteq Writers /\ Writers \subseteq Procs
      /\ Readers \subseteq Procs
      /\ Updaters \cap Archivers = {} /\ Readers \cap Writers = {}
  BY LocksAssumption DEF Procs, Writers
<1>1. ASSUME NEW u \in Updaters,
             \/ Start(u) \/ OpenSpyreLock(u) \/ TakeSpyreLock(u) \/ InitSpyre(u)
             \/ LockForExtract(u) \/ LockForUpdate(u)
             \/ ArchiveOld(u) \/ CreateNew(u) \/ StoreFirst(u) \/ StoreRest(u) \/ StoreFails(u)
             \/ FiniDelete(u) \/ FiniDisarm(u) \/ CleanSpyre(u)
             \/ UnlinkLock(u) \/ Exit(u) \/ SigUnlink(u) \/ SigEnd(u)
             \/ Kill(u) \/ Signal(u)
      PROVE  LockInv'
  <2>0. u \in Procs /\ u \in Writers /\ u \notin Archivers /\ u \notin Readers
    BY <1>0
  <2>1. CASE Start(u) \/ OpenSpyreLock(u) \/ TakeSpyreLock(u) \/ InitSpyre(u)
    <3>1. PICK to \in Early : main' = main /\ pc' = [pc EXCEPT ![u] = to] /\ to # "archive"
                               /\ pc[u] \notin Writing
      BY <2>1 DEF Start, OpenSpyreLock, TakeSpyreLock, InitSpyre, Early, Writing, Handled,
                  Handling
    <3>2. to \notin Writing
      BY <3>1 DEF Early, Writing, Handled, Handling
    <3> QED
      BY <2>0, <3>1, <3>2, LockKept
  <2>2. CASE ArchiveOld(u) \/ CreateNew(u) \/ StoreFirst(u) \/ StoreRest(u) \/ StoreFails(u)
               \/ FiniDelete(u) \/ FiniDisarm(u) \/ CleanSpyre(u) \/ UnlinkLock(u) \/ SigUnlink(u)
    <3>1. PICK to \in Writing : main' = main /\ pc' = [pc EXCEPT ![u] = to] /\ pc[u] \in Writing
      BY <2>2 DEF ArchiveOld, CreateNew, StoreFirst, StoreRest, StoreFails, FiniDelete, FiniDisarm,
                  CleanSpyre, UnlinkLock, SigUnlink, Writing, Handled, Handling
    <3> QED
      BY <2>0, <3>1, LockKept
  <2>3. CASE LockForExtract(u)
    BY <2>0, <2>3, LockShared DEF LockForExtract, Writing, Handled, Handling
  <2>4. CASE LockForUpdate(u)
    BY <2>0, <2>4, LockExclusive DEF LockForUpdate
  <2>5. CASE Exit(u) \/ SigEnd(u) \/ Kill(u)
    BY <2>0, <2>5, LockGone DEF Exit, SigEnd, Kill
  <2>6. CASE Signal(u)
    <3>1. CASE Gone(u)
      BY <2>0, <3>1, LockGone
    <3>2. CASE pc[u] \in Handled /\ pc' = [pc EXCEPT ![u] = "sigUnlink"] /\ main' = main
      <4>1. pc[u] \in Writing /\ "sigUnlink" \in Writing
        BY <3>2 DEF Writing, Handling
      <4> QED
        BY <2>0, <3>2, <4>1, LockKept
    <3> QED
      BY <2>6, <3>1, <3>2 DEF Signal
  <2> QED
    BY <1>1, <2>1, <2>2, <2>3, <2>4, <2>5, <2>6
<1>2. ASSUME NEW a \in Archivers, StartArchive(a) \/ LockForArchive(a) \/ ArchiveDB(a) \/ Exit(a)
      PROVE  LockInv'
  <2>0. a \in Procs /\ a \in Writers /\ a \notin Readers
    BY <1>0
  <2>1. CASE StartArchive(a)
    BY <2>0, <2>1, LockKept DEF StartArchive, Writing, Handled, Handling
  <2>2. CASE LockForArchive(a)
    BY <2>0, <2>2, LockExclusive DEF LockForArchive
  <2>3. CASE ArchiveDB(a)
    BY <2>0, <2>3, LockKept DEF ArchiveDB, Writing, Handled, Handling
  <2>4. CASE Exit(a)
    BY <2>0, <2>4, LockGone DEF Exit
  <2> QED
    BY <1>2, <2>1, <2>2, <2>3, <2>4
<1>3. ASSUME NEW r \in Readers, StartRead(r) \/ LockForRead(r) \/ Read(r) \/ Exit(r)
      PROVE  LockInv'
  <2>0. r \in Procs /\ r \notin Writers /\ r \notin Archivers
    BY <1>0
  <2>1. CASE StartRead(r)
    BY <2>0, <2>1, LockKept DEF StartRead
  <2>2. CASE LockForRead(r)
    BY <2>0, <2>2, LockShared DEF LockForRead
  <2>3. CASE Read(r)
    <3>1. main[r] = "sh" /\ main' = main
      BY <1>3, <2>3 DEF Read, LockInv, ReaderPlaces
    <3> QED
      BY <2>0, <2>3, <3>1, LockKept DEF Read
  <2>4. CASE Exit(r)
    BY <2>0, <2>4, LockGone DEF Exit
  <2> QED
    BY <1>3, <2>1, <2>2, <2>3, <2>4
<1>4. CASE UNCHANGED vars
  BY <1>4 DEF vars, LockInv, Alone, WriterPlaces, ReaderPlaces
<1> QED
  BY <1>1, <1>2, <1>3, <1>4, NextCases

\* In every state the lock is where the programs' places say it is.
THEOREM LocksWherePlaced == Spec => [](TypeOK /\ LockInv)
<1>1. Init => LockInv
  BY DEF Init, LockInv, Alone, WriterPlaces, ReaderPlaces, Procs, Writers, Writing, Handled, Handling
<1> QED
  BY <1>1, InitTyped, NextTyped, NextKeepsLockInv, PTL DEF Spec

\* Whoever changes vpd.db is a writer at a place where he holds its lock.
LEMMA WriterMoves ==
  ASSUME TypeOK, LockInv, Next, vpd' # vpd
  PROVE  \E p \in Procs : main[p] = "ex" /\ pc'[p] # pc[p]
<1> USE DEF files, locks, history, Move
<1>0. Writers \subseteq Procs
  BY DEF Procs, Writers
<1>1. \/ \E u \in Updaters : ArchiveOld(u) \/ CreateNew(u) \/ StoreFirst(u) \/ StoreRest(u) \/ SigUnlink(u)
      \/ \E a \in Archivers : ArchiveDB(a)
  <2>1. ASSUME NEW u \in Updaters,
               \/ Start(u) \/ OpenSpyreLock(u) \/ TakeSpyreLock(u) \/ InitSpyre(u)
               \/ LockForExtract(u) \/ LockForUpdate(u)
               \/ StoreFails(u) \/ FiniDelete(u) \/ FiniDisarm(u) \/ CleanSpyre(u)
               \/ UnlinkLock(u) \/ Exit(u) \/ SigEnd(u) \/ Kill(u) \/ Signal(u)
        PROVE  vpd' = vpd
    BY <2>1 DEF Start, OpenSpyreLock, TakeSpyreLock, InitSpyre, LockForExtract,
                LockForUpdate, StoreFails, FiniDelete, FiniDisarm, CleanSpyre, UnlinkLock, Exit,
                SigEnd, Kill, Signal, Gone
  <2>2. ASSUME NEW p \in Procs, StartArchive(p) \/ LockForArchive(p) \/ Exit(p)
               \/ StartRead(p) \/ LockForRead(p) \/ Read(p)
        PROVE  vpd' = vpd
    BY <2>2 DEF StartArchive, LockForArchive, Exit, StartRead, LockForRead, Read, Gone
  <2> QED
    BY <2>1, <2>2, NextCases DEF Procs
<1>2. PICK p \in Writers : pc[p] \in Writing /\ pc'[p] # pc[p]
  BY <1>0, <1>1 DEF ArchiveOld, CreateNew, StoreFirst, StoreRest, SigUnlink, ArchiveDB, TypeOK, Writing, Handled,
                    Handling, Writers
<1> QED
  BY <1>0, <1>2 DEF LockInv, WriterPlaces

\* The check of OnlyTheHolderWrites for every number of programs: no step of
\* an updater, of its signal handler or of vpdupdate -a touches vpd.db
\* without vpd.db-updatelock in the hands of the one who takes it.
THEOREM HolderWrites == Spec => OnlyTheHolderWrites
<1>1. TypeOK /\ LockInv /\ [Next]_vars
        => [vpd' # vpd => \E p \in Procs : main[p] = "ex" /\ pc'[p] # pc[p]]_vars
  BY WriterMoves DEF vars, files
<1> QED
  BY <1>1, LocksWherePlaced, PTL DEF Spec, OnlyTheHolderWrites

-----------------------------------------------------------------------------
(* What is in vpd.db, and what a reader has of it.                         *)

\* A database that is not complete is in the hands of the updater writing it,
\* whose handler is armed to remove it.
BeingWritten ==
  ~Complete(vpd) => \E u \in Updaters : pc[u] \in {"store", "storing", "sigUnlink"} /\ u \in dblock
Armed == \A u \in Updaters : pc[u] \in {"create", "store", "storing", "fini", "disarm"} => u \in dblock

\* What the new rows are stored over, if anything, was not archived.
OldRows ==
  /\ Unmixed(vpd)
  /\ \A u \in Updaters :
       /\ pc[u] = "create" => vpd = NoDb \/ kept
       /\ pc[u] = "store" => kept \/ (vpd.ver = updates /\ ~vpd.mixed)

\* What a reader has is what is there.
OneRead == \A r \in Readers : got[r] = IF pc[r] \in {"reread", "exit"} THEN {vpd} ELSE {}
DataInv == BeingWritten /\ Armed /\ OldRows /\ OneRead

\* Two processes do not stand at places of the exclusive lock, and none does
\* while a reader reads.
LEMMA OneWriter ==
  ASSUME LockInv, NEW p \in Writers, pc[p] \in Writing
  PROVE  /\ \A q \in Writers : pc[q] \in Writing => q = p
         /\ \A r \in Readers : pc[r] \notin {"read", "reread", "exit"}
<1>1. p \in Procs /\ Writers \subseteq Procs /\ Readers \subseteq Procs
  BY DEF Writers, Procs
<1>2. main[p] = "ex" /\ \A q \in Writers : pc[q] \in Writing => main[q] = "ex"
  BY DEF LockInv, WriterPlaces
<1>3. \A r \in Readers : main[r] # "ex" /\ (pc[r] \in {"read", "reread", "exit"} => main[r] = "sh")
  BY DEF LockInv, ReaderPlaces
<1>4. \A q \in Procs : q # p => main[q] = "none"
  BY <1>1, <1>2 DEF LockInv, Alone
<1> QED
  BY <1>1, <1>2, <1>3, <1>4

\* A step of a writer that leaves vpd.db alone.
LEMMA DataKept ==
  ASSUME TypeOK, DataInv, NEW p \in Writers, NEW to, pc' = [pc EXCEPT ![p] = to],
         vpd' = vpd, updates' = updates, got' = got, kept' = kept,
         cut => cut', dblock' = dblock, to \notin {"create", "store", "storing"},
         to \in {"fini", "disarm"} => p \in dblock,
         pc[p] \in {"store", "storing", "sigUnlink"} => to = "sigUnlink" \/ Complete(vpd)'
  PROVE  DataInv'
<1>0. p \in Procs /\ Updaters \subseteq Procs /\ Readers \subseteq Procs /\ p \notin Readers
  BY LocksAssumption DEF Writers, Procs
<1>1. BeingWritten'
  BY <1>0 DEF DataInv, BeingWritten, Complete, TypeOK
<1>2. Armed'
  BY <1>0 DEF DataInv, Armed, TypeOK
<1>3. OldRows'
  BY <1>0 DEF DataInv, OldRows, Unmixed, TypeOK
<1>4. OneRead'
  BY <1>0 DEF DataInv, OneRead, TypeOK
<1> QED
  BY <1>1, <1>2, <1>3, <1>4 DEF DataInv

\* The end of a process.  One that was writing vpd.db was killed, which is
\* counted as having cut the update short.
LEMMA DataGone ==
  ASSUME TypeOK, DataInv, NEW p \in Procs, Gone(p), kept' = kept, cut => cut',
         p \in Updaters /\ pc[p] \in {"store", "storing", "sigUnlink"} => cut'
  PROVE  DataInv'
<1>1. BeingWritten'
  BY DEF DataInv, BeingWritten, Complete, Gone, TypeOK, files, Procs
<1>2. Armed'
  BY DEF DataInv, Armed, Gone, TypeOK, Procs
<1>3. OldRows'
  BY DEF DataInv, OldRows, Unmixed, Gone, TypeOK, files, Procs
<1>4. OneRead'
  BY DEF DataInv, OneRead, Gone, TypeOK, files, Procs
<1> QED
  BY <1>1, <1>2, <1>3, <1>4 DEF DataInv

\* A step of the one who writes vpd.db: nobody is reading then.
LEMMA DataWritten ==
  ASSUME TypeOK, LockInv, DataInv, NEW p \in Writers, pc[p] \in Writing, NEW to,
         pc' = [pc EXCEPT ![p] = to], got' = got,
         dblock \subseteq dblock',
         p \in Updaters /\ to \in {"create", "store", "storing", "fini", "disarm"} => p \in dblock',
         Complete(vpd)' \/ (p \in Updaters /\ to \in {"store", "storing"}),
         Unmixed(vpd)',
         p \in Updaters /\ to = "create" => vpd' = NoDb \/ kept',
         p \in Updaters /\ to = "store" => kept' \/ (vpd'.ver = updates' /\ ~vpd'.mixed)
  PROVE  DataInv'
<1>0. p \in Procs /\ Updaters \subseteq Procs /\ Readers \subseteq Procs /\ p \notin Readers
  BY LocksAssumption DEF Writers, Procs
<1>1. \A u \in Updaters : u # p => pc[u] \notin Writing /\ pc'[u] = pc[u]
  BY <1>0, OneWriter DEF TypeOK, Writers
<1>2. BeingWritten'
  BY <1>0 DEF DataInv, BeingWritten, TypeOK
<1>3. Armed'
  BY <1>0 DEF DataInv, Armed, TypeOK
<1>4. OldRows'
  <2>1. pc'[p] = to
    BY <1>0 DEF TypeOK
  <2> QED
    BY <1>1, <2>1 DEF OldRows, Writing, Handled
<1>5. OneRead'
  BY <1>0, OneWriter DEF DataInv, OneRead, TypeOK
<1> QED
  BY <1>2, <1>3, <1>4, <1>5 DEF DataInv

LEMMA NextKeepsDataInv == TypeOK /\ LockInv /\ DataInv /\ [Next]_vars => DataInv'
<1> SUFFICES ASSUME TypeOK, LockInv, DataInv, [Next]_vars PROVE DataInv'
  OBVIOUS
<1> USE DEF files, locks, history, Move
<1>0. /\ Updaters \subseteq Writers /\ Archivers \subseteq Writers /\ Writers \subseteq Procs
      /\ Readers \subseteq Procs /\ Readers \cap Writers = {} /\ Updaters \cap Archivers = {}
  BY LocksAssumption DEF Procs, Writers
<1>1. ASSUME NEW u \in Updaters,
             \/ Start(u) \/ OpenSpyreLock(u) \/ TakeSpyreLock(u) \/ InitSpyre(u)
             \/ LockForExtract(u) \/ LockForUpdate(u)
             \/ ArchiveOld(u) \/ CreateNew(u) \/ StoreFirst(u) \/ StoreRest(u) \/ StoreFails(u)
             \/ FiniDelete(u) \/ FiniDisarm(u) \/ CleanSpyre(u)
             \/ UnlinkLock(u) \/ Exit(u) \/ SigUnlink(u) \/ SigEnd(u)
             \/ Kill(u) \/ Signal(u)
      PROVE  DataInv'
  <2>0. u \in Procs /\ u \in Writers
    BY <1>0
  <2>1. CASE \/ Start(u) \/ OpenSpyreLock(u) \/ TakeSpyreLock(u) \/ InitSpyre(u)
             \/ LockForExtract(u) \/ LockForUpdate(u) \/ CleanSpyre(u) \/ UnlinkLock(u)
    <3>1. PICK to \in Early \cup {"unlinkLock", "exit"} :
            /\ pc' = [pc EXCEPT ![u] = to] /\ pc[u] \notin {"store", "storing", "sigUnlink"}
            /\ vpd' = vpd /\ updates' = updates /\ got' = got /\ dblock' = dblock
            /\ cut' = cut /\ kept' = kept
      BY <2>1 DEF Start, OpenSpyreLock, TakeSpyreLock, InitSpyre, LockForExtract,
                  LockForUpdate, CleanSpyre, UnlinkLock, Early
    <3> QED
      BY <2>0, <3>1, DataKept DEF Early
  <2>2. CASE FiniDelete(u)
    <3>1. u \in dblock
      BY <2>2 DEF FiniDelete, DataInv, Armed
    <3> QED
      BY <2>0, <2>2, <3>1, DataKept DEF FiniDelete
  <2>3. CASE StoreFails(u)
    <3>1. u \in dblock /\ cut' /\ Complete(vpd)'
      BY <2>3 DEF StoreFails, DataInv, Armed, Complete
    <3> QED
      BY <2>0, <2>3, <3>1, DataKept DEF StoreFails
  <2>4. CASE ArchiveOld(u)
    <3>1. pc[u] \in Writing /\ u \in dblock' /\ dblock \subseteq dblock'
      BY <2>4 DEF ArchiveOld, Writing
    <3>2. vpd' = NoDb \/ (kept' /\ vpd' = vpd /\ cut' = cut)
      BY <2>4 DEF ArchiveOld, Archive
    <3>3. Complete(vpd)
      <4>1. \A v \in Updaters : pc[v] \in Writing => v = u
        BY <1>0, <2>0, <3>1, OneWriter
      <4> QED
        BY <2>4, <4>1 DEF ArchiveOld, DataInv, BeingWritten, Writing, Handled, Handling
    <3>4. Complete(vpd)' /\ Unmixed(vpd)' /\ (vpd' = NoDb \/ kept')
      BY <3>2, <3>3 DEF Complete, Unmixed, NoDb
    <3> QED
      BY <2>0, <2>4, <3>1, <3>4, DataWritten DEF ArchiveOld
  <2>5. CASE CreateNew(u)
    <3>1. pc[u] \in Writing /\ u \in dblock /\ dblock' = dblock
      BY <2>5 DEF CreateNew, Writing, Handled, DataInv, Armed
    <3>2. kept' \/ (vpd'.ver = updates' /\ ~vpd'.mixed)
      BY <2>5 DEF CreateNew, DataInv, OldRows
    <3>3. Unmixed(vpd)'
      BY <2>5 DEF CreateNew, DataInv, OldRows, Unmixed
    <3> QED
      BY <2>0, <2>5, <3>1, <3>2, <3>3, DataWritten DEF CreateNew
  <2>6. CASE StoreFirst(u)
    <3>1. pc[u] \in Writing /\ u \in dblock /\ dblock' = dblock
      BY <2>6 DEF StoreFirst, Writing, Handled, DataInv, Armed
    <3>2. Unmixed(vpd)'
      BY <2>6 DEF StoreFirst, DataInv, OldRows, Unmixed
    <3> QED
      BY <2>0, <2>6, <3>1, <3>2, DataWritten DEF StoreFirst
  <2>7. CASE StoreRest(u)
    <3>1. pc[u] \in Writing /\ u \in dblock /\ dblock' = dblock
      BY <2>7 DEF StoreRest, Writing, Handled, DataInv, Armed
    <3>2. Complete(vpd)' /\ Unmixed(vpd)'
      BY <2>7 DEF StoreRest, DataInv, OldRows, Complete, Unmixed, TypeOK, Database
    <3> QED
      BY <2>0, <2>7, <3>1, <3>2, DataWritten DEF StoreRest
  <2>8. CASE FiniDisarm(u)
    <3>1. pc[u] \in Writing
      BY <2>8 DEF FiniDisarm, Writing, Handled
    <3>2. \A v \in Updaters : pc[v] \in Writing => v = u
      BY <1>0, <2>0, <3>1, OneWriter
    <3>3. BeingWritten'
      BY <2>0, <2>8, <3>2 DEF FiniDisarm, DataInv, BeingWritten, Complete, Writing, Handled, Handling
    <3>4. Armed'
      BY <2>0, <2>8 DEF FiniDisarm, DataInv, Armed, TypeOK
    <3>5. OldRows'
      BY <2>0, <2>8 DEF FiniDisarm, DataInv, OldRows, Unmixed, TypeOK
    <3>6. OneRead'
      BY <1>0, <2>0, <2>8 DEF FiniDisarm, DataInv, OneRead, TypeOK
    <3> QED
      BY <3>3, <3>4, <3>5, <3>6 DEF DataInv
  <2>9. CASE SigUnlink(u)
    <3>1. pc[u] \in Writing
      BY <2>9 DEF SigUnlink, Writing, Handling
    <3>2. Complete(vpd)'
      <4>1. CASE u \in dblock
        BY <2>9, <4>1 DEF SigUnlink, Complete
      <4>2. CASE u \notin dblock
        <5>1. \A v \in Updaters : pc[v] \in Writing => v = u
          BY <1>0, <2>0, <3>1, OneWriter
        <5> QED
          BY <2>9, <4>2, <5>1 DEF SigUnlink, Complete, DataInv, BeingWritten, Writing, Handled, Handling
      <4> QED
        BY <4>1, <4>2
    <3>3. Unmixed(vpd)'
      BY <2>9 DEF SigUnlink, DataInv, OldRows, Unmixed, NoDb
    <3> QED
      BY <2>0, <2>9, <3>1, <3>2, <3>3, DataWritten DEF SigUnlink
  <2>10. CASE Exit(u) \/ SigEnd(u)
    BY <2>0, <2>10, DataGone DEF Exit, SigEnd
  <2>11. CASE Kill(u)
    <3>1. (cut => cut') /\ (pc[u] \in {"store", "storing", "sigUnlink"} => cut')
      BY <2>11 DEF Kill
    <3> QED
      BY <2>0, <2>11, <3>1, DataGone DEF Kill
  <2>12. CASE Signal(u)
    <3>1. CASE pc[u] \in Early /\ Gone(u) /\ UNCHANGED history
      BY <2>0, <3>1, DataGone DEF Early
    <3>2. CASE pc' = [pc EXCEPT ![u] = "sigUnlink"] /\ UNCHANGED <<files, locks, runs, dblock, got, history>>
      BY <2>0, <3>2, DataKept
    <3> QED
      BY <2>12, <3>1, <3>2 DEF Signal
  <2> QED
    BY <1>1, <2>1, <2>2, <2>3, <2>4, <2>5, <2>6, <2>7, <2>8, <2>9, <2>10, <2>11, <2>12
<1>2. ASSUME NEW a \in Archivers, StartArchive(a) \/ LockForArchive(a) \/ ArchiveDB(a) \/ Exit(a)
      PROVE  DataInv'
  <2>0. a \in Procs /\ a \in Writers /\ a \notin Updaters
    BY <1>0
  <2>1. CASE StartArchive(a)
    BY <2>0, <2>1, DataKept DEF StartArchive
  <2>2. CASE LockForArchive(a)
    BY <2>0, <2>2, DataKept DEF LockForArchive
  <2>3. CASE ArchiveDB(a)
    <3>1. pc[a] \in Writing
      BY <2>3 DEF ArchiveDB, Writing
    <3>2. vpd' = NoDb \/ (vpd' = vpd /\ cut' = cut /\ kept')
      BY <2>3 DEF ArchiveDB, Archive
    <3>3. Complete(vpd)
      <4>1. \A v \in Updaters : pc[v] \notin Writing
        BY <1>0, <2>0, <3>1, OneWriter
      <4> QED
        BY <4>1 DEF DataInv, BeingWritten, Writing, Handled, Handling
    <3>4. Complete(vpd)' /\ Unmixed(vpd)'
      BY <3>2, <3>3 DEF Complete, Unmixed, NoDb
    <3> QED
      BY <2>0, <2>3, <3>1, <3>4, DataWritten DEF ArchiveDB
  <2>4. CASE Exit(a)
    BY <2>0, <2>4, DataGone DEF Exit
  <2> QED
    BY <1>2, <2>1, <2>2, <2>3, <2>4
<1>3. ASSUME NEW r \in Readers, StartRead(r) \/ LockForRead(r) \/ Read(r) \/ Exit(r)
      PROVE  DataInv'
  <2>0. r \in Procs /\ r \notin Updaters
    BY <1>0
  <2>1. CASE StartRead(r) \/ LockForRead(r) \/ Read(r)
    <3>1. BeingWritten' /\ Armed' /\ OldRows'
      <4>1. /\ vpd' = vpd /\ updates' = updates /\ cut' = cut /\ kept' = kept /\ dblock' = dblock
            /\ \A u \in Updaters : pc'[u] = pc[u]
        BY <2>0, <2>1 DEF StartRead, LockForRead, Read, TypeOK, Procs
      <4> QED
        BY <4>1 DEF DataInv, BeingWritten, Armed, OldRows, Complete, Unmixed
    <3>2. CASE StartRead(r) \/ LockForRead(r)
      <4>1. /\ vpd' = vpd /\ got' = got
            /\ pc[r] \notin {"reread", "exit"} /\ pc'[r] \notin {"reread", "exit"}
            /\ \A s \in Readers \ {r} : pc'[s] = pc[s]
        BY <1>0, <3>2 DEF StartRead, LockForRead, TypeOK
      <4>2. OneRead'
        BY <4>1 DEF DataInv, OneRead
      <4> QED
        BY <3>1, <4>2 DEF DataInv
    <3>3. CASE Read(r)
      <4>1. /\ vpd' = vpd /\ pc'[r] \in {"reread", "exit"}
            /\ \A s \in Readers \ {r} : pc'[s] = pc[s] /\ got'[s] = got[s]
        BY <1>0, <3>3 DEF Read, TypeOK
      <4>2. got'[r] = {vpd}
        BY <3>3 DEF Read, TypeOK, DataInv, OneRead
      <4>3. OneRead'
        BY <4>1, <4>2 DEF DataInv, OneRead
      <4> QED
        BY <3>1, <4>3 DEF DataInv
    <3> QED
      BY <2>1, <3>2, <3>3
  <2>2. CASE Exit(r)
    BY <2>0, <2>2, DataGone DEF Exit
  <2> QED
    BY <1>3, <2>1, <2>2
<1>4. CASE UNCHANGED vars
  BY <1>4 DEF vars, DataInv, BeingWritten, Armed, OldRows, OneRead, Complete, Unmixed
<1> QED
  BY <1>1, <1>2, <1>3, <1>4, NextCases

\* While a reader reads, nobody writes: what is there is complete.
LEMMA ReadIsComplete == LockInv /\ DataInv => ReaderSeesOneInventory
<1> SUFFICES ASSUME LockInv, DataInv, NEW r \in Readers, NEW x \in got[r], NEW y \in got[r]
             PROVE  x = y /\ Complete(x) /\ Unmixed(x)
  BY DEF ReaderSeesOneInventory
<1>1. x = vpd /\ y = vpd /\ pc[r] \in {"reread", "exit"}
  BY DEF DataInv, OneRead
<1>2. Complete(vpd)
  <2>1. \A u \in Updaters : pc[u] \notin Writing
    BY <1>1, OneWriter DEF Writers
  <2> QED
    BY <2>1 DEF DataInv, BeingWritten, Writing, Handled, Handling
<1> QED
  BY <1>1, <1>2 DEF DataInv, OldRows

\* A reader sees one state of vpd.db from its first component to its last,
\* whatever updates and archivings run beside it, however many, and whatever
\* signals end them: none, or the whole of one update, unless a store of it
\* failed or it was killed outright, and nothing older unless what was there
\* could not be archived.
THEOREM ReadersSeeOneInventory == Spec => []ReaderSeesOneInventory
<1>1. Init => DataInv
  BY DEF Init, DataInv, BeingWritten, Armed, OldRows, OneRead, Complete, Unmixed, NoDb, Procs
<1>2. TypeOK /\ LockInv /\ [Next]_vars /\ DataInv => DataInv'
  BY NextKeepsDataInv
<1> QED
  BY <1>1, <1>2, ReadIsComplete, LocksWherePlaced, PTL DEF Spec
===============================================================================
