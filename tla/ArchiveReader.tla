---------------------------- MODULE ArchiveReader ----------------------------
(***************************************************************************)
(* Reading an archived inventory: lsvpd, lscfg, lsmcode and lsvio with -z. *)
(* Each unpacks vpd.db.<time>.gz into vpd.db.<time> beside it, loads the   *)
(* inventory from there and removes the file.  Nothing keeps two readers   *)
(* of one archive apart, a reader that fails leaves the file behind, and   *)
(* an updater removes archives and unpacked files alike.                   *)
(***************************************************************************)
EXTENDS Integers, Sequences, FiniteSets, SequencesExt

CONSTANTS
  Readers,   \* processes
  Size,      \* the blocks of 4096 bytes of the archived inventory
  Faults     \* what may go wrong: "gzopen", "open", "write", "gzread", "path", "database", "content"

ASSUME ArchiveAssumption == Size \in Nat \ {0} /\ IsFiniteSet(Readers)

Archive == [k \in 1 .. Size |-> k]
Inodes == 1 .. Cardinality(Readers) + 1
None == 0

VARIABLES
  zipped,  \* the archive is there
  name,    \* the inode the unpacked file's name stands for, or None
  data,    \* the blocks each inode holds
  pc,      \* what it does next
  fd, off, \* the inode it unpacks into and its place in it
  in,      \* the blocks it took out of the archive
  db,      \* the inode it has opened as database
  got,     \* what it loaded
  joined,  \* history: the readers that were not alone with the archive
  spoilt   \* history: the inodes a write was lost in, the readers whose gzread failed

files == <<zipped, name, data>>
vars == <<files, pc, fd, off, in, db, got, joined, spoilt>>

Init ==
  /\ zipped = TRUE /\ name = None /\ data = [f \in Inodes |-> <<>>]
  /\ pc = [r \in Readers |-> "idle"]
  /\ fd = [r \in Readers |-> None] /\ off = [r \in Readers |-> 0] /\ in = [r \in Readers |-> 0]
  /\ db = [r \in Readers |-> None] /\ got = [r \in Readers |-> <<>>]
  /\ joined = {} /\ spoilt = [inodes |-> {}, readers |-> {}]

At(r, p) == pc[r] = p
Goto(r, p) == pc' = [pc EXCEPT ![r] = p]

\* An inode without a name that no process has open is gone.
Freed(r, n) == {f \in Inodes : f # n /\ \A o \in Readers \ {r} : f \notin {fd[o], db[o]}}

\* The process ends; what it had open is closed.
Ends(r, n) ==
  /\ Goto(r, "idle") /\ name' = n
  /\ data' = [f \in Inodes |-> IF f \in Freed(r, n) THEN <<>> ELSE data[f]]
  /\ spoilt' = [inodes |-> spoilt.inodes \ Freed(r, n), readers |-> spoilt.readers \ {r}]
  /\ joined' = joined \ {r}
  /\ fd' = [fd EXCEPT ![r] = None] /\ db' = [db EXCEPT ![r] = None]
  /\ off' = [off EXCEPT ![r] = 0] /\ in' = [in EXCEPT ![r] = 0] /\ got' = [got EXCEPT ![r] = <<>>]

\* It returns early, and an unpacked file stays where it is.
Return(r) == Ends(r, name) /\ UNCHANGED zipped

Start(r) ==
  /\ At(r, "idle")
  /\ Goto(r, "gzopen")
  /\ LET others == {o \in Readers : ~At(o, "idle")}
     IN joined' = IF others = {} THEN joined ELSE joined \cup others \cup {r}
  /\ UNCHANGED <<files, fd, off, in, db, got, spoilt>>

GzOpen(r) ==
  /\ At(r, "gzopen")
  /\ \/ zipped /\ Goto(r, "open") /\ UNCHANGED <<files, fd, off, in, db, got, joined, spoilt>>
     \/ (~zipped \/ "gzopen" \in Faults) /\ Return(r)

\* An inode nobody has.
NewInode == CHOOSE f \in Inodes : f # name /\ \A r \in Readers : f \notin {fd[r], db[r]}

\* Mutant: the file is opened for appending.
OpenAppends(r) ==
  /\ At(r, "open")
  /\ LET f == IF name = None THEN NewInode ELSE name
     IN /\ data' = IF name = None THEN [data EXCEPT ![f] = <<>>] ELSE data
        /\ name' = f /\ fd' = [fd EXCEPT ![r] = f]
        /\ off' = [off EXCEPT ![r] = Len(data'[f])]
        /\ spoilt' = IF name = None THEN [spoilt EXCEPT !.inodes = @ \ {f}] ELSE spoilt
  /\ Goto(r, "unpack") /\ UNCHANGED <<zipped, in, db, got, joined>>

\* O_CREAT | O_WRONLY: a file that is there is written over from its beginning.
Open(r) ==
  /\ At(r, "open")
  /\ \/ /\ LET f == IF name = None THEN NewInode ELSE name
           IN /\ data' = IF name = None THEN [data EXCEPT ![f] = <<>>] ELSE data
              /\ name' = f /\ fd' = [fd EXCEPT ![r] = f]
              /\ spoilt' = IF name = None THEN [spoilt EXCEPT !.inodes = @ \ {f}] ELSE spoilt
        /\ Goto(r, "unpack") /\ UNCHANGED <<zipped, off, in, db, got, joined>>
     \/ "open" \in Faults /\ Return(r)

\* The file with a block written at a place.
Written(f, place, block) ==
  [j \in 1 .. (IF Len(f) < place THEN place ELSE Len(f)) |-> IF j = place THEN block ELSE f[j]]

\* Mutant: every block is written at the file's beginning.
UnpackAtBeginning(r) ==
  /\ At(r, "unpack") /\ in[r] < Size
  /\ in' = [in EXCEPT ![r] = @ + 1]
  /\ data' = [data EXCEPT ![fd[r]] = Written(@, 1, in[r] + 1)]
  /\ UNCHANGED <<zipped, name, pc, fd, off, db, got, joined, spoilt>>

\* A write that fails loses its block, and nothing is said.
Unpack(r) ==
  /\ At(r, "unpack") /\ in[r] < Size
  /\ in' = [in EXCEPT ![r] = @ + 1]
  /\ \/ /\ data' = [data EXCEPT ![fd[r]] = Written(@, off[r] + 1, in[r] + 1)]
        /\ off' = [off EXCEPT ![r] = @ + 1] /\ UNCHANGED spoilt
     \/ "write" \in Faults /\ spoilt' = [spoilt EXCEPT !.inodes = @ \cup {fd[r]}] /\ UNCHANGED <<data, off>>
  /\ UNCHANGED <<zipped, name, pc, fd, db, got, joined>>

\* gzread ends the loop when there is no more, and also when it fails; gzclose
\* may or may not tell of that.
Close(r) ==
  /\ At(r, "unpack") /\ (in[r] = Size \/ "gzread" \in Faults)
  /\ \/ /\ spoilt' = IF in[r] = Size THEN spoilt ELSE [spoilt EXCEPT !.readers = @ \cup {r}]
        /\ fd' = [fd EXCEPT ![r] = None] /\ off' = [off EXCEPT ![r] = 0] /\ in' = [in EXCEPT ![r] = 0]
        /\ Goto(r, "retrieve") /\ UNCHANGED <<files, db, got, joined>>
     \/ "gzread" \in Faults /\ Return(r)

\* The inodes that hold a database without damage.
Sound == {f \in Inodes : data[f] = Archive}

\* VpdRetriever opens what has the name now; a database that is not there, or
\* that is seen to be damaged, is an exception.
Retrieve(r) ==
  /\ At(r, "retrieve")
  /\ \/ /\ name # None
        /\ db' = [db EXCEPT ![r] = name]
        /\ Goto(r, "load") /\ UNCHANGED <<files, fd, off, in, got, joined, spoilt>>
     \/ (name \in Sound => "database" \in Faults) /\ Return(r)

Load(r) ==
  /\ At(r, "load")
  /\ \/ /\ got' = [got EXCEPT ![r] = data[db[r]]]
        /\ Goto(r, "print") /\ UNCHANGED <<files, fd, off, in, db, joined, spoilt>>
     \/ (db[r] \in Sound => "database" \in Faults) /\ Return(r)

\* What is printed is printed, and the file is removed by its name.
Unlink(r) ==
  /\ At(r, "print")
  /\ Ends(r, None) /\ UNCHANGED zipped

-----------------------------------------------------------------------------
(* The programs.  They differ in where else they may return early: a reader *)
(* is any of them.                                                         *)

Steps(r) == GzOpen(r) \/ Open(r) \/ Unpack(r) \/ Close(r) \/ Retrieve(r) \/ Load(r) \/ Unlink(r)

\* lsmcode does what lsvpd does.
Lsmcode(r) == Steps(r)

\* In lscfg the device asked for may not be found.
Lscfg(r) == Steps(r) \/ (At(r, "print") /\ "content" \in Faults /\ Return(r))

\* In lsvio the path may not be absolute, and the system without virtual I/O.
Lsvio(r) ==
  \/ Steps(r)
  \/ At(r, "retrieve") /\ "path" \in Faults /\ Return(r)
  \/ At(r, "print") /\ "content" \in Faults /\ Return(r)

Program(r) == Lsmcode(r) \/ Lscfg(r) \/ Lsvio(r)

\* An interrupt; none of the programs handles one.
Kill(r) == ~At(r, "idle") /\ Return(r)

\* removeOldArchiveDB of an updater, which knows nothing of readers.
Prune ==
  /\ \/ zipped /\ zipped' = FALSE /\ UNCHANGED name
     \/ name # None /\ name' = None /\ UNCHANGED zipped
  /\ UNCHANGED <<data, pc, fd, off, in, db, got, joined, spoilt>>

Next == Prune \/ \E r \in Readers : Start(r) \/ Program(r) \/ Kill(r)

Spec == Init /\ [][Next]_vars

-----------------------------------------------------------------------------
(* Properties.                                                             *)

TypeOK ==
  /\ zipped \in BOOLEAN /\ name \in Inodes \cup {None}
  /\ \A f \in Inodes : Len(data[f]) <= Size /\ Range(data[f]) \subseteq 1 .. Size
  /\ \A r \in Readers :
       /\ pc[r] \in {"idle", "gzopen", "open", "unpack", "retrieve", "load", "print"}
       /\ fd[r] \in Inodes \cup {None} /\ At(r, "unpack") <=> fd[r] # None
       /\ db[r] \in Inodes \cup {None} /\ (At(r, "load") \/ At(r, "print")) <=> db[r] # None
       /\ 0 <= off[r] /\ off[r] <= in[r] /\ in[r] <= Size

\* Whoever else unpacks, removes, or left something behind: no reader ever
\* loads anything but the beginning of its archive, unless a write was lost.
OnlyFromArchive ==
  \A r \in Readers : At(r, "print") /\ db[r] \notin spoilt.inodes => IsPrefix(got[r], Archive)

\* A reader that is alone with its archive, whose writes and reads succeed,
\* prints the whole of it or nothing: what earlier readers left behind half
\* unpacked does not shorten it, nor does an updater that prunes.  It may find
\* an inode in which an earlier reader lost a write; of that nothing is said.
WholeWhenAlone ==
  \A r \in Readers :
    At(r, "print") /\ r \notin joined \cup spoilt.readers /\ db[r] \notin spoilt.inodes => got[r] = Archive
=============================================================================
