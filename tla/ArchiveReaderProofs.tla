-------------------------- MODULE ArchiveReaderProofs --------------------------
(***************************************************************************)
(* Proofs about ArchiveReader, for any number of readers, an archive of    *)
(* any size and every fault.                                               *)
(***************************************************************************)
EXTENDS ArchiveReader, FiniteSetTheorems, TLAPS

Block == 1 .. Size
Pcs == {"idle", "gzopen", "open", "unpack", "retrieve", "load", "print"}

Types ==
  /\ zipped \in BOOLEAN /\ name \in Inodes \cup {None} /\ data \in [Inodes -> Seq(Block)]
  /\ pc \in [Readers -> Pcs]
  /\ fd \in [Readers -> Inodes \cup {None}] /\ db \in [Readers -> Inodes \cup {None}]
  /\ off \in [Readers -> Nat] /\ in \in [Readers -> Nat] /\ got \in [Readers -> Seq(Block)]
  /\ joined \in SUBSET Readers /\ spoilt \in [inodes : SUBSET Inodes, readers : SUBSET Readers]

\* Where a reader is says what it has open and how far it came.
Places ==
  \A r \in Readers :
    /\ At(r, "unpack") <=> fd[r] # None
    /\ (At(r, "load") \/ At(r, "print")) <=> db[r] # None
    /\ off[r] <= in[r] /\ in[r] <= Size
    /\ ~At(r, "unpack") => off[r] = 0 /\ in[r] = 0
    /\ At(r, "unpack") => off[r] <= Len(data[fd[r]])

\* The beginning of the archive, and how much of it.
Beginning(s) == Len(s) <= Size /\ \A j \in 1 .. Len(s) : s[j] = j

\* An inode no write was lost in begins as the archive does, whoever wrote it.
Content ==
  /\ \A f \in Inodes : Len(data[f]) <= Size /\ (f \notin spoilt.inodes => Beginning(data[f]))
  /\ \A r \in Readers : At(r, "unpack") /\ fd[r] \notin spoilt.inodes => off[r] = in[r]
  /\ \A r \in Readers : At(r, "print") /\ db[r] \notin spoilt.inodes => Beginning(got[r])

\* A reader that met no other, and whose gzread did not fail, has the whole of it.
Good(r, f) == r \notin spoilt.readers /\ f \notin spoilt.inodes
Lonely ==
  \A r \in Readers \ joined : ~At(r, "idle") =>
    /\ \A o \in Readers \ {r} : At(o, "idle")
    /\ At(r, "unpack") => name \in {None, fd[r]}
    /\ At(r, "retrieve") /\ name # None /\ Good(r, name) => Len(data[name]) = Size
    /\ At(r, "load") /\ Good(r, db[r]) => Len(data[db[r]]) = Size
    /\ At(r, "print") /\ Good(r, db[r]) => Len(got[r]) = Size

IInv == Types /\ Places /\ Content /\ Lonely

-----------------------------------------------------------------------------
(* Inodes and what is written in them.                                     *)

LEMMA NoInode == None \notin Inodes
BY ArchiveAssumption, FS_CardinalityType DEF None, Inodes

\* There is an inode for the reader that creates the file.
LEMMA NewInodeIsFree ==
  ASSUME Types, Places, name = None
  PROVE  NewInode \in Inodes /\ \A r \in Readers : NewInode \notin {fd[r], db[r]}
<1> DEFINE g == [r \in Readers |-> IF fd[r] # None THEN fd[r] ELSE db[r]]
<1> DEFINE held == {g[r] : r \in Readers}
<1>1. \A r \in Readers : fd[r] = None \/ db[r] = None
  BY DEF Places, At
<1>2. g \in Surjection(Readers, held)
  BY DEF Surjection
<1>3. IsFiniteSet(held) /\ Cardinality(held) <= Cardinality(Readers)
  BY <1>2, ArchiveAssumption, FS_Surjection
<1>4. /\ Cardinality(Readers) \in Nat /\ Cardinality(held) \in Nat
      /\ Cardinality(Inodes) = Cardinality(Readers) + 1 /\ IsFiniteSet(Inodes)
  <2>1. Cardinality(Readers) \in Nat /\ Cardinality(held) \in Nat
    BY <1>3, ArchiveAssumption, FS_CardinalityType
  <2>2. Cardinality(Inodes) = Cardinality(Readers) + 1 /\ IsFiniteSet(Inodes)
    <3>1. 1 \in Int /\ Cardinality(Readers) + 1 \in Int /\ ~(1 > Cardinality(Readers) + 1)
          /\ (Cardinality(Readers) + 1) - 1 + 1 = Cardinality(Readers) + 1
      BY <2>1
    <3> QED
      BY <3>1, FS_Interval DEF Inodes
  <2> QED
    BY <2>1, <2>2
<1>5. ~(Inodes \subseteq held)
  <2>1. Inodes \subseteq held => Cardinality(Inodes) <= Cardinality(held)
    BY <1>3, FS_Subset
  <2> QED
    BY <1>3, <1>4, <2>1
<1>6. PICK f \in Inodes : f \notin held
  BY <1>5
<1>7. f # name /\ \A r \in Readers : f \notin {fd[r], db[r]}
  <2>1. \A r \in Readers : g[r] \in held
    OBVIOUS
  <2> QED
    BY <1>1, <1>6, <2>1, NoInode
<1> QED
  BY <1>6, <1>7 DEF NewInode

LEMMA WrittenIs ==
  ASSUME NEW f \in Seq(Block), NEW place \in Nat, place # 0, place <= Len(f) + 1, place <= Size, Len(f) <= Size,
         NEW block \in Block
  PROVE  /\ Written(f, place, block) \in Seq(Block)
         /\ Len(Written(f, place, block)) = IF Len(f) < place THEN place ELSE Len(f)
         /\ \A j \in 1 .. Len(Written(f, place, block)) :
              Written(f, place, block)[j] = IF j = place THEN block ELSE f[j]
<1> DEFINE m == IF Len(f) < place THEN place ELSE Len(f)
<1>1. m \in Nat /\ \A j \in 1 .. m : j = place \/ j \in 1 .. Len(f)
  OBVIOUS
<1>2. Written(f, place, block) = [j \in 1 .. m |-> IF j = place THEN block ELSE f[j]]
  BY DEF Written
<1>3. Written(f, place, block) \in [1 .. m -> Block]
  BY <1>1, <1>2
<1> QED
  BY <1>1, <1>2, <1>3

\* The archive and its beginnings.
LEMMA BeginningIsPrefix ==
  ASSUME NEW s \in Seq(Block), Beginning(s)
  PROVE  IsPrefix(s, Archive) /\ (Len(s) = Size => s = Archive)
<1>1. Archive \in Seq(Block) /\ Len(Archive) = Size /\ \A j \in 1 .. Size : Archive[j] = j
  <2>1. Archive \in [1 .. Size -> Block] /\ Size \in Nat
    BY ArchiveAssumption DEF Archive, Block
  <2> QED
    BY <2>1 DEF Archive
<1>2. Len(s) \in Nat /\ Len(s) <= Size /\ \A j \in 1 .. Len(s) : s[j] = Archive[j]
  BY <1>1, ArchiveAssumption DEF Beginning
<1>3. SubSeq(s, 1, Len(s)) = SubSeq(Archive, 1, Len(s))
  BY <1>1, <1>2, ArchiveAssumption
<1>4. Len(s) = Size => s = Archive
  BY <1>1, <1>2, ArchiveAssumption
<1> QED
  BY <1>1, <1>2, <1>3, <1>4 DEF IsPrefix

-----------------------------------------------------------------------------
(* The steps.                                                              *)

\* A process ends, with the file's name left or gone: others keep what they
\* have open, and an inode is emptied only when nobody has it.
LEMMA EndsKeeps ==
  ASSUME IInv, NEW r \in Readers, ~At(r, "idle"), NEW n \in {name, None}, Ends(r, n), zipped' \in BOOLEAN
  PROVE  IInv'
<1>0. Types /\ Places /\ Content /\ Lonely
  BY DEF IInv
<1>1. /\ pc' = [pc EXCEPT ![r] = "idle"] /\ name' = n /\ n \in Inodes \cup {None}
      /\ data' = [f \in Inodes |-> IF f \in Freed(r, n) THEN <<>> ELSE data[f]]
      /\ spoilt' = [inodes |-> spoilt.inodes \ Freed(r, n), readers |-> spoilt.readers \ {r}]
      /\ joined' = joined \ {r}
      /\ fd' = [fd EXCEPT ![r] = None] /\ db' = [db EXCEPT ![r] = None]
      /\ off' = [off EXCEPT ![r] = 0] /\ in' = [in EXCEPT ![r] = 0] /\ got' = [got EXCEPT ![r] = <<>>]
  BY <1>0 DEF Ends, Goto, Types
<1>2. << >> \in Seq(Block) /\ Len(<< >>) = 0
  OBVIOUS
<1>3. Types'
  <2>1. data' \in [Inodes -> Seq(Block)] /\ got' \in [Readers -> Seq(Block)]
    BY <1>0, <1>1, <1>2 DEF Types
  <2>2. spoilt' \in [inodes : SUBSET Inodes, readers : SUBSET Readers]
    BY <1>0, <1>1 DEF Types
  <2> QED
    BY <1>0, <1>1, <2>1, <2>2 DEF Types, Pcs
<1>4. /\ pc'[r] = "idle" /\ fd'[r] = None /\ db'[r] = None /\ off'[r] = 0 /\ in'[r] = 0
      /\ \A o \in Readers \ {r} : /\ pc'[o] = pc[o] /\ fd'[o] = fd[o] /\ db'[o] = db[o]
                                  /\ off'[o] = off[o] /\ in'[o] = in[o] /\ got'[o] = got[o]
  BY <1>0, <1>1 DEF Types
<1>5. \A o \in Readers \ {r} : /\ fd[o] # None => fd[o] \in Inodes /\ fd[o] \notin Freed(r, n)
                               /\ db[o] # None => db[o] \in Inodes /\ db[o] \notin Freed(r, n)
  BY <1>0 DEF Freed, Types
<1>6. \A f \in Inodes : f \notin Freed(r, n) => data'[f] = data[f] /\ (f \in spoilt'.inodes <=> f \in spoilt.inodes)
  BY <1>1
<1>7. \A f \in Inodes : f \in Freed(r, n) => data'[f] = <<>>
  BY <1>1
<1>8. Places'
  <2>1. SUFFICES ASSUME NEW o \in Readers
                 PROVE  /\ pc'[o] = "unpack" <=> fd'[o] # None
                        /\ (pc'[o] = "load" \/ pc'[o] = "print") <=> db'[o] # None
                        /\ off'[o] <= in'[o] /\ in'[o] <= Size
                        /\ pc'[o] # "unpack" => off'[o] = 0 /\ in'[o] = 0
                        /\ pc'[o] = "unpack" => off'[o] <= Len(data'[fd'[o]])
    BY DEF Places, At
  <2>2. CASE o = r
    BY <1>4, <2>2, ArchiveAssumption
  <2>3. CASE o # r
    BY <1>0, <1>4, <1>5, <1>6, <2>3 DEF Places, At
  <2> QED
    BY <2>2, <2>3
<1>9. Content'
  <2>1. \A f \in Inodes : Len(data'[f]) <= Size /\ (f \notin spoilt'.inodes => Beginning(data'[f]))
    <3>1. TAKE f \in Inodes
    <3>2. CASE f \in Freed(r, n)
      BY <1>2, <1>7, <3>2, ArchiveAssumption DEF Beginning
    <3>3. CASE f \notin Freed(r, n)
      BY <1>0, <1>6, <3>3 DEF Content
    <3> QED
      BY <3>2, <3>3
  <2>2. ASSUME NEW o \in Readers
        PROVE  /\ At(o, "unpack")' /\ fd'[o] \notin spoilt'.inodes => off'[o] = in'[o]
               /\ At(o, "print")' /\ db'[o] \notin spoilt'.inodes => Beginning(got'[o])
    <3>1. CASE o = r
      BY <1>4, <3>1 DEF At
    <3>2. CASE o # r
      BY <1>0, <1>4, <1>5, <1>6, <3>2 DEF Content, Places, At
    <3> QED
      BY <3>1, <3>2
  <2> QED
    BY <2>1, <2>2 DEF Content, At, Beginning
<1>10. Lonely'
  <2>1. \A o \in Readers \ joined' : At(o, "idle")'
    BY <1>0, <1>1, <1>4 DEF Lonely, At
  <2> QED
    BY <2>1 DEF Lonely
<1> QED
  BY <1>3, <1>8, <1>9, <1>10 DEF IInv

LEMMA ReturnKeeps ==
  ASSUME IInv, NEW r \in Readers, ~At(r, "idle"), Return(r)
  PROVE  IInv'
BY EndsKeeps DEF Return, IInv, Types

\* A reader goes on without anything else to be seen of it.
LEMMA GoesOn ==
  ASSUME IInv, NEW r \in Readers, NEW to \in {"gzopen", "open"},
         IF to = "gzopen" THEN At(r, "idle") ELSE At(r, "gzopen"), Goto(r, to),
         UNCHANGED <<files, fd, off, in, db, got, spoilt>>,
         joined' = IF to = "gzopen"
                   THEN LET others == {o \in Readers : ~At(o, "idle")}
                        IN IF others = {} THEN joined ELSE joined \cup others \cup {r}
                   ELSE joined
  PROVE  IInv'
<1>0. Types /\ Places /\ Content /\ Lonely
  BY DEF IInv
<1>1. pc'[r] = to /\ (\A o \in Readers \ {r} : pc'[o] = pc[o]) /\ pc' \in [Readers -> Pcs]
  BY <1>0 DEF Goto, Types, Pcs
<1>2. Types' /\ Places' /\ Content'
  <2>1. Types'
    BY <1>0, <1>1 DEF Types, files
  <2>2. Places'
    BY <1>0, <1>1 DEF Places, At, files
  <2>3. Content'
    BY <1>0, <1>1 DEF Content, Places, At, files
  <2> QED
    BY <2>1, <2>2, <2>3
<1>3. Lonely'
  <2>1. ASSUME NEW o \in Readers \ joined', ~At(o, "idle")'
        PROVE  \A q \in Readers \ {o} : At(q, "idle")'
    <3>1. o \in Readers \ joined
      BY <2>1
    <3>2. CASE to = "gzopen"
      <4>1. \A q \in Readers : At(q, "idle")
        BY <1>0, <1>1, <2>1, <3>2 DEF At
      <4> QED
        BY <1>1, <4>1, <2>1, <3>2 DEF At
    <3>3. CASE to = "open"
      BY <1>0, <1>1, <2>1, <3>1, <3>3 DEF Lonely, At
    <3> QED
      BY <3>2, <3>3
  <2>2. \A o \in Readers \ joined' : o # r => o \in Readers \ joined /\ pc'[o] = pc[o]
    BY <1>1
  <2> QED
    BY <1>0, <1>1, <2>1, <2>2 DEF Lonely, At, Good, files
<1> QED
  BY <1>2, <1>3 DEF IInv

LEMMA OpenKeeps ==
  ASSUME IInv, NEW r \in Readers, Open(r)
  PROVE  IInv'
<1>0. Types /\ Places /\ Content /\ Lonely /\ At(r, "open") /\ ~At(r, "idle")
  BY DEF IInv, Open, At
<1>1. CASE "open" \in Faults /\ Return(r)
  BY <1>0, <1>1, ReturnKeeps
<1>2. CASE ~("open" \in Faults /\ Return(r))
  <2> DEFINE f == IF name = None THEN NewInode ELSE name
  <2>1. /\ data' = IF name = None THEN [data EXCEPT ![f] = <<>>] ELSE data
        /\ name' = f /\ fd' = [fd EXCEPT ![r] = f]
        /\ spoilt' = IF name = None THEN [spoilt EXCEPT !.inodes = @ \ {f}] ELSE spoilt
        /\ Goto(r, "unpack") /\ UNCHANGED <<zipped, off, in, db, got, joined>>
    BY <1>2 DEF Open
  <2>2. f \in Inodes /\ f # None /\ (name = None => \A o \in Readers : f \notin {fd[o], db[o]})
    BY <1>0, NewInodeIsFree, NoInode DEF Types
  <2>3. << >> \in Seq(Block) /\ Len(<< >>) = 0 /\ Beginning(<< >>)
    BY ArchiveAssumption DEF Beginning
  <2>4. spoilt'.readers = spoilt.readers /\ spoilt' \in [inodes : SUBSET Inodes, readers : SUBSET Readers]
        /\ spoilt'.inodes = IF name = None THEN spoilt.inodes \ {f} ELSE spoilt.inodes
    BY <1>0, <2>1 DEF Types
  <2>5. /\ data' \in [Inodes -> Seq(Block)]
        /\ \A g \in Inodes : g # f \/ name # None => data'[g] = data[g]
        /\ name = None => data'[f] = <<>>
    BY <1>0, <2>1, <2>2, <2>3 DEF Types
  <2>6. /\ pc'[r] = "unpack" /\ fd'[r] = f /\ pc' \in [Readers -> Pcs] /\ fd' \in [Readers -> Inodes \cup {None}]
        /\ \A o \in Readers \ {r} : pc'[o] = pc[o] /\ fd'[o] = fd[o]
    BY <1>0, <2>1, <2>2 DEF Types, Goto, Pcs
  <2>7. Types'
    BY <1>0, <2>1, <2>2, <2>4, <2>5, <2>6 DEF Types
  <2>8. off[r] = 0 /\ in[r] = 0 /\ db[r] = None /\ \A g \in Inodes : Len(data'[g]) \in Nat
    BY <1>0, <2>5 DEF Places, At
  <2>9. Places'
    <3>1. SUFFICES ASSUME NEW o \in Readers
                   PROVE  /\ pc'[o] = "unpack" <=> fd'[o] # None
                          /\ (pc'[o] = "load" \/ pc'[o] = "print") <=> db'[o] # None
                          /\ off'[o] <= in'[o] /\ in'[o] <= Size
                          /\ pc'[o] # "unpack" => off'[o] = 0 /\ in'[o] = 0
                          /\ pc'[o] = "unpack" => off'[o] <= Len(data'[fd'[o]])
      BY DEF Places, At
    <3>2. CASE o = r
      BY <2>1, <2>2, <2>6, <2>8, <3>2, ArchiveAssumption
    <3>3. CASE o # r
      <4>1. /\ pc[o] = "unpack" <=> fd[o] # None
            /\ (pc[o] = "load" \/ pc[o] = "print") <=> db[o] # None
            /\ off[o] <= in[o] /\ in[o] <= Size
            /\ pc[o] # "unpack" => off[o] = 0 /\ in[o] = 0
            /\ pc[o] = "unpack" => off[o] <= Len(data[fd[o]])
        BY <1>0 DEF Places, At
      <4>2. fd[o] # None => fd[o] \in Inodes /\ data'[fd[o]] = data[fd[o]]
        BY <1>0, <2>2, <2>5 DEF Types
      <4> QED
        BY <2>1, <2>6, <3>3, <4>1, <4>2
    <3> QED
      BY <3>2, <3>3
  <2>10. Content'
    <3>1. \A g \in Inodes : Len(data'[g]) <= Size /\ (g \notin spoilt'.inodes => Beginning(data'[g]))
      <4>1. TAKE g \in Inodes
      <4>2. CASE g = f /\ name = None
        BY <2>3, <2>5, <4>2, ArchiveAssumption
      <4>3. CASE ~(g = f /\ name = None)
        <5>1. data'[g] = data[g]
          BY <2>5, <4>3
        <5>2. g \notin spoilt'.inodes => g \notin spoilt.inodes
          <6>1. CASE name = None
            BY <2>4, <4>3, <6>1
          <6>2. CASE name # None
            BY <2>4, <6>2
          <6> QED
            BY <6>1, <6>2
        <5>3. Len(data[g]) <= Size /\ (g \notin spoilt.inodes => Beginning(data[g]))
          BY <1>0 DEF Content
        <5> QED
          BY <5>1, <5>2, <5>3
      <4> QED
        BY <4>2, <4>3
    <3>2. ASSUME NEW o \in Readers
          PROVE  /\ At(o, "unpack")' /\ fd'[o] \notin spoilt'.inodes => off'[o] = in'[o]
                 /\ At(o, "print")' /\ db'[o] \notin spoilt'.inodes => Beginning(got'[o])
      <4>1. CASE o = r
        BY <2>1, <2>6, <2>8, <4>1 DEF At
      <4>2. CASE o # r
        <5>0. fd[o] \in Inodes \cup {None} /\ db[o] \in Inodes \cup {None}
          BY <1>0 DEF Types
        <5>1. \A g \in {fd[o], db[o]} : g # None => (g \in spoilt'.inodes <=> g \in spoilt.inodes)
          <6>1. TAKE g \in {fd[o], db[o]}
          <6>2. HAVE g # None
          <6>3. g \in Inodes /\ (g # f \/ name # None)
            BY <2>2, <5>0, <6>2
          <6>4. CASE name = None
            BY <2>4, <6>3, <6>4
          <6>5. CASE name # None
            BY <2>4, <6>5
          <6> QED
            BY <6>4, <6>5
        <5> QED
          BY <1>0, <2>1, <2>6, <4>2, <5>1 DEF Content, Places, At
      <4> QED
        BY <4>1, <4>2
    <3> QED
      BY <3>1, <3>2 DEF Content, At, Beginning
  <2>11. Lonely'
    <3>1. \A o \in Readers \ joined : o # r => At(o, "idle")
      BY <1>0 DEF Lonely
    <3>2. r \notin joined => \A o \in Readers \ {r} : At(o, "idle")
      BY <1>0 DEF Lonely
    <3> QED
      BY <2>1, <2>6, <3>1, <3>2 DEF Lonely, At
  <2> QED
    BY <2>7, <2>9, <2>10, <2>11 DEF IInv
<1> QED
  BY <1>1, <1>2

LEMMA UnpackKeeps ==
  ASSUME IInv, NEW r \in Readers, Unpack(r)
  PROVE  IInv'
<1> DEFINE f == fd[r]
<1> DEFINE w == Written(data[f], off[r] + 1, in[r] + 1)
<1>0. Types /\ Places /\ Content /\ Lonely /\ At(r, "unpack") /\ in[r] < Size
  BY DEF IInv, Unpack
<1>1. /\ f \in Inodes /\ off[r] \in Nat /\ in[r] \in Nat /\ off[r] <= in[r] /\ off[r] <= Len(data[f])
      /\ data[f] \in Seq(Block) /\ Len(data[f]) <= Size /\ Len(data[f]) \in Nat /\ Size \in Nat
  BY <1>0, ArchiveAssumption DEF Types, Places, Content
<1>2. /\ w \in Seq(Block) /\ Len(w) = IF Len(data[f]) < off[r] + 1 THEN off[r] + 1 ELSE Len(data[f])
      /\ \A j \in 1 .. Len(w) : w[j] = IF j = off[r] + 1 THEN in[r] + 1 ELSE data[f][j]
  <2>1. in[r] + 1 \in Block /\ off[r] + 1 \in Nat /\ off[r] + 1 # 0 /\ off[r] + 1 <= Len(data[f]) + 1 /\ off[r] + 1 <= Size
    BY <1>0, <1>1 DEF Block
  <2>2. PICK s \in Seq(Block), place \in Nat, block \in Block :
          s = data[f] /\ place = off[r] + 1 /\ block = in[r] + 1
    BY <1>1, <2>1
  <2>3. place # 0 /\ place <= Len(s) + 1 /\ place <= Size /\ Len(s) <= Size
    BY <1>1, <2>1, <2>2
  <2>4. /\ Written(s, place, block) \in Seq(Block)
        /\ Len(Written(s, place, block)) = IF Len(s) < place THEN place ELSE Len(s)
        /\ \A j \in 1 .. Len(Written(s, place, block)) :
             Written(s, place, block)[j] = IF j = place THEN block ELSE s[j]
    BY <2>3, WrittenIs
  <2> QED
    BY <2>2, <2>4
<1>3. /\ in' = [in EXCEPT ![r] = @ + 1] /\ UNCHANGED <<zipped, name, pc, fd, db, got, joined>>
  BY DEF Unpack
<1>4. \A o \in Readers \ {r} : in'[o] = in[o]
  BY <1>0, <1>3 DEF Types
<1>5. in'[r] = in[r] + 1 /\ in' \in [Readers -> Nat]
  BY <1>0, <1>1, <1>3 DEF Types
<1>6. CASE data' = [data EXCEPT ![f] = w] /\ off' = [off EXCEPT ![r] = @ + 1] /\ UNCHANGED spoilt
  <2>1. /\ data' \in [Inodes -> Seq(Block)] /\ data'[f] = w /\ \A g \in Inodes : g # f => data'[g] = data[g]
        /\ off' \in [Readers -> Nat] /\ off'[r] = off[r] + 1 /\ \A o \in Readers \ {r} : off'[o] = off[o]
    BY <1>0, <1>1, <1>2, <1>6 DEF Types
  <2>2. Types'
    BY <1>0, <1>3, <1>5, <1>6, <2>1 DEF Types
  <2>3. \A g \in Inodes : Len(data'[g]) >= Len(data[g])
    <3>1. TAKE g \in Inodes
    <3>2. data[g] \in Seq(Block) /\ Len(data[g]) \in Nat
      BY <1>0 DEF Types
    <3>3. CASE g = f
      BY <1>1, <1>2, <2>1, <3>3
    <3>4. CASE g # f
      BY <2>1, <3>2, <3>4
    <3> QED
      BY <3>3, <3>4
  <2>4. Places'
    <3>1. SUFFICES ASSUME NEW o \in Readers
                   PROVE  /\ pc'[o] = "unpack" <=> fd'[o] # None
                          /\ (pc'[o] = "load" \/ pc'[o] = "print") <=> db'[o] # None
                          /\ off'[o] <= in'[o] /\ in'[o] <= Size
                          /\ pc'[o] # "unpack" => off'[o] = 0 /\ in'[o] = 0
                          /\ pc'[o] = "unpack" => off'[o] <= Len(data'[fd'[o]])
      BY DEF Places, At
    <3>2. CASE o = r
      BY <1>0, <1>1, <1>2, <1>3, <1>5, <2>1, <3>2 DEF Places, At
    <3>3. CASE o # r
      <4>1. fd[o] # None => fd[o] \in Inodes /\ Len(data'[fd[o]]) >= Len(data[fd[o]]) /\ Len(data[fd[o]]) \in Nat
                            /\ Len(data'[fd[o]]) \in Nat
        BY <1>0, <2>1, <2>3 DEF Types
      <4>2. off[o] \in Nat
        BY <1>0 DEF Types
      <4> QED
        BY <1>0, <1>3, <1>4, <2>1, <3>3, <4>1, <4>2 DEF Places, At
    <3> QED
      BY <3>2, <3>3
  <2>5. Content'
    <3>1. \A g \in Inodes : Len(data'[g]) <= Size /\ (g \notin spoilt'.inodes => Beginning(data'[g]))
      <4>1. TAKE g \in Inodes
      <4>2. CASE g = f
        <5>1. Len(w) <= Size
          BY <1>0, <1>1, <1>2
        <5>2. f \notin spoilt.inodes => off[r] = in[r] /\ Beginning(data[f])
          BY <1>0, <1>1 DEF Content
        <5>3. f \notin spoilt.inodes => Beginning(w)
          BY <1>0, <1>1, <1>2, <5>1, <5>2 DEF Beginning
        <5> QED
          BY <1>6, <2>1, <4>2, <5>1, <5>3
      <4>3. CASE g # f
        BY <1>0, <1>6, <2>1, <4>3 DEF Content
      <4> QED
        BY <4>2, <4>3
    <3>2. ASSUME NEW o \in Readers
          PROVE  /\ At(o, "unpack")' /\ fd'[o] \notin spoilt'.inodes => off'[o] = in'[o]
                 /\ At(o, "print")' /\ db'[o] \notin spoilt'.inodes => Beginning(got'[o])
      BY <1>0, <1>3, <1>4, <1>5, <1>6, <2>1 DEF Content, At
    <3> QED
      BY <3>1, <3>2 DEF Content, At, Beginning
  <2>6. Lonely'
    <3>1. \A o \in Readers \ joined : o # r => At(o, "idle")
      BY <1>0 DEF Lonely, At
    <3> QED
      BY <1>0, <1>3, <1>6, <3>1 DEF Lonely, At
  <2> QED
    BY <2>2, <2>4, <2>5, <2>6 DEF IInv
<1>7. CASE spoilt' = [spoilt EXCEPT !.inodes = @ \cup {f}] /\ UNCHANGED <<data, off>>
  <2>1. /\ spoilt' \in [inodes : SUBSET Inodes, readers : SUBSET Readers] /\ spoilt'.readers = spoilt.readers
        /\ spoilt'.inodes = spoilt.inodes \cup {f}
    BY <1>0, <1>1, <1>7 DEF Types
  <2>2. Types'
    BY <1>0, <1>3, <1>5, <1>7, <2>1 DEF Types
  <2>3. Places'
    <3>1. SUFFICES ASSUME NEW o \in Readers
                   PROVE  off[o] <= in'[o] /\ in'[o] <= Size /\ (pc[o] # "unpack" => off[o] = 0 /\ in'[o] = 0)
      BY <1>0, <1>3, <1>7 DEF Places, At
    <3>2. CASE o = r
      BY <1>0, <1>1, <1>5, <3>2 DEF At
    <3>3. CASE o # r
      BY <1>0, <1>4, <3>3 DEF Places, At
    <3> QED
      BY <3>2, <3>3
  <2>4. Content'
    <3>1. \A g \in Inodes : Len(data'[g]) <= Size /\ (g \notin spoilt'.inodes => Beginning(data'[g]))
      BY <1>0, <1>7, <2>1 DEF Content
    <3>2. ASSUME NEW o \in Readers
          PROVE  /\ At(o, "unpack")' /\ fd'[o] \notin spoilt'.inodes => off'[o] = in'[o]
                 /\ At(o, "print")' /\ db'[o] \notin spoilt'.inodes => Beginning(got'[o])
      BY <1>0, <1>3, <1>4, <1>7, <2>1 DEF Content, At
    <3> QED
      BY <3>1, <3>2 DEF Content, At, Beginning
  <2>5. Lonely'
    <3>1. \A o \in Readers \ joined : o # r => At(o, "idle")
      BY <1>0 DEF Lonely, At
    <3> QED
      BY <1>0, <1>3, <3>1 DEF Lonely, At
  <2> QED
    BY <2>2, <2>3, <2>4, <2>5 DEF IInv
<1> QED
  BY <1>6, <1>7 DEF Unpack

LEMMA CloseKeeps ==
  ASSUME IInv, NEW r \in Readers, Close(r)
  PROVE  IInv'
<1>0. Types /\ Places /\ Content /\ Lonely /\ At(r, "unpack") /\ ~At(r, "idle")
  BY DEF IInv, Close, At
<1>1. CASE "gzread" \in Faults /\ Return(r)
  BY <1>0, <1>1, ReturnKeeps
<1>2. CASE ~("gzread" \in Faults /\ Return(r))
  <2>1. /\ spoilt' = IF in[r] = Size THEN spoilt ELSE [spoilt EXCEPT !.readers = @ \cup {r}]
        /\ fd' = [fd EXCEPT ![r] = None] /\ off' = [off EXCEPT ![r] = 0] /\ in' = [in EXCEPT ![r] = 0]
        /\ Goto(r, "retrieve") /\ UNCHANGED <<files, db, got, joined>>
    BY <1>2 DEF Close
  <2>2. /\ spoilt' \in [inodes : SUBSET Inodes, readers : SUBSET Readers]
        /\ spoilt'.inodes = spoilt.inodes
        /\ spoilt'.readers = IF in[r] = Size THEN spoilt.readers ELSE spoilt.readers \cup {r}
    BY <1>0, <2>1 DEF Types
  <2>3. /\ pc'[r] = "retrieve" /\ fd'[r] = None /\ off'[r] = 0 /\ in'[r] = 0
        /\ \A o \in Readers \ {r} : pc'[o] = pc[o] /\ fd'[o] = fd[o] /\ off'[o] = off[o] /\ in'[o] = in[o]
        /\ pc' \in [Readers -> Pcs] /\ fd' \in [Readers -> Inodes \cup {None}]
        /\ off' \in [Readers -> Nat] /\ in' \in [Readers -> Nat]
    BY <1>0, <2>1 DEF Types, Goto, Pcs
  <2>4. Types'
    BY <1>0, <2>1, <2>2, <2>3 DEF Types, files
  <2>5. Places'
    <3>1. SUFFICES ASSUME NEW o \in Readers
                   PROVE  /\ pc'[o] = "unpack" <=> fd'[o] # None
                          /\ (pc'[o] = "load" \/ pc'[o] = "print") <=> db'[o] # None
                          /\ off'[o] <= in'[o] /\ in'[o] <= Size
                          /\ pc'[o] # "unpack" => off'[o] = 0 /\ in'[o] = 0
                          /\ pc'[o] = "unpack" => off'[o] <= Len(data'[fd'[o]])
      BY DEF Places, At
    <3>2. CASE o = r
      BY <1>0, <2>1, <2>3, <3>2, ArchiveAssumption DEF Places, At
    <3>3. CASE o # r
      BY <1>0, <2>1, <2>3, <3>3 DEF Places, At, files
    <3> QED
      BY <3>2, <3>3
  <2>6. Content'
    <3>1. \A f \in Inodes : Len(data'[f]) <= Size /\ (f \notin spoilt'.inodes => Beginning(data'[f]))
      BY <1>0, <2>1, <2>2 DEF Content, files
    <3>2. ASSUME NEW o \in Readers
          PROVE  /\ At(o, "unpack")' /\ fd'[o] \notin spoilt'.inodes => off'[o] = in'[o]
                 /\ At(o, "print")' /\ db'[o] \notin spoilt'.inodes => Beginning(got'[o])
      <4>1. CASE o = r
        BY <2>3, <4>1 DEF At
      <4>2. CASE o # r
        BY <1>0, <2>1, <2>2, <2>3, <4>2 DEF Content, At, files
      <4> QED
        BY <4>1, <4>2
    <3> QED
      BY <3>1, <3>2 DEF Content, At, Beginning
  <2>7. Lonely'
    <3>1. \A o \in Readers \ joined : o # r => At(o, "idle")
      BY <1>0 DEF Lonely, At
    <3>2. ASSUME r \notin joined, name # None, Good(r, name)'
          PROVE  Len(data[name]) = Size
      <4>1. name = fd[r] /\ fd[r] \in Inodes
        BY <1>0, <3>2 DEF Lonely, Types, At
      <4>2. in[r] = Size /\ fd[r] \notin spoilt.inodes
        BY <2>1, <2>2, <3>2, <4>1 DEF Good, files
      <4>3. off[r] = Size /\ off[r] <= Len(data[fd[r]]) /\ Len(data[fd[r]]) <= Size
        BY <1>0, <4>1, <4>2 DEF Content, Places
      <4>4. Len(data[fd[r]]) \in Nat /\ Size \in Nat
        BY <1>0, <4>1, ArchiveAssumption DEF Types
      <4> QED
        BY <4>1, <4>3, <4>4
    <3>3. \A o \in Readers \ joined' : ~At(o, "idle")' => o = r /\ r \notin joined
      BY <2>1, <2>3, <3>1 DEF At
    <3>4. r \notin joined => \A o \in Readers \ {r} : At(o, "idle")'
      BY <1>0, <2>3 DEF Lonely, At
    <3> QED
      BY <2>1, <2>3, <3>2, <3>3, <3>4 DEF Lonely, At, files
  <2> QED
    BY <2>4, <2>5, <2>6, <2>7 DEF IInv
<1> QED
  BY <1>1, <1>2

LEMMA RetrieveKeeps ==
  ASSUME IInv, NEW r \in Readers, Retrieve(r)
  PROVE  IInv'
<1>0. Types /\ Places /\ Content /\ Lonely /\ At(r, "retrieve") /\ ~At(r, "idle")
  BY DEF IInv, Retrieve, At
<1>1. CASE Return(r)
  BY <1>0, <1>1, ReturnKeeps
<1>2. CASE ~Return(r)
  <2>1. /\ name # None /\ db' = [db EXCEPT ![r] = name]
        /\ Goto(r, "load") /\ UNCHANGED <<files, fd, off, in, got, joined, spoilt>>
    BY <1>2 DEF Retrieve
  <2>2. /\ pc'[r] = "load" /\ db'[r] = name /\ name \in Inodes
        /\ \A o \in Readers \ {r} : pc'[o] = pc[o] /\ db'[o] = db[o]
        /\ pc' \in [Readers -> Pcs] /\ db' \in [Readers -> Inodes \cup {None}]
    BY <1>0, <2>1 DEF Types, Goto, Pcs
  <2>3. Types'
    BY <1>0, <2>1, <2>2 DEF Types, files
  <2>4. Places'
    <3>1. SUFFICES ASSUME NEW o \in Readers
                   PROVE  /\ pc'[o] = "unpack" <=> fd[o] # None
                          /\ (pc'[o] = "load" \/ pc'[o] = "print") <=> db'[o] # None
                          /\ off[o] <= in[o] /\ in[o] <= Size
                          /\ pc'[o] # "unpack" => off[o] = 0 /\ in[o] = 0
                          /\ pc'[o] = "unpack" => off[o] <= Len(data[fd[o]])
      BY <2>1 DEF Places, At, files
    <3>2. CASE o = r
      BY <1>0, <2>1, <2>2, <3>2 DEF Places, At
    <3>3. CASE o # r
      BY <1>0, <2>2, <3>3 DEF Places, At
    <3> QED
      BY <3>2, <3>3
  <2>5. Content'
    <3>1. \A f \in Inodes : Len(data'[f]) <= Size /\ (f \notin spoilt'.inodes => Beginning(data'[f]))
      BY <1>0, <2>1 DEF Content, files
    <3>2. ASSUME NEW o \in Readers
          PROVE  /\ At(o, "unpack")' /\ fd'[o] \notin spoilt'.inodes => off'[o] = in'[o]
                 /\ At(o, "print")' /\ db'[o] \notin spoilt'.inodes => Beginning(got'[o])
      BY <1>0, <2>1, <2>2 DEF Content, At
    <3> QED
      BY <3>1, <3>2 DEF Content, At, Beginning
  <2>6. Lonely'
    <3>1. \A o \in Readers \ joined : o # r => At(o, "idle")
      BY <1>0 DEF Lonely, At
    <3>2. r \notin joined => /\ \A o \in Readers \ {r} : At(o, "idle")
                             /\ Good(r, name) => Len(data[name]) = Size
      BY <1>0, <2>1 DEF Lonely
    <3> QED
      BY <2>1, <2>2, <3>1, <3>2 DEF Lonely, At, Good, files
  <2> QED
    BY <2>3, <2>4, <2>5, <2>6 DEF IInv
<1> QED
  BY <1>1, <1>2

LEMMA LoadKeeps ==
  ASSUME IInv, NEW r \in Readers, Load(r)
  PROVE  IInv'
<1>0. Types /\ Places /\ Content /\ Lonely /\ At(r, "load") /\ ~At(r, "idle")
  BY DEF IInv, Load, At
<1>1. CASE Return(r)
  BY <1>0, <1>1, ReturnKeeps
<1>2. CASE ~Return(r)
  <2>1. /\ got' = [got EXCEPT ![r] = data[db[r]]]
        /\ Goto(r, "print") /\ UNCHANGED <<files, fd, off, in, db, joined, spoilt>>
    BY <1>2 DEF Load
  <2>2. db[r] \in Inodes /\ data[db[r]] \in Seq(Block)
    BY <1>0 DEF Places, Types
  <2>3. /\ pc'[r] = "print" /\ got'[r] = data[db[r]]
        /\ \A o \in Readers \ {r} : pc'[o] = pc[o] /\ got'[o] = got[o]
        /\ pc' \in [Readers -> Pcs] /\ got' \in [Readers -> Seq(Block)]
    BY <1>0, <2>1, <2>2 DEF Types, Goto, Pcs
  <2>4. Types'
    BY <1>0, <2>1, <2>3 DEF Types, files
  <2>5. Places'
    <3>1. SUFFICES ASSUME NEW o \in Readers
                   PROVE  /\ pc'[o] = "unpack" <=> fd[o] # None
                          /\ (pc'[o] = "load" \/ pc'[o] = "print") <=> db[o] # None
                          /\ off[o] <= in[o] /\ in[o] <= Size
                          /\ pc'[o] # "unpack" => off[o] = 0 /\ in[o] = 0
                          /\ pc'[o] = "unpack" => off[o] <= Len(data[fd[o]])
      BY <2>1 DEF Places, At, files
    <3>2. CASE o = r
      BY <1>0, <2>3, <3>2 DEF Places, At
    <3>3. CASE o # r
      BY <1>0, <2>3, <3>3 DEF Places, At
    <3> QED
      BY <3>2, <3>3
  <2>6. Content'
    <3>1. \A f \in Inodes : Len(data'[f]) <= Size /\ (f \notin spoilt'.inodes => Beginning(data'[f]))
      BY <1>0, <2>1 DEF Content, files
    <3>2. ASSUME NEW o \in Readers
          PROVE  /\ At(o, "unpack")' /\ fd'[o] \notin spoilt'.inodes => off'[o] = in'[o]
                 /\ At(o, "print")' /\ db'[o] \notin spoilt'.inodes => Beginning(got'[o])
      <4>1. CASE o = r
        BY <1>0, <2>1, <2>2, <2>3, <4>1 DEF Content, At
      <4>2. CASE o # r
        BY <1>0, <2>1, <2>3, <4>2 DEF Content, At
      <4> QED
        BY <4>1, <4>2
    <3> QED
      BY <3>1, <3>2 DEF Content, At, Beginning
  <2>7. Lonely'
    <3>1. \A o \in Readers \ joined : o # r => At(o, "idle")
      BY <1>0 DEF Lonely, At
    <3>2. r \notin joined => /\ \A o \in Readers \ {r} : At(o, "idle")
                             /\ Good(r, db[r]) => Len(data[db[r]]) = Size
      BY <1>0 DEF Lonely
    <3> QED
      BY <2>1, <2>3, <3>1, <3>2 DEF Lonely, At, Good, files
  <2> QED
    BY <2>4, <2>5, <2>6, <2>7 DEF IInv
<1> QED
  BY <1>1, <1>2

\* The updater takes names away, never what a reader has open.
LEMMA PruneKeeps ==
  ASSUME IInv, Prune
  PROVE  IInv'
<1>0. Types /\ Places /\ Content /\ Lonely
  BY DEF IInv
<1>1. /\ zipped' \in BOOLEAN /\ name' \in {name, None}
      /\ UNCHANGED <<data, pc, fd, off, in, db, got, joined, spoilt>>
  BY <1>0 DEF Prune, Types
<1>2. Types'
  BY <1>0, <1>1 DEF Types
<1>3. Places' /\ Content'
  BY <1>0, <1>1 DEF Places, Content, At
<1>4. Lonely'
  BY <1>0, <1>1 DEF Lonely, At, Good
<1> QED
  BY <1>2, <1>3, <1>4 DEF IInv

LEMMA NextKeeps ==
  ASSUME IInv, Next
  PROVE  IInv'
<1>1. CASE Prune
  BY <1>1, PruneKeeps
<1>2. ASSUME NEW r \in Readers, Start(r)
      PROVE  IInv'
  BY <1>2, GoesOn DEF Start
<1>3. ASSUME NEW r \in Readers, ~At(r, "idle"), Return(r)
      PROVE  IInv'
  BY <1>3, ReturnKeeps
<1>4. ASSUME NEW r \in Readers, Steps(r)
      PROVE  IInv'
  <2>1. CASE GzOpen(r)
    <3>1. CASE Return(r)
      BY <1>3, <2>1, <3>1 DEF GzOpen, At
    <3>2. CASE ~Return(r)
      BY <2>1, <3>2, GoesOn DEF GzOpen
    <3> QED
      BY <3>1, <3>2
  <2>2. CASE Unlink(r)
    BY <2>2, EndsKeeps DEF Unlink, At, IInv, Types
  <2> QED
    BY <1>4, <2>1, <2>2, OpenKeeps, UnpackKeeps, CloseKeeps, RetrieveKeeps, LoadKeeps DEF Steps
<1>5. ASSUME NEW r \in Readers, Program(r)
      PROVE  IInv'
  <2>1. Steps(r) \/ (~At(r, "idle") /\ Return(r))
    BY <1>5 DEF Program, Lsmcode, Lscfg, Lsvio, At
  <2> QED
    BY <1>3, <1>4, <2>1
<1>6. ASSUME NEW r \in Readers, Kill(r)
      PROVE  IInv'
  BY <1>3, <1>6 DEF Kill
<1> QED
  BY <1>1, <1>2, <1>5, <1>6 DEF Next

LEMMA InitHolds == Init => IInv
<1> SUFFICES ASSUME Init
             PROVE  IInv
  OBVIOUS
<1>1. << >> \in Seq(Block) /\ Len(<< >>) = 0 /\ Beginning(<< >>)
  BY ArchiveAssumption DEF Beginning
<1>2. Types
  BY <1>1 DEF Init, Types, Pcs
<1>3. Places /\ Content /\ Lonely
  BY <1>1, ArchiveAssumption DEF Init, Places, Content, Lonely, At
<1> QED
  BY <1>2, <1>3 DEF IInv

LEMMA IInvHolds == Spec => []IInv
<1>1. IInv /\ UNCHANGED vars => IInv'
  BY DEF IInv, Types, Places, Content, Lonely, At, Good, vars, files
<1>2. IInv /\ [Next]_vars => IInv'
  BY <1>1, NextKeeps
<1> QED
  BY <1>2, InitHolds, PTL DEF Spec

-----------------------------------------------------------------------------
(* What the runs check, for every instance.                                *)

\* The type invariant: who has which file open, and that no unpacked file is
\* longer than its archive.
THEOREM TypeCorrect == Spec => []TypeOK
<1>1. IInv => TypeOK
  <2> SUFFICES ASSUME IInv
               PROVE  TypeOK
    OBVIOUS
  <2>1. \A f \in Inodes : Range(data[f]) \subseteq 1 .. Size
    <3>1. TAKE f \in Inodes
    <3>2. data[f] \in Seq(Block) /\ \A j \in DOMAIN data[f] : data[f][j] \in Block
      BY DEF IInv, Types
    <3> QED
      BY <3>2 DEF Range, Block
  <2> QED
    BY <2>1 DEF IInv, Types, Places, Content, TypeOK, Pcs
<1> QED
  BY <1>1, IInvHolds, PTL

\* Whatever other readers and the updater do with the file, what a reader
\* prints is the beginning of its archive, unless a write was lost.
THEOREM LoadsFromArchive == Spec => []OnlyFromArchive
<1>1. IInv => OnlyFromArchive
  BY BeginningIsPrefix DEF IInv, Types, Content, OnlyFromArchive
<1> QED
  BY <1>1, IInvHolds, PTL

\* A reader alone with its archive, whose writes and reads succeed, prints the
\* whole of it, whatever earlier readers left behind.
THEOREM AloneLoadsAll == Spec => []WholeWhenAlone
<1>1. IInv => WholeWhenAlone
  <2> SUFFICES ASSUME IInv, NEW r \in Readers, At(r, "print"), r \notin joined, r \notin spoilt.readers,
                      db[r] \notin spoilt.inodes
               PROVE  got[r] = Archive
    BY DEF WholeWhenAlone
  <2>1. got[r] \in Seq(Block) /\ Beginning(got[r])
    BY DEF IInv, Types, Content
  <2>2. Len(got[r]) = Size
    BY DEF IInv, Lonely, Good, At
  <2> QED
    BY <2>1, <2>2, BeginningIsPrefix
<1> QED
  BY <1>1, IInvHolds, PTL
===============================================================================
