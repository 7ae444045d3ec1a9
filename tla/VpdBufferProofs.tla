--------------------------- MODULE VpdBufferProofs ---------------------------
(***************************************************************************)
(* Proofs about VpdBuffer, for every buffer and every set of keywords.     *)
(* Whatever the lengths claim, the parser stays typed and takes no field   *)
(* from outside the section its header sized.  And what it takes from a    *)
(* buffer that was laid out (Encoded) is what was laid out in it: at every *)
(* step it stands at a section and a record of the layout, with the known  *)
(* records before set and a component made of each section before, so it   *)
(* can neither miss where they end nor end early.                          *)
(***************************************************************************)
EXTENDS VpdBuffer, SequenceTheorems, WellFoundedInduction, TLAPS

\* A field is set only while records are read: a header finds none.
HeaderFirst == pc = "header" => fields = <<>>

\* Only an RTAS buffer has a second section.
OneSection == input.job # "rtas" => base = 0

IInv == TypeOK /\ input \in Inputs /\ HeaderFirst /\ OneSection /\ FieldsInsideSection

-----------------------------------------------------------------------------
\* Every byte read is a byte, inside the buffer or beyond it.
LEMMA FoundIsByte ==
  ASSUME input \in Inputs, NEW p \in Nat, NEW b \in Found(p)
  PROVE  b \in Byte
<1>1. input.buf \in Seq(Byte)
  BY VpdBufferAssumption
<1>2. CASE p < Size
  <2>1. p + 1 \in 1 .. Len(input.buf)
    BY <1>1, <1>2 DEF Size
  <2> QED
    BY <1>1, <1>2, <2>1 DEF Found
<1>3. CASE ~(p < Size)
  BY <1>3 DEF Found
<1> QED
  BY <1>2, <1>3

\* A number written in two bytes.
LEMMA TwoBytes ==
  ASSUME NEW x \in Byte, NEW y \in Byte
  PROVE  x + Base * y \in Nat
<1>1. Base \in Nat /\ x \in Nat /\ y \in Nat
  BY VpdBufferAssumption DEF Byte
<1>2. Base * y \in Nat
  BY <1>1
<1> QED
  BY <1>1, <1>2

\* A number written in four bytes.
LEMMA FourBytes ==
  ASSUME NEW x3 \in Byte, NEW x2 \in Byte, NEW x1 \in Byte, NEW x0 \in Byte
  PROVE  ((x3 * Base + x2) * Base + x1) * Base + x0 \in Nat
<1>1. Base \in Nat /\ x3 \in Nat /\ x2 \in Nat /\ x1 \in Nat /\ x0 \in Nat
  BY VpdBufferAssumption DEF Byte
<1>2. x3 * Base + x2 \in Nat
  <2>1. x3 * Base \in Nat
    BY <1>1
  <2> QED
    BY <1>1, <2>1
<1>3. ASSUME NEW m \in Nat, NEW x \in Nat PROVE m * Base + x \in Nat
  <2>1. m * Base \in Nat
    BY <1>1
  <2> QED
    BY <2>1
<1>4. (x3 * Base + x2) * Base + x1 \in Nat
  BY <1>1, <1>2, <1>3
<1> QED
  BY <1>1, <1>3, <1>4

\* The empty sequence is a sequence of whatever is asked for.
LEMMA EmptyIsSeq == ASSUME NEW S PROVE <<>> \in Seq(S)
OBVIOUS

-----------------------------------------------------------------------------
\* Stopping changes nothing that is typed but the result.
LEMMA StopKeeps ==
  ASSUME IInv, NEW r \in Nat, Stop(r)
  PROVE  IInv'
BY DEF IInv, TypeOK, HeaderFirst, OneSection, FieldsInsideSection, Inside, Stop

\* The section that was read becomes a component with its fields inside it.
LEMMA NextSectionKeeps ==
  ASSUME IInv, pc = "records", input.job = "rtas", NextSection
  PROVE  IInv'
<1>1. base \in Nat /\ end \in Nat /\ base < end /\ end - base \in Nat
  BY DEF IInv, TypeOK
<1>2. Component \in [from : Nat, to : Nat, fields : Seq(FieldAt)]
  BY <1>1 DEF IInv, TypeOK, Component
<1>3. comps' \in Seq([from : Nat, to : Nat, fields : Seq(FieldAt)])
  <2> DEFINE S == [from : Nat, to : Nat, fields : Seq(FieldAt)]
  <2>1. comps \in Seq(S) /\ Component \in S
    BY <1>2 DEF IInv, TypeOK
  <2>2. Append(comps, Component) \in Seq(S)
    <3> HIDE DEF S
    <3> QED
      BY <2>1
  <2> QED
    BY <2>1, <2>2 DEF NextSection, Pushed
<1>4. TypeOK'
  <2>1. fields' \in Seq(FieldAt)
    BY EmptyIsSeq DEF NextSection
  <2>2. base' \in Nat /\ pos' \in Nat /\ end' \in Nat /\ isSystem' \in BOOLEAN
    BY DEF IInv, TypeOK, NextSection
  <2>3. pc' \in {"header", "done"} /\ result' \in Nat
    BY <1>1 DEF IInv, TypeOK, NextSection
  <2> QED
    BY <1>3, <2>1, <2>2, <2>3 DEF TypeOK
<1>5. ASSUME input.job # "system", NEW i \in DOMAIN comps'
      PROVE  Inside(comps'[i].fields, comps'[i].from, comps'[i].to)
  <2>1. comps \in Seq([from : Nat, to : Nat, fields : Seq(FieldAt)])
    BY DEF IInv, TypeOK
  <2>2. CASE i \in DOMAIN comps
    <3>1. comps'[i] = comps[i]
      BY <1>2, <2>1, <2>2 DEF NextSection, Pushed
    <3> QED
      BY <1>5, <2>2, <3>1 DEF IInv, FieldsInsideSection
  <2>3. CASE i \notin DOMAIN comps
    <3>1. comps'[i] = Component
      BY <1>2, <1>5, <2>1, <2>3 DEF NextSection, Pushed
    <3>2. Inside(fields, base, end)
      BY <1>5 DEF IInv, FieldsInsideSection
    <3> QED
      BY <3>1, <3>2 DEF Component
  <2> QED
    BY <2>2, <2>3
<1>6. fields' = <<>> /\ input' = input
  BY DEF NextSection
<1>7. Inside(fields', base', end')
  BY <1>6 DEF Inside
<1>8. FieldsInsideSection'
  BY <1>5, <1>6, <1>7 DEF FieldsInsideSection, Inside
<1> QED
  BY <1>4, <1>6, <1>8 DEF IInv, HeaderFirst, OneSection

\* The records of a section begin at or behind its first byte.
LEMMA RecordsKeeps ==
  ASSUME IInv, pc = "header", isSystem' \in BOOLEAN,
         NEW from \in Nat, NEW to \in Nat, base < to, base <= from,
         Records(from, to)
  PROVE  IInv'
<1>1. fields = <<>> /\ fields' = <<>>
  BY DEF IInv, HeaderFirst, Records
<1>2. TypeOK'
  BY DEF IInv, TypeOK, Records
<1>3. FieldsInsideSection'
  BY <1>1 DEF IInv, FieldsInsideSection, Inside, Records
<1> QED
  BY <1>2, <1>3 DEF IInv, HeaderFirst, OneSection, Records

-----------------------------------------------------------------------------
LEMMA InitInv == Init => IInv
<1> SUFFICES ASSUME Init
             PROVE  IInv
  OBVIOUS
<1>1. TypeOK
  <2>1. fields \in Seq(FieldAt) /\ comps \in Seq([from : Nat, to : Nat, fields : Seq(FieldAt)])
    BY EmptyIsSeq DEF Init
  <2> QED
    BY <2>1 DEF Init, TypeOK
<1>2. FieldsInsideSection
  <2>1. DOMAIN fields = {} /\ DOMAIN comps = {}
    BY DEF Init
  <2> QED
    BY <2>1 DEF FieldsInsideSection, Inside
<1> QED
  BY <1>1, <1>2 DEF Init, IInv, HeaderFirst, OneSection

LEMMA PciHeaderKeeps ==
  ASSUME IInv, PciHeader
  PROVE  IInv'
<1> DEFINE Start(lo, hi) == 3 + (lo + Base * hi) + 3
<1>1. CASE Fail
  BY <1>1, StopKeeps DEF Fail
<1>2. ASSUME NEW lo \in Found(1), NEW hi \in Found(2), Size >= 4,
             Records(Start(lo, hi), Size), UNCHANGED isSystem
      PROVE  IInv'
  <2>1. lo + Base * hi \in Nat
    BY FoundIsByte, TwoBytes DEF IInv
  <2>2. Start(lo, hi) \in Nat
    BY <2>1
  <2>3. base = 0
    BY VpdBufferAssumption DEF IInv, OneSection, PciHeader
  <2>4. Size \in Nat
    BY VpdBufferAssumption DEF IInv, Size
  <2>5. isSystem' \in BOOLEAN
    BY <1>2 DEF IInv, TypeOK
  <2> HIDE DEF Start
  <2> QED
    BY <1>2, <2>2, <2>3, <2>4, <2>5, RecordsKeeps DEF PciHeader
<1>3. Size \in Nat
  BY VpdBufferAssumption DEF IInv, Size
<1>4. \/ Fail
      \/ \E lo \in Found(1), hi \in Found(2) :
           Size >= 4 /\ Records(Start(lo, hi), Size) /\ UNCHANGED isSystem
  <2>1. CASE Size < 4 \/ Found(0) # {LargeTag}
    BY <2>1 DEF PciHeader
  <2>2. CASE ~(Size < 4 \/ Found(0) # {LargeTag})
    <3>1. Size >= 4
      BY <1>3, <2>2
    <3> QED
      BY <2>2, <3>1 DEF PciHeader
  <2> QED
    BY <2>1, <2>2
<1> QED
  BY <1>1, <1>2, <1>4

LEMMA RtasHeaderKeeps ==
  ASSUME IInv, RtasHeader
  PROVE  IInv'
<1> DEFINE Wide(s3, s2, s1, s0) == ((s3 * Base + s2) * Base + s1) * Base + s0
           Narrow(lo, hi) == lo + Base * hi
<1>1. CASE Fail
  BY <1>1, StopKeeps DEF Fail
<1>2. ASSUME NEW s3 \in Found(base), NEW s2 \in Found(base + 1),
             NEW s1 \in Found(base + 2), NEW s0 \in Found(base + 3),
             NEW lo \in Found(base + 5), NEW hi \in Found(base + 6),
             isSystem' = (Bytes(input.buf, base + 7, Narrow(lo, hi)) = SystemName),
             Records(base + 7 + Narrow(lo, hi) + 3, base + Wide(s3, s2, s1, s0) + 4)
      PROVE  IInv'
  <2>1. base \in Nat
    BY DEF IInv, TypeOK
  <2>2. Wide(s3, s2, s1, s0) \in Nat
    BY <2>1, FoundIsByte, FourBytes DEF IInv
  <2>3. Narrow(lo, hi) \in Nat
    BY <2>1, FoundIsByte, TwoBytes DEF IInv
  <2>4. isSystem' \in BOOLEAN
    BY <1>2
  <2> HIDE DEF Wide, Narrow
  <2>5. /\ base + 7 + Narrow(lo, hi) + 3 \in Nat
        /\ base + Wide(s3, s2, s1, s0) + 4 \in Nat
        /\ base < base + Wide(s3, s2, s1, s0) + 4
        /\ base <= base + 7 + Narrow(lo, hi) + 3
    BY <2>1, <2>2, <2>3
  <2> QED
    BY <1>2, <2>4, <2>5, RecordsKeeps DEF RtasHeader
<1> QED
  BY <1>1, <1>2 DEF RtasHeader

LEMMA OpalHeaderKeeps ==
  ASSUME IInv, OpalHeader
  PROVE  IInv'
<1> DEFINE Narrow(lo, hi) == lo + Base * hi
<1>1. CASE Fail
  BY <1>1, StopKeeps DEF Fail
<1>2. ASSUME NEW lo \in Byte, NEW hi \in Byte,
             Records(base + 3, base + Narrow(lo, hi) + 3), UNCHANGED isSystem
      PROVE  IInv'
  <2>1. base \in Nat /\ isSystem' \in BOOLEAN
    BY <1>2 DEF IInv, TypeOK
  <2>2. Narrow(lo, hi) \in Nat
    BY TwoBytes
  <2> HIDE DEF Narrow
  <2>3. /\ base + 3 \in Nat /\ base + Narrow(lo, hi) + 3 \in Nat
        /\ base < base + Narrow(lo, hi) + 3 /\ base <= base + 3
    BY <2>1, <2>2
  <2> QED
    BY <1>2, <2>1, <2>3, RecordsKeeps DEF OpalHeader
<1>3. base \in Nat
  BY DEF IInv, TypeOK
<1>4. Found(base + 1) \subseteq Byte /\ Found(base + 2) \subseteq Byte
  BY <1>3, FoundIsByte DEF IInv
<1> QED
  BY <1>1, <1>2, <1>4 DEF OpalHeader

LEMMA ReadRecordKeeps ==
  ASSUME IInv, ReadRecord
  PROVE  IInv'
<1>1. base \in Nat /\ pos \in Nat /\ end \in Nat /\ base <= pos /\ pc = "records"
  BY DEF IInv, TypeOK, ReadRecord, AtRecord
<1>2. PICK k1 \in Found(pos), k2 \in Found(pos + 1), len \in Found(pos + 2) :
        /\ ~RunsOver(3 + len)
        /\ fields' = IF Stored(input.job, <<k1, k2>>)
                     THEN Append(fields, [key |-> <<k1, k2>>, at |-> pos + 3, len |-> len])
                     ELSE fields
        /\ pos' = pos + 3 + len
  BY DEF ReadRecord
<1> DEFINE f == [key |-> <<k1, k2>>, at |-> pos + 3, len |-> len]
<1>3. k1 \in Byte /\ k2 \in Byte /\ len \in Byte
  BY <1>1, FoundIsByte DEF IInv
<1>4. len \in Nat /\ pos + 3 \in Nat /\ pos' \in Nat /\ base <= pos'
  BY <1>1, <1>2, <1>3 DEF Byte
<1>5. f \in FieldAt
  BY <1>3, <1>4 DEF FieldAt
<1>6. fields \in Seq(FieldAt)
  BY DEF IInv, TypeOK
<1>7. fields' \in Seq(FieldAt)
  <2>1. Append(fields, f) \in Seq(FieldAt)
    <3> HIDE DEF f
    <3> QED
      BY <1>5, <1>6
  <2> QED
    BY <1>2, <1>6, <2>1
<1>8. UNCHANGED <<input, pc, base, end, isSystem, comps, result>>
  BY DEF ReadRecord
<1>9. TypeOK'
  BY <1>4, <1>7, <1>8 DEF IInv, TypeOK
<1>10. ASSUME input.job # "system", NEW i \in DOMAIN fields'
       PROVE  base <= fields'[i].at /\ fields'[i].at + fields'[i].len <= end
  <2>1. CASE i \in DOMAIN fields
    <3>1. fields'[i] = fields[i]
      BY <1>2, <1>5, <1>6, <2>1
    <3> QED
      BY <1>10, <2>1, <3>1 DEF IInv, FieldsInsideSection, Inside
  <2>2. CASE i \notin DOMAIN fields
    <3>1. fields'[i] = f
      BY <1>2, <1>5, <1>6, <1>10, <2>2
    <3>2. input.job \in {"pci", "node", "rtas"}
      BY <1>10, VpdBufferAssumption DEF IInv
    <3>3. pos + (3 + len) <= end
      <4>1. CASE input.job = "pci"
        <5>1. ~(pos + (3 + len) >= end)
          BY <1>2, <4>1 DEF RunsOver
        <5> QED
          BY <1>1, <1>4, <5>1
      <4>2. CASE input.job \in {"node", "rtas"}
        <5>1. ~(pos + (3 + len) > end)
          BY <1>2, <4>2 DEF RunsOver
        <5> QED
          BY <1>1, <1>4, <5>1
      <4> QED
        BY <3>2, <4>1, <4>2
    <3> QED
      BY <1>1, <1>4, <3>1, <3>3
  <2> QED
    BY <2>1, <2>2
<1>11. FieldsInsideSection'
  BY <1>8, <1>10 DEF IInv, FieldsInsideSection, Inside
<1> QED
  BY <1>1, <1>8, <1>9, <1>11 DEF IInv, HeaderFirst, OneSection

LEMMA NoMoreRecordsKeeps ==
  ASSUME IInv, NoMoreRecords
  PROVE  IInv'
<1>1. CASE input.job = "rtas"
  BY <1>1, NextSectionKeeps DEF NoMoreRecords, Return
<1>2. CASE input.job # "rtas"
  <2>1. end - base \in Nat
    BY DEF IInv, TypeOK, NoMoreRecords
  <2> QED
    BY <1>2, <2>1, StopKeeps DEF NoMoreRecords, Return
<1> QED
  BY <1>1, <1>2

LEMMA NextInv == IInv /\ [Next]_vars => IInv'
<1> SUFFICES ASSUME IInv, [Next]_vars
             PROVE  IInv'
  OBVIOUS
<1>1. CASE PciHeader
  BY <1>1, PciHeaderKeeps
<1>2. CASE RtasHeader
  BY <1>2, RtasHeaderKeeps
<1>3. CASE OpalHeader
  BY <1>3, OpalHeaderKeeps
<1>4. CASE ReadRecord
  BY <1>4, ReadRecordKeeps
<1>5. CASE CorruptRecord
  BY <1>5, StopKeeps DEF CorruptRecord, Fail
<1>6. CASE NoMoreRecords
  BY <1>6, NoMoreRecordsKeeps
<1>7. CASE UNCHANGED vars
  BY <1>7 DEF vars, IInv, TypeOK, HeaderFirst, OneSection, FieldsInsideSection, Inside
<1> QED
  BY <1>1, <1>2, <1>3, <1>4, <1>5, <1>6, <1>7 DEF Next

-----------------------------------------------------------------------------
\* The parsers' variables keep their types on every buffer: a section ends
\* behind its begin, and the place to read is never before it.
THEOREM TypeCorrect == Spec => []TypeOK
<1>1. IInv => TypeOK
  BY DEF IInv
<1> QED
  BY <1>1, InitInv, NextInv, PTL DEF Spec

\* On every buffer, sound or corrupt, no parser but parseSysVPD sets a field
\* from bytes outside the section whose component it is.
THEOREM FieldsStayInside == Spec => []FieldsInsideSection
<1>1. IInv => FieldsInsideSection
  BY DEF IInv
<1> QED
  BY <1>1, InitInv, NextInv, PTL DEF Spec

-----------------------------------------------------------------------------
(* What is read of a buffer that is laid out.                              *)

Laid == input.sections

\* The parser is at the j-th section, and has made components of those before.
InSection(j) ==
  /\ base = Laid[j].from
  /\ input.job = "rtas" => /\ Len(comps) = Laid[j].shown
                           /\ \A c \in 1 .. Len(comps) : Shown(input.buf, comps[c].fields) = input.sent[c]

\* It is at its k-th record, with the known ones before set.
InRecord(j, k) ==
  /\ pos = Laid[j].recs[k].at /\ Len(fields) = Laid[j].recs[k].known
  /\ \A f \in 1 .. Len(fields) : Shown(input.buf, fields)[f] = Laid[j].sent[f]
  /\ end = Laid[j].to \/ (input.job = "system" /\ Laid[j].to <= end)
  /\ input.job = "rtas" => isSystem = Laid[j].system

SentInv ==
  Encoded(input) =>
  /\ pc = "header" => \E j \in DOMAIN Laid : InSection(j)
  /\ pc = "records" => \E j \in DOMAIN Laid : InSection(j) /\ \E k \in DOMAIN Laid[j].recs : InRecord(j, k)
  /\ WholeBufferRead /\ DamageStopsThere

\* A byte in the buffer is what is found there.
LEMMA FoundInside ==
  ASSUME input \in Inputs, NEW p \in Nat, p < Size
  PROVE  Found(p) = {input.buf[p + 1]} /\ input.buf[p + 1] \in Byte /\ input.buf[p + 1] \in Nat
<1>1. input.buf \in Seq(Byte) /\ Size \in Nat
  BY VpdBufferAssumption DEF Size
<1>2. p + 1 \in 1 .. Len(input.buf)
  BY <1>1 DEF Size
<1>3. input.buf[p + 1] \in Byte
  BY <1>1, <1>2
<1>4. input.buf[p + 1] \in Nat
  BY <1>3 DEF Byte
<1> QED
  BY <1>3, <1>4 DEF Found

\* The sections of a buffer that is laid out.
LEMMA Sections ==
  ASSUME input \in Inputs, Encoded(input), NEW j \in DOMAIN Laid
  PROVE  /\ Len(Laid) \in Nat /\ j \in 1 .. Len(Laid) /\ DOMAIN Laid = 1 .. Len(Laid)
         /\ SectionAt(input, Laid[j])
         /\ Laid[j].from \in Nat /\ Laid[j].to \in Nat /\ Laid[j].shown \in Nat
         /\ Laid[j].recs \in Seq([at : Nat, known : Nat]) /\ Laid[j].sent \in Seq(Sent)
         /\ Laid[j].recs = <<>> => j = Len(Laid) /\ ~input.whole /\ Headless(input, Laid[j])
         /\ Laid[j].recs # <<>> /\ (j # Len(Laid) \/ input.whole) => Closed(input, Laid[j])
         /\ Laid[j].recs # <<>> /\ j = Len(Laid) /\ ~input.whole => Broken(input, Laid[j])
         /\ input.job # "rtas" => j = 1 /\ Len(Laid) = 1 /\ input.sent = Laid[j].sent
         /\ Size \in Nat
<1>1. Len(Laid) \in Nat \ {0} /\ DOMAIN Laid = 1 .. Len(Laid) /\ SectionAt(input, Laid[j])
  BY DEF Encoded, Laid
<1>2. j # Len(Laid) => Laid[j].recs # <<>> /\ Closed(input, Laid[j])
  <2>1. j # Len(Laid) => j \in 1 .. Len(Laid) - 1
    BY <1>1
  <2> QED
    BY <2>1 DEF Encoded, Laid
<1>3. j = Len(Laid) => IF input.whole THEN Laid[j].recs # <<>> /\ Closed(input, Laid[j])
                       ELSE IF Laid[j].recs = <<>> THEN Headless(input, Laid[j]) ELSE Broken(input, Laid[j])
  BY DEF Encoded, Laid
<1>4. input.job # "rtas" => Len(Laid) = 1 /\ input.sent = Laid[1].sent
  BY DEF Encoded, Laid
<1>5. Size \in Nat
  BY VpdBufferAssumption DEF Size
<1>6. input.job # "rtas" => j = 1
  BY <1>1, <1>4
<1>7. /\ Laid[j].from \in Nat /\ Laid[j].to \in Nat /\ Laid[j].shown \in Nat
      /\ Laid[j].recs \in Seq([at : Nat, known : Nat]) /\ Laid[j].sent \in Seq(Sent)
  BY <1>1 DEF SectionAt
<1>8. Laid[j].recs = <<>> => j = Len(Laid) /\ ~input.whole /\ Headless(input, Laid[j])
  BY <1>2, <1>3
<1>9. Laid[j].recs # <<>> /\ (j # Len(Laid) \/ input.whole) => Closed(input, Laid[j])
  BY <1>2, <1>3
<1>10. Laid[j].recs # <<>> /\ j = Len(Laid) /\ ~input.whole => Broken(input, Laid[j])
  BY <1>3
<1> QED
  BY <1>1, <1>4, <1>5, <1>6, <1>7, <1>8, <1>9, <1>10

\* A section's records, and the place behind them.
LEMMA Recorded ==
  ASSUME input \in Inputs, Encoded(input), NEW j \in DOMAIN Laid, NEW k \in DOMAIN Laid[j].recs
  PROVE  /\ Len(Laid[j].recs) \in Nat /\ k \in 1 .. Len(Laid[j].recs) /\ Laid[j].recs # <<>>
         /\ Laid[j].recs[k].at \in Nat /\ Laid[j].recs[k].known \in Nat
         /\ k # Len(Laid[j].recs) => k + 1 \in DOMAIN Laid[j].recs /\ RecordAt(input, Laid[j], k)
         /\ k = Len(Laid[j].recs) => Laid[j].recs[k] = Behind(Laid[j])
<1>1. Laid[j].recs \in Seq([at : Nat, known : Nat]) /\ SectionAt(input, Laid[j])
  BY Sections
<1>2. Len(Laid[j].recs) \in Nat /\ DOMAIN Laid[j].recs = 1 .. Len(Laid[j].recs) /\ Laid[j].recs[k] \in [at : Nat, known : Nat]
  <2>1. Len(Laid[j].recs) \in Nat /\ DOMAIN Laid[j].recs = 1 .. Len(Laid[j].recs)
    BY <1>1, LenProperties
  <2> QED
    BY <1>1, <2>1, ElementOfSeq
<1>3. Laid[j].recs # <<>>
  BY <1>2, EmptySeq
<1>4. k # Len(Laid[j].recs) => k \in 1 .. Len(Laid[j].recs) - 1 /\ k + 1 \in DOMAIN Laid[j].recs
  BY <1>2
<1>5. k # Len(Laid[j].recs) => RecordAt(input, Laid[j], k)
  BY <1>1, <1>3, <1>4 DEF SectionAt
<1> QED
  BY <1>2, <1>3, <1>4, <1>5 DEF Behind

\* Where the layout has a record the parser reads it.
LEMMA RecordRead ==
  ASSUME IInv, Encoded(input), pc = "records", NEW j \in DOMAIN Laid, NEW k \in DOMAIN Laid[j].recs,
         InSection(j), InRecord(j, k), k # Len(Laid[j].recs)
  PROVE  /\ ~NoMoreRecords /\ ~CorruptRecord
         /\ Found(pos) = {input.buf[pos + 1]} /\ Found(pos + 1) = {input.buf[pos + 2]} /\ Found(pos + 2) = {input.buf[pos + 3]}
         /\ input.buf[pos + 3] \in Nat
<1> DEFINE s == Laid[j]
           b == input.buf
<1>1. input \in Inputs /\ pos \in Nat /\ end \in Nat /\ input.job \in {"pci", "node", "rtas", "system"} /\ Size \in Nat
  BY VpdBufferAssumption DEF IInv, TypeOK, Size
<1>2. RecordAt(input, s, k) /\ s.to \in Nat /\ pos = s.recs[k].at
  BY <1>1, Recorded, Sections DEF InRecord
<1>3. pos + 3 <= Size /\ b[pos + 1] \notin EndTags(input.job)
  BY <1>2 DEF RecordAt, Size
<1>4. /\ Found(pos) = {b[pos + 1]} /\ Found(pos + 1) = {b[pos + 2]} /\ Found(pos + 2) = {b[pos + 3]}
      /\ b[pos + 3] \in Nat
  <2>1. pos \in Nat /\ pos + 1 \in Nat /\ pos + 2 \in Nat /\ pos < Size /\ pos + 1 < Size /\ pos + 2 < Size
    BY <1>1, <1>3
  <2>2. (pos + 1) + 1 = pos + 2 /\ (pos + 2) + 1 = pos + 3
    BY <1>1
  <2> QED
    BY <1>1, <2>1, <2>2, FoundInside
<1>5. Fits(input, s, pos + 3 + b[pos + 3])
  BY <1>2 DEF RecordAt
<1>6. IF input.job = "pci" THEN pos + 3 + b[pos + 3] < s.to ELSE pos + 3 + b[pos + 3] <= s.to
  BY <1>5 DEF Fits
<1>7. end = s.to \/ (input.job = "system" /\ s.to <= end)
  BY DEF InRecord
<1>8. IF input.job = "pci" THEN pos + 3 + b[pos + 3] < end ELSE pos + 3 + b[pos + 3] <= end
  <2>1. CASE input.job = "pci"
    BY <1>6, <1>7, <2>1
  <2>2. CASE input.job # "pci"
    BY <1>1, <1>2, <1>4, <1>6, <1>7, <2>2
  <2> QED
    BY <2>1, <2>2
<1> HIDE DEF b, s
<1>9. pos < end
  BY <1>1, <1>4, <1>8
<1>10. ~NoMoreRecords
  <2>1. ~(pos >= end)
    BY <1>1, <1>9
  <2> QED
    BY <1>3, <1>4, <2>1 DEF NoMoreRecords
<1>11. ~RunsOver(3) /\ ~RunsOver(3 + b[pos + 3])
  <2>1. CASE input.job = "pci"
    <3>1. ~(pos + 3 >= end) /\ ~(pos + (3 + b[pos + 3]) >= end)
      BY <1>1, <1>4, <1>8, <2>1
    <3> QED
      BY <2>1, <3>1 DEF RunsOver
  <2>2. CASE input.job \in {"node", "rtas"}
    <3>1. ~(pos + 3 > end) /\ ~(pos + (3 + b[pos + 3]) > end)
      BY <1>1, <1>4, <1>8, <2>2
    <3> QED
      BY <2>2, <3>1 DEF RunsOver
  <2>3. CASE input.job = "system"
    BY <2>3 DEF RunsOver
  <2> QED
    BY <1>1, <2>1, <2>2, <2>3
<1>12. ~CorruptRecord
  BY <1>4, <1>11 DEF CorruptRecord
<1> QED
  BY <1>4, <1>10, <1>12 DEF b

\* Where the records end it reads none, and is not deceived.
LEMMA ClosedEnds ==
  ASSUME IInv, Encoded(input), pc = "records", NEW j \in DOMAIN Laid, NEW k \in DOMAIN Laid[j].recs,
         InSection(j), InRecord(j, k), k = Len(Laid[j].recs), Closed(input, Laid[j])
  PROVE  ~AtRecord
<1>1. input \in Inputs /\ pos \in Nat /\ end \in Nat /\ Laid[j].to \in Nat
  BY Sections DEF IInv, TypeOK
<1>2. pos = Behind(Laid[j]).at
  BY <1>1, Recorded DEF InRecord
<1>3. CASE pos < Size /\ input.buf[pos + 1] \in EndTags(input.job)
  <2>1. Found(pos) = {input.buf[pos + 1]}
    BY <1>1, <1>3, FoundInside
  <2> QED
    BY <1>3, <2>1 DEF AtRecord
<1>4. CASE pos >= Laid[j].to /\ input.job # "system"
  <2>1. end = Laid[j].to
    BY <1>4 DEF InRecord
  <2>2. ~(pos < end)
    BY <1>1, <1>4, <2>1
  <2> QED
    BY <2>2 DEF AtRecord
<1> QED
  BY <1>2, <1>3, <1>4 DEF Closed, Size

\* And a broken record ends the parse.
LEMMA BrokenFails ==
  ASSUME IInv, Encoded(input), pc = "records", NEW j \in DOMAIN Laid, NEW k \in DOMAIN Laid[j].recs,
         InSection(j), InRecord(j, k), k = Len(Laid[j].recs), Broken(input, Laid[j])
  PROVE  ~NoMoreRecords /\ ~ReadRecord
<1> DEFINE s == Laid[j]
           b == input.buf
<1>1. /\ input \in Inputs /\ pos \in Nat /\ end \in Nat /\ s.to \in Nat /\ Size \in Nat
      /\ input.job \in {"pci", "node", "rtas", "system"}
  BY Sections, VpdBufferAssumption DEF IInv, TypeOK
<1>2. pos = Behind(s).at
  BY <1>1, Recorded DEF InRecord
<1>3. /\ pos < s.to /\ pos < Size /\ b[pos + 1] \notin EndTags(input.job) /\ input.job # "system"
      /\ ~Fits(input, s, pos + 3) \/ ~Fits(input, s, pos + 3 + b[pos + 3])
  BY <1>2 DEF Broken, Size
<1>4. end = s.to /\ s.to <= Size
  <2>1. Headed(input, s)
    BY <1>1, Sections, Recorded DEF SectionAt
  <2>2. input.format \in {"pci", "rtas", "opal"}
    BY <1>1, VpdBufferAssumption
  <2>3. s.to <= Len(b)
    <3>1. CASE input.format = "pci"
      <4>1. s.to = Len(b)
        BY <2>1, <3>1 DEF Headed, PciSection
      <4> QED
        BY <1>1, <4>1
    <3>2. CASE input.format = "rtas"
      BY <2>1, <3>2 DEF Headed, RtasSection
    <3>3. CASE input.format = "opal"
      BY <2>1, <3>3 DEF Headed, OpalSection
    <3> QED
      BY <2>2, <3>1, <3>2, <3>3
  <2> QED
    BY <1>3, <2>3 DEF InRecord, Size
<1>5. Found(pos) = {b[pos + 1]}
  BY <1>1, <1>3, FoundInside
<1> HIDE DEF s, b
<1>6. ~NoMoreRecords
  <2>1. ~(pos >= end)
    BY <1>1, <1>3, <1>4
  <2> QED
    BY <1>3, <1>5, <2>1 DEF NoMoreRecords
<1>7. ~ReadRecord
  <2> SUFFICES ASSUME ReadRecord PROVE FALSE
    OBVIOUS
  <2>1. PICK len \in Found(pos + 2) : ~RunsOver(3) /\ ~RunsOver(3 + len)
    BY DEF ReadRecord
  <2>2. len \in Nat
    <3>1. len \in Byte
      BY <1>1, <2>1, FoundIsByte
    <3> QED
      BY <3>1 DEF Byte
  <2>3. Fits(input, s, pos + 3)
    <3>1. CASE input.job = "pci"
      <4>1. ~(pos + 3 >= end)
        BY <2>1, <3>1 DEF RunsOver
      <4>2. pos + 3 < s.to
        BY <1>1, <1>4, <4>1
      <4> QED
        BY <3>1, <4>2 DEF Fits
    <3>2. CASE input.job \in {"node", "rtas"}
      <4>1. ~(pos + 3 > end)
        BY <2>1, <3>2 DEF RunsOver
      <4>2. pos + 3 <= s.to
        BY <1>1, <1>4, <4>1
      <4> QED
        BY <3>2, <4>2 DEF Fits
    <3> QED
      BY <1>1, <1>3, <3>1, <3>2
  <2>4. pos + 3 <= Size
    <3>1. pos + 3 <= s.to
      <4>1. IF input.job = "pci" THEN pos + 3 < s.to ELSE pos + 3 <= s.to
        BY <2>3 DEF Fits
      <4> QED
        BY <1>1, <4>1
    <3> QED
      BY <1>1, <1>4, <3>1
  <2>5. len = b[pos + 3]
    <3>1. pos + 2 \in Nat /\ pos + 2 < Size /\ (pos + 2) + 1 = pos + 3
      BY <1>1, <2>4
    <3>2. Found(pos + 2) = {b[pos + 3]}
      BY <1>1, <3>1, FoundInside DEF b
    <3> QED
      BY <2>1, <3>2
  <2>6. Fits(input, s, pos + 3 + len)
    <3>1. CASE input.job = "pci"
      <4>1. ~(pos + (3 + len) >= end)
        BY <2>1, <3>1 DEF RunsOver
      <4>2. pos + 3 + len < s.to
        BY <1>1, <1>4, <2>2, <4>1
      <4> QED
        BY <3>1, <4>2 DEF Fits
    <3>2. CASE input.job \in {"node", "rtas"}
      <4>1. ~(pos + (3 + len) > end)
        BY <2>1, <3>2 DEF RunsOver
      <4>2. pos + 3 + len <= s.to
        BY <1>1, <1>4, <2>2, <4>1
      <4> QED
        BY <3>2, <4>2 DEF Fits
    <3> QED
      BY <1>1, <1>3, <3>1, <3>2
  <2> QED
    BY <1>3, <2>3, <2>5, <2>6
<1> QED
  BY <1>6, <1>7

\* All that is known of a section is set.
Complete(j) ==
  /\ Len(fields) = Len(Laid[j].sent)
  /\ \A f \in 1 .. Len(fields) : Shown(input.buf, fields)[f] = Laid[j].sent[f]

LEMMA EndComplete ==
  ASSUME input \in Inputs, Encoded(input), NEW j \in DOMAIN Laid, NEW k \in DOMAIN Laid[j].recs,
         InRecord(j, k), k = Len(Laid[j].recs)
  PROVE  Complete(j)
<1>1. Laid[j].recs # <<>> /\ Laid[j].recs[k] = Behind(Laid[j]) /\ SectionAt(input, Laid[j])
  BY Recorded, Sections
<1>2. Len(Laid[j].sent) = Behind(Laid[j]).known
  BY <1>1 DEF SectionAt
<1> QED
  BY <1>1, <1>2 DEF Complete, InRecord

\* A component shows what is known of its section.
LEMMA ShownSent ==
  ASSUME NEW buf, NEW fs \in Seq(FieldAt), NEW t \in Seq(Sent), Len(fs) = Len(t),
         \A f \in 1 .. Len(fs) : Shown(buf, fs)[f] = t[f]
  PROVE  Shown(buf, fs) = t
<1>1. Len(fs) \in Nat /\ DOMAIN fs = 1 .. Len(fs) /\ DOMAIN t = 1 .. Len(t) /\ t \in [1 .. Len(t) -> Sent]
  BY LenProperties
<1>2. Shown(buf, fs) = [f \in 1 .. Len(fs) |-> Shown(buf, fs)[f]]
  BY <1>1 DEF Shown
<1>3. t = [f \in 1 .. Len(t) |-> t[f]]
  BY <1>1
<1> QED
  BY <1>2, <1>3

\* What is shown when the parse ends in a section whose known records are set:
\* of an RTAS buffer the components of those before.
LEMMA EndsShown ==
  ASSUME IInv, Encoded(input), NEW j \in DOMAIN Laid, j = Len(Laid), InSection(j), Complete(j),
         input.job = "rtas" => ~input.whole
  PROVE  Got = input.sent
<1>1. input \in Inputs /\ fields \in Seq(FieldAt) /\ comps \in Seq([from : Nat, to : Nat, fields : Seq(FieldAt)])
  BY DEF IInv, TypeOK
<1>2. CASE input.job # "rtas"
  <2>1. Laid[j].sent \in Seq(Sent) /\ input.sent = Laid[j].sent
    BY <1>1, <1>2, Sections
  <2>2. Shown(input.buf, fields) = Laid[j].sent
    BY <1>1, <2>1, ShownSent DEF Complete
  <2> QED
    BY <1>2, <2>1, <2>2 DEF Got
<1>3. CASE input.job = "rtas"
  <2>1. input.sent \in Seq(Seq(Sent)) /\ Len(input.sent) = Laid[j].shown
    BY <1>3 DEF Encoded, Laid
  <2>2. Len(comps) = Laid[j].shown /\ \A c \in 1 .. Len(comps) : Shown(input.buf, comps[c].fields) = input.sent[c]
    BY <1>3 DEF InSection
  <2>3. DOMAIN comps = 1 .. Len(comps) /\ input.sent = [c \in 1 .. Len(input.sent) |-> input.sent[c]]
    BY <1>1, <2>1, LenProperties
  <2>4. Got = [c \in DOMAIN comps |-> Shown(input.buf, comps[c].fields)]
    BY <1>3 DEF Got
  <2> QED
    BY <2>1, <2>2, <2>3, <2>4
<1> QED
  BY <1>2, <1>3

\* The parse ends where the layout does.
LEMMA StopShows ==
  ASSUME IInv, Encoded(input), NEW j \in DOMAIN Laid, j = Len(Laid), InSection(j), Complete(j),
         input.job = "rtas" => ~input.whole, NEW r, Stop(r),
         input.whole /\ input.job \in {"pci", "node"} => r = Size, ~input.whole => r = 0
  PROVE  SentInv'
<1>1. Got = input.sent
  BY EndsShown
<1>2. /\ pc' = "done" /\ result' = r /\ UNCHANGED <<input, fields, comps>>
  BY DEF Stop
<1>3. Got' = Got
  BY <1>2 DEF Got
<1>4. Size' = Size
  BY <1>2 DEF Size
<1> QED
  BY <1>1, <1>2, <1>3, <1>4 DEF SentInv, WholeBufferRead, DamageStopsThere

\* A section ends, and the next begins where it ended.
LEMMA SectionShows ==
  ASSUME IInv, Encoded(input), pc = "records", NEW j \in DOMAIN Laid, InSection(j), Complete(j), end = Laid[j].to,
         input.job = "rtas", isSystem = Laid[j].system, Laid[j].recs # <<>>, j # Len(Laid) \/ input.whole, NextSection
  PROVE  SentInv'
<1> DEFINE s == Laid[j]
           S == [from : Nat, to : Nat, fields : Seq(FieldAt)]
<1>1. /\ input \in Inputs /\ fields \in Seq(FieldAt) /\ comps \in Seq(S) /\ base \in Nat /\ end \in Nat /\ base < end
      /\ end - base \in Nat
  BY DEF IInv, TypeOK
<1>2. /\ Len(Laid) \in Nat /\ j \in 1 .. Len(Laid) /\ DOMAIN Laid = 1 .. Len(Laid) /\ s.sent \in Seq(Sent)
      /\ s.shown \in Nat /\ Size \in Nat
  BY <1>1, Sections
<1>3. /\ input.sent \in Seq(Seq(Sent))
      /\ ~s.system => input.sent[s.shown + 1] = s.sent
      /\ input.whole /\ j = Len(Laid) => Len(input.sent) = ShownTo(s) /\ s.to = Len(input.buf)
      /\ j # Len(Laid) => s.to < Len(input.buf) /\ Laid[j + 1].from = s.to /\ Laid[j + 1].shown = ShownTo(s)
  <2>1. input.sent \in Seq(Seq(Sent)) /\ (~s.system => input.sent[s.shown + 1] = s.sent)
    <3>1. j < Len(Laid) \/ input.whole
      BY <1>2
    <3> QED
      BY <3>1 DEF Encoded, Laid
  <2>2. input.whole /\ j = Len(Laid) => Len(input.sent) = ShownTo(s) /\ s.to = Len(input.buf)
    BY DEF Encoded, Laid
  <2>3. j # Len(Laid) => s.to < Len(input.buf) /\ Laid[j + 1].from = s.to /\ Laid[j + 1].shown = ShownTo(s)
    <3>1. j # Len(Laid) => j \in 1 .. Len(Laid) - 1
      BY <1>2
    <3> QED
      BY <3>1 DEF Encoded, Laid
  <2> QED
    BY <2>1, <2>2, <2>3
<1>4. Shown(input.buf, fields) = s.sent
  BY <1>1, <1>2, ShownSent DEF Complete
<1>5. Len(comps) = s.shown /\ \A c \in 1 .. Len(comps) : Shown(input.buf, comps[c].fields) = input.sent[c]
  BY DEF InSection
<1>6. comps' = Pushed /\ base' = end /\ input' = input
  BY DEF NextSection
<1>7. Component \in S /\ Component.fields = fields
  BY <1>1 DEF Component
<1> HIDE DEF s, S
<1>8. /\ Len(Pushed) = ShownTo(s) /\ Pushed \in Seq(S)
      /\ \A c \in 1 .. Len(Pushed) : Shown(input.buf, Pushed[c].fields) = input.sent[c]
  <2>1. CASE isSystem
    <3>1. Pushed = comps /\ ShownTo(s) = s.shown
      BY <2>1 DEF Pushed, ShownTo, s
    <3> QED
      BY <1>1, <1>5, <3>1
  <2>2. CASE ~isSystem
    <3>1. Pushed = Append(comps, Component) /\ ShownTo(s) = s.shown + 1 /\ input.sent[s.shown + 1] = s.sent
      BY <1>3, <2>2 DEF Pushed, ShownTo, s
    <3>2. /\ Append(comps, Component) \in Seq(S) /\ Len(Append(comps, Component)) = Len(comps) + 1 /\ Len(comps) \in Nat
          /\ Append(comps, Component)[Len(comps) + 1] = Component
          /\ \A c \in 1 .. Len(comps) : Append(comps, Component)[c] = comps[c]
      BY <1>1, <1>7
    <3>3. ASSUME NEW c \in 1 .. Len(Pushed) PROVE Shown(input.buf, Pushed[c].fields) = input.sent[c]
      <4>1. CASE c = Len(comps) + 1
        BY <1>4, <1>5, <1>7, <3>1, <3>2, <4>1
      <4>2. CASE c # Len(comps) + 1
        <5>1. c \in 1 .. Len(comps)
          BY <3>1, <3>2, <4>2
        <5> QED
          BY <1>5, <3>1, <3>2, <5>1
      <4> QED
        BY <4>1, <4>2
    <3> QED
      BY <1>5, <3>1, <3>2, <3>3
  <2> QED
    BY <2>1, <2>2
<1>9. Len(comps') = ShownTo(s) /\ \A c \in 1 .. Len(comps') : Shown(input.buf, comps'[c].fields) = input.sent[c]
  BY <1>6, <1>8
<1>10. CASE end < Size
  <2>1. pc' = "header" /\ j # Len(Laid)
    <3>1. pc' = "header"
      BY <1>10 DEF NextSection
    <3>2. j = Len(Laid) => end = Size
      BY <1>3 DEF s, Size
    <3> QED
      BY <1>1, <1>2, <1>10, <3>1, <3>2
  <2>2. j + 1 \in DOMAIN Laid /\ Laid[j + 1].from = end /\ Laid[j + 1].shown = ShownTo(s)
    BY <1>2, <1>3, <2>1 DEF s
  <2>3. InSection(j + 1)'
    BY <1>6, <1>8, <1>9, <2>2 DEF InSection, Laid
  <2> QED
    BY <1>6, <2>1, <2>2, <2>3 DEF SentInv, WholeBufferRead, DamageStopsThere, Laid
<1>11. CASE ~(end < Size)
  <2>1. pc' = "done"
    BY <1>11 DEF NextSection
  <2>2. j = Len(Laid) /\ input.whole
    <3>1. j # Len(Laid) => end < Size
      BY <1>3 DEF s, Size
    <3> QED
      BY <1>11, <3>1
  <2>3. Len(input.sent) = Len(comps')
    BY <1>3, <1>6, <1>8, <2>2
  <2>4. DOMAIN comps' = 1 .. Len(comps')
    BY <1>6, <1>8, LenProperties
  <2>5. input.sent = [c \in 1 .. Len(input.sent) |-> input.sent[c]]
    BY <1>3, LenProperties
  <2>6. Got' = [c \in DOMAIN comps' |-> Shown(input.buf, comps'[c].fields)]
    BY <1>6 DEF Got
  <2>7. Got' = input.sent
    BY <1>9, <2>3, <2>4, <2>5, <2>6
  <2> QED
    BY <1>6, <2>1, <2>2, <2>7 DEF SentInv, WholeBufferRead, DamageStopsThere
<1> QED
  BY <1>10, <1>11

-----------------------------------------------------------------------------
\* A sound header leads to the first record.
LEMMA HeaderShows ==
  ASSUME IInv, Encoded(input), pc = "header", NEW j \in DOMAIN Laid, InSection(j), Laid[j].recs # <<>>,
         NEW to, to = Laid[j].to \/ (input.job = "system" /\ Laid[j].to <= to),
         Records(Laid[j].recs[1].at, to), input.job = "rtas" => isSystem' = Laid[j].system
  PROVE  SentInv'
<1>1. /\ pc' = "records" /\ pos' = Laid[j].recs[1].at /\ end' = to
      /\ UNCHANGED <<input, base, fields, comps>>
  BY DEF Records
<1>2. fields = <<>> /\ input \in Inputs
  BY DEF IInv, HeaderFirst
<1>3. Laid[j].recs[1].known = 0
  BY <1>2, Sections DEF SectionAt
<1>4. 1 \in DOMAIN Laid[j].recs
  <2>1. Laid[j].recs \in Seq([at : Nat, known : Nat])
    BY <1>2, Sections
  <2>2. Len(Laid[j].recs) \in Nat /\ DOMAIN Laid[j].recs = 1 .. Len(Laid[j].recs) /\ Len(Laid[j].recs) # 0
    BY <2>1, LenProperties, EmptySeq
  <2> QED
    BY <2>2
<1>5. Len(fields) = 0
  BY <1>2, EmptySeq
<1>6. InRecord(j, 1)'
  <2>1. \A f \in 1 .. 0 : FALSE
    OBVIOUS
  <2> QED
    BY <1>1, <1>3, <1>5, <2>1 DEF InRecord, Laid
<1>7. InSection(j)'
  BY <1>1 DEF InSection, Laid
<1>8. Laid' = Laid
  BY <1>1 DEF Laid
<1>9. ~(pc' = "header") /\ ~(pc' = "done")
  BY <1>1
<1> QED
  BY <1>4, <1>6, <1>7, <1>8, <1>9 DEF SentInv, WholeBufferRead, DamageStopsThere

\* A header that is none ends the parse.
LEMMA HeadlessShows ==
  ASSUME IInv, Encoded(input), pc = "header", NEW j \in DOMAIN Laid, InSection(j), Laid[j].recs = <<>>, Fail
  PROVE  SentInv'
<1>1. fields = <<>> /\ input \in Inputs
  BY DEF IInv, HeaderFirst
<1>2. j = Len(Laid) /\ ~input.whole /\ Laid[j].sent = <<>>
  BY <1>1, Sections DEF Headless
<1>3. Complete(j)
  <2>1. Len(fields) = 0 /\ Len(Laid[j].sent) = 0 /\ \A f \in 1 .. 0 : FALSE
    BY <1>1, <1>2, EmptySeq
  <2> QED
    BY <2>1 DEF Complete
<1> QED
  BY <1>2, <1>3, StopShows DEF Fail

LEMMA PciHeaderShows ==
  ASSUME IInv, Encoded(input), NEW j \in DOMAIN Laid, InSection(j), PciHeader
  PROVE  SentInv'
<1> DEFINE b == input.buf
           s == Laid[j]
           start == 3 + Word(b, 1) + 3
<1>1. /\ input \in Inputs /\ pc = "header" /\ input.format = "pci" /\ input.job = "pci" /\ Size \in Nat
  BY VpdBufferAssumption DEF IInv, PciHeader, Size
<1>2. Size >= 4 => Found(0) = {b[1]} /\ Found(1) = {b[2]} /\ Found(2) = {b[3]}
  <2>1. Size >= 4 => 0 < Size /\ 1 < Size /\ 2 < Size
    BY <1>1
  <2>2. 0 + 1 = 1 /\ 1 + 1 = 2 /\ 2 + 1 = 3
    OBVIOUS
  <2> QED
    BY <1>1, <2>1, <2>2, FoundInside
<1>3. Size >= 4 /\ b[1] = LargeTag =>
        IF start >= Size THEN Fail ELSE Records(start, Size) /\ UNCHANGED isSystem
  <2> SUFFICES ASSUME Size >= 4, b[1] = LargeTag
               PROVE  IF start >= Size THEN Fail ELSE Records(start, Size) /\ UNCHANGED isSystem
    OBVIOUS
  <2>1. Word(b, 1) = b[2] + Base * b[3]
    <3>1. 1 + 1 = 2 /\ 1 + 2 = 3
      OBVIOUS
    <3> QED
      BY <3>1 DEF Word
  <2>2. ~(Size < 4)
    BY <1>1
  <2>3. ~(Size < 4 \/ Found(0) # {LargeTag})
    BY <1>2, <2>2
  <2>4. \E lo \in Found(1), hi \in Found(2) :
          LET from == 3 + (lo + Base * hi) + 3
          IN IF from >= Size THEN Fail ELSE Records(from, Size) /\ UNCHANGED isSystem
    BY <2>3 DEF PciHeader
  <2> QED
    BY <1>2, <2>1, <2>4
<1>4. Size < 4 \/ b[1] # LargeTag => Fail
  <2>1. Size < 4 \/ Found(0) # {LargeTag} => Fail
    BY DEF PciHeader
  <2>2. Size < 4 \/ Size >= 4
    BY <1>1
  <2> QED
    BY <1>2, <2>1, <2>2
<1>5. CASE s.recs = <<>>
  <2>1. Len(b) < 4 \/ b[1] # LargeTag \/ start >= Len(b)
    BY <1>1, <1>5, Sections DEF Headless
  <2>2. Size < 4 \/ Size >= 4
    BY <1>1
  <2>3. Fail
    BY <1>3, <1>4, <2>1, <2>2 DEF Size
  <2> QED
    BY <1>1, <1>5, <2>3, HeadlessShows
<1>6. CASE s.recs # <<>>
  <2>1. /\ Size >= 4 /\ b[1] = LargeTag /\ s.recs[1].at = start /\ s.recs[1].at < Size /\ s.to = Size
    BY <1>1, <1>6, Sections DEF SectionAt, Headed, PciSection, Size
  <2>2. ~(start >= Size)
    <3>1. 1 \in DOMAIN s.recs => s.recs[1].at \in Nat
      BY <1>1, Recorded
    <3>2. s.recs \in Seq([at : Nat, known : Nat])
      BY <1>1, Sections
    <3>3. 1 \in DOMAIN s.recs
      <4>1. Len(s.recs) \in Nat /\ DOMAIN s.recs = 1 .. Len(s.recs) /\ Len(s.recs) # 0
        BY <1>6, <3>2, LenProperties, EmptySeq
      <4> QED
        BY <4>1
    <3>4. \A x, y \in Nat : x < y => ~(x >= y)
      OBVIOUS
    <3> QED
      BY <1>1, <2>1, <3>1, <3>3, <3>4
  <2>3. Records(s.recs[1].at, s.to)
    BY <1>3, <2>1, <2>2
  <2> QED
    BY <1>1, <1>6, <2>3, HeaderShows
<1> QED
  BY <1>5, <1>6

LEMMA RtasHeaderShows ==
  ASSUME IInv, Encoded(input), NEW j \in DOMAIN Laid, InSection(j), RtasHeader
  PROVE  SentInv'
<1> DEFINE b == input.buf
           s == Laid[j]
           size == Size4(b, base)
           dlen == Word(b, base + 5)
<1>1. /\ input \in Inputs /\ pc = "header" /\ input.format = "rtas" /\ input.job # "pci" /\ Size \in Nat /\ base \in Nat
      /\ base = s.from
  <2>1. input \in Inputs /\ pc = "header" /\ input.format = "rtas" /\ base \in Nat
    BY DEF IInv, TypeOK, RtasHeader
  <2>2. input.job # "pci" /\ Size \in Nat
    BY <2>1, VpdBufferAssumption DEF Size
  <2> QED
    BY <2>1, <2>2 DEF InSection
<1>2. PICK s3 \in Found(base), s2 \in Found(base + 1), s1 \in Found(base + 2), s0 \in Found(base + 3),
           type \in Found(base + 4), lo \in Found(base + 5), hi \in Found(base + 6) :
        LET wide == ((s3 * Base + s2) * Base + s1) * Base + s0
            narrow == lo + Base * hi
        IN IF type # LargeTag \/ 7 + narrow > 4 + wide THEN Fail
           ELSE /\ isSystem' = (Bytes(input.buf, base + 7, narrow) = SystemName)
                /\ Records(base + 7 + narrow + 3, base + wide + 4)
  BY DEF RtasHeader
<1>3. base + 5 <= Size => type = b[base + 5]
  <2>1. base + 5 <= Size => base + 4 \in Nat /\ base + 4 < Size /\ (base + 4) + 1 = base + 5
    BY <1>1
  <2> QED
    BY <1>1, <1>2, <2>1, FoundInside
<1>4. CASE s.recs = <<>>
  <2>1. base + 5 <= Size /\ b[base + 5] # LargeTag
    BY <1>1, <1>4, Sections DEF Headless, Size
  <2>2. Fail
    BY <1>2, <1>3, <2>1
  <2> QED
    BY <1>1, <1>4, <2>2, HeadlessShows
<1>5. CASE s.recs # <<>>
  <2>1. /\ base + 7 <= Size /\ b[base + 5] = LargeTag
        /\ s.to = base + size + 4 /\ base + 7 + dlen <= s.to
        /\ s.system = (SubSeq(b, base + 8, base + 7 + dlen) = SystemName)
        /\ s.recs[1].at = base + 7 + dlen + 3
    BY <1>1, <1>5, Sections DEF SectionAt, Headed, RtasSection, Size
  <2>2. /\ s3 = b[base + 1] /\ s2 = b[base + 2] /\ s1 = b[base + 3] /\ s0 = b[base + 4]
        /\ lo = b[base + 6] /\ hi = b[base + 7]
    <3>1. /\ base < Size /\ base + 1 < Size /\ base + 2 < Size /\ base + 3 < Size /\ base + 5 < Size /\ base + 6 < Size
          /\ base + 1 \in Nat /\ base + 2 \in Nat /\ base + 3 \in Nat /\ base + 5 \in Nat /\ base + 6 \in Nat
          /\ (base + 1) + 1 = base + 2 /\ (base + 2) + 1 = base + 3 /\ (base + 3) + 1 = base + 4
          /\ (base + 5) + 1 = base + 6 /\ (base + 6) + 1 = base + 7
      <4>1. base \in Nat /\ Size \in Nat /\ base + 7 <= Size
        BY <1>1, <2>1
      <4> QED
        BY <4>1
    <3>2. Found(base) = {b[base + 1]} /\ Found(base + 1) = {b[base + 2]} /\ Found(base + 2) = {b[base + 3]}
      BY <1>1, <3>1, FoundInside
    <3>3. Found(base + 3) = {b[base + 4]} /\ Found(base + 5) = {b[base + 6]} /\ Found(base + 6) = {b[base + 7]}
      BY <1>1, <3>1, FoundInside
    <3> QED
      BY <3>2, <3>3
  <2>3. base + 5 <= Size /\ (base + 5) + 1 = base + 6 /\ (base + 5) + 2 = base + 7 /\ (base + 7) + 1 = base + 8
    BY <1>1, <2>1
  <2>4. lo + Base * hi = dlen /\ ((s3 * Base + s2) * Base + s1) * Base + s0 = size
    BY <2>2, <2>3 DEF Word, Size4
  <2>5. dlen \in Nat /\ size \in Nat
    <3>1. base + 1 \in Nat /\ base + 2 \in Nat /\ base + 3 \in Nat /\ base + 5 \in Nat /\ base + 6 \in Nat
      BY <1>1
    <3>2. lo \in Byte /\ hi \in Byte /\ s3 \in Byte /\ s2 \in Byte /\ s1 \in Byte /\ s0 \in Byte
      BY <1>1, <1>2, <3>1, FoundIsByte
    <3>3. lo + Base * hi \in Nat /\ ((s3 * Base + s2) * Base + s1) * Base + s0 \in Nat
      BY <3>2, TwoBytes, FourBytes
    <3> QED
      BY <2>4, <3>3
  <2>6. type = LargeTag
    BY <1>3, <2>1, <2>3
  <2> HIDE DEF size, dlen, s, b
  <2>7. ~(7 + dlen > 4 + size)
    BY <1>1, <2>1, <2>5
  <2>8. /\ isSystem' = (Bytes(input.buf, base + 7, dlen) = SystemName)
        /\ Records(base + 7 + dlen + 3, base + size + 4)
    BY <1>2, <2>4, <2>6, <2>7
  <2>9. Bytes(input.buf, base + 7, dlen) = SubSeq(b, base + 8, base + 7 + dlen)
    BY <2>3 DEF Bytes, b
  <2>10. isSystem' = s.system
    BY <2>1, <2>8, <2>9
  <2>11. Records(s.recs[1].at, s.to)
    BY <2>1, <2>8
  <2> QED
    BY <1>1, <1>5, <2>10, <2>11, HeaderShows DEF s
<1> QED
  BY <1>4, <1>5

LEMMA OpalHeaderShows ==
  ASSUME IInv, Encoded(input), NEW j \in DOMAIN Laid, InSection(j), OpalHeader
  PROVE  SentInv'
<1> DEFINE b == input.buf
           s == Laid[j]
           size(lo, hi) == IF input.little THEN hi + Base * lo ELSE lo + Base * hi
<1>1. /\ input \in Inputs /\ pc = "header" /\ input.format = "opal" /\ input.job # "rtas" /\ input.job # "pci"
      /\ Size \in Nat /\ base \in Nat /\ base = s.from
  BY VpdBufferAssumption DEF IInv, TypeOK, OpalHeader, InSection, Size
<1>2. PICK type \in Found(base), lo \in Found(base + 1), hi \in Found(base + 2) :
        IF type # OpalTag THEN Fail
        ELSE Records(base + 3, base + size(lo, hi) + 3) /\ UNCHANGED isSystem
  BY DEF OpalHeader
<1>3. base + 1 <= Size => type = b[base + 1]
  <2>1. base + 1 <= Size => base < Size
    BY <1>1
  <2> QED
    BY <1>1, <1>2, <2>1, FoundInside
<1>4. CASE s.recs = <<>>
  <2>1. base + 1 <= Size /\ b[base + 1] # OpalTag
    BY <1>1, <1>4, Sections DEF Headless, Size
  <2>2. Fail
    BY <1>2, <1>3, <2>1
  <2> QED
    BY <1>1, <1>4, <2>2, HeadlessShows
<1>5. CASE s.recs # <<>>
  <2>1. /\ base + 3 <= Size /\ b[base + 1] = OpalTag
        /\ s.to = base + Word(b, base + 1) + 3
        /\ s.recs[1].at = base + 3
        /\ input.little => input.job = "system" /\ b[base + 3] = 0
    BY <1>1, <1>5, Sections DEF SectionAt, Headed, OpalSection, Size
  <2>2. base < Size /\ base + 1 <= Size /\ base + 1 \in Nat /\ base + 2 \in Nat
        /\ base + 1 < Size /\ base + 2 < Size /\ (base + 1) + 1 = base + 2 /\ (base + 2) + 1 = base + 3
        /\ (base + 1) + 2 = base + 3
    BY <1>1, <2>1
  <2>3. lo = b[base + 2] /\ hi = b[base + 3] /\ type = b[base + 1]
    BY <1>1, <1>2, <1>3, <2>2, FoundInside
  <2>4. Word(b, base + 1) = lo + Base * hi
    BY <2>2, <2>3 DEF Word
  <2>5. lo \in Byte /\ hi \in Byte
    BY <1>1, <1>2, <2>2, FoundIsByte
  <2>6. lo + Base * hi \in Nat /\ hi + Base * lo \in Nat /\ lo \in Nat /\ hi \in Nat /\ Base \in Nat /\ Base >= 1
    <3>1. Base \in Nat \ {0}
      BY VpdBufferAssumption
    <3>2. \A x \in Nat \ {0} : x \in Nat /\ x >= 1
      OBVIOUS
    <3> QED
      BY <2>5, <3>1, <3>2, TwoBytes DEF Byte
  <2>7. Records(base + 3, base + size(lo, hi) + 3) /\ UNCHANGED isSystem
    BY <1>2, <2>1, <2>3
  <2>8. CASE ~input.little
    BY <1>1, <1>5, <2>1, <2>4, <2>7, <2>8, HeaderShows
  <2>9. CASE input.little
    <3>1. hi = 0 /\ size(lo, hi) = hi + Base * lo
      BY <2>1, <2>3, <2>9
    <3>2. lo + Base * hi <= hi + Base * lo
      <4>1. Base * hi = 0 /\ lo + 0 = lo
        BY <2>6, <3>1
      <4>2. \A x, y \in Nat : x >= 1 => y <= x * y
        <5> TAKE x, y \in Nat
        <5> HAVE x >= 1
        <5>1. PICK z \in Nat : x = 1 + z
          <6>1. x - 1 \in Nat /\ x = 1 + (x - 1)
            OBVIOUS
          <6> QED
            BY <6>1
        <5>2. x * y = y + z * y
          BY <5>1
        <5>3. z * y \in Nat
          BY <5>1
        <5> QED
          BY <5>2, <5>3
      <4>3. lo <= Base * lo /\ Base * lo \in Nat
        BY <2>6, <4>2
      <4> QED
        BY <2>6, <3>1, <4>1, <4>3
    <3>3. s.to <= base + size(lo, hi) + 3
      <4>1. s.to = base + (lo + Base * hi) + 3 /\ base + size(lo, hi) + 3 = base + (hi + Base * lo) + 3
        BY <2>1, <2>4, <3>1
      <4>2. \A x, y \in Nat : x <= y => base + x + 3 <= base + y + 3
        BY <1>1
      <4> QED
        BY <2>6, <3>2, <4>1, <4>2
    <3> HIDE DEF size
    <3> QED
      BY <1>1, <1>5, <2>1, <2>7, <2>9, <3>3, HeaderShows
  <2> QED
    BY <2>8, <2>9
<1> QED
  BY <1>4, <1>5

\* A record that is read is the one laid out there, and is set if it is known.
LEMMA ReadRecordShows ==
  ASSUME IInv, Encoded(input), NEW j \in DOMAIN Laid, NEW k \in DOMAIN Laid[j].recs,
         InSection(j), InRecord(j, k), k # Len(Laid[j].recs), ReadRecord
  PROVE  SentInv'
<1> DEFINE b == input.buf
           s == Laid[j]
           len == b[pos + 3]
           key == <<b[pos + 1], b[pos + 2]>>
           f == [key |-> key, at |-> pos + 3, len |-> len]
<1>1. /\ input \in Inputs /\ pc = "records" /\ pos \in Nat /\ fields \in Seq(FieldAt)
      /\ UNCHANGED <<input, pc, base, end, isSystem, comps>>
  BY DEF IInv, TypeOK, ReadRecord, AtRecord
<1>2. /\ Found(pos) = {b[pos + 1]} /\ Found(pos + 1) = {b[pos + 2]} /\ Found(pos + 2) = {len} /\ len \in Nat
  BY <1>1, RecordRead
<1>3. /\ fields' = IF Stored(input.job, key) THEN Append(fields, f) ELSE fields
      /\ pos' = pos + 3 + len
  BY <1>2 DEF ReadRecord
<1>4. key \in Byte \X Byte
  <2>1. pos + 1 \in Nat /\ b[pos + 1] \in Found(pos) /\ b[pos + 2] \in Found(pos + 1)
    BY <1>1, <1>2
  <2> QED
    BY <1>1, <2>1, FoundIsByte
<1>5. f \in FieldAt
  BY <1>1, <1>2, <1>4 DEF FieldAt
<1>6. RecordAt(input, s, k) /\ k + 1 \in DOMAIN s.recs /\ pos = s.recs[k].at /\ s.recs[k].known \in Nat
      /\ Len(fields) = s.recs[k].known
  BY <1>1, Recorded DEF InRecord
<1>7. /\ s.recs[k + 1].at = pos + 3 + len
      /\ IF Stored(input.job, key)
         THEN /\ s.recs[k + 1].known = s.recs[k].known + 1
              /\ s.sent[s.recs[k + 1].known] = [key |-> key, val |-> SubSeq(b, pos + 4, pos + 3 + len)]
         ELSE s.recs[k + 1].known = s.recs[k].known
  BY <1>6 DEF RecordAt
<1>8. Len(fields') = s.recs[k + 1].known /\ \A i \in 1 .. Len(fields') : Shown(b, fields')[i] = s.sent[i]
  <2>1. \A i \in 1 .. Len(fields) : Shown(b, fields)[i] = s.sent[i]
    BY DEF InRecord
  <2> HIDE DEF s
  <2>2. CASE Stored(input.job, key)
    <3> HIDE DEF f
    <3>1. /\ fields' = Append(fields, f) /\ Len(fields) \in Nat /\ Len(fields') = Len(fields) + 1
          /\ DOMAIN fields' = 1 .. Len(fields) + 1 /\ DOMAIN fields = 1 .. Len(fields)
          /\ fields'[Len(fields) + 1] = f
          /\ \A i \in 1 .. Len(fields) : fields'[i] = fields[i]
      <4>1. fields' = Append(fields, f)
        BY <1>3, <2>2
      <4> QED
        BY <1>1, <1>5, <4>1, LenProperties
    <3>2. ASSUME NEW i \in 1 .. Len(fields') PROVE Shown(b, fields')[i] = s.sent[i]
      <4>1. i \in DOMAIN fields' /\ Shown(b, fields')[i] = [key |-> fields'[i].key, val |-> Bytes(b, fields'[i].at, fields'[i].len)]
        BY <3>1 DEF Shown
      <4>2. CASE i \in 1 .. Len(fields)
        <5>1. Shown(b, fields)[i] = [key |-> fields[i].key, val |-> Bytes(b, fields[i].at, fields[i].len)]
          BY <3>1, <4>2 DEF Shown
        <5> QED
          BY <2>1, <3>1, <4>1, <4>2, <5>1
      <4>3. CASE i = Len(fields) + 1
        <5>1. f.key = key /\ f.at = pos + 3 /\ f.len = len
          BY DEF f
        <5>2. (pos + 3) + 1 = pos + 4
          BY <1>1
        <5>3. Bytes(b, f.at, f.len) = SubSeq(b, pos + 4, pos + 3 + len)
          BY <5>1, <5>2 DEF Bytes
        <5>4. s.sent[i] = [key |-> key, val |-> SubSeq(b, pos + 4, pos + 3 + len)]
          BY <1>6, <1>7, <2>2, <4>3
        <5> QED
          BY <3>1, <4>1, <4>3, <5>1, <5>3, <5>4
      <4>4. i \in 1 .. Len(fields) \/ i = Len(fields) + 1
        BY <3>1
      <4> QED
        BY <4>2, <4>3, <4>4
    <3> QED
      BY <1>6, <1>7, <2>2, <3>1, <3>2
  <2>3. CASE ~Stored(input.job, key)
    BY <1>3, <1>6, <1>7, <2>1, <2>3
  <2> QED
    BY <2>2, <2>3
<1>9. InRecord(j, k + 1)'
  BY <1>1, <1>3, <1>7, <1>8 DEF InRecord, Laid
<1>10. InSection(j)'
  BY <1>1 DEF InSection, Laid
<1>11. Laid' = Laid /\ pc' = "records"
  BY <1>1 DEF Laid
<1>12. ~(pc' = "header") /\ ~(pc' = "done")
  BY <1>11
<1> QED
  BY <1>6, <1>9, <1>10, <1>11, <1>12 DEF SentInv, WholeBufferRead, DamageStopsThere

\* The parse is stopped by a record only where the buffer was damaged.
LEMMA CorruptRecordShows ==
  ASSUME IInv, Encoded(input), NEW j \in DOMAIN Laid, NEW k \in DOMAIN Laid[j].recs,
         InSection(j), InRecord(j, k), CorruptRecord
  PROVE  SentInv'
<1>1. input \in Inputs /\ pc = "records" /\ AtRecord /\ Fail
  BY DEF IInv, CorruptRecord, AtRecord
<1>2. k = Len(Laid[j].recs)
  BY <1>1, RecordRead
<1>3. ~Closed(input, Laid[j])
  BY <1>1, <1>2, ClosedEnds
<1>4. Laid[j].recs # <<>>
  BY <1>1, Recorded
<1>5. j = Len(Laid) /\ ~input.whole
  BY <1>1, <1>3, <1>4, Sections
<1>6. Complete(j)
  BY <1>1, <1>2, EndComplete
<1> QED
  BY <1>1, <1>5, <1>6, StopShows DEF Fail

\* The records end where the section was closed.
LEMMA NoMoreRecordsShows ==
  ASSUME IInv, Encoded(input), NEW j \in DOMAIN Laid, NEW k \in DOMAIN Laid[j].recs,
         InSection(j), InRecord(j, k), NoMoreRecords
  PROVE  SentInv'
<1>1. input \in Inputs /\ pc = "records" /\ Return /\ end \in Nat
  BY DEF IInv, TypeOK, NoMoreRecords
<1>2. k = Len(Laid[j].recs) /\ Laid[j].recs # <<>>
  BY <1>1, RecordRead, Recorded
<1>3. ~Broken(input, Laid[j])
  BY <1>1, <1>2, BrokenFails
<1>4. j # Len(Laid) \/ input.whole
  BY <1>1, <1>2, <1>3, Sections
<1>5. Complete(j)
  BY <1>1, <1>2, EndComplete
<1>6. CASE input.job = "rtas"
  <2>1. end = Laid[j].to /\ isSystem = Laid[j].system
    BY <1>6 DEF InRecord
  <2>2. NextSection
    BY <1>1, <1>6 DEF Return
  <2> QED
    BY <1>1, <1>2, <1>4, <1>5, <1>6, <2>1, <2>2, SectionShows
<1>7. CASE input.job # "rtas"
  <2>1. j = Len(Laid) /\ input.whole
    BY <1>1, <1>4, <1>7, Sections
  <2>2. input.job # "system" => end = Size
    <3>1. input.job # "system" => Laid[j].to = Size
      BY <2>1 DEF Encoded, Laid, Size
    <3> QED
      BY <3>1 DEF InRecord
  <2>3. base = 0 /\ end - base = end
    <3>1. base = 0
      BY <1>7 DEF IInv, OneSection
    <3> QED
      BY <1>1, <3>1
  <2>4. Stop(end - base)
    BY <1>1, <1>7 DEF Return
  <2>5. input.whole /\ input.job \in {"pci", "node"} => end - base = Size
    BY <2>2, <2>3
  <2> QED
    BY <1>5, <1>7, <2>1, <2>4, <2>5, StopShows
<1> QED
  BY <1>6, <1>7

LEMMA InitSent == Init => SentInv
<1> SUFFICES ASSUME Init, Encoded(input)
             PROVE  SentInv
  BY DEF SentInv
<1>1. pc = "header" /\ base = 0 /\ comps = <<>>
  BY DEF Init
<1>2. 1 \in DOMAIN Laid /\ Laid[1].from = 0 /\ Laid[1].shown = 0
  <2>1. Len(Laid) \in Nat \ {0} /\ DOMAIN Laid = 1 .. Len(Laid) /\ Laid[1].from = 0 /\ Laid[1].shown = 0
    BY DEF Encoded, Laid
  <2> QED
    BY <2>1
<1>3. InSection(1)
  <2>1. Len(comps) = 0 /\ \A c \in 1 .. 0 : FALSE
    BY <1>1, EmptySeq
  <2> QED
    BY <1>1, <1>2, <2>1 DEF InSection
<1>4. pc # "records" /\ pc # "done"
  BY <1>1
<1> QED
  BY <1>2, <1>3, <1>4 DEF SentInv, WholeBufferRead, DamageStopsThere

LEMMA NextSent == IInv /\ SentInv /\ [Next]_vars => SentInv'
<1> SUFFICES ASSUME IInv, SentInv, [Next]_vars, Encoded(input)'
             PROVE  SentInv'
  BY DEF SentInv
<1>1. input' = input
  BY DEF Next, vars, PciHeader, RtasHeader, OpalHeader, ReadRecord, CorruptRecord, NoMoreRecords,
         Fail, Stop, Return, NextSection, Records
<1>2. Encoded(input)
  BY <1>1
<1>3. ASSUME pc = "header" PROVE \E j \in DOMAIN Laid : InSection(j)
  BY <1>2, <1>3 DEF SentInv
<1>4. ASSUME pc = "records"
      PROVE  \E j \in DOMAIN Laid : InSection(j) /\ \E k \in DOMAIN Laid[j].recs : InRecord(j, k)
  BY <1>2, <1>4 DEF SentInv
<1>5. CASE PciHeader
  BY <1>2, <1>3, <1>5, PciHeaderShows DEF PciHeader
<1>6. CASE RtasHeader
  BY <1>2, <1>3, <1>6, RtasHeaderShows DEF RtasHeader
<1>7. CASE OpalHeader
  BY <1>2, <1>3, <1>7, OpalHeaderShows DEF OpalHeader
<1>8. CASE ReadRecord
  <2>1. PICK j \in DOMAIN Laid : InSection(j) /\ \E k \in DOMAIN Laid[j].recs : InRecord(j, k)
    BY <1>4, <1>8 DEF ReadRecord, AtRecord
  <2>2. PICK k \in DOMAIN Laid[j].recs : InRecord(j, k)
    BY <2>1
  <2>3. CASE k # Len(Laid[j].recs)
    BY <1>2, <1>8, <2>1, <2>2, <2>3, ReadRecordShows
  <2>4. CASE k = Len(Laid[j].recs)
    <3>1. input \in Inputs /\ AtRecord /\ pc = "records"
      BY <1>8 DEF IInv, ReadRecord, AtRecord
    <3>2. ~Closed(input, Laid[j])
      BY <1>2, <2>1, <2>2, <2>4, <3>1, ClosedEnds
    <3>3. ~Broken(input, Laid[j])
      BY <1>2, <1>8, <2>1, <2>2, <2>4, <3>1, BrokenFails
    <3>4. Laid[j].recs # <<>>
      BY <1>2, <3>1, Recorded
    <3> QED
      BY <1>2, <3>1, <3>2, <3>3, <3>4, Sections
  <2> QED
    BY <2>3, <2>4
<1>9. CASE CorruptRecord
  BY <1>2, <1>4, <1>9, CorruptRecordShows DEF CorruptRecord, AtRecord
<1>10. CASE NoMoreRecords
  BY <1>2, <1>4, <1>10, NoMoreRecordsShows DEF NoMoreRecords
<1>11. CASE UNCHANGED vars
  BY <1>11 DEF vars, SentInv, InSection, InRecord, Laid, WholeBufferRead, DamageStopsThere, Got, Size
<1> QED
  BY <1>5, <1>6, <1>7, <1>8, <1>9, <1>10, <1>11 DEF Next

-----------------------------------------------------------------------------
(* Text.                                                                   *)

\* A set of numbers that is not empty has a least one.
LEMMA Minimum ==
  ASSUME NEW S \in SUBSET Nat, S # {}
  PROVE  \E m \in S : \A x \in S : m <= x
<1>1. PICK m \in S : \A x \in S : <<x, m>> \notin OpToRel(<, Nat)
  BY NatLessThanWellFounded, WFMin, Zenon
<1>2. \A x \in S : ~(x < m)
  BY <1>1 DEF OpToRel
<1>3. \A x, y \in Nat : ~(x < y) => y <= x
  OBVIOUS
<1> QED
  BY <1>2, <1>3

\* The last byte looked at is there to be found: the last that is no zero, or
\* the first when all are.
LEMMA LookedAt ==
  ASSUME NEW v \in Seq(Byte), v # <<>>
  PROVE  /\ LastLooked(v) \in 1 .. Len(v)
         /\ \A j \in LastLooked(v) + 1 .. Len(v) : v[j] = 0
<1> DEFINE P(i) == (\A j \in i + 1 .. Len(v) : v[j] = 0) /\ (i = 1 \/ v[i] # 0)
           Far == {i \in 1 .. Len(v) : \A j \in i + 1 .. Len(v) : v[j] = 0}
<1>1. Len(v) \in Nat /\ Len(v) >= 1
  <2>1. Len(v) \in Nat /\ Len(v) # 0
    BY EmptySeq
  <2> QED
    BY <2>1
<1>2. Far \in SUBSET Nat /\ Far # {}
  <2>1. Len(v) \in Far
    BY <1>1
  <2> QED
    BY <2>1
<1>3. PICK m \in Far : \A x \in Far : m <= x
  <2> HIDE DEF Far
  <2> QED
    BY <1>2, Minimum
<1>4. m = 1 \/ v[m] # 0
  <2> SUFFICES ASSUME m # 1, v[m] = 0 PROVE FALSE
    OBVIOUS
  <2>1. m - 1 \in 1 .. Len(v)
    BY <1>1
  <2>2. ASSUME NEW j \in (m - 1) + 1 .. Len(v) PROVE v[j] = 0
    <3>1. j = m \/ j \in m + 1 .. Len(v)
      BY <1>1
    <3> QED
      BY <3>1
  <2>3. m - 1 \in Far
    BY <2>1, <2>2
  <2>4. ~(m <= m - 1)
    BY <1>1
  <2> QED
    BY <1>3, <2>3, <2>4
<1>5. \E i \in 1 .. Len(v) : P(i)
  BY <1>4
<1>6. LastLooked(v) = CHOOSE i \in 1 .. Len(v) : P(i)
  BY DEF LastLooked
<1> HIDE DEF P
<1>7. LastLooked(v) \in 1 .. Len(v) /\ P(LastLooked(v))
  BY <1>5, <1>6
<1> QED
  BY <1>7 DEF P

\* The text of a value goes on to the first zero.
LEMMA TextReaches ==
  ASSUME NEW v \in Seq(Byte), NEW i \in 1 .. Len(v), \A j \in 1 .. i : v[j] # 0
  PROVE  Len(Text(v)) \in Nat /\ i <= Len(Text(v))
<1> DEFINE P(n) == (\A l \in 1 .. n : v[l] # 0) /\ (n = Len(v) \/ v[n + 1] = 0)
           Ends == {n \in 0 .. Len(v) : n = Len(v) \/ v[n + 1] = 0}
<1>1. Len(v) \in Nat
  OBVIOUS
<1>2. Ends \in SUBSET Nat /\ Len(v) \in Ends
  BY <1>1
<1>3. PICK m \in Ends : \A x \in Ends : m <= x
  <2> HIDE DEF Ends
  <2> QED
    BY <1>2, Minimum
<1>4. ASSUME NEW l \in 1 .. m PROVE v[l] # 0
  <2> SUFFICES ASSUME v[l] = 0 PROVE FALSE
    OBVIOUS
  <2>1. l - 1 \in 0 .. Len(v) /\ (l - 1) + 1 = l
    BY <1>1
  <2>2. l - 1 \in Ends
    BY <2>1
  <2>3. ~(m <= l - 1)
    BY <1>1
  <2> QED
    BY <1>3, <2>2, <2>3
<1>5. \E n \in 0 .. Len(v) : P(n)
  BY <1>4
<1> DEFINE n == CHOOSE x \in 0 .. Len(v) : P(x)
<1>6. Text(v) = SubSeq(v, 1, n)
  BY DEF Text
<1>7. n \in 0 .. Len(v) /\ P(n)
  <2> HIDE DEF P
  <2> QED
    BY <1>5
<1> HIDE DEF n
<1>8. Len(Text(v)) = n
  BY <1>1, <1>6, <1>7
<1>9. i <= n
  <2> SUFFICES ASSUME ~(i <= n) PROVE FALSE
    OBVIOUS
  <2>1. n # Len(v) /\ n + 1 \in 1 .. i
    BY <1>1, <1>7
  <2> QED
    BY <1>7, <2>1
<1> QED
  BY <1>7, <1>8, <1>9

\* What is shown as text is whole: only a value whose every byte up to the
\* zeros that pad it is printed is text, and no zero is.
LEMMA TextWhole == IInv => TextIsWhole
<1> SUFFICES ASSUME IInv, NEW i \in DOMAIN fields, fields[i].at + fields[i].len <= Size,
                    IsPrintable(Bytes(input.buf, fields[i].at, fields[i].len)),
                    NEW j \in Len(Text(Bytes(input.buf, fields[i].at, fields[i].len))) + 1
                              .. Len(Bytes(input.buf, fields[i].at, fields[i].len))
             PROVE  Bytes(input.buf, fields[i].at, fields[i].len)[j] = 0
  BY DEF TextIsWhole
<1> DEFINE v == Bytes(input.buf, fields[i].at, fields[i].len)
<1>1. input.buf \in Seq(Byte) /\ Len(input.buf) \in Nat
  BY VpdBufferAssumption DEF IInv
<1>2. fields[i].at \in Nat /\ fields[i].len \in Nat
  <2>1. fields \in Seq(FieldAt)
    BY DEF IInv, TypeOK
  <2>2. fields[i] \in FieldAt
    BY <2>1, LenProperties, ElementOfSeq
  <2> QED
    BY <2>2 DEF FieldAt
<1>3. v \in Seq(Byte)
  <2>1. \A m \in fields[i].at + 1 .. fields[i].at + fields[i].len : m \in 1 .. Len(input.buf)
    BY <1>1, <1>2 DEF Size
  <2>2. \A m \in 1 .. Len(input.buf) : input.buf[m] \in Byte
    BY <1>1
  <2> QED
    BY <1>1, <1>2, <2>1, <2>2, SubSeqProperties DEF Bytes
<1>4. v # <<>> /\ \A l \in 1 .. LastLooked(v) : v[l] \in Printing
  BY DEF IsPrintable
<1>5. j \in Len(Text(v)) + 1 .. Len(v)
  OBVIOUS
<1> HIDE DEF v
<1>6. LastLooked(v) \in 1 .. Len(v) /\ \A m \in LastLooked(v) + 1 .. Len(v) : v[m] = 0
  BY <1>3, <1>4, LookedAt
<1>7. \A l \in 1 .. LastLooked(v) : v[l] # 0
  BY <1>4, VpdBufferAssumption
<1>8. Len(Text(v)) \in Nat /\ LastLooked(v) <= Len(Text(v))
  BY <1>3, <1>6, <1>7, TextReaches
<1>9. Len(v) \in Nat
  BY <1>3
<1>10. j \in LastLooked(v) + 1 .. Len(v)
  BY <1>5, <1>6, <1>8, <1>9
<1>11. v[j] = 0
  BY <1>6, <1>10
<1> QED
  BY <1>11 DEF v

-----------------------------------------------------------------------------
\* What a sound buffer was written from is what its parser reads from it, all of
\* it and nothing else, whatever the lengths, the sections and the records; of a
\* damaged one it reads what is in front of the damage.  A value that is shown
\* as text, in any buffer, is shown to its end.
THEOREM ReadsWhatWasSent == Spec => []ReadAsSent
<1>1. SentInv => WholeBufferRead /\ DamageStopsThere
  BY DEF SentInv, WholeBufferRead, DamageStopsThere
<1>2. IInv /\ SentInv => ReadAsSent
  BY <1>1, TextWhole DEF ReadAsSent
<1> QED
  BY <1>2, InitInv, NextInv, InitSent, NextSent, PTL DEF Spec
==============================================================================
