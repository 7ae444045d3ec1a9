------------------------------ MODULE VpdBuffer ------------------------------
(***************************************************************************)
(* The parsers of binary VPD: a header, then records of a two-byte keyword,*)
(* a length byte and that many bytes, up to an end tag.  Four callers:     *)
(*   "pci"     parsePciVPDBuffer on the vpd file of a PCI device,          *)
(*   "node"    parseVPDBuffer on ibm,vpd of a device tree node,            *)
(*   "rtas"    parseRtasVpd: parseVPDBuffer on one section after another   *)
(*             of what rtasGetVPD returned, a component for each,          *)
(*   "system"  parseSysVPD, which checks no length.                        *)
(* Offsets count from 0 as the pointers of the code do.  char is unsigned, *)
(* as it is on POWER.  A read beyond the buffer may find any byte.         *)
(***************************************************************************)
EXTENDS Integers, Sequences

CONSTANTS
  Base,         \* values of a byte, 256 in the code
  LargeTag,     \* 0x82, the type of a PCI and of an RTAS header
  OpalTag,      \* OPAL_VPD_TYPE, 0x84
  EndTag,       \* 0x78
  OtherEndTag,  \* 0x79
  Printing,     \* what isprint accepts
  Blank,        \* and isspace of that
  Keys,         \* the keywords setVPDField stores in a Component
  SystemName,   \* "System VPD"
  Inputs        \* the calls: who parses which buffer

Byte == 0 .. Base - 1

ASSUME VpdBufferAssumption ==
  /\ Base \in Nat \ {0} /\ 0 \notin Printing
  /\ \A in \in Inputs :
       /\ in.job \in {"pci", "node", "rtas", "system"}
       /\ in.format \in {"pci", "rtas", "opal"} /\ in.little \in BOOLEAN
       /\ in.buf \in Seq(Byte)
       /\ in.job = "pci" <=> in.format = "pci"
       /\ in.job = "rtas" => in.format = "rtas"

VARIABLES
  input,   \* the call: job, format, little (-endian host), buf, and what was sent in it
  pc,      \* "header", "records", "done"
  base,    \* where the section begins
  pos,     \* buf, the next byte to read
  end,     \* where the section ends, by its header
  isSystem,\* fruName is "System VPD"
  fields,  \* the fields set in this section's component: keyword and place
  comps,   \* the components a "rtas" call has pushed
  result   \* the size returned

vars == <<input, pc, base, pos, end, isSystem, fields, comps, result>>

Init ==
  /\ input \in Inputs
  /\ pc = "header" /\ base = 0 /\ pos = 0 /\ end = 0
  /\ isSystem = FALSE /\ fields = <<>> /\ comps = <<>> /\ result = 0

Size == Len(input.buf)
Bytes(buf, p, n) == SubSeq(buf, p + 1, p + n)
\* The values a byte may have when it is read.
Found(p) == IF p < Size THEN {input.buf[p + 1]} ELSE Byte

-----------------------------------------------------------------------------
(* How a section ends.                                                     *)

Stop(r) ==
  /\ pc' = "done" /\ result' = r
  /\ UNCHANGED <<input, base, pos, end, isSystem, fields, comps>>

\* What parseRtasVpd makes of a section: a component, unless it is the system's.
Component == [from |-> base, to |-> end, fields |-> fields]
Pushed == IF isSystem THEN comps ELSE Append(comps, Component)

\* ... and it goes on with the section behind this one.
NextSection ==
  /\ comps' = Pushed
  /\ base' = end
  /\ fields' = <<>> /\ isSystem' = FALSE
  /\ IF end < Size
     THEN pc' = "header" /\ UNCHANGED result
     ELSE pc' = "done" /\ result' = end - base
  /\ UNCHANGED <<input, pos, end>>

\* Mutant: parseRtasVpd keeps what it has of a corrupt section and goes on.
FailGoesOn ==
  IF input.job = "rtas" /\ pc = "records"
  THEN NextSection
  ELSE Stop(0)

Fail == Stop(0)

Return == IF input.job = "rtas" THEN NextSection ELSE Stop(end - base)

-----------------------------------------------------------------------------
(* The headers.                                                            *)

Records(from, to) ==
  /\ pc' = "records" /\ pos' = from /\ end' = to
  /\ UNCHANGED <<input, base, fields, comps, result>>

\* Mutant: the records are taken to begin behind the product's name.
PciHeaderKeepsTag ==
  /\ pc = "header" /\ input.format = "pci"
  /\ IF Size < 4 \/ Found(0) # {LargeTag} THEN Fail
     ELSE \E lo \in Found(1), hi \in Found(2) :
            LET start == 3 + (lo + Base * hi)
            IN IF start >= Size THEN Fail ELSE Records(start, Size) /\ UNCHANGED isSystem

\* The type and the product's name, which is skipped, then the tag and the
\* length of the section of keywords, which are skipped too.
PciHeader ==
  /\ pc = "header" /\ input.format = "pci"
  /\ IF Size < 4 \/ Found(0) # {LargeTag} THEN Fail
     ELSE \E lo \in Found(1), hi \in Found(2) :
            LET start == 3 + (lo + Base * hi) + 3
            IN IF start >= Size THEN Fail ELSE Records(start, Size) /\ UNCHANGED isSystem

\* Mutant: the end of a section counts from the begin of the buffer.
RtasHeaderRelative ==
  /\ pc = "header" /\ input.format = "rtas"
  /\ \E s3 \in Found(base), s2 \in Found(base + 1), s1 \in Found(base + 2), s0 \in Found(base + 3),
        type \in Found(base + 4), lo \in Found(base + 5), hi \in Found(base + 6) :
       LET size == ((s3 * Base + s2) * Base + s1) * Base + s0
           dlen == lo + Base * hi
       IN IF type # LargeTag \/ 7 + dlen > 4 + size THEN Fail
          ELSE /\ isSystem' = (Bytes(input.buf, base + 7, dlen) = SystemName)
               /\ Records(base + 7 + dlen + 3, size + 4)

\* The size, the type, the name with its length, three bytes that are skipped.
RtasHeader ==
  /\ pc = "header" /\ input.format = "rtas"
  /\ \E s3 \in Found(base), s2 \in Found(base + 1), s1 \in Found(base + 2), s0 \in Found(base + 3),
        type \in Found(base + 4), lo \in Found(base + 5), hi \in Found(base + 6) :
       LET size == ((s3 * Base + s2) * Base + s1) * Base + s0
           dlen == lo + Base * hi
       IN IF type # LargeTag \/ 7 + dlen > 4 + size THEN Fail
          ELSE /\ isSystem' = (Bytes(input.buf, base + 7, dlen) = SystemName)
               /\ Records(base + 7 + dlen + 3, base + size + 4)

\* The type and the length.  The length is read low byte first and then put
\* through be16toh, which swaps the bytes when the host is little-endian.
OpalHeader ==
  /\ pc = "header" /\ input.format = "opal"
  /\ \E type \in Found(base), lo \in Found(base + 1), hi \in Found(base + 2) :
       LET size == IF input.little THEN hi + Base * lo ELSE lo + Base * hi
       IN IF type # OpalTag THEN Fail
          ELSE Records(base + 3, base + size + 3) /\ UNCHANGED isSystem

-----------------------------------------------------------------------------
(* The records.                                                            *)

\* What ends the records before their end.
EndTags(job) == IF job = "system" THEN {EndTag} ELSE {EndTag, OtherEndTag}

\* Mutant: a record may reach up to the end of what was read.
RunsOverBuffer(n) ==
  CASE input.job = "pci" -> pos + n >= end
    [] input.job \in {"node", "rtas"} -> pos + n > Size
    [] input.job = "system" -> FALSE

\* The next n bytes are more than the parser allows.
RunsOver(n) ==
  CASE input.job = "pci" -> pos + n >= end
    [] input.job \in {"node", "rtas"} -> pos + n > end
    [] input.job = "system" -> FALSE

NoMoreRecords ==
  /\ pc = "records"
  /\ pos >= end \/ \E b \in Found(pos) : b \in EndTags(input.job)
  /\ Return

AtRecord == pc = "records" /\ pos < end /\ \E b \in Found(pos) : b \notin EndTags(input.job)

\* A Component has no place for the keywords it does not know; a System keeps
\* them all.
Stored(job, key) == job = "system" \/ key \in Keys

ReadRecord ==
  /\ AtRecord
  /\ \E k1 \in Found(pos), k2 \in Found(pos + 1), len \in Found(pos + 2) :
       /\ ~RunsOver(3) /\ ~RunsOver(3 + len)
       /\ fields' = IF Stored(input.job, <<k1, k2>>)
                    THEN Append(fields, [key |-> <<k1, k2>>, at |-> pos + 3, len |-> len])
                    ELSE fields
       /\ pos' = pos + 3 + len
  /\ UNCHANGED <<input, pc, base, end, isSystem, comps, result>>

CorruptRecord ==
  /\ AtRecord
  /\ RunsOver(3) \/ \E len \in Found(pos + 2) : RunsOver(3 + len)
  /\ Fail

-----------------------------------------------------------------------------
Next ==
  \/ PciHeader \/ RtasHeader \/ OpalHeader
  \/ ReadRecord \/ CorruptRecord \/ NoMoreRecords

Spec == Init /\ [][Next]_vars

-----------------------------------------------------------------------------
(* sanitizeVPDField: text, or else a dump of the bytes.                    *)

\* The last byte isPrintable looks at: nothing but zeros follows it.
LastLooked(v) ==
  CHOOSE i \in 1 .. Len(v) :
    /\ \A j \in i + 1 .. Len(v) : v[j] = 0
    /\ i = 1 \/ v[i] # 0

\* Mutant: the bytes before the first zero are looked at, as strlen has it.
IsPrintableText(v) ==
  \E i \in 1 .. Len(v) :
    /\ \A j \in 1 .. i : v[j] \in Printing
    /\ i = Len(v) \/ v[i + 1] = 0
    /\ \E j \in 1 .. i : v[j] \notin Blank

IsPrintable(v) ==
  /\ v # <<>>
  /\ \A i \in 1 .. LastLooked(v) : v[i] \in Printing
  /\ \E i \in 1 .. LastLooked(v) : v[i] \notin Blank

\* string(val): what is before the first zero.
Text(v) ==
  SubSeq(v, 1, CHOOSE n \in 0 .. Len(v) : /\ \A i \in 1 .. n : v[i] # 0
                                          /\ n = Len(v) \/ v[n + 1] = 0)

-----------------------------------------------------------------------------
(* What is sent in a buffer.  in.sent is what it was encoded from, and     *)
(* in.sections how: no action reads them.  A section has its place, the    *)
(* places of its records (recs), with the number of known ones in front of *)
(* each, and the known ones (sent); recs ends with the place behind.       *)

Word(b, p) == b[p + 1] + Base * b[p + 2]
Size4(b, p) == ((b[p + 1] * Base + b[p + 2]) * Base + b[p + 3]) * Base + b[p + 4]

\* A sound header says where the records begin and where they end.  An OPAL
\* section's length is misread by a little-endian host.
PciSection(b, s) ==
  /\ Len(b) >= 4 /\ b[1] = LargeTag
  /\ s.recs[1].at = 3 + Word(b, 1) + 3 /\ s.recs[1].at < Len(b) /\ s.to = Len(b)
RtasSection(b, s) ==
  LET nameLen == Word(b, s.from + 5)
  IN /\ s.from + 7 <= Len(b) /\ b[s.from + 5] = LargeTag
     /\ s.to = s.from + Size4(b, s.from) + 4 /\ s.from + 7 + nameLen <= s.to /\ s.to <= Len(b)
     /\ s.system = (SubSeq(b, s.from + 8, s.from + 7 + nameLen) = SystemName)
     /\ s.recs[1].at = s.from + 7 + nameLen + 3
OpalSection(b, s) ==
  /\ s.from + 3 <= Len(b) /\ b[s.from + 1] = OpalTag
  /\ s.to = s.from + Word(b, s.from + 1) + 3 /\ s.to <= Len(b)
  /\ s.recs[1].at = s.from + 3
Headed(in, s) ==
  /\ in.format = "pci" => PciSection(in.buf, s)
  /\ in.format = "rtas" => RtasSection(in.buf, s)
  /\ in.format = "opal" => OpalSection(in.buf, s)
  /\ in.format = "opal" /\ in.little => in.job = "system" /\ in.buf[s.from + 3] = 0

\* A header that is none.
Headless(in, s) ==
  /\ s.sent = <<>>
  /\ in.format = "pci" => Len(in.buf) < 4 \/ in.buf[1] # LargeTag \/ 3 + Word(in.buf, 1) + 3 >= Len(in.buf)
  /\ in.format = "rtas" => s.from + 5 <= Len(in.buf) /\ in.buf[s.from + 5] # LargeTag
  /\ in.format = "opal" => s.from + 1 <= Len(in.buf) /\ in.buf[s.from + 1] # OpalTag

\* So much of a section there may be: a PCI buffer has an end tag behind it.
Fits(in, s, p) == IF in.job = "pci" THEN p < s.to ELSE p <= s.to

\* The k-th record, and what comes of it.
RecordAt(in, s, k) ==
  LET p == s.recs[k].at
      behind == s.recs[k + 1]
      key == <<in.buf[p + 1], in.buf[p + 2]>>
      val == SubSeq(in.buf, p + 4, p + 3 + in.buf[p + 3])
  IN /\ p + 3 <= Len(in.buf) /\ in.buf[p + 1] \notin EndTags(in.job)
     /\ behind.at = p + 3 + in.buf[p + 3] /\ behind.at <= Len(in.buf) /\ Fits(in, s, behind.at)
     /\ IF Stored(in.job, key)
        THEN behind.known = s.recs[k].known + 1 /\ s.sent[behind.known] = [key |-> key, val |-> val]
        ELSE behind.known = s.recs[k].known

\* How its records end: by a tag or with the section, or in one whose length is
\* more than there is.
Behind(s) == s.recs[Len(s.recs)]
Closed(in, s) ==
  \/ Behind(s).at < Len(in.buf) /\ in.buf[Behind(s).at + 1] \in EndTags(in.job)
  \/ Behind(s).at >= s.to /\ in.job # "system"
Broken(in, s) ==
  LET p == Behind(s).at
  IN /\ p < s.to /\ p < Len(in.buf) /\ in.buf[p + 1] \notin EndTags(in.job) /\ in.job # "system"
     /\ ~Fits(in, s, p + 3) \/ ~Fits(in, s, p + 3 + in.buf[p + 3])

Sent == [key : Byte \X Byte, val : Seq(Byte)]
SectionAt(in, s) ==
  /\ s.from \in Nat /\ s.to \in Nat /\ s.shown \in Nat
  /\ s.recs \in Seq([at : Nat, known : Nat]) /\ s.sent \in Seq(Sent)
  /\ s.recs # <<>> =>
       /\ Headed(in, s)
       /\ s.recs[1].known = 0 /\ Len(s.sent) = Behind(s).known
       /\ \A k \in 1 .. Len(s.recs) - 1 : RecordAt(in, s, k)

\* The sections stand one behind the other, and each but a system's is shown.
\* Only the last may be damaged, and then it is not.
ShownTo(s) == IF s.system THEN s.shown ELSE s.shown + 1
Encoded(in) ==
  LET ss == in.sections
      last == ss[Len(ss)]
  IN /\ Len(ss) \in Nat \ {0} /\ DOMAIN ss = 1 .. Len(ss) /\ ss[1].from = 0 /\ ss[1].shown = 0
     /\ \A j \in DOMAIN ss : SectionAt(in, ss[j])
     /\ \A j \in 1 .. Len(ss) - 1 : /\ ss[j].recs # <<>> /\ Closed(in, ss[j]) /\ ss[j].to < Len(in.buf)
                                    /\ ss[j + 1].from = ss[j].to /\ ss[j + 1].shown = ShownTo(ss[j])
     /\ IF in.whole
        THEN last.recs # <<>> /\ Closed(in, last) /\ (in.job # "system" => last.to = Len(in.buf))
        ELSE IF last.recs = <<>> THEN Headless(in, last) ELSE Broken(in, last)
     /\ IF in.job = "rtas"
        THEN /\ in.sent \in Seq(Seq(Sent)) /\ Len(in.sent) = IF in.whole THEN ShownTo(last) ELSE last.shown
             /\ \A j \in DOMAIN ss : ~ss[j].system /\ (j < Len(ss) \/ in.whole) => in.sent[ss[j].shown + 1] = ss[j].sent
        ELSE Len(ss) = 1 /\ in.sent = ss[1].sent

-----------------------------------------------------------------------------
(* Properties.                                                             *)

FieldAt == [key : Byte \X Byte, at : Nat, len : Nat]

TypeOK ==
  /\ pc \in {"header", "records", "done"}
  /\ base \in Nat /\ pos \in Nat /\ end \in Nat
  /\ pc = "records" => base < end /\ base <= pos
  /\ isSystem \in BOOLEAN
  /\ fields \in Seq(FieldAt)
  /\ comps \in Seq([from : Nat, to : Nat, fields : Seq(FieldAt)])
  /\ result \in Nat

Inside(fs, from, to) == \A i \in DOMAIN fs : from <= fs[i].at /\ fs[i].at + fs[i].len <= to

\* No field of a component is read from outside the section its header sized:
\* not from the section behind it in one RTAS buffer, and not from behind the
\* end of a vpd file.  (parseSysVPD does not check, and is not held to it.)
FieldsInsideSection ==
  input.job # "system" =>
    /\ Inside(fields, base, end)
    /\ \A i \in DOMAIN comps : Inside(comps[i].fields, comps[i].from, comps[i].to)

\* What a component shows of its fields, as the bytes they hold.
Shown(buf, fs) == [i \in DOMAIN fs |-> [key |-> fs[i].key, val |-> Bytes(buf, fs[i].at, fs[i].len)]]
Got == IF input.job = "rtas" THEN [i \in DOMAIN comps |-> Shown(input.buf, comps[i].fields)] ELSE Shown(input.buf, fields)

\* A whole buffer gives every record it encodes, in order and nothing else:
\* those of the further sections of a PCI buffer too, whose headers are read
\* as records of a keyword nobody knows; and no component for a system section.
WholeBufferRead ==
  pc = "done" /\ Encoded(input) /\ input.whole =>
    /\ Got = input.sent
    /\ input.job \in {"pci", "node"} => result = Size

\* A buffer that was cut off, or a record whose length is more than its section
\* holds, ends the parse: 0 is returned, the fields before are set, those from
\* there on are not, and the sections behind a corrupt one give no component.
DamageStopsThere ==
  pc = "done" /\ Encoded(input) /\ ~input.whole => Got = input.sent /\ result = 0

\* A value shown as text is all of the value but the zeros that pad it.
TextIsWhole ==
  \A i \in DOMAIN fields :
    LET v == Bytes(input.buf, fields[i].at, fields[i].len)
    IN fields[i].at + fields[i].len <= Size /\ IsPrintable(v) =>
         \A j \in Len(Text(v)) + 1 .. Len(v) : v[j] = 0

\* What was written into a buffer is what is read from it: all of a whole one,
\* what is in front of the damage of another, each value to its end.
ReadAsSent == WholeBufferRead /\ DamageStopsThere /\ TextIsWhole
=============================================================================
