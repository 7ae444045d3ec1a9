----------------------------- MODULE ScsiInquiry -----------------------------
(***************************************************************************)
(* How the VPD of a SCSI or NVMe device is collected: fillSCSIComponent and*)
(* collectVpd, fillPciNvmeVpd and collectNvmeVpd.  A SCSI device is asked  *)
(* which pages it has and what it is; a template of scsi_templates.conf,   *)
(* chosen by that, says which pages to ask for and where in each answer    *)
(* which field is.  An NVMe device has one log page, or an MI buffer.      *)
(*                                                                         *)
(* Pages have the numbers atoi makes of their codes ("0x83" is read as 83).*)
(* A field is kept as the place its bytes were taken from.                 *)
(***************************************************************************)
EXTENDS ScsiTemplates, FiniteSets

CONSTANTS
  Calls,         \* who is asked, and what the device and the template file hold
  Faults         \* what may go wrong: "open", "ioctl", "refuse", "wrong"

StdLen == 36       \* DEVICE_SCSI_SG_DEFAULT_STD_LEN
EvpdLen == 252     \* DEVICE_SCSI_SG_DEFAULT_EVPD_LEN
MAXBUFSIZE == 4096
Header == 32       \* what page 0 begins with
Diag == 2          \* the page behind 0xDIAG
Description == 199 \* 0xc7
LogPage == 241     \* f1h, of an NVMe device
MiPage == 5
NoPage == -1       \* what a cleared buffer was answered for

\* What a template's text is made of.
Mark == [is |-> "?"]
Semicolon == [is |-> ";"]
Code(c) == [is |-> "code", code |-> c]
Field(n, s) == [is |-> "field", name |-> n, size |-> s]

-----------------------------------------------------------------------------
(* A template's text.                                                      *)

Marks(t) == {j \in DOMAIN t : t[j] = Mark}
NumPages(t) == Cardinality(Marks(t))

\* retrievePageTemplate: what is between a mark and the next.
PageText(t, num) ==
  LET beg == CHOOSE j \in Marks(t) : Cardinality({m \in Marks(t) : m <= j}) = num
      end == IF num = NumPages(t) THEN Len(t) + 1
             ELSE CHOOSE j \in Marks(t) : Cardinality({m \in Marks(t) : m <= j}) = num + 1
  IN SubSeq(t, beg + 1, end - 1)

\* retrievePageCode: the first code, and the fields up to the first semicolon.
PageCode(p) == IF p # <<>> /\ p[1].is = "code" THEN p[1].code ELSE 0
PageFormat(p) ==
  LET ends == {j \in DOMAIN p : p[j] = Semicolon}
      end == IF ends = {} THEN Len(p) + 1 ELSE CHOOSE j \in ends : \A m \in ends : j <= m
  IN SubSeq(p, 2, end - 1)

\* Fields are counted by their commas: a format of one field has none.
FieldTotal(f) == IF Len(f) > 1 THEN Len(f) ELSE 0

\* Where the bytes of its fields begin, by the sizes of those before.
Begins(f, start) ==
  LET b[j \in 1 .. Len(f) + 1] == IF j = 1 THEN start ELSE b[j - 1] + f[j - 1].size
  IN b

\* What the template files hold: behind a mark a page's code, in a page fields
\* whose bytes begin in the buffer though a size may be negative, and no name
\* that interpretPage gives itself.  A line of nvme_templates.conf begins with
\* the place of the version.
Token == {Mark, Semicolon} \cup [is : {"code"}, code : Nat] \cup [is : {"field"}, name : STRING, size : Int]

\* Page 0 has its fields behind the header.
Start(c) == IF c = 0 THEN Header ELSE 0
IsFormat(f) == Len(f) \in Nat /\ DOMAIN f = 1 .. Len(f) /\ \A j \in DOMAIN f : f[j].size \in Int
Readable(f, c) ==
  /\ IsFormat(f)
  /\ \A j \in DOMAIN f : Begins(f, Start(c))[j] >= 0 /\ (c = 0 => f[j].name # "Z0")

ScsiTemplate(t) ==
  /\ t \in Seq(Token)
  /\ \A j \in Marks(t) : j < Len(t) /\ t[j + 1].is = "code"
  /\ \A k \in 1 .. NumPages(t) : Readable(PageFormat(PageText(t, k)), PageCode(PageText(t, k)))
NvmeTemplate(t) == Readable(t, LogPage) /\ Len(t) > 0 /\ t[1].size = 4

ASSUME CallsAssumption ==
  \A c \in Calls :
    /\ c.job \in {"scsi", "nvme", "pci"} /\ c.limit \in BOOLEAN
    /\ c.device.base \in Nat /\ c.device.log \in Nat /\ c.device.mi \in Nat /\ c.device.fifth \in Nat
    /\ c.device.codes \in Seq(Nat)
    /\ \A p \in DOMAIN c.device.pages : c.device.pages[p] \in Nat
    /\ DOMAIN c.file = 1 .. Len(c.file) /\ Len(c.file) \in Nat
    /\ \A k \in DOMAIN c.file :
         IF c.job = "scsi" THEN ScsiTemplate(c.file[k].text) ELSE NvmeTemplate(c.file[k].text)

VARIABLES
  call,    \* job, limit (--scsi), device, file: the templates
  pc,
  query,   \* the inquiry under way: evpd, page, size, and where to go on
  buf,     \* the buffer: the page asked for, what was answered, the length it claims, the bytes it holds
  len,     \* what doSGQuery returned
  listed,  \* the pages the device says it has
  known,   \* the manufacturer is known
  text,    \* the text of the template chosen
  i,       \* the page of the template
  code,    \* and its code
  format,  \* its fields
  n, at,   \* the next field and the place of its bytes
  fields,  \* the fields set so far
  taken,   \* history: the pages interpreted, and the buffers they were taken from
  rc

inquiry == <<buf, len, query>>
template == <<text, i, code, format>>
vars == <<call, pc, inquiry, listed, known, template, n, at, fields, taken, rc>>

Zeros == [asked |-> NoPage, evpd |-> FALSE, page |-> NoPage, needs |-> 0, held |-> 0]

Init ==
  /\ call \in Calls
  /\ pc = "open" /\ query = [evpd |-> FALSE, page |-> NoPage, size |-> 0, to |-> "open"]
  /\ buf = Zeros /\ len = 0 /\ listed = {} /\ known \in BOOLEAN
  /\ text = <<>> /\ i = 0 /\ code = NoPage /\ format = <<>>
  /\ n = 0 /\ at = 0 /\ fields = <<>> /\ taken = <<>> /\ rc = 0

Finish(r) == pc' = "done" /\ rc' = r

-----------------------------------------------------------------------------
(* The inquiry.                                                            *)

Least(x, y) == IF x < y THEN x ELSE y

\* The length of what the device has of this kind, 0 when it has none.
Needs(d) ==
  IF d.evpd
  THEN IF d.page = 0 THEN Len(call.device.codes) + 4
       ELSE IF d.page \in DOMAIN call.device.pages THEN call.device.pages[d.page] ELSE 0
  ELSE IF d.page = 0 THEN call.device.base ELSE 0

\* A device that does not heed the page code or the kind of the inquiry sends
\* its base data, its list of pages, or the page of that number as a VPD page.
Wrong(q) ==
  {[evpd |-> FALSE, page |-> 0]} \cup {[evpd |-> TRUE, page |-> p] : p \in {0, q.page}}

\* The length the code reads in it: a VPD page's is elsewhere than base data's.
Claim(q, d) == IF d.evpd = q.evpd THEN Needs(d) ELSE call.device.fifth + 5

\* What sg_ll_inquiry may do: fill the buffer, as far as it goes, or refuse
\* and leave it.
Refused == Zeros
Answers(q) ==
  LET right == [evpd |-> q.evpd, page |-> q.page]
      sent == {right} \cup IF "wrong" \in Faults THEN Wrong(q) ELSE {}
      Filled(d) == [asked |-> q.page, evpd |-> d.evpd, page |-> d.page, needs |-> Claim(q, d),
                    held |-> Least(Needs(d), Least(q.size, MAXBUFSIZE))]
  IN {Filled(d) : d \in {e \in sent : Needs(e) > 0}}
     \cup IF "refuse" \in Faults \/ Needs(right) = 0 THEN {Refused} ELSE {}

\* The list of pages is looked at up to its fourth page from the end.
Ordered(codes) == \A j \in 2 .. Len(codes) - 4 : codes[j - 1] < codes[j]

\* An answer to a base inquiry is not looked at.  Base data do not pass for a
\* VPD page: their second byte is no page of a template's, and their third, the
\* version of the standard, is 0 in a list of pages.
Insane(q, b) ==
  /\ q.evpd
  /\ \/ ~b.evpd \/ b.page # q.page
     \/ q.page = 0 /\ call.device.codes = <<>>
     \/ q.page = 0 /\ ~Ordered(call.device.codes)

\* Mutant: the buffer is not cleared before it is used again.
BeginUncleared(to, evpd, page) ==
  /\ pc' = "ask"
  /\ query' = [evpd |-> evpd, page |-> page, size |-> IF evpd THEN EvpdLen ELSE StdLen, to |-> to]
  /\ UNCHANGED <<buf, len>>

\* The buffer is cleared and doSGQuery entered.
Begin(to, evpd, page) ==
  /\ pc' = "ask"
  /\ query' = [evpd |-> evpd, page |-> page, size |-> IF evpd THEN EvpdLen ELSE StdLen, to |-> to]
  /\ buf' = Zeros /\ UNCHANGED len

Answered(l) == len' = l /\ pc' = query.to /\ UNCHANGED query

Rest == <<call, listed, known, template, n, at, fields, taken, rc>>

\* The first inquiry; when the answer is longer it is repeated.
Ask ==
  /\ pc = "ask"
  /\ \E a \in Answers(query) :
       IF a = Refused THEN Answered(0) /\ UNCHANGED buf
       ELSE /\ buf' = a
            /\ IF Insane(query, buf') THEN Answered(-1)
               ELSE IF buf'.needs > query.size
                    THEN pc' = "again" /\ query' = [query EXCEPT !.size = buf'.needs] /\ UNCHANGED len
                    ELSE Answered(buf'.needs)
  /\ UNCHANGED Rest

\* Mutant: it is repeated until an answer fits the buffer asked with first.
AskAgainUntilItFits ==
  /\ pc = "again"
  /\ \E a \in Answers(query) :
       /\ buf' = IF a = Refused THEN buf ELSE a
       /\ IF Insane(query, buf') THEN Answered(-1)
          ELSE UNCHANGED <<pc, len, query>>
  /\ UNCHANGED Rest

\* Once, with the length the answer claims, be it more than the buffer has; a
\* refusal is not noticed.
AskAgain ==
  /\ pc = "again"
  /\ \E a \in Answers(query) :
       /\ buf' = IF a = Refused THEN buf ELSE a
       /\ Answered(IF Insane(query, buf') THEN -1
                   ELSE IF a = Refused THEN buf'.needs ELSE Least(buf'.needs, MAXBUFSIZE - 1))
  /\ UNCHANGED Rest

\* findTemplate: the first that matches the manufacturer, the type and the model.
Fitting == {j \in DOMAIN call.file :
              \A m \in DOMAIN call.device.names : Matches(call.file[j].names[m], call.device.names[m])}
FindTemplate == CHOOSE j \in Fitting : \A m \in Fitting : j <= m

-----------------------------------------------------------------------------
(* SCSI.                                                                   *)

\* The device is opened by one of its names and its templates are read.
Open ==
  /\ pc = "open"
  /\ \/ "open" \in Faults /\ Finish(-1)
     \/ /\ rc' = rc
        /\ pc' = IF call.job = "scsi" THEN "inquire" ELSE "log"
  /\ UNCHANGED <<call, inquiry, listed, known, template, n, at, fields, taken>>

\* The first inquiry tells the manufacturer, the model and the firmware.
Inquire ==
  /\ pc = "inquire"
  /\ \/ /\ "ioctl" \in Faults \/ call.file = <<>>
        /\ Finish(-1) /\ UNCHANGED <<inquiry, known>>
     \/ /\ call.file # <<>>
        /\ \E answered \in {call.device.base > 0} \cup (IF "refuse" \in Faults THEN {FALSE} ELSE {}) :
             known' = (known \/ answered)
        /\ Begin("list", TRUE, 0) /\ rc' = rc
  /\ UNCHANGED <<call, listed, template, n, at, fields, taken>>

List ==
  /\ pc = "list"
  /\ listed' = IF len > 0 THEN {call.device.codes[j] : j \in DOMAIN call.device.codes} ELSE {}
  /\ Begin("base", FALSE, 0)
  /\ UNCHANGED <<call, known, template, n, at, fields, taken, rc>>

\* Mutant: pages are counted from 0.
BaseFromZero ==
  /\ pc = "base"
  /\ IF len = 0 THEN Finish(0) /\ UNCHANGED <<text, i>>
     ELSE IF len < Header \/ ~call.device.capable \/ ~known \/ Fitting = {}
          THEN Finish(-1) /\ UNCHANGED <<text, i>>
          ELSE pc' = "next" /\ text' = call.file[FindTemplate].text /\ i' = 0 /\ rc' = rc
  /\ UNCHANGED <<call, inquiry, listed, known, code, format, n, at, fields, taken>>

\* A device that says nothing of itself is left as it is; one that is not
\* there, unknown or without a template is given up.
Base ==
  /\ pc = "base"
  /\ IF len = 0 THEN Finish(0) /\ UNCHANGED <<text, i>>
     ELSE IF len < Header \/ ~call.device.capable \/ ~known \/ Fitting = {}
          THEN Finish(-1) /\ UNCHANGED <<text, i>>
          ELSE pc' = "next" /\ text' = call.file[FindTemplate].text /\ i' = 1 /\ rc' = rc
  /\ UNCHANGED <<call, inquiry, listed, known, code, format, n, at, fields, taken>>

\* The next page of the template is asked for when the device has it.
NextPage ==
  /\ pc = "next" /\ i <= NumPages(text)
  /\ code' = PageCode(PageText(text, i))
  /\ format' = PageFormat(PageText(text, i))
  /\ IF code' \in listed
     THEN Begin("page", ~call.limit, code') /\ UNCHANGED i
     ELSE i' = i + 1 /\ UNCHANGED <<pc, inquiry>>
  /\ UNCHANGED <<call, listed, known, text, n, at, fields, taken, rc>>

NoMorePages ==
  /\ pc = "next" /\ i > NumPages(text)
  /\ Finish(0)
  /\ UNCHANGED <<call, inquiry, listed, known, template, n, at, fields, taken>>

BadPage ==
  /\ pc = "page" /\ len < 0
  /\ Finish(len)
  /\ UNCHANGED <<call, inquiry, listed, known, template, n, at, fields, taken>>

\* interpretPage: page 199 is for the description only; page 0 gives Z0, the
\* first bytes, and has its fields behind the header.
InterpretPage ==
  /\ pc = "page" /\ len >= 0
  /\ IF code = Description
     THEN pc' = "next" /\ i' = i + 1 /\ UNCHANGED <<n, at, fields, taken>>
     ELSE /\ pc' = "fields" /\ UNCHANGED i
          /\ n' = 1 /\ at' = Start(code)
          /\ taken' = Append(taken, [code |-> code, format |-> format, buf |-> buf])
          /\ fields' = IF code = 0
                       THEN Append(fields, [page |-> 0, name |-> "Z0", from |-> buf, at |-> 0, size |-> 8])
                       ELSE fields
  /\ UNCHANGED <<call, inquiry, listed, known, text, code, format, rc>>

-----------------------------------------------------------------------------
(* The fields of a page.                                                   *)

\* A field whose bytes are blank sets nothing, and "_" names none.
Set(name, size) ==
  fields' = IF name = "_" \/ at >= buf.held THEN fields
            ELSE Append(fields, [page |-> code, name |-> name, from |-> buf, at |-> at, size |-> size])

\* Mutant: fields that set nothing are not stepped over.
ReadFieldInPlace ==
  /\ pc = "fields" /\ n <= FieldTotal(format)
  /\ Set(format[n].name, format[n].size)
  /\ at' = IF fields' = fields THEN at ELSE at + format[n].size
  /\ n' = n + 1
  /\ UNCHANGED <<call, pc, inquiry, listed, known, template, taken, rc>>

ReadField ==
  /\ pc = "fields" /\ n <= FieldTotal(format)
  /\ Set(format[n].name, format[n].size)
  /\ at' = at + format[n].size
  /\ n' = n + 1
  /\ UNCHANGED <<call, pc, inquiry, listed, known, template, taken, rc>>

\* In a SCSI page the end of the last field is never set (eof is written one
\* place too far): its text may be cut anywhere, in the digits of the size, before
\* them, or before the name.
CutSizes(size) == {-1} \cup {z \in 1 .. size : \E p \in {10, 100, 1000} : z = size \div p}
ReadLastCut ==
  /\ pc = "fields" /\ call.job = "scsi" /\ n = FieldTotal(format)
  /\ \/ \E z \in CutSizes(format[n].size) : Set(format[n].name, z) /\ at' = at + z
     \/ UNCHANGED fields /\ at' = at - 1
  /\ n' = n + 1
  /\ UNCHANGED <<call, pc, inquiry, listed, known, template, taken, rc>>

PageRead ==
  /\ pc = "fields" /\ n > FieldTotal(format)
  /\ IF call.job = "scsi" THEN pc' = "next" /\ i' = i + 1 /\ rc' = rc ELSE Finish(0) /\ UNCHANGED i
  /\ UNCHANGED <<call, inquiry, listed, known, text, code, format, n, at, fields, taken>>

-----------------------------------------------------------------------------
(* NVMe.                                                                   *)

\* Both are taken to hold what they hold in full: their buffers have one size.
Took(page, size, f) ==
  /\ buf' = [asked |-> page, evpd |-> FALSE, page |-> page, needs |-> size, held |-> size]
  /\ code' = page /\ format' = f
  /\ pc' = "fields" /\ n' = 2 /\ at' = 4
  /\ taken' = Append(taken, [code |-> page, format |-> f, buf |-> buf'])
  /\ UNCHANGED rc

\* interpretNVMEf1hLogPage: the template of the version, whose first field it is.
ReadLog ==
  /\ pc = "log" /\ call.device.log > 0
  /\ IF Fitting = {}
     THEN Finish(-1) /\ UNCHANGED <<buf, code, format, n, at, taken>>
     ELSE Took(LogPage, call.device.log, call.file[FindTemplate].text)
  /\ UNCHANGED <<call, query, len, listed, known, text, i, fields>>

\* interpretNVMEMiLog: fields at fixed places.
MiFields ==
  <<Field("_", 4), Field("ID", 40), Field("PN", 12), Field("EC", 10), Field("FN", 12), Field("AN", 12),
    Field("FC", 4), Field("CC", 4), Field("SN", 8), Field("Z0", 8), Field("Z1", 4), Field("Z2", 10),
    Field("Z3", 12), Field("Z4", 1), Field("Z5", 2), Field("Z6", 8), Field("Z7", 3), Field("Z8", 5),
    Field("Z9", 2), Field("ZA", 4), Field("ZB", 4), Field("ZC", 2), Field("MN", 20)>>

\* collectVpd gives up without the log page; collectNvmeVpd tries the MI buffer.
NoLog ==
  /\ pc = "log" /\ (call.device.log = 0 \/ "refuse" \in Faults)
  /\ \/ call.job = "nvme" /\ Finish(-1) /\ UNCHANGED <<buf, code, format, n, at, taken>>
     \/ call.job = "pci" /\ call.device.mi > 0 /\ Took(MiPage, call.device.mi, MiFields)
     \/ /\ call.job = "pci" /\ (call.device.mi = 0 \/ "refuse" \in Faults)
        /\ Finish(0) /\ UNCHANGED <<buf, code, format, n, at, taken>>
  /\ UNCHANGED <<call, query, len, listed, known, text, i, fields>>

-----------------------------------------------------------------------------
Next ==
  \/ Open \/ Inquire \/ Ask \/ AskAgain \/ List \/ Base
  \/ NextPage \/ NoMorePages \/ BadPage \/ InterpretPage
  \/ ReadField \/ ReadLastCut \/ PageRead
  \/ ReadLog \/ NoLog

Spec == Init /\ [][Next]_vars

\* One thread that waits for nobody: an inquiry that gets no answer is refused
\* by the driver in the end.
FairSpec == Spec /\ WF_vars(Next)

-----------------------------------------------------------------------------
(* Properties.                                                             *)

Buffer == [asked : Int, evpd : BOOLEAN, page : Int, needs : Nat, held : Nat]

TypeOK ==
  /\ pc \in {"open", "inquire", "ask", "again", "list", "base", "next", "page", "fields", "log", "done"}
  /\ query \in [evpd : BOOLEAN, page : Int, size : Nat, to : {"open", "list", "base", "page"}]
  /\ buf \in Buffer
  /\ len \in Nat \cup {-1} /\ listed \subseteq Nat /\ known \in BOOLEAN
  /\ i \in Nat /\ (pc \in {"next", "page"} => i \in 1 .. NumPages(text) + 1)
  /\ n \in 0 .. Len(format) + 1 \/ pc # "fields"
  /\ \A j \in DOMAIN fields : fields[j].page \in Nat /\ fields[j].at \in Nat /\ fields[j].size \in Int
  /\ rc \in {-1, 0}

\* No field of a page is filled from what an earlier inquiry left in the buffer,
\* whatever the device refuses, be it the repeated inquiry: the bytes are of the
\* answer to the inquiry for this page, or the zeros the buffer was cleared with.
\* Asked for as a VPD page, they are of that VPD page, whatever the device sends
\* instead, and never of its base data.  With --scsi nothing is looked at, and
\* nothing is said of what the answer is: a device that heeds no page code has
\* its base data read as the fields of every page.
Own(b, c) ==
  b.asked # NoPage =>
    /\ b.asked = c
    /\ call.job = "scsi" /\ ~call.limit => b.evpd /\ b.page = c
FieldsFromOwnPage == \A j \in DOMAIN fields : Own(fields[j].from, fields[j].page)

\* The fields named by one page, of those with bytes in its answer.
Named(job, t) ==
  LET first == IF job = "scsi" THEN 1 ELSE 2
      last == IF job = "scsi" THEN Len(t.format) - 1 ELSE Len(t.format)
      b == Begins(t.format, Start(t.code))
  IN {[code |-> t.code, name |-> t.format[j].name, at |-> b[j], size |-> t.format[j].size]
        : j \in {m \in first .. last : t.format[m].name # "_" /\ b[m] < t.buf.held}}

\* The last field of a SCSI page, which may be read whole, cut, or not at all.
LastOf(job, t) ==
  LET k == Len(t.format)
  IN IF job = "scsi" /\ k > 1
     THEN {[code |-> t.code, name |-> t.format[k].name, at |-> Begins(t.format, Start(t.code))[k], size |-> z]
             : z \in {t.format[k].size} \cup CutSizes(t.format[k].size)}
     ELSE {}

\* A collection that ends well has interpreted every page that stands behind a
\* mark and that the device has; and it has set each field such a page names,
\* from the place its template gives it by the sizes of the fields before.
FieldsAsTemplated ==
  pc = "done" /\ rc = 0 =>
    LET got == {[code |-> fields[j].page, name |-> fields[j].name, at |-> fields[j].at, size |-> fields[j].size]
                  : j \in {m \in DOMAIN fields : fields[m].name # "Z0" \/ fields[m].page # 0}}
        pages == {taken[j] : j \in DOMAIN taken}
    IN /\ \A j \in DOMAIN text \ {1} :
            text[j - 1] = Mark /\ text[j].code \in listed \ {Description}
              => \E t \in pages : t.code = text[j].code
       /\ UNION {Named(call.job, t) : t \in pages} \subseteq got
       /\ got \subseteq UNION {Named(call.job, t) \cup LastOf(call.job, t) : t \in pages}

\* What patterns and names are.
StarredCalls ==
  \A c \in Calls : \A k \in DOMAIN c.file, m \in DOMAIN c.device.names :
    OneStar(c.file[k].names[m]) /\ Name(c.device.names[m])

\* The template a collection works with is the first line of the file whose
\* patterns the device's names fit, a star standing for zero or more of anything,
\* and the name of a pattern with a star inside going on behind it as it likes.
FirstLineThatFits ==
  call.job = "scsi" /\ text # <<>> =>
    LET fit == {j \in DOMAIN call.file : \A m \in DOMAIN call.device.names : Fits(call.file[j].names[m], call.device.names[m])}
    IN \E j \in fit : text = call.file[j].text /\ \A m \in fit : j <= m

\* Collecting ends, whatever the device answers.
CollectionEnds == <>(pc = "done")
=============================================================================
