--------------------------- MODULE ScsiInquiryProofs ---------------------------
(***************************************************************************)
(* Proofs about ScsiInquiry, for every device, every template file and     *)
(* every fault: what is read in a page is the answer to the inquiry for    *)
(* it; every length and place is one; and a collection that ends well has  *)
(* read what its template says, which is the first that fits.  Induction   *)
(* over data is by the least counterexample (Minimum).                     *)
(***************************************************************************)
EXTENDS ScsiInquiry, FiniteSetTheorems, SequenceTheorems, WellFoundedInduction, TLAPS

IsSeq(s) == \E S : s \in Seq(S)

QueryInv ==
  /\ query = [evpd |-> query.evpd, page |-> query.page, size |-> query.size, to |-> query.to]
  /\ pc \in {"ask", "again"} => query.to \in {"list", "base", "page"}
  /\ pc \in {"ask", "again"} /\ query.to = "page" => query.page = code /\ query.evpd = ~call.limit
  /\ pc = "log" => call.job # "scsi"
  /\ pc = "ask" => buf = Zeros
  /\ pc = "again" => buf.asked = query.page /\ (query.evpd => buf.evpd /\ buf.page = query.page)
BufInv ==
  /\ pc = "page" => ~(len >= 0) \/ Own(buf, code)
  /\ pc = "fields" => Own(buf, code)
FieldsInv ==
  /\ IsSeq(fields) /\ \A j \in DOMAIN fields : Own(fields[j].from, fields[j].page)
IInv == QueryInv /\ BufInv /\ FieldsInv

\* An element more, and those there were.
LEMMA Appended ==
  ASSUME NEW s, IsSeq(s), NEW e
  PROVE  /\ IsSeq(Append(s, e))
         /\ \A j \in DOMAIN Append(s, e) : Append(s, e)[j] = e \/ (j \in DOMAIN s /\ Append(s, e)[j] = s[j])
<1>1. PICK S : s \in Seq(S)
  BY DEF IsSeq
<1>2. s \in Seq(S \cup {e})
  BY <1>1
<1>3. Append(s, e) \in Seq(S \cup {e})
  BY <1>2
<1>4. \A j \in DOMAIN Append(s, e) : Append(s, e)[j] = e \/ (j \in DOMAIN s /\ Append(s, e)[j] = s[j])
  BY <1>2
<1> QED
  BY <1>3, <1>4 DEF IsSeq

\* Every answer is to the inquiry asked, or is seen not to be.
LEMMA AnswerTo ==
  ASSUME NEW a \in Answers(query), a # Refused
  PROVE  /\ a.asked = query.page
         /\ ~Insane(query, a) /\ query.evpd => a.evpd /\ a.page = query.page
BY DEF Answers, Insane, Refused

\* Every step keeps the answers with the pages they were asked for.
LEMMA NextKeepsIInv == IInv /\ [Next]_vars => IInv'
<1> SUFFICES ASSUME IInv, [Next]_vars PROVE IInv'
  OBVIOUS
<1> USE DEF inquiry, template, Rest
<1>0. CASE Open
  BY <1>0 DEF Open, Finish, IInv, QueryInv, BufInv, FieldsInv, Own
<1>1. CASE NoMorePages \/ BadPage \/ PageRead
  BY <1>1 DEF NoMorePages, BadPage, PageRead, Finish, IInv, QueryInv, BufInv, FieldsInv, Own
<1>2. CASE Inquire \/ List \/ Base \/ NextPage
  <2>1. CASE Inquire
    <3>1. CASE pc' = "done" /\ UNCHANGED <<call, query, buf, len, code, fields, taken>>
      BY <3>1 DEF IInv, QueryInv, BufInv, FieldsInv, Own
    <3>2. CASE Begin("list", TRUE, 0) /\ UNCHANGED <<call, code, fields, taken>>
      BY <3>2 DEF Begin, IInv, QueryInv, BufInv, FieldsInv, Own
    <3> QED
      BY <2>1, <3>1, <3>2 DEF Inquire, Finish
  <2>2. CASE List
    BY <2>2 DEF List, Begin, IInv, QueryInv, BufInv, FieldsInv, Own
  <2>3. CASE Base
    BY <2>3 DEF Base, Finish, IInv, QueryInv, BufInv, FieldsInv, Own
  <2>4. CASE NextPage /\ code' \in listed
    <3>1. /\ pc' = "ask" /\ buf' = Zeros /\ UNCHANGED <<call, fields, taken>>
          /\ query' = [evpd |-> ~call.limit, page |-> code', to |-> "page",
                      size |-> IF ~call.limit THEN EvpdLen ELSE StdLen]
      BY <2>4 DEF NextPage, Begin
    <3> QED
      BY <3>1 DEF IInv, QueryInv, BufInv, FieldsInv, Own
  <2>5. CASE NextPage /\ code' \notin listed
    BY <2>5 DEF NextPage, IInv, QueryInv, BufInv, FieldsInv, Own
  <2> QED
    BY <1>2, <2>1, <2>2, <2>3, <2>4, <2>5
<1>3. CASE Ask
  <2>1. PICK a \in Answers(query) :
          IF a = Refused THEN Answered(0) /\ UNCHANGED buf
          ELSE /\ buf' = a
               /\ IF Insane(query, a) THEN Answered(-1)
                  ELSE IF a.needs > query.size
                       THEN pc' = "again" /\ query' = [query EXCEPT !.size = a.needs] /\ UNCHANGED len
                       ELSE Answered(a.needs)
    BY <1>3 DEF Ask
  <2>2. pc = "ask" /\ UNCHANGED Rest
    BY <1>3 DEF Ask
  <2>3. CASE a = Refused
    BY <2>1, <2>2, <2>3 DEF Answered, IInv, QueryInv, BufInv, FieldsInv, Own, Zeros
  <2>4. CASE a # Refused /\ Insane(query, a)
    BY <2>1, <2>2, <2>4 DEF Answered, IInv, QueryInv, BufInv, FieldsInv, Own
  <2>5. CASE a # Refused /\ ~Insane(query, a) /\ a.needs > query.size
    <3>1. a.asked = query.page /\ (query.evpd => a.evpd /\ a.page = query.page)
      BY <2>5, AnswerTo
    <3>2. query' = [evpd |-> query.evpd, page |-> query.page, size |-> a.needs, to |-> query.to]
      BY <2>1, <2>5 DEF IInv, QueryInv
    <3> QED
      BY <2>1, <2>2, <2>5, <3>1, <3>2 DEF IInv, QueryInv, BufInv, FieldsInv, Own
  <2>6. CASE a # Refused /\ ~Insane(query, a) /\ ~(a.needs > query.size)
    <3>1. a.asked = query.page /\ (query.evpd => a.evpd /\ a.page = query.page)
      BY <2>6, AnswerTo
    <3> QED
      BY <2>1, <2>2, <2>6, <3>1 DEF Answered, IInv, QueryInv, BufInv, FieldsInv, Own
  <2> QED
    BY <2>3, <2>4, <2>5, <2>6
<1>4. CASE AskAgain
  <2>1. PICK a \in Answers(query) :
          /\ buf' = IF a = Refused THEN buf ELSE a
          /\ Answered(IF Insane(query, buf') THEN -1
                      ELSE IF a = Refused THEN buf'.needs ELSE Least(buf'.needs, MAXBUFSIZE - 1))
    BY <1>4 DEF AskAgain
  <2>2. pc = "again" /\ UNCHANGED Rest
    BY <1>4 DEF AskAgain
  <2>3. CASE Insane(query, buf')
    BY <2>1, <2>2, <2>3 DEF Answered, IInv, QueryInv, BufInv, FieldsInv, Own
  <2>4. CASE ~Insane(query, buf')
    <3>1. buf'.asked = query.page /\ (query.evpd => buf'.evpd /\ buf'.page = query.page)
      BY <2>1, <2>2, <2>4, AnswerTo DEF IInv, QueryInv
    <3> QED
      BY <2>1, <2>2, <2>4, <3>1 DEF Answered, IInv, QueryInv, BufInv, FieldsInv, Own
  <2> QED
    BY <2>3, <2>4
<1>5. CASE InterpretPage
  <2>1. CASE code = Description
    BY <1>5, <2>1 DEF InterpretPage, IInv, QueryInv, BufInv, FieldsInv, Own
  <2>2. CASE code # Description
    <3> DEFINE z == [page |-> 0, name |-> "Z0", from |-> buf, at |-> 0, size |-> 8]
    <3>1. /\ pc' = "fields" /\ Own(buf, code)
          /\ fields' = IF code = 0 THEN Append(fields, z) ELSE fields
          /\ UNCHANGED <<call, query, code, buf>>
      BY <1>5, <2>2 DEF InterpretPage, IInv, BufInv
    <3>2. IsSeq(fields') /\ \A j \in DOMAIN fields' : Own(fields'[j].from, fields'[j].page)
      <4>1. CASE code = 0
        BY <3>1, <4>1, Appended DEF IInv, FieldsInv, Own
      <4>2. CASE code # 0
        BY <3>1, <4>2 DEF IInv, FieldsInv
      <4> QED
        BY <4>1, <4>2
    <3> QED
      BY <3>1, <3>2 DEF IInv, QueryInv, BufInv, FieldsInv, Own
  <2> QED
    BY <2>1, <2>2
<1>6. ASSUME NEW name, NEW size, Set(name, size) \/ UNCHANGED fields, pc = "fields",
             UNCHANGED <<call, pc, buf, query, code, taken>>
      PROVE  IInv'
  <2>1. IsSeq(fields') /\ \A j \in DOMAIN fields' : Own(fields'[j].from, fields'[j].page)
    <3> DEFINE e == [page |-> code, name |-> name, from |-> buf, at |-> at, size |-> size]
    <3>1. fields' = fields \/ fields' = Append(fields, e)
      BY <1>6 DEF Set
    <3>2. Own(buf, code)
      BY <1>6 DEF IInv, BufInv
    <3>3. CASE fields' = Append(fields, e)
      <4>1. /\ IsSeq(Append(fields, e))
            /\ \A j \in DOMAIN Append(fields, e) :
                 Append(fields, e)[j] = e \/ (j \in DOMAIN fields /\ Append(fields, e)[j] = fields[j])
        BY Appended DEF IInv, FieldsInv
      <4> QED
        BY <3>2, <3>3, <4>1 DEF IInv, FieldsInv
    <3>4. CASE fields' = fields
      BY <3>4 DEF IInv, FieldsInv
    <3> QED
      BY <3>1, <3>3, <3>4
  <2> QED
    BY <1>6, <2>1 DEF IInv, QueryInv, BufInv, FieldsInv, Own
<1>7. CASE ReadField \/ ReadLastCut
  <2>1. pc = "fields" /\ UNCHANGED <<call, pc, buf, query, code, taken>>
    BY <1>7 DEF ReadField, ReadLastCut
  <2>2. \E name, size : Set(name, size) \/ UNCHANGED fields
    BY <1>7 DEF ReadField, ReadLastCut
  <2> QED
    BY <1>6, <2>1, <2>2
<1>8. ASSUME NEW page, NEW size, NEW f, Took(page, size, f), pc = "log", UNCHANGED <<call, query, fields>>,
             call.job # "scsi"
      PROVE  IInv'
  <2> DEFINE b == [asked |-> page, evpd |-> FALSE, page |-> page, needs |-> size, held |-> size]
  <2>1. pc' = "fields" /\ buf' = b /\ code' = page
    BY <1>8 DEF Took
  <2> QED
    BY <1>8, <2>1 DEF IInv, QueryInv, BufInv, FieldsInv, Own
<1>9. CASE ReadLog \/ NoLog
  <2>1. pc = "log" /\ call.job # "scsi" /\ UNCHANGED <<call, query, len, fields>>
    BY <1>9 DEF ReadLog, NoLog, IInv, QueryInv
  <2>2. \/ \E page, size, f : Took(page, size, f)
        \/ pc' = "done" /\ UNCHANGED <<buf, code, taken>>
    BY <1>9 DEF ReadLog, NoLog, Finish
  <2>3. CASE pc' = "done" /\ UNCHANGED <<buf, code, taken>>
    BY <2>1, <2>3 DEF IInv, QueryInv, BufInv, FieldsInv, Own
  <2> QED
    BY <1>8, <2>1, <2>2, <2>3
<1>10. CASE UNCHANGED vars
  BY <1>10 DEF vars, IInv, QueryInv, BufInv, FieldsInv, Own
<1> QED
  BY <1>0, <1>1, <1>2, <1>3, <1>4, <1>5, <1>7, <1>9, <1>10 DEF Next

\* Before the first inquiry nothing is read.
LEMMA InitIInv == Init => IInv
<1>1. SUFFICES ASSUME Init PROVE IInv
  OBVIOUS
<1>2. IsSeq(fields) /\ IsSeq(taken) /\ DOMAIN fields = {} /\ DOMAIN taken = {}
  <2>1. << >> \in Seq({})
    OBVIOUS
  <2> QED
    BY <1>1, <2>1 DEF Init, IsSeq
<1> QED
  BY <1>1, <1>2 DEF Init, IInv, QueryInv, BufInv, FieldsInv

\* Whatever a device answers, refuses or gets wrong, and whatever templates
\* the file has: no field is filled from what an earlier inquiry left in the
\* buffer, and where VPD pages are asked for none from anything but its page.
THEOREM FieldsOwned == Spec => []FieldsFromOwnPage
<1>1. IInv => FieldsFromOwnPage
  BY DEF IInv, FieldsInv, Own, FieldsFromOwnPage
<1> QED
  BY InitIInv, <1>1, NextKeepsIInv, PTL DEF Spec

-----------------------------------------------------------------------------
(* What a template is made of.                                             *)

\* A set of numbers that is not empty has a least one.
LEMMA Minimum ==
  ASSUME NEW T \in SUBSET Nat, T # {}
  PROVE  \E m \in T : \A t \in T : m <= t
<1>1. PICK m \in T : \A t \in T : ~ (<<t, m>> \in OpToRel(<, Nat))
  BY NatLessThanWellFounded, WFMin
<1>2. \A t \in T : ~ (t < m)
  BY <1>1 DEF OpToRel
<1> QED
  BY <1>2

\* The sizes before the j-th field, for j up to k.
Sums(f, s, k, g) ==
  /\ g \in [1 .. k -> Int]
  /\ \A j \in 1 .. k : g[j] = IF j = 1 THEN s ELSE g[j - 1] + f[j - 1].size

\* A recursive function is what its definition says, since there is one.
LEMMA BeginsSums ==
  ASSUME NEW f, IsFormat(f), NEW s \in Int
  PROVE  Sums(f, s, Len(f) + 1, Begins(f, s))
<1> DEFINE N == Len(f) + 1
<1>1. \A k \in 1 .. N : \E g : Sums(f, s, k, g)
  <2> DEFINE T == {k \in 1 .. N : ~ \E g : Sums(f, s, k, g)}
  <2>1. SUFFICES ASSUME T # {} PROVE FALSE
    OBVIOUS
  <2>2. PICK k \in T : \A t \in T : k <= t
    <3>1. T \in SUBSET Nat
      BY DEF IsFormat
    <3> QED
      BY <2>1, <3>1, Minimum
  <2>3. CASE k = 1
    <3>1. Sums(f, s, 1, [j \in 1 .. 1 |-> s])
      BY DEF Sums
    <3> QED
      BY <2>2, <2>3, <3>1
  <2>4. CASE k # 1
    <3>1. k - 1 \in 1 .. N /\ k - 1 \notin T
      BY <2>2, <2>4
    <3>2. PICK g : Sums(f, s, k - 1, g)
      BY <3>1
    <3> DEFINE h == [j \in 1 .. k |-> IF j = k THEN g[k - 1] + f[k - 1].size ELSE g[j]]
    <3>3. f[k - 1].size \in Int /\ g[k - 1] \in Int
      <4>1. k - 1 \in 1 .. Len(f)
        BY <2>2, <2>4
      <4> QED
        BY <4>1, <3>2 DEF Sums, IsFormat
    <3>4. h \in [1 .. k -> Int]
      BY <3>2, <3>3 DEF Sums
    <3>5. \A j \in 1 .. k : h[j] = IF j = 1 THEN s ELSE h[j - 1] + f[j - 1].size
      BY <2>2, <2>4, <3>2 DEF Sums
    <3>6. Sums(f, s, k, h)
      BY <3>4, <3>5 DEF Sums
    <3> QED
      BY <3>6, <2>2
  <2> QED
    BY <2>3, <2>4
<1>2. Len(f) \in Nat
  BY DEF IsFormat
<1>3. PICK g : Sums(f, s, N, g)
  BY <1>1, <1>2
<1>4. g = [j \in 1 .. N |-> IF j = 1 THEN s ELSE g[j - 1] + f[j - 1].size]
  BY <1>3 DEF Sums
<1>5. Begins(f, s) = [j \in 1 .. N |-> IF j = 1 THEN s ELSE Begins(f, s)[j - 1] + f[j - 1].size]
  BY <1>4 DEF Begins
<1> DEFINE b == Begins(f, s)
<1>6. \A j \in 1 .. N : b[j] = g[j]
  <2> DEFINE T == {j \in 1 .. N : b[j] # g[j]}
  <2>1. SUFFICES ASSUME T # {} PROVE FALSE
    OBVIOUS
  <2>2. PICK k \in T : \A t \in T : k <= t
    <3>1. T \in SUBSET Nat
      OBVIOUS
    <3> QED
      BY <2>1, <3>1, Minimum
  <2>3. k \in 1 .. N /\ b[k] # g[k]
    OBVIOUS
  <2>4. g[k] = IF k = 1 THEN s ELSE g[k - 1] + f[k - 1].size
    BY <1>3, <2>3 DEF Sums
  <2>5. b[k] = IF k = 1 THEN s ELSE b[k - 1] + f[k - 1].size
    BY <1>5, <2>3
  <2>6. CASE k # 1
    <3>1. k - 1 \in 1 .. N /\ k - 1 \notin T
      BY <1>2, <2>2, <2>3, <2>6
    <3> QED
      BY <3>1, <2>3, <2>4, <2>5, <2>6
  <2> QED
    BY <2>3, <2>4, <2>5, <2>6
<1>7. b = g
  BY <1>4, <1>5, <1>6
<1> QED
  BY <1>3, <1>7

\* Where a field begins, from where the one before it begins.
LEMMA BeginsSteps ==
  ASSUME NEW f, IsFormat(f), NEW s \in Int
  PROVE  /\ Begins(f, s)[1] = s
         /\ \A j \in 1 .. Len(f) : Begins(f, s)[j] \in Int /\ Begins(f, s)[j + 1] = Begins(f, s)[j] + f[j].size
<1> DEFINE b == Begins(f, s)
<1>1. Sums(f, s, Len(f) + 1, b) /\ Len(f) \in Nat
  BY BeginsSums DEF IsFormat
<1> HIDE DEF b
<1>2. b[1] = s
  BY <1>1 DEF Sums
<1>3. ASSUME NEW j \in 1 .. Len(f) PROVE b[j] \in Int /\ b[j + 1] = b[j] + f[j].size
  <2>1. j + 1 \in 1 .. Len(f) + 1 /\ j + 1 # 1 /\ (j + 1) - 1 = j
    BY <1>1
  <2>2. b[j + 1] = b[(j + 1) - 1] + f[(j + 1) - 1].size
    BY <1>1, <2>1 DEF Sums
  <2> QED
    <3>1. b \in [1 .. Len(f) + 1 -> Int]
      BY <1>1 DEF Sums
    <3>2. j \in 1 .. Len(f) + 1
      BY <1>1
    <3> QED
      BY <2>1, <2>2, <3>1, <3>2
<1> QED
  BY <1>2, <1>3 DEF b

\* When no size is negative, no place is.
LEMMA BeginsAbove ==
  ASSUME NEW f, IsFormat(f), NEW s \in Nat, \A j \in 1 .. Len(f) : f[j].size >= 0
  PROVE  \A j \in 1 .. Len(f) : Begins(f, s)[j] >= 0
<1> DEFINE b == Begins(f, s)
           T == {j \in 1 .. Len(f) : ~ (b[j] >= 0)}
<1>1. SUFFICES ASSUME T # {} PROVE FALSE
  OBVIOUS
<1>2. PICK k \in T : \A t \in T : k <= t
  <2>1. T \in SUBSET Nat
    OBVIOUS
  <2> QED
    BY <1>1, <2>1, Minimum
<1>3. k \in 1 .. Len(f) /\ ~ (b[k] >= 0) /\ Len(f) \in Nat
  BY DEF IsFormat
<1>4. k # 1
  BY <1>3, BeginsSteps
<1>5. k - 1 \in 1 .. Len(f) /\ k - 1 \notin T
  BY <1>2, <1>3, <1>4
<1>6. b[k - 1] >= 0 /\ b[k - 1] \in Int /\ b[(k - 1) + 1] = b[k - 1] + f[k - 1].size
  BY <1>5, BeginsSteps
<1>7. f[k - 1].size >= 0 /\ f[k - 1].size \in Int
  BY <1>5 DEF IsFormat
<1>8. (k - 1) + 1 = k
  BY <1>3
<1> HIDE DEF T, b
<1> QED
  BY <1>3, <1>6, <1>7, <1>8

\* The MI buffer's fields are a format like those of the file.
LEMMA MiReadable == Readable(MiFields, MiPage) /\ Len(MiFields) > 0 /\ MiFields[1].size = 4
<1>1. Len(MiFields) = 23 /\ DOMAIN MiFields = 1 .. 23
  BY DEF MiFields
<1>2. /\ MiFields[1].size \in Nat /\ MiFields[2].size \in Nat /\ MiFields[3].size \in Nat /\ MiFields[4].size \in Nat
      /\ MiFields[5].size \in Nat /\ MiFields[6].size \in Nat /\ MiFields[7].size \in Nat /\ MiFields[8].size \in Nat
      /\ MiFields[9].size \in Nat /\ MiFields[10].size \in Nat /\ MiFields[11].size \in Nat /\ MiFields[12].size \in Nat
      /\ MiFields[13].size \in Nat /\ MiFields[14].size \in Nat /\ MiFields[15].size \in Nat /\ MiFields[16].size \in Nat
      /\ MiFields[17].size \in Nat /\ MiFields[18].size \in Nat /\ MiFields[19].size \in Nat /\ MiFields[20].size \in Nat
      /\ MiFields[21].size \in Nat /\ MiFields[22].size \in Nat /\ MiFields[23].size \in Nat
  BY DEF MiFields, Field
<1>3. \A j \in 1 .. 23 :
      \/ j = 1 \/ j = 2 \/ j = 3 \/ j = 4 \/ j = 5 \/ j = 6 \/ j = 7 \/ j = 8
      \/ j = 9 \/ j = 10 \/ j = 11 \/ j = 12 \/ j = 13 \/ j = 14 \/ j = 15 \/ j = 16
      \/ j = 17 \/ j = 18 \/ j = 19 \/ j = 20 \/ j = 21 \/ j = 22 \/ j = 23
  OBVIOUS
<1>4. \A j \in 1 .. 23 : MiFields[j].size \in Nat
  BY <1>2, <1>3
<1>5. IsFormat(MiFields) /\ \A j \in 1 .. Len(MiFields) : MiFields[j].size >= 0
  BY <1>1, <1>4 DEF IsFormat
<1>6. Start(MiPage) = 0 /\ MiPage # 0
  BY DEF Start, MiPage
<1>7. \A j \in 1 .. Len(MiFields) : Begins(MiFields, Start(MiPage))[j] >= 0
  BY <1>5, <1>6, BeginsAbove
<1>8. MiFields[1].size = 4
  BY DEF MiFields, Field
<1>9. Len(MiFields) > 0
  BY <1>1
<1> QED
  BY <1>1, <1>5, <1>6, <1>7, <1>8, <1>9 DEF Readable

\* A template has a whole number of pages.
LEMMA PagesCounted ==
  ASSUME NEW t \in Seq(Token)
  PROVE  NumPages(t) \in Nat /\ IsFiniteSet(Marks(t)) /\ Marks(t) \subseteq 1 .. Len(t)
<1>1. Marks(t) \subseteq 1 .. Len(t)
  BY DEF Marks
<1>2. IsFiniteSet(1 .. Len(t))
  BY FS_Interval
<1> QED
  BY <1>1, <1>2, FS_Subset, FS_CardinalityType DEF NumPages

\* A template is found when one fits.
LEMMA FoundFits ==
  ASSUME call \in Calls, Fitting # {}
  PROVE  FindTemplate \in DOMAIN call.file
<1>1. DOMAIN call.file = 1 .. Len(call.file) /\ Len(call.file) \in Nat
  BY CallsAssumption
<1>2. Fitting \in SUBSET Nat /\ Fitting \subseteq DOMAIN call.file
  BY <1>1 DEF Fitting
<1>3. \E j \in Fitting : \A m \in Fitting : j <= m
  BY <1>2, Minimum
<1>4. FindTemplate \in Fitting
  BY <1>3 DEF FindTemplate
<1> QED
  BY <1>2, <1>4

\* How many marks there are up to a place.
Rank(t, j) == Cardinality({m \in Marks(t) : m <= j})

\* Marks are counted in order.
LEMMA RankGrows ==
  ASSUME NEW t \in Seq(Token), NEW j \in Marks(t), NEW m \in Marks(t), m < j
  PROVE  Rank(t, m) < Rank(t, j)
<1> DEFINE A == {k \in Marks(t) : k <= m}
           B == {k \in Marks(t) : k <= j}
<1>1. Marks(t) \subseteq 1 .. Len(t) /\ IsFiniteSet(Marks(t)) /\ Len(t) \in Nat
  BY PagesCounted
<1>2. A \subseteq B /\ j \in B /\ j \notin A
  BY <1>1
<1>3. IsFiniteSet(B)
  BY <1>1, FS_Subset
<1> HIDE DEF A, B
<1>4. Cardinality(A) < Cardinality(B)
  BY <1>2, <1>3, FS_Subset, FS_CardinalityType
<1> QED
  BY <1>4 DEF Rank, A, B

\* And no further than there are pages.
LEMMA RankBounds ==
  ASSUME NEW t \in Seq(Token), NEW j \in Marks(t)
  PROVE  Rank(t, j) \in 1 .. NumPages(t)
<1> DEFINE B == {k \in Marks(t) : k <= j}
<1>1. Marks(t) \subseteq 1 .. Len(t) /\ IsFiniteSet(Marks(t)) /\ Len(t) \in Nat
  BY PagesCounted
<1>2. B \subseteq Marks(t) /\ j \in B
  BY <1>1
<1> HIDE DEF B
<1>3. IsFiniteSet(B) /\ Cardinality(B) <= Cardinality(Marks(t)) /\ Cardinality(B) \in Nat /\ Cardinality(Marks(t)) \in Nat
  BY <1>1, <1>2, FS_Subset, FS_CardinalityType
<1>4. Cardinality(B) # 0
  BY <1>2, <1>3, FS_EmptySet
<1> QED
  BY <1>3, <1>4 DEF Rank, B, NumPages

\* Behind every mark but the last there is one of the next rank.
LEMMA NextMark ==
  ASSUME NEW t \in Seq(Token), NEW j \in Marks(t), Rank(t, j) # NumPages(t)
  PROVE  \E m \in Marks(t) : m > j /\ Rank(t, m) = Rank(t, j) + 1
<1> DEFINE T == {m \in Marks(t) : m > j}
           A == {k \in Marks(t) : k <= j}
<1>1. Marks(t) \subseteq 1 .. Len(t) /\ IsFiniteSet(Marks(t)) /\ Len(t) \in Nat
  BY PagesCounted
<1>2. T # {}
  <2>1. SUFFICES ASSUME T = {} PROVE FALSE
    OBVIOUS
  <2>2. A = Marks(t)
    BY <1>1, <2>1
  <2> QED
    BY <2>2 DEF Rank, NumPages
<1>3. PICK m \in T : \A k \in T : m <= k
  <2>1. T \in SUBSET Nat
    BY <1>1
  <2> QED
    BY <1>2, <2>1, Minimum
<1>4. {k \in Marks(t) : k <= m} = A \cup {m} /\ m \notin A
  BY <1>1, <1>3
<1>5. IsFiniteSet(A)
  BY <1>1, FS_Subset
<1>6. Cardinality(A \cup {m}) = Cardinality(A) + 1
  <2> HIDE DEF A
  <2> QED
    BY <1>4, <1>5, FS_AddElement
<1> QED
  BY <1>3, <1>4, <1>6 DEF Rank

\* The page behind a mark is the one counted so.
LEMMA PageBehindMark ==
  ASSUME NEW t \in Seq(Token), NEW j \in Marks(t), j < Len(t), t[j + 1].is = "code"
  PROVE  PageCode(PageText(t, Rank(t, j))) = t[j + 1].code
<1> DEFINE num == Rank(t, j)
           beg == CHOOSE k \in Marks(t) : Rank(t, k) = num
           end == IF num = NumPages(t) THEN Len(t) + 1 ELSE CHOOSE k \in Marks(t) : Rank(t, k) = num + 1
<1>1. Marks(t) \subseteq 1 .. Len(t) /\ Len(t) \in Nat /\ j \in 1 .. Len(t)
  BY PagesCounted
<1>2. \A k \in Marks(t) : Rank(t, k) \in Nat
  BY RankBounds, PagesCounted
<1>3. beg = j
  <2>1. beg \in Marks(t) /\ Rank(t, beg) = num
    OBVIOUS
  <2>2. ~(beg < j) /\ ~(j < beg)
    BY <1>2, <2>1, RankGrows
  <2> QED
    BY <1>1, <2>1, <2>2
<1>4. end \in j + 2 .. Len(t) + 1
  <2>1. CASE num = NumPages(t)
    BY <1>1, <2>1
  <2>2. CASE num # NumPages(t)
    <3>1. end \in Marks(t) /\ Rank(t, end) = num + 1
      BY <2>2, NextMark
    <3>2. ~(end < j) /\ end # j
      BY <1>2, <3>1, RankGrows
    <3>3. end # j + 1
      <4>1. Mark.is # "code"
        BY DEF Mark
      <4> QED
        BY <3>1, <4>1 DEF Marks
    <3> QED
      BY <1>1, <3>1, <3>2, <3>3
  <2> QED
    BY <2>1, <2>2
<1>5. PageText(t, num) = SubSeq(t, j + 1, end - 1)
  BY <1>3 DEF PageText, Rank
<1> HIDE DEF end
<1>6. \A k \in j + 1 .. end - 1 : t[k] \in Token
  BY <1>1, <1>4, ElementOfSeq
<1>7. /\ Len(SubSeq(t, j + 1, end - 1)) > 0
      /\ SubSeq(t, j + 1, end - 1)[1] = t[j + 1]
  BY <1>1, <1>4, <1>6, SubSeqProperties
<1>8. SubSeq(t, j + 1, end - 1) # <<>>
  <2>1. Len(<<>>) = 0
    BY EmptySeq
  <2>2. ASSUME NEW s, Len(s) > 0 PROVE s # <<>>
    BY <2>1, <2>2
  <2> QED
    BY <1>7, <2>2
<1> HIDE DEF num
<1> QED
  BY <1>5, <1>7, <1>8 DEF PageCode, num

-----------------------------------------------------------------------------
(* Where a collection stands.                                              *)

\* It has not come to a template yet, or is at one of its pages.
Early == pc \in {"open", "inquire", "list", "base", "log"} \/ (pc \in {"ask", "again"} /\ query.to # "page")
InPage == pc = "page" \/ (pc \in {"ask", "again"} /\ query.to = "page") \/ (pc = "fields" /\ call.job = "scsi")

PageInv ==
  /\ call \in Calls
  /\ Early => text = <<>> /\ fields = <<>> /\ taken = <<>>
  /\ pc \in {"inquire", "ask", "again", "list", "base", "next", "page"} \/ text # <<>> => call.job = "scsi"
  /\ text # <<>> \/ InPage \/ pc = "next" => \E k \in DOMAIN call.file : text = call.file[k].text
  /\ InPage => /\ i \in 1 .. NumPages(text) /\ code \in listed
               /\ code = PageCode(PageText(text, i)) /\ format = PageFormat(PageText(text, i))
  /\ pc # "done" => rc = 0

\* Where it stands in a page: the bytes of the next field are where they begin.
FormatInv ==
  pc = "fields" =>
    /\ code \in Nat /\ Readable(format, code) /\ n \in 1 .. Len(format) + 1
    /\ call.job # "scsi" => n >= 2
    /\ n <= FieldTotal(format) => at = Begins(format, Start(code))[n]

TInv == TypeOK /\ PageInv /\ FormatInv

\* What is set of a page that was interpreted.
Entry(t, m, z) == [code |-> t.code, name |-> t.format[m].name, at |-> Begins(t.format, Start(t.code))[m], size |-> z]
Shown(f) == [code |-> f.page, name |-> f.name, at |-> f.at, size |-> f.size]
Names(job, t, m) ==
  /\ m \in IF job = "scsi" THEN 1 .. Len(t.format) - 1 ELSE 2 .. Len(t.format)
  /\ t.format[m].name # "_" /\ Begins(t.format, Start(t.code))[m] < t.buf.held

\* Every page interpreted is one of the template's or the device's, and the
\* last of them is the page under way.
TakenInv ==
  /\ IsSeq(taken) /\ IsSeq(fields)
  /\ \A k \in DOMAIN taken : Readable(taken[k].format, taken[k].code)
  /\ pc = "fields" => taken # <<>> /\ taken[Len(taken)] = [code |-> code, format |-> format, buf |-> buf]

\* Every field a page names is set, of the page under way those before n; and
\* nothing else is set.
SetInv ==
  /\ \A k \in DOMAIN taken : \A m : Names(call.job, taken[k], m) /\ (pc = "fields" /\ k = Len(taken) => m < n) =>
       \E j \in DOMAIN fields : Shown(fields[j]) = Entry(taken[k], m, taken[k].format[m].size)
  /\ \A j \in DOMAIN fields :
       \/ fields[j].name = "Z0" /\ fields[j].page = 0
       \/ \E k \in DOMAIN taken :
            \/ \E m : Names(call.job, taken[k], m) /\ Shown(fields[j]) = Entry(taken[k], m, taken[k].format[m].size)
            \/ Shown(fields[j]) \in LastOf(call.job, taken[k])

\* A page the device has, when it was the template's turn, was interpreted.
Interpreted(num) ==
  LET c == PageCode(PageText(text, num))
  IN c \in listed \ {Description} => \E k \in DOMAIN taken : taken[k].code = c
PagesInv ==
  /\ pc = "next" \/ InPage => \A num \in 1 .. i - 1 : Interpreted(num)
  /\ pc = "done" /\ rc = 0 => \A num \in 1 .. NumPages(text) : Interpreted(num)

-----------------------------------------------------------------------------
(* Types.                                                                  *)

\* Answers have lengths.
LEMMA NeedsTyped ==
  ASSUME call \in Calls, NEW q, q.page \in Int
  PROVE  Needs(q) \in Nat
<1>1. call.device.codes \in Seq(Nat) /\ call.device.base \in Nat
      /\ \A p \in DOMAIN call.device.pages : call.device.pages[p] \in Nat
  BY CallsAssumption
<1>2. Len(call.device.codes) \in Nat
  BY <1>1
<1> QED
  BY <1>1, <1>2 DEF Needs

\* An answer is one a buffer may hold.
LEMMA AnswerTyped ==
  ASSUME call \in Calls, query.page \in Int, query.size \in Nat, query.evpd \in BOOLEAN,
         NEW a \in Answers(query)
  PROVE  a \in Buffer
<1> DEFINE sent == {[evpd |-> query.evpd, page |-> query.page]} \cup Wrong(query)
           Filled(d) == [asked |-> query.page, evpd |-> d.evpd, page |-> d.page, needs |-> Claim(query, d),
                         held |-> Least(Needs(d), Least(query.size, MAXBUFSIZE))]
<1>1. ASSUME NEW d \in sent PROVE Filled(d) \in Buffer
  <2>1. d.page \in Int
    BY DEF Wrong
  <2>2. d.evpd \in BOOLEAN
    <3>1. d.evpd = query.evpd \/ d.evpd = FALSE \/ d.evpd = TRUE
      BY DEF Wrong
    <3> QED
      BY Zenon, <3>1
  <2>3. Needs(d) \in Nat
    BY <2>1, NeedsTyped
  <2>4. Claim(query, d) \in Nat
    BY <2>3, CallsAssumption DEF Claim
  <2>5. Least(Needs(d), Least(query.size, MAXBUFSIZE)) \in Nat
    BY <2>3 DEF Least, MAXBUFSIZE
  <2> QED
    BY <2>1, <2>2, <2>4, <2>5 DEF Buffer
<1>2. Refused \in Buffer
  BY DEF Refused, Zeros, Buffer, NoPage
<1>3. a = Refused \/ \E d \in sent : a = Filled(d)
  BY DEF Answers
<1> QED
  BY <1>1, <1>2, <1>3

\* Every page of a template of the file can be read.
LEMMA PageReadable ==
  ASSUME call \in Calls, call.job = "scsi", \E k \in DOMAIN call.file : text = call.file[k].text
  PROVE  /\ ScsiTemplate(text) /\ text \in Seq(Token) /\ NumPages(text) \in Nat
         /\ \A k \in 1 .. NumPages(text) :
              Readable(PageFormat(PageText(text, k)), PageCode(PageText(text, k)))
<1>1. ScsiTemplate(text)
  BY CallsAssumption
<1>2. text \in Seq(Token)
  BY <1>1 DEF ScsiTemplate
<1> QED
  BY <1>1, <1>2, PagesCounted DEF ScsiTemplate

\* Where the next field of a format begins.
LEMMA AtNext ==
  ASSUME NEW f, NEW c, Readable(f, c), NEW k \in 1 .. Len(f)
  PROVE  /\ Begins(f, Start(c))[1] = Start(c)
         /\ Begins(f, Start(c))[k] \in Nat /\ f[k].size \in Int
         /\ Begins(f, Start(c))[k + 1] = Begins(f, Start(c))[k] + f[k].size
<1>1. Start(c) \in Int
  BY DEF Start, Header
<1>2. IsFormat(f) /\ k \in DOMAIN f /\ Begins(f, Start(c))[k] >= 0
  BY DEF Readable, IsFormat
<1>3. f[k].size \in Int
  BY <1>2 DEF IsFormat
<1>4. /\ Begins(f, Start(c))[1] = Start(c) /\ Begins(f, Start(c))[k] \in Int
      /\ Begins(f, Start(c))[k + 1] = Begins(f, Start(c))[k] + f[k].size
  BY <1>1, <1>2, BeginsSteps
<1> QED
  BY <1>2, <1>3, <1>4

\* An inquiry that is over leaves the collection where it was to go on.
LEMMA AfterInquiry ==
  ASSUME TInv, pc \in {"ask", "again"}, query.to \in {"list", "base", "page"}, UNCHANGED <<query, Rest>>,
         pc' = query.to, len' \in Nat \cup {-1}, buf' \in Buffer
  PROVE  TInv'
<1> USE DEF template, Rest
<1>1. CASE query.to = "page"
  <2>1. InPage /\ InPage' /\ ~Early' /\ pc' = "page"
    BY <1>1 DEF InPage, Early
  <2>2. i \in 1 .. NumPages(text) /\ NumPages(text) \in Nat
    BY <2>1, PageReadable DEF TInv, PageInv
  <2>3. TypeOK'
    BY <2>1, <2>2 DEF TInv, TypeOK
  <2>4. PageInv' /\ FormatInv'
    BY <2>1 DEF TInv, PageInv, FormatInv
  <2> QED
    BY <2>3, <2>4 DEF TInv
<1>2. CASE query.to # "page"
  <2>1. TypeOK'
    BY <1>2 DEF TInv, TypeOK
  <2>2. Early /\ pc' \in {"list", "base"}
    BY <1>2 DEF Early
  <2>3. call.job = "scsi"
    BY DEF TInv, PageInv
  <2> QED
    BY <2>1, <2>2, <2>3 DEF TInv, PageInv, FormatInv, Early, InPage
<1> QED
  BY <1>1, <1>2

\* Nothing is asked yet, and no page is under way.
LEMMA TInvInit == Init => TInv
<1> SUFFICES ASSUME Init PROVE TInv
  OBVIOUS
<1>1. DOMAIN fields = {}
  BY DEF Init
<1>2. TypeOK
  BY <1>1 DEF Init, TypeOK, Buffer, Zeros, NoPage
<1> QED
  BY <1>2 DEF Init, TInv, PageInv, FormatInv, InPage

\* Every step keeps the types, the page of the template and the place in it.
LEMMA TInvNext == TInv /\ IInv /\ [Next]_vars => TInv'
<1> SUFFICES ASSUME TInv, IInv, [Next]_vars PROVE TInv'
  OBVIOUS
<1> USE DEF inquiry, template, Rest
<1>0. call \in Calls /\ call' = call
  <2>1. call' = call
    BY DEF Next, vars, Open, Inquire, Ask, AskAgain, List, Base, NextPage, NoMorePages, BadPage, InterpretPage,
           ReadField, ReadLastCut, PageRead, ReadLog, NoLog
  <2> QED
    BY <2>1 DEF TInv, PageInv
<1>1. CASE Open
  <2>1. TypeOK'
    BY <1>1 DEF Open, Finish, TInv, TypeOK, PageInv
  <2>2. PageInv' /\ FormatInv'
    BY <1>1, <1>0, CallsAssumption DEF Open, Finish, TInv, PageInv, FormatInv, Early, InPage
  <2> QED
    BY <2>1, <2>2 DEF TInv
<1>2. CASE Inquire
  <2>1. CASE pc' = "done" /\ rc' = -1 /\ UNCHANGED <<inquiry, known>>
    <3>1. TypeOK'
      BY <1>2, <2>1 DEF Inquire, TInv, TypeOK
    <3> QED
      BY <1>0, <1>2, <2>1, <3>1 DEF Inquire, TInv, PageInv, FormatInv, Early, InPage
  <2>2. CASE known' \in BOOLEAN /\ Begin("list", TRUE, 0) /\ rc' = rc
    <3>1. TypeOK'
      BY <1>2, <2>2 DEF Inquire, TInv, TypeOK, Begin, Zeros, Buffer, NoPage, EvpdLen
    <3> QED
      BY <1>0, <1>2, <2>2, <3>1 DEF Inquire, Begin, TInv, PageInv, FormatInv, Early, InPage
  <2> QED
    BY <1>2, <2>1, <2>2 DEF Inquire, Finish, TInv, TypeOK
<1>3. CASE List
  <2>1. listed' \subseteq Nat
    <3>1. call.device.codes \in Seq(Nat)
      BY <1>0, CallsAssumption
    <3>2. \A j \in DOMAIN call.device.codes : call.device.codes[j] \in Nat
      BY <3>1
    <3> QED
      BY <1>3, <3>2 DEF List
  <2>2. TypeOK'
    BY <1>3, <2>1 DEF List, TInv, TypeOK, Begin, Zeros, Buffer, NoPage, StdLen
  <2> QED
    BY <1>0, <1>3, <2>2 DEF List, Begin, TInv, PageInv, FormatInv, Early, InPage
<1>4. CASE Base
  <2>1. CASE pc' = "done" /\ rc' \in {-1, 0} /\ UNCHANGED <<text, i>>
    <3>1. TypeOK'
      BY <1>4, <2>1 DEF Base, TInv, TypeOK
    <3> QED
      BY <1>0, <1>4, <2>1, <3>1 DEF Base, TInv, PageInv, FormatInv, Early, InPage
  <2>2. CASE Fitting # {} /\ pc' = "next" /\ text' = call.file[FindTemplate].text /\ i' = 1 /\ rc' = rc
    <3>1. FindTemplate \in DOMAIN call.file
      BY <1>0, <2>2, FoundFits
    <3>2. call.job = "scsi"
      BY <1>4 DEF Base, TInv, PageInv
    <3>3. PageInv'
      BY <1>0, <1>4, <2>2, <3>1, <3>2 DEF Base, TInv, PageInv, Early, InPage
    <3>4. NumPages(text') \in Nat
      <4>1. text' \in Seq(Token)
        BY <1>0, <2>2, <3>1, <3>2, CallsAssumption DEF ScsiTemplate
      <4> QED
        BY <4>1, PagesCounted
    <3>5. TypeOK'
      BY <1>4, <2>2, <3>4 DEF Base, TInv, TypeOK
    <3> QED
      BY <2>2, <3>3, <3>5 DEF TInv, FormatInv
  <2> QED
    BY <1>4, <2>1, <2>2 DEF Base, Finish
<1>5. CASE NextPage
  <2>0. /\ pc = "next" /\ i <= NumPages(text) /\ call.job = "scsi"
        /\ code' = PageCode(PageText(text, i)) /\ format' = PageFormat(PageText(text, i))
        /\ text # <<>> \/ InPage \/ pc = "next"
        /\ UNCHANGED <<call, listed, known, text, n, at, fields, taken, rc>>
    BY <1>5 DEF NextPage, TInv, PageInv
  <2>1. NumPages(text) \in Nat /\ i \in 1 .. NumPages(text)
    <3>1. NumPages(text) \in Nat
      BY <1>0, <2>0, PageReadable DEF TInv, PageInv
    <3> QED
      BY <2>0, <3>1 DEF TInv, TypeOK
  <2>2. CASE code' \in listed /\ Begin("page", ~call.limit, code') /\ i' = i
    <3>1. TypeOK'
      <4>1. code' \in Nat /\ (~call.limit) \in BOOLEAN
        BY <1>0, <2>2, CallsAssumption DEF TInv, TypeOK
      <4> QED
        BY <2>0, <2>1, <2>2, <4>1 DEF Begin, TInv, TypeOK, Zeros, Buffer, NoPage, StdLen, EvpdLen
    <3>2. PageInv'
      BY <1>0, <2>0, <2>1, <2>2 DEF Begin, TInv, PageInv, Early, InPage
    <3> QED
      BY <2>2, <3>1, <3>2 DEF Begin, TInv, FormatInv
  <2>3. CASE i' = i + 1 /\ UNCHANGED <<pc, inquiry>>
    <3>1. TypeOK'
      BY <2>0, <2>1, <2>3 DEF TInv, TypeOK
    <3>2. PageInv'
      BY <1>0, <2>0, <2>3 DEF TInv, PageInv, Early, InPage
    <3> QED
      BY <2>0, <2>3, <3>1, <3>2 DEF TInv, FormatInv
  <2> QED
    BY <1>5, <2>2, <2>3 DEF NextPage
<1>6. CASE NoMorePages \/ BadPage
  <2>0. rc' \in {-1, 0}
    <3>1. len < 0 => len = -1
      BY DEF TInv, TypeOK
    <3> QED
      BY <1>6, <3>1 DEF NoMorePages, BadPage, Finish
  <2>1. TypeOK'
    BY <1>6, <2>0 DEF NoMorePages, BadPage, Finish, TInv, TypeOK
  <2> QED
    BY <1>0, <1>6, <2>1 DEF NoMorePages, BadPage, Finish, TInv, PageInv, FormatInv, Early, InPage
<1>7. CASE InterpretPage
  <2>0. pc = "page" /\ InPage /\ call.job = "scsi" /\ code \in Nat /\ i \in 1 .. NumPages(text) /\ NumPages(text) \in Nat
    <3>1. pc = "page" /\ InPage /\ call.job = "scsi" /\ code \in Nat /\ i \in 1 .. NumPages(text)
      BY <1>7 DEF InterpretPage, TInv, TypeOK, PageInv, InPage
    <3> QED
      BY <1>0, <3>1, PageReadable DEF TInv, PageInv
  <2>1. CASE code = Description
    <3>1. TypeOK'
      BY <1>7, <2>0, <2>1 DEF InterpretPage, TInv, TypeOK
    <3> QED
      BY <1>0, <1>7, <2>0, <2>1, <3>1 DEF InterpretPage, TInv, PageInv, FormatInv, Early, InPage
  <2>2. CASE code # Description
    <3>1. /\ pc' = "fields" /\ i' = i /\ n' = 1 /\ at' = Start(code)
          /\ UNCHANGED <<call, inquiry, listed, known, text, code, format, rc>>
      BY <1>7, <2>2 DEF InterpretPage
    <3>2. Readable(format, code)
      BY <1>0, <2>0, PageReadable DEF TInv, PageInv
    <3>3. PageInv'
      BY <1>0, <2>0, <3>1 DEF TInv, PageInv, Early, InPage
    <3>4. Len(format) \in Nat
      BY <3>2 DEF Readable, IsFormat
    <3>5. FormatInv'
      <4>1. 1 <= FieldTotal(format) => Begins(format, Start(code))[1] = Start(code)
        BY <3>2, <3>4, AtNext DEF FieldTotal
      <4> QED
        BY <2>0, <3>1, <3>2, <3>4, <4>1 DEF FormatInv
    <3>6. \A j \in DOMAIN fields' : fields'[j].page \in Nat /\ fields'[j].at \in Nat /\ fields'[j].size \in Int
      <4> DEFINE z == [page |-> 0, name |-> "Z0", from |-> buf, at |-> 0, size |-> 8]
      <4>1. fields' = fields \/ fields' = Append(fields, z)
        BY <1>7, <2>2 DEF InterpretPage
      <4> QED
        BY <4>1, Appended DEF TInv, TypeOK, IInv, FieldsInv
    <3>7. TypeOK'
      BY <2>0, <3>1, <3>4, <3>6 DEF TInv, TypeOK
    <3> QED
      BY <3>3, <3>5, <3>7 DEF TInv
  <2> QED
    BY <2>1, <2>2
<1>8. CASE Ask
  <2>0. /\ pc = "ask" /\ query \in [evpd : BOOLEAN, page : Int, size : Nat, to : {"open", "list", "base", "page"}]
        /\ query.to \in {"list", "base", "page"}
        /\ UNCHANGED Rest
    BY <1>8 DEF Ask, TInv, TypeOK, IInv, QueryInv
  <2>1. PICK a \in Answers(query) :
          IF a = Refused THEN Answered(0) /\ UNCHANGED buf
          ELSE /\ buf' = a
               /\ IF Insane(query, a) THEN Answered(-1)
                  ELSE IF a.needs > query.size
                       THEN pc' = "again" /\ query' = [query EXCEPT !.size = a.needs] /\ UNCHANGED len
                       ELSE Answered(a.needs)
    BY <1>8 DEF Ask
  <2>2. a \in Buffer
    BY <1>0, <2>0, AnswerTyped
  <2>3. a.needs \in Nat
    BY <2>2 DEF Buffer
  <2>4. buf' \in Buffer
    BY <2>1, <2>2 DEF TInv, TypeOK
  <2>5. \/ len' \in Nat \cup {-1} /\ pc' = query.to /\ query' = query
        \/ pc' = "again" /\ query' = [query EXCEPT !.size = a.needs] /\ len' = len
    BY <2>1, <2>3 DEF Answered
  <2>6. CASE len' \in Nat \cup {-1} /\ pc' = query.to /\ query' = query
    BY <1>0, <2>0, <2>4, <2>6, AfterInquiry
  <2>7. CASE pc' = "again" /\ query' = [query EXCEPT !.size = a.needs] /\ len' = len
    <3>1. query' \in [evpd : BOOLEAN, page : Int, size : Nat, to : {"open", "list", "base", "page"}] /\ query'.to = query.to
      BY <2>0, <2>3, <2>7
    <3>2. TypeOK'
      BY <2>0, <2>4, <2>7, <3>1 DEF TInv, TypeOK
    <3> QED
      BY <1>0, <2>0, <2>7, <3>1, <3>2 DEF TInv, PageInv, FormatInv, Early, InPage
  <2> QED
    BY <2>5, <2>6, <2>7
<1>9. CASE AskAgain
  <2>0. /\ pc = "again" /\ query \in [evpd : BOOLEAN, page : Int, size : Nat, to : {"open", "list", "base", "page"}]
        /\ query.to \in {"list", "base", "page"} /\ buf \in Buffer
        /\ UNCHANGED Rest
    BY <1>9 DEF AskAgain, TInv, TypeOK, IInv, QueryInv
  <2>1. PICK a \in Answers(query) :
          /\ buf' = IF a = Refused THEN buf ELSE a
          /\ Answered(IF Insane(query, buf') THEN -1
                      ELSE IF a = Refused THEN buf'.needs ELSE Least(buf'.needs, MAXBUFSIZE - 1))
    BY <1>9 DEF AskAgain
  <2>2. a \in Buffer
    BY <1>0, <2>0, AnswerTyped
  <2>3. buf' \in Buffer
    BY <2>0, <2>1, <2>2
  <2>4. len' \in Nat \cup {-1} /\ pc' = query.to /\ query' = query
    BY <2>1, <2>3 DEF Answered, Buffer, Least, MAXBUFSIZE
  <2> QED
    BY <1>0, <2>0, <2>3, <2>4, AfterInquiry
<1>10. CASE ReadField \/ ReadLastCut
  <2>0. /\ pc = "fields" /\ pc' = "fields" /\ n <= FieldTotal(format) /\ n' = n + 1
        /\ UNCHANGED <<call, inquiry, listed, known, template, taken, rc>>
    <3>1. pc = "fields" => n \in Int /\ FieldTotal(format) \in Int
      BY DEF TInv, FormatInv, Readable, IsFormat, FieldTotal
    <3> QED
      BY <1>10, <3>1 DEF ReadField, ReadLastCut
  <2>1. /\ code \in Nat /\ Readable(format, code) /\ n \in 1 .. Len(format) + 1 /\ Len(format) \in Nat
        /\ at = Begins(format, Start(code))[n] /\ (call.job # "scsi" => n >= 2)
    BY <2>0 DEF TInv, FormatInv, Readable, IsFormat
  <2>2. n \in 1 .. Len(format) /\ FieldTotal(format) <= Len(format)
    BY <2>0, <2>1 DEF FieldTotal
  <2>3. /\ at \in Nat /\ format[n].size \in Int
        /\ Begins(format, Start(code))[n + 1] = at + format[n].size
    BY <2>1, <2>2, AtNext
  <2>4. \/ Set(format[n].name, format[n].size) /\ at' = at + format[n].size
        \/ n = FieldTotal(format) /\ \E z \in CutSizes(format[n].size) : Set(format[n].name, z)
        \/ fields' = fields /\ n = FieldTotal(format)
    BY <1>10 DEF ReadField, ReadLastCut
  <2>5. \A j \in DOMAIN fields' : fields'[j].page \in Nat /\ fields'[j].at \in Nat /\ fields'[j].size \in Int
    <3> DEFINE e(z) == [page |-> code, name |-> format[n].name, from |-> buf, at |-> at, size |-> z]
    <3>1. fields' = fields \/ \E z \in Int : fields' = Append(fields, e(z))
      <4>1. ASSUME NEW z \in Int, Set(format[n].name, z) PROVE fields' = fields \/ fields' = Append(fields, e(z))
        BY <4>1 DEF Set
      <4>2. CutSizes(format[n].size) \subseteq Int
        BY <2>3 DEF CutSizes
      <4> QED
        BY <2>3, <2>4, <4>1, <4>2
    <3>2. CASE fields' = fields
      BY <3>2 DEF TInv, TypeOK
    <3>3. ASSUME NEW z \in Int, fields' = Append(fields, e(z))
          PROVE  \A j \in DOMAIN fields' : fields'[j].page \in Nat /\ fields'[j].at \in Nat /\ fields'[j].size \in Int
      <4>1. \A j \in DOMAIN fields' : fields'[j] = e(z) \/ (j \in DOMAIN fields /\ fields'[j] = fields[j])
        BY <3>3, Appended DEF IInv, FieldsInv
      <4> QED
        BY <2>1, <2>3, <4>1 DEF TInv, TypeOK
    <3> QED
      BY <3>1, <3>2, <3>3
  <2>6. TypeOK'
    BY <2>0, <2>1, <2>2, <2>5 DEF TInv, TypeOK
  <2>7. PageInv'
    BY <1>0, <2>0 DEF TInv, PageInv, Early, InPage
  <2>8. FormatInv'
    BY <2>0, <2>1, <2>2, <2>3, <2>4 DEF FormatInv
  <2> QED
    BY <2>6, <2>7, <2>8 DEF TInv
<1>11. CASE PageRead
  <2>1. CASE call.job = "scsi"
    <3>1. pc = "fields" /\ InPage /\ pc' = "next" /\ i' = i + 1
          /\ UNCHANGED <<call, inquiry, listed, known, text, code, format, n, at, fields, taken, rc>>
      BY <1>11, <2>1 DEF PageRead, InPage
    <3>2. i \in 1 .. NumPages(text) /\ NumPages(text) \in Nat
      BY <1>0, <2>1, <3>1, PageReadable DEF TInv, PageInv
    <3>3. TypeOK'
      BY <3>1, <3>2 DEF TInv, TypeOK
    <3> QED
      BY <1>0, <2>1, <3>1, <3>3 DEF TInv, PageInv, FormatInv, Early, InPage
  <2>2. CASE call.job # "scsi"
    <3>1. pc = "fields" /\ pc' = "done" /\ rc' = 0
          /\ UNCHANGED <<call, inquiry, listed, known, template, n, at, fields, taken>>
      BY <1>11, <2>2 DEF PageRead, Finish
    <3>2. TypeOK'
      BY <3>1 DEF TInv, TypeOK
    <3> QED
      BY <1>0, <2>2, <3>1, <3>2 DEF TInv, PageInv, FormatInv, Early, InPage
  <2> QED
    BY <2>1, <2>2
<1>12. ASSUME NEW page \in {LogPage, MiPage}, NEW size \in Nat, NEW f, Took(page, size, f), pc = "log",
              UNCHANGED <<call, query, len, listed, known, text, i, fields>>,
              Readable(f, page), Len(f) > 0, f[1].size = 4
       PROVE  TInv'
  <2>0. call.job # "scsi" /\ text = <<>>
    BY <1>12 DEF IInv, QueryInv, TInv, PageInv, Early
  <2>1. /\ pc' = "fields" /\ code' = page /\ format' = f /\ n' = 2 /\ at' = 4 /\ rc' = rc
        /\ buf' = [asked |-> page, evpd |-> FALSE, page |-> page, needs |-> size, held |-> size]
    BY <1>12 DEF Took
  <2>2. page \in Nat /\ page # 0 /\ Start(page) = 0
    BY DEF LogPage, MiPage, Start
  <2>3. Len(f) \in Nat /\ Len(f) > 0
    BY <1>12 DEF Readable, IsFormat
  <2>4. Begins(f, Start(page))[2] = 4
    <3>1. 1 \in 1 .. Len(f)
      BY <2>3
    <3>2. Begins(f, Start(page))[1 + 1] = Begins(f, Start(page))[1] + f[1].size /\ Begins(f, Start(page))[1] = Start(page)
      BY <1>12, <3>1, AtNext
    <3> QED
      BY <1>12, <2>2, <3>2
  <2>5. FormatInv'
    BY <1>12, <2>1, <2>2, <2>3, <2>4 DEF FormatInv
  <2>6. TypeOK'
    BY <1>12, <2>1, <2>2, <2>3 DEF TInv, TypeOK, Buffer
  <2>7. PageInv'
    BY <1>0, <1>12, <2>0, <2>1 DEF TInv, PageInv, Early, InPage
  <2> QED
    BY <2>5, <2>6, <2>7 DEF TInv
<1>13. CASE ReadLog \/ NoLog
  <2>0. pc = "log" /\ call.job # "scsi" /\ UNCHANGED <<call, query, len, listed, known, text, i, fields>>
    BY <1>13 DEF ReadLog, NoLog, IInv, QueryInv
  <2>1. CASE pc' = "done" /\ rc' \in {-1, 0} /\ UNCHANGED <<buf, code, format, n, at, taken>>
    <3>1. TypeOK'
      BY <2>0, <2>1 DEF TInv, TypeOK
    <3> QED
      BY <1>0, <2>0, <2>1, <3>1 DEF TInv, PageInv, FormatInv, Early, InPage
  <2>2. CASE Fitting # {} /\ Took(LogPage, call.device.log, call.file[FindTemplate].text)
    <3>1. FindTemplate \in DOMAIN call.file
      BY <1>0, <2>2, FoundFits
    <3>2. NvmeTemplate(call.file[FindTemplate].text) /\ call.device.log \in Nat
      BY <1>0, <2>0, <3>1, CallsAssumption
    <3> QED
      BY <1>12, <2>0, <2>2, <3>2 DEF NvmeTemplate
  <2>3. CASE Took(MiPage, call.device.mi, MiFields)
    <3>1. call.device.mi \in Nat
      BY <1>0, CallsAssumption
    <3> QED
      BY <1>12, <2>0, <2>3, <3>1, MiReadable
  <2> QED
    BY <1>13, <2>1, <2>2, <2>3 DEF ReadLog, NoLog, Finish
<1>14. CASE UNCHANGED vars
  <2>1. TypeOK'
    BY <1>14 DEF vars, TInv, TypeOK
  <2> QED
    BY <1>0, <1>14, <2>1 DEF vars, TInv, PageInv, FormatInv, Early, InPage
<1> QED
  BY <1>1, <1>2, <1>3, <1>4, <1>5, <1>6, <1>7, <1>8, <1>9, <1>10, <1>11, <1>13, <1>14 DEF Next

\* Whatever device is asked and whatever it answers, as long as the templates
\* are readable: every length, page and place is one, and no field's bytes are
\* taken from before the buffer, though templates step back.
THEOREM TypeCorrect == Spec => []TypeOK
<1>1. Init => IInv /\ TInv
  BY InitIInv, TInvInit
<1>2. IInv /\ TInv /\ [Next]_vars => IInv' /\ TInv'
  BY NextKeepsIInv, TInvNext
<1>3. TInv => TypeOK
  BY DEF TInv
<1> QED
  BY <1>1, <1>2, <1>3, PTL DEF Spec

-----------------------------------------------------------------------------
(* What is read of the pages.                                              *)

RInv == TakenInv /\ SetInv /\ PagesInv

\* Away from the fields nothing is set.
LEMMA NothingSet ==
  ASSUME TakenInv, SetInv, UNCHANGED <<call, fields, taken>>, pc # "fields", pc' # "fields"
  PROVE  TakenInv' /\ SetInv'
BY DEF TakenInv, SetInv

\* Nor is a page that was interpreted forgotten.
LEMMA StaysInterpreted ==
  ASSUME IsSeq(taken), UNCHANGED <<text, listed>>, taken' = taken \/ \E t : taken' = Append(taken, t),
         NEW num, Interpreted(num)
  PROVE  Interpreted(num)'
<1>1. \A k \in DOMAIN taken : k \in DOMAIN taken' /\ taken'[k] = taken[k]
  <2>1. ASSUME NEW t, taken' = Append(taken, t)
        PROVE  \A k \in DOMAIN taken : k \in DOMAIN taken' /\ taken'[k] = taken[k]
    <3>1. PICK S : taken \in Seq(S)
      BY DEF IsSeq
    <3>2. taken \in Seq(S \cup {t})
      BY <3>1
    <3> QED
      BY <2>1, <3>2
  <2> QED
    BY <2>1
<1> QED
  BY <1>1 DEF Interpreted

\* Nor does any step but the end of a page come to the next.
LEMMA PagesStay ==
  ASSUME IsSeq(taken), PagesInv, UNCHANGED <<text, listed, i>>, taken' = taken \/ \E t : taken' = Append(taken, t),
         pc' # "done", (pc' = "next" \/ InPage') => (pc = "next" \/ InPage)
  PROVE  PagesInv'
BY StaysInterpreted DEF PagesInv

\* Without a template there is no page.
LEMMA NoPages == NumPages(<<>>) = 0
<1>1. Marks(<<>>) = {}
  BY DEF Marks
<1> QED
  BY <1>1, FS_EmptySet DEF NumPages

\* The last of a longer list, and what was there before.
LEMMA LastAppended ==
  ASSUME NEW s, IsSeq(s), NEW e
  PROVE  /\ Len(s) \in Nat /\ Len(Append(s, e)) = Len(s) + 1 /\ DOMAIN s = 1 .. Len(s)
         /\ DOMAIN Append(s, e) = 1 .. Len(s) + 1
         /\ Append(s, e)[Len(s) + 1] = e /\ Append(s, e) # <<>>
         /\ \A j \in DOMAIN s : Append(s, e)[j] = s[j]
<1>1. PICK S : s \in Seq(S)
  BY DEF IsSeq
<1>2. s \in Seq(S \cup {e})
  BY <1>1
<1>3. Len(s) \in Nat /\ Len(Append(s, e)) = Len(s) + 1 /\ Append(s, e)[Len(s) + 1] = e
  BY <1>2
<1>4. Append(s, e) # <<>>
  <2>1. Len(<<>>) = 0
    BY EmptySeq
  <2> QED
    BY <1>3, <2>1
<1> QED
  BY <1>2, <1>3, <1>4

\* A page is begun: none of its fields is set.
LEMMA BeginsPage ==
  ASSUME TakenInv, SetInv, NEW t, NEW z,
         t = [code |-> code', format |-> format', buf |-> buf'], Readable(t.format, t.code),
         pc # "fields", pc' = "fields", call' = call, taken' = Append(taken, t),
         n' = IF call.job = "scsi" THEN 1 ELSE 2,
         z.name = "Z0" /\ z.page = 0, fields' = fields \/ fields' = Append(fields, z)
  PROVE  TakenInv' /\ SetInv'
<1>1. /\ Len(taken) \in Nat /\ Len(taken') = Len(taken) + 1 /\ DOMAIN taken = 1 .. Len(taken)
      /\ DOMAIN taken' = 1 .. Len(taken) + 1 /\ taken'[Len(taken')] = t /\ taken' # <<>>
      /\ \A k \in DOMAIN taken : taken'[k] = taken[k]
      /\ IsSeq(taken')
  BY LastAppended, Appended DEF TakenInv
<1>2. /\ IsSeq(fields')
      /\ \A j \in DOMAIN fields : j \in DOMAIN fields' /\ fields'[j] = fields[j]
      /\ \A j \in DOMAIN fields' : fields'[j] = z \/ (j \in DOMAIN fields /\ fields'[j] = fields[j])
  <2>1. CASE fields' = fields
    BY <2>1 DEF TakenInv
  <2>2. CASE fields' = Append(fields, z)
    <3>1. IsSeq(fields)
      BY DEF TakenInv
    <3>2. /\ \A j \in DOMAIN fields : Append(fields, z)[j] = fields[j]
          /\ DOMAIN Append(fields, z) = 1 .. Len(fields) + 1 /\ DOMAIN fields = 1 .. Len(fields) /\ Len(fields) \in Nat
      BY <3>1, LastAppended
    <3>3. /\ IsSeq(Append(fields, z))
          /\ \A j \in DOMAIN Append(fields, z) :
               Append(fields, z)[j] = z \/ (j \in DOMAIN fields /\ Append(fields, z)[j] = fields[j])
      BY <3>1, Appended
    <3> QED
      BY <2>2, <3>2, <3>3
  <2> QED
    BY <2>1, <2>2
<1>3. \A k \in DOMAIN taken' : Readable(taken'[k].format, taken'[k].code)
  BY <1>1 DEF TakenInv
<1>4. TakenInv'
  BY <1>1, <1>2, <1>3 DEF TakenInv
<1>5. ASSUME NEW k \in DOMAIN taken', NEW m, Names(call.job, taken'[k], m), k = Len(taken') => m < n'
      PROVE  \E j \in DOMAIN fields' : Shown(fields'[j]) = Entry(taken'[k], m, taken'[k].format[m].size)
  <2>1. Len(t.format) \in Nat
    BY DEF Readable, IsFormat
  <2>2. k # Len(taken')
    <3>1. SUFFICES ASSUME k = Len(taken') PROVE FALSE
      OBVIOUS
    <3>2. m \in IF call.job = "scsi" THEN 1 .. Len(t.format) - 1 ELSE 2 .. Len(t.format)
      BY <1>1, <1>5, <3>1 DEF Names
    <3> QED
      BY <1>5, <2>1, <3>1, <3>2
  <2>3. k \in DOMAIN taken /\ taken'[k] = taken[k]
    BY <1>1, <2>2
  <2>4. Names(call.job, taken[k], m)
    BY <1>5, <2>3
  <2> QED
    BY <1>2, <2>3, <2>4 DEF SetInv
<1>6. ASSUME NEW j \in DOMAIN fields'
      PROVE  \/ fields'[j].name = "Z0" /\ fields'[j].page = 0
             \/ \E k \in DOMAIN taken' :
                  \/ \E m : Names(call.job, taken'[k], m) /\ Shown(fields'[j]) = Entry(taken'[k], m, taken'[k].format[m].size)
                  \/ Shown(fields'[j]) \in LastOf(call.job, taken'[k])
  <2>1. CASE fields'[j] = z
    BY <2>1
  <2>2. CASE j \in DOMAIN fields /\ fields'[j] = fields[j]
    BY <1>1, <2>2 DEF SetInv
  <2> QED
    BY <1>2, <2>1, <2>2
<1>7. \A k \in DOMAIN taken' : \A m : Names(call'.job, taken'[k], m) /\ (pc' = "fields" /\ k = Len(taken') => m < n') =>
        \E j \in DOMAIN fields' : Shown(fields'[j]) = Entry(taken'[k], m, taken'[k].format[m].size)
  BY <1>5
<1>8. \A j \in DOMAIN fields' :
        \/ fields'[j].name = "Z0" /\ fields'[j].page = 0
        \/ \E k \in DOMAIN taken' :
             \/ \E m : Names(call'.job, taken'[k], m) /\ Shown(fields'[j]) = Entry(taken'[k], m, taken'[k].format[m].size)
             \/ Shown(fields'[j]) \in LastOf(call'.job, taken'[k])
  BY <1>6
<1> QED
  BY <1>4, <1>7, <1>8 DEF SetInv

\* A field is read: it is set where the page has bytes for it, and has a name.
LEMMA ReadsField ==
  ASSUME TInv, TakenInv, SetInv, pc = "fields", ReadField \/ ReadLastCut
  PROVE  TakenInv' /\ SetInv'
<1> DEFINE t == [code |-> code, format |-> format, buf |-> buf]
           e(z) == [page |-> code, name |-> format[n].name, from |-> buf, at |-> at, size |-> z]
<1>1. /\ Readable(format, code) /\ n \in 1 .. Len(format) + 1 /\ Len(format) \in Nat
      /\ n <= FieldTotal(format) => at = Begins(format, Start(code))[n]
  BY DEF TInv, FormatInv, Readable, IsFormat
<1>2. /\ pc' = "fields" /\ n' = n + 1
      /\ UNCHANGED <<call, code, format, buf, taken>>
      /\ n <= FieldTotal(format)
  <2>1. FieldTotal(format) \in Nat
    BY <1>1 DEF FieldTotal
  <2> QED
    BY <1>1, <2>1 DEF ReadField, ReadLastCut, inquiry, template
<1>3. /\ taken # <<>> /\ taken[Len(taken)] = t /\ Len(taken) \in DOMAIN taken
      /\ IsSeq(taken) /\ IsSeq(fields)
  <2>1. taken # <<>> /\ taken[Len(taken)] = t /\ IsSeq(taken) /\ IsSeq(fields)
    BY DEF TakenInv
  <2>2. PICK S : taken \in Seq(S)
    BY <2>1 DEF IsSeq
  <2>3. Len(taken) \in 1 .. Len(taken) /\ DOMAIN taken = 1 .. Len(taken)
    BY <2>1, <2>2, EmptySeq, LenProperties
  <2> QED
    BY <2>1, <2>3
<1>4. n \in 1 .. Len(format) /\ Len(format) > 1 /\ at = Begins(format, Start(code))[n] /\ FieldTotal(format) = Len(format)
  BY <1>1, <1>2 DEF FieldTotal
<1>5. \/ fields' = IF format[n].name = "_" \/ at >= buf.held THEN fields ELSE Append(fields, e(format[n].size))
      \/ /\ call.job = "scsi" /\ n = Len(format)
         /\ fields' = fields \/ \E z \in CutSizes(format[n].size) : fields' = Append(fields, e(z))
  BY <1>4 DEF ReadField, ReadLastCut, Set
<1>6. \A z : Shown(e(z)) = Entry(t, n, z)
  BY <1>4 DEF Shown, Entry
<1>7. fields' = fields \/ \E z : fields' = Append(fields, e(z))
  BY <1>5
<1>8. /\ IsSeq(fields')
      /\ \A j \in DOMAIN fields : j \in DOMAIN fields' /\ fields'[j] = fields[j]
  <2>1. ASSUME NEW z, fields' = Append(fields, e(z))
        PROVE  IsSeq(fields') /\ \A j \in DOMAIN fields : j \in DOMAIN fields' /\ fields'[j] = fields[j]
    <3>1. /\ \A j \in DOMAIN fields : Append(fields, e(z))[j] = fields[j]
          /\ DOMAIN Append(fields, e(z)) = 1 .. Len(fields) + 1 /\ DOMAIN fields = 1 .. Len(fields) /\ Len(fields) \in Nat
      BY <1>3, LastAppended
    <3>2. IsSeq(Append(fields, e(z)))
      BY <1>3, Appended
    <3> QED
      BY <2>1, <3>1, <3>2
  <2> QED
    BY <1>3, <1>7, <2>1
<1>9. TakenInv'
  BY <1>2, <1>8 DEF TakenInv
<1>10. ASSUME NEW k \in DOMAIN taken, NEW m, Names(call.job, taken[k], m), k = Len(taken) => m < n + 1
       PROVE  \E j \in DOMAIN fields' : Shown(fields'[j]) = Entry(taken[k], m, taken[k].format[m].size)
  <2>1. CASE k = Len(taken) => m < n
    BY <1>8, <1>10, <2>1 DEF SetInv
  <2>2. CASE k = Len(taken) /\ ~(m < n)
    <3>1. m = n
      <4>1. m \in IF call.job = "scsi" THEN 1 .. Len(t.format) - 1 ELSE 2 .. Len(t.format)
        BY <1>3, <1>10, <2>2 DEF Names
      <4> QED
        BY <1>1, <1>10, <2>2, <4>1
    <3>2. Names(call.job, t, n)
      BY <1>3, <1>10, <2>2, <3>1
    <3>3. format[n].name # "_" /\ ~(at >= buf.held) /\ (call.job = "scsi" => n # Len(format))
      <4>1. format[n].name # "_" /\ at < buf.held
        BY <1>4, <3>2 DEF Names
      <4>2. call.job = "scsi" => n \in 1 .. Len(format) - 1
        BY <3>2 DEF Names
      <4>3. call.job = "scsi" => n # Len(format)
        BY <1>1, <4>2
      <4>4. at \in Nat
        BY <1>1, <1>4, AtNext
      <4>5. buf.held \in Nat
        BY DEF TInv, TypeOK, Buffer
      <4>6. \A x, y \in Nat : x < y => ~(x >= y)
        OBVIOUS
      <4>7. ~(at >= buf.held)
        BY <4>1, <4>4, <4>5, <4>6
      <4> QED
        BY <4>1, <4>3, <4>7
    <3>4. fields' = Append(fields, e(format[n].size))
      BY <1>5, <3>3
    <3>5. /\ Append(fields, e(format[n].size))[Len(fields) + 1] = e(format[n].size)
          /\ Len(fields) + 1 \in DOMAIN Append(fields, e(format[n].size))
      BY <1>3, LastAppended
    <3>6. Shown(fields'[Len(fields) + 1]) = Entry(t, n, format[n].size)
      BY <1>6, <3>4, <3>5
    <3> QED
      BY <1>3, <2>2, <3>1, <3>4, <3>5, <3>6
  <2> QED
    BY <2>1, <2>2
<1>11. ASSUME NEW z, fields' = Append(fields, e(z)), fields' # fields
       PROVE  (Shown(e(z)) = Entry(t, n, format[n].size) /\ Names(call.job, t, n)) \/ Shown(e(z)) \in LastOf(call.job, t)
  <2>1. Append(fields, e(z))[Len(fields) + 1] = e(z)
    BY <1>3, LastAppended
  <2>2. ASSUME NEW y, Append(fields, e(z)) = Append(fields, e(y)) PROVE z = y
    <3>1. Append(fields, e(y))[Len(fields) + 1] = e(y)
      BY <1>3, LastAppended
    <3> QED
      BY <2>1, <2>2, <3>1
  <2>3. CASE call.job = "scsi" /\ n = Len(format)
    <3>1. z \in {format[n].size} \cup CutSizes(format[n].size)
      BY <1>5, <1>11, <2>2
    <3>2. Shown(e(z)) = [code |-> code, name |-> format[n].name, at |-> Begins(format, Start(code))[n], size |-> z]
      BY <1>4 DEF Shown
    <3> QED
      BY <1>4, <2>3, <3>1, <3>2 DEF LastOf
  <2>4. CASE ~(call.job = "scsi" /\ n = Len(format))
    <3>1. fields' = IF format[n].name = "_" \/ at >= buf.held THEN fields ELSE Append(fields, e(format[n].size))
      BY <1>5, <2>4
    <3>2. format[n].name # "_" /\ ~(at >= buf.held) /\ z = format[n].size
      BY <1>11, <2>2, <3>1
    <3>3. at \in Nat /\ buf.held \in Nat
      BY <1>1, <1>4, AtNext DEF TInv, TypeOK, Buffer
    <3>4. n \in IF call.job = "scsi" THEN 1 .. Len(format) - 1 ELSE 2 .. Len(format)
      <4>1. call.job # "scsi" => n >= 2
        BY DEF TInv, FormatInv
      <4> QED
        BY <1>1, <1>4, <2>4, <4>1
    <3>5. \A x, y \in Nat : ~(x >= y) => x < y
      OBVIOUS
    <3>6. at < buf.held
      BY <3>2, <3>3, <3>5
    <3>7. Names(call.job, t, n)
      BY <1>4, <3>2, <3>4, <3>6 DEF Names
    <3> QED
      BY <1>6, <3>2, <3>7
  <2> QED
    BY <2>3, <2>4
<1>12. ASSUME NEW j \in DOMAIN fields'
       PROVE  \/ fields'[j].name = "Z0" /\ fields'[j].page = 0
              \/ \E k \in DOMAIN taken :
                   \/ \E m : Names(call.job, taken[k], m) /\ Shown(fields'[j]) = Entry(taken[k], m, taken[k].format[m].size)
                   \/ Shown(fields'[j]) \in LastOf(call.job, taken[k])
  <2>1. CASE j \in DOMAIN fields /\ fields'[j] = fields[j]
    BY <2>1 DEF SetInv
  <2>2. CASE ~(j \in DOMAIN fields /\ fields'[j] = fields[j])
    <3>1. PICK z : fields' = Append(fields, e(z)) /\ fields' # fields
      BY <1>7, <2>2
    <3>2. fields'[j] = e(z)
      <4>1. Append(fields, e(z))[j] = e(z) \/ (j \in DOMAIN fields /\ Append(fields, e(z))[j] = fields[j])
        BY <1>3, <1>12, <3>1, Appended
      <4> QED
        BY <2>2, <3>1, <4>1
    <3>3. (Shown(e(z)) = Entry(t, n, format[n].size) /\ Names(call.job, t, n)) \/ Shown(e(z)) \in LastOf(call.job, t)
      BY <1>11, <3>1
    <3>4. \/ Shown(fields'[j]) = Entry(t, n, t.format[n].size) /\ Names(call.job, t, n)
          \/ Shown(fields'[j]) \in LastOf(call.job, t)
      BY <3>2, <3>3
    <3> HIDE DEF t
    <3> QED
      BY <1>3, <3>4
  <2> QED
    BY <2>1, <2>2
<1>13. \A k \in DOMAIN taken' : \A m : Names(call'.job, taken'[k], m) /\ (pc' = "fields" /\ k = Len(taken') => m < n') =>
         \E j \in DOMAIN fields' : Shown(fields'[j]) = Entry(taken'[k], m, taken'[k].format[m].size)
  BY <1>2, <1>10
<1>14. \A j \in DOMAIN fields' :
         \/ fields'[j].name = "Z0" /\ fields'[j].page = 0
         \/ \E k \in DOMAIN taken' :
              \/ \E m : Names(call'.job, taken'[k], m) /\ Shown(fields'[j]) = Entry(taken'[k], m, taken'[k].format[m].size)
              \/ Shown(fields'[j]) \in LastOf(call'.job, taken'[k])
  BY <1>2, <1>12
<1> QED
  BY <1>9, <1>13, <1>14 DEF SetInv

\* When a page's fields are read, all it names were before the next.
LEMMA LeavesPage ==
  ASSUME TInv, TakenInv, SetInv, PageRead
  PROVE  TakenInv' /\ SetInv'
<1>1. /\ pc = "fields" /\ n > FieldTotal(format) /\ pc' # "fields"
      /\ UNCHANGED <<call, fields, taken>>
  BY DEF PageRead, Finish
<1>2. Len(format) \in Nat /\ n \in 1 .. Len(format) + 1
  BY <1>1 DEF TInv, FormatInv, Readable, IsFormat
<1>3. taken[Len(taken)].format = format
  BY <1>1 DEF TakenInv
<1>4. ASSUME NEW m, Names(call.job, taken[Len(taken)], m) PROVE m < n
  <2>1. m \in IF call.job = "scsi" THEN 1 .. Len(format) - 1 ELSE 2 .. Len(format)
    BY <1>3, <1>4 DEF Names
  <2>2. m \in 1 .. Len(format) /\ Len(format) > 1
    BY <1>2, <2>1
  <2> QED
    BY <1>1, <1>2, <2>2 DEF FieldTotal
<1>5. TakenInv'
  BY <1>1 DEF TakenInv
<1> QED
  BY <1>1, <1>4, <1>5 DEF SetInv

\* Nothing is read yet.
LEMMA RInvInit == Init => RInv
<1> SUFFICES ASSUME Init PROVE RInv
  OBVIOUS
<1>1. IsSeq(fields) /\ IsSeq(taken)
  <2>1. << >> \in Seq({})
    OBVIOUS
  <2> QED
    BY <2>1 DEF Init, IsSeq
<1>2. DOMAIN fields = {} /\ DOMAIN taken = {} /\ pc = "open" /\ query.to = "open"
  BY DEF Init
<1> QED
  BY <1>1, <1>2 DEF RInv, TakenInv, SetInv, PagesInv, InPage

\* Every step keeps what is read and what is set in line with the template.
LEMMA RInvNext == TInv /\ IInv /\ RInv /\ [Next]_vars => RInv'
<1> SUFFICES ASSUME TInv, IInv, RInv, [Next]_vars PROVE RInv'
  OBVIOUS
<1> USE DEF inquiry, template, Rest
<1>0. TakenInv /\ SetInv /\ PagesInv /\ IsSeq(taken) /\ call \in Calls
  BY DEF RInv, TakenInv, TInv, PageInv
<1>1. CASE Open \/ Inquire \/ List \/ BadPage
  <2>1. /\ pc \in {"open", "inquire", "list", "page"} /\ UNCHANGED <<call, fields, taken>>
        /\ pc' # "fields"
    BY <1>1 DEF Open, Inquire, List, BadPage, Finish, Begin
  <2>2. pc' # "next" /\ ~InPage' /\ ~(pc' = "done" /\ rc' = 0)
    <3>1. CASE Open
      BY <3>1 DEF Open, Finish, InPage
    <3>2. CASE Inquire
      <4>1. \/ pc' = "done" /\ rc' = -1
            \/ Begin("list", TRUE, 0)
        BY <3>2 DEF Inquire, Finish
      <4>2. CASE pc' = "done" /\ rc' = -1
        BY <4>2 DEF InPage
      <4>3. CASE Begin("list", TRUE, 0)
        BY <4>3 DEF Begin, InPage
      <4> QED
        BY <4>1, <4>2, <4>3
    <3>3. CASE List
      BY <3>3 DEF List, Begin, InPage
    <3>4. CASE BadPage
      <4>1. len # 0
        BY <3>4 DEF BadPage
      <4> QED
        BY <3>4, <4>1 DEF BadPage, Finish, InPage
    <3> QED
      BY <1>1, <3>1, <3>2, <3>3, <3>4
  <2> QED
    BY <1>0, <2>1, <2>2, NothingSet DEF RInv, PagesInv
<1>2. CASE Ask \/ AskAgain
  <2>1. /\ pc \in {"ask", "again"} /\ query.to \in {"list", "base", "page"}
        /\ UNCHANGED Rest
    BY <1>2 DEF Ask, AskAgain, IInv, QueryInv
  <2>2. pc' \in {"again", query.to} /\ query'.to = query.to
    <3>1. query = [evpd |-> query.evpd, page |-> query.page, size |-> query.size, to |-> query.to]
      BY DEF IInv, QueryInv
    <3>2. \A s : [query EXCEPT !.size = s].to = query.to
      BY <3>1
    <3>3. CASE Ask
      BY <3>2, <3>3 DEF Ask, Answered
    <3>4. CASE AskAgain
      BY <3>4 DEF AskAgain, Answered
    <3> QED
      BY <1>2, <3>3, <3>4
  <2>3. InPage' => InPage
    BY <2>1, <2>2 DEF InPage
  <2>4. pc # "fields" /\ pc' \notin {"fields", "next", "done"}
    BY <2>1, <2>2
  <2> QED
    BY <1>0, <2>1, <2>3, <2>4, NothingSet, PagesStay DEF RInv
<1>3. CASE Base
  <2>1. pc = "base" /\ text = <<>> /\ UNCHANGED <<call, fields, taken, listed>> /\ pc' # "fields"
    BY <1>3 DEF Base, Finish, TInv, PageInv, Early
  <2>2. CASE pc' = "done" /\ text' = text
    BY <1>0, <2>1, <2>2, NothingSet, NoPages DEF RInv, PagesInv, InPage
  <2>3. CASE pc' = "next" /\ i' = 1
    BY <1>0, <2>1, <2>3, NothingSet DEF RInv, PagesInv, InPage
  <2> QED
    BY <1>3, <2>2, <2>3 DEF Base, Finish
<1>4. CASE NextPage
  <2>1. /\ pc = "next" /\ pc' \in {"next", "ask"} /\ UNCHANGED <<call, fields, taken, listed, text>>
        /\ i \in Nat /\ code' = PageCode(PageText(text, i))
    BY <1>4 DEF NextPage, Begin, TInv, TypeOK
  <2>2. TakenInv' /\ SetInv'
    BY <1>0, <2>1, NothingSet
  <2>3. CASE i' = i
    BY <1>0, <2>1, <2>2, <2>3, PagesStay DEF RInv
  <2>4. CASE i' = i + 1 /\ code' \notin listed /\ pc' = "next"
    <3>1. \A num \in 1 .. i - 1 : Interpreted(num)
      BY <1>0, <2>1 DEF PagesInv
    <3>2. Interpreted(i)
      BY <2>1, <2>4 DEF Interpreted
    <3>3. \A num \in 1 .. i' - 1 : Interpreted(num)
      BY <2>1, <2>4, <3>1, <3>2
    <3>4. \A num \in 1 .. i' - 1 : Interpreted(num)'
      BY <1>0, <2>1, <3>3, StaysInterpreted
    <3> QED
      BY <2>2, <2>4, <3>4 DEF RInv, PagesInv, InPage
  <2> QED
    BY <1>4, <2>3, <2>4 DEF NextPage
<1>5. CASE NoMorePages
  <2>1. /\ pc = "next" /\ pc' = "done" /\ UNCHANGED <<call, fields, taken, listed, text, i>>
        /\ i > NumPages(text)
    BY <1>5 DEF NoMorePages, Finish
  <2>2. NumPages(text) \in Nat
    BY <1>0, <2>1, PageReadable DEF TInv, PageInv
  <2>3. i = NumPages(text) + 1
    BY <2>1, <2>2 DEF TInv, TypeOK
  <2>4. \A num \in 1 .. NumPages(text) : Interpreted(num)
    BY <1>0, <2>1, <2>2, <2>3 DEF PagesInv
  <2>5. \A num \in 1 .. NumPages(text') : Interpreted(num)'
    BY <1>0, <2>1, <2>4, StaysInterpreted
  <2> QED
    BY <1>0, <2>1, <2>5, NothingSet DEF RInv, PagesInv, InPage
<1>6. CASE InterpretPage
  <2>1. /\ pc = "page" /\ InPage /\ call.job = "scsi" /\ i \in Nat
        /\ code = PageCode(PageText(text, i)) /\ format = PageFormat(PageText(text, i))
        /\ i \in 1 .. NumPages(text)
        /\ UNCHANGED <<call, inquiry, listed, known, text, code, format, rc>>
    BY <1>6 DEF InterpretPage, InPage, TInv, TypeOK, PageInv
  <2>2. CASE code = Description
    <3>1. pc' = "next" /\ i' = i + 1 /\ UNCHANGED <<fields, taken>>
      BY <1>6, <2>2 DEF InterpretPage
    <3>2. \A num \in 1 .. i - 1 : Interpreted(num)
      BY <1>0, <2>1 DEF PagesInv
    <3>3. Interpreted(i)
      BY <2>1, <2>2 DEF Interpreted
    <3>4. \A num \in 1 .. i' - 1 : Interpreted(num)
      BY <2>1, <3>1, <3>2, <3>3
    <3>5. \A num \in 1 .. i' - 1 : Interpreted(num)'
      BY <1>0, <2>1, <3>1, <3>4, StaysInterpreted
    <3> QED
      BY <1>0, <2>1, <3>1, <3>5, NothingSet DEF RInv, PagesInv, InPage
  <2>3. CASE code # Description
    <3> DEFINE t == [code |-> code, format |-> format, buf |-> buf]
               z == [page |-> 0, name |-> "Z0", from |-> buf, at |-> 0, size |-> 8]
    <3>1. /\ pc' = "fields" /\ i' = i /\ n' = 1 /\ taken' = Append(taken, t)
          /\ fields' = fields \/ fields' = Append(fields, z)
      BY <1>6, <2>3 DEF InterpretPage
    <3>2. Readable(format, code)
      BY <1>0, <2>1, PageReadable DEF TInv, PageInv
    <3>3. TakenInv' /\ SetInv'
      <4>1. t = [code |-> code', format |-> format', buf |-> buf'] /\ Readable(t.format, t.code)
        BY <2>1, <3>2
      <4>2. z.name = "Z0" /\ z.page = 0
        OBVIOUS
      <4>3. n' = IF call.job = "scsi" THEN 1 ELSE 2
        BY <2>1, <3>1
      <4> HIDE DEF t, z
      <4> QED
        BY <1>0, <2>1, <3>1, <4>1, <4>2, <4>3, BeginsPage
    <3>4. PagesInv'
      BY <1>0, <2>1, <3>1, PagesStay
    <3> QED
      BY <3>3, <3>4 DEF RInv
  <2> QED
    BY <2>2, <2>3
<1>7. CASE ReadField \/ ReadLastCut
  <2>1. /\ pc = "fields" /\ pc' = "fields" /\ UNCHANGED <<call, text, listed, i, taken>>
    BY <1>7 DEF ReadField, ReadLastCut
  <2>2. InPage' => InPage
    BY <2>1 DEF InPage
  <2> QED
    BY <1>0, <1>7, <2>1, <2>2, ReadsField, PagesStay DEF RInv
<1>8. CASE PageRead
  <2>1. pc = "fields" /\ UNCHANGED <<call, inquiry, listed, known, text, code, format, n, at, fields, taken>>
    BY <1>8 DEF PageRead
  <2>2. TakenInv' /\ SetInv'
    BY <1>0, <1>8, LeavesPage
  <2>3. CASE call.job = "scsi"
    <3>1. pc' = "next" /\ i' = i + 1 /\ InPage
      BY <1>8, <2>1, <2>3 DEF PageRead, InPage
    <3>2. i \in Nat /\ code = PageCode(PageText(text, i))
      BY <3>1 DEF TInv, TypeOK, PageInv
    <3>3. \A num \in 1 .. i - 1 : Interpreted(num)
      BY <1>0, <3>1 DEF PagesInv
    <3>4. Interpreted(i)
      <4>1. taken # <<>> /\ taken[Len(taken)].code = code
        BY <1>0, <2>1 DEF TakenInv
      <4>2. Len(taken) \in DOMAIN taken
        <5>1. PICK S : taken \in Seq(S)
          BY <1>0 DEF IsSeq
        <5> QED
          BY <4>1, <5>1, EmptySeq, LenProperties
      <4> QED
        BY <3>2, <4>1, <4>2 DEF Interpreted
    <3>5. \A num \in 1 .. i' - 1 : Interpreted(num)
      BY <3>1, <3>2, <3>3, <3>4
    <3>6. \A num \in 1 .. i' - 1 : Interpreted(num)'
      BY <1>0, <2>1, <3>5, StaysInterpreted
    <3> QED
      BY <2>2, <3>1, <3>6 DEF RInv, PagesInv
  <2>4. CASE call.job # "scsi"
    <3>1. text' = <<>> /\ pc' = "done"
      BY <1>8, <2>1, <2>4 DEF PageRead, Finish, TInv, PageInv
    <3> QED
      BY <2>2, <3>1, NoPages DEF RInv, PagesInv, InPage
  <2> QED
    BY <2>3, <2>4
<1>9. ASSUME NEW page \in {LogPage, MiPage}, NEW size \in Nat, NEW f, Took(page, size, f), pc = "log",
             UNCHANGED <<call, query, len, listed, known, text, i, fields>>, Readable(f, page)
      PROVE  RInv'
  <2> DEFINE b == [asked |-> page, evpd |-> FALSE, page |-> page, needs |-> size, held |-> size]
             t == [code |-> page, format |-> f, buf |-> b]
             z == [page |-> 0, name |-> "Z0"]
  <2>1. /\ pc' = "fields" /\ buf' = b /\ code' = page /\ format' = f /\ n' = 2 /\ taken' = Append(taken, t)
        /\ call.job # "scsi"
    BY <1>9 DEF Took, IInv, QueryInv
  <2>2. ~InPage' /\ pc' \notin {"next", "done"}
    BY <1>9, <2>1 DEF InPage
  <2>3. TakenInv' /\ SetInv'
    <3>1. t = [code |-> code', format |-> format', buf |-> buf'] /\ Readable(t.format, t.code)
      BY <1>9, <2>1
    <3>2. z.name = "Z0" /\ z.page = 0
      OBVIOUS
    <3>3. n' = IF call.job = "scsi" THEN 1 ELSE 2
      BY <2>1
    <3> HIDE DEF t, z
    <3> QED
      BY <1>0, <1>9, <2>1, <3>1, <3>2, <3>3, BeginsPage
  <2> QED
    BY <2>2, <2>3 DEF RInv, PagesInv
<1>10. CASE ReadLog \/ NoLog
  <2>0. /\ pc = "log" /\ call.job # "scsi" /\ UNCHANGED <<call, query, len, listed, known, text, i, fields>>
        /\ text = <<>>
    BY <1>10 DEF ReadLog, NoLog, IInv, QueryInv, TInv, PageInv, Early
  <2>1. CASE pc' = "done" /\ UNCHANGED <<buf, code, format, n, at, taken>>
    BY <1>0, <2>0, <2>1, NothingSet, NoPages DEF RInv, PagesInv, InPage
  <2>2. CASE Fitting # {} /\ Took(LogPage, call.device.log, call.file[FindTemplate].text)
    <3>1. FindTemplate \in DOMAIN call.file
      BY <1>0, <2>2, FoundFits
    <3>2. NvmeTemplate(call.file[FindTemplate].text) /\ call.device.log \in Nat
      BY <1>0, <2>0, <3>1, CallsAssumption
    <3> QED
      BY <1>9, <2>0, <2>2, <3>2 DEF NvmeTemplate
  <2>3. CASE Took(MiPage, call.device.mi, MiFields)
    <3>1. call.device.mi \in Nat
      BY <1>0, CallsAssumption
    <3> QED
      BY <1>9, <2>0, <2>3, <3>1, MiReadable
  <2> QED
    BY <1>10, <2>1, <2>2, <2>3 DEF ReadLog, NoLog, Finish
<1>11. CASE UNCHANGED vars
  <2>1. UNCHANGED <<call, query, pc, n, at, code, format, buf, fields, taken, text, listed, i, rc>>
    BY <1>11 DEF vars
  <2>2. TakenInv' /\ SetInv'
    BY <1>0, <2>1 DEF TakenInv, SetInv
  <2>3. PagesInv'
    BY <1>0, <2>1 DEF PagesInv, Interpreted, InPage
  <2> QED
    BY <2>2, <2>3 DEF RInv
<1> QED
  BY <1>1, <1>2, <1>3, <1>4, <1>5, <1>6, <1>7, <1>8, <1>10, <1>11 DEF Next

\* A mark has the page behind it, in order.
LEMMA MarkedPage ==
  ASSUME NEW t, ScsiTemplate(t), NEW j \in DOMAIN t \ {1}, t[j - 1] = Mark
  PROVE  \E num \in 1 .. NumPages(t) : PageCode(PageText(t, num)) = t[j].code
<1>1. t \in Seq(Token) /\ DOMAIN t = 1 .. Len(t) /\ Len(t) \in Nat
  BY DEF ScsiTemplate
<1>2. j - 1 \in Marks(t) /\ (j - 1) + 1 = j
  BY <1>1 DEF Marks
<1>3. j - 1 < Len(t) /\ t[(j - 1) + 1].is = "code"
  BY <1>2 DEF ScsiTemplate
<1>4. PageCode(PageText(t, Rank(t, j - 1))) = t[j].code
  BY <1>1, <1>2, <1>3, PageBehindMark
<1> QED
  BY <1>1, <1>2, <1>4, RankBounds

\* What TakenInv, SetInv and PagesInv say of a collection that ended well.
LEMMA TemplatedWhenDone == TInv /\ RInv => FieldsAsTemplated
<1> SUFFICES ASSUME TInv, RInv, pc = "done", rc = 0
             PROVE  FieldsAsTemplated
  BY DEF FieldsAsTemplated
<1> DEFINE got == {[code |-> fields[j].page, name |-> fields[j].name, at |-> fields[j].at, size |-> fields[j].size]
                     : j \in {m \in DOMAIN fields : fields[m].name # "Z0" \/ fields[m].page # 0}}
           pages == {taken[j] : j \in DOMAIN taken}
<1>1. ASSUME NEW t, NEW x, x \in Named(call.job, t)
      PROVE  \E m : Names(call.job, t, m) /\ x = Entry(t, m, t.format[m].size)
  BY <1>1 DEF Named, Names, Entry
<1>2. ASSUME NEW t, NEW m, Names(call.job, t, m)
      PROVE  Entry(t, m, t.format[m].size) \in Named(call.job, t)
  BY <1>2 DEF Named, Names, Entry
<1>3. \A j \in DOMAIN text \ {1} :
        text[j - 1] = Mark /\ text[j].code \in listed \ {Description} => \E t \in pages : t.code = text[j].code
  <2> SUFFICES ASSUME NEW j \in DOMAIN text \ {1}, text[j - 1] = Mark, text[j].code \in listed \ {Description}
               PROVE  \E t \in pages : t.code = text[j].code
    OBVIOUS
  <2>1. text # <<>>
    OBVIOUS
  <2>2. ScsiTemplate(text)
    BY <2>1, PageReadable DEF TInv, PageInv
  <2>3. PICK num \in 1 .. NumPages(text) : PageCode(PageText(text, num)) = text[j].code
    BY <2>2, MarkedPage
  <2>4. Interpreted(num)
    BY <2>3 DEF RInv, PagesInv
  <2> QED
    BY <2>3, <2>4 DEF Interpreted
<1>4. ASSUME NEW t \in pages, NEW x \in Named(call.job, t)
      PROVE  x \in got
  <2>1. PICK k \in DOMAIN taken : t = taken[k]
    OBVIOUS
  <2>2. PICK m : Names(call.job, t, m) /\ x = Entry(t, m, t.format[m].size)
    BY <1>1
  <2>3. PICK j \in DOMAIN fields : Shown(fields[j]) = x
    BY <2>1, <2>2 DEF RInv, SetInv
  <2>4. fields[j].name # "Z0" \/ fields[j].page # 0
    <3>1. fields[j].name = t.format[m].name /\ fields[j].page = t.code
      BY <2>2, <2>3 DEF Shown, Entry
    <3>2. Readable(t.format, t.code)
      BY <2>1 DEF RInv, TakenInv
    <3>3. m \in DOMAIN t.format
      <4>1. m \in IF call.job = "scsi" THEN 1 .. Len(t.format) - 1 ELSE 2 .. Len(t.format)
        BY <2>2 DEF Names
      <4>2. Len(t.format) \in Nat /\ DOMAIN t.format = 1 .. Len(t.format)
        BY <3>2 DEF Readable, IsFormat
      <4> QED
        BY <4>1, <4>2
    <3> QED
      BY <3>1, <3>2, <3>3 DEF Readable
  <2> QED
    BY <2>3, <2>4 DEF Shown
<1>5. ASSUME NEW x \in got
      PROVE  \E t \in pages : x \in Named(call.job, t) \cup LastOf(call.job, t)
  <2>1. PICK j \in DOMAIN fields : Shown(fields[j]) = x /\ (fields[j].name # "Z0" \/ fields[j].page # 0)
    BY DEF Shown
  <2>2. PICK k \in DOMAIN taken :
          \/ \E m : Names(call.job, taken[k], m) /\ Shown(fields[j]) = Entry(taken[k], m, taken[k].format[m].size)
          \/ Shown(fields[j]) \in LastOf(call.job, taken[k])
    BY <2>1 DEF RInv, SetInv
  <2> QED
    BY <1>2, <2>1, <2>2
<1>6. UNION {Named(call.job, t) : t \in pages} \subseteq got
  <2> HIDE DEF got, pages
  <2> QED
    BY <1>4
<1>7. got \subseteq UNION {Named(call.job, t) \cup LastOf(call.job, t) : t \in pages}
  <2> HIDE DEF got, pages
  <2> QED
    BY <1>5
<1> QED
  BY <1>3, <1>6, <1>7 DEF FieldsAsTemplated

\* Whatever templates a file holds and whatever the device answers: a
\* collection that ends well has interpreted every page of its template that
\* the device has, and has set each field such a page names, from its place, and
\* no other but the last of a page.
THEOREM FieldsAsTheTemplateSays == Spec => []FieldsAsTemplated
<1>1. Init => IInv /\ TInv /\ RInv
  BY InitIInv, TInvInit, RInvInit
<1>2. IInv /\ TInv /\ RInv /\ [Next]_vars => IInv' /\ TInv' /\ RInv'
  BY NextKeepsIInv, TInvNext, RInvNext
<1> QED
  BY <1>1, <1>2, TemplatedWhenDone, PTL DEF Spec

-----------------------------------------------------------------------------
(* What matches() makes of a pattern that has one star or none.            *)

\* A string is one of characters, whatever they are.
LEMMA Spelled ==
  ASSUME NEW s, Word(s)
  PROVE  Len(s) \in Nat /\ DOMAIN s = 1 .. Len(s) /\ \E S : s \in Seq(S) /\ \A j \in 1 .. Len(s) : s[j] \in S
<1>1. s \in Seq({s[j] : j \in DOMAIN s})
  BY DEF Word
<1> DEFINE S == {s[j] : j \in DOMAIN s}
<1>2. Len(s) \in Nat /\ DOMAIN s = 1 .. Len(s) /\ \A j \in 1 .. Len(s) : s[j] \in S
  BY <1>1
<1> HIDE DEF S
<1> QED
  BY <1>1, <1>2 DEF S

\* What substr cuts off a string's front.
LEMMA FrontCut ==
  ASSUME NEW s, Word(s), NEW end \in Nat
  PROVE  LET k == IF end < Len(s) THEN end ELSE Len(s)
         IN Len(UpTo(s, 1, end)) = k /\ \A j \in 1 .. k : UpTo(s, 1, end)[j] = s[j]
<1>1. PICK S : s \in Seq(S) /\ \A j \in 1 .. Len(s) : s[j] \in S
  BY Spelled
<1>2. Len(s) \in Nat
  BY Spelled
<1> DEFINE k == IF end < Len(s) THEN end ELSE Len(s)
<1>3. k \in Nat /\ k <= Len(s) /\ k = IF end < Len(s) THEN end ELSE Len(s)
  BY <1>2
<1>4. UpTo(s, 1, end) = SubSeq(s, 1, k)
  BY DEF UpTo
<1> HIDE DEF k
<1>5. \A j \in 1 .. k : s[j] \in S
  BY <1>1, <1>2, <1>3
<1>6. /\ Len(SubSeq(s, 1, k)) = IF 1 <= k THEN k - 1 + 1 ELSE 0
      /\ \A j \in 1 .. k - 1 + 1 : SubSeq(s, 1, k)[j] = s[1 + j - 1]
  BY <1>3, <1>5, SubSeqProperties
<1>7. Len(SubSeq(s, 1, k)) = k
  BY <1>3, <1>6
<1>8. \A j \in 1 .. k : SubSeq(s, 1, k)[j] = s[j]
  <2> TAKE j \in 1 .. k
  <2>1. j \in 1 .. k - 1 + 1 /\ 1 + j - 1 = j
    BY <1>3
  <2> QED
    BY <1>6, <2>1
<1> QED
  BY <1>3, <1>4, <1>7, <1>8

\* Two strings are one when they are as long and have the same characters.
LEMMA SameWord ==
  ASSUME NEW s, Word(s), NEW t, Word(t), Len(s) = Len(t), \A j \in 1 .. Len(s) : s[j] = t[j]
  PROVE  s = t
<1>1. PICK S : s \in Seq(S) /\ \A j \in 1 .. Len(s) : s[j] \in S
  BY Spelled
<1>2. PICK T : t \in Seq(T) /\ \A j \in 1 .. Len(t) : t[j] \in T
  BY Spelled
<1>3. s \in Seq(S \cup T) /\ t \in Seq(S \cup T)
  BY <1>1, <1>2
<1> QED
  BY <1>3

\* A sequence of anything is a string.
LEMMA WordOf ==
  ASSUME NEW S, NEW t \in Seq(S)
  PROVE  Word(t)
<1> DEFINE T == {t[j] : j \in DOMAIN t}
<1>1. Len(t) \in Nat /\ DOMAIN t = 1 .. Len(t) /\ t = [j \in 1 .. Len(t) |-> t[j]]
  OBVIOUS
<1>2. \A j \in 1 .. Len(t) : t[j] \in T
  BY <1>1
<1> HIDE DEF T
<1>3. [j \in 1 .. Len(t) |-> t[j]] \in Seq(T)
  BY <1>1, <1>2
<1> QED
  BY <1>1, <1>3 DEF Word, T

\* What is cut out of a string.
LEMMA CutOut ==
  ASSUME NEW s, Word(s), NEW a \in Nat, NEW b \in Nat, 1 <= a, a <= b + 1, b <= Len(s)
  PROVE  /\ Word(SubSeq(s, a, b)) /\ Len(SubSeq(s, a, b)) = b - a + 1
         /\ \A x \in 1 .. b - a + 1 : SubSeq(s, a, b)[x] = s[a + x - 1]
<1>1. PICK S : s \in Seq(S) /\ \A j \in 1 .. Len(s) : s[j] \in S
  BY Spelled
<1>2. Len(s) \in Nat
  BY Spelled
<1>3. \A j \in a .. b : s[j] \in S
  BY <1>1, <1>2
<1>4. /\ SubSeq(s, a, b) \in Seq(S)
      /\ Len(SubSeq(s, a, b)) = IF a <= b THEN b - a + 1 ELSE 0
      /\ \A j \in 1 .. b - a + 1 : SubSeq(s, a, b)[j] = s[a + j - 1]
  BY <1>3, SubSeqProperties
<1>5. Len(SubSeq(s, a, b)) = b - a + 1
  BY <1>4
<1> QED
  BY <1>4, <1>5, WordOf

\* A part is found where its characters stand.
LEMMA PartThere ==
  ASSUME NEW f, Word(f), NEW q, Word(q), NEW k \in Nat, k + Len(q) <= Len(f)
  PROVE  SubSeq(f, k + 1, k + Len(q)) = q <=> \A x \in 1 .. Len(q) : f[k + x] = q[x]
<1> DEFINE B == Len(q)
           a == k + 1
           b == k + B
           c == SubSeq(f, a, b)
<1>1. B \in Nat /\ Len(f) \in Nat
  BY Spelled
<1>2. a \in Nat /\ b \in Nat /\ 1 <= a /\ a <= b + 1 /\ b <= Len(f)
  BY <1>1
<1>3. b - a + 1 = B /\ \A x \in 1 .. B : a + x - 1 = k + x
  BY <1>1
<1> HIDE DEF a, b
<1>4. Word(c) /\ Len(c) = b - a + 1 /\ \A x \in 1 .. b - a + 1 : c[x] = f[a + x - 1]
  BY <1>2, CutOut
<1> HIDE DEF c
<1>5. Len(c) = B /\ \A x \in 1 .. B : c[x] = f[k + x]
  BY <1>3, <1>4
<1>6. ASSUME c = q PROVE \A x \in 1 .. B : f[k + x] = q[x]
  BY <1>5, <1>6
<1>7. ASSUME \A x \in 1 .. B : f[k + x] = q[x] PROVE c = q
  BY <1>4, <1>5, <1>7, SameWord
<1> QED
  BY <1>6, <1>7 DEF a, b, c

\* The whole of a string, from its first place.
LEMMA FromFirst ==
  ASSUME NEW s, Word(s)
  PROVE  From(s, 1) = s
<1>1. Len(s) \in Nat /\ DOMAIN s = 1 .. Len(s)
  BY Spelled
<1>2. PICK S : s \in Seq(S) /\ \A j \in 1 .. Len(s) : s[j] \in S
  BY Spelled
<1>3. From(s, 1) = SubSeq(s, 1, Len(s))
  BY <1>1 DEF From, UpTo
<1>4. SubSeq(s, 1, Len(s)) = s
  BY <1>1, <1>2
<1> QED
  BY <1>3, <1>4

\* The last character alone.
LEMMA FromLast ==
  ASSUME NEW s, Word(s), Len(s) > 0
  PROVE  From(s, Len(s)) = <<s[Len(s)]>>
<1>1. Len(s) \in Nat /\ DOMAIN s = 1 .. Len(s)
  BY Spelled
<1>2. PICK S : s \in Seq(S) /\ \A j \in 1 .. Len(s) : s[j] \in S
  BY Spelled
<1>3. From(s, Len(s)) = SubSeq(s, Len(s), Len(s))
  BY <1>1 DEF From, UpTo
<1> DEFINE L == Len(s)
<1>4. L \in Nat /\ L > 0 /\ s[L] \in S /\ \A j \in L .. L : s[j] \in S
  BY <1>1, <1>2
<1> HIDE DEF L
<1>5. /\ SubSeq(s, L, L) \in Seq(S)
      /\ Len(SubSeq(s, L, L)) = IF L <= L THEN L - L + 1 ELSE 0
      /\ \A j \in 1 .. L - L + 1 : SubSeq(s, L, L)[j] = s[L + j - 1]
  BY <1>4, SubSeqProperties
<1>6. Len(SubSeq(s, L, L)) = 1 /\ SubSeq(s, L, L)[1] = s[L]
  <2>1. L - L + 1 = 1 /\ L + 1 - 1 = L /\ L <= L
    BY <1>4
  <2>2. Len(SubSeq(s, L, L)) = 1
    BY <1>5, <2>1
  <2>3. SubSeq(s, L, L)[1] = s[L + 1 - 1]
    BY <1>5, <2>1
  <2> QED
    BY <2>1, <2>2, <2>3
<1>7. SubSeq(s, L, L) = <<s[L]>>
  <2>1. ASSUME NEW q \in Seq(S), Len(q) = 1 PROVE q = <<q[1]>>
    BY <2>1
  <2> QED
    BY <1>5, <1>6, <2>1
<1> QED
  BY <1>3, <1>7 DEF L

\* The name begins with the first k characters of the pattern.
Prefix(p, s, k) == k <= Len(s) /\ \A j \in 1 .. k : s[j] = p[j]

\* The parts before the first star are the same when the name begins as the
\* pattern does.
LEMMA FrontSame ==
  ASSUME NEW p, Word(p), NEW s, Word(s), NEW j \in 2 .. Len(p), NextCut(p, 1) = {j}, p[1] # Star
  PROVE  SamePart(p, s, 1) <=> Prefix(p, s, j - 1)
<1> DEFINE z == j - 1
           k == IF z < Len(s) THEN z ELSE Len(s)
<1>1. Len(p) \in Nat /\ Len(s) \in Nat /\ z \in Nat /\ z >= 1 /\ z < Len(p)
  BY Spelled
<1>2. SamePart(p, s, 1) <=> 1 <= Len(s) /\ UpTo(p, 1, z) = UpTo(s, 1, z)
  BY DEF SamePart
<1> HIDE DEF z
<1>3. Len(UpTo(p, 1, z)) = z /\ \A x \in 1 .. z : UpTo(p, 1, z)[x] = p[x]
  BY <1>1, FrontCut
<1>4. Len(UpTo(s, 1, z)) = k /\ \A x \in 1 .. k : UpTo(s, 1, z)[x] = s[x]
  BY <1>1, FrontCut
<1>5. ASSUME UpTo(p, 1, z) = UpTo(s, 1, z) PROVE Prefix(p, s, z)
  <2>1. k = z
    BY <1>3, <1>4, <1>5
  <2> QED
    BY <1>1, <1>3, <1>4, <1>5, <2>1 DEF Prefix
<1>6. ASSUME Prefix(p, s, z) PROVE 1 <= Len(s) /\ UpTo(p, 1, z) = UpTo(s, 1, z)
  <2>1. z <= Len(s) /\ k = z /\ \A x \in 1 .. z : s[x] = p[x]
    BY <1>1, <1>6 DEF Prefix
  <2>2. UpTo(p, 1, z) = SubSeq(p, 1, z) /\ UpTo(s, 1, z) = SubSeq(s, 1, z)
    BY <1>1, <2>1 DEF UpTo
  <2>3. Word(SubSeq(p, 1, z)) /\ Word(SubSeq(s, 1, z))
    <3>1. 1 \in Nat /\ 1 <= 1 /\ 1 <= z + 1 /\ z <= Len(p)
      BY <1>1
    <3> QED
      BY <1>1, <2>1, <3>1, CutOut
  <2>4. Len(SubSeq(p, 1, z)) = z /\ Len(SubSeq(s, 1, z)) = z
    BY <1>3, <1>4, <2>1, <2>2
  <2>5. \A x \in 1 .. z : SubSeq(p, 1, z)[x] = SubSeq(s, 1, z)[x]
    BY <1>3, <1>4, <2>1, <2>2
  <2>6. SubSeq(p, 1, z) = SubSeq(s, 1, z)
    BY <2>3, <2>4, <2>5, SameWord
  <2>7. 1 <= Len(s)
    BY <1>1, <2>1
  <2>8. UpTo(p, 1, z) = UpTo(s, 1, z)
    BY <2>2, <2>6
  <2> QED
    BY <2>7, <2>8
<1> QED
  BY <1>2, <1>5, <1>6 DEF z

\* A pattern that ends in a star is for the names that begin as it does.
LEMMA MatchesStarred ==
  ASSUME NEW p, PlainPattern(p), NEW s, Name(s), Len(p) > 0, p[Len(p)] = Star
  PROVE  Matches(p, s) <=> Prefix(p, s, Len(p) - 1)
<1> DEFINE L == Len(p)
<1>1. /\ Word(p) /\ Word(s) /\ L \in Nat /\ Len(s) \in Nat /\ DOMAIN p = 1 .. L /\ DOMAIN s = 1 .. Len(s)
      /\ L > 0 /\ p[L] = Star /\ (\A j \in 1 .. L - 1 : p[j] # Star) /\ (\A j \in 1 .. Len(s) : s[j] # Star)
  BY Spelled DEF PlainPattern, Name
<1>2. Cuts(p) = {1, L}
  BY <1>1 DEF Cuts
<1>3. From(p, L) = <<Star>> /\ From(p, 1) = p /\ From(s, 1) = s
  BY <1>1, FromLast, FromFirst
<1>4. Ended(p, s, L)
  BY <1>3 DEF Ended
<1> HIDE DEF L
<1>5. CASE L = 1
  <2>1. Matches(p, s)
    BY <1>2, <1>4, <1>5 DEF Matches
  <2>2. Prefix(p, s, L - 1)
    BY <1>1, <1>5 DEF Prefix
  <2> QED
    BY <2>1, <2>2 DEF L
<1>6. CASE L > 1
  <2>1. ~ Ended(p, s, 1)
    <3>1. p # s
      BY <1>1
    <3>2. p # <<>> /\ p # <<Star>> /\ p[1] # Star
      BY <1>1, <1>6 DEF L
    <3> QED
      BY <1>3, <3>1, <3>2 DEF Ended
  <2>2. Matches(p, s) <=> SamePart(p, s, 1)
    BY <1>1, <1>2, <1>4, <1>6, <2>1 DEF Matches
  <2>3. NextCut(p, 1) = {L}
    BY <1>1, <1>2, <1>6 DEF NextCut
  <2>4. p[1] # Star /\ L \in 2 .. L
    BY <1>1, <1>6
  <2>5. SamePart(p, s, 1) <=> Prefix(p, s, L - 1)
    BY <1>1, <2>3, <2>4, FrontSame DEF L
  <2> QED
    BY <2>2, <2>5 DEF L
<1> QED
  BY <1>1, <1>5, <1>6

\* What is left of a string from a place on.
LEMMA FromCut ==
  ASSUME NEW s, Word(s), NEW j \in Nat, 1 <= j
  PROVE  /\ Word(From(s, j)) /\ Len(From(s, j)) = IF j <= Len(s) THEN Len(s) - j + 1 ELSE 0
         /\ \A x \in 1 .. Len(From(s, j)) : From(s, j)[x] = s[j + x - 1]
<1> DEFINE z == Len(s)
<1>1. z \in Nat /\ From(s, j) = SubSeq(s, j, z)
  BY Spelled DEF From, UpTo
<1>2. PICK S : s \in Seq(S) /\ \A x \in 1 .. z : s[x] \in S
  BY Spelled
<1> HIDE DEF z
<1>3. \A x \in j .. z : s[x] \in S
  BY <1>1, <1>2
<1>4. /\ SubSeq(s, j, z) \in Seq(S) /\ Len(SubSeq(s, j, z)) = IF j <= z THEN z - j + 1 ELSE 0
      /\ \A x \in 1 .. z - j + 1 : SubSeq(s, j, z)[x] = s[j + x - 1]
  BY <1>1, <1>3, SubSeqProperties
<1>5. Word(SubSeq(s, j, z))
  BY <1>4, WordOf
<1> QED
  BY <1>1, <1>4, <1>5 DEF z

\* What follows the star at j is in the name, behind as much as is before it.
Behind(p, s, j) ==
  \E k \in j - 1 .. Len(s) :
    k + (Len(p) - j) <= Len(s) /\ \A x \in 1 .. Len(p) - j : s[k + x] = p[j + x]

LEMMA TailFound ==
  ASSUME NEW p, Word(p), NEW s, Word(s), NEW j \in 1 .. Len(p) - 1, j <= Len(s)
  PROVE  Contains(From(s, j), From(p, j + 1)) <=> Behind(p, s, j)
<1> DEFINE L == Len(p)
           z == Len(s)
           B == L - j
           f == From(s, j)
           q == From(p, j + 1)
<1>1. L \in Nat /\ z \in Nat /\ j \in Nat /\ 1 <= j /\ j < L /\ B \in Nat /\ j + 1 \in Nat /\ 1 <= j + 1
  BY Spelled
<1>2. Word(f) /\ Len(f) = z - j + 1 /\ \A x \in 1 .. Len(f) : f[x] = s[j + x - 1]
  BY <1>1, FromCut
<1>3. Word(q) /\ Len(q) = B /\ \A x \in 1 .. B : q[x] = p[j + x]
  <2> DEFINE m == j + 1
  <2>1. m \in Nat /\ 1 <= m /\ m <= L
    BY <1>1
  <2>2. L - m + 1 = B /\ \A x \in 1 .. B : m + x - 1 = j + x
    BY <1>1
  <2>3. q = From(p, m)
    OBVIOUS
  <2> HIDE DEF m, B, q
  <2>4. Word(q) /\ Len(q) = L - m + 1 /\ \A x \in 1 .. Len(q) : q[x] = p[m + x - 1]
    BY <2>1, <2>3, FromCut
  <2> QED
    BY <2>2, <2>4
<1> HIDE DEF B, f, q
<1>4. ASSUME NEW k \in 0 .. Len(f) - Len(q)
      PROVE  SubSeq(f, k + 1, k + Len(q)) = q <=> \A x \in 1 .. B : s[j - 1 + k + x] = p[j + x]
  <2>1. k \in Nat /\ k + Len(q) <= Len(f)
    BY <1>1, <1>2, <1>3
  <2>2. SubSeq(f, k + 1, k + Len(q)) = q <=> \A x \in 1 .. Len(q) : f[k + x] = q[x]
    <3>1. Word(f) /\ Word(q)
      BY <1>2, <1>3
    <3> QED
      BY <2>1, <3>1, PartThere
  <2>3. \A x \in 1 .. B : f[k + x] = s[j - 1 + k + x]
    <3> TAKE x \in 1 .. B
    <3>1. k + x \in 1 .. Len(f) /\ j + (k + x) - 1 = j - 1 + k + x
      BY <1>1, <1>2, <1>3, <2>1
    <3> QED
      BY <1>2, <3>1
  <2> QED
    BY <1>3, <2>2, <2>3
<1>5. ASSUME Contains(f, q) PROVE Behind(p, s, j)
  <2>1. PICK k \in 0 .. Len(f) - Len(q) : SubSeq(f, k + 1, k + Len(q)) = q
    BY <1>5 DEF Contains
  <2>2. \A x \in 1 .. B : s[j - 1 + k + x] = p[j + x]
    BY <1>4, <2>1
  <2>3. j - 1 + k \in j - 1 .. z /\ j - 1 + k + B <= z
    BY <1>1, <1>2, <1>3
  <2> QED
    BY <2>2, <2>3 DEF Behind, B
<1>6. ASSUME Behind(p, s, j) PROVE Contains(f, q)
  <2>1. PICK m \in j - 1 .. z : m + B <= z /\ \A x \in 1 .. B : s[m + x] = p[j + x]
    BY <1>6 DEF Behind, B
  <2> DEFINE k == m - (j - 1)
  <2>2. k \in 0 .. Len(f) - Len(q) /\ j - 1 + k = m
    BY <1>1, <1>2, <1>3, <2>1
  <2> HIDE DEF k
  <2>3. SubSeq(f, k + 1, k + Len(q)) = q
    BY <1>4, <2>1, <2>2
  <2> QED
    BY <2>2, <2>3 DEF Contains
<1> QED
  BY <1>5, <1>6 DEF f, q

\* A pattern whose one star is inside it is for the names that begin as it does
\* and hold what follows the star behind that.
LEMMA MatchesInside ==
  ASSUME NEW p, Word(p), NEW j \in 1 .. Len(p) - 1, p[j] = Star, \A x \in 1 .. Len(p) : p[x] = Star => x = j,
         NEW s, Name(s)
  PROVE  Matches(p, s) <=> Prefix(p, s, j - 1) /\ Behind(p, s, j)
<1> DEFINE L == Len(p)
           z == Len(s)
<1>1. /\ Word(s) /\ L \in Nat /\ z \in Nat /\ DOMAIN p = 1 .. L /\ DOMAIN s = 1 .. z
      /\ j \in 1 .. L /\ j < L /\ j \in Nat /\ 1 <= j /\ \A x \in 1 .. z : s[x] # Star
  BY Spelled DEF Name
<1>2. Behind(p, s, j) => j <= z
  BY <1>1 DEF Behind
<1>3. Word(From(p, j)) /\ Len(From(p, j)) = L - j + 1 /\ From(p, j)[1] = Star
  <2>1. /\ Word(From(p, j)) /\ Len(From(p, j)) = L - j + 1
        /\ \A x \in 1 .. Len(From(p, j)) : From(p, j)[x] = p[j + x - 1]
    BY <1>1, FromCut
  <2>2. 1 \in 1 .. Len(From(p, j)) /\ j + 1 - 1 = j
    BY <1>1, <2>1
  <2> QED
    BY <2>1, <2>2
<1>4. Len(From(s, j)) = (IF j <= z THEN z - j + 1 ELSE 0) /\ (j <= z => From(s, j)[1] # Star)
  <2>1. /\ Len(From(s, j)) = IF j <= z THEN z - j + 1 ELSE 0
        /\ \A x \in 1 .. Len(From(s, j)) : From(s, j)[x] = s[j + x - 1]
    BY <1>1, FromCut
  <2>2. j <= z => 1 \in 1 .. Len(From(s, j)) /\ j + 1 - 1 = j /\ j \in 1 .. z
    BY <1>1, <2>1
  <2> QED
    BY <1>1, <2>1, <2>2
<1>5. From(p, j) # From(s, j) /\ From(p, j) # <<>> /\ From(p, j) # <<Star>>
  BY <1>1, <1>3, <1>4
<1>6. NextCut(p, j) = {}
  BY <1>1 DEF NextCut, Cuts
<1>7. Ended(p, s, j) <=> j <= z /\ Contains(From(s, j), From(p, j + 1))
  BY <1>1, <1>5, <1>6 DEF Ended
<1>8. Ended(p, s, j) <=> Behind(p, s, j)
  BY <1>1, <1>2, <1>7, TailFound
<1>9. CASE j = 1
  <2>1. Cuts(p) = {1}
    BY <1>1, <1>9 DEF Cuts
  <2>2. Prefix(p, s, j - 1)
    BY <1>1, <1>9 DEF Prefix
  <2> QED
    BY <1>8, <1>9, <2>1, <2>2 DEF Matches
<1>10. CASE j > 1
  <2>1. Cuts(p) = {1, j}
    BY <1>1, <1>10 DEF Cuts
  <2>2. NextCut(p, 1) = {j}
    BY <1>1, <1>10, <2>1 DEF NextCut
  <2>3. p[1] # Star /\ j \in 2 .. Len(p)
    BY <1>1, <1>10
  <2>4. SamePart(p, s, 1) <=> Prefix(p, s, j - 1)
    BY <1>1, <2>2, <2>3, FrontSame
  <2>5. ~ Ended(p, s, 1)
    <3>1. From(p, 1) = p /\ From(s, 1) = s
      BY <1>1, FromFirst
    <3>2. p # s /\ p # <<>> /\ p # <<Star>>
      BY <1>1, <2>3
    <3> QED
      BY <2>3, <3>1, <3>2 DEF Ended
  <2> QED
    BY <1>1, <1>8, <1>10, <2>1, <2>4, <2>5 DEF Matches
<1> QED
  BY <1>1, <1>9, <1>10

\* A pattern without a star is for the name it is.
LEMMA MatchesWhole ==
  ASSUME NEW p, PlainPattern(p), NEW s, Name(s), Len(p) = 0 \/ p[Len(p)] # Star
  PROVE  Matches(p, s) <=> p = s
<1>1. /\ Word(p) /\ Word(s) /\ Len(p) \in Nat /\ Len(s) \in Nat /\ DOMAIN p = 1 .. Len(p)
      /\ DOMAIN s = 1 .. Len(s) /\ \A j \in 1 .. Len(s) : s[j] # Star
  BY Spelled DEF PlainPattern, Name
<1>2. \A j \in 1 .. Len(p) : p[j] # Star
  BY <1>1 DEF PlainPattern
<1>3. Cuts(p) = {1}
  BY <1>1, <1>2 DEF Cuts
<1>4. From(p, 1) = p /\ From(s, 1) = s
  BY <1>1, FromFirst
<1>5. p # <<Star>> /\ s # <<Star>>
  BY <1>1, <1>2
<1>6. Ended(p, s, 1) <=> p = s
  <2>1. ~ (1 <= Len(p) /\ p[1] = Star)
    BY <1>1, <1>2
  <2> QED
    BY <1>4, <1>5, <2>1 DEF Ended
<1> QED
  BY <1>3, <1>6 DEF Matches

-----------------------------------------------------------------------------
(* What a star promises.                                                   *)

\* A place in the name for each character of the pattern.
Along(p, s, to) ==
  /\ to \in [0 .. Len(p) -> 0 .. Len(s)] /\ to[0] = 0 /\ to[Len(p)] = Len(s)
  /\ \A j \in 1 .. Len(p) :
       IF p[j] = Star THEN to[j - 1] <= to[j]
       ELSE to[j] = to[j - 1] + 1 /\ s[to[j]] = p[j]

\* Up to its first star a pattern stands for the name character by character.
LEMMA PlacesAlong ==
  ASSUME NEW p, Word(p), NEW s, Word(s), NEW k \in 0 .. Len(p), \A j \in 1 .. k : p[j] # Star,
         NEW to, Along(p, s, to)
  PROVE  \A j \in 0 .. k : to[j] = j /\ (j > 0 => s[j] = p[j])
<1> DEFINE T == {j \in 0 .. k : ~ (to[j] = j /\ (j > 0 => s[j] = p[j]))}
<1>0. Len(p) \in Nat /\ k \in Nat
  BY Spelled
<1>1. SUFFICES ASSUME T # {} PROVE FALSE
  OBVIOUS
<1>2. PICK m \in T : \A t \in T : m <= t
  <2>1. T \in SUBSET Nat
    BY <1>0
  <2> QED
    BY <1>1, <2>1, Minimum
<1>3. m \in 0 .. k /\ m # 0
  BY <1>2 DEF Along
<1>4. m - 1 \in 0 .. k /\ m - 1 \notin T
  BY <1>0, <1>2, <1>3
<1>5. to[m - 1] = m - 1 /\ m - 1 \in Nat
  BY <1>0, <1>3, <1>4
<1>6. m \in 1 .. Len(p) /\ p[m] # Star
  BY <1>0, <1>3
<1>7. to[m] = m - 1 + 1 /\ s[to[m]] = p[m]
  BY <1>5, <1>6 DEF Along
<1>8. to[m] = m /\ s[m] = p[m]
  BY <1>0, <1>3, <1>7
<1> QED
  BY <1>2, <1>8

\* Behind its last star a pattern stands for the name character by character.
InStep(p, s, j, to) ==
  \A x \in 0 .. Len(p) - j : to[j + x] = to[j] + x /\ (x > 0 => s[to[j] + x] = p[j + x])

LEMMA PlacesBehind ==
  ASSUME NEW p, Word(p), NEW s, Word(s), NEW j \in 1 .. Len(p), \A x \in j + 1 .. Len(p) : p[x] # Star,
         NEW to, Along(p, s, to)
  PROVE  InStep(p, s, j, to)
<1> DEFINE T == {x \in 0 .. Len(p) - j : ~ (to[j + x] = to[j] + x /\ (x > 0 => s[to[j] + x] = p[j + x]))}
<1>0. Len(p) \in Nat /\ Len(s) \in Nat /\ j \in Nat /\ j \in 0 .. Len(p) /\ to[j] \in Nat
  <2>1. Len(p) \in Nat /\ Len(s) \in Nat
    BY Spelled
  <2>2. j \in 0 .. Len(p)
    BY <2>1
  <2>3. to[j] \in 0 .. Len(s)
    BY <2>2 DEF Along
  <2> QED
    BY <2>1, <2>2, <2>3
<1>1. SUFFICES ASSUME T # {} PROVE FALSE
  BY DEF InStep
<1>2. PICK m \in T : \A t \in T : m <= t
  <2>1. T \in SUBSET Nat
    BY <1>0
  <2> QED
    BY <1>1, <2>1, Minimum
<1>3. m \in 0 .. Len(p) - j /\ m # 0
  BY <1>0, <1>2
<1>4. m - 1 \in 0 .. Len(p) - j /\ m - 1 \notin T
  BY <1>0, <1>2, <1>3
<1>5. to[j + (m - 1)] = to[j] + (m - 1)
  BY <1>4
<1>6. j + m \in 1 .. Len(p) /\ j + m \in j + 1 .. Len(p) /\ j + m - 1 = j + (m - 1)
  BY <1>0, <1>3
<1>7. to[j + m] = to[j + m - 1] + 1 /\ s[to[j + m]] = p[j + m]
  BY <1>6 DEF Along
<1>8. to[j + m] = to[j] + m
  BY <1>0, <1>3, <1>5, <1>6, <1>7
<1> QED
  BY <1>2, <1>7, <1>8

\* A pattern whose one star is inside it fits the beginning of those names.
LEMMA FitsInside ==
  ASSUME NEW p, Word(p), NEW j \in 1 .. Len(p) - 1, p[j] = Star, \A x \in 1 .. Len(p) : p[x] = Star => x = j,
         NEW s, Word(s)
  PROVE  (\E z \in 0 .. Len(s) : Glob(p, SubSeq(s, 1, z))) <=> Prefix(p, s, j - 1) /\ Behind(p, s, j)
<1> DEFINE L == Len(p)
<1>1. L \in Nat /\ Len(s) \in Nat /\ j \in Nat /\ 1 <= j /\ j < L /\ j \in 1 .. L
  BY Spelled
<1>2. ASSUME NEW z \in 0 .. Len(s)
      PROVE  Word(SubSeq(s, 1, z)) /\ Len(SubSeq(s, 1, z)) = z /\ \A x \in 1 .. z : SubSeq(s, 1, z)[x] = s[x]
  <2>1. z \in Nat /\ 1 \in Nat /\ 1 <= 1 /\ 1 <= z + 1 /\ z <= Len(s) /\ z - 1 + 1 = z
    BY <1>1
  <2>2. /\ Word(SubSeq(s, 1, z)) /\ Len(SubSeq(s, 1, z)) = z - 1 + 1
        /\ \A x \in 1 .. z - 1 + 1 : SubSeq(s, 1, z)[x] = s[1 + x - 1]
    BY <2>1, CutOut
  <2>3. \A x \in 1 .. z : 1 + x - 1 = x
    OBVIOUS
  <2> QED
    BY <2>1, <2>2, <2>3
<1>3. ASSUME NEW z \in 0 .. Len(s), Glob(p, SubSeq(s, 1, z))
      PROVE  Prefix(p, s, j - 1) /\ Behind(p, s, j)
  <2> DEFINE t == SubSeq(s, 1, z)
  <2>1. Word(t) /\ Len(t) = z /\ (\A x \in 1 .. z : t[x] = s[x]) /\ z \in Nat /\ z <= Len(s)
    BY <1>1, <1>2
  <2>2. PICK to : Along(p, t, to)
    BY <1>3 DEF Glob, Along
  <2> HIDE DEF t
  <2>3. \A x \in 0 .. j - 1 : to[x] = x /\ (x > 0 => t[x] = p[x])
    <3> DEFINE m == j - 1
    <3>1. m \in 0 .. Len(p) /\ \A x \in 1 .. m : p[x] # Star
      BY <1>1
    <3> HIDE DEF m
    <3>2. \A x \in 0 .. m : to[x] = x /\ (x > 0 => t[x] = p[x])
      BY <2>1, <2>2, <3>1, PlacesAlong
    <3> QED
      BY <3>2 DEF m
  <2>4. \A x \in 0 .. L - j : to[j + x] = to[j] + x /\ (x > 0 => t[to[j] + x] = p[j + x])
    <3>1. \A x \in j + 1 .. Len(p) : p[x] # Star
      BY <1>1
    <3>2. Word(t) /\ j \in 1 .. Len(p)
      BY <1>1, <2>1
    <3>3. InStep(p, t, j, to)
      BY <2>2, <3>1, <3>2, PlacesBehind
    <3> QED
      BY <3>3 DEF InStep
  <2> DEFINE k == to[j]
  <2>5. k \in Nat /\ j - 1 <= k
    <3>1. j - 1 \in 0 .. j - 1 /\ j \in 0 .. L
      BY <1>1
    <3>2. to[j - 1] = j - 1 /\ to[j - 1] <= to[j] /\ to[j] \in 0 .. z
      BY <1>1, <2>1, <2>2, <2>3, <3>1 DEF Along
    <3> QED
      BY <2>1, <3>2
  <2>6. k + (L - j) = z
    <3>1. L - j \in 0 .. L - j /\ j + (L - j) = L
      BY <1>1
    <3>2. to[L] = k + (L - j)
      BY <2>4, <3>1
    <3>3. to[L] = z
      BY <2>1, <2>2 DEF Along
    <3> QED
      BY <3>2, <3>3
  <2> HIDE DEF k
  <2>7. \A x \in 1 .. L - j : s[k + x] = p[j + x]
    <3> TAKE x \in 1 .. L - j
    <3>1. x \in 0 .. L - j /\ x > 0 /\ k + x \in 1 .. z
      BY <1>1, <2>5, <2>6
    <3>2. t[k + x] = p[j + x]
      BY <2>4, <3>1 DEF k
    <3> QED
      BY <2>1, <3>1, <3>2
  <2>8. Behind(p, s, j)
    <3>1. k \in j - 1 .. Len(s) /\ k + (L - j) <= Len(s)
      BY <1>1, <2>1, <2>5, <2>6
    <3> QED
      BY <2>7, <3>1 DEF Behind
  <2>9. Prefix(p, s, j - 1)
    <3>1. j - 1 <= z
      BY <1>1, <2>1, <2>5, <2>6
    <3>2. \A x \in 1 .. j - 1 : s[x] = p[x]
      BY <1>1, <2>1, <2>3, <3>1
    <3> QED
      BY <1>1, <2>1, <3>1, <3>2 DEF Prefix
  <2> QED
    BY <2>8, <2>9
<1>4. ASSUME Prefix(p, s, j - 1), Behind(p, s, j)
      PROVE  \E z \in 0 .. Len(s) : Glob(p, SubSeq(s, 1, z))
  <2>1. PICK k \in j - 1 .. Len(s) : k + (L - j) <= Len(s) /\ \A x \in 1 .. L - j : s[k + x] = p[j + x]
    BY <1>4 DEF Behind
  <2> DEFINE z == k + (L - j)
             t == SubSeq(s, 1, z)
             to == [x \in 0 .. L |-> IF x < j THEN x ELSE k + (x - j)]
  <2>2. k \in Nat /\ z \in 0 .. Len(s) /\ z \in Nat /\ j - 1 <= k /\ k <= z
    BY <1>1, <2>1
  <2>3. Len(t) = z /\ \A x \in 1 .. z : t[x] = s[x]
    <3> HIDE DEF z
    <3> QED
      BY <1>2, <2>2
  <2>4. to \in [0 .. L -> 0 .. z] /\ to[0] = 0 /\ to[L] = z
    BY <1>1, <2>2
  <2>5. ASSUME NEW x \in 1 .. L
        PROVE  IF p[x] = Star THEN to[x - 1] <= to[x] ELSE to[x] = to[x - 1] + 1 /\ t[to[x]] = p[x]
    <3>1. CASE x < j
      <4>1. to[x] = x /\ to[x - 1] = x - 1 /\ x \in 1 .. j - 1 /\ x \in 1 .. z /\ p[x] # Star
        BY <1>1, <2>2, <3>1
      <4>2. s[x] = p[x]
        BY <1>4, <4>1 DEF Prefix
      <4> HIDE DEF z, t, to
      <4>3. t[to[x]] = s[x]
        BY <2>3, <4>1
      <4>4. to[x] = to[x - 1] + 1
        BY <4>1
      <4> QED
        BY <4>1, <4>2, <4>3, <4>4
    <3>2. CASE x = j
      <4>1. to[x] = k /\ to[x - 1] = j - 1
        BY <1>1, <2>2, <3>2
      <4> QED
        BY <2>2, <3>2, <4>1
    <3>3. CASE x > j
      <4>1. x - j \in 1 .. L - j /\ j + (x - j) = x
        BY <1>1, <3>3
      <4>2. p[x] # Star
        BY <1>1, <3>3
      <4>3. to[x] = k + (x - j)
        BY <1>1, <3>3
      <4>4. to[x - 1] = k + (x - 1 - j)
        <5>1. x - 1 \in 0 .. L /\ ~ (x - 1 < j)
          BY <1>1, <3>3
        <5> QED
          BY <5>1
      <4>5. k + (x - j) = k + (x - 1 - j) + 1
        BY <1>1, <2>2
      <4>6. k + (x - j) \in 1 .. z
        BY <1>1, <2>2, <4>1
      <4>7. s[k + (x - j)] = p[x]
        BY <2>1, <4>1
      <4> HIDE DEF z, t, to
      <4>8. t[to[x]] = p[x]
        BY <2>3, <4>3, <4>6, <4>7
      <4> QED
        BY <4>2, <4>3, <4>4, <4>5, <4>8
    <3>4. x < j \/ x = j \/ x > j
      BY <1>1
    <3> HIDE DEF z, t, to
    <3> QED
      BY <3>1, <3>2, <3>3, <3>4
  <2> HIDE DEF z, t, to
  <2>6. Glob(p, t)
    BY <2>3, <2>4, <2>5 DEF Glob
  <2> QED
    BY <2>2, <2>6 DEF t
<1> QED
  BY <1>3, <1>4

\* matches() keeps what its comment promises of a star, for every pattern that
\* ends in one or has none, and every name.
LEMMA MatchesAsPromised ==
  ASSUME NEW p, PlainPattern(p), NEW s, Name(s)
  PROVE  Matches(p, s) <=> Glob(p, s)
<1> DEFINE L == Len(p)
<1>1. /\ Word(p) /\ Word(s) /\ L \in Nat /\ Len(s) \in Nat /\ \A j \in 1 .. L - 1 : p[j] # Star
  BY Spelled DEF PlainPattern, Name
<1>2. Glob(p, s) <=> \E to : Along(p, s, to)
  BY DEF Glob, Along
<1>3. ASSUME NEW to, Along(p, s, to), NEW k \in 0 .. L, \A j \in 1 .. k : p[j] # Star
      PROVE  \A j \in 0 .. k : to[j] = j /\ (j > 0 => s[j] = p[j])
  BY <1>1, <1>3, PlacesAlong
<1>4. CASE L > 0 /\ p[L] = Star
  <2>1. Matches(p, s) <=> Prefix(p, s, L - 1)
    BY <1>4, MatchesStarred
  <2>2. ASSUME NEW to, Along(p, s, to) PROVE Prefix(p, s, L - 1)
    <3>1. L - 1 \in 0 .. L
      BY <1>1, <1>4
    <3>2. \A j \in 0 .. L - 1 : to[j] = j /\ (j > 0 => s[j] = p[j])
      BY <1>1, <1>3, <2>2, <3>1
    <3>3. to[L - 1] = L - 1 /\ to[L - 1] \in 0 .. Len(s)
      BY <1>1, <1>4, <2>2, <3>1, <3>2 DEF Along
    <3> QED
      BY <1>1, <3>2, <3>3 DEF Prefix
  <2>3. ASSUME Prefix(p, s, L - 1) PROVE \E to : Along(p, s, to)
    <3> DEFINE to == [j \in 0 .. L |-> IF j < L THEN j ELSE Len(s)]
    <3>1. L - 1 <= Len(s) /\ \A j \in 1 .. L - 1 : s[j] = p[j]
      BY <2>3 DEF Prefix
    <3>2. to \in [0 .. L -> 0 .. Len(s)]
      BY <1>1, <1>4, <3>1
    <3>3. to[0] = 0 /\ to[L] = Len(s)
      BY <1>1, <1>4
    <3>4. ASSUME NEW j \in 1 .. L
          PROVE  IF p[j] = Star THEN to[j - 1] <= to[j] ELSE to[j] = to[j - 1] + 1 /\ s[to[j]] = p[j]
      <4>1. CASE j = L
        <5>1. to[j - 1] = L - 1 /\ to[j] = Len(s)
          BY <1>1, <1>4, <4>1
        <5> QED
          BY <1>4, <3>1, <4>1, <5>1
      <4>2. CASE j < L
        <5>1. to[j - 1] = j - 1 /\ to[j] = j /\ j \in 1 .. L - 1
          BY <1>1, <4>2
        <5> QED
          BY <1>1, <3>1, <5>1
      <4> QED
        BY <1>1, <4>1, <4>2
    <3>5. Along(p, s, to)
      BY <3>2, <3>3, <3>4 DEF Along
    <3> QED
      BY <3>5
  <2> QED
    BY <1>2, <2>1, <2>2, <2>3
<1>5. CASE L = 0 \/ p[L] # Star
  <2>1. Matches(p, s) <=> p = s
    BY <1>5, MatchesWhole
  <2>2. ASSUME NEW to, Along(p, s, to) PROVE p = s
    <3>1. \A j \in 1 .. L : p[j] # Star
      BY <1>1, <1>5
    <3>2. \A j \in 0 .. L : to[j] = j /\ (j > 0 => s[j] = p[j])
      <4>1. L \in 0 .. L
        BY <1>1
      <4> QED
        BY <1>3, <2>2, <3>1, <4>1
    <3>3. Len(s) = L /\ \A j \in 1 .. L : p[j] = s[j]
      BY <1>1, <2>2, <3>2 DEF Along
    <3> QED
      BY <1>1, <3>3, SameWord
  <2>3. ASSUME p = s PROVE \E to : Along(p, s, to)
    <3> DEFINE to == [j \in 0 .. L |-> j]
    <3>1. to \in [0 .. L -> 0 .. Len(s)] /\ to[0] = 0 /\ to[L] = Len(s)
      BY <1>1, <2>3
    <3>2. ASSUME NEW j \in 1 .. L
          PROVE  IF p[j] = Star THEN to[j - 1] <= to[j] ELSE to[j] = to[j - 1] + 1 /\ s[to[j]] = p[j]
      <4>1. to[j - 1] = j - 1 /\ to[j] = j
        BY <1>1
      <4> QED
        BY <1>1, <2>3, <4>1
    <3>3. Along(p, s, to)
      BY <3>1, <3>2 DEF Along
    <3> QED
      BY <3>3
  <2> QED
    BY <1>2, <2>1, <2>2, <2>3
<1> QED
  BY <1>1, <1>4, <1>5

\* matches() takes the names that fit, for every pattern with one star or none.
LEMMA MatchesFits ==
  ASSUME NEW p, OneStar(p), NEW s, Name(s)
  PROVE  Matches(p, s) <=> Fits(p, s)
<1>1. CASE PlainPattern(p)
  BY <1>1, MatchesAsPromised DEF Fits
<1>2. CASE ~ PlainPattern(p)
  <2>1. Word(p) /\ Word(s)
    BY DEF OneStar, Name
  <2>2. PICK j \in 1 .. Len(p) - 1 : p[j] = Star
    BY <1>2, <2>1 DEF PlainPattern
  <2>3. \A x \in 1 .. Len(p) : p[x] = Star => x = j
    BY <2>1, <2>2, Spelled DEF OneStar
  <2>4. Matches(p, s) <=> Prefix(p, s, j - 1) /\ Behind(p, s, j)
    BY <2>1, <2>2, <2>3, MatchesInside
  <2>5. (\E z \in 0 .. Len(s) : Glob(p, SubSeq(s, 1, z))) <=> Prefix(p, s, j - 1) /\ Behind(p, s, j)
    BY <2>1, <2>2, <2>3, FitsInside
  <2> QED
    BY <1>2, <2>4, <2>5 DEF Fits
<1> QED
  BY <1>1, <1>2

-----------------------------------------------------------------------------
(* The line a collection works with.                                       *)

\* The first of the lines that match.
Chosen(c, t) ==
  LET fitting == {j \in DOMAIN c.file : \A m \in DOMAIN c.device.names : Matches(c.file[j].names[m], c.device.names[m])}
  IN \E j \in fitting : t = c.file[j].text /\ \A m \in fitting : j <= m
CInv == call \in Calls /\ (call.job = "scsi" /\ text # <<>> => Chosen(call, text))

\* No step but the one that chooses it changes the line.
LEMMA CInvNext == CInv /\ [Next]_vars => CInv'
<1> SUFFICES ASSUME CInv, [Next]_vars PROVE CInv'
  OBVIOUS
<1> USE DEF inquiry, template, Rest
<1>1. call' = call
  BY DEF Next, vars, Open, Inquire, Ask, AskAgain, List, Base, NextPage, NoMorePages, BadPage, InterpretPage,
         ReadField, ReadLastCut, PageRead, ReadLog, NoLog
<1>2. CASE Base
  <2>1. CASE UNCHANGED text
    BY <1>1, <2>1 DEF CInv
  <2>2. CASE Fitting # {} /\ text' = call.file[FindTemplate].text
    <3>1. Fitting \in SUBSET Nat
      BY CallsAssumption DEF Fitting, CInv
    <3>2. \E j \in Fitting : \A m \in Fitting : j <= m
      BY <2>2, <3>1, Minimum
    <3>3. FindTemplate \in Fitting /\ \A m \in Fitting : FindTemplate <= m
      BY <3>2 DEF FindTemplate
    <3>4. Chosen(call, text')
      BY <2>2, <3>3 DEF Chosen, Fitting
    <3> QED
      BY <1>1, <3>4 DEF CInv
  <2> QED
    BY <1>2, <2>1, <2>2 DEF Base
<1>3. CASE [Next]_vars /\ ~ Base
  <2>1. UNCHANGED text
    BY <1>3 DEF Next, vars, Open, Inquire, Ask, AskAgain, List, NextPage, NoMorePages, BadPage, InterpretPage,
                ReadField, ReadLastCut, PageRead, ReadLog, NoLog
  <2> QED
    BY <1>1, <2>1 DEF CInv
<1> QED
  BY <1>2, <1>3

\* The patterns that match are those the names fit.
LEMMA ChosenFits ==
  ASSUME StarredCalls
  PROVE  CInv => FirstLineThatFits
<1> SUFFICES ASSUME CInv, call.job = "scsi", text # <<>>
             PROVE  LET fit == {j \in DOMAIN call.file : \A m \in DOMAIN call.device.names :
                                  Fits(call.file[j].names[m], call.device.names[m])}
                    IN \E j \in fit : text = call.file[j].text /\ \A m \in fit : j <= m
  BY DEF FirstLineThatFits
<1>1. \A j \in DOMAIN call.file, m \in DOMAIN call.device.names :
        Matches(call.file[j].names[m], call.device.names[m]) <=> Fits(call.file[j].names[m], call.device.names[m])
  BY MatchesFits DEF StarredCalls, CInv
<1> QED
  BY <1>1 DEF CInv, Chosen

\* Whatever file is read and whatever device is asked, when patterns have one
\* star at most: the template a collection works with is the first line whose
\* patterns the device's names fit, a star standing for zero or more of anything,
\* and a name going on as it likes behind a pattern with a star inside.
THEOREM FirstLineIsTaken ==
  ASSUME StarredCalls
  PROVE  Spec => []FirstLineThatFits
<1>1. Init => CInv
  BY DEF Init, CInv
<1> QED
  BY <1>1, CInvNext, ChosenFits, PTL DEF Spec
=============================================================================
