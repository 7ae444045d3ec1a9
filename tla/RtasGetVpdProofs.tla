-------------------------- MODULE RtasGetVpdProofs --------------------------
(***************************************************************************)
(* Machine-checked proofs about RtasGetVpd, for every set of versions of   *)
(* every length, every threshold and every kind of failing answer.         *)
(***************************************************************************)
EXTENDS RtasGetVpd, TLAPS

\* The pages in the list are the first ones of the version the firmware is
\* giving out, that version was there while the retrieval lasted, and the
\* last buffer of the list is the one to fill.
LoopInv ==
  /\ pc # "idle" => result = "none" /\ fw \in since
  /\ pc = "begin" => seq = 1
  /\ pc = "call" =>
       /\ Len(list) = seq
       /\ \A n \in 1 .. seq - 1 : list[n] = Page(session, n)
       /\ seq > 1 => session \in since /\ seq <= PageCount[session]
  /\ OneVersionReturned
  /\ BuffersFreed

\* A page of a version is a page; so is an empty buffer.
LEMMA PageTypes ==
  /\ Empty \in AnyPage
  /\ \A v \in Versions, n \in Nat : Page(v, n) \in AnyPage
BY DEF AnyPage, Page, Empty

\* What filling the last buffer gives: a list as long, in which all pages up
\* to the one asked for are those of the version served.
LEMMA FilledPages ==
  ASSUME TypeOK, LoopInv, pc = "call", Serve
  PROVE  /\ Served \in Versions /\ Served \in since
         /\ Filled \in Seq(AnyPage) /\ Len(Filled) = seq
         /\ \A n \in 1 .. seq : Filled[n] = Page(Served, n)
<1>1. Served \in Versions /\ Served \in since
  BY DEF TypeOK, LoopInv, Served
<1>2. Len(list) = seq /\ seq \in Nat \ {0} /\ list \in Seq(AnyPage)
  BY DEF TypeOK, LoopInv
<1>3. Page(Served, seq) \in AnyPage
  BY <1>1, <1>2, PageTypes
<1>4. Filled \in Seq(AnyPage) /\ Len(Filled) = seq
  BY <1>2, <1>3 DEF Filled
<1>5. ASSUME NEW n \in 1 .. seq PROVE Filled[n] = Page(Served, n)
  <2>1. CASE n = seq
    BY <1>2, <2>1 DEF Filled
  <2>2. CASE n # seq
    <3>1. n \in 1 .. seq - 1 /\ seq > 1
      BY <1>2, <2>2
    <3>2. list[n] = Page(Served, n)
      BY <3>1 DEF LoopInv, Served
    <3>3. QED
      BY <1>2, <2>2, <3>2 DEF Filled
  <2>3. QED
    BY <2>1, <2>2
<1>6. QED
  BY <1>1, <1>4, <1>5

\* A SUCCESS returns exactly the pages of the version served.
LEMMA SuccessPages ==
  ASSUME TypeOK, LoopInv, Success
  PROVE  /\ Served \in since
         /\ result' # "thrown" => data' = Pages(Served)
<1>1. /\ pc = "call" /\ Serve /\ seq = PageCount[Served]
      /\ result' # "thrown" => data' = Filled
  BY DEF Success, Throws
<1>2. Len(Filled) = PageCount[Served] /\ Filled \in Seq(AnyPage)
  BY <1>1, FilledPages
<1>3. \A n \in 1 .. PageCount[Served] : Filled[n] = Page(Served, n)
  BY <1>1, FilledPages
<1>4. Filled = [n \in 1 .. PageCount[Served] |-> Page(Served, n)]
  BY <1>2, <1>3
<1>5. QED
  BY <1>1, <1>4, FilledPages DEF Pages

\* A step is one action.
LEMMA NextCases ==
  ASSUME Next
  PROVE  \/ Begin \/ Change \/ Allocate \/ Continue \/ Success
         \/ (VpdChanged /\ Restart) \/ (VpdChanged /\ GiveUp)
         \/ \E kind \in Faults : RtasError(kind)
BY Zenon DEF Next, Call, VpdChanged

\* A return with an error frees the list and returns nothing.
LEMMA FailStep ==
  ASSUME TypeOK, LoopInv, pc = "call",
         NEW how \in {"changed"} \cup FaultKinds, Fail(how),
         UNCHANGED <<fw, session>>, stale' \in BOOLEAN
  PROVE  TypeOK' /\ LoopInv'
<1> USE DEF TypeOK, LoopInv, OneVersionReturned, BuffersFreed, Fail
<1>1. heap' = 0 /\ copies' = 0 /\ list' = <<>> /\ pc' = "idle" /\ result' = how
  OBVIOUS
<1>2. list' \in Seq(AnyPage)
  BY <1>1
<1>3. how # "ok" /\ how # "thrown"
  BY DEF FaultKinds
<1>4. TypeOK'
  BY <1>1, <1>2
<1>5. QED
  BY <1>1, <1>3, <1>4

\* A `new` that throws keeps what is left of the list, and returns nothing.
LEMMA ThrowStep ==
  ASSUME TypeOK, LoopInv, Throws,
         list' \in Seq(AnyPage), heap' \in Nat, heap' = Len(list'), copies' \in {0, 1},
         fw' \in Versions, session' \in Versions, stale' \in BOOLEAN,
         seq' \in Nat \ {0}, changed' \in 0 .. VPD_CHANGED_THRESHOLD,
         UNCHANGED <<data, since>>
  PROVE  TypeOK' /\ LoopInv'
<1> USE DEF TypeOK, LoopInv, OneVersionReturned, BuffersFreed, Throws
<1>1. TypeOK'
  OBVIOUS
<1>2. QED
  BY <1>1

-----------------------------------------------------------------------------
\* TypeOK and LoopInv together are inductive.
LEMMA LoopStep == TypeOK /\ LoopInv /\ [Next]_vars => TypeOK' /\ LoopInv'
<1> SUFFICES ASSUME TypeOK, LoopInv, [Next]_vars PROVE TypeOK' /\ LoopInv'
  OBVIOUS
<1> USE RtasAssumption DEF TypeOK, LoopInv, OneVersionReturned, BuffersFreed, firmware, loop, returned
<1>1. CASE Begin
  BY <1>1 DEF Begin
<1>2. CASE Change
  BY <1>2 DEF Change
<1>3. CASE Continue
  <2>1. /\ Served \in Versions /\ Served \in since
        /\ Filled \in Seq(AnyPage) /\ Len(Filled) = seq
        /\ \A n \in 1 .. seq : Filled[n] = Page(Served, n)
    BY <1>3, FilledPages DEF Continue
  <2>2. /\ seq' = seq + 1 /\ session' = Served
        /\ pc = "call" /\ changed' = 0 /\ stale' = FALSE
        /\ UNCHANGED <<copies, fw, data, since>>
    BY <1>3 DEF Continue, Serve
  <2>3. changed' \in 0 .. VPD_CHANGED_THRESHOLD /\ seq' \in Nat \ {0}
    BY <2>2
  <2>4. CASE list' = Append(Filled, Empty) /\ heap' = heap + 1 /\ UNCHANGED <<pc, result>>
    <3>1. list' \in Seq(AnyPage) /\ Len(list') = seq'
      BY <2>1, <2>2, <2>4, PageTypes
    <3>2. \A n \in 1 .. seq' - 1 : list'[n] = Page(session', n)
      BY <2>1, <2>2, <2>4
    <3>3. seq' <= PageCount[session']
      BY <1>3, <2>1, <2>2 DEF Continue
    <3>4. heap' = Len(list') /\ heap' \in Nat
      BY <2>2, <2>4, <3>1
    <3>5. TypeOK'
      BY <2>1, <2>2, <2>3, <2>4, <3>1, <3>4
    <3>6. QED
      BY <2>1, <2>2, <2>4, <3>1, <3>2, <3>3, <3>4, <3>5
  <2>5. CASE Throws /\ list' = Filled /\ UNCHANGED heap
    BY <2>1, <2>2, <2>3, <2>5, ThrowStep
  <2>6. QED
    BY <1>3, <2>4, <2>5 DEF Continue
<1>4. CASE Success
  <2>1. /\ Served \in Versions /\ Served \in since
        /\ Filled \in Seq(AnyPage) /\ Len(Filled) = seq
    BY <1>4, FilledPages DEF Success
  <2>2. /\ fw' = fw /\ session' \in Versions /\ stale' = FALSE /\ copies' = 0
        /\ pc = "call" /\ UNCHANGED <<seq, changed, since>>
    BY <1>4 DEF Success, Serve, Served
  <2>3. CASE Throws /\ list' = Filled /\ UNCHANGED <<heap, data>>
    BY <2>1, <2>2, <2>3, ThrowStep
  <2>4. CASE data' = Filled /\ result' = "ok" /\ pc' = "idle" /\ list' = <<>> /\ heap' = heap - Len(list)
    <3>1. heap' = 0 /\ list' \in Seq(AnyPage)
      BY <2>2, <2>4
    <3>2. data' = Pages(Served) /\ Served \in since'
      BY <1>4, <2>1, <2>2, <2>4, SuccessPages
    <3>3. data' \in Seq(AnyPage) /\ heap' \in Nat /\ since' \in SUBSET Versions
      BY <2>1, <2>2, <2>4, <3>1
    <3>4. TypeOK'
      BY <2>2, <2>4, <3>1, <3>3
    <3>5. QED
      BY <2>2, <2>4, <3>1, <3>2, <3>4
  <2>5. QED
    BY <1>4, <2>3, <2>4 DEF Success
<1>5. CASE Allocate
  <2>1. /\ pc = "begin" /\ seq \in Nat \ {0}
        /\ UNCHANGED <<firmware, seq, changed, data, since>>
    BY <1>5 DEF Allocate
  <2>2. CASE pc' = "call" /\ UNCHANGED result /\ list' = <<Empty>> /\ heap' = heap + 1 /\ copies' = copies + 1
    <3>1. list' \in Seq(AnyPage) /\ Len(list') = 1 /\ heap' = 1 /\ copies' = 1
      BY <2>1, <2>2, PageTypes
    <3>2. seq' = 1
      BY <2>1
    <3>3. TypeOK'
      BY <2>1, <2>2, <3>1
    <3>4. QED
      BY <2>1, <2>2, <3>1, <3>2, <3>3
  <2>3. CASE pc' = "idle" /\ result' = "memory" /\ UNCHANGED <<list, heap, copies>>
    BY <2>1, <2>3 DEF FaultKinds
  <2>4. CASE Throws /\ UNCHANGED <<list, heap, copies>>
    BY <2>1, <2>4 DEF Throws
  <2>5. QED
    BY <1>5, <2>2, <2>3, <2>4 DEF Allocate
<1>6. CASE VpdChanged /\ Restart
  <2>1. /\ changed' \in 0 .. VPD_CHANGED_THRESHOLD
        /\ pc = "call" /\ stale' = FALSE /\ seq' = 1
        /\ UNCHANGED <<copies, fw, session, data, since>>
    BY <1>6 DEF VpdChanged, Restart
  <2>2. <<Empty>> \in Seq(AnyPage) /\ Len(<<Empty>>) = 1
    BY PageTypes
  <2>3. CASE list' = <<Empty>> /\ heap' = heap - Len(list) + 1 /\ UNCHANGED <<pc, result>>
    <3>1. heap' = 1 /\ list' \in Seq(AnyPage) /\ Len(list') = 1
      BY <2>1, <2>2, <2>3
    <3>2. pc' = "call" /\ result' = "none" /\ heap' \in Nat /\ seq' \in Nat \ {0}
      BY <2>1, <2>3, <3>1
    <3>3. TypeOK'
      BY <2>1, <3>1, <3>2
    <3>4. QED
      BY <2>1, <3>1, <3>2, <3>3
  <2>4. CASE Throws /\ list' = <<>> /\ heap' = heap - Len(list)
    <3>1. heap' = Len(list') /\ list' \in Seq(AnyPage) /\ heap' \in Nat
      BY <2>1, <2>4
    <3>2. /\ copies' \in {0, 1} /\ fw' \in Versions /\ session' \in Versions
          /\ seq' \in Nat \ {0}
      BY <2>1
    <3>3. stale' \in BOOLEAN
      <4>1. stale' = FALSE
        BY <2>1
      <4>2. QED
        BY Zenon, <4>1
    <3>4. Throws /\ changed' \in 0 .. VPD_CHANGED_THRESHOLD /\ UNCHANGED <<data, since>>
      BY <2>1, <2>4
    <3>5. QED
      BY <3>1, <3>2, <3>3, <3>4, ThrowStep
  <2>5. QED
    BY <1>6, <2>3, <2>4 DEF VpdChanged, Restart
<1>7. CASE VpdChanged /\ GiveUp
  BY <1>7, FailStep DEF VpdChanged, GiveUp
<1>8. ASSUME NEW kind \in Faults, RtasError(kind) PROVE TypeOK' /\ LoopInv'
  BY <1>8, FailStep DEF RtasError
<1>9. CASE UNCHANGED vars
  BY <1>9 DEF vars
<1>10. QED
  BY NextCases, <1>1, <1>2, <1>3, <1>4, <1>5, <1>6, <1>7, <1>8, <1>9

\* The two invariants hold initially.
LEMMA LoopInit == Init => TypeOK /\ LoopInv
<1> SUFFICES ASSUME Init PROVE TypeOK /\ LoopInv
  OBVIOUS
<1>1. 0 \in 0 .. VPD_CHANGED_THRESHOLD
  BY RtasAssumption
<1>2. <<>> \in Seq(AnyPage)
  OBVIOUS
<1>3. /\ fw \in Versions /\ stale = FALSE /\ session = fw
      /\ pc = "idle" /\ seq = 1 /\ list = <<>> /\ heap = 0 /\ copies = 0 /\ changed = 0
      /\ result = "none" /\ data = <<>> /\ since = {}
  BY DEF Init
<1>4. TypeOK
  <2>1. list \in Seq(AnyPage) /\ data \in Seq(AnyPage)
    BY <1>2, <1>3
  <2>2. seq \in Nat \ {0} /\ heap \in Nat /\ copies \in {0, 1} /\ changed \in 0 .. VPD_CHANGED_THRESHOLD
    BY <1>1, <1>3
  <2>3. QED
    BY <1>3, <2>1, <2>2 DEF TypeOK
<1>5. LoopInv
  BY <1>3 DEF LoopInv, OneVersionReturned, BuffersFreed
<1>6. QED
  BY <1>4, <1>5

\* Type correctness of every behaviour.
THEOREM RtasTypeCorrect == Spec => []TypeOK
BY LoopInit, LoopStep, PTL DEF Spec

\* A retrieval returns every page of one version and of no other.
THEOREM ReturnsOneVersion == Spec => []OneVersionReturned
<1>1. LoopInv => OneVersionReturned
  BY DEF LoopInv
<1>2. QED
  BY <1>1, LoopInit, LoopStep, PTL DEF Spec

\* Every return frees the buffers of the list and the location code, each
\* once; a `new` that throws leaves what the list still holds.
THEOREM FreesItsBuffers == Spec => []BuffersFreed
<1>1. LoopInv => BuffersFreed
  BY DEF LoopInv
<1>2. QED
  BY <1>1, LoopInit, LoopStep, PTL DEF Spec

-----------------------------------------------------------------------------
\* Inside the loop nothing has been returned yet, and what failed returns
\* nothing.
NoDataYet == result # "ok" => data = <<>>
NoDataInLoop == NoDataYet /\ (pc # "idle" => data = <<>>)

\* NoDataInLoop is inductive.
LEMMA NoDataStep == NoDataInLoop /\ [Next]_vars => NoDataInLoop'
<1> SUFFICES ASSUME NoDataInLoop, [Next]_vars PROVE NoDataInLoop'
  OBVIOUS
<1> USE DEF NoDataInLoop, NoDataYet, firmware, loop, returned
<1>1. CASE Begin
  BY <1>1 DEF Begin
<1>2. CASE Change
  BY <1>2 DEF Change
<1>3. CASE Continue
  BY <1>3 DEF Continue, Throws
<1>4. CASE Success
  BY <1>4 DEF Success, Throws
<1>5. CASE Allocate
  BY <1>5 DEF Allocate, Throws
<1>6. CASE VpdChanged /\ Restart
  BY <1>6 DEF VpdChanged, Restart, Throws
<1>7. CASE VpdChanged /\ GiveUp
  BY <1>7 DEF VpdChanged, GiveUp, Fail
<1>8. ASSUME NEW kind \in Faults, RtasError(kind) PROVE NoDataInLoop'
  BY <1>8 DEF RtasError, Fail
<1>9. CASE UNCHANGED vars
  BY <1>9 DEF vars
<1>10. QED
  BY NextCases, <1>1, <1>2, <1>3, <1>4, <1>5, <1>6, <1>7, <1>8, <1>9

\* Every step of the page loop is a step of the snapshot retrieval or leaves
\* what it shows unchanged.
LEMMA SnapshotStep ==
  TypeOK /\ LoopInv /\ NoDataInLoop /\ [Next]_vars => [Snapshot!Next]_(Snapshot!vars)
<1> SUFFICES ASSUME TypeOK, LoopInv, NoDataInLoop, [Next]_vars
             PROVE  [Snapshot!Next]_(Snapshot!vars)
  OBVIOUS
<1> USE DEF TypeOK, LoopInv, NoDataInLoop, NoDataYet, firmware, loop, returned,
  Snapshot!vars, Snapshot!Next
<1>1. CASE Begin
  BY <1>1 DEF Begin, Snapshot!Ask
<1>2. CASE Change
  BY <1>2 DEF Change, Snapshot!Change
<1>3. CASE Continue
  BY <1>3 DEF Continue, Serve, Throws, Snapshot!Answer
<1>4. CASE Success
  <2>1. /\ Served \in since /\ Served \in Versions
        /\ result' # "thrown" => data' = Pages(Served)
    BY <1>4, SuccessPages
  <2>2. data' \in {<<>>} \cup {[v \in Versions |-> Pages(v)][w] : w \in since}
    <3>1. CASE result' = "thrown"
      BY <1>4, <3>1 DEF Success
    <3>2. CASE result' # "thrown"
      BY <2>1, <3>2
    <3>3. QED
      BY <3>1, <3>2
  <2>3. Snapshot!Answer
    BY <1>4, <2>2 DEF Success, Throws, Serve, Snapshot!Answer
  <2>4. QED
    BY <2>3
<1>5. CASE Allocate
  BY <1>5 DEF Allocate, Throws, Snapshot!Answer
<1>6. CASE VpdChanged /\ Restart
  BY <1>6 DEF VpdChanged, Restart, Throws, Snapshot!Answer
<1>7. CASE VpdChanged /\ GiveUp
  BY <1>7 DEF VpdChanged, GiveUp, Fail, Snapshot!Answer
<1>8. ASSUME NEW kind \in Faults, RtasError(kind) PROVE [Snapshot!Next]_(Snapshot!vars)
  BY <1>8 DEF RtasError, Fail, Snapshot!Answer
<1>9. CASE UNCHANGED vars
  BY <1>9 DEF vars
<1>10. QED
  BY NextCases, <1>1, <1>2, <1>3, <1>4, <1>5, <1>6, <1>7, <1>8, <1>9

\* The page loop implements the retrieval of one snapshot.
THEOREM ImplementsSnapshot == Spec => SnapshotSpec
<1>1. Init => Snapshot!Init /\ NoDataInLoop
  BY DEF Init, Snapshot!Init, NoDataInLoop, NoDataYet
<1>2. QED
  BY <1>1, LoopInit, LoopStep, NoDataStep, SnapshotStep, PTL DEF Spec, SnapshotSpec, Snapshot!Spec
=============================================================================
