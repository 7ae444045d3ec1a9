----------------------------- MODULE RtasGetVpd -----------------------------
(***************************************************************************)
(* RtasCollector::rtasGetVPD (src/src/internal/sys_interface/              *)
(* rtascollector.cpp), the loop that fetches the VPD of the platform page  *)
(* by page from the firmware, which may change that VPD between two calls  *)
(* and then answers VPD_CHANGED: what was fetched is dropped and the loop  *)
(* begins again.  The firmware's side of rtas_get_vpd is external.         *)
(***************************************************************************)
EXTENDS Naturals, Sequences

CONSTANTS
  Versions,               \* versions of the VPD the firmware may hold
  PageCount,              \* the number of buffers each version fills
  VPD_CHANGED_THRESHOLD,  \* 5 in the code
  Faults                  \* answers that end the retrieval; no memory

FaultKinds == {"memory", "parameter", "hardware", "librtas"}

ASSUME RtasAssumption ==
  /\ PageCount \in [Versions -> Nat \ {0}]
  /\ VPD_CHANGED_THRESHOLD \in Nat
  /\ Faults \subseteq FaultKinds

VARIABLES
  fw,       \* the version the firmware holds
  stale,    \* it changed since the firmware last answered
  session,  \* the version whose pages the firmware is giving out
  pc,       \* "begin", then "call" inside the loop; else "idle"
  seq,      \* sequence number of the next page to ask for
  list,     \* the buffers, the last one being the one to fill
  heap,     \* number of buffers allocated
  copies,   \* number of copies of the location code allocated
  changed,  \* vpd_changed
  result,   \* what the last call returned
  data,     \* *data, when it returned a size
  since     \* history: versions the firmware held since the call began

firmware == <<fw, stale, session>>
loop == <<pc, seq, list, heap, copies, changed>>
returned == <<result, data>>
vars == <<firmware, loop, returned, since>>

Empty == [ver |-> "none", num |-> 0]
Page(v, n) == [ver |-> v, num |-> n]
Pages(v) == [n \in 1 .. PageCount[v] |-> Page(v, n)]

Init ==
  /\ fw \in Versions /\ stale = FALSE /\ session = fw
  /\ pc = "idle" /\ seq = 1 /\ list = <<>> /\ heap = 0 /\ copies = 0 /\ changed = 0
  /\ result = "none" /\ data = <<>> /\ since = {}

-----------------------------------------------------------------------------
(* The firmware.                                                           *)

Change ==
  /\ \E v \in Versions \ {fw} :
       /\ fw' = v
       /\ since' = IF pc # "idle" THEN since \cup {v} ELSE since
  /\ stale' = TRUE
  /\ UNCHANGED <<session, loop, returned>>

\* Sequence number 1 begins again with the version of the moment; a later page
\* is given out only of a version that is still there.
Served == IF seq = 1 THEN fw ELSE session
Serve ==
  /\ seq = 1 \/ ~stale
  /\ session' = Served /\ stale' = FALSE
  /\ UNCHANGED fw

-----------------------------------------------------------------------------
(* rtasGetVPD.                                                             *)

\* A `new` that finds no memory throws, past the tests of its result.  Nobody
\* catches the exception: what is allocated stays so, and the process is over.
Throws ==
  /\ "memory" \in Faults
  /\ pc' = "idle" /\ result' = "thrown"

Begin ==
  /\ pc = "idle" /\ result # "thrown"
  /\ pc' = "begin" /\ seq' = 1 /\ changed' = 0
  /\ result' = "none" /\ data' = <<>>
  /\ since' = {fw}
  /\ UNCHANGED <<firmware, list, heap, copies>>

\* The first buffer, and a copy of the location code by strdup, whose failure
\* does return: with the buffer deleted.
Allocate ==
  /\ pc = "begin"
  /\ \/ /\ pc' = "call" /\ UNCHANGED result
        /\ list' = <<Empty>> /\ heap' = heap + 1 /\ copies' = copies + 1
     \/ /\ "memory" \in Faults /\ pc' = "idle" /\ result' = "memory"
        /\ UNCHANGED <<list, heap, copies>>
     \/ Throws /\ UNCHANGED <<list, heap, copies>>
  /\ UNCHANGED <<firmware, seq, changed, data, since>>

\* deleteList, free( locCode ) and the return.
Fail(how) ==
  /\ pc' = "idle" /\ result' = how
  /\ list' = <<>> /\ heap' = heap - Len(list) /\ copies' = copies - 1
  /\ UNCHANGED <<seq, changed, data, since>>

Filled == [list EXCEPT ![Len(list)] = Page(Served, seq)]

Continue ==
  /\ pc = "call" /\ Serve /\ seq < PageCount[Served]
  /\ changed' = 0
  /\ seq' = seq + 1
  /\ \/ /\ list' = Append(Filled, Empty) /\ heap' = heap + 1
        /\ UNCHANGED <<pc, result>>
     \/ Throws /\ list' = Filled /\ UNCHANGED heap
  /\ UNCHANGED <<copies, data, since>>

\* Mutant: SUCCESS begins the retrieval again, as a change of the VPD does.
SuccessLoops ==
  /\ pc = "call" /\ Serve /\ seq = PageCount[Served]
  /\ seq' = 1
  /\ list' = <<Empty>> /\ heap' = heap - Len(list) + 1
  /\ UNCHANGED <<pc, copies, changed, returned, since>>

\* The last page: free( locCode ), copy the buffers one behind the other into
\* one that is the caller's, deleteList, return.
Success ==
  /\ pc = "call" /\ Serve /\ seq = PageCount[Served]
  /\ copies' = copies - 1
  /\ \/ /\ data' = Filled /\ result' = "ok" /\ pc' = "idle"
        /\ list' = <<>> /\ heap' = heap - Len(list)
     \/ Throws /\ list' = Filled /\ UNCHANGED <<heap, data>>
  /\ UNCHANGED <<seq, changed, since>>

\* Mutant: the sequence number is not set back.
RestartKeepsSeq ==
  /\ changed' = changed + 1 /\ changed' <= VPD_CHANGED_THRESHOLD
  /\ list' = <<Empty>> /\ heap' = heap - Len(list) + 1
  /\ UNCHANGED <<pc, seq, copies, returned, since>>

\* Mutant: one more restart than the threshold allows.
RestartOnceMore ==
  /\ changed' = changed + 1 /\ changed' <= VPD_CHANGED_THRESHOLD + 1
  /\ seq' = 1
  /\ list' = <<Empty>> /\ heap' = heap - Len(list) + 1
  /\ UNCHANGED <<pc, copies, returned, since>>

\* deleteList comes before the `new`.
Restart ==
  /\ changed' = changed + 1 /\ changed' <= VPD_CHANGED_THRESHOLD
  /\ seq' = 1
  /\ \/ /\ list' = <<Empty>> /\ heap' = heap - Len(list) + 1
        /\ UNCHANGED <<pc, result>>
     \/ Throws /\ list' = <<>> /\ heap' = heap - Len(list)
  /\ UNCHANGED <<copies, data, since>>

\* Mutant: the threshold is checked before deleteList is called.
GiveUpLeaks ==
  /\ changed + 1 > VPD_CHANGED_THRESHOLD
  /\ pc' = "idle" /\ result' = "changed" /\ list' = <<>>
  /\ copies' = copies - 1
  /\ UNCHANGED <<seq, changed, heap, data, since>>

GiveUp ==
  /\ changed + 1 > VPD_CHANGED_THRESHOLD
  /\ Fail("changed")

VpdChanged ==
  /\ pc = "call" /\ stale
  /\ stale' = FALSE /\ UNCHANGED <<fw, session>>
  /\ Restart \/ GiveUp

\* PARAMETER_ERROR, HARDWARE_ERROR, and every code librtas explains.
RtasError(kind) ==
  /\ kind \in Faults \ {"memory"} /\ pc = "call"
  /\ Fail(kind)
  /\ UNCHANGED firmware

-----------------------------------------------------------------------------
Call == Allocate \/ Continue \/ Success \/ VpdChanged \/ \E kind \in Faults : RtasError(kind)

Next == Begin \/ Call \/ Change

Spec == Init /\ [][Next]_vars

\* The loop has no waiting in it: a call that can be made is made.  Nothing
\* is assumed of the firmware, which may change the VPD for ever.
FairSpec == Spec /\ WF_vars(Call)

-----------------------------------------------------------------------------
(* Properties.                                                             *)

AnyPage == [ver : Versions, num : Nat] \cup {Empty}

TypeOK ==
  /\ fw \in Versions /\ stale \in BOOLEAN /\ session \in Versions
  /\ pc \in {"idle", "begin", "call"} /\ seq \in Nat \ {0}
  /\ list \in Seq(AnyPage) /\ heap \in Nat /\ copies \in {0, 1}
  /\ changed \in 0 .. VPD_CHANGED_THRESHOLD
  /\ result \in {"none", "ok", "changed", "thrown"} \cup FaultKinds
  /\ data \in Seq(AnyPage) /\ since \in SUBSET Versions

\* What a retrieval returns is all the pages, in order, of one version that
\* the firmware held while it lasted: no page of a version that was dropped,
\* none twice, none missing, however often the VPD changes under the loop.
OneVersionReturned ==
  pc = "idle" /\ result = "ok" => \E v \in since : data = Pages(v)

\* The loop owns the buffers of its list and one copy of the location code,
\* and every return, with VPD or with an error, has freed each of them once.
\* Only a `new` that throws leaves some behind: the pages so far when it is
\* that of the next page or of the result, the location code when it is that
\* of the next page or of a restart; never a buffer already deleted.
BuffersFreed ==
  /\ heap = Len(list)
  /\ pc = "call" => copies = 1
  /\ pc # "call" /\ result # "thrown" => heap = 0 /\ copies = 0

\* If the firmware leaves its VPD alone from some time on, a retrieval ends.
EndsWhenQuiet == <>[]~stale => (pc # "idle" ~> pc = "idle")

Snapshot ==
  INSTANCE VpdSnapshot WITH
    Vpd <- [v \in Versions |-> Pages(v)],
    NoVpd <- <<>>,
    current <- fw,
    reading <- pc # "idle",
    answer <- data

\* The page loop implements the retrieval of one snapshot.
SnapshotSpec == Snapshot!Spec

=============================================================================
