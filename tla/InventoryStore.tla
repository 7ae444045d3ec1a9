--------------------------- MODULE InventoryStore ---------------------------
(***************************************************************************)
(* What vpdupdate promises to the readers of vpd.db (lsvpd, lscfg, lsmcode *)
(* and lsvio open it through a shared lock): an update is invisible until  *)
(* it is over.  If it succeeded it then shows its whole inventory;         *)
(* otherwise the old inventory, none, or a whole one of its own, which no  *)
(* earlier inventory can ever replace.  Only an update that was killed     *)
(* outright or that reports an error may leave a torn one.                 *)
(***************************************************************************)
EXTENDS Naturals

VARIABLES
  writing,  \* an update or an archiving is in progress
  latest,   \* number of the latest one
  report,   \* how the latest one ended, "none" while it runs
  shown     \* what a reader finds: the run that wrote it and if it is whole

vars == <<writing, latest, report, shown>>

Nothing == [ver |-> 0, whole |-> FALSE]
WholeOfLatest == [ver |-> latest, whole |-> TRUE]
TornOfLatest == [ver |-> latest, whole |-> FALSE]

Init == writing = FALSE /\ latest = 0 /\ report = "none" /\ shown = Nothing

Begin ==
  /\ ~writing
  /\ writing' = TRUE /\ latest' = latest + 1 /\ report' = "none"
  /\ UNCHANGED shown

Succeed ==
  /\ writing
  /\ writing' = FALSE /\ report' = "ok"
  /\ shown' = WholeOfLatest
  /\ UNCHANGED latest

\* vpdupdate -a: the inventory is withdrawn, or stays when that fails.
Archive ==
  /\ writing
  /\ writing' = FALSE /\ report' = "archived"
  /\ shown' \in {shown, Nothing}
  /\ UNCHANGED latest

Abort ==
  /\ writing
  /\ writing' = FALSE /\ report' \in {"error", "signal", "killed"}
  /\ \/ shown' \in {shown, Nothing, WholeOfLatest}
     \/ report' \in {"error", "killed"} /\ shown' = TornOfLatest
  /\ UNCHANGED latest

Next == Begin \/ Succeed \/ Archive \/ Abort

Spec == Init /\ [][Next]_vars
=============================================================================
