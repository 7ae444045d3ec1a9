---------------------------- MODULE VpdSnapshot ----------------------------
(***************************************************************************)
(* What retrieving the platform's VPD promises: the firmware may change it *)
(* at any time, and a retrieval answers with all of one version that was   *)
(* current while the retrieval lasted, or with an error and no VPD.        *)
(***************************************************************************)
CONSTANTS
  Versions,  \* versions of the VPD the firmware may hold
  Vpd,       \* what each version says
  NoVpd      \* the answer of a retrieval that fails, or is not over

VARIABLES current, reading, since, answer

vars == <<current, reading, since, answer>>

Init == current \in Versions /\ reading = FALSE /\ since = {} /\ answer = NoVpd

Change ==
  /\ current' \in Versions \ {current}
  /\ since' = IF reading THEN since \cup {current'} ELSE since
  /\ UNCHANGED <<reading, answer>>

Ask ==
  /\ ~reading
  /\ reading' = TRUE /\ since' = {current} /\ answer' = NoVpd
  /\ UNCHANGED current

Answer ==
  /\ reading
  /\ reading' = FALSE
  /\ answer' \in {NoVpd} \cup {Vpd[v] : v \in since}
  /\ UNCHANGED <<current, since>>

Next == Change \/ Ask \/ Answer

Spec == Init /\ [][Next]_vars
=============================================================================
