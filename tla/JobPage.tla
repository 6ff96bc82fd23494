------------------------------ MODULE JobPage -------------------------------
(***************************************************************************)
(* What a page with a running job promises its user, seen from outside:    *)
(* the job runs until it ends or a cancel is acknowledged; after the       *)
(* acknowledgement the page only ever leads back; the page is not left     *)
(* before the job is over, except by closing the window; and every job     *)
(* shown ends.                                                             *)
(***************************************************************************)
VARIABLE phase

Phase == {"away", "running", "stopping", "back", "next", "closed"}

Init == phase = "away"

Open        == phase = "away" /\ phase' = "running"
Acknowledge == phase = "running" /\ phase' = "stopping"

End ==
  \/ phase = "running" /\ phase' \in {"back", "next"}
  \/ phase = "stopping" /\ phase' = "back"

Leave    == phase \in {"back", "next"} /\ phase' = "away"
Close    == phase # "closed" /\ phase' = "closed"
Relaunch == phase = "closed" /\ phase' = "away"

Next == Open \/ Acknowledge \/ End \/ Leave \/ Close \/ Relaunch

Spec == Init /\ [][Next]_phase /\ WF_phase(End)
=============================================================================
