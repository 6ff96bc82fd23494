----------------------------- MODULE DiscImage -----------------------------
(***************************************************************************)
(* What writing an image promises: there is one plan, which names a place  *)
(* for every piece before the first piece is stored and never changes      *)
(* after; a piece is stored at its place and nowhere else; success means   *)
(* that all of them are stored.  A build may fail, or be abandoned, which  *)
(* is never success.                                                       *)
(***************************************************************************)
EXTENDS Integers

VARIABLES
  status,   (* "planning", "storing", "abandoned", "OK", "FAIL", "CANCEL"  *)
  plan,     (* pairs of a piece and its place, once they are known         *)
  stored    (* pairs of a piece and where it went                          *)

vars == <<status, plan, stored>>

Init == status = "planning" /\ plan = {} /\ stored = {}

MakePlan ==
  /\ status = "planning"
  /\ status' = "storing" /\ stored' = {}
  /\ \A pair, other \in plan' : pair[1] = other[1] => pair = other

Store ==
  /\ status = "storing" /\ UNCHANGED <<status, plan>>
  /\ stored \subseteq stored' /\ stored' \subseteq plan

Finish ==
  /\ status = "storing" /\ stored = plan
  /\ status' = "OK" /\ UNCHANGED <<plan, stored>>

GiveUp ==
  /\ \/ status \in {"planning", "storing"} /\ status' \in {"abandoned", "FAIL", "CANCEL"}
     \/ status = "abandoned" /\ status' \in {"FAIL", "CANCEL"}
  /\ plan' = {} /\ stored' = {}

Next == MakePlan \/ Store \/ Finish \/ GiveUp

Ended == status \in {"OK", "FAIL", "CANCEL"}

Spec == Init /\ [][Next]_vars /\ <>Ended
=============================================================================
