--------------------------- MODULE BottleLifecycle ---------------------------
(* What the daemon promises about the existence of a bottle: an id is made   *)
(* once, is removed at most once, and never comes back.                      *)
CONSTANT Bottle
VARIABLE status

LifecycleTypeOK == status \in [Bottle -> {"fresh", "live", "gone"}]

Init == status = [b \in Bottle |-> "fresh"]
Make(b) == status[b] = "fresh" /\ status' = [status EXCEPT ![b] = "live"]
Remove(b) == status[b] = "live" /\ status' = [status EXCEPT ![b] = "gone"]
Next == \E b \in Bottle : Make(b) \/ Remove(b)
Spec == Init /\ [][Next]_status
=============================================================================
