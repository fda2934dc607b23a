--------------------------- MODULE SessionContract ----------------------------
(***************************************************************************)
(* What one session promises the pane and the session manager: the life of *)
(* a Session as those two can tell it from outside.                        *)
(*                                                                         *)
(*   none       not created                                                *)
(*   running    its shell runs                                             *)
(*   failed     its shell could not be started; the tab says so            *)
(*   dead       its shell died without the session saying finished()       *)
(*   revived    started again after "dead": its exit will go unnoticed     *)
(*   closing    its tab is gone, its shell is being killed                 *)
(*   finishing  its tab is gone and there is no shell to wait for          *)
(*   ended      finished() was emitted                                     *)
(*   leaked     its tab is gone and finished() will never be emitted       *)
(***************************************************************************)

VARIABLE state

States == {"none", "running", "failed", "dead", "revived", "closing", "finishing",
           "ended", "leaked"}

Init == state = "none"

Open == state = "none" /\ state' \in {"running", "failed"}

(* The first size of the screen runs a shell if there is none *)
Restart ==
    \/ state = "failed" /\ state' = "running"
    \/ state = "dead" /\ state' = "revived"

Exit ==
    \/ state = "running" /\ state' \in {"ended", "dead"}
    \/ state = "revived" /\ state' = "dead"

Close ==
    \/ state = "running" /\ state' \in {"closing", "ended"}
    \/ state \in {"failed", "dead"} /\ state' = "finishing"
    \/ state = "revived" /\ state' = "leaked"

Finish == state \in {"closing", "finishing"} /\ state' = "ended"

Next == Open \/ Restart \/ Exit \/ Close \/ Finish

(* A session that was closed ends *)
Ends == state \in {"closing", "finishing"} ~> state = "ended"

Spec == Init /\ [][Next]_state /\ Ends
=============================================================================
