---------------------------- MODULE FileDelivery ----------------------------
(***************************************************************************)
(* What the two users of a direct transfer may rely on, without frames,    *)
(* tasks or retries: the receiver either stores exactly the file that was  *)
(* announced or stores nothing, and the sender is told "ok" only for a     *)
(* file that is stored.  The sender may be told "failed" for a file that   *)
(* was stored, when the answer got lost.                                   *)
(***************************************************************************)
VARIABLES told,   \* what the sender's user was told
          kept    \* what became of the file at the receiver
deliveryVars == <<told, kept>>

Init == told = "nothing" /\ kept = "nothing"

\* A new attempt, once both sides are through with the last one.
Start == /\ told \in {"nothing", "ok", "failed"}
         /\ kept \in {"nothing", "stored", "dropped"}
         /\ told' = "waiting" /\ kept' = "waiting"

Store == kept = "waiting" /\ kept' = "stored" /\ told' = told
Drop == kept = "waiting" /\ kept' = "dropped" /\ told' = told

Confirm == told = "waiting" /\ kept = "stored" /\ told' = "ok" /\ kept' = kept
GiveUp == told = "waiting" /\ told' = "failed" /\ kept' = kept

Next == Start \/ Store \/ Drop \/ Confirm \/ GiveUp
Spec == Init /\ [][Next]_deliveryVars
=============================================================================
