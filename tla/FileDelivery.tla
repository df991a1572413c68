---------------------------- MODULE FileDelivery ----------------------------
(***************************************************************************)
(* What a file transfer promises, whatever program runs it: the receiver   *)
(* says "completed" only of a file it keeps, intact, the sender says what  *)
(* the receiver said or that the transfer failed, and nothing that is kept *)
(* is given up while a transfer goes on.  FileTransfer implements this.    *)
(***************************************************************************)
VARIABLES
  running,   \* a transfer goes on: one of its ends has not reported yet
  kept,      \* the receiver's disk holds the offered file, intact
  sender,    \* how the transfer ended for the sender, "none" while it lasts
  receiver   \* and for the receiver

delivery == <<running, kept, sender, receiver>>

Init == running = FALSE /\ kept \in BOOLEAN /\ sender = "none" /\ receiver = "none"

\* A new transfer, perhaps of another file.
Begin ==
  /\ ~running /\ running' = TRUE
  /\ kept' \in BOOLEAN /\ sender' = "none" /\ receiver' = "none"

\* The disk is damaged after a transfer: what was said of it no longer counts.
Damage ==
  /\ ~running /\ kept' \in BOOLEAN /\ sender' = "none" /\ receiver' = "none"
  /\ UNCHANGED running

Keep ==
  /\ running /\ receiver = "none"
  /\ kept' = TRUE
  /\ UNCHANGED <<running, sender, receiver>>

\* A transfer is over when both ends have reported.
ReceiverEnds ==
  /\ running /\ receiver = "none"
  /\ \/ receiver' \in {"cancelled", "rejected", "failed"}
     \/ kept /\ receiver' = "completed"
  /\ running' = (sender = "none")
  /\ UNCHANGED <<kept, sender>>

SenderEnds ==
  /\ running /\ sender = "none"
  /\ \/ sender' = "failed"
     \/ receiver # "none" /\ sender' = receiver
     \/ kept /\ sender' = "already"
  /\ running' = (receiver = "none")
  /\ UNCHANGED <<kept, receiver>>

\* One process that ran both ends is killed.
Abort ==
  /\ running /\ running' = FALSE
  /\ sender' = "failed" /\ receiver' = "failed"
  /\ UNCHANGED kept

Next == Begin \/ Damage \/ Keep \/ ReceiverEnds \/ SenderEnds \/ Abort

Spec == Init /\ [][Next]_delivery
=============================================================================
