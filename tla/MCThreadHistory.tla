-------------------------- MODULE MCThreadHistory --------------------------
(* Small instances of ThreadHistory for TLC: two tickets of one contact.   *)
EXTENDS ThreadHistory

CONSTANTS m1, r1

(* The second ticket is the newer one; m1 and the reply belong to the old. *)
Threads == [m \in Mails |-> IF m = m1 THEN 1 ELSE MaxTicket]
=============================================================================
