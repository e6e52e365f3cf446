----------------------------- MODULE ReplyOutbox -----------------------------
(***************************************************************************)
(* What the sending half of the system promises, with no workers, leases,  *)
(* retries or statuses: a reply leaves only on a permit that a decision    *)
(* granted for one text, and one permit pays for one mail.                 *)
(*                                                                         *)
(*   permit[m]      "none"   no mail of the last decision can leave        *)
(*                  "live"   one can, and has not yet                      *)
(*                  "spent"  it has                                        *)
(*   sanctioned[m]  the text the last approval was about                   *)
(*   inbox[m]       what the customer received since that approval         *)
(*   firm[m]        nobody has yet written over the reply without looking  *)
(*                                                                         *)
(* As long as a reply is firm nobody approves it while a decision stands   *)
(* or after its mail has gone out, and nothing but its mail arrives. Later *)
(* a mail of an earlier decision may still be on its way; it had its own   *)
(* permit.                                                                 *)
(*                                                                         *)
(* SendWorker implements it (SendWorker!OutboxSpec).                       *)
(***************************************************************************)
CONSTANTS Messages, Bodies, NoBody

VARIABLES permit, sanctioned, inbox, firm

vars == <<permit, sanctioned, inbox, firm>>

Init ==
  /\ permit \in [Messages -> {"none", "live"}]
  /\ sanctioned \in [Messages -> Bodies \cup {NoBody}]
  /\ inbox = [m \in Messages |-> {}]
  /\ firm = [m \in Messages |-> TRUE]

(* A person chooses a text and decides to send it.                         *)
Decide(m, text) ==
  /\ firm[m] => permit[m] = "none"
  /\ permit' = [permit EXCEPT ![m] = "live"]
  /\ sanctioned' = [sanctioned EXCEPT ![m] = text]
  /\ inbox' = [inbox EXCEPT ![m] = {}]
  /\ UNCHANGED firm

(* A person who was asked whether the mail arrived says that it did not.   *)
(* The person may be wrong, which is why this is a decision and not a      *)
(* retry.                                                                  *)
DecideAgain(m) ==
  /\ permit[m] # "live"
  /\ permit' = [permit EXCEPT ![m] = "live"]
  /\ UNCHANGED <<sanctioned, inbox, firm>>

Deliver(m) ==
  /\ permit[m] = "live"
  /\ permit' = [permit EXCEPT ![m] = "spent"]
  /\ inbox' = [inbox EXCEPT ![m] = @ \cup {sanctioned[m]}]
  /\ UNCHANGED <<sanctioned, firm>>

(* The mail of an earlier decision arrives after a later one.              *)
DeliverEarlier(m, text) ==
  /\ ~firm[m]
  /\ inbox' = [inbox EXCEPT ![m] = @ \cup {text}]
  /\ UNCHANGED <<permit, sanctioned, firm>>

(* The decision is given up: the attempt failed, the draft was rejected,   *)
(* superseded or removed, or nobody knows whether the mail arrived.        *)
Withdraw(m) ==
  /\ permit[m] = "live"
  /\ permit' = [permit EXCEPT ![m] = "none"]
  /\ UNCHANGED <<sanctioned, inbox, firm>>

(* Somebody writes the reply over without looking: to decide again, to     *)
(* give the decision up, or leaving it as it was.                          *)
Overwrite(m) ==
  /\ firm' = [firm EXCEPT ![m] = FALSE]
  /\ \/ permit' = [permit EXCEPT ![m] = "live"]
     \/ permit[m] = "live" /\ permit' = [permit EXCEPT ![m] = "none"]
     \/ UNCHANGED permit
  /\ UNCHANGED <<sanctioned, inbox>>

Next ==
  \E m \in Messages :
    \/ \E text \in Bodies : Decide(m, text) \/ DeliverEarlier(m, text)
    \/ DecideAgain(m)
    \/ Deliver(m)
    \/ Withdraw(m)
    \/ Overwrite(m)

Spec == Init /\ [][Next]_vars
=============================================================================
