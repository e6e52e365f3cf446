--------------------------- MODULE ThreadHistory ---------------------------
(***************************************************************************)
(* The mails of one contact as the console keeps them. Two collectors that *)
(* the poller runs one after the other bring them in: one reads the        *)
(* HubSpot thread of every ticket that is due, the other reads a personal  *)
(* mailbox. One mail may stand in both places, and so may a reply that the *)
(* console has just sent or does not know whether it has sent.             *)
(*                                                                         *)
(* Code: src/agents/ticket_history.py, src/agents/mailbox_sync.py,         *)
(* src/integrations/gmail.py; the webhook of new messages in               *)
(* src/api/webhook.py; interaction_delete and refresh-history in           *)
(* src/api/routes/customer_ops.py; the recovery page.                      *)
(*                                                                         *)
(* A transaction is one step. A mail is one identity: same_mail always     *)
(* knows its copies, so a mail without text is left out. All sends of an   *)
(* instance lie within ten minutes of each other. Not here: the stage a    *)
(* reply moves (StageSync), the notes put on HubSpot tickets, and the      *)
(* import of old CRM mails.                                                *)
(***************************************************************************)
EXTENDS Naturals, FiniteSets

CONSTANTS
  MaxTicket,    \* tickets 1..MaxTicket of the contact, the newest last
  Mails,        \* mails of the contact, and others in the mailbox
  Ours,         \* those the console sends
  Strangers,    \* those that never make a row: unknown people, only in
                \* copy, drafts, spam
  ThreadOf,     \* the ticket in whose thread a mail may stand
  PerSweep,     \* TICKETS_PER_SWEEP
  PerMailbox,   \* MESSAGES_PER_SWEEP
  Overlap,      \* _SWEEP_OVERLAP
  MaxTime,      \* bound on the clock
  Unreadable,   \* those that Gmail may fail to give
  PromptSweep   \* a sweep of the mailbox takes no longer than the overlap

Tickets == 1..MaxTicket
Times == 0..MaxTime
Never == 0

ASSUME SomeTickets == MaxTicket \in Nat \ {0}
ASSUME OursAreMails == Ours \subseteq Mails
ASSUME StrangersAreMails == Strangers \subseteq Mails \ Ours
ASSUME ThreadsAreTickets == ThreadOf \in [Mails -> Tickets]
ASSUME SweepsHaveRoom == PerSweep \in Nat \ {0} /\ PerMailbox \in Nat \ {0}
ASSUME TimesAreNumbers == Overlap \in Nat /\ MaxTime \in Nat \ {0}
ASSUME UnreadableAreMails == Unreadable \subseteq Mails
ASSUME PromptIsASwitch == PromptSweep \in BOOLEAN

VARIABLES
  now,          \* the clock of the server
  thread,       \* HubSpot: the mails in the thread of each ticket
  inbox,        \* Gmail: internalDate of each mail in the mailbox
  marked,       \* mails in the thread when it was last asked for
  requested,    \* Conversation.history_requested_at
  synced,       \* Conversation.history_synced_at
  failed,       \* tickets stamped because collecting them failed
  row,          \* the ticket the copy of a mail stands under
  tomb,         \* MailboxLinkDecision: copies that must not come back
  reply,        \* Message.status of our mails, and whether they have a key
  polled,       \* MailboxAccount.last_polled_at
  pc,           \* where the poller is
  pending,      \* tickets still to collect in this round
  ticket,       \* the one being collected
  started,      \* when the reading in progress began
  seen,         \* what it has read
  batch,        \* mails still to read in this sweep of the mailbox
  left,         \* the sweep could not take every new mail
  until         \* the newest mail it has read

outside == <<thread, inbox>>
queue == <<marked, requested, synced, failed>>
rows == <<row, tomb>>
reading == <<pc, pending, ticket, started, seen>>
sweep == <<batch, left, until>>
vars == <<now, outside, queue, rows, reply, polled, reading, sweep>>

-----------------------------------------------------------------------------
Places == {"conv", "gmail"}
Copies == Places \X Mails
Conv(m) == <<"conv", m>>
Gmail(m) == <<"gmail", m>>

Absent == 0

HasRow(m) == row[Conv(m)] # Absent \/ row[Gmail(m)] # Absent

(* The queue: never collected, or asked for since the last reading began.  *)
Due(t) ==
  \/ synced[t] = Never
  \/ requested[t] # Never /\ requested[t] >= synced[t]

(* ORDER BY id LIMIT 8                                                     *)
FirstDue ==
  LET due == {t \in Tickets : Due(t)}
  IN  IF Cardinality(due) <= PerSweep THEN {due}
      ELSE {T \in SUBSET due : /\ Cardinality(T) = PerSweep
                               /\ \A t \in T, u \in due \ T : t < u}

(* Where a mail from the mailbox is put: the newest thread of the contact. *)
Newest == MaxTicket

(* collect_from is 1. The window overlaps the last one.                    *)
Since ==
  IF polled = Never \/ polled <= Overlap THEN 1 ELSE polled - Overlap

-----------------------------------------------------------------------------
TypeOK ==
  /\ now \in Times
  /\ thread \in [Tickets -> SUBSET Mails]
  /\ inbox \in [Mails -> Times]
  /\ marked \subseteq Mails
  /\ requested \in [Tickets -> Times]
  /\ synced \in [Tickets -> Times]
  /\ failed \subseteq Tickets
  /\ row \in [Copies -> 0..MaxTicket]
  /\ tomb \subseteq Copies
  /\ reply \in [Ours -> {"unsent", "sending", "unknown", "confirmed", "keyed"}]
  /\ polled \in Times
  /\ pc \in {"idle", "queue", "read", "store", "mail"}
  /\ pending \subseteq Tickets
  /\ ticket \in 0..MaxTicket
  /\ started \in Times
  /\ seen \subseteq Mails
  /\ batch \subseteq Mails
  /\ left \in BOOLEAN
  /\ until \in Times

Init ==
  /\ now = 1
  /\ thread = [t \in Tickets |-> {}]
  /\ inbox = [m \in Mails |-> Never]
  /\ marked = {}
  /\ requested = [t \in Tickets |-> Never]
  /\ synced = [t \in Tickets |-> Never]
  /\ failed = {}
  /\ row = [c \in Copies |-> Absent]
  /\ tomb = {}
  /\ reply = [m \in Ours |-> "unsent"]
  /\ polled = Never
  /\ pc = "idle"
  /\ pending = {}
  /\ ticket = 0
  /\ started = Never
  /\ seen = {}
  /\ batch = {}
  /\ left = FALSE
  /\ until = Never

-----------------------------------------------------------------------------
(* The world around: mails, webhooks, people and the send worker           *)

Early == now < MaxTime

Tick ==
  /\ Early
  /\ PromptSweep /\ pc = "mail" => now < started + Overlap
  /\ now' = now + 1
  /\ UNCHANGED <<outside, queue, rows, reply, polled, reading, sweep>>

(* HubSpot takes a mail into the thread of its ticket.                     *)
ArriveInThread(m) ==
  /\ Early
  /\ m \notin Strangers \cup Ours
  /\ m \notin thread[ThreadOf[m]]
  /\ thread' = [thread EXCEPT ![ThreadOf[m]] = @ \cup {m}]
  /\ UNCHANGED <<now, inbox, queue, rows, reply, polled, reading, sweep>>

ArriveInMailbox(m) ==
  /\ Early
  /\ m \notin Ours
  /\ inbox[m] = Never
  /\ inbox' = [inbox EXCEPT ![m] = now]
  /\ UNCHANGED <<now, thread, queue, rows, reply, polled, reading,
                 sweep>>

(* mark_ticket_history_stale: what the thread holds now is asked for.      *)
Mark(t) ==
  /\ requested' = [requested EXCEPT ![t] = now]
  /\ marked' = marked \cup thread[t]
  /\ UNCHANGED <<synced, failed>>

(* The webhook of a new message finds the ticket of the thread, or a person*)
(* asks for it again. A webhook may be late, and may never come.           *)
MarkStale(t) ==
  /\ Early
  /\ Mark(t)
  /\ UNCHANGED <<now, outside, rows, reply, polled, reading, sweep>>

(* A person deletes one line of the history.                               *)
DeleteRow(m, p) ==
  /\ row[<<p, m>>] # Absent
  /\ row' = [row EXCEPT ![<<p, m>>] = Absent]
  /\ tomb' = tomb \cup {<<p, m>>}
  /\ UNCHANGED <<now, outside, queue, reply, polled, reading, sweep>>

StartSend(m) ==
  /\ reply[m] = "unsent"
  /\ reply' = [reply EXCEPT ![m] = "sending"]
  /\ UNCHANGED <<now, outside, queue, rows, polled, reading, sweep>>

(* The reply goes out: it stands in the thread, and in the mailbox of the  *)
(* channel account.                                                        *)
Deliver(m) ==
  /\ Early
  /\ reply[m] \in {"sending", "unknown"}
  /\ m \notin thread[ThreadOf[m]]
  /\ thread' = [thread EXCEPT ![ThreadOf[m]] = @ \cup {m}]
  /\ inbox' = [inbox EXCEPT ![m] = now]
  /\ UNCHANGED <<now, queue, rows, reply, polled, reading, sweep>>

RecordDelivery(m) ==
  /\ reply[m] = "sending"
  /\ m \in thread[ThreadOf[m]]
  /\ reply' = [reply EXCEPT ![m] = "keyed"]
  /\ UNCHANGED <<now, outside, queue, rows, polled, reading, sweep>>

(* No answer from HubSpot, or the worker died: the delivery is unknown and *)
(* the thread is to be read again (_read_thread_again).                    *)
LoseAnswer(m) ==
  /\ Early
  /\ reply[m] = "sending"
  /\ reply' = [reply EXCEPT ![m] = "unknown"]
  /\ Mark(ThreadOf[m])
  /\ UNCHANGED <<now, outside, rows, polled, reading, sweep>>

(* A person confirms the delivery; there is still no key.                  *)
ConfirmByHand(m) ==
  /\ reply[m] = "unknown"
  /\ reply' = [reply EXCEPT ![m] = "confirmed"]
  /\ UNCHANGED <<now, outside, queue, rows, polled, reading, sweep>>

-----------------------------------------------------------------------------
(* The first collector: threads of tickets                                 *)

StartRound ==
  /\ pc = "idle"
  /\ pending' \in FirstDue
  /\ pc' = "queue"
  /\ UNCHANGED <<now, outside, queue, rows, reply, polled, ticket, started,
                 seen, sweep>>

(* sync_one_ticket notes the time before it reads.                         *)
TakeTicket(t) ==
  /\ pc = "queue"
  /\ t \in pending
  /\ \A u \in pending : t <= u
  /\ pending' = pending \ {t}
  /\ ticket' = t
  /\ started' = now
  /\ pc' = "read"
  /\ UNCHANGED <<now, outside, queue, rows, reply, polled, seen, sweep>>

Collect ==
  /\ pc = "read"
  /\ seen' = thread[ticket]
  /\ pc' = "store"
  /\ UNCHANGED <<now, outside, queue, rows, reply, polled, pending, ticket,
                 started, sweep>>

TicketDone ==
  /\ ticket' = 0
  /\ seen' = {}
  /\ started' = Never
  /\ pc' = "queue"
  /\ UNCHANGED pending

(* Mutant: a ticket whose reading fails is left as it was.                 *)
CollectFailsUnstamped ==
  /\ pc \in {"read", "store"}
  /\ failed' = failed \cup {ticket}
  /\ TicketDone
  /\ UNCHANGED <<now, outside, marked, requested, synced, rows, reply, polled,
                 sweep>>

(* Stamped all the same, and not tried again before the next mark.         *)
CollectFails ==
  /\ pc \in {"read", "store"}
  /\ synced' = [synced EXCEPT ![ticket] = started]
  /\ failed' = failed \cup {ticket}
  /\ TicketDone
  /\ UNCHANGED <<now, outside, marked, requested, rows, reply, polled, sweep>>

(* Mutant: the stamp is the time of the commit.                            *)
StampNow == now

(* The stamp is the time the reading began.                                *)
Stamp == started

(* Mails read that are neither kept, under whatever ticket, nor deleted.   *)
New(t) == {m \in seen : row[Conv(m)] = Absent /\ Conv(m) \notin tomb}

(* The mails whose thread copy stands under the ticket, these included.    *)
InThread(t) == {m \in Mails : row[Conv(m)] = t} \cup New(t)

(* Mutant: only copies under the same ticket are folded.                   *)
TwinsOfTicket(t) == {m \in InThread(t) : row[Gmail(m)] = t}

(* Their copies from the mailbox, under any ticket (_merge_crm_twins).     *)
Twins(t) == {m \in InThread(t) : row[Gmail(m)] # Absent}

(* Mutant: deliveries without a key are left to people.                    *)
NothingSettled(t) == {}

(* _settle_keyless_sends                                                   *)
Settled(t) == {m \in InThread(t) \cap Ours : reply[m] \in {"unknown", "confirmed"}}

(* What was read is kept, its twins are folded into it, deliveries it      *)
(* shows are confirmed, and the ticket is stamped, in one transaction.     *)
Store ==
  /\ pc = "store"
  /\ row' = [c \in Copies |->
               IF c \in {Conv(m) : m \in New(ticket)} THEN ticket
               ELSE IF c \in {Gmail(m) : m \in Twins(ticket)} THEN Absent
               ELSE row[c]]
  /\ tomb' = tomb \cup {Gmail(m) : m \in Twins(ticket)}
  /\ reply' = [m \in Ours |->
                 IF m \in Settled(ticket) THEN "keyed" ELSE reply[m]]
  /\ synced' = [synced EXCEPT ![ticket] = Stamp]
  /\ failed' = failed \ {ticket}
  /\ TicketDone
  /\ UNCHANGED <<now, outside, marked, requested, polled, sweep>>

-----------------------------------------------------------------------------
(* The second collector: the personal mailbox                              *)

Fresh == {m \in Mails : /\ inbox[m] # Never
                        /\ inbox[m] >= Since
                        /\ row[Gmail(m)] = Absent
                        /\ Gmail(m) \notin tomb}

(* The oldest ones, as many as one sweep reads.                            *)
FirstOf(S) ==
  {B \in SUBSET S : /\ Cardinality(B) = PerMailbox
                    /\ \A m \in B, n \in S \ B : inbox[m] <= inbox[n]}

(* The threads are done; the mailbox is listed to the end.                 *)
OpenMailbox ==
  /\ pc = "queue"
  /\ pending = {}
  /\ IF Cardinality(Fresh) <= PerMailbox
       THEN batch' = Fresh /\ left' = FALSE
       ELSE batch' \in FirstOf(Fresh) /\ left' = TRUE
  /\ until' = Never
  /\ started' = now
  /\ pc' = "mail"
  /\ UNCHANGED <<now, outside, queue, rows, reply, polled, pending, ticket, seen>>

(* _hubspot_already_has_it, _we_already_sent_it                            *)
StandsAlready(m) ==
  \/ HasRow(m)
  \/ m \in Ours /\ \E r \in Ours : reply[r] = "keyed"

(* The oldest mail of the batch is read and kept under the newest thread.  *)
ReadMail(m) ==
  /\ pc = "mail"
  /\ m \in batch
  /\ \A n \in batch : inbox[m] <= inbox[n]
  /\ batch' = batch \ {m}
  /\ until' = IF left THEN inbox[m] ELSE until
  /\ row' = IF m \in Strangers \/ StandsAlready(m)
              THEN row ELSE [row EXCEPT ![Gmail(m)] = Newest]
  /\ UNCHANGED <<now, outside, queue, tomb, reply, polled, reading,
                 left>>

(* Gmail does not give this one; the sweep goes on without it.             *)
SkipMail(m) ==
  /\ pc = "mail"
  /\ m \in batch \cap Unreadable
  /\ \A n \in batch : inbox[m] <= inbox[n]
  /\ batch' = batch \ {m}
  /\ UNCHANGED <<now, outside, queue, rows, reply, polled, reading, left,
                 until>>

SweepOver ==
  /\ pc' = "idle"
  /\ batch' = {}
  /\ left' = FALSE
  /\ until' = Never
  /\ started' = Never
  /\ UNCHANGED <<pending, ticket, seen>>

(* Mutant: the window always moves up to now.                              *)
WindowToNow == now

(* Up to now, or up to the newest mail read when some are left; if none    *)
(* could be read, it stays.                                                *)
Window == IF ~left THEN now ELSE IF until # Never THEN until ELSE polled

CloseMailbox ==
  /\ pc = "mail"
  /\ batch = {}
  /\ polled' = Window
  /\ SweepOver
  /\ UNCHANGED <<now, outside, queue, rows, reply>>

(* The token is refused or Gmail does not answer: no stamp.                *)
MailboxFails ==
  /\ (pc = "queue" /\ pending = {}) \/ pc = "mail"
  /\ SweepOver
  /\ UNCHANGED <<now, outside, queue, rows, reply, polled>>

(* The process ends and starts again.                                      *)
Restart ==
  /\ Early
  /\ pc # "idle"
  /\ pending' = {}
  /\ ticket' = 0
  /\ seen' = {}
  /\ pc' = "idle"
  /\ batch' = {}
  /\ left' = FALSE
  /\ until' = Never
  /\ started' = Never
  /\ UNCHANGED <<now, outside, queue, rows, reply, polled>>

-----------------------------------------------------------------------------
Poller ==
  \/ StartRound \/ Collect \/ CollectFails \/ Store
  \/ OpenMailbox \/ CloseMailbox \/ MailboxFails
  \/ \E t \in Tickets : TakeTicket(t)
  \/ \E m \in Mails : ReadMail(m) \/ SkipMail(m)

World ==
  \/ Tick \/ Restart
  \/ \E t \in Tickets : MarkStale(t)
  \/ \E m \in Mails :
       \/ ArriveInThread(m) \/ ArriveInMailbox(m)
       \/ \E p \in Places : DeleteRow(m, p)
  \/ \E m \in Ours :
       \/ StartSend(m) \/ Deliver(m) \/ RecordDelivery(m)
       \/ LoseAnswer(m) \/ ConfirmByHand(m)

Next == Poller \/ World

Spec == Init /\ [][Next]_vars

(* The poller runs for ever and time passes.                               *)
FairSpec == Spec /\ WF_vars(Poller) /\ SF_vars(Tick)

(* Gmail does not fail for ever either.                                    *)
FairMailbox ==
  /\ FairSpec
  /\ SF_vars(OpenMailbox)
  /\ \A m \in Mails : SF_vars(ReadMail(m))
  /\ SF_vars(CloseMailbox)

-----------------------------------------------------------------------------
(* Safety                                                                  *)

(* A mail whose webhook has arrived is kept, deleted by a person, or its   *)
(* ticket is still to be collected: none is lost because it came while the *)
(* thread was being read. Only a ticket whose reading failed is let go.    *)
MarkedIsKept ==
  \A m \in marked :
    \/ row[Conv(m)] # Absent
    \/ Conv(m) \in tomb
    \/ Due(ThreadOf[m])
    \/ ThreadOf[m] \in failed

(* A mail that stands in the thread and in the mailbox is one line of the  *)
(* history, whichever collector was first and under whichever ticket.      *)
OneRowPerMail ==
  \A m \in Mails : row[Conv(m)] = Absent \/ row[Gmail(m)] = Absent

(* A line that a person deleted, or that was folded into its twin, is not  *)
(* brought back by a collector.                                            *)
DeletedStays == \A c \in tomb : row[c] = Absent

(* What the second collector has still to bring in.                        *)
Wanted(m) ==
  /\ m \notin Strangers \cup Unreadable
  /\ inbox[m] # Never
  /\ ~HasRow(m)
  /\ Conv(m) \notin tomb /\ Gmail(m) \notin tomb
  /\ m \notin Ours

(* The window of the next sweep still holds every mail not brought in, also*)
(* when a sweep could not take all of them or was cut off.                 *)
MailInWindow == \A m \in Mails : Wanted(m) => inbox[m] >= Since

(* Liveness                                                                *)

(* A mail whose webhook has arrived comes into the history, whatever       *)
(* happens to other tickets, unless reading its own ticket fails. What is  *)
(* marked stays marked: []<> says here what ~> does.                       *)
MailArrives ==
  \A m \in Mails :
    []<>(m \in marked => \/ row[Conv(m)] # Absent
                          \/ Conv(m) \in tomb
                          \/ ThreadOf[m] \in failed)

(* A delivery without a key whose copy can be seen in the thread is        *)
(* confirmed by that copy. A reply waits until it is: []<> again.          *)
ReplyGetsItsKey ==
  \A m \in Ours :
    []<>(reply[m] \in {"unknown", "confirmed"} /\ m \in marked
           => Conv(m) \in tomb \/ ThreadOf[m] \in failed)

(* mailbox_sync.py:312: a mail that leaves no line is read only once, for  *)
(* the window moves past it, and so the mails behind it are reached. Not   *)
(* checked by a run: the code breaks it, see the README.                   *)
MailboxMovesOn ==
  \A m \in Mails \ (Strangers \cup Ours) :
    inbox[m] # Never ~> HasRow(m) \/ Conv(m) \in tomb \/ Gmail(m) \in tomb
=============================================================================
