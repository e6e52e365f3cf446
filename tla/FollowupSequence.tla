-------------------------- MODULE FollowupSequence --------------------------
(***************************************************************************)
(* The reminders of one ticket that waits for the customer: when the sweep *)
(* writes the first and the second one, when it closes the ticket, and     *)
(* what a customer's answer, a person's reply and a move of the ticket do  *)
(* to that, before and after.                                              *)
(*                                                                         *)
(* Code: src/agents/followup_sequence.py, and what it calls: the stage     *)
(* move of src/api/routes/customer_ops.py, its listener in                 *)
(* src/db/models.py and the thread collector src/agents/ticket_history.py. *)
(*                                                                         *)
(* Time. Every event has a time of its own: the clock advances with it.    *)
(* Days are left out: `waited` is the last moment before which every wait  *)
(* of the sequence (3, 5 and 7 days) is over. No sweep is as long as that. *)
(*                                                                         *)
(* Atomicity. A sweep is one step between two calls that leave the         *)
(* database (the thread is read again, the reply is copied and translated, *)
(* a stage is mirrored).                                                   *)
(***************************************************************************)
EXTENDS Naturals, FiniteSetsExt

CONSTANTS
  Sweeps,       \* sweeps and collectors that run at once, over all processes
  MaxRows,      \* bound: outgoing rows of the ticket
  MaxActs       \* bound: what people do

ASSUME RowsPositive == MaxRows \in Nat \ {0}
ASSUME ActsAreBounded == MaxActs \in Nat

VARIABLES
  now,          \* the clock
  waited,       \* a wait that began at or before this moment is over
  mails,        \* mails written outside the console
  stored,       \* those of which the database has a row
  acts,         \* how much of MaxActs is used
  kind,         \* prompt_variant of an outgoing row; "none" is no row
  status,       \* its status
  made,         \* its created_at
  approved,     \* its approved_at
  sent,         \* its sent_at; while "unknown" the date of a copy, if any
  stage,        \* conversations.stage
  closedAt,     \* followup_closed_at
  releasedAt,   \* followup_released_at
  revivedAt,    \* followup_revived_at
  pc,           \* where each sweep is
  step,         \* what it is about to do
  after         \* the moment after which it looks for an answer

clock == <<now, waited>>
outside == <<mails, stored, acts>>
rows == <<kind, status, made, approved, sent>>
ticket == <<stage, closedAt, releasedAt, revivedAt>>
work == <<pc, step, after>>
vars == <<clock, outside, rows, ticket, work>>

-----------------------------------------------------------------------------
(* Values                                                                  *)

Rows == 1 .. MaxRows
Never == 0

(* A customer's mail in this ticket, one that became or joined another     *)
(* ticket of the same person, and a mail that a colleague sent from the    *)
(* HubSpot inbox or a private one.                                         *)
MailKinds == {"answer", "elsewhere", "ours"}

First == "followup_reminder_1"
Second == "followup_reminder_2"
ReminderKinds == {First, Second}
Kinds == ReminderKinds \cup {"none", "reply"}

(* "stopped" is rejected, superseded or test_sent.                         *)
Statuses == {"none", "draft", "approved", "sending", "unknown", "failed", "sent",
             "stopped", "gone"}
Unsent == {"draft", "approved", "failed"}

Contacted == "meeting_link_sent"
Negotiation == "negotiation"
CloseStage == "closed"
Stages == {Contacted, Negotiation, CloseStage, "closed_lost"}

Steps == {"send_1", "send_2", "close"}
Places == {"idle", "collecting", "deciding", "copying", "closing", "marking_closed",
           "advancing", "reviving", "marking_revived"}

Stored(r) == status[r] \notin {"none", "gone"}
IsReminder(r) == kind[r] \in ReminderKinds /\ Stored(r)
IsReply(r) == kind[r] = "reply" /\ Stored(r)

-----------------------------------------------------------------------------
(* What the sweep reads off the rows                                       *)

(* is_sales_email, outside_replies: what counts as our last word. A        *)
(* reminder and its copies do not.                                         *)
OurReplies == {r \in Rows : IsReply(r) /\ status[r] = "sent"}
OurMails == {m \in stored : m.is = "ours"}
SalesTimes == {sent[r] : r \in OurReplies} \cup {m.at : m \in OurMails}

(* _at: when the last of them left.                                        *)
BaseAt == Max(SalesTimes)

(* Mutant: when it left, also if a person only confirmed that later.       *)
CommittedWhenDelivered == BaseAt

(* _committed_at: when it left the hands of its author.                    *)
CommittedAt ==
  IF \E r \in OurReplies : sent[r] = BaseAt
  THEN approved[CHOOSE r \in OurReplies : sent[r] = BaseAt]
  ELSE BaseAt

(* _after_base                                                             *)
AfterBase(r) == made[r] > CommittedAt

(* sequence_state: the reminders of this cycle.                            *)
Counted(k) == {r \in Rows : IsReminder(r) /\ kind[r] = k /\ AfterBase(r)}
Last(k) == Max(Counted(k))
Had(k) == Counted(k) # {} /\ status[Last(k)] = "sent"

(* Mutant: a reminder that was created counts as delivered.                *)
NextUnlessCounted(s) ==
  CASE s = "send_1" -> Counted(First) = {}
    [] s = "send_2" -> Counted(First) # {} /\ Counted(Second) = {}
    [] s = "close"  -> Had(First) /\ Had(Second)

(* next_step, with `sending` and `stalled` left out: in both nothing is    *)
(* due.                                                                    *)
NextIs(s) ==
  CASE s = "send_1" -> Counted(First) = {} /\ (Counted(Second) = {} \/ Had(Second))
    [] s = "send_2" -> Had(First) /\ Counted(Second) = {}
    [] s = "close"  -> Had(First) /\ Had(Second)

DueFrom(s) ==
  CASE s = "send_1" -> BaseAt
    [] s = "send_2" -> sent[Last(First)]
    [] s = "close"  -> sent[Last(Second)]

(* open_draft                                                              *)
OpenReplies == {r \in Rows : IsReply(r) /\ status[r] \in Unsent}
OpenDraft == \E r \in OpenReplies : AfterBase(r)

(* _due_now                                                                *)
DueNow(s) == NextIs(s) /\ DueFrom(s) <= waited /\ ~OpenDraft

(* _replies, _reply_place                                                  *)
Answered(t) == \E m \in stored : m.is = "answer" /\ m.at > t
AnsweredElsewhere(t) == \E m \in stored : m.is = "elsewhere" /\ m.at > t

(* closed_by_sequence                                                      *)
ClosedBySequence ==
  /\ stage = CloseStage
  /\ closedAt # Never
  /\ releasedAt < closedAt

(* Mutant: a ticket that a person opened again is closed again.            *)
ClosedAndLeftAlone ==
  closedAt # Never /\ releasedAt < closedAt /\ closedAt >= sent[Last(Second)]

(* _closed_this_cycle                                                      *)
ClosedThisCycle == closedAt # Never /\ closedAt >= sent[Last(Second)]

(* Mutant: an answer before a colleague's mail is not seen.                *)
LooksAfterBase == BaseAt

(* run_followup_sequence_once: after an automatic close every answer since *)
(* the close counts, also one before a colleague's later mail.             *)
LooksAfter == IF ClosedBySequence /\ closedAt < BaseAt THEN closedAt ELSE BaseAt

-----------------------------------------------------------------------------
(* What a step writes                                                      *)

(* A moment of its own for what this step records.                         *)
Tick == now' = now + 1 /\ UNCHANGED waited

Act == acts < MaxActs /\ acts' = acts + 1

Go(s, from, to) ==
  /\ pc[s] = from
  /\ pc' = [pc EXCEPT ![s] = to]

Rest(s) ==
  /\ pc' = [pc EXCEPT ![s] = "idle"]
  /\ step' = [step EXCEPT ![s] = "none"]
  /\ after' = [after EXCEPT ![s] = Never]

(* Mutant: only a ticket that is opened again is released.                 *)
ReleasedIfReopened(to) == to = Negotiation /\ closedAt # Never

(* The listener _stage_moved_after_followup_close: a move of a ticket that *)
(* the sequence closed once is a release.                                  *)
Released(to) == to # stage /\ closedAt # Never

MoveStage(to) ==
  /\ stage' = to
  /\ IF Released(to)
     THEN Tick /\ releasedAt' = now'
     ELSE UNCHANGED <<clock, releasedAt>>

(* _set_conversation_stage: reminders that have not left are deleted when  *)
(* the ticket leaves Contacted; people's own replies are kept.             *)
DropReminders(to) ==
  status' = [r \in Rows |->
               IF to # Contacted /\ IsReminder(r) /\ status[r] \in Unsent
               THEN "gone" ELSE status[r]]

(* Mutant: a row takes any free number.                                    *)
AnyUnborn == {r \in Rows : status[r] = "none"}

Unborn == {r \in Rows : status[r] = "none" /\ \A q \in 1 .. r - 1 : status[q] # "none"}

-----------------------------------------------------------------------------
(* The sweep                                                               *)

(* run_followup_sequence_once finds an answer to this ticket, or           *)
(* advance_if_customer_replied does after new mail was stored.             *)
SeeAnswer(s) ==
  /\ stage = Contacted \/ ClosedBySequence
  /\ Answered(LooksAfter)
  /\ Go(s, "idle", IF ClosedBySequence THEN "reviving" ELSE "advancing")
  /\ UNCHANGED <<clock, outside, rows, ticket, step, after>>

(* run_followup_sequence_once picks a ticket for a reminder or for closing.*)
Pick(s) ==
  /\ stage = Contacted
  /\ ~Answered(BaseAt) /\ ~AnsweredElsewhere(BaseAt)
  /\ \E wanted \in Steps :
       /\ DueNow(wanted)
       /\ wanted = "close" => ~ClosedThisCycle
       /\ step' = [step EXCEPT ![s] = wanted]
  /\ Go(s, "idle", "collecting")
  /\ after' = [after EXCEPT ![s] = BaseAt]
  /\ UNCHANGED <<clock, outside, rows, ticket>>

(* _recheck: sync_one_ticket reads the thread once more; when that fails   *)
(* nothing leaves.                                                         *)
Collect(s) ==
  /\ Go(s, "collecting", "deciding")
  /\ stored' = stored \cup {m \in mails : m.is # "elsewhere"}
  /\ UNCHANGED <<clock, mails, acts, rows, ticket, step, after>>

CollectFails(s) ==
  /\ pc[s] = "collecting"
  /\ Rest(s)
  /\ UNCHANGED <<clock, outside, rows, ticket>>

(* The rest of _recheck, and then _still_due or the first check of         *)
(* _create_reminder.                                                       *)
Decide(s) ==
  /\ pc[s] = "deciding"
  /\ \/ /\ stage = Contacted /\ Answered(after[s])
        /\ pc' = [pc EXCEPT ![s] = "advancing"]
        /\ UNCHANGED <<step, after>>
     \/ /\ stage = Contacted /\ ~Answered(after[s]) /\ ~AnsweredElsewhere(after[s])
        /\ DueNow(step[s])
        /\ pc' = [pc EXCEPT ![s] = IF step[s] = "close" THEN "closing" ELSE "copying"]
        /\ UNCHANGED <<step, after>>
     \/ /\ \/ stage # Contacted
           \/ ~Answered(after[s]) /\ (AnsweredElsewhere(after[s]) \/ ~DueNow(step[s]))
        /\ Rest(s)
  /\ UNCHANGED <<clock, outside, rows, ticket>>

(* _create_reminder, after the reply was copied and translated: with the   *)
(* conversation row locked it looks again whether the step is due.         *)
InsertReminder(s) ==
  /\ pc[s] = "copying"
  /\ DueNow(step[s])
  /\ Tick
  /\ \E r \in Unborn :
       /\ kind' = [kind EXCEPT ![r] = IF step[s] = "send_1" THEN First ELSE Second]
       /\ status' = [status EXCEPT ![r] = "approved"]
       /\ made' = [made EXCEPT ![r] = now']
       /\ approved' = [approved EXCEPT ![r] = now']
  /\ Rest(s)
  /\ UNCHANGED <<outside, sent, ticket>>

(* The copy or the translation failed, the template is missing, or another *)
(* sweep was first.                                                        *)
InsertNothing(s) ==
  /\ pc[s] = "copying"
  /\ Rest(s)
  /\ UNCHANGED <<clock, outside, rows, ticket>>

(* _close: the move, and then, in a second transaction, the mark.          *)
Close(s) ==
  /\ Go(s, "closing", "marking_closed")
  /\ MoveStage(CloseStage)
  /\ DropReminders(CloseStage)
  /\ UNCHANGED <<outside, kind, made, approved, sent, closedAt, revivedAt, step, after>>

MarkClosed(s) ==
  /\ pc[s] = "marking_closed"
  /\ Tick
  /\ closedAt' = now'
  /\ releasedAt' = Never
  /\ Rest(s)
  /\ UNCHANGED <<outside, rows, stage, revivedAt>>

(* _advance: _set_conversation_stage with retire_drafts=False, whatever    *)
(* the stage is by now.                                                    *)
Advance(s) ==
  /\ pc[s] \in {"advancing", "reviving"}
  /\ MoveStage(Negotiation)
  /\ DropReminders(Negotiation)
  /\ IF pc[s] = "reviving"
     THEN pc' = [pc EXCEPT ![s] = "marking_revived"] /\ UNCHANGED <<step, after>>
     ELSE Rest(s)
  /\ UNCHANGED <<outside, kind, made, approved, sent, closedAt, revivedAt>>

(* The failure of the move is swallowed, and the mark is tried all the same.*)
AdvanceFails(s) ==
  /\ Go(s, "reviving", "marking_revived")
  /\ UNCHANGED <<clock, outside, rows, ticket, step, after>>

(* _mark_revived, after the stage was mirrored.                            *)
MarkRevived(s) ==
  /\ pc[s] = "marking_revived"
  /\ IF stage = Negotiation
     THEN Tick /\ revivedAt' = now'
     ELSE UNCHANGED <<clock, revivedAt>>
  /\ Rest(s)
  /\ UNCHANGED <<outside, rows, stage, closedAt, releasedAt>>

(* The process ends, or a call fails and the failure is swallowed.         *)
Crash(s) ==
  /\ pc[s] # "idle"
  /\ Rest(s)
  /\ UNCHANGED <<clock, outside, rows, ticket>>

-----------------------------------------------------------------------------
(* The world outside the console                                           *)

(* A mail of the customer or of a colleague; the webhook may bring it at   *)
(* once, late, or not at all.                                              *)
Happen(k) ==
  /\ Act
  /\ Tick
  /\ mails' = mails \cup {[at |-> now', is |-> k]}
  /\ UNCHANGED <<stored, rows, ticket, work>>

Store(m) ==
  /\ m \notin stored
  /\ stored' = stored \cup {m}
  /\ UNCHANGED <<clock, mails, acts, rows, ticket, work>>

(* Days pass.                                                              *)
Wait ==
  /\ \A s \in Sweeps : pc[s] = "idle"
  /\ waited < now
  /\ waited' = now
  /\ UNCHANGED <<now, outside, rows, ticket, work>>

(* Someone, or a stage that HubSpot reports, moves the ticket.             *)
Move(to) ==
  /\ Act
  /\ to # stage
  /\ MoveStage(to)
  /\ DropReminders(to)
  /\ UNCHANGED <<mails, stored, kind, made, approved, sent, closedAt, revivedAt, work>>

-----------------------------------------------------------------------------
(* Outgoing rows                                                           *)

(* start_manual_reply: a reply is begun unless one is open; one that our   *)
(* last mail overtook is closed first.                                     *)
Write ==
  /\ Act
  /\ OpenReplies # {} => ~AfterBase(Max(OpenReplies))
  /\ Tick
  /\ \E r \in Unborn :
       /\ kind' = [kind EXCEPT ![r] = "reply"]
       /\ made' = [made EXCEPT ![r] = now']
       /\ status' = [q \in Rows |->
                       CASE q = r -> "draft"
                         [] OpenReplies # {} /\ q = Max(OpenReplies) -> "stopped"
                         [] OTHER -> status[q]]
  /\ UNCHANGED <<mails, stored, approved, sent, ticket, work>>

(* approve: a reply, or again a mail that failed.                          *)
Approve(r) ==
  /\ Act
  /\ status[r] \in {"draft", "failed"}
  /\ Tick
  /\ status' = [status EXCEPT ![r] = "approved"]
  /\ approved' = [approved EXCEPT ![r] = now']
  /\ UNCHANGED <<mails, stored, kind, made, sent, ticket, work>>

(* reject                                                                  *)
Reject(r) ==
  /\ status[r] \in {"draft", "failed"}
  /\ status' = [status EXCEPT ![r] = "stopped"]
  /\ UNCHANGED <<clock, outside, kind, made, approved, sent, ticket, work>>

(* The send worker claims a row (SendWorker).                              *)
Claim(r) ==
  /\ status[r] = "approved"
  /\ status' = [status EXCEPT ![r] = "sending"]
  /\ UNCHANGED <<clock, outside, kind, made, approved, sent, ticket, work>>

(* _record_delivery, the refusals, and the lost answer. A reminder or a    *)
(* reply to a ticket in Contacted leaves the stage as it is.               *)
Delivered(r) ==
  /\ status[r] = "sending"
  /\ Tick
  /\ status' = [status EXCEPT ![r] = "sent"]
  /\ sent' = [sent EXCEPT ![r] = now']
  /\ UNCHANGED <<outside, kind, made, approved, ticket, work>>

Refused(r) ==
  /\ status[r] = "sending"
  /\ \E to \in {"failed", "stopped"} : status' = [status EXCEPT ![r] = to]
  /\ UNCHANGED <<clock, outside, kind, made, approved, sent, ticket, work>>

Lost(r) ==
  /\ status[r] = "sending"
  /\ Tick
  /\ status' = [status EXCEPT ![r] = "unknown"]
  /\ sent' = [sent EXCEPT ![r] = now']
  /\ UNCHANGED <<outside, kind, made, approved, ticket, work>>

(* resolve_unknown_delivery, and _settle_unknown by the date of the copy.  *)
ConfirmSent(r) ==
  /\ status[r] = "unknown"
  /\ status' = [status EXCEPT ![r] = "sent"]
  /\ \/ Tick /\ sent' = [sent EXCEPT ![r] = now']
     \/ UNCHANGED <<clock, sent>>
  /\ UNCHANGED <<outside, kind, made, approved, ticket, work>>

ConfirmNotSent(r) ==
  /\ Act
  /\ status[r] = "unknown"
  /\ status' = [status EXCEPT ![r] = "approved"]
  /\ sent' = [sent EXCEPT ![r] = Never]
  /\ UNCHANGED <<clock, mails, stored, kind, made, approved, ticket, work>>

-----------------------------------------------------------------------------
(* The ticket was answered from the console and waits for the customer.    *)
Init ==
  /\ now = 1 /\ waited = Never
  /\ mails = {} /\ stored = {} /\ acts = 0
  /\ kind = [r \in Rows |-> IF r = 1 THEN "reply" ELSE "none"]
  /\ status = [r \in Rows |-> IF r = 1 THEN "sent" ELSE "none"]
  /\ made = [r \in Rows |-> IF r = 1 THEN 1 ELSE Never]
  /\ approved = made /\ sent = made
  /\ stage = Contacted
  /\ closedAt = Never /\ releasedAt = Never /\ revivedAt = Never
  /\ pc = [s \in Sweeps |-> "idle"]
  /\ step = [s \in Sweeps |-> "none"]
  /\ after = [s \in Sweeps |-> Never]

Sweep(s) ==
  \/ SeeAnswer(s) \/ Pick(s)
  \/ Collect(s) \/ CollectFails(s) \/ Decide(s)
  \/ InsertReminder(s) \/ InsertNothing(s)
  \/ Close(s) \/ MarkClosed(s)
  \/ Advance(s) \/ AdvanceFails(s) \/ MarkRevived(s)
  \/ Crash(s)

Mail(r) ==
  \/ Approve(r) \/ Reject(r) \/ Claim(r)
  \/ Delivered(r) \/ Refused(r) \/ Lost(r)
  \/ ConfirmSent(r) \/ ConfirmNotSent(r)

Next ==
  \/ \E s \in Sweeps : Sweep(s)
  \/ \E k \in MailKinds : Happen(k)
  \/ \E m \in mails : Store(m)
  \/ \E to \in Stages : Move(to)
  \/ \E r \in Rows : Mail(r)
  \/ Wait
  \/ Write

Spec == Init /\ [][Next]_vars

(* The poller comes round again, and not every call fails for ever.        *)
Fairness ==
  \A s \in Sweeps :
    /\ WF_vars(Sweep(s))
    /\ SF_vars(SeeAnswer(s))
    /\ SF_vars(Advance(s))

FairSpec == Spec /\ Fairness

-----------------------------------------------------------------------------
(* Properties                                                              *)

(* Types; rows are numbered in the order of their creation, and no moment  *)
(* is in the future.                                                       *)
TypeOK ==
  /\ now \in Nat /\ waited \in 0 .. now
  /\ mails \subseteq [at : 1 .. now, is : MailKinds] /\ stored \subseteq mails
  /\ acts \in 0 .. MaxActs
  /\ kind \in [Rows -> Kinds] /\ status \in [Rows -> Statuses]
  /\ made \in [Rows -> 0 .. now]
  /\ approved \in [Rows -> 0 .. now] /\ sent \in [Rows -> 0 .. now]
  /\ stage \in Stages
  /\ closedAt \in 0 .. now /\ releasedAt \in 0 .. now /\ revivedAt \in 0 .. now
  /\ pc \in [Sweeps -> Places]
  /\ step \in [Sweeps -> Steps \cup {"none"}]
  /\ after \in [Sweeps -> 0 .. now]
  /\ \A q, r \in Rows : q < r /\ made[r] # Never => Never < made[q] /\ made[q] < made[r]

(* The customer gets each reminder once for each mail of ours: between two *)
(* first (or two second) reminders a person wrote, however many sweeps     *)
(* run, whatever fails, is confirmed late or is sent again (_create_       *)
(* reminder, sequence_state, _committed_at).                               *)
WroteBetween(t, u) ==
  \/ \E r \in Rows : kind[r] = "reply" /\ status[r] = "sent" /\ t <= approved[r] /\ approved[r] < u
  \/ \E m \in OurMails : t <= m.at /\ m.at < u

OneOfEachPerCycle ==
  \A q, r \in Rows :
    q < r /\ IsReminder(q) /\ IsReminder(r) /\ kind[q] = kind[r]
      => WroteBetween(made[q], made[r])

(* Nobody gets the second reminder who did not get the first one before,   *)
(* and the sequence closes nothing before the second one left (next_step). *)
LadderInOrder ==
  /\ \A r \in Rows : IsReminder(r) /\ kind[r] = Second =>
       \E q \in Rows : kind[q] = First /\ status[q] = "sent" /\ sent[q] < made[r]
  /\ closedAt # Never =>
       \E r \in Rows : kind[r] = Second /\ status[r] = "sent" /\ sent[r] < closedAt

(* The decision of a person stands: once anyone moved a ticket that the    *)
(* sequence had closed, no step makes it count as closed by the sequence   *)
(* again (and so as one that an old answer may revive), also not moving it *)
(* back, until the sequence closes it anew (closed_by_sequence, _close and *)
(* the listener in db/models.py).                                          *)
PersonsDecisionStands ==
  [][~ClosedBySequence /\ ClosedBySequence' => closedAt' # closedAt]_vars

(* A stored answer is acted on: while the ticket waits for the customer,   *)
(* and after an automatic close, also when a colleague wrote in between    *)
(* (run_followup_sequence_once).                                           *)
Unheard ==
  \/ stage = Contacted /\ Answered(BaseAt)
  \/ ClosedBySequence /\ Answered(closedAt)

AnswerIsHeard == Unheard ~> ~Unheard

(* The sequence closes a ticket once for each pair of reminders, although  *)
(* a person opens it again (_closed_this_cycle). One sweep at a time.      *)
ClosedOncePerCycle ==
  [][closedAt' # closedAt /\ closedAt # Never =>
       \E r \in Rows : kind[r] = Second /\ status[r] = "sent" /\ sent[r] > closedAt]_vars

(* customer_ops.py:692: reminders that have not left are removed, "or the  *)
(* customer who just answered is told that he did not".                    *)
ReminderOnlyWhileWaiting ==
  [][\A r \in Rows : kind[r] = "none" /\ kind'[r] \in ReminderKinds => stage = Contacted]_vars
=============================================================================
