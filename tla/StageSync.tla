----------------------------- MODULE StageSync -----------------------------
(***************************************************************************)
(* The stage of a ticket, which HubSpot, the console, the send worker, the *)
(* reply detector, the sweeps and a one-shot backfill all move, and what   *)
(* hangs on it: the contact's profile, the unsent drafts, the card that    *)
(* asks for a contract, the workbook cell, and the thread itself, which    *)
(* goes when the ticket leaves the pipeline.                               *)
(*                                                                         *)
(* Code: src/agents/stage_sync.py, hubspot_reconcile.py, inbound_poller.py,*)
(* hubspot_backfill.py; src/api/webhook.py; the stage handlers of          *)
(* src/api/routes/customer_ops.py; advance_if_customer_replied in          *)
(* src/agents/ticket_history.py.                                           *)
(*                                                                         *)
(* All tickets belong to one contact; a higher number is a newer inquiry.  *)
(* A transaction is one step, except two that decide on a stage they have  *)
(* read and write without looking again: the end of a draft and a          *)
(* reminder. Calls to HubSpot and to the workbook, and everything learnt   *)
(* from HubSpot, happen in steps of their own, at any later moment and in  *)
(* any order. Lost and Concluded are treated like Negotiating by every     *)
(* rule below.                                                             *)
(***************************************************************************)
EXTENDS Naturals, FiniteSets

CONSTANTS
  Stages,     \* LOCAL_STAGE_TO_SETTING; "contacted" is meeting_link_sent
  MaxTicket,  \* tickets 1..MaxTicket of the contact
  Active,     \* those that people and our own workers move
  Leaving,    \* those that may leave the pipeline or be deleted
  Starts,     \* where a ticket may stand at first
  MaxMoves,   \* bound: moves, reminders, judged replies, restarts
  Prompt      \* nothing about a ticket is still under way when a sweep
              \* sees its last change for the last time, and no draft is
              \* stored while it does

Tickets == 1..MaxTicket

ASSUME StagesTheCodeNames == {"new", "contacted", "negotiation", "won"} \subseteq Stages
ASSUME NotAStage == {"unmapped", "absent", "none", "answered"} \cap Stages = {}
ASSUME TicketsAreNumbered == MaxTicket \in Nat
ASSUME ActiveAreTickets == Active \subseteq Tickets
ASSUME LeavingAreTickets == Leaving \subseteq Tickets
ASSUME StartsAreIds == Starts \subseteq Stages \cup {"unmapped"}
ASSUME MovesAreBounded == MaxMoves \in Nat
ASSUME PromptIsASwitch == Prompt \in BOOLEAN

VARIABLES
  hs,         \* HubSpot: the stage id of each ticket
  pipe,       \* HubSpot: the pipeline it is in
  changed,    \* HubSpot: its last change, as the stage sweep sees it
  stage,      \* Conversation.stage
  leftNew,    \* Conversation.left_new_at is set
  profile,    \* CustomerProfile.pipeline_stage
  draft,      \* an automatic draft: about to be stored, or unsent
  reminder,   \* a reminder: being copied, unsent, or unsent and too late
  mail,       \* where the mails of the ticket are kept
  card,       \* PendingWon.status of the ticket
  linked,     \* PendingWon.conversation_id is set
  signed,     \* a contract in the ledger names the ticket
  cell,       \* the stage in the workbook row the thread is tied to
  reports,    \* what HubSpot said about a ticket, not yet applied
  calls,      \* writes to HubSpot and the workbook under way
  judged,     \* the stage the reply detector has decided on
  doomed,     \* threads some caller has decided to delete
  sweeping,   \* the stage sweep is between its search and its marker
  moves,      \* decisions of people so far
  unpushed,   \* a local move never reached HubSpot
  missed,     \* the last write of the workbook cell failed
  skipped     \* the stage sweep failed on the row of the ticket, and went on

hubspot == <<hs, pipe, changed>>
thread == <<stage, leftNew, draft, reminder, mail>>
ledger == <<card, linked, signed>>
traffic == <<reports, calls, judged, doomed, sweeping>>
faults == <<unpushed, missed, skipped>>
vars == <<hubspot, thread, profile, ledger, cell, traffic, moves, faults>>

-----------------------------------------------------------------------------
(* A stage id that no setting names.                                       *)
Unmapped == "unmapped"

(* Where a ticket whose stage id we do not know is put.                    *)
LocalStage(s) == IF s = Unmapped THEN "new" ELSE s

PastNew == Stages \ {"new"}

Absent == "absent"
Held(t) == stage[t] # Absent

(* The newest inquiry of the contact: ORDER BY created_at DESC, id DESC.   *)
Newest(t) == Held(t) /\ \A u \in Tickets : u > t => ~Held(u)

Ours(t) == pipe[t] = "ours"

(* Everything that is on its way about a ticket.                           *)
UnderWay(t) ==
  \/ \E r \in reports : r.ticket = t
  \/ \E c \in calls : c.ticket = t
  \/ t \in doomed
  \/ judged[t] # "none"
  \/ draft[t] = "finishing"

Report(t, s, by, known) == [ticket |-> t, stage |-> s, by |-> by, known |-> known]
Call(t, s, at) == [ticket |-> t, stage |-> s, at |-> at]

(* Mutant: only a stage that moved is mirrored.                            *)
MirrorIfMoved(t, s) ==
  IF cell[t] = Absent \/ stage[t] = s THEN {} ELSE {Call(t, s, "workbook")}

(* update_inbound_stage writes only a row the inquiry already has.         *)
MirrorOf(t, s) == IF cell[t] = Absent THEN {} ELSE {Call(t, s, "workbook")}

PushOf(t, s) == {Call(t, s, IF cell[t] = Absent THEN "hubspot" ELSE "both")}

-----------------------------------------------------------------------------
(* What a move of one ticket does to our own tables                        *)

(* _retire_superseded_drafts, the automatic draft.                         *)
DraftAfter(t, s) == IF draft[t] = "waiting" /\ s \in PastNew THEN "none" ELSE draft[t]

(* Rows of the database; a reminder that is being copied is none yet.      *)
ReminderIsUnsent(t) == reminder[t] \in {"waiting", "late"}

(* Mutant: a move leaves the reminders alone.                              *)
ReminderStays(t, s) == reminder[t]

(* The reminder outlives a move to Contacted, and one back to New.         *)
ReminderAfter(t, s) ==
  IF ReminderIsUnsent(t) /\ s \notin {"new", "contacted"} THEN "none" ELSE reminder[t]

(* _retire_pending_won                                                     *)
CardAfter(t, s) ==
  IF s # "won" /\ card[t] = "pending" /\ linked[t] THEN "dismissed" ELSE card[t]

(* Mutant: a card that was taken down is not put up again.                *)
CardLeftDismissed(t) ==
  IF card[t] = "none" /\ ~signed[t] THEN "pending" ELSE card[t]

(* _enqueue_pending_won                                                    *)
CardAtWon(t) ==
  CASE card[t] = "none" -> IF signed[t] THEN "none" ELSE "pending"
    [] card[t] = "done" -> "done"
    [] OTHER -> IF signed[t] THEN "done" ELSE "pending"

(* Conversation.stage is set; its listener notes when New is left.         *)
SetStage(t, s) ==
  /\ stage' = [stage EXCEPT ![t] = s]
  /\ leftNew' = [leftNew EXCEPT ![t] = @ \/ s \notin {"new", Absent}]

(* Mutant: drafts are looked for only when the stage has moved.            *)
RetireIfMoved(t, s) ==
  /\ draft' = [draft EXCEPT ![t] = IF stage[t] = s THEN @ ELSE DraftAfter(t, s)]
  /\ reminder' = [reminder EXCEPT ![t] = ReminderAfter(t, s)]

(* Drafts and reminders follow, whether or not the stage is another.       *)
Retire(t, s) ==
  /\ draft' = [draft EXCEPT ![t] = DraftAfter(t, s)]
  /\ reminder' = [reminder EXCEPT ![t] = ReminderAfter(t, s)]

Decide == moves < MaxMoves /\ moves' = moves + 1

(* The profile shows the newest inquiry only.                              *)
ProfileAfter(t, s) == IF Newest(t) THEN s ELSE profile

-----------------------------------------------------------------------------
(* sync_stage_from_hubspot                                                 *)

(* _handle_unmapped_stage: a thread whose ticket is now elsewhere goes.    *)
(* When the pipeline cannot be read, or the ticket is gone, nothing is     *)
(* known and nothing is done.                                              *)
HandleUnmapped(t) ==
  /\ \/ Held(t) /\ pipe[t] = "other" /\ doomed' = doomed \cup {t}
     \/ UNCHANGED doomed
  /\ UNCHANGED <<thread, profile, ledger, calls>>

(* A stage we know, on a thread we hold: the same rules whether or not     *)
(* anything moved, and the mirror after the commit.                        *)
Align(t, s) ==
  /\ SetStage(t, s)
  /\ Retire(t, s)
  /\ profile' = ProfileAfter(t, s)
  /\ card' = [card EXCEPT ![t] = IF s = "won" THEN CardAtWon(t) ELSE CardAfter(t, s)]
  /\ linked' = [linked EXCEPT ![t] = @ \/ (card[t] = "none" /\ card'[t] = "pending")]
  /\ calls' = calls \cup MirrorOf(t, s)
  /\ UNCHANGED <<mail, signed, doomed>>

SyncStage(t, s) ==
  IF s = Unmapped THEN HandleUnmapped(t)
  ELSE IF ~Held(t) THEN UNCHANGED <<thread, profile, ledger, calls, doomed>>
  ELSE Align(t, s)

(* adopt_ticket: a thread without mail, a draft, a card or a workbook row; *)
(* the profile takes its stage, newest or not.                             *)
Adopt(t, s) ==
  LET local == LocalStage(s) IN
  /\ SetStage(t, local)
  /\ profile' = local
  /\ UNCHANGED <<draft, reminder, mail, ledger, calls, doomed>>

(* One report is applied: a webhook event, a row of the sweep, or a read   *)
(* of the operator's own check.                                            *)
Apply(r) ==
  /\ r \in reports
  /\ r.by # "intake"
  /\ reports' = reports \ {r}
  /\ IF r.by = "sweep" /\ ~r.known
     THEN IF Held(r.ticket) THEN UNCHANGED <<thread, profile, ledger, calls, doomed>>
          ELSE Adopt(r.ticket, r.stage)
     ELSE SyncStage(r.ticket, r.stage)
  /\ skipped' = [skipped EXCEPT ![r.ticket] = @ /\ r.by # "sweep"]
  /\ UNCHANGED <<hubspot, cell, judged, sweeping, moves, unpushed, missed>>

(* One row of the sweep raises: it is logged, and the sweep goes on.       *)
SkipRow(r) ==
  /\ Decide
  /\ r \in reports
  /\ r.by = "sweep"
  /\ reports' = reports \ {r}
  /\ skipped' = [skipped EXCEPT ![r.ticket] = TRUE]
  /\ UNCHANGED <<hubspot, thread, profile, ledger, cell, calls, judged, doomed, sweeping,
                 unpushed, missed>>

-----------------------------------------------------------------------------
(* reconcile_ticket_stages_once                                            *)

(* Mutant: the search asks only for what changed since the last marker.    *)
InNarrowWindow(t) == Ours(t) /\ changed[t] = "fresh"

(* POLL_OVERLAP is longer than the interval, so a change is found twice.   *)
InWindow(t) == Ours(t) /\ changed[t] # "old"

Search ==
  /\ ~sweeping
  /\ Prompt => \A t \in Tickets : changed[t] = "recent" => ~UnderWay(t)
  /\ \E t \in Tickets : InWindow(t)
  /\ sweeping' = TRUE
  /\ reports' = reports \cup
       {Report(t, hs[t], "sweep", Held(t)) : t \in {u \in Tickets : InWindow(u)}}
  /\ changed' = [t \in Tickets |-> IF InWindow(t)
                                   THEN IF changed[t] = "fresh" THEN "searched" ELSE "passing"
                                   ELSE changed[t]]
  /\ UNCHANGED <<hs, pipe, thread, profile, ledger, cell, calls, judged, doomed, moves, faults>>

(* The marker is saved after the last row.                                 *)
SaveMarker ==
  /\ sweeping
  /\ \A r \in reports : r.by # "sweep"
  /\ sweeping' = FALSE
  /\ changed' = [t \in Tickets |-> CASE changed[t] = "searched" -> "recent"
                                     [] changed[t] = "passing" -> "old"
                                     [] OTHER -> changed[t]]
  /\ UNCHANGED <<hs, pipe, thread, profile, ledger, cell, reports, calls, judged, doomed,
                 moves, faults>>

-----------------------------------------------------------------------------
(* HubSpot                                                                 *)

(* The ticket carries another stage id now; the webhook that says so may   *)
(* never arrive.                                                           *)
Becomes(t, s) ==
  /\ hs' = [hs EXCEPT ![t] = s]
  /\ changed' = [changed EXCEPT ![t] = "fresh"]
  /\ \/ reports' = reports \cup {Report(t, s, "webhook", TRUE)}
     \/ UNCHANGED reports
  /\ unpushed' = [unpushed EXCEPT ![t] = FALSE]
  /\ skipped' = [skipped EXCEPT ![t] = FALSE]

PersonMoves(t, s) ==
  /\ Decide
  /\ Ours(t)
  /\ hs[t] # s
  /\ Becomes(t, s)
  /\ UNCHANGED <<pipe, thread, profile, ledger, cell, calls, judged, doomed, sweeping, missed>>

PersonBrings(t, s) ==
  /\ Decide
  /\ pipe[t] = "other"
  /\ pipe' = [pipe EXCEPT ![t] = "ours"]
  /\ Becomes(t, s)
  /\ UNCHANGED <<thread, profile, ledger, cell, calls, judged, doomed, sweeping, missed>>

PersonTakesAway(t) ==
  /\ Decide
  /\ t \in Leaving
  /\ Ours(t)
  /\ pipe' = [pipe EXCEPT ![t] = "other"]
  /\ Becomes(t, Unmapped)
  /\ UNCHANGED <<thread, profile, ledger, cell, calls, judged, doomed, sweeping, missed>>

PersonDeletes(t) ==
  /\ Decide
  /\ t \in Leaving
  /\ pipe[t] # "deleted"
  /\ pipe' = [pipe EXCEPT ![t] = "deleted"]
  /\ UNCHANGED <<hs, changed, thread, profile, ledger, cell, traffic, faults>>

-----------------------------------------------------------------------------
(* The thread of a ticket that is gone                                     *)

(* _handle_deletion (a webhook) and the passes of reconcile_with_hubspot   *)
(* that found the ticket deleted or in another pipeline.                   *)
FindGone(t) ==
  /\ Held(t)
  /\ ~Ours(t)
  /\ doomed' = doomed \cup {t}
  /\ UNCHANGED <<hubspot, thread, profile, ledger, cell, reports, calls, judged, sweeping,
                 moves, faults>>

(* reconcile_with_hubspot reads each ticket with an unsent draft.          *)
ReadAgain(t) ==
  /\ Decide
  /\ draft[t] = "waiting" \/ ReminderIsUnsent(t)
  /\ Ours(t)
  /\ reports' = reports \cup {Report(t, hs[t], "manual", TRUE)}
  /\ UNCHANGED <<hubspot, thread, profile, ledger, cell, calls, judged, doomed, sweeping, faults>>

(* Mutant: the thread that goes counts as another inquiry.                 *)
KeepsCountingItself(t) ==
  \/ \E u \in Tickets : Held(u)
  \/ \E u \in Tickets : mail[u] = "history"
  \/ \E u \in Tickets : signed[u]

(* _still_has_something: another inquiry, a line in the contact's history, *)
(* or a customer of the ledger.                                            *)
StillHasSomething(t) ==
  \/ \E u \in Tickets \ {t} : Held(u)
  \/ \E u \in Tickets : mail[u] = "history"
  \/ \E u \in Tickets : signed[u]

(* _archive_messages, or everything goes with the contact.                 *)
MailAfter(t) ==
  IF StillHasSomething(t)
  THEN [mail EXCEPT ![t] = IF @ = "thread" THEN "history" ELSE @]
  ELSE [u \in Tickets |-> "none"]

(* delete_conversation; the foreign key of the card is set to NULL, and    *)
(* nothing ties a later thread to the old row. A second caller finds no    *)
(* thread any more.                                                        *)
DeleteConversation(t) ==
  /\ t \in doomed
  /\ doomed' = doomed \ {t}
  /\ stage' = [stage EXCEPT ![t] = Absent]
  /\ leftNew' = [leftNew EXCEPT ![t] = FALSE]
  /\ draft' = [draft EXCEPT ![t] = "none"]
  /\ reminder' = [reminder EXCEPT ![t] = "none"]
  /\ mail' = MailAfter(t)
  /\ profile' = IF StillHasSomething(t) THEN profile ELSE "none"
  /\ linked' = [linked EXCEPT ![t] = FALSE]
  /\ cell' = [cell EXCEPT ![t] = Absent]
  /\ UNCHANGED <<hubspot, card, signed, reports, calls, judged, sweeping, moves, faults>>

-----------------------------------------------------------------------------
(* The console and our own workers                                         *)

(* _set_conversation_stage, then _sync_stage.                              *)
BoardMove(t, s) ==
  /\ SetStage(t, s)
  /\ Retire(t, s)
  /\ card' = [card EXCEPT ![t] = CardAfter(t, s)]
  /\ profile' = ProfileAfter(t, s)
  /\ calls' = calls \cup PushOf(t, s)
  /\ UNCHANGED <<mail, linked, signed>>

OperatorMoves(t, s) ==
  /\ Decide
  /\ Held(t)
  /\ BoardMove(t, s)
  /\ UNCHANGED <<hubspot, cell, reports, judged, doomed, sweeping, faults>>

(* _set_local_stage and customer_profile_save move the newest inquiry and  *)
(* the profile, whatever the profile said.                                 *)
OperatorMovesCustomer(s) == \E t \in Tickets : Newest(t) /\ OperatorMoves(t, s)

(* InboundAgent.handle fetches a New ticket; the model is called; the rows *)
(* are written later.                                                      *)
FetchNew(t) ==
  /\ Ours(t)
  /\ hs[t] = "new"
  /\ mail[t] = "none"
  /\ reports' = reports \cup {Report(t, "new", "intake", TRUE)}
  /\ UNCHANGED <<hubspot, thread, profile, ledger, cell, calls, judged, doomed, sweeping,
                 moves, faults>>

(* _persist_placeholder: the thread is made at New, or found as it is.     *)
TakeIn(r) ==
  LET t == r.ticket IN
  /\ r \in reports
  /\ r.by = "intake"
  /\ reports' = reports \ {r}
  /\ IF Held(t) THEN UNCHANGED <<stage, leftNew>> ELSE SetStage(t, "new")
  /\ profile' = IF profile = "none" THEN "new" ELSE profile
  /\ mail' = [mail EXCEPT ![t] = "thread"]
  /\ UNCHANGED <<hubspot, draft, reminder, ledger, cell, calls, judged, doomed, sweeping,
                 moves, faults>>

(* _finalize_draft reads the stage. Past New the draft goes with the same  *)
(* commit, and nothing is left of it.                                      *)
BeginFinish(t) ==
  /\ Prompt => changed[t] # "passing"
  /\ stage[t] = "new"
  /\ mail[t] = "thread"
  /\ draft[t] = "none"
  /\ draft' = [draft EXCEPT ![t] = "finishing"]
  /\ UNCHANGED <<hubspot, stage, leftNew, reminder, mail, profile, ledger, cell, traffic,
                 moves, faults>>

(* Its commit, wherever the ticket is by now.                              *)
FinishDraft(t) ==
  /\ draft[t] = "finishing"
  /\ draft' = [draft EXCEPT ![t] = "waiting"]
  /\ UNCHANGED <<hubspot, stage, leftNew, reminder, mail, profile, ledger, cell, traffic,
                 moves, faults>>

(* _record_delivery: a sent reply moves New to Contacted, and the profile  *)
(* is left behind.                                                         *)
SendReply(t) ==
  /\ draft[t] = "waiting"
  /\ draft' = [draft EXCEPT ![t] = "none"]
  /\ IF stage[t] = "new"
     THEN SetStage(t, "contacted") /\ calls' = calls \cup PushOf(t, "contacted")
     ELSE UNCHANGED <<stage, leftNew, calls>>
  /\ UNCHANGED <<hubspot, reminder, mail, profile, ledger, cell, reports, judged, doomed,
                 sweeping, moves, faults>>

Remind(t, from, to) ==
  /\ reminder[t] = from
  /\ reminder' = [reminder EXCEPT ![t] = to]
  /\ UNCHANGED <<hubspot, stage, leftNew, draft, mail, profile, ledger, cell, traffic, faults>>

(* The follow-up sweep finds the ticket at Contacted once more (_recheck); *)
(* the reply is copied and translated.                                     *)
BeginReminder(t) ==
  /\ Decide
  /\ stage[t] = "contacted"
  /\ Remind(t, "none", "copying")

(* _create_reminder looks at the mails again, not at the stage. One that   *)
(* comes where reminders no longer belong is late.                         *)
CreateReminder(t) ==
  /\ Remind(t, "copying", IF stage[t] \in {"contacted", "new"} THEN "waiting" ELSE "late")
  /\ UNCHANGED moves

(* The copy fails, or the step is no longer due.                           *)
GiveUpReminder(t) == Remind(t, "copying", "none") /\ UNCHANGED moves

(* It is mailed, whatever the stage.                                       *)
MailReminder(t) ==
  /\ \E from \in {"waiting", "late"} : Remind(t, from, "none")
  /\ UNCHANGED moves

(* advance_if_customer_replied reads the stage, then the conversation.     *)
(* From New it decides on Contacted or Negotiating once, from Contacted on *)
(* Negotiating.                                                            *)
JudgeReply(t, s) ==
  /\ Decide
  /\ judged[t] = "none"
  /\ \/ stage[t] = "contacted" /\ s = "negotiation"
     \/ stage[t] = "new" /\ ~leftNew[t] /\ s \in {"contacted", "negotiation"}
  /\ judged' = [judged EXCEPT ![t] = IF stage[t] = "new" THEN s ELSE "answered"]
  /\ UNCHANGED <<hubspot, thread, profile, ledger, cell, reports, calls, doomed, sweeping, faults>>

(* _advance_on_customer_reply keeps the drafts a person may be writing and *)
(* the card, and drops the reminders.                                      *)
AdvanceOnReply(t) ==
  /\ judged[t] = "answered"
  /\ Held(t)
  /\ judged' = [judged EXCEPT ![t] = "none"]
  /\ SetStage(t, "negotiation")
  /\ reminder' = [reminder EXCEPT ![t] = ReminderAfter(t, "negotiation")]
  /\ profile' = ProfileAfter(t, "negotiation")
  /\ calls' = calls \cup PushOf(t, "negotiation")
  /\ UNCHANGED <<hubspot, draft, mail, ledger, cell, reports, doomed, sweeping, moves, faults>>

(* _move_answered_elsewhere                                                *)
MoveAnsweredElsewhere(t) ==
  /\ judged[t] \in Stages
  /\ Held(t)
  /\ judged' = [judged EXCEPT ![t] = "none"]
  /\ BoardMove(t, judged[t])
  /\ UNCHANGED <<hubspot, cell, reports, doomed, sweeping, moves, faults>>

(* The thread is gone: _set_conversation_stage raises and nothing moves.   *)
ForgetJudgement(t) ==
  /\ judged[t] # "none"
  /\ ~Held(t)
  /\ judged' = [judged EXCEPT ![t] = "none"]
  /\ UNCHANGED <<hubspot, thread, profile, ledger, cell, reports, calls, doomed, sweeping,
                 moves, faults>>

(* A contract that names the ticket: typed in the console it closes a      *)
(* pending card (_claim_ticket); read from the workbook it does not.       *)
SignContract(t, typed) ==
  /\ ~signed[t]
  /\ stage[t] = "won"
  /\ signed' = [signed EXCEPT ![t] = TRUE]
  /\ card' = [card EXCEPT ![t] = IF typed /\ @ = "pending" THEN "done" ELSE @]
  /\ UNCHANGED <<hubspot, thread, profile, linked, cell, traffic, moves, faults>>

(* backfill_b2b_pipeline reads every ticket of the pipeline and writes all *)
(* of them in one transaction; the profile shows whichever came last.      *)
Backfill ==
  LET found == {t \in Tickets : Ours(t)}
      local(t) == LocalStage(hs[t])
      movedOn == {t \in found : Held(t) /\ stage[t] # local(t)}
  IN
  /\ Decide
  /\ found # {}
  /\ stage' = [t \in Tickets |-> IF t \in found THEN local(t) ELSE stage[t]]
  /\ leftNew' = [t \in Tickets |-> leftNew[t] \/ (t \in found /\ local(t) # "new")]
  /\ draft' = [t \in Tickets |-> IF t \in movedOn THEN DraftAfter(t, local(t)) ELSE draft[t]]
  /\ reminder' = [t \in Tickets |->
                    IF t \in movedOn THEN ReminderAfter(t, local(t)) ELSE reminder[t]]
  /\ card' = [t \in Tickets |-> IF t \in movedOn THEN CardAfter(t, local(t)) ELSE card[t]]
  /\ \E t \in found : profile' = local(t)
  /\ UNCHANGED <<hubspot, mail, linked, signed, cell, traffic, faults>>

-----------------------------------------------------------------------------
(* Calls to the outside                                                    *)

(* The workbook is written, or the call fails; the push to HubSpot follows *)
(* either way.                                                             *)
WriteCell(c) ==
  /\ c \in calls
  /\ c.at \in {"workbook", "both"}
  /\ \/ /\ cell' = [cell EXCEPT ![c.ticket] = IF @ = Absent THEN @ ELSE c.stage]
        /\ missed' = [missed EXCEPT ![c.ticket] = FALSE]
     \/ /\ missed' = [missed EXCEPT ![c.ticket] = TRUE]
        /\ UNCHANGED cell
  /\ calls' = (calls \ {c}) \cup
       IF c.at = "both" THEN {Call(c.ticket, c.stage, "hubspot")} ELSE {}
  /\ UNCHANGED <<hubspot, thread, profile, ledger, reports, judged, doomed, sweeping, moves,
                 unpushed, skipped>>

(* update_ticket_stage_sync; a ticket that is elsewhere refuses the id.    *)
PushStage(c) ==
  /\ c \in calls
  /\ c.at = "hubspot"
  /\ calls' = calls \ {c}
  /\ \/ /\ Ours(c.ticket)
        /\ IF hs[c.ticket] = c.stage THEN UNCHANGED <<hs, changed, reports, unpushed, skipped>>
           ELSE Becomes(c.ticket, c.stage)
     \/ /\ unpushed' = [unpushed EXCEPT ![c.ticket] = TRUE]
        /\ UNCHANGED <<hs, changed, reports, skipped>>
  /\ UNCHANGED <<pipe, thread, profile, ledger, cell, judged, doomed, sweeping, moves, missed>>

(* The process ends: what it was about to do is lost, what HubSpot still   *)
(* has to deliver is not, and the marker keeps its old value. The job of a *)
(* draft that was not stored starts again.                                 *)
Restart ==
  /\ \/ sweeping \/ calls # {} \/ doomed # {}
     \/ \E t \in Tickets :
          judged[t] # "none" \/ draft[t] = "finishing" \/ reminder[t] = "copying"
  /\ Decide
  /\ sweeping' = FALSE
  /\ reports' = {r \in reports : r.by = "webhook"}
  /\ calls' = {}
  /\ doomed' = {}
  /\ judged' = [t \in Tickets |-> "none"]
  /\ draft' = [t \in Tickets |-> IF draft[t] = "finishing" THEN "none" ELSE draft[t]]
  /\ reminder' = [t \in Tickets |-> IF reminder[t] = "copying" THEN "none" ELSE reminder[t]]
  /\ changed' = [t \in Tickets |-> CASE changed[t] = "searched" -> "fresh"
                                     [] changed[t] = "passing" -> "recent"
                                     [] OTHER -> changed[t]]
  /\ unpushed' = [t \in Tickets |-> unpushed[t] \/ \E c \in calls :
                                      c.ticket = t /\ c.at # "workbook"]
  /\ missed' = [t \in Tickets |-> missed[t] \/ \E c \in calls :
                                      c.ticket = t /\ c.at # "hubspot"]
  /\ UNCHANGED <<hs, pipe, stage, leftNew, mail, profile, ledger, cell, skipped>>

-----------------------------------------------------------------------------
(* A ticket we hold agrees with HubSpot and its row; one we do not hold is *)
(* in another pipeline.                                                    *)
Init ==
  /\ hs \in [Tickets -> Starts]
  /\ pipe = [t \in Tickets |-> IF hs[t] = Unmapped THEN "other" ELSE "ours"]
  /\ stage = [t \in Tickets |-> IF hs[t] = Unmapped THEN Absent ELSE hs[t]]
  /\ changed = [t \in Tickets |-> "old"]
  /\ leftNew = [t \in Tickets |-> Held(t) /\ stage[t] # "new"]
  /\ cell = stage
  /\ mail = [t \in Tickets |-> IF Held(t) THEN "thread" ELSE "none"]
  /\ card = [t \in Tickets |-> IF hs[t] = "won" THEN "pending" ELSE "none"]
  /\ linked = [t \in Tickets |-> hs[t] = "won"]
  /\ signed = [t \in Tickets |-> FALSE]
  /\ draft = [t \in Tickets |-> "none"]
  /\ reminder = [t \in Tickets |-> "none"]
  /\ \/ \E t \in Tickets : Newest(t) /\ profile = stage[t]
     \/ (\A t \in Tickets : ~Held(t)) /\ profile = "none"
  /\ reports = {} /\ calls = {} /\ doomed = {}
  /\ judged = [t \in Tickets |-> "none"]
  /\ sweeping = FALSE
  /\ moves = 0
  /\ unpushed = [t \in Tickets |-> FALSE]
  /\ missed = [t \in Tickets |-> FALSE]
  /\ skipped = [t \in Tickets |-> FALSE]

People ==
  \/ \E t \in Active :
       \/ \E s \in Stages \cup {Unmapped} : PersonMoves(t, s) \/ PersonBrings(t, s)
       \/ \E s \in Stages : OperatorMoves(t, s) \/ JudgeReply(t, s)
  \/ \E t \in Tickets :
       PersonTakesAway(t) \/ PersonDeletes(t)
  \/ \E t \in Active : ReadAgain(t) \/ BeginReminder(t)
  \/ \E t \in Active, typed \in BOOLEAN : SignContract(t, typed)
  \/ \E s \in Stages : OperatorMovesCustomer(s)
  \/ Backfill
  \/ Restart

Drafting == \E t \in Tickets : FetchNew(t) \/ BeginFinish(t) \/ FinishDraft(t) \/ SendReply(t)

Reminding == \E t \in Tickets : CreateReminder(t) \/ GiveUpReminder(t) \/ MailReminder(t)

Advance == \E t \in Tickets : AdvanceOnReply(t) \/ MoveAnsweredElsewhere(t) \/ ForgetJudgement(t)

Sweep == Search \/ SaveMarker

Gone == \E t \in Tickets : FindGone(t) \/ DeleteConversation(t)

Hear == \E r \in reports : Apply(r) \/ TakeIn(r)

Skip == \E r \in reports : SkipRow(r)

Write == \E c \in calls : WriteCell(c) \/ PushStage(c)

Next == People \/ Drafting \/ Reminding \/ Advance \/ Sweep \/ Gone \/ Hear \/ Skip \/ Write

Spec == Init /\ [][Next]_vars

(* The poller, the webhook route, the calls and the end of a draft go on;  *)
(* a person need not.                                                      *)
Fairness ==
  /\ WF_vars(Sweep)
  /\ WF_vars(Hear)
  /\ WF_vars(Write)
  /\ WF_vars(Advance)
  /\ WF_vars(\E t \in Tickets : DeleteConversation(t))
  /\ WF_vars(\E t \in Tickets : FinishDraft(t))

FairSpec == Spec /\ Fairness

-----------------------------------------------------------------------------
Reports ==
  [ticket : Tickets, stage : Stages \cup {Unmapped},
   by : {"webhook", "sweep", "manual", "intake"}, known : BOOLEAN]

Calls == [ticket : Tickets, stage : Stages, at : {"workbook", "both", "hubspot"}]

TypeOK ==
  /\ hs \in [Tickets -> Stages \cup {Unmapped}]
  /\ pipe \in [Tickets -> {"ours", "other", "deleted"}]
  /\ changed \in [Tickets -> {"fresh", "searched", "recent", "passing", "old"}]
  /\ stage \in [Tickets -> Stages \cup {Absent}]
  /\ leftNew \in [Tickets -> BOOLEAN]
  /\ profile \in Stages \cup {"none"}
  /\ draft \in [Tickets -> {"none", "finishing", "waiting"}]
  /\ reminder \in [Tickets -> {"none", "copying", "waiting", "late"}]
  /\ mail \in [Tickets -> {"none", "thread", "history"}]
  /\ card \in [Tickets -> {"none", "pending", "dismissed", "done"}]
  /\ linked \in [Tickets -> BOOLEAN]
  /\ signed \in [Tickets -> BOOLEAN]
  /\ cell \in [Tickets -> Stages \cup {Absent}]
  /\ reports \subseteq Reports
  /\ calls \subseteq Calls
  /\ judged \in [Tickets -> {"none", "answered", "contacted", "negotiation"}]
  /\ doomed \subseteq Tickets
  /\ sweeping \in BOOLEAN
  /\ moves \in 0..MaxMoves
  /\ unpushed \in [Tickets -> BOOLEAN]
  /\ missed \in [Tickets -> BOOLEAN]
  /\ skipped \in [Tickets -> BOOLEAN]

(* Whoever moves a ticket takes down the reminder that nobody has mailed   *)
(* yet: it waits only at Contacted, or where the ticket was taken back to  *)
(* New. One that was still being copied when the ticket moved on is        *)
(* created all the same, and is the exception ("late").                    *)
RemindersFitStage ==
  \A t \in Tickets : reminder[t] = "waiting" => stage[t] \in {"contacted", "new"}

(* A contact without a thread has no profile.                              *)
NobodyLeft ==
  (\A t \in Tickets : ~Held(t) /\ mail[t] = "none" /\ ~signed[t]) => profile = "none"

(* A closed card never asks again.                                         *)
DoneCardStays ==
  [][\A t \in Tickets : card[t] = "done" => card'[t] = "done"]_vars

(* Mails leave our tables only with the last trace of the customer.        *)
MailIsKept ==
  [][\A t \in Tickets : mail[t] # "none" /\ mail'[t] = "none" =>
        \A u \in Tickets : ~Held(u)' /\ ~signed[u]]_vars

(* HubSpot holds a ticket of ours at a stage we know, and neither a push   *)
(* nor the row of the ticket in the sweep has failed since it last moved.  *)
Told(t) == Ours(t) /\ hs[t] # Unmapped /\ ~unpushed[t] /\ ~skipped[t]

(* HubSpot settles on a stage we know: so do we.                           *)
Converges ==
  \A t \in Tickets :
    <>[]Told(t) => <>[](stage[t] = hs[t])

(* So does the row of the workbook.                                        *)
WorkbookFollows ==
  \A t \in Tickets :
    <>[](Told(t) /\ ~missed[t]) =>
      <>[](cell[t] \in {Absent, stage[t]})

(* The cards follow the tickets. One that stays at Won and keeps its row   *)
(* in the workbook ends up on a card or on a contract; a thread that was   *)
(* taken down and adopted again has no row, and need not be seen twice.    *)
(* One that has left Won for good has no card.                             *)
CardFollows ==
  \A t \in Tickets :
    /\ <>[](Told(t) /\ hs[t] = "won" /\ cell[t] # Absent)
       => <>[](signed[t] \/ card[t] \in {"pending", "done"})
    /\ <>[](Told(t) /\ hs[t] # "won")
       => <>[](card[t] = "pending" => ~linked[t])

(* The reply detector moves a ticket on from New or Contacted, never back  *)
(* from what came after.                                                   *)
AnswerMovesForward ==
  [][\A t \in Tickets :
       judged[t] # "none" /\ judged'[t] = "none" /\ Held(t)' /\ stage'[t] # stage[t] =>
         stage[t] \in {"new", "contacted"}]_vars

(* A draft for a ticket that is past New does not wait for ever.           *)
LateDraftLeaves ==
  \A t \in Tickets :
    <>[](Told(t) /\ hs[t] \in PastNew) => <>[](draft[t] = "none")
=============================================================================
