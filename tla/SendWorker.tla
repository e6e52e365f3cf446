----------------------------- MODULE SendWorker -----------------------------
(***************************************************************************)
(* One reply from the first draft to the customer's inbox: the message     *)
(* rows, the console handlers that write them, the draft writer, the sweep *)
(* that removes overtaken drafts, the thread collector, the send workers   *)
(* and the mail provider.                                                  *)
(*                                                                         *)
(* Code: src/agents/send_worker.py, src/agents/approval.py,                *)
(* src/agents/reply_safety.py, src/integrations/senders/__init__.py and    *)
(* the handlers of src/api/routes that write a message's status.           *)
(*                                                                         *)
(* Atomicity. A handler that runs on the event loop is one step between    *)
(* two awaits, and what runs in a thread is one step per transaction,      *)
(* except where the code reads the status of a row, and decides on it, and *)
(* writes the row later: approving, which asks for the status once more in *)
(* its UPDATE; and retiring, redrafting, closing, clearing and settling,   *)
(* which write the row by its id, whatever it has become. Those seven run  *)
(* beside each other, in threads or in two processes, and each at most     *)
(* once at a time on a row.                                                *)
(***************************************************************************)
EXTENDS Naturals, FiniteSets

CONSTANTS
  Messages,     \* rows of `messages` with direction "outgoing"
  Reminders,    \* those created already approved, with no reviewed binding
  Workers,      \* send loops and inline senders, over all processes
  Bodies,       \* texts; all fields of the approval binding together
  NoBody,
  NoMessage,
  NoWorker,
  Handlers,     \* bound: those that read and write apart, of all Asks
  Repeated,     \* bound: those that may begin on a row once written over
  MaxBegun,     \* bound: handlers between their read and write at once
  MaxRetries    \* SEND_TRANSIENT_MAX_RETRIES

ASSUME RemindersAreMessages == Reminders \subseteq Messages
ASSUME NoBodyIsNoText == NoBody \notin Bodies
ASSUME NoMessageIsNoRow == NoMessage \notin Messages
ASSUME MaxRetriesPositive == MaxRetries \in Nat \ {0}

VARIABLES
  status,       \* [Messages -> Statuses]; "gone" is a deleted row
  owner,        \* the worker id inside `sending:<pid>:<random>`, gone with it
  body,         \* text stored in the row
  binding,      \* last reply_approval event, NoBody when there is none
  fresh,        \* the draft's evidence is still what the thread says
  drafting,     \* an inbound job is writing this row
  approving,    \* approve() between its read and its UPDATE
  translating,  \* message_translate() while the model answers
  retiring,     \* _delete_pending_drafts() between SELECT and DELETE
  decided,      \* what other handlers will write to the row they have read
  pc,           \* where each worker is in _send_one / send
  msg,          \* the row it works on
  inHand,       \* the text of the row object it loaded
  tries,        \* transient failures of this _send_one
  fallback,     \* the cross-inbox attempt may still fall back
  earlier,      \* history: somebody has decided anew since the row was claimed
  since,        \* history: mails of the last decision that were delivered
  sanctioned,   \* history: the text the last approval was about
  copies,       \* copies in the customer's thread since that approval
  overwritten   \* history: a handler wrote the row when it no longer was
                \* what the handler had read

rows == <<status, owner, body, binding, fresh>>
desk == <<drafting, approving, translating, retiring, decided>>
work == <<pc, msg, inHand, tries, fallback, earlier>>
past == <<since, sanctioned, copies, overwritten>>
vars == <<rows, desk, work, past>>

-----------------------------------------------------------------------------
(* Values                                                                  *)

Statuses ==
  {"drafting", "draft_failed", "pending_approval", "approved", "sending",
   "sent", "test_sent", "send_failed", "delivery_unknown", "rejected",
   "superseded", "gone"}

(* approval.approve and approval.reject take these two.                    *)
Approvable == {"pending_approval", "send_failed"}
(* stage_sync._SUPERSEDABLE                                                *)
Supersedable == {"pending_approval", "approved", "draft_failed", "send_failed"}
(* messages._OPEN_DRAFT_STATUSES                                           *)
OpenDraft == {"drafting", "pending_approval", "approved", "send_failed"}
(* What request_redraft and clear_send_failures take.                      *)
Failed == {"send_failed", "draft_failed"}

(* What each of them reads, and what it writes later.                      *)
Asks ==
  [redraft |-> Failed, clear |-> Failed, close |-> OpenDraft,
   sent |-> {"delivery_unknown"}, unsent |-> {"delivery_unknown"},
   settle |-> {"delivery_unknown"}]

Writes ==
  [redraft |-> "drafting", clear |-> "rejected", close |-> "superseded",
   sent |-> "sent", unsent |-> "approved", settle |-> "sent"]

ASSUME HandlersAreKnown == Handlers \subseteq DOMAIN Asks

Steps ==
  {"idle", "claimed", "loaded", "looked", "posting",
   "accepted", "unknown", "refused", "disabled"}

NoApproval == [text |-> NoBody, writes |-> FALSE]
Approvals == [text : Bodies, writes : BOOLEAN] \cup {NoApproval}

Working(w) == pc[w] # "idle"
Holds(w, m) == Working(w) /\ msg[w] = m
Held(m) == \E w \in Workers : Holds(w, m)

(* validate_draft_context: reminders carry no reply_context trace and are  *)
(* not checked.                                                            *)
EvidenceCurrent(m) == m \in Reminders \/ fresh[m]

(* Bound on the handlers that have read a row and not written it yet.      *)
MayBegin ==
  MaxBegun >
    Cardinality({m \in Messages : approving[m] # NoApproval})
    + Cardinality({m \in Messages : translating[m] # NoBody})
    + Cardinality({m \in Messages : retiring[m]})
    + Cardinality({at \in Messages \X Handlers : at[2] \in decided[at[1]]})

-----------------------------------------------------------------------------
(* The draft and the people who work on it                                 *)

(* The claim is a part of the status: another status erases it.            *)
SetStatus(m, to) ==
  /\ status' = [status EXCEPT ![m] = to]
  /\ owner' = [owner EXCEPT ![m] = NoWorker]

(* InboundAgent.handle up to the model call. `_existing_pending_draft_id`  *)
(* lets a job back in only on the row it was writing, which is emptied.    *)
StartDraft(m) ==
  /\ m \notin Reminders
  /\ status[m] \in {"drafting", "draft_failed"}
  /\ ~drafting[m]
  /\ drafting' = [drafting EXCEPT ![m] = TRUE]
  /\ status' = [status EXCEPT ![m] = "drafting"]
  /\ body' = [body EXCEPT ![m] = NoBody]
  /\ fresh' = [fresh EXCEPT ![m] = TRUE]
  /\ UNCHANGED <<owner, binding, approving, translating, retiring, decided, work, past>>

(* _finalize_draft: the status is written whatever the row says by now,    *)
(* then _retire_superseded_drafts removes it when the ticket moved on.     *)
FinishDraft(m, text, movedOn) ==
  /\ drafting[m]
  /\ fresh[m]
  /\ drafting' = [drafting EXCEPT ![m] = FALSE]
  /\ IF status[m] = "gone" THEN UNCHANGED <<status, owner, body>>
     ELSE /\ body' = [body EXCEPT ![m] = text]
          /\ SetStatus(m, IF movedOn THEN "gone" ELSE "pending_approval")
  /\ UNCHANGED <<binding, fresh, approving, translating, retiring, decided, work, past>>

(* The model failed, or the thread moved while it wrote.                   *)
FailDraft(m) ==
  /\ drafting[m]
  /\ drafting' = [drafting EXCEPT ![m] = FALSE]
  /\ status' = [status EXCEPT ![m] = IF @ = "drafting" THEN "draft_failed" ELSE @]
  /\ UNCHANGED <<owner, body, binding, fresh, approving, translating, retiring, decided, work, past>>

(* A customer mail, or a change of the policy documents the draft used.    *)
CustomerWrites(m) ==
  /\ m \notin Reminders
  /\ fresh[m]
  /\ fresh' = [fresh EXCEPT ![m] = FALSE]
  /\ UNCHANGED <<status, owner, body, binding, desk, work, past>>

(* message_edit                                                            *)
Edit(m, text) ==
  /\ status[m] = "pending_approval"
  /\ body' = [body EXCEPT ![m] = text]
  /\ UNCHANGED <<status, owner, binding, fresh, desk, work, past>>

(* message_translate checks the status, then waits for the model ...       *)
StartTranslation(m, text) ==
  /\ status[m] = "pending_approval"
  /\ translating[m] = NoBody
  /\ MayBegin
  /\ translating' = [translating EXCEPT ![m] = text]
  /\ UNCHANGED <<rows, drafting, approving, retiring, decided, work, past>>

(* ... and writes the row as it finds it.                                  *)
WriteTranslation(m) ==
  /\ translating[m] # NoBody
  /\ translating' = [translating EXCEPT ![m] = NoBody]
  /\ body' = [body EXCEPT ![m] = IF status[m] = "gone" THEN @ ELSE translating[m]]
  /\ UNCHANGED <<status, owner, binding, fresh, drafting, approving, retiring, decided, work, past>>

(* approve(): evidence and status are read first. The operator may send    *)
(* another text than the stored one; without one the stored text is the    *)
(* candidate and is written back only if preparing it changed it.          *)
StartApproval(m, text, writes) ==
  /\ approving[m] = NoApproval
  /\ MayBegin
  /\ EvidenceCurrent(m)
  /\ status[m] \in Approvable
  /\ writes \/ text = body[m]
  /\ approving' = [approving EXCEPT ![m] = [text |-> text, writes |-> writes]]
  /\ UNCHANGED <<rows, drafting, translating, retiring, decided, work, past>>

(* Mutant: the UPDATE without its status condition.                        *)
ApprovalAlwaysApplies(m) == TRUE

(* The UPDATE ... WHERE status IN (pending_approval, send_failed).         *)
ApprovalApplies(m) == status[m] \in Approvable

(* A person decides about the row. Who still works on it does so for an    *)
(* earlier decision.                                                       *)
DecideAnew(m) ==
  /\ since' = [since EXCEPT ![m] = 0]
  /\ earlier' = [w \in Workers |-> earlier[w] \/ Holds(w, m)]

CommitApproval(m) ==
  /\ approving[m] # NoApproval
  /\ approving' = [approving EXCEPT ![m] = NoApproval]
  /\ LET text == approving[m].text IN
     IF ApprovalApplies(m)
     THEN /\ status' = [status EXCEPT ![m] = "approved"]
          /\ body' = [body EXCEPT ![m] = IF approving[m].writes THEN text ELSE @]
          /\ binding' = [binding EXCEPT ![m] = text]
          /\ DecideAnew(m)
          /\ sanctioned' = [sanctioned EXCEPT ![m] = text]
          /\ copies' = [copies EXCEPT ![m] = {}]
     ELSE UNCHANGED <<status, body, binding, earlier, since, sanctioned, copies>>
  /\ UNCHANGED <<owner, fresh, drafting, translating, retiring, decided, overwritten,
                 pc, msg, inHand, tries, fallback>>

(* approval.reject: one UPDATE that names the statuses.                    *)
Rejectable == Approvable \cup {"draft_failed"}

Reject(m) ==
  /\ status[m] \in Rejectable
  /\ status' = [status EXCEPT ![m] = "rejected"]
  /\ UNCHANGED <<owner, body, binding, fresh, desk, work, past>>

(* A handler reads the row, and goes on with what it has seen.             *)
Read(m, what) ==
  /\ what \in Handlers \ decided[m]
  /\ overwritten[m] => what \in Repeated
  /\ MayBegin
  /\ status[m] \in Asks[what]
  /\ decided' = [decided EXCEPT ![m] = @ \cup {what}]
  /\ UNCHANGED <<rows, drafting, approving, translating, retiring, work, past>>

Forget(m, what) ==
  /\ what \in decided[m]
  /\ decided' = [decided EXCEPT ![m] = @ \ {what}]
  /\ UNCHANGED <<body, binding, fresh, drafting, approving, translating, retiring>>

Overtaken(m, what) == status[m] \notin Asks[what]

(* It writes the row by its id, if the row is still there.                 *)
WriteLate(m, what) ==
  /\ Forget(m, what)
  /\ status[m] # "gone"
  /\ SetStatus(m, Writes[what])
  /\ overwritten' = [overwritten EXCEPT ![m] = @ \/ Overtaken(m, what)]

(* The request fails, the row is gone, or the process ends.                *)
Abandon(m) ==
  /\ \E what \in Handlers : Forget(m, what)
  /\ UNCHANGED <<status, owner, work, past>>

(* request_redraft, in a thread of its own. Reminders are refused.         *)
AskRedraft(m) == m \notin Reminders /\ Read(m, "redraft")

Redraft(m) ==
  /\ WriteLate(m, "redraft")
  /\ UNCHANGED <<work, since, sanctioned, copies>>

(* clear_send_failures                                                     *)
FindFailed(m) == Read(m, "clear")

Clear(m) ==
  /\ WriteLate(m, "clear")
  /\ UNCHANGED <<work, since, sanctioned, copies>>

(* start_manual_reply closes an older open draft of the ticket.            *)
FindOlderDraft(m) == m \notin Reminders /\ Read(m, "close")

Supersede(m) ==
  /\ WriteLate(m, "close")
  /\ UNCHANGED <<work, since, sanctioned, copies>>

(* _delete_pending_drafts selects by status ...                            *)
PickForRetirement(m) ==
  /\ status[m] \in Supersedable
  /\ ~retiring[m]
  /\ MayBegin
  /\ retiring' = [retiring EXCEPT ![m] = TRUE]
  /\ UNCHANGED <<rows, drafting, approving, translating, decided, work, past>>

(* ... and deletes by id.                                                  *)
Retire(m) ==
  /\ retiring[m]
  /\ retiring' = [retiring EXCEPT ![m] = FALSE]
  /\ SetStatus(m, "gone")
  /\ UNCHANGED <<body, binding, fresh, drafting, approving, translating, decided, work, past>>

-----------------------------------------------------------------------------
(* The worker: _send_one around senders.send                               *)

Step(w, from, to) ==
  /\ pc[w] = from
  /\ pc' = [pc EXCEPT ![w] = to]
  /\ UNCHANGED <<msg, earlier>>

(* The attempt is over: its text, its retries and its fallback are history.*)
Clean(w) ==
  /\ inHand' = [inHand EXCEPT ![w] = NoBody]
  /\ tries' = [tries EXCEPT ![w] = 0]
  /\ fallback' = [fallback EXCEPT ![w] = FALSE]

End(w, from, outcome) ==
  /\ Step(w, from, outcome)
  /\ Clean(w)

Stop(w) ==
  /\ pc' = [pc EXCEPT ![w] = "idle"]
  /\ msg' = [msg EXCEPT ![w] = NoMessage]
  /\ Clean(w)
  /\ earlier' = [earlier EXCEPT ![w] = FALSE]

(* _claim_id: UPDATE ... WHERE status = 'approved'.                        *)
Claimable(m) == status[m] = "approved"

Claim(w, m) ==
  /\ pc[w] = "idle"
  /\ Claimable(m)
  /\ status' = [status EXCEPT ![m] = "sending"]
  /\ owner' = [owner EXCEPT ![m] = w]
  /\ pc' = [pc EXCEPT ![w] = "claimed"]
  /\ msg' = [msg EXCEPT ![w] = m]
  /\ UNCHANGED <<body, binding, fresh, desk, inHand, tries, fallback, earlier, past>>

(* After the jitter sleep: the row is loaded if it still carries this id.  *)
LoadRow(w) ==
  /\ pc[w] = "claimed"
  /\ IF status[msg[w]] = "sending" /\ owner[msg[w]] = w
     THEN /\ Step(w, "claimed", "loaded")
          /\ inHand' = [inHand EXCEPT ![w] = body[msg[w]]]
          /\ UNCHANGED <<tries, fallback>>
     ELSE Stop(w)
  /\ UNCHANGED <<rows, desk, past>>

(* Mutant: the evidence is reviewed, the approved text is not.             *)
ReviewEvidenceOnly(w) == EvidenceCurrent(msg[w])

(* validate_approved_message: the loaded and the stored row against the    *)
(* recorded binding, then the draft's evidence.                            *)
ReviewPasses(w) ==
  LET m == msg[w] IN
  /\ \/ binding[m] = NoBody
     \/ /\ status[m] \in {"approved", "sending"}
        /\ inHand[w] = binding[m]
        /\ body[m] = binding[m]
  /\ EvidenceCurrent(m)

(* The delivery switch is off: nothing is checked and nothing is posted.   *)
FindDisabled(w) ==
  /\ End(w, "loaded", "disabled")
  /\ UNCHANGED <<rows, desk, past>>

(* First review, gates and thread lookup pass. `crossInbox`: the default   *)
(* sender belongs to another inbox and is tried before the thread's own.   *)
LookUp(w, crossInbox) ==
  /\ Step(w, "loaded", "looked")
  /\ ReviewPasses(w)
  /\ fallback' = [fallback EXCEPT ![w] = crossInbox]
  /\ UNCHANGED <<rows, desk, inHand, tries, past>>

(* A failed review, a gate, a permanent lookup error or an unknown one.    *)
Refuse(w) ==
  /\ End(w, "loaded", "refused")
  /\ UNCHANGED <<rows, desk, past>>

(* A refusal of the cross-inbox attempt goes back to the review before the *)
(* POST from the thread's own address; any other one is final.             *)
Declined(w, from) ==
  /\ IF fallback[w]
     THEN /\ Step(w, from, "looked")
          /\ fallback' = [fallback EXCEPT ![w] = FALSE]
          /\ UNCHANGED <<inHand, tries>>
     ELSE End(w, from, "refused")
  /\ UNCHANGED <<rows, desk, past>>

(* The review immediately before each POST.                                *)
Post(w) ==
  \/ /\ Step(w, "looked", "posting")
     /\ ReviewPasses(w)
     /\ UNCHANGED <<rows, desk, inHand, tries, fallback, past>>
  \/ /\ Declined(w, "looked")
     /\ ~ReviewPasses(w)

(* 429: nothing was sent. The next attempt of the loop calls send() again. *)
MayTryAgain(w) == tries[w] + 1 < MaxRetries

Throttle(w) ==
  /\ pc[w] \in {"loaded", "posting"}
  /\ pc[w] = "loaded" => ReviewPasses(w)
  /\ IF MayTryAgain(w)
     THEN /\ Step(w, pc[w], "loaded")
          /\ tries' = [tries EXCEPT ![w] = @ + 1]
          /\ fallback' = [fallback EXCEPT ![w] = FALSE]
          /\ UNCHANGED inHand
     ELSE End(w, pc[w], "refused")
  /\ UNCHANGED <<rows, desk, past>>

-----------------------------------------------------------------------------
(* The provider answers the POST, or somebody stops before it does         *)

(* A mail counts for the decision under which its worker claimed the row.  *)
Arrive(w) ==
  /\ since' = [since EXCEPT ![msg[w]] =
       IF earlier[w] THEN @ ELSE IF @ = 0 THEN 1 ELSE 2]
  /\ copies' = [copies EXCEPT ![msg[w]] = @ \cup {inHand[w]}]
  /\ UNCHANGED <<sanctioned, overwritten>>

Accept(w) ==
  /\ End(w, "posting", "accepted")
  /\ Arrive(w)
  /\ UNCHANGED <<rows, desk>>

(* 4xx: the provider created nothing.                                      *)
Decline(w) == pc[w] = "posting" /\ Declined(w, "posting")

(* Timeout, 5xx or an answer without an id: DeliveryUnknown.               *)
Lose(w, arrived) ==
  /\ End(w, "posting", "unknown")
  /\ IF arrived THEN Arrive(w) ELSE UNCHANGED past
  /\ UNCHANGED <<rows, desk>>

(* What each outcome writes, unconditionally, over the row.                *)
Recorded ==
  [accepted |-> "sent", disabled |-> "test_sent",
   unknown |-> "delivery_unknown", refused |-> "send_failed"]

Record(w) ==
  /\ pc[w] \in DOMAIN Recorded
  /\ SetStatus(msg[w], IF status[msg[w]] = "gone" THEN "gone" ELSE Recorded[pc[w]])
  /\ Stop(w)
  /\ UNCHANGED <<body, binding, fresh, desk, past>>

(* Mutant: a delivery that could not be written down counts as failed.     *)
UnrecordedIsFailed == "send_failed"

(* The commit fails (twice, for a delivered mail): the row stays claimed.  *)
Unrecorded == "sending"

FailToRecord(w) ==
  /\ pc[w] \in DOMAIN Recorded
  /\ status' = [status EXCEPT ![msg[w]] = IF @ = "sending" THEN Unrecorded ELSE @]
  /\ Stop(w)
  /\ UNCHANGED <<owner, body, binding, fresh, desk, past>>

Crash(w, arrived) ==
  /\ Working(w)
  /\ IF pc[w] = "posting" /\ arrived THEN Arrive(w) ELSE UNCHANGED past
  /\ Stop(w)
  /\ UNCHANGED <<rows, desk>>

(* Mutant: no claimed row ever matches the stale condition.                *)
NeverOver(m) == FALSE

(* _reclaim_stuck_sending. ASSUMED: SEND_LEASE_SECONDS outlasts one        *)
(* _send_one, so that a lease runs out only on a row nobody works on.      *)
LeaseOver(m) == ~Held(m)

(* Mutant: a stale send is put back in the queue.                          *)
Replay == "approved"

(* A stale send is not replayed: the provider may have accepted it.        *)
Quarantine == "delivery_unknown"

Reclaim(m) ==
  /\ status[m] = "sending"
  /\ LeaseOver(m)
  /\ SetStatus(m, Quarantine)
  /\ UNCHANGED <<body, binding, fresh, desk, work, past>>

-----------------------------------------------------------------------------
(* Closing what nobody knows                                               *)

(* resolve_unknown_delivery: the operator says it was not sent, which is a *)
(* new decision on the same text ...                                       *)
AskNotSent(m) == Read(m, "unsent")

ConfirmNotSent(m) ==
  /\ WriteLate(m, "unsent")
  /\ DecideAnew(m)
  /\ UNCHANGED <<pc, msg, inHand, tries, fallback, sanctioned, copies>>

(* ... or that it was.                                                     *)
AskSent(m) == Read(m, "sent")

ConfirmSent(m) ==
  /\ WriteLate(m, "sent")
  /\ UNCHANGED <<work, since, sanctioned, copies>>

(* _settle_keyless_sends: a copy dated after the approval, same text; the  *)
(* collector commits at the end of _store.                                 *)
FindCopy(m) == body[m] \in copies[m] /\ Read(m, "settle")

Settle(m) ==
  /\ WriteLate(m, "settle")
  /\ UNCHANGED <<work, since, sanctioned, copies>>

-----------------------------------------------------------------------------
Init ==
  /\ status = [m \in Messages |-> IF m \in Reminders THEN "approved" ELSE "drafting"]
  /\ owner = [m \in Messages |-> NoWorker]
  /\ body \in [Messages -> Bodies \cup {NoBody}]
  /\ \A m \in Messages : body[m] = NoBody <=> m \notin Reminders
  /\ binding = [m \in Messages |-> NoBody]
  /\ fresh = [m \in Messages |-> TRUE]
  /\ drafting = [m \in Messages |-> FALSE]
  /\ approving = [m \in Messages |-> NoApproval]
  /\ translating = [m \in Messages |-> NoBody]
  /\ retiring = [m \in Messages |-> FALSE]
  /\ decided = [m \in Messages |-> {}]
  /\ pc = [w \in Workers |-> "idle"]
  /\ msg = [w \in Workers |-> NoMessage]
  /\ inHand = [w \in Workers |-> NoBody]
  /\ tries = [w \in Workers |-> 0]
  /\ fallback = [w \in Workers |-> FALSE]
  /\ earlier = [w \in Workers |-> FALSE]
  /\ since = [m \in Messages |-> 0]
  /\ sanctioned = body
  /\ copies = [m \in Messages |-> {}]
  /\ overwritten = [m \in Messages |-> FALSE]

(* What a worker does by itself once it holds a row, the provider's answer *)
(* included: every call has a timeout.                                     *)
Work(w) ==
  \/ LoadRow(w)
  \/ FindDisabled(w)
  \/ \E crossInbox \in BOOLEAN : LookUp(w, crossInbox)
  \/ Refuse(w)
  \/ Post(w)
  \/ Throttle(w)
  \/ Accept(w)
  \/ Decline(w)
  \/ \E arrived \in BOOLEAN : Lose(w, arrived)
  \/ Record(w)
  \/ FailToRecord(w)

Desk(m) ==
  \/ StartDraft(m)
  \/ \E text \in Bodies, movedOn \in BOOLEAN : FinishDraft(m, text, movedOn)
  \/ FailDraft(m)
  \/ CustomerWrites(m)
  \/ \E text \in Bodies : Edit(m, text)
  \/ \E text \in Bodies : StartTranslation(m, text)
  \/ WriteTranslation(m)
  \/ \E text \in Bodies, writes \in BOOLEAN : StartApproval(m, text, writes)
  \/ CommitApproval(m)
  \/ Reject(m)
  \/ PickForRetirement(m)
  \/ Retire(m)

(* The handlers that read a row and write it later.                        *)
Late(m) ==
  \/ Abandon(m)
  \/ AskRedraft(m) \/ Redraft(m)
  \/ FindFailed(m) \/ Clear(m)
  \/ FindOlderDraft(m) \/ Supersede(m)
  \/ AskNotSent(m) \/ ConfirmNotSent(m)
  \/ AskSent(m) \/ ConfirmSent(m)
  \/ FindCopy(m) \/ Settle(m)

Next ==
  \/ \E m \in Messages : Desk(m) \/ Late(m) \/ Reclaim(m)
  \/ \E w \in Workers :
       \/ Work(w)
       \/ \E m \in Messages : Claim(w, m)
       \/ \E arrived \in BOOLEAN : Crash(w, arrived)

Spec == Init /\ [][Next]_vars

(* The loop asks for the next due row until there is none, and every turn  *)
(* begins with _reclaim_stuck_sending. A row is due again and again while  *)
(* other rows are taken, hence strong fairness for claims. Nothing is      *)
(* assumed of people, of the draft writer or of the provider's verdict.    *)
Fairness ==
  /\ \A w \in Workers : WF_vars(Work(w))
  /\ \A m \in Messages : SF_vars(\E w \in Workers : Claim(w, m))
  /\ \A m \in Messages : WF_vars(Reclaim(m))

FairSpec == Spec /\ Fairness

-----------------------------------------------------------------------------
(* Properties                                                              *)

(* Every variable keeps its type; a worker that is idle holds nothing.     *)
TypeOK ==
  /\ status \in [Messages -> Statuses]
  /\ owner \in [Messages -> Workers \cup {NoWorker}]
  /\ body \in [Messages -> Bodies \cup {NoBody}]
  /\ binding \in [Messages -> Bodies \cup {NoBody}]
  /\ fresh \in [Messages -> BOOLEAN]
  /\ drafting \in [Messages -> BOOLEAN]
  /\ approving \in [Messages -> Approvals]
  /\ translating \in [Messages -> Bodies \cup {NoBody}]
  /\ retiring \in [Messages -> BOOLEAN]
  /\ decided \in [Messages -> SUBSET Handlers]
  /\ pc \in [Workers -> Steps]
  /\ msg \in [Workers -> Messages \cup {NoMessage}]
  /\ inHand \in [Workers -> Bodies \cup {NoBody}]
  /\ tries \in [Workers -> 0..MaxRetries]
  /\ fallback \in [Workers -> BOOLEAN]
  /\ earlier \in [Workers -> BOOLEAN]
  /\ since \in [Messages -> 0..2]
  /\ sanctioned \in [Messages -> Bodies \cup {NoBody}]
  /\ copies \in [Messages -> SUBSET (Bodies \cup {NoBody})]
  /\ overwritten \in [Messages -> BOOLEAN]
  /\ \A w \in Workers : tries[w] < MaxRetries
  /\ \A w \in Workers : Working(w) <=> msg[w] # NoMessage

(* The customer gets at most one mail for each decision of a person to     *)
(* send, whatever workers crash, retry, fall back to another inbox or lose *)
(* the answer, and whoever writes over the row meanwhile. (run_send_worker:*)
(* "each row is sent by exactly one process"; _reclaim_stuck_sending:      *)
(* "Automatic replay could duplicate a customer email".)                   *)
AtMostOncePerDecision == \A m \in Messages : since[m] <= 1

(* Each POST carries the text that the last approval was about, although   *)
(* edits, translations, redrafts and writes of handlers that come late     *)
(* race the approval, the claim and the POST (validate_approved_message).  *)
OnlyApprovedTextLeaves ==
  [][\A w \in Workers :
       pc[w] # "posting" /\ pc'[w] = "posting" => inHand[w] = sanctioned[msg[w]]]_vars

(* A row whose status says that nothing went out tells the truth: approve  *)
(* takes `send_failed` for a re-send because "nothing reached the          *)
(* customer" (approval.py:135), and the recovery page closes such rows.    *)
(* Not so a row that a handler wrote when it no longer was what the        *)
(* handler had read: redraft, close and clear then hide a mail that left.  *)
SaysNotSent ==
  {"drafting", "draft_failed", "pending_approval", "approved", "rejected",
   "superseded", "send_failed", "test_sent"}

FailedMeansNotSent ==
  \A m \in Messages :
    status[m] \in SaysNotSent /\ ~overwritten[m] => since[m] = 0

(* An approved reply does not stay in the queue or in flight for ever: it  *)
(* is sent, failed, quarantined for a person, closed or removed, even when *)
(* the worker that holds it dies.                                          *)
ApprovedIsResolved ==
  \A m \in Messages :
    status[m] = "approved" ~> status[m] \notin {"approved", "sending"}

(* Who works on the row for the last decision about it.                    *)
Serves(w, m) == Holds(w, m) /\ ~earlier[w]

(* The permit of ReplyOutbox, read off the rows and the workers: a mail of *)
(* the last decision can still leave. A row that was deleted or written    *)
(* over while a worker held it can still go out.                           *)
Permit(m) ==
  IF since[m] # 0 THEN "spent"
  ELSE IF status[m] = "approved" \/ \E w \in Workers : Serves(w, m) THEN "live"
  ELSE "none"

Outbox == INSTANCE ReplyOutbox WITH
  permit <- [m \in Messages |-> Permit(m)],
  inbox <- copies,
  firm <- [m \in Messages |-> ~overwritten[m]]

(* The whole machinery implements the promise of ReplyOutbox.              *)
OutboxSpec == Outbox!Spec

-----------------------------------------------------------------------------
(* The inductive invariant                                                 *)

(* A worker's row is claimed, or was deleted or overwritten under it. Only *)
(* then can it be decided about again while the worker is at it.           *)
HeldRows ==
  \A w \in Workers :
    /\ Working(w) => status[msg[w]] \in {"sending", "gone"} \/ overwritten[msg[w]]
    /\ earlier[w] => Working(w) /\ overwritten[msg[w]]

(* One worker at most serves a decision, and none before the row is        *)
(* claimed.                                                                *)
OneHolder ==
  /\ \A v, w \in Workers :
       Working(v) /\ Working(w) /\ msg[v] = msg[w] /\ ~earlier[v] /\ ~earlier[w] => v = w
  /\ \A w \in Workers : Working(w) /\ ~earlier[w] => status[msg[w]] # "approved"

(* A draft writer's row has left `drafting` only to be closed.             *)
DraftedRows ==
  \A m \in Messages : drafting[m] =>
    status[m] \in {"drafting", "superseded", "rejected", "gone"} \/ overwritten[m]

(* Where a delivered row can be, and where its worker can be.              *)
PaidRows ==
  \A m \in Messages :
    /\ since[m] \in {0, 1}
    /\ status[m] = "approved" => since[m] = 0
    /\ since[m] = 1 =>
         status[m] \in {"sending", "delivery_unknown", "sent", "gone"} \/ overwritten[m]

UnpaidHolders ==
  \A w \in Workers : Working(w) /\ ~earlier[w] =>
    /\ pc[w] \notin {"accepted", "unknown"} => since[msg[w]] = 0
    /\ pc[w] = "accepted" => since[msg[w]] = 1

(* Reminders never pass through the review screen before they fail.        *)
ReminderRows ==
  \A m \in Reminders :
    /\ status[m] \notin {"drafting", "draft_failed", "pending_approval"}
    /\ ~drafting[m]
    /\ translating[m] = NoBody
    /\ sanctioned[m] # NoBody
    /\ binding[m] = NoBody => body[m] = sanctioned[m]
    /\ "redraft" \notin decided[m]

(* A recorded binding is the sanctioned text; only reminders are queued    *)
(* without one.                                                            *)
Live == {"approved", "sending", "delivery_unknown"}

BoundRows ==
  \A m \in Messages :
    /\ binding[m] # NoBody => binding[m] = sanctioned[m]
    /\ status[m] \in Live \/ Held(m) \/ "unsent" \in decided[m]
         => m \in Reminders \/ binding[m] # NoBody

(* What a worker posts is a text, and the sanctioned one if the decision   *)
(* is the last.                                                            *)
PostedText ==
  \A w \in Workers :
    /\ pc[w] = "posting" => inHand[w] # NoBody
    /\ pc[w] = "posting" /\ ~earlier[w] => inHand[w] = sanctioned[msg[w]]
    /\ pc[w] \in {"loaded", "looked", "posting"} /\ binding[msg[w]] = NoBody
         => inHand[w] = sanctioned[msg[w]]

(* All of it holds in every reachable state and is preserved by every step *)
(* (SendWorkerProofs).                                                     *)
IInv ==
  /\ TypeOK
  /\ HeldRows
  /\ OneHolder
  /\ DraftedRows
  /\ PaidRows
  /\ UnpaidHolders
  /\ ReminderRows
  /\ BoundRows
  /\ PostedText

-----------------------------------------------------------------------------
(* What the code's own comments promise and these interleavings break      *)

(* "What was approved is what goes out, and that text is already on the    *)
(* row" (send_worker.py:276): the row of a sent reply shows the text the   *)
(* customer has.                                                           *)
SentRowIsWhatWasDelivered ==
  \A m \in Messages :
    status[m] = "sent" /\ copies[m] # {} => body[m] \in copies[m]

(* The sweep removes drafts that did not go out, and a draft that was sent *)
(* is safe from it (stage_sync.py:145-154).                                *)
DeliveredRowIsKept ==
  \A m \in Messages : since[m] # 0 => status[m] # "gone"
=============================================================================
