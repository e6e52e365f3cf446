-------------------------- MODULE SendWorkerProofs --------------------------
(***************************************************************************)
(* Proofs about SendWorker, for any number of rows, workers, texts and     *)
(* retries, and for any handlers that write late. IInv is inductive; the   *)
(* properties of the runs follow from it. The second part: SendWorker      *)
(* implements ReplyOutbox, that is, every step of the rows, the console,   *)
(* the workers and the provider is one of the outbox's steps on one row,   *)
(* or leaves all that the outbox shows as it is.                           *)
(***************************************************************************)
EXTENDS SendWorker, TLAPS

-----------------------------------------------------------------------------
(* Typing of the steps that branch                                         *)

(* What approve() holds between its two statements is a text.              *)
LEMMA CandidateIsText ==
  ASSUME TypeOK, NEW m \in Messages, approving[m] # NoApproval
  PROVE  approving[m].text \in Bodies
BY DEF TypeOK, Approvals

LEMMA FinishDraftTyped ==
  ASSUME TypeOK, NEW m \in Messages, NEW text \in Bodies, NEW movedOn \in BOOLEAN,
         FinishDraft(m, text, movedOn)
  PROVE  TypeOK'
<1> USE DEF TypeOK, Working, Statuses, rows, desk, work, past, FinishDraft, SetStatus
<1>1. CASE status[m] = "gone"
  BY <1>1
<1>2. CASE status[m] # "gone" /\ movedOn
  BY <1>2
<1>3. CASE status[m] # "gone" /\ ~movedOn
  BY <1>3
<1> QED
  BY <1>1, <1>2, <1>3

LEMMA DecideTyped ==
  ASSUME TypeOK, NEW m \in Messages, DecideAnew(m)
  PROVE  since' \in [Messages -> 0..2] /\ earlier' \in [Workers -> BOOLEAN]
<1>1. since' \in [Messages -> 0..2]
  BY DEF TypeOK, DecideAnew
<1>2. earlier' \in [Workers -> BOOLEAN]
  BY DEF TypeOK, DecideAnew
<1> QED
  BY <1>1, <1>2

LEMMA CommitApprovalTyped ==
  ASSUME TypeOK, NEW m \in Messages, CommitApproval(m)
  PROVE  TypeOK'
<1>1. approving' \in [Messages -> Approvals]
  BY DEF TypeOK, CommitApproval, Approvals
<1>2. CASE ~ApprovalApplies(m)
  BY <1>1, <1>2 DEF TypeOK, Working, desk, CommitApproval
<1>3. CASE ApprovalApplies(m)
  <2>1. approving[m].text \in Bodies
    BY CandidateIsText DEF CommitApproval
  <2>2. since' \in [Messages -> 0..2] /\ earlier' \in [Workers -> BOOLEAN]
    BY <1>3, DecideTyped DEF CommitApproval
  <2>3. /\ status' \in [Messages -> Statuses]
        /\ body' \in [Messages -> Bodies \cup {NoBody}]
        /\ binding' \in [Messages -> Bodies \cup {NoBody}]
        /\ sanctioned' \in [Messages -> Bodies \cup {NoBody}]
        /\ copies' \in [Messages -> SUBSET (Bodies \cup {NoBody})]
    BY <1>3, <2>1 DEF TypeOK, Statuses, CommitApproval
  <2> QED
    BY <1>1, <2>2, <2>3 DEF TypeOK, Working, CommitApproval
<1> QED
  BY <1>2, <1>3

(* What a handler that has read the row will write.                        *)
LEMMA LateKinds ==
  ASSUME TypeOK, NEW m \in Messages, NEW what, what \in decided[m]
  PROVE  /\ what \in Handlers
         /\ what \in {"redraft", "clear", "close", "sent", "unsent", "settle"}
         /\ Writes[what] \in Statuses
BY HandlersAreKnown DEF TypeOK, Asks, Writes, Statuses

(* What it may have read is never a claimed row, and whoever reads a row   *)
(* of unknown delivery says what became of it.                             *)
LEMMA LateReads ==
  ASSUME NEW what \in {"redraft", "clear", "close", "sent", "unsent", "settle"}
  PROVE  /\ "sending" \notin Asks[what] /\ "gone" \notin Asks[what]
         /\ "sent" \notin Asks[what]
         /\ Writes[what] \in {"drafting", "rejected", "superseded"} =>
              "delivery_unknown" \notin Asks[what]
         /\ Writes[what] = "sent" => Asks[what] = {"delivery_unknown"}
         /\ what = "unsent" <=> Writes[what] = "approved"
         /\ Writes[what] = "drafting" <=> what = "redraft"
         /\ Writes[what] \in {"drafting", "rejected", "superseded", "sent", "approved"}
BY DEF Asks, Writes, Failed, OpenDraft

LEMMA WriteLateTyped ==
  ASSUME TypeOK, NEW m \in Messages, NEW what, WriteLate(m, what)
  PROVE  /\ status' \in [Messages -> Statuses]
         /\ owner' \in [Messages -> Workers \cup {NoWorker}]
         /\ overwritten' \in [Messages -> BOOLEAN]
         /\ decided' \in [Messages -> SUBSET Handlers]
<1>1. Writes[what] \in Statuses
  BY LateKinds DEF WriteLate, Forget
<1>2. status' \in [Messages -> Statuses] /\ owner' \in [Messages -> Workers \cup {NoWorker}]
  BY <1>1 DEF WriteLate, SetStatus, TypeOK
<1>3. overwritten' \in [Messages -> BOOLEAN]
  <2>1. (overwritten[m] \/ Overtaken(m, what)) \in BOOLEAN
    BY DEF TypeOK, Overtaken
  <2> QED
    BY <2>1 DEF WriteLate, TypeOK
<1>4. decided' \in [Messages -> SUBSET Handlers]
  BY DEF WriteLate, Forget, TypeOK
<1> QED
  BY <1>2, <1>3, <1>4

LEMMA StopTyped ==
  ASSUME TypeOK, NEW w \in Workers, Stop(w), UNCHANGED <<rows, desk, past>>
  PROVE  TypeOK'
BY MaxRetriesPositive, NoMessageIsNoRow
   DEF TypeOK, Working, Steps, rows, desk, past, Stop, Clean

LEMMA LoadRowTyped ==
  ASSUME TypeOK, NEW w \in Workers, LoadRow(w)
  PROVE  TypeOK'
<1> USE DEF TypeOK, Working, Statuses, Steps, rows, desk, work, past, LoadRow
<1>1. msg[w] \in Messages
  OBVIOUS
<1>2. CASE status[msg[w]] = "sending" /\ owner[msg[w]] = w
  BY <1>1, <1>2 DEF Step
<1>3. CASE ~(status[msg[w]] = "sending" /\ owner[msg[w]] = w)
  <2>1. Stop(w)
    BY <1>3
  <2> QED
    BY <2>1, StopTyped
<1> QED
  BY <1>2, <1>3

(* A worker that has its outcome is well typed.                            *)
LEMMA EndTyped ==
  ASSUME TypeOK, NEW w \in Workers, NEW from \in Steps \ {"idle"},
         NEW outcome \in Steps \ {"idle"}, End(w, from, outcome)
  PROVE  /\ pc' \in [Workers -> Steps]
         /\ inHand' \in [Workers -> Bodies \cup {NoBody}]
         /\ tries' \in [Workers -> 0..MaxRetries]
         /\ \A v \in Workers : tries'[v] < MaxRetries
         /\ fallback' \in [Workers -> BOOLEAN]
         /\ \A v \in Workers : pc'[v] # "idle" <=> msg'[v] # NoMessage
BY MaxRetriesPositive DEF TypeOK, Working, End, Step, Clean

LEMMA DeclinedTyped ==
  ASSUME TypeOK, NEW w \in Workers, NEW from \in {"looked", "posting"},
         Declined(w, from)
  PROVE  TypeOK'
<1> USE DEF TypeOK, Working, Steps, rows, desk, past, Declined
<1>1. CASE fallback[w]
  BY <1>1 DEF Step
<1>2. CASE ~fallback[w]
  <2>1. End(w, from, "refused") /\ UNCHANGED <<msg, earlier>>
    BY <1>2 DEF End, Step
  <2> QED
    BY <2>1, EndTyped
<1> QED
  BY <1>1, <1>2

LEMMA ThrottleTyped ==
  ASSUME TypeOK, NEW w \in Workers, Throttle(w)
  PROVE  TypeOK'
<1> USE DEF Throttle, MayTryAgain, rows, desk, past
<1>1. CASE MayTryAgain(w)
  <2> USE DEF Step
  <2>1. tries[w] \in 0..MaxRetries /\ tries[w] + 1 < MaxRetries
    BY <1>1 DEF TypeOK
  <2>2. tries[w] + 1 \in 0..MaxRetries
    BY <2>1, MaxRetriesPositive
  <2>3. tries' = [tries EXCEPT ![w] = tries[w] + 1]
    BY <1>1
  <2>4. tries' \in [Workers -> 0..MaxRetries] /\ \A v \in Workers : tries'[v] < MaxRetries
    BY <2>1, <2>2, <2>3 DEF TypeOK
  <2>5. fallback' \in [Workers -> BOOLEAN] /\ pc' \in [Workers -> Steps]
    BY <1>1 DEF TypeOK, Steps
  <2>6. \A v \in Workers : Working(v)' <=> msg'[v] # NoMessage
    BY <1>1 DEF TypeOK, Working, Steps
  <2> QED
    BY <1>1, <2>4, <2>5, <2>6 DEF TypeOK
<1>2. CASE ~MayTryAgain(w)
  <2>1. End(w, pc[w], "refused") /\ UNCHANGED <<msg, earlier>> /\ pc[w] \in Steps \ {"idle"}
    BY <1>2 DEF End, Step, Steps
  <2>2. "refused" \in Steps \ {"idle"}
    BY DEF Steps
  <2> QED
    BY <2>1, <2>2, EndTyped DEF TypeOK, Working
<1> QED
  BY <1>1, <1>2

(* The mail arrives: the counters keep their types.                        *)
LEMMA ArriveTyped ==
  ASSUME TypeOK, NEW w \in Workers, Working(w), Arrive(w)
  PROVE  /\ since' \in [Messages -> 0..2]
         /\ copies' \in [Messages -> SUBSET (Bodies \cup {NoBody})]
         /\ UNCHANGED <<sanctioned, overwritten>>
<1>1. msg[w] \in Messages
  BY DEF TypeOK
<1>2. since' \in [Messages -> 0..2]
  BY <1>1 DEF TypeOK, Arrive
<1>3. copies' \in [Messages -> SUBSET (Bodies \cup {NoBody})]
  BY <1>1 DEF TypeOK, Arrive
<1> QED
  BY <1>2, <1>3 DEF Arrive

LEMMA LoseTyped ==
  ASSUME TypeOK, NEW w \in Workers, NEW arrived \in BOOLEAN, Lose(w, arrived)
  PROVE  TypeOK'
<1>1. End(w, "posting", "unknown") /\ UNCHANGED <<rows, desk, msg, earlier>> /\ Working(w)
  BY DEF Lose, End, Step, Working
<1>2. /\ pc' \in [Workers -> Steps]
      /\ inHand' \in [Workers -> Bodies \cup {NoBody}]
      /\ tries' \in [Workers -> 0..MaxRetries]
      /\ \A v \in Workers : tries'[v] < MaxRetries
      /\ fallback' \in [Workers -> BOOLEAN]
      /\ \A v \in Workers : pc'[v] # "idle" <=> msg'[v] # NoMessage
  <2>1. "posting" \in Steps \ {"idle"} /\ "unknown" \in Steps \ {"idle"}
    BY DEF Steps
  <2> QED
    BY <1>1, <2>1, EndTyped
<1>3. /\ since' \in [Messages -> 0..2]
      /\ copies' \in [Messages -> SUBSET (Bodies \cup {NoBody})]
      /\ UNCHANGED <<sanctioned, overwritten>>
  BY <1>1, ArriveTyped DEF Lose, past, TypeOK
<1> QED
  BY <1>1, <1>2, <1>3 DEF TypeOK, Working, rows, desk

LEMMA CrashTyped ==
  ASSUME TypeOK, NEW w \in Workers, NEW arrived \in BOOLEAN, Crash(w, arrived)
  PROVE  TypeOK'
<1>1. Stop(w) /\ UNCHANGED <<rows, desk>> /\ Working(w)
  BY DEF Crash
<1>2. /\ since' \in [Messages -> 0..2]
      /\ copies' \in [Messages -> SUBSET (Bodies \cup {NoBody})]
      /\ UNCHANGED <<sanctioned, overwritten>>
  BY <1>1, ArriveTyped DEF Crash, past, TypeOK
<1> QED
  BY <1>1, <1>2, NoMessageIsNoRow, MaxRetriesPositive
     DEF TypeOK, Working, Statuses, Steps, rows, desk, Stop, Clean

-----------------------------------------------------------------------------
(* The inductive invariant: one step per action                            *)

LEMMA InitIInv == Init => IInv
<1> SUFFICES ASSUME Init PROVE IInv
  OBVIOUS
<1> USE NoBodyIsNoText, RemindersAreMessages DEF Init
<1>1. TypeOK
  BY MaxRetriesPositive, NoMessageIsNoRow
     DEF TypeOK, Statuses, Steps, Approvals, Working
<1>2. HeldRows /\ OneHolder /\ UnpaidHolders /\ PostedText
  BY DEF HeldRows, OneHolder, UnpaidHolders, PostedText, Working
<1>3. DraftedRows /\ PaidRows /\ ReminderRows
  BY DEF DraftedRows, PaidRows, ReminderRows
<1>4. BoundRows
  BY DEF BoundRows, Live, Held, Holds, Working
<1> QED
  BY <1>1, <1>2, <1>3, <1>4 DEF IInv

(* A decision makes everybody who is at the row a worker of an earlier     *)
(* one.                                                                    *)
LEMMA DecideHolders ==
  ASSUME IInv, NEW m \in Messages, DecideAnew(m)
  PROVE  /\ \A w \in Workers : earlier'[w] <=> earlier[w] \/ (Working(w) /\ msg[w] = m)
         /\ \A n \in Messages : since'[n] = IF n = m THEN 0 ELSE since[n]
<1>1. \A n \in Messages : since'[n] = IF n = m THEN 0 ELSE since[n]
  BY DEF DecideAnew, IInv, TypeOK
<1>2. \A w \in Workers : earlier'[w] <=> earlier[w] \/ (Working(w) /\ msg[w] = m)
  BY DEF DecideAnew, Holds
<1> QED
  BY <1>1, <1>2

(* The draft writer, the review screen and the sweep.                      *)
LEMMA DeskKeepsIInv ==
  ASSUME IInv, NEW m \in Messages, Desk(m)
  PROVE  IInv'
<1> USE NoBodyIsNoText, RemindersAreMessages
    DEF IInv, HeldRows, OneHolder, DraftedRows, PaidRows, UnpaidHolders,
        ReminderRows, BoundRows, PostedText, SetStatus,
        Working, Holds, Held, Live, rows, desk, work, past
<1>1. CASE StartDraft(m)
  BY <1>1 DEF StartDraft, TypeOK, Statuses
<1>2. CASE \E text \in Bodies, movedOn \in BOOLEAN : FinishDraft(m, text, movedOn)
  <2>1. PICK text \in Bodies, movedOn \in BOOLEAN : FinishDraft(m, text, movedOn)
    BY <1>2
  <2>2. TypeOK'
    BY <2>1, FinishDraftTyped
  <2>3. (HeldRows /\ OneHolder /\ DraftedRows /\ PaidRows /\ UnpaidHolders)'
    BY <2>1 DEF FinishDraft, TypeOK
  <2>4. (ReminderRows /\ BoundRows /\ PostedText)'
    BY <2>1 DEF FinishDraft, TypeOK
  <2> QED
    BY <2>2, <2>3, <2>4
<1>3. CASE FailDraft(m)
  BY <1>3 DEF FailDraft, TypeOK, Statuses
<1>4. CASE CustomerWrites(m)
  BY <1>4 DEF CustomerWrites, TypeOK
<1>5. CASE \E text \in Bodies : Edit(m, text)
  BY <1>5 DEF Edit, TypeOK
<1>6. CASE \E text \in Bodies : StartTranslation(m, text)
  BY <1>6 DEF StartTranslation, TypeOK
<1>7. CASE WriteTranslation(m)
  BY <1>7 DEF WriteTranslation, TypeOK
<1>8. CASE \E text \in Bodies, writes \in BOOLEAN : StartApproval(m, text, writes)
  BY <1>8 DEF StartApproval, TypeOK, Approvals
<1>9. CASE CommitApproval(m)
  <2>1. TypeOK'
    BY <1>9, CommitApprovalTyped
  <2>2. CASE ~ApprovalApplies(m)
    BY <1>9, <2>1, <2>2 DEF CommitApproval
  <2>3. CASE ApprovalApplies(m)
    <3>1. approving[m].text \in Bodies
      BY <1>9, CandidateIsText DEF CommitApproval
    <3>2. /\ \A w \in Workers : earlier'[w] <=> earlier[w] \/ (pc[w] # "idle" /\ msg[w] = m)
          /\ \A n \in Messages : since'[n] = IF n = m THEN 0 ELSE since[n]
      BY <1>9, <2>3, DecideHolders DEF CommitApproval
    <3>3. /\ status[m] \in {"pending_approval", "send_failed"}
          /\ status' = [status EXCEPT ![m] = "approved"]
          /\ binding' = [binding EXCEPT ![m] = approving[m].text]
          /\ sanctioned' = [sanctioned EXCEPT ![m] = approving[m].text]
          /\ \A n \in Messages \ {m} : body'[n] = body[n]
          /\ UNCHANGED <<overwritten, pc, msg, inHand, drafting, translating, decided>>
      BY <1>9, <2>3 DEF CommitApproval, ApprovalApplies, Approvable, TypeOK
    <3> HIDE DEF IInv, HeldRows, OneHolder, DraftedRows, PaidRows, UnpaidHolders,
                 ReminderRows, BoundRows, PostedText
    <3>4. HeldRows' /\ OneHolder'
      BY <3>2, <3>3 DEF IInv, TypeOK, HeldRows, OneHolder
    <3>5. DraftedRows' /\ PaidRows' /\ UnpaidHolders'
      BY <3>2, <3>3 DEF IInv, TypeOK, DraftedRows, PaidRows, UnpaidHolders, HeldRows
    <3>6. ReminderRows' /\ BoundRows'
      BY <3>1, <3>3 DEF IInv, TypeOK, ReminderRows, BoundRows
    <3>7. PostedText'
      BY <3>1, <3>2, <3>3 DEF IInv, TypeOK, PostedText
    <3> QED
      BY <2>1, <3>4, <3>5, <3>6, <3>7 DEF IInv
  <2> QED
    BY <2>2, <2>3
<1>10. CASE Reject(m)
  BY <1>10 DEF Reject, Rejectable, Approvable, TypeOK, Statuses
<1>11. CASE PickForRetirement(m)
  BY <1>11 DEF PickForRetirement, TypeOK
<1>12. CASE Retire(m)
  BY <1>12 DEF Retire, TypeOK, Statuses
<1> QED
  BY <1>1, <1>2, <1>3, <1>4, <1>5, <1>6, <1>7, <1>8, <1>9, <1>10, <1>11,
     <1>12 DEF Desk

-----------------------------------------------------------------------------
(* The handlers that write late                                            *)

(* A handler remembers that it has read a row in a state it takes.         *)
LEMMA ReadKeepsIInv ==
  ASSUME IInv, NEW m \in Messages,
         NEW what \in {"redraft", "clear", "close", "sent", "unsent", "settle"},
         Read(m, what), what = "redraft" => m \notin Reminders
  PROVE  IInv'
<1> USE DEF Read, rows, work, past
<1>1. what = "unsent" => status[m] = "delivery_unknown"
  BY DEF Asks
<1>2. \A n \in Messages : decided'[n] = IF n = m THEN decided[m] \cup {what} ELSE decided[n]
  BY DEF IInv, TypeOK
<1>3. TypeOK'
  BY DEF IInv, TypeOK, Working
<1>4. (HeldRows /\ OneHolder /\ DraftedRows /\ PaidRows /\ UnpaidHolders /\ PostedText)'
  BY DEF IInv, HeldRows, OneHolder, DraftedRows, PaidRows, UnpaidHolders, PostedText,
         Working
<1>5. ReminderRows'
  BY <1>2, RemindersAreMessages DEF IInv, ReminderRows
<1>6. BoundRows'
  BY <1>1, <1>2 DEF IInv, BoundRows, Live, Held, Holds, Working
<1> QED
  BY <1>3, <1>4, <1>5, <1>6 DEF IInv

LEMMA AbandonKeepsIInv ==
  ASSUME IInv, NEW m \in Messages, Abandon(m)
  PROVE  IInv'
<1> USE DEF Abandon, Forget, work, past
<1>1. decided' \in [Messages -> SUBSET Handlers] /\ \A n \in Messages : decided'[n] \subseteq decided[n]
  BY DEF IInv, TypeOK
<1>2. TypeOK'
  BY <1>1 DEF IInv, TypeOK, Working
<1>3. (HeldRows /\ OneHolder /\ DraftedRows /\ PaidRows /\ UnpaidHolders /\ PostedText)'
  BY DEF IInv, HeldRows, OneHolder, DraftedRows, PaidRows, UnpaidHolders, PostedText,
         Working
<1>4. ReminderRows' /\ BoundRows'
  BY <1>1, RemindersAreMessages DEF IInv, ReminderRows, BoundRows, Live, Held, Holds, Working
<1> QED
  BY <1>2, <1>3, <1>4 DEF IInv

(* What a write by id leaves: either the row still was as it had been      *)
(* read, or the row counts as written over from now on.                    *)
LEMMA LateRow ==
  ASSUME IInv, NEW m \in Messages, NEW what, WriteLate(m, what)
  PROVE  /\ what \in {"redraft", "clear", "close", "sent", "unsent", "settle"}
         /\ status'[m] = Writes[what]
         /\ \A n \in Messages \ {m} :
              status'[n] = status[n] /\ overwritten'[n] = overwritten[n]
         /\ overwritten'[m] <=> overwritten[m] \/ status[m] \notin Asks[what]
         /\ \A n \in Messages : decided'[n] \subseteq decided[n]
         /\ UNCHANGED <<body, binding, drafting, translating>>
<1>1. what \in {"redraft", "clear", "close", "sent", "unsent", "settle"}
  BY LateKinds DEF WriteLate, Forget, IInv
<1>2. status'[m] = Writes[what] /\ \A n \in Messages \ {m} : status'[n] = status[n]
  BY DEF WriteLate, SetStatus, IInv, TypeOK
<1>3. overwritten' = [overwritten EXCEPT ![m] = overwritten[m] \/ Overtaken(m, what)]
  BY DEF WriteLate
<1>4. overwritten'[m] <=> overwritten[m] \/ status[m] \notin Asks[what]
  BY <1>3 DEF IInv, TypeOK, Overtaken
<1>5. \A n \in Messages \ {m} : overwritten'[n] = overwritten[n]
  BY <1>3 DEF IInv, TypeOK
<1>6. (\A n \in Messages : decided'[n] \subseteq decided[n])
      /\ UNCHANGED <<body, binding, drafting, translating>>
  BY DEF WriteLate, Forget, IInv, TypeOK
<1> QED
  BY <1>1, <1>2, <1>4, <1>5, <1>6

(* Every such write but the one that decides anew.                         *)
LEMMA WriteLateKeepsIInv ==
  ASSUME IInv, NEW m \in Messages, NEW what, WriteLate(m, what), what # "unsent",
         UNCHANGED <<work, since, sanctioned, copies>>
  PROVE  IInv'
<1>1. /\ what \in {"redraft", "clear", "close", "sent", "unsent", "settle"}
      /\ status'[m] = Writes[what]
      /\ \A n \in Messages \ {m} :
           status'[n] = status[n] /\ overwritten'[n] = overwritten[n]
      /\ overwritten'[m] <=> overwritten[m] \/ status[m] \notin Asks[what]
      /\ \A n \in Messages : decided'[n] \subseteq decided[n]
      /\ UNCHANGED <<body, binding, drafting, translating>>
  BY LateRow
<1>2. /\ "sending" \notin Asks[what] /\ "gone" \notin Asks[what]
      /\ "sent" \notin Asks[what]
      /\ Writes[what] \in {"drafting", "rejected", "superseded"} =>
           "delivery_unknown" \notin Asks[what]
      /\ Writes[what] = "sent" => Asks[what] = {"delivery_unknown"}
      /\ Writes[what] = "drafting" <=> what = "redraft"
      /\ Writes[what] \in {"drafting", "rejected", "superseded", "sent"}
  BY <1>1, LateReads
<1>3. what = "redraft" => m \notin Reminders
  BY DEF WriteLate, Forget, IInv, ReminderRows
<1> USE DEF work
<1>4. TypeOK'
  <2>1. /\ status' \in [Messages -> Statuses]
        /\ owner' \in [Messages -> Workers \cup {NoWorker}]
        /\ overwritten' \in [Messages -> BOOLEAN]
        /\ decided' \in [Messages -> SUBSET Handlers]
    BY WriteLateTyped DEF IInv
  <2> QED
    BY <2>1 DEF IInv, TypeOK, Working, WriteLate, Forget
<1>5. HeldRows' /\ OneHolder'
  BY <1>1, <1>2 DEF IInv, TypeOK, HeldRows, OneHolder, Working
<1>6. DraftedRows'
  BY <1>1, <1>2 DEF IInv, TypeOK, DraftedRows
<1>7. PaidRows'
  BY <1>1, <1>2 DEF IInv, TypeOK, PaidRows
<1>8. UnpaidHolders' /\ PostedText'
  BY <1>1 DEF IInv, UnpaidHolders, PostedText, Working
<1>9. ReminderRows'
  BY <1>1, <1>2, <1>3, RemindersAreMessages DEF IInv, ReminderRows
<1>10. BoundRows'
  BY <1>1, <1>2 DEF IInv, BoundRows, Live, Held, Holds, Working
<1> QED
  BY <1>4, <1>5, <1>6, <1>7, <1>8, <1>9, <1>10 DEF IInv

LEMMA NotSentKeepsIInv ==
  ASSUME IInv, NEW m \in Messages, ConfirmNotSent(m)
  PROVE  IInv'
<1>1. /\ status'[m] = Writes["unsent"]
      /\ \A n \in Messages \ {m} :
           status'[n] = status[n] /\ overwritten'[n] = overwritten[n]
      /\ overwritten'[m] <=> overwritten[m] \/ status[m] \notin Asks["unsent"]
      /\ \A n \in Messages : decided'[n] \subseteq decided[n]
      /\ UNCHANGED <<body, binding, drafting, translating>>
  BY LateRow DEF ConfirmNotSent
<1>2. status'[m] = "approved" /\ Asks["unsent"] = {"delivery_unknown"}
  BY <1>1 DEF Writes, Asks
<1>3. /\ \A w \in Workers : earlier'[w] <=> earlier[w] \/ (pc[w] # "idle" /\ msg[w] = m)
      /\ \A n \in Messages : since'[n] = IF n = m THEN 0 ELSE since[n]
  BY DecideHolders DEF ConfirmNotSent, Working
<1>4. "unsent" \in decided[m]
  BY DEF ConfirmNotSent, WriteLate, Forget
<1>5. UNCHANGED <<pc, msg, inHand, tries, fallback, sanctioned, copies>>
  BY DEF ConfirmNotSent
<1>6. TypeOK'
  <2>1. /\ status' \in [Messages -> Statuses]
        /\ owner' \in [Messages -> Workers \cup {NoWorker}]
        /\ overwritten' \in [Messages -> BOOLEAN]
        /\ decided' \in [Messages -> SUBSET Handlers]
    BY WriteLateTyped DEF IInv, ConfirmNotSent
  <2>2. since' \in [Messages -> 0..2] /\ earlier' \in [Workers -> BOOLEAN]
    BY DecideTyped DEF IInv, ConfirmNotSent
  <2> QED
    BY <1>5, <2>1, <2>2 DEF IInv, TypeOK, Working, ConfirmNotSent, WriteLate, Forget
<1>7. HeldRows' /\ OneHolder'
  BY <1>1, <1>2, <1>3, <1>5 DEF IInv, TypeOK, HeldRows, OneHolder, Working
<1>8. DraftedRows' /\ PaidRows'
  BY <1>1, <1>2, <1>3 DEF IInv, TypeOK, DraftedRows, PaidRows
<1>9. UnpaidHolders'
  BY <1>1, <1>3, <1>5 DEF IInv, TypeOK, UnpaidHolders, Working
<1>10. PostedText'
  BY <1>1, <1>3, <1>5 DEF IInv, TypeOK, PostedText
<1>11. ReminderRows'
  BY <1>1, <1>2, <1>5, RemindersAreMessages DEF IInv, ReminderRows
<1>12. BoundRows'
  BY <1>1, <1>2, <1>4, <1>5 DEF IInv, BoundRows, Live, Held, Holds, Working
<1> QED
  BY <1>6, <1>7, <1>8, <1>9, <1>10, <1>11, <1>12 DEF IInv

LEMMA LateKeepsIInv ==
  ASSUME IInv, NEW m \in Messages, Late(m)
  PROVE  IInv'
<1>1. CASE \/ AskRedraft(m) \/ FindFailed(m) \/ FindOlderDraft(m)
           \/ AskNotSent(m) \/ AskSent(m) \/ FindCopy(m)
  BY <1>1, ReadKeepsIInv
     DEF AskRedraft, FindFailed, FindOlderDraft, AskNotSent, AskSent, FindCopy
<1>2. CASE Redraft(m) \/ Clear(m) \/ Supersede(m) \/ ConfirmSent(m) \/ Settle(m)
  BY <1>2, WriteLateKeepsIInv DEF Redraft, Clear, Supersede, ConfirmSent, Settle
<1> QED
  BY <1>1, <1>2, AbandonKeepsIInv, NotSentKeepsIInv DEF Late

-----------------------------------------------------------------------------
(* The workers                                                             *)

(* A worker that goes on with its row and delivers nothing.                *)
LEMMA MoveKeepsIInv ==
  ASSUME IInv, TypeOK', NEW w \in Workers, Working(w), pc'[w] # "idle",
         UNCHANGED <<rows, desk, past, msg, earlier>>,
         \A v \in Workers \ {w} : pc'[v] = pc[v] /\ inHand'[v] = inHand[v],
         pc'[w] # "accepted", pc[w] \notin {"accepted", "unknown"},
         pc'[w] = "posting" =>
           inHand'[w] # NoBody /\ inHand'[w] = sanctioned[msg[w]],
         pc'[w] \in {"loaded", "looked"} /\ binding[msg[w]] = NoBody =>
           inHand'[w] = sanctioned[msg[w]]
  PROVE  IInv'
<1> USE DEF Working, rows, desk, past
<1>1. (HeldRows /\ OneHolder /\ DraftedRows /\ PaidRows)'
  BY DEF IInv, HeldRows, OneHolder, DraftedRows, PaidRows
<1>2. UnpaidHolders'
  BY DEF IInv, UnpaidHolders
<1>3. ReminderRows' /\ BoundRows'
  BY DEF IInv, ReminderRows, BoundRows, Live, Held, Holds
<1>4. PostedText'
  BY DEF IInv, PostedText
<1> QED
  BY <1>1, <1>2, <1>3, <1>4 DEF IInv

(* A worker that lets go of its row.                                       *)
LEMMA StopKeepsIInv ==
  ASSUME IInv, TypeOK', NEW w \in Workers, Stop(w), UNCHANGED <<rows, desk, past>>
  PROVE  IInv'
<1> USE DEF Working, rows, desk, past, Stop
<1>1. pc'[w] = "idle" /\ ~earlier'[w]
      /\ \A v \in Workers \ {w} :
           pc'[v] = pc[v] /\ msg'[v] = msg[v] /\ earlier'[v] = earlier[v] /\ inHand'[v] = inHand[v]
  BY DEF IInv, TypeOK, Clean
<1>2. (HeldRows /\ OneHolder /\ DraftedRows /\ PaidRows)'
  BY <1>1 DEF IInv, HeldRows, OneHolder, DraftedRows, PaidRows
<1>3. UnpaidHolders' /\ PostedText'
  BY <1>1 DEF IInv, UnpaidHolders, PostedText
<1>4. ReminderRows' /\ BoundRows'
  BY <1>1 DEF IInv, ReminderRows, BoundRows, Live, Held, Holds
<1> QED
  BY <1>2, <1>3, <1>4 DEF IInv

(* A mail arrives, and its worker knows or is left in doubt.               *)
LEMMA ArriveKeepsIInv ==
  ASSUME IInv, TypeOK', NEW w \in Workers, pc[w] = "posting", Arrive(w),
         pc'[w] \in {"accepted", "unknown"}, UNCHANGED <<rows, desk, msg, earlier>>,
         \A v \in Workers \ {w} : pc'[v] = pc[v] /\ inHand'[v] = inHand[v]
  PROVE  IInv'
<1> USE DEF Working, rows, desk
<1>1. Working(w) /\ msg[w] \in Messages
  BY DEF IInv, TypeOK
<1>2. \A n \in Messages \ {msg[w]} : since'[n] = since[n]
  BY DEF Arrive, IInv, TypeOK
<1>3. earlier[w] => since'[msg[w]] = since[msg[w]]
  BY <1>1 DEF Arrive, IInv, TypeOK
<1>4. ~earlier[w] => since[msg[w]] = 0 /\ since'[msg[w]] = 1
  BY <1>1 DEF Arrive, IInv, TypeOK, UnpaidHolders
<1>5. UNCHANGED <<sanctioned, overwritten>>
  BY DEF Arrive
<1>6. (HeldRows /\ OneHolder /\ DraftedRows)'
  BY <1>1, <1>5 DEF IInv, HeldRows, OneHolder, DraftedRows
<1>7. PaidRows'
  <2>1. earlier[w] => overwritten[msg[w]]
    BY <1>1 DEF IInv, HeldRows
  <2>2. ~earlier[w] => status[msg[w]] \in {"sending", "gone"} \/ overwritten[msg[w]]
    BY <1>1 DEF IInv, HeldRows
  <2>3. ~earlier[w] => status[msg[w]] # "approved"
    BY <1>1 DEF IInv, OneHolder
  <2> QED
    BY <1>1, <1>2, <1>3, <1>4, <1>5, <2>1, <2>2, <2>3 DEF IInv, PaidRows
<1>8. UnpaidHolders'
  <2> SUFFICES ASSUME NEW v \in Workers, pc'[v] # "idle", ~earlier[v]
               PROVE  /\ pc'[v] \notin {"accepted", "unknown"} => since'[msg[v]] = 0
                      /\ pc'[v] = "accepted" => since'[msg[v]] = 1
    BY DEF UnpaidHolders
  <2>1. CASE v = w
    BY <1>4, <2>1
  <2>2. CASE v # w
    <3>1. pc[v] = pc'[v] /\ msg[v] \in Messages
      BY <2>2 DEF IInv, TypeOK
    <3>2. since'[msg[v]] = since[msg[v]]
      BY <1>1, <1>2, <1>3, <2>2, <3>1 DEF IInv, OneHolder
    <3> QED
      BY <3>1, <3>2 DEF IInv, UnpaidHolders
  <2> QED
    BY <2>1, <2>2
<1>9. ReminderRows' /\ BoundRows'
  BY <1>1, <1>5 DEF IInv, ReminderRows, BoundRows, Live, Held, Holds
<1>10. PostedText'
  BY <1>5 DEF IInv, PostedText
<1> QED
  BY <1>6, <1>7, <1>8, <1>9, <1>10 DEF IInv

(* The text of a worker that passes the review is the sanctioned one.      *)
LEMMA ReviewedText ==
  ASSUME IInv, NEW w \in Workers, pc[w] = "looked", ReviewPasses(w)
  PROVE  inHand[w] = sanctioned[msg[w]] /\ inHand[w] # NoBody
<1>1. Working(w) /\ msg[w] \in Messages
  BY DEF IInv, TypeOK, Working
<1>2. CASE binding[msg[w]] = NoBody
  <2>1. msg[w] \in Reminders
    BY <1>1, <1>2 DEF IInv, BoundRows, Held, Holds
  <2> QED
    BY <1>2, <2>1 DEF IInv, PostedText, ReminderRows
<1>3. CASE binding[msg[w]] # NoBody
  BY <1>1, <1>3 DEF IInv, BoundRows, ReviewPasses
<1> QED
  BY <1>2, <1>3

LEMMA DeclinedKeepsIInv ==
  ASSUME IInv, NEW w \in Workers, NEW from \in {"looked", "posting"}, Declined(w, from)
  PROVE  IInv'
<1>1. TypeOK'
  BY DeclinedTyped DEF IInv
<1>2. CASE fallback[w]
  <2>1. /\ Working(w) /\ pc[w] = from /\ pc'[w] = "looked"
        /\ \A v \in Workers \ {w} : pc'[v] = pc[v]
        /\ UNCHANGED <<rows, desk, past, msg, earlier, inHand>>
    BY <1>2 DEF Declined, Step, IInv, TypeOK, Working
  <2>2. binding[msg[w]] = NoBody => inHand[w] = sanctioned[msg[w]]
    BY <2>1 DEF IInv, PostedText
  <2> QED
    BY <1>1, <2>1, <2>2, MoveKeepsIInv
<1>3. CASE ~fallback[w]
  BY <1>1, <1>3, MoveKeepsIInv
     DEF Declined, End, Step, Clean, IInv, TypeOK, Working
<1> QED
  BY <1>2, <1>3

(* One worker per decision: what a worker does cannot disturb another      *)
(* one's.                                                                  *)
LEMMA WorkKeepsIInv ==
  ASSUME IInv, NEW w \in Workers, Work(w)
  PROVE  IInv'
<1> USE NoBodyIsNoText, RemindersAreMessages, NoMessageIsNoRow
    DEF IInv, HeldRows, OneHolder, DraftedRows, PaidRows, UnpaidHolders,
        ReminderRows, BoundRows, PostedText,
        Working, Holds, Held, Live, rows, desk, work, past, Step, End, Clean, Stop, SetStatus
<1>1. CASE LoadRow(w)
  <2>1. TypeOK'
    BY <1>1, LoadRowTyped
  <2>2. CASE Stop(w)
    <3>1. UNCHANGED <<rows, desk, past>>
      BY <1>1 DEF LoadRow
    <3> QED
      BY <2>1, <2>2, <3>1, StopKeepsIInv
  <2>3. CASE Step(w, "claimed", "loaded") /\ inHand' = [inHand EXCEPT ![w] = body[msg[w]]]
    <3>1. binding[msg[w]] = NoBody => body[msg[w]] = sanctioned[msg[w]]
      BY <2>3 DEF TypeOK
    <3> QED
      BY <1>1, <2>1, <2>3, <3>1, MoveKeepsIInv DEF LoadRow, TypeOK
  <2> QED
    BY <1>1, <2>2, <2>3 DEF LoadRow
<1>2. CASE FindDisabled(w)
  <2>1. TypeOK'
    <3>1. "loaded" \in Steps \ {"idle"} /\ "disabled" \in Steps \ {"idle"}
      BY DEF Steps
    <3> QED
      BY <1>2, <3>1, EndTyped DEF FindDisabled, TypeOK
  <2> QED
    BY <1>2, <2>1, MoveKeepsIInv DEF FindDisabled, TypeOK
<1>3. CASE \E crossInbox \in BOOLEAN : LookUp(w, crossInbox)
  <2>1. PICK crossInbox \in BOOLEAN : LookUp(w, crossInbox)
    BY <1>3
  <2>2. TypeOK'
    BY <2>1 DEF LookUp, TypeOK, Steps
  <2> QED
    BY <2>1, <2>2, MoveKeepsIInv DEF LookUp, TypeOK
<1>4. CASE Refuse(w)
  <2>1. TypeOK'
    <3>1. "loaded" \in Steps \ {"idle"} /\ "refused" \in Steps \ {"idle"}
      BY DEF Steps
    <3> QED
      BY <1>4, <3>1, EndTyped DEF Refuse, TypeOK
  <2> QED
    BY <1>4, <2>1, MoveKeepsIInv DEF Refuse, TypeOK
<1>5. CASE Post(w)
  <2>1. CASE Step(w, "looked", "posting") /\ ReviewPasses(w)
             /\ UNCHANGED <<rows, desk, inHand, tries, fallback, past>>
    <3>1. TypeOK'
      BY <2>1 DEF TypeOK, Steps
    <3>2. inHand[w] = sanctioned[msg[w]] /\ inHand[w] # NoBody
      BY <2>1, ReviewedText
    <3> QED
      BY <2>1, <3>1, <3>2, MoveKeepsIInv DEF TypeOK
  <2>2. CASE Declined(w, "looked")
    BY <2>2, DeclinedKeepsIInv
  <2> QED
    BY <1>5, <2>1, <2>2 DEF Post
<1>6. CASE Throttle(w)
  <2>1. TypeOK'
    BY <1>6, ThrottleTyped
  <2> QED
    BY <1>6, <2>1, MoveKeepsIInv DEF Throttle, TypeOK
<1>7. CASE Accept(w)
  <2>1. TypeOK'
    <3>1. "posting" \in Steps \ {"idle"} /\ "accepted" \in Steps \ {"idle"}
      BY DEF Steps
    <3>2. /\ since' \in [Messages -> 0..2]
          /\ copies' \in [Messages -> SUBSET (Bodies \cup {NoBody})]
          /\ UNCHANGED <<sanctioned, overwritten>>
      BY <1>7, ArriveTyped DEF Accept
    <3> QED
      BY <1>7, <3>1, <3>2, EndTyped DEF Accept, TypeOK
  <2> QED
    BY <1>7, <2>1, ArriveKeepsIInv DEF Accept, TypeOK
<1>8. CASE Decline(w)
  BY <1>8, DeclinedKeepsIInv DEF Decline
<1>9. CASE \E arrived \in BOOLEAN : Lose(w, arrived)
  <2>1. PICK arrived \in BOOLEAN : Lose(w, arrived)
    BY <1>9
  <2>2. TypeOK'
    BY <2>1, LoseTyped
  <2>3. CASE arrived
    BY <2>1, <2>2, <2>3, ArriveKeepsIInv DEF Lose, TypeOK
  <2>4. CASE ~arrived
    BY <2>1, <2>2, <2>4, MoveKeepsIInv DEF Lose, TypeOK
  <2> QED
    BY <2>3, <2>4
<1>10. CASE Record(w)
  <2>1. TypeOK'
    BY <1>10, MaxRetriesPositive DEF Record, Recorded, TypeOK, Statuses, Steps
  <2>2. (HeldRows /\ OneHolder /\ DraftedRows /\ PaidRows /\ UnpaidHolders)'
    BY <1>10 DEF Record, Recorded, TypeOK
  <2>3. (ReminderRows /\ BoundRows /\ PostedText)'
    BY <1>10 DEF Record, Recorded, TypeOK
  <2> QED
    BY <2>1, <2>2, <2>3
<1>11. CASE FailToRecord(w)
  <2>1. TypeOK'
    <3>1. status' \in [Messages -> Statuses]
      BY <1>11 DEF FailToRecord, Unrecorded, TypeOK, Statuses
    <3> QED
      BY <1>11, <3>1, MaxRetriesPositive DEF FailToRecord, TypeOK, Steps
  <2>2. (HeldRows /\ OneHolder /\ DraftedRows /\ PaidRows /\ UnpaidHolders)'
    BY <1>11 DEF FailToRecord, Recorded, Unrecorded, TypeOK
  <2>3. (ReminderRows /\ BoundRows /\ PostedText)'
    BY <1>11 DEF FailToRecord, Recorded, Unrecorded, TypeOK
  <2> QED
    BY <2>1, <2>2, <2>3
<1> QED
  BY <1>1, <1>2, <1>3, <1>4, <1>5, <1>6, <1>7, <1>8, <1>9, <1>10, <1>11 DEF Work

LEMMA ClaimKeepsIInv ==
  ASSUME IInv, NEW w \in Workers, NEW m \in Messages, Claim(w, m)
  PROVE  IInv'
BY NoMessageIsNoRow
   DEF IInv, TypeOK, HeldRows, OneHolder, DraftedRows, PaidRows, UnpaidHolders,
       ReminderRows, BoundRows, PostedText, Working,
       Holds, Held, Live, Statuses, Steps, desk, past, Claim, Claimable

LEMMA CrashKeepsIInv ==
  ASSUME IInv, NEW w \in Workers, NEW arrived \in BOOLEAN, Crash(w, arrived)
  PROVE  IInv'
<1> USE NoMessageIsNoRow
    DEF IInv, Working, Holds, Held, Live, rows, desk, past, Crash, Arrive, Stop, Clean
<1>1. TypeOK'
  BY CrashTyped
<1>2. (HeldRows /\ OneHolder /\ DraftedRows /\ PaidRows /\ UnpaidHolders)'
  BY DEF HeldRows, OneHolder, DraftedRows, PaidRows, UnpaidHolders, TypeOK
<1>3. (ReminderRows /\ BoundRows)'
  BY DEF ReminderRows, BoundRows, TypeOK
<1>4. (PostedText)'
  BY DEF PostedText, TypeOK
<1> QED
  BY <1>1, <1>2, <1>3, <1>4

LEMMA ReclaimKeepsIInv ==
  ASSUME IInv, NEW m \in Messages, Reclaim(m)
  PROVE  IInv'
BY NoMessageIsNoRow
   DEF IInv, TypeOK, HeldRows, OneHolder, DraftedRows, PaidRows, UnpaidHolders,
       ReminderRows, BoundRows, PostedText, Working,
       Holds, Held, Live, Statuses, desk, work, past, Reclaim, LeaseOver, Quarantine,
       SetStatus

-----------------------------------------------------------------------------
(* What the steps leave alone                                              *)

(* The console may make a worker's decision an earlier one, no more.       *)
LEMMA DeskLeavesWorkers ==
  ASSUME NEW m \in Messages, Desk(m)
  PROVE  UNCHANGED <<pc, msg, inHand, overwritten>>
BY DEF Desk, StartDraft, FinishDraft, FailDraft, CustomerWrites, Edit,
       StartTranslation, WriteTranslation, StartApproval, CommitApproval, Reject,
       PickForRetirement, Retire, work, past

LEMMA LateLeavesWorkers ==
  ASSUME NEW m \in Messages, Late(m)
  PROVE  UNCHANGED <<pc, msg, inHand, sanctioned, copies>>
BY DEF Late, Abandon, Read, AskRedraft, Redraft, FindFailed, Clear, FindOlderDraft,
       Supersede, AskNotSent, ConfirmNotSent, AskSent, ConfirmSent, FindCopy, Settle,
       work, past

-----------------------------------------------------------------------------
LEMMA NextKeepsIInv == IInv /\ [Next]_vars => IInv'
<1> SUFFICES ASSUME IInv, [Next]_vars PROVE IInv'
  OBVIOUS
<1>1. ASSUME NEW m \in Messages, Desk(m) PROVE IInv'
  BY <1>1, DeskKeepsIInv
<1>2. ASSUME NEW m \in Messages, Late(m) PROVE IInv'
  BY <1>2, LateKeepsIInv
<1>3. ASSUME NEW m \in Messages, Reclaim(m) PROVE IInv'
  BY <1>3, ReclaimKeepsIInv
<1>4. ASSUME NEW w \in Workers, Work(w) PROVE IInv'
  BY <1>4, WorkKeepsIInv
<1>5. ASSUME NEW w \in Workers, NEW m \in Messages, Claim(w, m) PROVE IInv'
  BY <1>5, ClaimKeepsIInv
<1>6. ASSUME NEW w \in Workers, NEW arrived \in BOOLEAN, Crash(w, arrived) PROVE IInv'
  BY <1>6, CrashKeepsIInv
<1>7. CASE UNCHANGED vars
  BY <1>7 DEF vars, rows, desk, work, past, IInv, TypeOK, HeldRows, OneHolder,
              DraftedRows, PaidRows, UnpaidHolders, ReminderRows, BoundRows,
              PostedText, Working, Holds, Held
<1> QED
  BY <1>1, <1>2, <1>3, <1>4, <1>5, <1>6, <1>7 DEF Next

-----------------------------------------------------------------------------
(* The theorems                                                            *)

(* Every reachable state satisfies the inductive invariant, also when      *)
(* redrafts, closures, clearances, verdicts and the collector write rows   *)
(* by id that are no longer what they have read.                           *)
THEOREM Invariance == Spec => []IInv
BY InitIInv, NextKeepsIInv, PTL DEF Spec

(* Types are kept by every step of the workers, the console, the draft     *)
(* writer, the sweep and the collector.                                    *)
THEOREM Typed == Spec => []TypeOK
<1>1. IInv => TypeOK
  BY DEF IInv
<1> QED
  BY <1>1, Invariance, PTL

(* One mail per decision, however many workers, crashes, retries and       *)
(* fallbacks (send_worker._claim_id, _send_one, _reclaim_stuck_sending),   *)
(* and whatever is written over the row while a worker holds it.           *)
THEOREM OneMailPerDecision == Spec => []AtMostOncePerDecision
<1>1. ASSUME IInv, NEW m \in Messages PROVE since[m] <= 1
  <2>1. since[m] = 0 \/ since[m] = 1
    BY <1>1 DEF IInv, PaidRows
  <2> QED
    BY <2>1
<1>2. IInv => AtMostOncePerDecision
  BY <1>1 DEF AtMostOncePerDecision
<1> QED
  BY <1>2, Invariance, PTL

(* Each POST carries the text of the last approval, although the row can   *)
(* be edited, translated, redrafted and approved again at any time before  *)
(* it (reply_safety.validate_approved_message).                            *)
THEOREM ApprovedTextOnly == Spec => OnlyApprovedTextLeaves
<1> DEFINE PostsRight(w) ==
      pc[w] # "posting" /\ pc'[w] = "posting" => inHand[w] = sanctioned[msg[w]]
<1>1. ASSUME IInv, NEW w \in Workers, NEW v \in Workers, Work(v) PROVE PostsRight(w)
  <2> SUFFICES ASSUME pc[w] # "posting", pc'[w] = "posting"
               PROVE  inHand[w] = sanctioned[msg[w]]
    OBVIOUS
  <2>1. pc[w] = "looked" /\ ReviewPasses(w)
    BY <1>1 DEF Work, LoadRow, FindDisabled, LookUp, Refuse, Post, Declined, Throttle,
           Accept, Decline, Lose, Record, FailToRecord, Step, End, Stop, IInv, TypeOK
  <2> QED
    BY <1>1, <2>1, ReviewedText
<1>2. ASSUME IInv, NEW w \in Workers, NEW m \in Messages,
             Desk(m) \/ Late(m) \/ Reclaim(m)
      PROVE  PostsRight(w)
  <2>1. UNCHANGED pc
    BY <1>2, DeskLeavesWorkers, LateLeavesWorkers DEF Reclaim, work
  <2> QED
    BY <2>1
<1>3. ASSUME IInv, NEW w \in Workers, NEW v \in Workers,
             \/ \E m \in Messages : Claim(v, m)
             \/ \E arrived \in BOOLEAN : Crash(v, arrived)
      PROVE  PostsRight(w)
  BY <1>3 DEF Claim, Crash, Stop, IInv, TypeOK
<1>4. ASSUME IInv, [Next]_vars PROVE \A w \in Workers : PostsRight(w)
  BY <1>1, <1>2, <1>3, <1>4 DEF Next, vars, work
<1> HIDE DEF PostsRight
<1>5. IInv /\ [Next]_vars => [\A w \in Workers : PostsRight(w)]_vars
  BY <1>4
<1>6. Spec => [][\A w \in Workers : PostsRight(w)]_vars
  BY <1>5, Invariance, PTL DEF Spec
<1> QED
  BY <1>6 DEF OnlyApprovedTextLeaves, PostsRight

(* A status that says "not sent" is true, so that approving such a row     *)
(* again cannot send a second mail (approval.approve), unless a handler    *)
(* has written the row when it no longer was what the handler had read.    *)
THEOREM NotSentIsTrue == Spec => []FailedMeansNotSent
<1>1. IInv => FailedMeansNotSent
  BY DEF IInv, PaidRows, FailedMeansNotSent, SaysNotSent
<1> QED
  BY <1>1, Invariance, PTL

-----------------------------------------------------------------------------
(* The refinement                                                          *)

permits == [m \in Messages |-> Permit(m)]

firms == [m \in Messages |-> ~overwritten[m]]

(* Somebody works on the row for the last decision about it.               *)
Served(m) == \E w \in Workers : Serves(w, m)

(* Nothing that the outbox shows of n moved.                               *)
Still(n) ==
  /\ since'[n] = since[n]
  /\ status'[n] = status[n]
  /\ Served(n)' <=> Served(n)
  /\ overwritten'[n] = overwritten[n]

Elsewhere(m) == \A n \in Messages \ {m} : Still(n)

-----------------------------------------------------------------------------
(* How a step on one row shows in the outbox                               *)

LEMMA PermitMoves ==
  ASSUME NEW m \in Messages, Elsewhere(m)
  PROVE  permits' = [permits EXCEPT ![m] = Permit(m)']
<1>1. \A n \in Messages \ {m} : Permit(n)' = Permit(n)
  BY DEF Elsewhere, Still, Permit, Served
<1> QED
  BY <1>1 DEF permits

LEMMA FirmMoves ==
  ASSUME NEW m \in Messages, Elsewhere(m)
  PROVE  /\ overwritten'[m] = overwritten[m] => firms' = firms
         /\ overwritten'[m] => firms' = [firms EXCEPT ![m] = FALSE]
<1>1. \A n \in Messages \ {m} : overwritten'[n] = overwritten[n]
  BY DEF Elsewhere, Still
<1>2. overwritten'[m] = overwritten[m] => firms' = firms
  BY <1>1 DEF firms
<1>3. ASSUME overwritten'[m] PROVE firms' = [firms EXCEPT ![m] = FALSE]
  <2>1. (~overwritten'[m]) = FALSE
    BY <1>3
  <2> QED
    BY <1>1, <2>1 DEF firms
<1> QED
  BY <1>2, <1>3

LEMMA PermitValues ==
  ASSUME NEW m \in Messages
  PROVE  Permit(m) \in {"none", "live", "spent"} /\ Permit(m)' \in {"none", "live", "spent"}
BY DEF Permit

(* The mail of a row is unchanged: only its permit can move, down from     *)
(* "live" to "none", or up to "live".                                      *)
LEMMA QuietStep ==
  ASSUME NEW m \in Messages, Elsewhere(m), UNCHANGED <<sanctioned, copies>>,
         overwritten'[m] = overwritten[m],
         \/ Permit(m)' = Permit(m)
         \/ Permit(m) = "live" /\ Permit(m)' = "none"
         \/ Permit(m)' = "live"
  PROVE  [Outbox!Next]_(Outbox!vars)
<1>1. permits' = [permits EXCEPT ![m] = Permit(m)']
  BY PermitMoves
<1>2. permits[m] = Permit(m)
  BY DEF permits
<1>3. firms' = firms
  BY FirmMoves
<1>4. CASE Permit(m)' = Permit(m)
  <2>1. permits' = permits
    BY <1>1, <1>2, <1>4 DEF permits
  <2> QED
    BY <1>3, <2>1 DEF Outbox!vars, permits, firms
<1>5. CASE Permit(m) = "live" /\ Permit(m)' = "none"
  BY <1>1, <1>2, <1>3, <1>5 DEF Outbox!Next, Outbox!Withdraw, permits, firms
<1>6. CASE Permit(m) # "live" /\ Permit(m)' = "live"
  BY <1>1, <1>2, <1>3, <1>6 DEF Outbox!Next, Outbox!DecideAgain, permits, firms
<1> QED
  BY <1>4, <1>5, <1>6

(* A write by id over a row that was no longer as it had been read.        *)
LEMMA OverwriteStep ==
  ASSUME NEW m \in Messages, Elsewhere(m), UNCHANGED <<sanctioned, copies>>,
         overwritten'[m],
         \/ Permit(m)' = Permit(m)
         \/ Permit(m) = "live" /\ Permit(m)' = "none"
         \/ Permit(m)' = "live"
  PROVE  Outbox!Next
<1>1. permits' = [permits EXCEPT ![m] = Permit(m)']
  BY PermitMoves
<1>2. permits[m] = Permit(m)
  BY DEF permits
<1>3. firms' = [firms EXCEPT ![m] = FALSE]
  BY FirmMoves
<1>4. CASE Permit(m)' = Permit(m)
  <2>1. permits' = permits
    BY <1>1, <1>2, <1>4 DEF permits
  <2> QED
    BY <1>3, <2>1 DEF Outbox!Next, Outbox!Overwrite, permits, firms
<1>5. CASE Permit(m) = "live" /\ Permit(m)' = "none"
  BY <1>1, <1>2, <1>3, <1>5 DEF Outbox!Next, Outbox!Overwrite, permits, firms
<1>6. CASE Permit(m)' = "live"
  BY <1>1, <1>3, <1>6 DEF Outbox!Next, Outbox!Overwrite, permits, firms
<1> QED
  BY <1>4, <1>5, <1>6

LEMMA DeliverStep ==
  ASSUME NEW m \in Messages, Elsewhere(m), UNCHANGED sanctioned,
         overwritten'[m] = overwritten[m],
         Permit(m) = "live", Permit(m)' = "spent",
         copies' = [copies EXCEPT ![m] = @ \cup {sanctioned[m]}]
  PROVE  Outbox!Next
<1>1. permits' = [permits EXCEPT ![m] = "spent"]
  BY PermitMoves
<1>2. firms' = firms
  BY FirmMoves
<1> QED
  BY <1>1, <1>2 DEF Outbox!Next, Outbox!Deliver, permits, firms

(* A mail of an earlier decision.                                          *)
LEMMA EarlierStep ==
  ASSUME NEW m \in Messages, NEW text \in Bodies, Elsewhere(m), UNCHANGED sanctioned,
         overwritten[m], overwritten'[m] = overwritten[m], Permit(m)' = Permit(m),
         copies' = [copies EXCEPT ![m] = @ \cup {text}]
  PROVE  Outbox!Next
<1>1. permits' = [permits EXCEPT ![m] = Permit(m)']
  BY PermitMoves
<1>2. permits' = permits
  BY <1>1 DEF permits
<1>3. firms' = firms
  BY FirmMoves
<1>4. ~firms[m]
  BY DEF firms
<1> QED
  BY <1>2, <1>3, <1>4 DEF Outbox!Next, Outbox!DeliverEarlier, permits, firms

LEMMA DecideStep ==
  ASSUME NEW m \in Messages, NEW text \in Bodies, Elsewhere(m),
         overwritten'[m] = overwritten[m],
         overwritten[m] \/ Permit(m) = "none", Permit(m)' = "live",
         sanctioned' = [sanctioned EXCEPT ![m] = text],
         copies' = [copies EXCEPT ![m] = {}]
  PROVE  Outbox!Next
<1>1. permits' = [permits EXCEPT ![m] = "live"]
  BY PermitMoves
<1>2. firms' = firms
  BY FirmMoves
<1>3. firms[m] => permits[m] = "none"
  BY DEF firms, permits
<1> QED
  BY <1>1, <1>2, <1>3 DEF Outbox!Next, Outbox!Decide, permits, firms

-----------------------------------------------------------------------------
(* The console, the draft writer, the sweep and the collector              *)

LEMMA ServedSame ==
  ASSUME UNCHANGED work PROVE \A n \in Messages : Served(n)' <=> Served(n)
BY DEF work, Served, Serves, Holds, Working

(* Deciding anew about m leaves it unserved, and the other rows alone.     *)
LEMMA ServedByDecision ==
  ASSUME IInv, NEW m \in Messages, DecideAnew(m), UNCHANGED <<pc, msg>>
  PROVE  /\ ~Served(m)'
         /\ \A n \in Messages \ {m} : Served(n)' <=> Served(n)
<1>1. \A w \in Workers : earlier'[w] <=> earlier[w] \/ (Working(w) /\ msg[w] = m)
  BY DecideHolders
<1> QED
  BY <1>1 DEF Served, Serves, Holds, Working

(* A firm row that is served is claimed or deleted.                        *)
LEMMA ServedStatus ==
  ASSUME IInv, NEW m \in Messages, Served(m)
  PROVE  status[m] \in {"sending", "gone"} \/ overwritten[m]
BY DEF IInv, HeldRows, Served, Serves, Holds

LEMMA DeskRefines ==
  ASSUME IInv, NEW m \in Messages, Desk(m)
  PROVE  [Outbox!Next]_(Outbox!vars)
<1>1. CASE CommitApproval(m) /\ ApprovalApplies(m)
  <2>1. DecideAnew(m) /\ UNCHANGED <<pc, msg, overwritten>>
    BY <1>1 DEF CommitApproval
  <2>2. status'[m] = "approved" /\ since'[m] = 0
    BY <1>1, <2>1, DecideHolders DEF CommitApproval, IInv, TypeOK
  <2>3. overwritten[m] \/ Permit(m) = "none"
    <3>1. overwritten[m] \/ ~Served(m)
      BY <1>1, ServedStatus DEF ApprovalApplies, Approvable
    <3>2. overwritten[m] \/ since[m] = 0
      BY <1>1 DEF ApprovalApplies, Approvable, IInv, PaidRows
    <3>3. status[m] # "approved"
      BY <1>1 DEF ApprovalApplies, Approvable
    <3> QED
      BY <3>1, <3>2, <3>3 DEF Permit, Served
  <2>4. Permit(m)' = "live"
    BY <2>2 DEF Permit
  <2>5. approving[m].text \in Bodies
    BY <1>1, CandidateIsText DEF CommitApproval, IInv
  <2>6. Elsewhere(m)
    <3>1. \A n \in Messages \ {m} : since'[n] = since[n] /\ status'[n] = status[n]
      BY <1>1, <2>1, DecideHolders DEF CommitApproval, IInv, TypeOK
    <3> QED
      BY <2>1, <3>1, ServedByDecision DEF Elsewhere, Still
  <2> QED
    BY <1>1, <2>1, <2>3, <2>4, <2>5, <2>6, DecideStep DEF CommitApproval
<1>2. CASE ~(CommitApproval(m) /\ ApprovalApplies(m))
  <2>1. UNCHANGED <<work, since, sanctioned, copies, overwritten>>
    BY <1>2 DEF Desk, StartDraft, FinishDraft, FailDraft, CustomerWrites, Edit,
           StartTranslation, WriteTranslation, StartApproval, CommitApproval, Reject,
           PickForRetirement, Retire, work, past
  <2>2. \A n \in Messages : Served(n)' <=> Served(n)
    BY <2>1, ServedSame
  <2>3. status'[m] = "approved" => status[m] = "approved"
    BY <1>2 DEF Desk, StartDraft, FinishDraft, FailDraft, CustomerWrites, Edit,
           StartTranslation, WriteTranslation, StartApproval, CommitApproval, Reject,
           PickForRetirement, Retire, SetStatus, rows, IInv, TypeOK
  <2>4. \A n \in Messages \ {m} : status'[n] = status[n]
    BY <1>2 DEF Desk, StartDraft, FinishDraft, FailDraft, CustomerWrites, Edit,
           StartTranslation, WriteTranslation, StartApproval, CommitApproval, Reject,
           PickForRetirement, Retire, SetStatus, rows, IInv, TypeOK
  <2>5. Permit(m)' = Permit(m) \/ (Permit(m) = "live" /\ Permit(m)' = "none")
    BY <2>1, <2>2, <2>3 DEF Permit, Served
  <2>6. Elsewhere(m)
    BY <2>1, <2>2, <2>4 DEF Elsewhere, Still
  <2> QED
    BY <2>1, <2>5, <2>6, QuietStep
<1> QED
  BY <1>1, <1>2

(* A late write is quiet if the row was still as it had been read.         *)
LEMMA WriteLateRefines ==
  ASSUME IInv, NEW m \in Messages, NEW what, WriteLate(m, what), Elsewhere(m),
         UNCHANGED <<sanctioned, copies>>,
         \/ Permit(m)' = Permit(m)
         \/ Permit(m) = "live" /\ Permit(m)' = "none"
         \/ Permit(m)' = "live"
  PROVE  [Outbox!Next]_(Outbox!vars)
<1>1. overwritten'[m] <=> overwritten[m] \/ status[m] \notin Asks[what]
  BY LateRow
<1>2. CASE overwritten'[m]
  BY <1>2, OverwriteStep
<1>3. CASE ~overwritten'[m]
  <2>1. overwritten'[m] = overwritten[m]
    <3>1. overwritten[m] = FALSE
      BY <1>1, <1>3 DEF IInv, TypeOK
    <3>2. overwritten'[m] = FALSE
      BY <1>3, WriteLateTyped DEF IInv
    <3> QED
      BY <3>1, <3>2
  <2> QED
    BY <2>1, QuietStep
<1> QED
  BY <1>2, <1>3

LEMMA LateRefines ==
  ASSUME IInv, NEW m \in Messages, Late(m)
  PROVE  [Outbox!Next]_(Outbox!vars)
<1>1. CASE \/ Abandon(m) \/ AskRedraft(m) \/ FindFailed(m) \/ FindOlderDraft(m)
           \/ AskNotSent(m) \/ AskSent(m) \/ FindCopy(m)
  <2>1. UNCHANGED <<status, work, past>>
    BY <1>1 DEF Abandon, Read, AskRedraft, FindFailed, FindOlderDraft, AskNotSent,
           AskSent, FindCopy, rows
  <2> QED
    BY <2>1 DEF work, past, Outbox!vars, Permit, Serves, Holds, Working
<1>2. ASSUME NEW what, WriteLate(m, what), what # "unsent",
             UNCHANGED <<work, since, sanctioned, copies>>
      PROVE  [Outbox!Next]_(Outbox!vars)
  <2>1. /\ what \in {"redraft", "clear", "close", "sent", "unsent", "settle"}
        /\ status'[m] = Writes[what]
        /\ \A n \in Messages \ {m} :
             status'[n] = status[n] /\ overwritten'[n] = overwritten[n]
    BY <1>2, LateRow
  <2>2. status'[m] # "approved"
    BY <1>2, <2>1, LateReads
  <2>3. \A n \in Messages : Served(n)' <=> Served(n)
    BY <1>2, ServedSame
  <2>4. Permit(m)' = Permit(m) \/ (Permit(m) = "live" /\ Permit(m)' = "none")
    BY <1>2, <2>2, <2>3 DEF Permit, Served
  <2>5. Elsewhere(m)
    BY <1>2, <2>1, <2>3 DEF Elsewhere, Still
  <2> QED
    BY <1>2, <2>4, <2>5, WriteLateRefines
<1>3. CASE ConfirmNotSent(m)
  <2>1. DecideAnew(m) /\ UNCHANGED <<pc, msg, sanctioned, copies>> /\ WriteLate(m, "unsent")
    BY <1>3 DEF ConfirmNotSent
  <2>2. /\ status'[m] = Writes["unsent"]
        /\ \A n \in Messages \ {m} :
             status'[n] = status[n] /\ overwritten'[n] = overwritten[n]
    BY <2>1, LateRow
  <2>3. status'[m] = "approved"
    BY <2>2 DEF Writes
  <2>4. \A n \in Messages : since'[n] = IF n = m THEN 0 ELSE since[n]
    BY <2>1, DecideHolders
  <2>5. Permit(m)' = "live"
    BY <2>3, <2>4 DEF Permit
  <2>6. Elsewhere(m)
    BY <2>1, <2>2, <2>4, ServedByDecision DEF Elsewhere, Still
  <2> QED
    BY <2>1, <2>5, <2>6, WriteLateRefines
<1> QED
  BY <1>1, <1>2, <1>3 DEF Late, Redraft, Clear, Supersede, ConfirmSent, Settle

-----------------------------------------------------------------------------
(* The workers                                                             *)

(* What worker w does changes only the row it holds.                       *)
LEMMA ElsewhereOfWorker ==
  ASSUME IInv, NEW w \in Workers, Working(w), UNCHANGED overwritten,
         \A v \in Workers \ {w} :
           pc'[v] = pc[v] /\ msg'[v] = msg[v] /\ earlier'[v] = earlier[v],
         pc'[w] = "idle" \/ msg'[w] = msg[w],
         \A n \in Messages \ {msg[w]} : since'[n] = since[n] /\ status'[n] = status[n]
  PROVE  Elsewhere(msg[w])
<1> SUFFICES ASSUME NEW n \in Messages, n # msg[w] PROVE Served(n)' <=> Served(n)
  BY DEF Elsewhere, Still
<1>1. ~Serves(w, n) /\ ~Serves(w, n)'
  BY DEF Serves, Holds, Working
<1>2. \A v \in Workers \ {w} : Serves(v, n)' <=> Serves(v, n)
  BY DEF Serves, Holds, Working
<1> QED
  BY <1>1, <1>2 DEF Served

(* A delivery is the outbox's Deliver of the row the worker holds, or the  *)
(* arrival of a mail of an earlier decision.                               *)
LEMMA ArriveRefines ==
  ASSUME IInv, NEW w \in Workers, NEW m \in Messages, m = msg[w],
         pc[w] = "posting", Arrive(w), Elsewhere(m), UNCHANGED status,
         \A v \in Workers \ {w} :
           pc'[v] = pc[v] /\ msg'[v] = msg[v] /\ earlier'[v] = earlier[v],
         pc'[w] = "idle" \/ (msg'[w] = msg[w] /\ earlier'[w] = earlier[w])
  PROVE  Outbox!Next
<1>1. Working(w) /\ overwritten'[m] = overwritten[m] /\ UNCHANGED sanctioned
  BY DEF Working, Arrive
<1>2. inHand[w] \in Bodies
  BY DEF IInv, TypeOK, PostedText
<1>3. copies' = [copies EXCEPT ![m] = @ \cup {inHand[w]}]
  BY DEF Arrive
<1>4. CASE earlier[w]
  <2>1. overwritten[m] /\ since'[m] = since[m]
    BY <1>4 DEF IInv, TypeOK, HeldRows, Arrive
  <2>2. Served(m)' <=> Served(m)
    <3>1. ~Serves(w, m)
      BY <1>4 DEF Serves
    <3>2. ~Serves(w, m)'
      BY <1>4 DEF Serves, Holds, Working
    <3>3. \A v \in Workers \ {w} : Serves(v, m)' <=> Serves(v, m)
      BY DEF Serves, Holds, Working
    <3> QED
      BY <3>1, <3>2, <3>3 DEF Served
  <2>3. Permit(m)' = Permit(m)
    BY <2>1, <2>2 DEF Permit, Served
  <2> QED
    BY <1>1, <1>2, <1>3, <2>1, <2>3, EarlierStep
<1>5. CASE ~earlier[w]
  <2>1. since[m] = 0 /\ inHand[w] = sanctioned[m]
    BY <1>1, <1>5 DEF IInv, UnpaidHolders, PostedText
  <2>2. since'[m] = 1
    BY <1>5, <2>1 DEF Arrive, IInv, TypeOK
  <2>3. Served(m)
    BY <1>1, <1>5 DEF Served, Serves, Holds
  <2>4. Permit(m) = "live" /\ Permit(m)' = "spent"
    BY <2>1, <2>2, <2>3 DEF Permit, Served
  <2> QED
    BY <1>1, <1>3, <2>1, <2>4, DeliverStep
<1> QED
  BY <1>4, <1>5

(* A worker that goes on or stops without a delivery.                      *)
LEMMA NoArrivalRefines ==
  ASSUME IInv, NEW w \in Workers, NEW m \in Messages, m = msg[w],
         Working(w), UNCHANGED past, Elsewhere(m),
         status'[m] = "approved" => status[m] = "approved",
         \A v \in Workers \ {w} :
           pc'[v] = pc[v] /\ msg'[v] = msg[v] /\ earlier'[v] = earlier[v],
         pc'[w] = "idle" \/ (msg'[w] = msg[w] /\ earlier'[w] = earlier[w])
  PROVE  [Outbox!Next]_(Outbox!vars)
<1>1. UNCHANGED <<since, sanctioned, copies, overwritten>>
  BY DEF past
<1>2. Served(m)' => Served(m)
  BY DEF Served, Serves, Holds, Working
<1>3. Permit(m)' = Permit(m) \/ (Permit(m) = "live" /\ Permit(m)' = "none")
  BY <1>1, <1>2 DEF Permit, Served
<1> QED
  BY <1>1, <1>3, QuietStep

LEMMA WorkRefines ==
  ASSUME IInv, NEW w \in Workers, Work(w)
  PROVE  [Outbox!Next]_(Outbox!vars)
<1> USE DEF Work, LoadRow, FindDisabled, LookUp, Refuse, Post, Declined, Throttle,
            Accept, Decline, Lose, Record, FailToRecord, Step, End, Stop
<1>1. Working(w) /\ msg[w] \in Messages
  <2>1. Working(w)
    BY DEF Recorded, Working
  <2> QED
    BY <2>1 DEF IInv, TypeOK
<1>2. \A v \in Workers \ {w} :
        pc'[v] = pc[v] /\ msg'[v] = msg[v] /\ earlier'[v] = earlier[v]
  BY DEF IInv, TypeOK
<1>3. pc'[w] = "idle" \/ (msg'[w] = msg[w] /\ earlier'[w] = earlier[w])
  BY DEF IInv, TypeOK
<1>4. \A n \in Messages \ {msg[w]} : status'[n] = status[n]
  BY DEF IInv, TypeOK, rows, SetStatus
<1>5. \A n \in Messages \ {msg[w]} : since'[n] = since[n]
  BY DEF Arrive, IInv, TypeOK, past
<1>6. UNCHANGED overwritten
  BY DEF Arrive, past
<1>7. Elsewhere(msg[w])
  BY <1>1, <1>2, <1>3, <1>4, <1>5, <1>6, ElsewhereOfWorker
<1>8. \/ UNCHANGED past /\ (status'[msg[w]] = "approved" => status[msg[w]] = "approved")
      \/ pc[w] = "posting" /\ Arrive(w) /\ UNCHANGED status
  BY <1>1 DEF rows, SetStatus, Recorded, Unrecorded, IInv, TypeOK
<1> HIDE DEF Work
<1> QED
  BY <1>1, <1>2, <1>3, <1>7, <1>8, ArriveRefines, NoArrivalRefines

LEMMA ClaimRefines ==
  ASSUME IInv, NEW w \in Workers, NEW m \in Messages, Claim(w, m)
  PROVE  [Outbox!Next]_(Outbox!vars)
<1>1. /\ \A v \in Workers \ {w} : pc'[v] = pc[v] /\ msg'[v] = msg[v]
      /\ UNCHANGED earlier /\ ~Working(w) /\ ~earlier[w] /\ Holds(w, m)'
  BY DEF Claim, IInv, TypeOK, Working, Holds, HeldRows
<1>2. UNCHANGED <<since, sanctioned, copies, overwritten>>
  BY DEF Claim, past
<1>3. Elsewhere(m)
  <2> SUFFICES ASSUME NEW n \in Messages, n # m PROVE Still(n)
    BY DEF Elsewhere
  <2>1. since'[n] = since[n] /\ status'[n] = status[n] /\ overwritten'[n] = overwritten[n]
    BY <1>2 DEF Claim, IInv, TypeOK
  <2>2. ~Serves(w, n) /\ ~Serves(w, n)'
    BY <1>1 DEF Serves, Holds
  <2>3. \A v \in Workers \ {w} : Serves(v, n)' <=> Serves(v, n)
    BY <1>1 DEF Serves, Holds, Working
  <2> QED
    BY <2>1, <2>2, <2>3 DEF Still, Served
<1>4. Permit(m)' = Permit(m)
  <2>1. Serves(w, m)'
    BY <1>1 DEF Serves
  <2> QED
    BY <1>2, <2>1 DEF Claim, Claimable, Permit
<1> QED
  BY <1>2, <1>3, <1>4, QuietStep

LEMMA CrashRefines ==
  ASSUME IInv, NEW w \in Workers, NEW arrived \in BOOLEAN, Crash(w, arrived)
  PROVE  [Outbox!Next]_(Outbox!vars)
<1>1. Working(w) /\ msg[w] \in Messages
  BY DEF Crash, IInv, TypeOK
<1>2. /\ pc'[w] = "idle"
      /\ \A v \in Workers \ {w} :
           pc'[v] = pc[v] /\ msg'[v] = msg[v] /\ earlier'[v] = earlier[v]
  BY DEF Crash, Stop, IInv, TypeOK
<1>3. \A n \in Messages \ {msg[w]} : since'[n] = since[n] /\ status'[n] = status[n]
  BY DEF Crash, Arrive, IInv, TypeOK, rows, past
<1>4. UNCHANGED <<status, overwritten>>
  BY DEF Crash, Arrive, rows, past
<1>5. Elsewhere(msg[w])
  BY <1>1, <1>2, <1>3, <1>4, ElsewhereOfWorker
<1>6. UNCHANGED past \/ (pc[w] = "posting" /\ Arrive(w))
  BY DEF Crash
<1> QED
  BY <1>1, <1>2, <1>4, <1>5, <1>6, ArriveRefines, NoArrivalRefines

LEMMA ReclaimRefines ==
  ASSUME IInv, NEW m \in Messages, Reclaim(m)
  PROVE  [Outbox!Next]_(Outbox!vars)
<1>1. UNCHANGED <<work, since, sanctioned, copies, overwritten>>
  BY DEF Reclaim, past
<1>2. \A n \in Messages : Served(n)' <=> Served(n)
  BY <1>1, ServedSame
<1>3. \A n \in Messages \ {m} : since'[n] = since[n] /\ status'[n] = status[n]
  BY <1>1 DEF Reclaim, SetStatus, IInv, TypeOK
<1>4. Elsewhere(m)
  BY <1>1, <1>2, <1>3 DEF Elsewhere, Still
<1>5. status[m] # "approved" /\ status'[m] # "approved"
  BY DEF Reclaim, SetStatus, Quarantine, IInv, TypeOK
<1>6. Permit(m)' = Permit(m)
  BY <1>1, <1>2, <1>5 DEF Permit, Served
<1> QED
  BY <1>1, <1>4, <1>6, QuietStep

-----------------------------------------------------------------------------
(* The refinement theorem                                                  *)

LEMMA InitRefines == Init => Outbox!Init
<1> SUFFICES ASSUME Init PROVE Outbox!Init
  OBVIOUS
<1>1. permits \in [Messages -> {"none", "live"}]
  BY DEF Init, permits, Permit
<1>2. sanctioned \in [Messages -> Bodies \cup {NoBody}] /\ copies = [m \in Messages |-> {}]
  BY DEF Init
<1>3. firms = [m \in Messages |-> TRUE]
  <2>1. \A m \in Messages : (~overwritten[m]) = TRUE
    BY DEF Init
  <2> QED
    BY <2>1 DEF firms
<1> QED
  BY <1>1, <1>2, <1>3 DEF Outbox!Init, permits, firms

LEMMA NextRefines == IInv /\ [Next]_vars => [Outbox!Next]_(Outbox!vars)
<1> SUFFICES ASSUME IInv, [Next]_vars PROVE [Outbox!Next]_(Outbox!vars)
  OBVIOUS
<1>1. ASSUME NEW m \in Messages, Desk(m) \/ Late(m) \/ Reclaim(m)
      PROVE  [Outbox!Next]_(Outbox!vars)
  BY <1>1, DeskRefines, LateRefines, ReclaimRefines
<1>2. ASSUME NEW w \in Workers, Work(w)
      PROVE  [Outbox!Next]_(Outbox!vars)
  BY <1>2, WorkRefines
<1>3. ASSUME NEW w \in Workers, NEW m \in Messages, Claim(w, m)
      PROVE  [Outbox!Next]_(Outbox!vars)
  BY <1>3, ClaimRefines
<1>4. ASSUME NEW w \in Workers, NEW arrived \in BOOLEAN, Crash(w, arrived)
      PROVE  [Outbox!Next]_(Outbox!vars)
  BY <1>4, CrashRefines
<1>5. CASE UNCHANGED vars
  BY <1>5 DEF vars, rows, work, past, Outbox!vars, Permit, Serves, Holds, Working
<1> QED
  BY <1>1, <1>2, <1>3, <1>4, <1>5 DEF Next

(* The workers, the console, the draft writer, the sweep and the provider  *)
(* together keep the promise of ReplyOutbox: a reply leaves only on a live *)
(* permit, with the text the permit was given for, and as long as no write *)
(* by id went astray nobody approves a reply that is queued, on its way or *)
(* sent.                                                                   *)
THEOREM ImplementsOutbox == Spec => OutboxSpec
<1>1. Spec => []IInv
  BY Invariance
<1> QED
  BY <1>1, InitRefines, NextRefines, PTL DEF Spec, OutboxSpec, Outbox!Spec
=============================================================================
