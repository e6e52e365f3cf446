-------------------------- MODULE StageSyncProofs --------------------------
(***************************************************************************)
(* What StageSync guarantees for any number of tickets, any set of stages  *)
(* and any number of moves: types, reminders that fit the stage, no        *)
(* profile of a contact that is gone, and cards and mails that are kept.   *)
(***************************************************************************)
EXTENDS StageSync, TLAPS

Safe == TypeOK /\ RemindersFitStage /\ NobodyLeft

CardStep == \A t \in Tickets : card[t] = "done" => card'[t] = "done"

MailStep ==
  \A t \in Tickets : mail[t] # "none" /\ mail'[t] = "none" =>
    \A u \in Tickets : ~Held(u)' /\ ~signed[u]

(* What every step keeps.                                                  *)
Kept == Safe' /\ CardStep /\ MailStep

(* What the rules about reminders, contacts, cards and mails look at.      *)
looked == <<stage, reminder, mail, profile, signed, card>>

-----------------------------------------------------------------------------
LEMMA AbsentIsNoStage == Absent \notin Stages /\ Unmapped \notin Stages
BY NotAStage DEF Absent, Unmapped

LEMMA ReportTyped ==
  ASSUME NEW t \in Tickets, NEW s \in Stages \cup {Unmapped},
         NEW by \in {"webhook", "sweep", "manual", "intake"}, NEW known \in BOOLEAN
  PROVE  Report(t, s, by, known) \in Reports
BY DEF Report, Reports

LEMMA CallTyped ==
  ASSUME NEW t \in Tickets, NEW s \in Stages, NEW at \in {"workbook", "both", "hubspot"}
  PROVE  Call(t, s, at) \in Calls
BY DEF Call, Calls

LEMMA CallParts ==
  ASSUME NEW c \in Calls
  PROVE  c.ticket \in Tickets /\ c.stage \in Stages
BY DEF Calls

LEMMA ReportParts ==
  ASSUME NEW r \in Reports
  PROVE  r.ticket \in Tickets /\ r.stage \in Stages \cup {Unmapped}
BY DEF Reports

LEMMA Beginning == Init => Safe
<1> SUFFICES ASSUME Init PROVE Safe
  OBVIOUS
<1>1. hs \in [Tickets -> Stages \cup {Unmapped}] /\ stage \in [Tickets -> Stages \cup {Absent}]
  BY StartsAreIds DEF Init, Unmapped
<1>2. profile \in Stages \cup {"none"}
  BY <1>1 DEF Init, Newest, Held
<1>3. TypeOK
  <2>1. /\ pipe \in [Tickets -> {"ours", "other", "deleted"}]
        /\ changed \in [Tickets -> {"fresh", "searched", "recent", "passing", "old"}]
        /\ leftNew \in [Tickets -> BOOLEAN] /\ draft \in [Tickets -> {"none", "finishing", "waiting"}]
        /\ reminder \in [Tickets -> {"none", "copying", "waiting", "late"}]
        /\ mail \in [Tickets -> {"none", "thread", "history"}]
    BY DEF Init
  <2>2. /\ card \in [Tickets -> {"none", "pending", "dismissed", "done"}]
        /\ linked \in [Tickets -> BOOLEAN] /\ signed \in [Tickets -> BOOLEAN]
        /\ cell \in [Tickets -> Stages \cup {Absent}]
        /\ judged \in [Tickets -> {"none", "answered", "contacted", "negotiation"}]
        /\ unpushed \in [Tickets -> BOOLEAN] /\ missed \in [Tickets -> BOOLEAN]
        /\ skipped \in [Tickets -> BOOLEAN]
    BY <1>1 DEF Init
  <2>3. /\ reports \subseteq Reports /\ calls \subseteq Calls /\ doomed \subseteq Tickets
        /\ sweeping \in BOOLEAN
    BY DEF Init
  <2>4. moves \in 0..MaxMoves
    BY MovesAreBounded DEF Init
  <2> QED BY <1>1, <1>2, <2>1, <2>2, <2>3, <2>4 DEF TypeOK
<1>4. RemindersFitStage
  BY DEF Init, RemindersFitStage
<1>5. NobodyLeft
  BY DEF Init, NobodyLeft, Newest
<1> QED BY <1>3, <1>4, <1>5 DEF Safe

LEMMA BecomesTyped ==
  ASSUME TypeOK, NEW t \in Tickets, NEW s \in Stages \cup {Unmapped}, Becomes(t, s)
  PROVE  /\ hs' \in [Tickets -> Stages \cup {Unmapped}]
         /\ changed' \in [Tickets -> {"fresh", "searched", "recent", "passing", "old"}]
         /\ reports' \subseteq Reports
         /\ unpushed' \in [Tickets -> BOOLEAN] /\ skipped' \in [Tickets -> BOOLEAN]
<1>1. Report(t, s, "webhook", TRUE) \in Reports
  BY ReportTyped
<1> QED BY <1>1 DEF TypeOK, Becomes

LEMMA DecideTyped == ASSUME TypeOK, Decide PROVE moves' \in 0..MaxMoves
BY MovesAreBounded DEF TypeOK, Decide

(* A step that leaves what the rules look at alone keeps them.             *)
LEMMA NothingLookedAt ==
  ASSUME Safe, TypeOK', UNCHANGED looked
  PROVE  Kept
BY DEF Safe, Kept, looked, CardStep, MailStep, RemindersFitStage, NobodyLeft, Held, TypeOK

(* People in HubSpot.                                                      *)
LEMMA HubSpotSteps ==
  ASSUME Safe, NEW t \in Tickets, NEW s \in Stages \cup {Unmapped},
         \/ PersonMoves(t, s) \/ PersonBrings(t, s)
         \/ PersonTakesAway(t) \/ PersonDeletes(t)
  PROVE  Kept
<1>1. CASE PersonMoves(t, s)
  <2>1. TypeOK'
    BY <1>1, DecideTyped, BecomesTyped DEF Safe, TypeOK, PersonMoves, hubspot, thread, ledger, traffic, faults
  <2>2. UNCHANGED looked
    BY <1>1 DEF looked, PersonMoves, thread, ledger
  <2> QED BY <2>1, <2>2, NothingLookedAt
<1>2. CASE PersonBrings(t, s)
  <2>1. TypeOK'
    BY <1>2, DecideTyped, BecomesTyped DEF Safe, TypeOK, PersonBrings, hubspot, thread, ledger, traffic, faults
  <2>2. UNCHANGED looked
    BY <1>2 DEF looked, PersonBrings, thread, ledger
  <2> QED BY <2>1, <2>2, NothingLookedAt
<1>3. CASE PersonTakesAway(t)
  <2>1. TypeOK'
    BY <1>3, DecideTyped, BecomesTyped DEF Safe, TypeOK, PersonTakesAway, hubspot, thread, ledger, traffic, faults
  <2>2. UNCHANGED looked
    BY <1>3 DEF looked, PersonTakesAway, thread, ledger
  <2> QED BY <2>1, <2>2, NothingLookedAt
<1>4. CASE PersonDeletes(t)
  <2>1. TypeOK'
    BY <1>4, MovesAreBounded DEF Safe, TypeOK, PersonDeletes, Decide, hubspot, thread, ledger, traffic, faults
  <2>2. UNCHANGED looked
    BY <1>4 DEF looked, PersonDeletes, thread, ledger
  <2> QED BY <2>1, <2>2, NothingLookedAt
<1> QED BY <1>1, <1>2, <1>3, <1>4

(* Whoever only learns or decides something.                               *)
LEMMA LearningSteps ==
  ASSUME Safe, NEW t \in Tickets, NEW s \in Stages,
         \/ ReadAgain(t) \/ FetchNew(t) \/ FindGone(t)
         \/ JudgeReply(t, s) \/ ForgetJudgement(t) \/ BeginFinish(t) \/ FinishDraft(t)
  PROVE  Kept
<1>1. CASE ReadAgain(t)
  <2>1. TypeOK'
    <3>1. hs[t] \in Stages \cup {Unmapped}
      BY DEF Safe, TypeOK
    <3>2. reports' \subseteq Reports
      BY <1>1, <3>1, ReportTyped DEF Safe, TypeOK, ReadAgain
    <3> QED BY <1>1, <3>2, DecideTyped DEF Safe, TypeOK, ReadAgain, hubspot, thread, ledger, faults
  <2>2. UNCHANGED looked
    BY <1>1 DEF looked, ReadAgain, thread, ledger
  <2> QED BY <2>1, <2>2, NothingLookedAt
<1>2. CASE FetchNew(t)
  <2>1. TypeOK'
    <3>1. reports' \subseteq Reports
      <4>1. Report(t, "new", "intake", TRUE) \in Reports
        BY StagesTheCodeNames, ReportTyped
      <4> QED BY <1>2, <4>1 DEF Safe, TypeOK, FetchNew
    <3> QED BY <1>2, <3>1 DEF Safe, TypeOK, FetchNew, hubspot, thread, ledger, faults
  <2>2. UNCHANGED looked
    BY <1>2 DEF looked, FetchNew, thread, ledger
  <2> QED BY <2>1, <2>2, NothingLookedAt
<1>3. CASE FindGone(t)
  <2>1. TypeOK'
    BY <1>3 DEF Safe, TypeOK, FindGone, hubspot, thread, ledger, traffic, faults
  <2>2. UNCHANGED looked
    BY <1>3 DEF looked, FindGone, thread, ledger
  <2> QED BY <2>1, <2>2, NothingLookedAt
<1>4. CASE JudgeReply(t, s)
  <2>1. TypeOK'
    BY <1>4, MovesAreBounded DEF Safe, TypeOK, JudgeReply, Decide, hubspot, thread, ledger, traffic, faults
  <2>2. UNCHANGED looked
    BY <1>4 DEF looked, JudgeReply, thread, ledger
  <2> QED BY <2>1, <2>2, NothingLookedAt
<1>5. CASE ForgetJudgement(t)
  <2>1. TypeOK'
    BY <1>5 DEF Safe, TypeOK, ForgetJudgement, hubspot, thread, ledger, traffic, faults
  <2>2. UNCHANGED looked
    BY <1>5 DEF looked, ForgetJudgement, thread, ledger
  <2> QED BY <2>1, <2>2, NothingLookedAt
<1>6. CASE BeginFinish(t)
  <2>1. TypeOK'
    BY <1>6 DEF Safe, TypeOK, BeginFinish, hubspot, ledger, traffic, faults
  <2>2. UNCHANGED looked
    BY <1>6 DEF looked, BeginFinish, ledger
  <2> QED BY <2>1, <2>2, NothingLookedAt
<1>7. CASE FinishDraft(t)
  <2>1. TypeOK'
    BY <1>7 DEF Safe, TypeOK, FinishDraft, hubspot, ledger, traffic, faults
  <2>2. UNCHANGED looked
    BY <1>7 DEF looked, FinishDraft, ledger
  <2> QED BY <2>1, <2>2, NothingLookedAt
<1> QED BY <1>1, <1>2, <1>3, <1>4, <1>5, <1>6, <1>7

(* The sweep, the calls and a restart.                                     *)
LEMMA MachineSteps ==
  ASSUME Safe, \/ Search \/ SaveMarker \/ Restart
               \/ \E c \in calls : WriteCell(c) \/ PushStage(c)
               \/ \E r \in reports : SkipRow(r)
  PROVE  Kept
<1>1. CASE Search
  <2>1. TypeOK'
    <3>1. \A t \in Tickets : Report(t, hs[t], "sweep", Held(t)) \in Reports
      BY ReportTyped DEF Safe, TypeOK, Held
    <3>2. reports' \subseteq Reports
      BY <1>1, <3>1 DEF Safe, TypeOK, Search
    <3>3. changed' \in [Tickets -> {"fresh", "searched", "recent", "passing", "old"}]
      BY <1>1 DEF Safe, TypeOK, Search
    <3> QED BY <1>1, <3>2, <3>3 DEF Safe, TypeOK, Search, thread, ledger, faults
  <2>2. UNCHANGED looked
    BY <1>1 DEF looked, Search, thread, ledger
  <2> QED BY <2>1, <2>2, NothingLookedAt
<1>2. CASE SaveMarker
  <2>1. TypeOK'
    BY <1>2 DEF Safe, TypeOK, SaveMarker, hubspot, thread, ledger, traffic, faults
  <2>2. UNCHANGED looked
    BY <1>2 DEF looked, SaveMarker, thread, ledger
  <2> QED BY <2>1, <2>2, NothingLookedAt
<1>3. CASE Restart
  <2>1. TypeOK'
    <3>1. /\ changed' \in [Tickets -> {"fresh", "searched", "recent", "passing", "old"}]
          /\ judged' \in [Tickets -> {"none", "answered", "contacted", "negotiation"}]
      BY <1>3 DEF Safe, TypeOK, Restart
    <3>2. unpushed' \in [Tickets -> BOOLEAN] /\ missed' \in [Tickets -> BOOLEAN]
      BY <1>3 DEF Safe, TypeOK, Restart
    <3>3. reports' \subseteq Reports /\ calls' \subseteq Calls /\ doomed' \subseteq Tickets
      BY <1>3 DEF Safe, TypeOK, Restart
    <3>4. /\ draft' \in [Tickets -> {"none", "finishing", "waiting"}]
          /\ reminder' \in [Tickets -> {"none", "copying", "waiting", "late"}]
      BY <1>3 DEF Safe, TypeOK, Restart
    <3> QED BY <1>3, <3>1, <3>2, <3>3, <3>4, DecideTyped DEF Safe, TypeOK, Restart, ledger
  <2>2. RemindersFitStage'
    BY <1>3 DEF Safe, TypeOK, RemindersFitStage, Restart
  <2>3. NobodyLeft' /\ CardStep /\ MailStep
    BY <1>3 DEF Safe, NobodyLeft, CardStep, MailStep, Restart, Held, ledger
  <2> QED BY <2>1, <2>2, <2>3 DEF Safe, Kept
<1>4. ASSUME NEW c \in calls, WriteCell(c) PROVE Kept
  <2>1. TypeOK'
    <3>1. c \in Calls /\ c.ticket \in Tickets /\ c.stage \in Stages
      BY <1>4, CallParts DEF Safe, TypeOK
    <3>2. cell' \in [Tickets -> Stages \cup {Absent}]
      BY <1>4, <3>1 DEF Safe, TypeOK, WriteCell
    <3>4. missed' \in [Tickets -> BOOLEAN]
      BY <1>4, <3>1 DEF Safe, TypeOK, WriteCell
    <3>3. calls' \subseteq Calls
      BY <1>4, <3>1, CallTyped DEF Safe, TypeOK, WriteCell
    <3> QED BY <1>4, <3>2, <3>3, <3>4 DEF Safe, TypeOK, WriteCell, hubspot, thread, ledger
  <2>2. UNCHANGED looked
    BY <1>4 DEF looked, WriteCell, thread, ledger
  <2> QED BY <2>1, <2>2, NothingLookedAt
<1>5. ASSUME NEW c \in calls, PushStage(c) PROVE Kept
  <2>1. TypeOK'
    <3>1. c \in Calls /\ c.ticket \in Tickets /\ c.stage \in Stages
      BY <1>5, CallParts DEF Safe, TypeOK
    <3>2. /\ hs' \in [Tickets -> Stages \cup {Unmapped}]
          /\ changed' \in [Tickets -> {"fresh", "searched", "recent", "passing", "old"}]
          /\ reports' \subseteq Reports
          /\ unpushed' \in [Tickets -> BOOLEAN] /\ skipped' \in [Tickets -> BOOLEAN]
      BY <1>5, <3>1, BecomesTyped DEF Safe, TypeOK, PushStage
    <3>3. calls' \subseteq Calls
      BY <1>5 DEF Safe, TypeOK, PushStage
    <3> QED BY <1>5, <3>2, <3>3 DEF Safe, TypeOK, PushStage, thread, ledger
  <2>2. UNCHANGED looked
    BY <1>5 DEF looked, PushStage, thread, ledger
  <2> QED BY <2>1, <2>2, NothingLookedAt
<1>6. ASSUME NEW r \in reports, SkipRow(r) PROVE Kept
  <2>1. TypeOK'
    <3>1. reports' \subseteq Reports /\ skipped' \in [Tickets -> BOOLEAN]
      BY <1>6 DEF Safe, TypeOK, SkipRow
    <3> QED BY <1>6, <3>1, DecideTyped DEF Safe, TypeOK, SkipRow, hubspot, thread, ledger
  <2>2. UNCHANGED looked
    BY <1>6 DEF looked, SkipRow, thread, ledger
  <2> QED BY <2>1, <2>2, NothingLookedAt
<1> QED BY <1>1, <1>2, <1>3, <1>4, <1>5, <1>6

-----------------------------------------------------------------------------
(* A thread is moved.                                                      *)

LEMMA MirrorTyped ==
  ASSUME NEW t \in Tickets, NEW s \in Stages
  PROVE  MirrorOf(t, s) \subseteq Calls /\ PushOf(t, s) \subseteq Calls
BY CallTyped DEF MirrorOf, PushOf

LEMMA BoardMoveKeeps ==
  ASSUME Safe, NEW t \in Tickets, NEW s \in Stages, Held(t), BoardMove(t, s),
         UNCHANGED <<hubspot, cell, reports, doomed, sweeping, faults>>,
         judged' \in [Tickets -> {"none", "answered", "contacted", "negotiation"}],
         moves' \in 0..MaxMoves
  PROVE  Kept
<1>1. TypeOK'
  BY MirrorTyped DEF Safe, TypeOK, BoardMove, SetStage, Retire, DraftAfter, ReminderAfter,
     ReminderIsUnsent, CardAfter, ProfileAfter, hubspot, faults
<1>2. RemindersFitStage'
  BY DEF Safe, TypeOK, RemindersFitStage, BoardMove, SetStage, Retire, ReminderAfter,
     ReminderIsUnsent
<1>3. NobodyLeft'
  BY AbsentIsNoStage DEF Safe, TypeOK, NobodyLeft, BoardMove, SetStage, Held
<1>4. CardStep
  BY DEF Safe, TypeOK, CardStep, BoardMove, CardAfter
<1>5. MailStep
  BY DEF MailStep, BoardMove
<1> QED BY <1>1, <1>2, <1>3, <1>4, <1>5 DEF Safe, Kept

LEMMA OperatorSteps ==
  ASSUME Safe, NEW t \in Tickets, NEW s \in Stages, OperatorMoves(t, s)
  PROVE  Kept
<1>1. moves' \in 0..MaxMoves
  BY MovesAreBounded DEF Safe, TypeOK, OperatorMoves, Decide
<1> QED BY <1>1, BoardMoveKeeps DEF Safe, TypeOK, OperatorMoves

LEMMA AnswerSteps ==
  ASSUME Safe, NEW t \in Tickets, AdvanceOnReply(t) \/ MoveAnsweredElsewhere(t)
  PROVE  Kept
<1>1. CASE MoveAnsweredElsewhere(t)
  <2>1. judged' \in [Tickets -> {"none", "answered", "contacted", "negotiation"}]
    BY <1>1 DEF Safe, TypeOK, MoveAnsweredElsewhere
  <2> QED BY <1>1, <2>1, BoardMoveKeeps DEF Safe, TypeOK, MoveAnsweredElsewhere
<1>2. CASE AdvanceOnReply(t)
  <2>1. TypeOK'
    BY <1>2, MirrorTyped, StagesTheCodeNames
    DEF Safe, TypeOK, AdvanceOnReply, SetStage, ReminderAfter, ReminderIsUnsent, ProfileAfter,
        hubspot, ledger, faults
  <2>2. RemindersFitStage'
    BY <1>2
    DEF Safe, TypeOK, RemindersFitStage, AdvanceOnReply, SetStage, ReminderAfter, ReminderIsUnsent
  <2>3. NobodyLeft'
    BY <1>2, AbsentIsNoStage, StagesTheCodeNames
    DEF Safe, TypeOK, NobodyLeft, AdvanceOnReply, SetStage, Held
  <2>4. CardStep /\ MailStep
    BY <1>2 DEF CardStep, MailStep, AdvanceOnReply, ledger
  <2> QED BY <2>1, <2>2, <2>3, <2>4 DEF Safe, Kept
<1> QED BY <1>1, <1>2

(* A stage that is set is one we know.                                     *)
LEMMA SetStageTyped ==
  ASSUME TypeOK, NEW t \in Tickets, NEW s \in Stages, SetStage(t, s)
  PROVE  /\ stage' \in [Tickets -> Stages \cup {Absent}]
         /\ leftNew' \in [Tickets -> BOOLEAN]
<1>1. stage' \in [Tickets -> Stages \cup {Absent}]
  BY DEF TypeOK, SetStage
<1>2. (leftNew[t] \/ s \notin {"new", Absent}) \in BOOLEAN
  BY DEF TypeOK
<1>3. leftNew' \in [Tickets -> BOOLEAN]
  BY <1>2 DEF TypeOK, SetStage
<1> QED BY <1>1, <1>3

(* A sent reply, a reminder, a contract.                                   *)
LEMMA DeskSteps ==
  ASSUME Safe, NEW t \in Tickets, NEW typed \in BOOLEAN,
         \/ SendReply(t) \/ SignContract(t, typed)
         \/ BeginReminder(t) \/ CreateReminder(t) \/ GiveUpReminder(t) \/ MailReminder(t)
  PROVE  Kept
<1>1. CASE SendReply(t)
  <2>1. TypeOK'
    <3>1. /\ stage' \in [Tickets -> Stages \cup {Absent}] /\ leftNew' \in [Tickets -> BOOLEAN]
      <4>1. CASE stage[t] = "new"
        <5>1. SetStage(t, "contacted")
          BY <1>1, <4>1 DEF SendReply
        <5> QED BY <5>1, SetStageTyped, StagesTheCodeNames DEF Safe
      <4>2. CASE stage[t] # "new"
        BY <1>1, <4>2 DEF Safe, TypeOK, SendReply
      <4> QED BY <4>1, <4>2
    <3>3. calls' \subseteq Calls
      <4>1. PushOf(t, "contacted") \subseteq Calls
        BY MirrorTyped, StagesTheCodeNames
      <4> QED BY <1>1, <4>1 DEF Safe, TypeOK, SendReply
    <3>2. draft' \in [Tickets -> {"none", "finishing", "waiting"}]
      BY <1>1 DEF Safe, TypeOK, SendReply
    <3> QED BY <1>1, <3>1, <3>2, <3>3 DEF Safe, TypeOK, SendReply, hubspot, ledger, faults
  <2>2. RemindersFitStage'
    BY <1>1 DEF Safe, TypeOK, RemindersFitStage, SendReply, SetStage
  <2>3. NobodyLeft'
    BY <1>1, AbsentIsNoStage, StagesTheCodeNames
    DEF Safe, TypeOK, NobodyLeft, SendReply, SetStage, Held, ledger
  <2>4. CardStep /\ MailStep
    BY <1>1 DEF CardStep, MailStep, SendReply, ledger
  <2> QED BY <2>1, <2>2, <2>3, <2>4 DEF Safe, Kept
<1>2. ASSUME NEW from, NEW to \in {"none", "copying", "waiting", "late"}, Remind(t, from, to),
             moves' \in 0..MaxMoves, to = "waiting" => stage[t] \in {"contacted", "new"}
      PROVE  Kept
  <2>1. TypeOK'
    BY <1>2 DEF Safe, TypeOK, Remind, hubspot, ledger, traffic, faults
  <2>2. RemindersFitStage'
    BY <1>2 DEF Safe, TypeOK, RemindersFitStage, Remind
  <2>3. NobodyLeft' /\ CardStep /\ MailStep
    BY <1>2 DEF Safe, NobodyLeft, CardStep, MailStep, Remind, Held, ledger
  <2> QED BY <2>1, <2>2, <2>3 DEF Safe, Kept
<1>4. CASE BeginReminder(t)
  BY <1>2, <1>4, DecideTyped DEF Safe, BeginReminder
<1>5. CASE CreateReminder(t)
  BY <1>2, <1>5 DEF Safe, TypeOK, CreateReminder
<1>6. CASE GiveUpReminder(t)
  BY <1>2, <1>6 DEF Safe, TypeOK, GiveUpReminder
<1>7. CASE MailReminder(t)
  BY <1>2, <1>7 DEF Safe, TypeOK, MailReminder
<1>3. CASE SignContract(t, typed)
  <2>1. TypeOK'
    BY <1>3 DEF Safe, TypeOK, SignContract, hubspot, thread, traffic, faults
  <2>2. RemindersFitStage' /\ NobodyLeft'
    BY <1>3 DEF Safe, TypeOK, RemindersFitStage, NobodyLeft, SignContract, Held, thread
  <2>3. CardStep /\ MailStep
    BY <1>3 DEF Safe, TypeOK, CardStep, MailStep, SignContract, thread
  <2> QED BY <2>1, <2>2, <2>3 DEF Safe, Kept
<1> QED BY <1>1, <1>3, <1>4, <1>5, <1>6, <1>7

LEMMA BackfillKeeps ==
  ASSUME Safe, Backfill
  PROVE  Kept
<1> DEFINE found == {t \in Tickets : Ours(t)}
           local(t) == LocalStage(hs[t])
           movedOn == {t \in found : Held(t) /\ stage[t] # local(t)}
<1>1. \A t \in Tickets : local(t) \in Stages
  BY StagesTheCodeNames DEF Safe, TypeOK, LocalStage
<1>2. TypeOK'
  <2>1. /\ draft' \in [Tickets -> {"none", "finishing", "waiting"}]
        /\ reminder' \in [Tickets -> {"none", "copying", "waiting", "late"}]
        /\ card' \in [Tickets -> {"none", "pending", "dismissed", "done"}]
    BY DEF Safe, TypeOK, Backfill, DraftAfter, ReminderAfter, CardAfter
  <2>2. /\ stage' \in [Tickets -> Stages \cup {Absent}] /\ leftNew' \in [Tickets -> BOOLEAN]
        /\ profile' \in Stages \cup {"none"} /\ moves' \in 0..MaxMoves
    BY <1>1, MovesAreBounded DEF Safe, TypeOK, Backfill, Decide
  <2>3. UNCHANGED <<hubspot, mail, linked, signed, cell, traffic, faults>>
    BY DEF Backfill
  <2> QED BY <2>1, <2>2, <2>3 DEF Safe, TypeOK, hubspot, traffic, faults
<1>3. RemindersFitStage'
  <2> SUFFICES ASSUME NEW t \in Tickets, reminder'[t] = "waiting"
               PROVE  stage'[t] \in {"contacted", "new"}
    BY DEF RemindersFitStage
  <2>1. reminder[t] = "waiting" /\ stage[t] \in {"contacted", "new"}
    BY DEF Safe, TypeOK, RemindersFitStage, Backfill, ReminderAfter
  <2>2. CASE t \in movedOn
    BY <2>1, <2>2 DEF Backfill, ReminderAfter, ReminderIsUnsent
  <2>3. CASE t \notin movedOn
    BY <2>1, <2>3 DEF Backfill, Held, Absent
  <2> QED BY <2>2, <2>3
<1>4. NobodyLeft'
  BY <1>1, AbsentIsNoStage DEF NobodyLeft, Backfill, Held
<1>5. CardStep
  BY DEF Safe, TypeOK, CardStep, Backfill, CardAfter
<1>6. MailStep
  BY DEF MailStep, Backfill
<1> QED BY <1>2, <1>3, <1>4, <1>5, <1>6 DEF Safe, Kept

-----------------------------------------------------------------------------
(* A report is applied, a New ticket is taken in, a thread goes.           *)

LEMMA AlignKeeps ==
  ASSUME Safe, NEW t \in Tickets, NEW s \in Stages, Held(t), Align(t, s),
         reports' \subseteq reports, skipped' \in [Tickets -> BOOLEAN],
         UNCHANGED <<hubspot, cell, judged, sweeping, moves, unpushed, missed>>
  PROVE  Kept
<1>1. TypeOK'
  BY MirrorTyped DEF Safe, TypeOK, Align, SetStage, Retire, DraftAfter, ReminderAfter,
     ReminderIsUnsent, CardAfter, CardAtWon, ProfileAfter, hubspot
<1>2. RemindersFitStage'
  BY DEF Safe, TypeOK, RemindersFitStage, Align, SetStage, Retire, ReminderAfter,
     ReminderIsUnsent
<1>3. NobodyLeft'
  BY AbsentIsNoStage DEF Safe, TypeOK, NobodyLeft, Align, SetStage, Held
<1>4. CardStep
  BY DEF Safe, TypeOK, CardStep, Align, CardAfter, CardAtWon
<1>5. MailStep
  BY DEF MailStep, Align
<1> QED BY <1>1, <1>2, <1>3, <1>4, <1>5 DEF Safe, Kept

LEMMA AdoptKeeps ==
  ASSUME Safe, NEW t \in Tickets, NEW s \in Stages \cup {Unmapped}, ~Held(t), Adopt(t, s),
         reports' \subseteq reports, skipped' \in [Tickets -> BOOLEAN],
         UNCHANGED <<hubspot, cell, judged, sweeping, moves, unpushed, missed>>
  PROVE  Kept
<1>1. LocalStage(s) \in Stages
  BY StagesTheCodeNames DEF LocalStage
<1>2. TypeOK'
  BY <1>1 DEF Safe, TypeOK, Adopt, SetStage, hubspot, ledger
<1>3. RemindersFitStage'
  BY DEF Safe, TypeOK, RemindersFitStage, Adopt, SetStage, Held, Absent
<1>4. NobodyLeft'
  BY <1>1, AbsentIsNoStage DEF Safe, TypeOK, NobodyLeft, Adopt, SetStage, Held
<1>5. CardStep /\ MailStep
  BY DEF CardStep, MailStep, Adopt, ledger
<1> QED BY <1>2, <1>3, <1>4, <1>5 DEF Safe, Kept

LEMMA ApplyKeeps ==
  ASSUME Safe, NEW r \in reports, Apply(r)
  PROVE  Kept
<1>1. r.ticket \in Tickets /\ r.stage \in Stages \cup {Unmapped}
  BY ReportParts DEF Safe, TypeOK
<1>2. /\ reports' \subseteq reports /\ skipped' \in [Tickets -> BOOLEAN]
      /\ UNCHANGED <<hubspot, cell, judged, sweeping, moves, unpushed, missed>>
  BY DEF Apply, Safe, TypeOK
<1>3. CASE UNCHANGED <<thread, profile, ledger, calls, doomed>>
  <2>1. TypeOK' /\ UNCHANGED looked
    BY <1>2, <1>3 DEF Safe, TypeOK, looked, hubspot, thread, ledger
  <2> QED BY <2>1, NothingLookedAt
<1>4. CASE HandleUnmapped(r.ticket)
  <2>1. TypeOK' /\ UNCHANGED looked
    BY <1>1, <1>2, <1>4 DEF Safe, TypeOK, looked, HandleUnmapped, hubspot, thread, ledger
  <2> QED BY <2>1, NothingLookedAt
<1>5. CASE ~Held(r.ticket) /\ Adopt(r.ticket, r.stage)
  BY <1>1, <1>2, <1>5, AdoptKeeps
<1>6. CASE Held(r.ticket) /\ r.stage # Unmapped /\ Align(r.ticket, r.stage)
  BY <1>1, <1>2, <1>6, AlignKeeps
<1> QED BY <1>3, <1>4, <1>5, <1>6 DEF Apply, SyncStage

LEMMA TakeInKeeps ==
  ASSUME Safe, NEW r \in reports, TakeIn(r)
  PROVE  Kept
<1> DEFINE t == r.ticket
<1>1. t \in Tickets
  BY ReportParts DEF Safe, TypeOK
<1>2. TypeOK'
  BY <1>1, StagesTheCodeNames
  DEF Safe, TypeOK, TakeIn, SetStage, hubspot, ledger, faults
<1>3. RemindersFitStage'
  BY <1>1 DEF Safe, TypeOK, RemindersFitStage, TakeIn, SetStage, Held, Absent
<1>4. NobodyLeft'
  BY <1>1 DEF Safe, TypeOK, NobodyLeft, TakeIn
<1>5. CardStep /\ MailStep
  BY <1>1 DEF Safe, TypeOK, CardStep, MailStep, TakeIn, ledger
<1> QED BY <1>2, <1>3, <1>4, <1>5 DEF Safe, Kept

LEMMA DeletionKeeps ==
  ASSUME Safe, NEW t \in Tickets, DeleteConversation(t)
  PROVE  Kept
<1>1. TypeOK'
  BY DEF Safe, TypeOK, DeleteConversation, MailAfter, hubspot, faults
<1>2. RemindersFitStage'
  BY DEF Safe, TypeOK, RemindersFitStage, DeleteConversation
<1>3. NobodyLeft'
  <2> SUFFICES ASSUME \A u \in Tickets : ~Held(u)' /\ mail'[u] = "none" /\ ~signed'[u]
               PROVE  profile' = "none"
    BY DEF NobodyLeft
  <2>1. ~StillHasSomething(t)
    BY DEF Safe, TypeOK, StillHasSomething, DeleteConversation, MailAfter, Held
  <2> QED BY <2>1 DEF DeleteConversation
<1>4. CardStep
  BY DEF CardStep, DeleteConversation
<1>5. MailStep
  <2> SUFFICES ASSUME NEW u \in Tickets, mail[u] # "none", mail'[u] = "none"
               PROVE  \A v \in Tickets : ~Held(v)' /\ ~signed[v]
    BY DEF MailStep
  <2>1. ~StillHasSomething(t)
    BY DEF Safe, TypeOK, DeleteConversation, MailAfter
  <2> QED BY <2>1 DEF Safe, TypeOK, StillHasSomething, DeleteConversation, Held
<1> QED BY <1>1, <1>2, <1>3, <1>4, <1>5 DEF Safe, Kept

-----------------------------------------------------------------------------
LEMMA EveryStep == Safe /\ [Next]_vars => Kept
<1> SUFFICES ASSUME Safe, [Next]_vars PROVE Kept
  OBVIOUS
<1>1. CASE People
  <2>1. ASSUME NEW t \in Active, NEW s \in Stages \cup {Unmapped},
               PersonMoves(t, s) \/ PersonBrings(t, s)
        PROVE  Kept
    BY <2>1, ActiveAreTickets, HubSpotSteps
  <2>2. ASSUME NEW t \in Tickets, PersonTakesAway(t) \/ PersonDeletes(t) PROVE Kept
    BY <2>2, HubSpotSteps
  <2>3. ASSUME NEW t \in Tickets, NEW s \in Stages, OperatorMoves(t, s) PROVE Kept
    BY <2>3, OperatorSteps
  <2>4. ASSUME NEW t \in Active, NEW s \in Stages, JudgeReply(t, s) PROVE Kept
    BY <2>4, ActiveAreTickets, LearningSteps
  <2>5. ASSUME NEW t \in Active, ReadAgain(t) PROVE Kept
    BY <2>5, ActiveAreTickets, StagesTheCodeNames, LearningSteps
  <2>6. ASSUME NEW t \in Active, NEW typed \in BOOLEAN,
               BeginReminder(t) \/ SignContract(t, typed)
        PROVE  Kept
    BY <2>6, ActiveAreTickets, DeskSteps
  <2> QED BY <1>1, <2>1, <2>2, <2>3, <2>4, <2>5, <2>6, ActiveAreTickets, BackfillKeeps, MachineSteps
          DEF People, OperatorMovesCustomer
<1>2. CASE Drafting
  BY <1>2, LearningSteps, DeskSteps, StagesTheCodeNames DEF Drafting
<1>3. CASE Advance
  BY <1>3, AnswerSteps, LearningSteps, StagesTheCodeNames DEF Advance
<1>4. CASE Sweep
  BY <1>4, MachineSteps DEF Sweep
<1>5. CASE Gone
  BY <1>5, LearningSteps, DeletionKeeps, StagesTheCodeNames DEF Gone
<1>6. CASE Hear
  BY <1>6, ApplyKeeps, TakeInKeeps DEF Hear
<1>7. CASE Write
  BY <1>7, MachineSteps DEF Write
<1>9. CASE Reminding \/ Skip
  BY <1>9, DeskSteps, MachineSteps DEF Reminding, Skip
<1>8. CASE UNCHANGED vars
  <2>1. TypeOK' /\ UNCHANGED looked
    BY <1>8 DEF Safe, TypeOK, looked, vars, hubspot, thread, ledger, traffic, faults
  <2> QED BY <2>1, NothingLookedAt
<1> QED BY <1>1, <1>2, <1>3, <1>4, <1>5, <1>6, <1>7, <1>8, <1>9 DEF Next

THEOREM AlwaysSafe == Spec => []Safe
<1>1. Safe /\ [Next]_vars => Safe'
  BY EveryStep DEF Kept
<1> QED BY <1>1, Beginning, PTL DEF Spec

(* Every variable keeps its type, for any number of tickets and stages.    *)
THEOREM StageTyped == Spec => []TypeOK
<1>1. Safe => TypeOK
  BY DEF Safe
<1> QED BY <1>1, AlwaysSafe, PTL

(* Whoever moves a ticket, and in whatever order what HubSpot said is      *)
(* applied, a reminder nobody has mailed yet waits only at Contacted or    *)
(* New (_delete_pending_drafts), unless it was still being copied when the *)
(* ticket moved on (_create_reminder).                                     *)
THEOREM RemindersFit == Spec => []RemindersFitStage
<1>1. Safe => RemindersFitStage
  BY DEF Safe
<1> QED BY <1>1, AlwaysSafe, PTL

(* A contact whose last thread is gone, with no mail and no contract left, *)
(* has no profile (delete_conversation).                                   *)
THEOREM GoneIsGone == Spec => []NobodyLeft
<1>1. Safe => NobodyLeft
  BY DEF Safe
<1> QED BY <1>1, AlwaysSafe, PTL

(* A closed card never asks again (_enqueue_pending_won).                  *)
THEOREM CardsStayDone == Spec => DoneCardStays
<1>1. Safe /\ [Next]_vars => [\A t \in Tickets : card[t] = "done" => card'[t] = "done"]_vars
  BY EveryStep DEF Kept, CardStep
<1> QED BY <1>1, AlwaysSafe, PTL DEF DoneCardStays, Spec

(* Mails leave our tables only with the last trace of the customer         *)
(* (_still_has_something, _archive_messages).                              *)
THEOREM MailsAreKept == Spec => MailIsKept
<1>1. Safe /\ [Next]_vars =>
        [\A t \in Tickets : mail[t] # "none" /\ mail'[t] = "none" =>
           \A u \in Tickets : ~Held(u)' /\ ~signed[u]]_vars
  BY EveryStep DEF Kept, MailStep
<1> QED BY <1>1, AlwaysSafe, PTL DEF MailIsKept, Spec
=============================================================================
