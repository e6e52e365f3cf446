---------------------------- MODULE PostSendSync ----------------------------
(***************************************************************************)
(* What follows a delivery: the HubSpot ticket stage, the HubSpot note of  *)
(* a mail from a private inbox, the contact status, the sales workbook,    *)
(* and one line in the ticket's progress log. Each may fail; the send loop *)
(* tries again what failed, a fixed number of times.                       *)
(*                                                                         *)
(* Code: _post_send_bookkeeping, _record_delivery and                      *)
(* _retry_post_send_syncs in src/agents/send_worker.py; confirm_delivered  *)
(* and retry_message_sync in src/api/routes/recovery.py. All messages here *)
(* belong to one conversation.                                             *)
(*                                                                         *)
(* A run of the bookkeeping reads the row, calls one outside service after *)
(* another and writes the row once, at the end. A worker does one run at a *)
(* time; two workers are two processes, as during a rolling deploy.        *)
(* Backoff times are left out: a retry may come at any moment.             *)
(***************************************************************************)
EXTENDS Naturals

CONSTANTS
  Messages,
  Reminders,    \* follow-up reminders: they never move a stage
  Mailed,       \* sent from a private inbox, so HubSpot needs a note
  Workers,
  NoMessage,
  MaxAttempts,  \* POST_SEND_SYNC_MAX_RETRIES
  MaxAsks       \* bound: how often the operator presses "sync again"

ASSUME NoMessageIsNoRow == NoMessage \notin Messages
ASSUME SeveralAttempts == MaxAttempts \in Nat /\ MaxAttempts > 1
ASSUME AsksAreBounded == MaxAsks \in Nat

VARIABLES
  stage,     \* conversation.stage
  status,    \* [Messages -> Statuses]
  attempts,  \* post_send_sync_attempts
  error,     \* post_send_sync_error, as the set of what it names
  synced,    \* post_send_synced_at is set
  lines,     \* progress lines "reply sent" about this message, up to 2
  run,       \* each worker's bookkeeping run
  asks,      \* how often the operator has pressed "sync again"
  moves,     \* history: this send moved the stage, or a person asked for it
  done       \* history: steps a recorded run left without an error

row == <<status, attempts, error, synced>>
vars == <<stage, row, lines, run, asks, moves, done>>

-----------------------------------------------------------------------------
Contacted == "meeting_link_sent"
Stages == {"new", Contacted, "negotiating"}

(* send_worker._ADVANCES_FROM; "new" stands for None, "" and "initial" too *)
AdvancesFrom == {"new", Contacted}

Advanced == IF stage \in AdvancesFrom THEN Contacted ELSE stage

Statuses == {"approved", "delivery_unknown", "sent", "test_sent"}

(* The outside calls, in the order of the code.                            *)
Order == [ticket |-> 1, note |-> 2, contact |-> 3, sheet |-> 4]
StepNames == DOMAIN Order

(* A missing setting: `:not_configured`, `:missing_client_id`.             *)
MayBeHopeless == {"contact", "sheet"}

Marks == {"operator_retry", "confirmed"}

NoRun ==
  [of |-> NoMessage, attempts |-> 0, read |-> {}, todo |-> {},
   failed |-> {}, hopeless |-> {}]

Running(w) == run[w].of # NoMessage

Asked(m) == "operator_retry" \in error[m]

(* Mutant: a retry goes through every step again, as it did before         *)
(* 2026-09-29.                                                             *)
DueWheneverContacted(m, s, at, moved) ==
  IF s = "note" THEN m \in Mailed ELSE m \notin Reminders /\ at = Contacted

(* `due`, and the condition of the note. `moved` is TRUE for None, too.    *)
Due(m, s, at, moved) ==
  LET again == Asked(m) \/ s \in error[m]
      first == attempts[m] = 0 IN
  IF s = "note" THEN m \in Mailed /\ (first \/ again)
  ELSE /\ m \notin Reminders
       /\ at = Contacted
       /\ IF first THEN moved ELSE again

Begin(w, m, at, moved) ==
  /\ ~Running(w)
  /\ run' = [run EXCEPT ![w] =
       [of |-> m, attempts |-> attempts[m], read |-> error[m],
        todo |-> {s \in StepNames : Due(m, s, at, moved)},
        failed |-> {}, hopeless |-> {}]]

-----------------------------------------------------------------------------
(* _record_delivery, and the bookkeeping that _send_one starts at once. It *)
(* runs for a mail that was held back as well.                             *)
Deliver(w, m, delivered) ==
  /\ status[m] = "approved"
  /\ status' = [status EXCEPT ![m] = IF delivered THEN "sent" ELSE "test_sent"]
  /\ stage' = Advanced
  /\ moves' = [moves EXCEPT ![m] = Advanced # stage]
  /\ Begin(w, m, Advanced, Advanced # stage)
  /\ UNCHANGED <<attempts, error, synced, lines, asks, done>>

(* The outcome of the send is not known (SendWorker), or a person says the *)
(* mail was not sent.                                                      *)
Quarantine(m) ==
  /\ status[m] = "approved"
  /\ status' = [status EXCEPT ![m] = "delivery_unknown"]
  /\ UNCHANGED <<stage, attempts, error, synced, lines, run, asks, moves, done>>

ConfirmNotSent(m) ==
  /\ status[m] = "delivery_unknown"
  /\ status' = [status EXCEPT ![m] = "approved"]
  /\ UNCHANGED <<stage, attempts, error, synced, lines, run, asks, moves, done>>

(* confirm_delivered: by a person, or by the copy in the HubSpot thread.   *)
ConfirmSent(m) ==
  /\ status[m] = "delivery_unknown"
  /\ status' = [status EXCEPT ![m] = "sent"]
  /\ attempts' = [attempts EXCEPT ![m] = 0]
  /\ error' = [error EXCEPT ![m] = {"confirmed"}]
  /\ synced' = [synced EXCEPT ![m] = FALSE]
  /\ stage' = Advanced
  /\ moves' = [moves EXCEPT ![m] = Advanced # stage]
  /\ UNCHANGED <<lines, run, asks, done>>

(* Mutant: the attempts start from zero, as they did before 2026-09-29.    *)
AttemptsWhenAskedZero == 0

AttemptsWhenAsked == 1

(* retry_message_sync                                                      *)
RetrySync(m) ==
  /\ status[m] = "sent"
  /\ asks < MaxAsks
  /\ asks' = asks + 1
  /\ attempts' = [attempts EXCEPT ![m] = AttemptsWhenAsked]
  /\ error' = [error EXCEPT ![m] = {"operator_retry"}]
  /\ synced' = [synced EXCEPT ![m] = FALSE]
  /\ moves' = [moves EXCEPT ![m] = TRUE]
  /\ done' = [done EXCEPT ![m] = {}]
  /\ UNCHANGED <<stage, status, lines, run>>

(* The candidates of _retry_post_send_syncs.                               *)
Retryable(m) == status[m] = "sent" /\ ~synced[m] /\ attempts[m] < MaxAttempts

Retry(w, m) ==
  /\ Retryable(m)
  /\ Begin(w, m, stage, TRUE)
  /\ UNCHANGED <<stage, row, lines, asks, moves, done>>

(* A run after the call of step s.                                         *)
After(r, s, outcome) ==
  [r EXCEPT !.todo = @ \ {s},
            !.failed = IF outcome = "done" THEN @ ELSE @ \cup {s},
            !.hopeless = IF outcome = "hopeless" THEN @ \cup {s} ELSE @]

(* The next outside call.                                                  *)
Perform(w, s, outcome) ==
  /\ Running(w)
  /\ s \in run[w].todo
  /\ \A t \in run[w].todo : Order[s] <= Order[t]
  /\ outcome = "hopeless" => s \in MayBeHopeless
  /\ run' = [run EXCEPT ![w] = After(@, s, outcome)]
  /\ UNCHANGED <<stage, row, lines, asks, moves, done>>

(* Mutant: a hopeless run also clears its errors.                          *)
NamedUnlessHopeless(r) == r.failed \ r.hopeless

(* What the run writes into post_send_sync_error.                          *)
Named(r) == r.failed

(* Mutant: a retry does not count as an attempt.                           *)
AttemptsOfFirst(r) == IF r.attempts = 0 THEN 1 ELSE r.attempts

(* Only hopeless failures: no further retry.                               *)
AttemptsAfter(r) ==
  IF r.failed # {} /\ r.failed = r.hopeless THEN MaxAttempts ELSE r.attempts + 1

(* The one commit of the run. A column whose value did not change since it *)
(* was read is not written (SQLAlchemy's unit of work).                    *)
Record(w) ==
  /\ Running(w)
  /\ run[w].todo = {}
  /\ LET r == run[w]
         m == r.of IN
     /\ attempts' = [attempts EXCEPT ![m] = AttemptsAfter(r)]
     /\ error' = [error EXCEPT ![m] = IF Named(r) = r.read THEN @ ELSE Named(r)]
     /\ synced' = [synced EXCEPT ![m] = IF r.failed = {} THEN TRUE ELSE @]
     /\ lines' = [lines EXCEPT ![m] =
          IF r.attempts # 0 THEN @ ELSE IF @ = 0 THEN 1 ELSE 2]
     /\ done' = [done EXCEPT ![m] =
          IF "operator_retry" \in error'[m] THEN {} ELSE StepNames \ r.failed]
  /\ run' = [run EXCEPT ![w] = NoRun]
  /\ UNCHANGED <<stage, status, asks, moves>>

(* The process dies, a call or the commit raises: nothing is written.      *)
Abandon(w) ==
  /\ Running(w)
  /\ run' = [run EXCEPT ![w] = NoRun]
  /\ UNCHANGED <<stage, row, lines, asks, moves, done>>

(* The console, a HubSpot webhook, the sweep, the thread collector.        *)
MoveStage(to) ==
  /\ stage' = to
  /\ UNCHANGED <<row, lines, run, asks, moves, done>>

-----------------------------------------------------------------------------
Init ==
  /\ stage \in Stages
  /\ status = [m \in Messages |-> "approved"]
  /\ attempts = [m \in Messages |-> 0]
  /\ error = [m \in Messages |-> {}]
  /\ synced = [m \in Messages |-> FALSE]
  /\ lines = [m \in Messages |-> 0]
  /\ run = [w \in Workers |-> NoRun]
  /\ asks = 0
  /\ moves = [m \in Messages |-> FALSE]
  /\ done = [m \in Messages |-> {}]

Call(w, s) == \E outcome \in {"done", "failed", "hopeless"} : Perform(w, s, outcome)

Next ==
  \/ \E w \in Workers :
       \/ \E m \in Messages :
            \/ \E delivered \in BOOLEAN : Deliver(w, m, delivered)
            \/ Retry(w, m)
       \/ \E s \in StepNames : Call(w, s)
       \/ Record(w)
       \/ Abandon(w)
  \/ \E m \in Messages :
       Quarantine(m) \/ ConfirmNotSent(m) \/ ConfirmSent(m) \/ RetrySync(m)
  \/ \E to \in Stages : MoveStage(to)

Spec == Init /\ [][Next]_vars

(* Every call has a timeout, and the sweep runs at every turn of the loop  *)
(* and takes the oldest attempts first. Runs may be cut short again and    *)
(* again, but they do not die at the same call for ever.                   *)
Fairness ==
  \A m \in Messages :
    /\ SF_vars(\E w \in Workers : Retry(w, m))
    /\ \A s \in StepNames : SF_vars(\E w \in Workers : run[w].of = m /\ Call(w, s))
    /\ SF_vars(\E w \in Workers : run[w].of = m /\ Record(w))

FairSpec == Spec /\ Fairness

-----------------------------------------------------------------------------
(* Properties                                                              *)

Runs ==
  [of : Messages \cup {NoMessage}, attempts : 0..MaxAttempts,
   read : SUBSET (StepNames \cup Marks), todo : SUBSET StepNames,
   failed : SUBSET StepNames, hopeless : SUBSET StepNames]

(* Every variable keeps its type; a run never starts on the last attempt,  *)
(* so the count of attempts stops at MaxAttempts.                          *)
TypeOK ==
  /\ stage \in Stages
  /\ status \in [Messages -> Statuses]
  /\ attempts \in [Messages -> 0..MaxAttempts]
  /\ error \in [Messages -> SUBSET (StepNames \cup Marks)]
  /\ synced \in [Messages -> BOOLEAN]
  /\ lines \in [Messages -> 0..2]
  /\ run \in [Workers -> Runs]
  /\ \A w \in Workers : run[w].attempts < MaxAttempts
  /\ asks \in 0..MaxAsks
  /\ moves \in [Messages -> BOOLEAN]
  /\ done \in [Messages -> SUBSET StepNames]

(* A delivery leaves at most one progress line, although a run may be cut  *)
(* short and begin again, and the operator may ask for it all once more    *)
(* ("never written twice either", send_worker.py:249).                     *)
LineAtMostOnce == \A m \in Messages : lines[m] <= 1

(* A later run repeats only what the last recorded run left with an error, *)
(* unless the operator asks for everything: a ticket that sales moved on   *)
(* in HubSpot is not put back once its stage was written                   *)
(* (_post_send_bookkeeping: a retry "redoes only the failed steps").       *)
NothingIsRepeated ==
  \A w \in Workers : Running(w) => run[w].todo \cap done[run[w].of] = {}

(* A delivery whose bookkeeping was recorded and is not complete names     *)
(* what is missing: the recovery page lists rows with an error, and only   *)
(* those (recovery.py:64-72). So giving up is never silent.                *)
UnfinishedIsListed ==
  \A m \in Messages :
    status[m] = "sent" /\ attempts[m] > 0 /\ ~synced[m] => error[m] # {}

(* The bookkeeping of a delivered mail ends: it is complete, or the        *)
(* attempts are used up.                                                   *)
SyncSettles ==
  \A m \in Messages :
    status[m] = "sent" ~> synced[m] \/ attempts[m] = MaxAttempts

-----------------------------------------------------------------------------
(* One process: why there is one line and nothing is repeated              *)

(* Rows that were not delivered have no bookkeeping yet.                   *)
UndeliveredRows ==
  \A m \in Messages :
    status[m] \in {"approved", "delivery_unknown"} =>
      /\ attempts[m] = 0
      /\ lines[m] = 0
      /\ error[m] = {}
      /\ done[m] = {}
      /\ ~synced[m]

(* A run is about a delivered row, and what it read is still there unless  *)
(* the operator has asked since.                                           *)
RunsAreCurrent ==
  \A w \in Workers : Running(w) =>
    LET r == run[w]
        m == r.of IN
    /\ status[m] \in {"sent", "test_sent"}
    /\ ~synced[m]
    /\ r.attempts = 0 => lines[m] = 0
    /\ r.attempts # 0 => attempts[m] # 0
    /\ Asked(m) \/ (attempts[m] = r.attempts /\ error[m] = r.read)

(* The line and the attempt are written together.                          *)
FirstIsFirst == \A m \in Messages : attempts[m] = 0 => lines[m] = 0 /\ done[m] = {}

(* What is named as failed is not done.                                    *)
FailedIsNotDone ==
  \A m \in Messages : IF Asked(m) THEN done[m] = {} ELSE error[m] \cap done[m] = {}

IInv ==
  /\ TypeOK
  /\ LineAtMostOnce
  /\ UndeliveredRows
  /\ RunsAreCurrent
  /\ FirstIsFirst
  /\ FailedIsNotDone
  /\ NothingIsRepeated
  /\ UnfinishedIsListed

-----------------------------------------------------------------------------
(* What the code's own comments promise and these interleavings break      *)

(* The stage is mirrored only for a send that moved it; a retry does not   *)
(* know and repeats only what failed (send_worker.py:136-137).             *)
MirrorsItsOwnMove ==
  \A w \in Workers :
    Running(w) /\ "ticket" \in run[w].todo => moves[run[w].of]

(* When the operator asks again, the progress line "is already there since *)
(* the first delivery" (recovery.py:257-258): no row ends without it.      *)
SyncedIsLogged ==
  \A m \in Messages : status[m] = "sent" /\ synced[m] => lines[m] # 0
=============================================================================
