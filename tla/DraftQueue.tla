----------------------------- MODULE DraftQueue -----------------------------
(***************************************************************************)
(* The durable queue that turns a HubSpot ticket into a draft: its jobs,   *)
(* their leases, the draft rows of one ticket, the workers that write      *)
(* them and the operator who asks for drafts.                              *)
(*                                                                         *)
(* Code: src/agents/inbound_worker.py; handle, _existing_pending_draft_id, *)
(* _persist_placeholder, _finalize_draft and _mark_draft_failed in         *)
(* src/agents/inbound.py; start_manual_reply in src/api/routes/messages.py;*)
(* clear_send_failures and retry_inbound_job in src/api/routes/recovery.py;*)
(* _delete_pending_drafts in src/agents/stage_sync.py.                     *)
(*                                                                         *)
(* One process works on one job at a time; two workers are two processes,  *)
(* as during a rolling deploy. Each transaction is one step, except:       *)
(* _persist_placeholder looks for an earlier reply and inserts its row in  *)
(* two statements with nothing in the schema to stop a second row; and     *)
(* four handlers read the status of a row and write by its id later,       *)
(* whatever the status has become (one such handler at a time). Backoff    *)
(* times are left out: a pending job may be due at any moment.             *)
(***************************************************************************)
EXTENDS Naturals

CONSTANTS
  TicketJobs,   \* webhook and poll, one event key each
  AskedJobs,    \* one for each press of "write again" / "send mail"
  Workers,
  NoJob,
  NoWorker,
  MaxRows,      \* bound: reply rows the ticket may ever have
  MaxAttempts,  \* MAX_ATTEMPTS
  Handlers,     \* bound: those that read and write apart, of all Decisions
  FirmLeases    \* jobs whose lease never runs out under a living worker

Jobs == TicketJobs \cup AskedJobs
Rows == 1..MaxRows
NoRow == 0

ASSUME KindsOfJob == TicketJobs \cap AskedJobs = {} /\ NoJob \notin Jobs
ASSUME NoWorkerIsNobody == NoWorker \notin Workers
ASSUME RowsAreNumbered == MaxRows \in Nat
ASSUME AttemptsPositive == MaxAttempts \in Nat \ {0}
ASSUME FirmLeasesAreOfJobs == FirmLeases \subseteq Jobs

VARIABLES
  job,       \* [Jobs -> JobStatuses]
  attempts,
  owner,     \* locked_by
  lapsed,    \* locked_at is older than LEASE_SECONDS
  link,      \* payload.draft_message_id
  reply,     \* [Rows -> ReplyStatuses]; a row's number is its age
  manual,    \* rows opened by start_manual_reply
  asked,     \* a row an operator set to `drafting`, not queued yet
  decided,   \* what a handler will write to the row it has read
  pc,        \* where each worker is in process_one_inbound_job
  holds,     \* its job
  resume,    \* the draft id it found in the payload
  row        \* the row it writes

queue == <<job, attempts, owner, lapsed, link>>
thread == <<reply, manual, asked, decided>>
work == <<pc, holds, resume, row>>
vars == <<queue, thread, work>>

-----------------------------------------------------------------------------
JobStatuses == {"absent", "pending", "processing", "done", "dead"}

ReplyStatuses ==
  {"none", "drafting", "draft_failed", "pending_approval", "approved",
   "sent", "send_failed", "rejected", "superseded", "gone"}

(* messages._OPEN_DRAFT_STATUSES                                           *)
OpenDraft == {"drafting", "pending_approval", "approved", "send_failed"}

(* stage_sync._SUPERSEDABLE                                                *)
Supersedable == {"pending_approval", "approved", "draft_failed", "send_failed"}

(* _existing_pending_draft_id on a ticket lets these two pass.             *)
Unusable == {"draft_failed", "rejected"}

Decisions == {"nothing", "redraft", "clear", "close", "drop"}

Steps == {"idle", "reading", "looking", "inserting", "writing", "failed", "finished"}

Stored == {r \in Rows : reply[r] \notin {"none", "gone"}}
Newest(set) == {r \in set : \A s \in set : s <= r}

(* The next row id; ids are never reused.                                  *)
Unborn == {r \in Rows : reply[r] = "none" /\ \A s \in Rows : reply[s] = "none" => r <= s}

Busy(w) == pc[w] # "idle"
Owns(w) == Busy(w) /\ job[holds[w]] = "processing" /\ owner[holds[w]] = w

Go(w, from, to) == pc[w] = from /\ pc' = [pc EXCEPT ![w] = to]

Rest(w) ==
  /\ pc' = [pc EXCEPT ![w] = "idle"]
  /\ holds' = [holds EXCEPT ![w] = NoJob]
  /\ resume' = [resume EXCEPT ![w] = NoRow]
  /\ row' = [row EXCEPT ![w] = NoRow]

-----------------------------------------------------------------------------
(* The queue                                                               *)

(* enqueue_inbound_ticket: a new key, or a dead job that is armed again    *)
(* with the new payload.                                                   *)
Discover(j) ==
  /\ j \in TicketJobs
  /\ job[j] \in {"absent", "dead"}
  /\ job' = [job EXCEPT ![j] = "pending"]
  /\ attempts' = [attempts EXCEPT ![j] = 0]
  /\ owner' = [owner EXCEPT ![j] = NoWorker]
  /\ lapsed' = [lapsed EXCEPT ![j] = FALSE]
  /\ link' = [link EXCEPT ![j] = NoRow]
  /\ UNCHANGED <<thread, work>>

(* retry_inbound_job: the payload stays.                                   *)
Rearm(j) ==
  /\ job[j] = "dead"
  /\ job' = [job EXCEPT ![j] = "pending"]
  /\ attempts' = [attempts EXCEPT ![j] = 0]
  /\ owner' = [owner EXCEPT ![j] = NoWorker]
  /\ lapsed' = [lapsed EXCEPT ![j] = FALSE]
  /\ UNCHANGED <<link, thread, work>>

(* enqueue_draft. Every press is a job of its own.                         *)
QueueAsked(j, r) ==
  /\ j \in AskedJobs
  /\ job[j] = "absent"
  /\ asked[r] # "no"
  /\ asked' = [asked EXCEPT ![r] = "no"]
  /\ job' = [job EXCEPT ![j] = "pending"]
  /\ link' = [link EXCEPT ![j] = r]
  /\ UNCHANGED <<attempts, owner, lapsed, reply, manual, decided, work>>

(* It raises: only start_manual_reply has an answer to that.               *)
FailToQueue(r) ==
  /\ asked[r] # "no"
  /\ asked' = [asked EXCEPT ![r] = "no"]
  /\ reply' = [reply EXCEPT ![r] =
       IF asked[r] = "reply" /\ @ = "drafting" THEN "pending_approval" ELSE @]
  /\ UNCHANGED <<manual, decided, queue, work>>

(* LEASE_SECONDS pass without a heartbeat.                                 *)
Lapse(j) ==
  /\ job[j] = "processing"
  /\ ~lapsed[j]
  /\ j \in FirmLeases => \A w \in Workers : holds[w] # j
  /\ lapsed' = [lapsed EXCEPT ![j] = TRUE]
  /\ UNCHANGED <<job, attempts, owner, link, thread, work>>

(* _renew_job_lease: late, but still the owner, is good enough.            *)
Renew(w) ==
  /\ Owns(w)
  /\ lapsed[holds[w]]
  /\ lapsed' = [lapsed EXCEPT ![holds[w]] = FALSE]
  /\ UNCHANGED <<job, attempts, owner, link, thread, work>>

(* Mutant: the lease is not part of the claim.                             *)
DueOrRunning(j) == job[j] \in {"pending", "processing"}

Due(j) == job[j] = "pending" \/ (job[j] = "processing" /\ lapsed[j])

TriesLeft(j) == attempts[j] < MaxAttempts

(* Mutant: a worker that dies on the last attempt leaves its lease behind. *)
AbandonedNever(j) == FALSE

Abandoned(j) == job[j] = "processing" /\ lapsed[j] /\ ~TriesLeft(j)

(* _claim_next_job: first the jobs whose worker died on the last attempt.  *)
Bury(j) ==
  /\ Abandoned(j)
  /\ job' = [job EXCEPT ![j] = "dead"]
  /\ owner' = [owner EXCEPT ![j] = NoWorker]
  /\ lapsed' = [lapsed EXCEPT ![j] = FALSE]
  /\ UNCHANGED <<attempts, link, thread, work>>

Claim(w, j) ==
  /\ ~Busy(w)
  /\ Due(j)
  /\ TriesLeft(j)
  /\ job' = [job EXCEPT ![j] = "processing"]
  /\ attempts' = [attempts EXCEPT ![j] = @ + 1]
  /\ owner' = [owner EXCEPT ![j] = w]
  /\ lapsed' = [lapsed EXCEPT ![j] = FALSE]
  /\ pc' = [pc EXCEPT ![w] = "reading"]
  /\ holds' = [holds EXCEPT ![w] = j]
  /\ resume' = [resume EXCEPT ![w] = link[j]]
  /\ UNCHANGED <<link, row, thread>>

-----------------------------------------------------------------------------
(* InboundAgent.handle                                                     *)

(* The reply that makes this event not draft: the newest usable one,       *)
(* unless it is the very draft this job was writing.                       *)
Blocks(w) ==
  {r \in Newest({s \in Stored : reply[s] \notin Unusable}) :
     ~(r = resume[w] /\ reply[r] = "drafting")}

(* HubSpot or the database raises before there is a row to mark: no        *)
(* contact yet, no body yet, an outage.                                    *)
Trouble(w) ==
  /\ pc[w] \in {"reading", "looking", "inserting", "writing"}
  /\ pc' = [pc EXCEPT ![w] = "failed"]
  /\ UNCHANGED <<queue, thread, holds, resume, row>>

(* The ticket has left New, which does not stop a resumed draft.           *)
SkipStage(w) ==
  /\ Go(w, "reading", "finished")
  /\ resume[w] = NoRow
  /\ UNCHANGED <<queue, thread, holds, resume, row>>

Check(w) ==
  /\ Go(w, "reading", IF Blocks(w) = {} THEN "looking" ELSE "finished")
  /\ UNCHANGED <<queue, thread, holds, resume, row>>

Link(w, r) ==
  link' = [link EXCEPT ![holds[w]] = IF job[holds[w]] = "processing" THEN r ELSE @]

Resumable(w) ==
  /\ resume[w] # NoRow
  /\ reply[resume[w]] \in {"drafting", "draft_failed"}

(* _persist_placeholder: take up the job's own draft ...                   *)
Resume(w) ==
  /\ Go(w, "looking", "writing")
  /\ Resumable(w)
  /\ reply' = [reply EXCEPT ![resume[w]] = "drafting"]
  /\ row' = [row EXCEPT ![w] = resume[w]]
  /\ Link(w, resume[w])
  /\ UNCHANGED <<job, attempts, owner, lapsed, manual, asked, decided, holds, resume>>

(* Mutant: a reply that failed or was rejected does not count.             *)
FreshIfUnusable == {r \in Stored : reply[r] \notin Unusable} = {}

(* The thread has no reply of its own.                                     *)
Fresh == Stored = {}

(* ... or look for any earlier reply ...                                   *)
LookForReply(w) ==
  /\ Go(w, "looking", IF Fresh THEN "inserting" ELSE "finished")
  /\ ~Resumable(w)
  /\ UNCHANGED <<queue, thread, holds, resume, row>>

(* ... and create the first one.                                           *)
Insert(w) ==
  /\ Go(w, "inserting", "writing")
  /\ \E r \in Unborn :
       /\ reply' = [reply EXCEPT ![r] = "drafting"]
       /\ row' = [row EXCEPT ![w] = r]
       /\ Link(w, r)
  /\ UNCHANGED <<job, attempts, owner, lapsed, manual, asked, decided, holds, resume>>

(* _finalize_draft writes over whatever the row says, and removes it with  *)
(* the ticket's other waiting drafts when the ticket has left New. A row   *)
(* that was deleted meanwhile ends it at once.                             *)
Finalize(w, movedOn) ==
  /\ Go(w, "writing", "finished")
  /\ LET written == [reply EXCEPT ![row[w]] = "pending_approval"] IN
     IF reply[row[w]] = "gone" THEN UNCHANGED reply
     ELSE reply' = [r \in Rows |->
            IF movedOn /\ ~manual[r] /\ written[r] \in Supersedable
            THEN "gone" ELSE written[r]]
  /\ UNCHANGED <<queue, manual, asked, decided, holds, resume, row>>

(* The model fails, the evidence is not accepted, the thread has changed.  *)
MarkFailed(w) ==
  /\ Go(w, "writing", "failed")
  /\ reply' = [reply EXCEPT ![row[w]] = IF @ = "drafting" THEN "draft_failed" ELSE @]
  /\ UNCHANGED <<queue, manual, asked, decided, holds, resume, row>>

(* Mutant: giving a job back does not ask whose it is.                     *)
OwnsOrNot(w) == Busy(w)

(* The condition of the last UPDATE: status and owner.                     *)
StillOwns(w) == Owns(w)

(* _retry_job. `terminal`: DraftEvidenceError, which is not tried again.   *)
GiveBack(w, terminal) ==
  /\ pc[w] = "failed"
  /\ terminal => row[w] # NoRow
  /\ LET j == holds[w] IN
     IF StillOwns(w)
     THEN /\ job' = [job EXCEPT ![j] =
               IF terminal \/ attempts[j] >= MaxAttempts THEN "dead" ELSE "pending"]
          /\ owner' = [owner EXCEPT ![j] = NoWorker]
          /\ lapsed' = [lapsed EXCEPT ![j] = FALSE]
     ELSE UNCHANGED <<job, owner, lapsed>>
  /\ Rest(w)
  /\ UNCHANGED <<attempts, link, thread>>

(* _finish_job                                                             *)
Finish(w) ==
  /\ pc[w] = "finished"
  /\ LET j == holds[w] IN
     IF StillOwns(w)
     THEN /\ job' = [job EXCEPT ![j] = "done"]
          /\ owner' = [owner EXCEPT ![j] = NoWorker]
          /\ lapsed' = [lapsed EXCEPT ![j] = FALSE]
     ELSE UNCHANGED <<job, owner, lapsed>>
  /\ Rest(w)
  /\ UNCHANGED <<attempts, link, thread>>

Crash(w) ==
  /\ Busy(w)
  /\ Rest(w)
  /\ UNCHANGED <<queue, thread>>

-----------------------------------------------------------------------------
(* The operator                                                            *)

(* A handler reads a row, and goes on with what it has seen.               *)
Read(r, what) ==
  /\ what \in Handlers
  /\ \A s \in Rows : decided[s] = "nothing"
  /\ decided' = [decided EXCEPT ![r] = what]
  /\ UNCHANGED <<reply, manual, asked, queue, work>>

(* The row is written by its id, if it is still there.                     *)
Late(r, what, to) ==
  /\ decided[r] = what
  /\ decided' = [decided EXCEPT ![r] = "nothing"]
  /\ reply' = [reply EXCEPT ![r] = IF @ = "gone" THEN @ ELSE to]

(* The request fails, or its process ends.                                 *)
Abandon(r) ==
  /\ decided[r] # "nothing"
  /\ decided' = [decided EXCEPT ![r] = "nothing"]
  /\ UNCHANGED <<reply, manual, asked, queue, work>>

(* start_manual_reply finds the open draft; our last mail is younger.      *)
FindOldDraft(r) ==
  /\ r \in Newest({s \in Stored : reply[s] \in OpenDraft})
  /\ Read(r, "close")

(* Then it closes that draft and opens a new one, or opens one at once     *)
(* when it found none. `written`: the operator's own text, no model.       *)
ManualReply(written) ==
  /\ \E r \in Unborn :
       LET first == IF written THEN "pending_approval" ELSE "drafting" IN
       /\ \/ /\ \A s \in Stored : reply[s] \notin OpenDraft
             /\ reply' = [reply EXCEPT ![r] = first]
             /\ UNCHANGED decided
          \/ \E old \in Stored :
               /\ decided[old] = "close"
               /\ decided' = [decided EXCEPT ![old] = "nothing"]
               /\ reply' = [reply EXCEPT ![r] = first, ![old] = "superseded"]
       /\ manual' = [manual EXCEPT ![r] = TRUE]
       /\ asked' = [asked EXCEPT ![r] = IF written THEN @ ELSE "reply"]
  /\ UNCHANGED <<queue, work>>

Redraftable == {"send_failed", "draft_failed"}

(* request_redraft, in a thread of its own ...                             *)
AskRedraft(r) ==
  /\ reply[r] \in Redraftable
  /\ Read(r, "redraft")

(* ... commits the row, by its id, before it queues the job.               *)
Redraft(r) ==
  /\ Late(r, "redraft", "drafting")
  /\ asked' = [asked EXCEPT ![r] = IF reply[r] = "gone" THEN @ ELSE "redraft"]
  /\ UNCHANGED <<manual, queue, work>>

(* clear_send_failures                                                     *)
FindFailed(r) ==
  /\ reply[r] \in Redraftable
  /\ Read(r, "clear")

Clear(r) ==
  /\ Late(r, "clear", "rejected")
  /\ UNCHANGED <<manual, asked, queue, work>>

(* _delete_pending_drafts, when the ticket moves.                          *)
FindSuperseded(r) ==
  /\ reply[r] \in Supersedable
  /\ ~manual[r]
  /\ Read(r, "drop")

Drop(r) ==
  /\ Late(r, "drop", "gone")
  /\ UNCHANGED <<manual, asked, queue, work>>

(* Mutant: a draft is approved while it is being written.                  *)
ApprovableAnyOpen == {"drafting", "pending_approval", "send_failed"}

(* approval.approve and reject name the statuses in their UPDATE.          *)
Approvable == {"pending_approval", "send_failed"}

(* Approving, rejecting and sending (SendWorker).                          *)
Handle(r, to) ==
  /\ \/ reply[r] \in Approvable /\ to \in {"approved", "rejected"}
     \/ reply[r] = "draft_failed" /\ to = "rejected"
     \/ reply[r] = "approved" /\ to \in {"sent", "send_failed"}
  /\ reply' = [reply EXCEPT ![r] = to]
  /\ UNCHANGED <<manual, asked, decided, queue, work>>

-----------------------------------------------------------------------------
Init ==
  /\ job = [j \in Jobs |-> "absent"]
  /\ attempts = [j \in Jobs |-> 0]
  /\ owner = [j \in Jobs |-> NoWorker]
  /\ lapsed = [j \in Jobs |-> FALSE]
  /\ link = [j \in Jobs |-> NoRow]
  /\ reply = [r \in Rows |-> "none"]
  /\ manual = [r \in Rows |-> FALSE]
  /\ asked = [r \in Rows |-> "no"]
  /\ decided = [r \in Rows |-> "nothing"]
  /\ pc = [w \in Workers |-> "idle"]
  /\ holds = [w \in Workers |-> NoJob]
  /\ resume = [w \in Workers |-> NoRow]
  /\ row = [w \in Workers |-> NoRow]

Work(w) ==
  \/ Trouble(w)
  \/ SkipStage(w)
  \/ Check(w)
  \/ Resume(w)
  \/ LookForReply(w)
  \/ Insert(w)
  \/ \E movedOn \in BOOLEAN : Finalize(w, movedOn)
  \/ MarkFailed(w)
  \/ \E terminal \in BOOLEAN : GiveBack(w, terminal)
  \/ Finish(w)

Desk(r) ==
  \/ Abandon(r)
  \/ FindOldDraft(r)
  \/ AskRedraft(r) \/ Redraft(r)
  \/ FindFailed(r) \/ Clear(r)
  \/ FindSuperseded(r) \/ Drop(r)

Next ==
  \/ \E j \in Jobs : Discover(j) \/ Rearm(j) \/ Lapse(j) \/ Bury(j)
  \/ \E j \in Jobs, r \in Rows : QueueAsked(j, r)
  \/ \E r \in Rows : FailToQueue(r) \/ Desk(r)
  \/ \E w \in Workers : Work(w) \/ Renew(w) \/ Crash(w)
  \/ \E w \in Workers, j \in Jobs : Claim(w, j)
  \/ \E written \in BOOLEAN : ManualReply(written)
  \/ \E r \in Rows, to \in ReplyStatuses : Handle(r, to)

Spec == Init /\ [][Next]_vars

(* The worker loop claims until nothing is due and asks for the oldest job *)
(* first; every call it makes has a timeout; leases run out with the clock.*)
(* A press of a button that was taken is queued, or fails.                 *)
Fairness ==
  /\ \A w \in Workers : WF_vars(Work(w))
  /\ \A j \in Jobs :
       /\ SF_vars(\E w \in Workers : Claim(w, j))
       /\ WF_vars(Bury(j))
       /\ WF_vars(Lapse(j))
  /\ \A r \in Rows : WF_vars(FailToQueue(r) \/ \E j \in Jobs : QueueAsked(j, r))

FairSpec == Spec /\ Fairness

-----------------------------------------------------------------------------
(* Properties                                                              *)

(* Every variable keeps its type; a worker that is idle holds nothing.     *)
TypeOK ==
  /\ job \in [Jobs -> JobStatuses]
  /\ attempts \in [Jobs -> 0..MaxAttempts]
  /\ owner \in [Jobs -> Workers \cup {NoWorker}]
  /\ lapsed \in [Jobs -> BOOLEAN]
  /\ link \in [Jobs -> Rows \cup {NoRow}]
  /\ reply \in [Rows -> ReplyStatuses]
  /\ manual \in [Rows -> BOOLEAN]
  /\ asked \in [Rows -> {"no", "reply", "redraft"}]
  /\ decided \in [Rows -> Decisions]
  /\ pc \in [Workers -> Steps]
  /\ holds \in [Workers -> Jobs \cup {NoJob}]
  /\ resume \in [Workers -> Rows \cup {NoRow}]
  /\ row \in [Workers -> Rows \cup {NoRow}]
  /\ \A w \in Workers : Busy(w) <=> holds[w] # NoJob
  /\ \A w \in Workers : pc[w] = "writing" => row[w] # NoRow

(* While its leases hold, a job is in the hands of one worker, over        *)
(* crashes, claims of abandoned jobs and renewals (_claim_next_job).       *)
OneWorkerPerJob ==
  \A v, w \in Workers :
    Busy(v) /\ Busy(w) /\ holds[v] = holds[w] /\ holds[v] \in FirmLeases => v = w

(* A finished job stays finished: a worker that lost its lease and comes   *)
(* back late cannot return it to the queue (locked_by in _retry_job), and  *)
(* only a dead job is armed again.                                         *)
DoneIsDone ==
  [][\A j \in Jobs : job[j] = "done" => job'[j] = "done"]_vars

(* A reply that a person has approved or that the customer has received is *)
(* not put back on the review desk by a job that comes late, retries or    *)
(* was asked for twice ("Ticket retries must never create a second usable  *)
(* reply", inbound.py:665). What can take it back is a request of a person *)
(* that read the row before: to write it again, or to clear it away.       *)
SettledStays ==
  [][\A r \in Rows : reply[r] \in {"approved", "sent"} =>
       \/ reply'[r] \in {"approved", "sent", "send_failed", "superseded", "gone"}
       \/ decided[r] = "redraft" /\ reply'[r] = "drafting"
       \/ decided[r] = "clear" /\ reply'[r] = "rejected"]_vars

(* However often the ticket is announced, and whatever is retried, it has  *)
(* at most one automatic draft (_persist_placeholder).                     *)
OneAutomaticDraft ==
  \A r, s \in Stored : ~manual[r] /\ ~manual[s] => r = s

(* A job that was taken up ends: done, or dead and on the recovery page,   *)
(* although workers may die at any point of it and on its last attempt;    *)
(* and so again after each announcement that takes it up anew.             *)
JobsSettle ==
  \A j \in Jobs : []<>(job[j] \notin {"pending", "processing"})

-----------------------------------------------------------------------------
(* Why: the inductive invariants (DraftQueueProofs)                        *)

(* A worker on a job with a firm lease owns it.                            *)
FirmHolders ==
  \A w \in Workers :
    Busy(w) /\ holds[w] \in FirmLeases => Owns(w) /\ ~lapsed[holds[w]]

(* A row that a job knows exists, and nobody still has to queue the        *)
(* operator's reply of that row. Only rows that exist are asked for.       *)
Known(r) == r # NoRow => reply[r] # "none" /\ asked[r] # "reply"

KnownRows ==
  /\ \A r \in Rows : asked[r] # "no" => reply[r] # "none"
  /\ \A r \in Rows : decided[r] # "nothing" => reply[r] # "none"
  /\ \A j \in Jobs : Known(link[j])
  /\ \A w \in Workers : Known(resume[w]) /\ Known(row[w])

(* One process only: nobody has approved the row that is being written,    *)
(* and a row is inserted into a ticket without an automatic one.           *)
WrittenRows ==
  \A w \in Workers : pc[w] = "writing" =>
    reply[row[w]] \in {"drafting", "superseded", "rejected", "gone"}

InsertsFirst ==
  \A w \in Workers : pc[w] = "inserting" => \A r \in Stored : manual[r]

IInv ==
  /\ TypeOK
  /\ FirmHolders
  /\ KnownRows
  /\ WrittenRows
  /\ InsertsFirst
  /\ OneAutomaticDraft
=============================================================================
