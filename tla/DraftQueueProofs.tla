-------------------------- MODULE DraftQueueProofs --------------------------
(***************************************************************************)
(* What DraftQueue guarantees for any number of jobs, rows and attempts:   *)
(* types, one worker per job and the finality of a finished job for any    *)
(* number of processes; for one process, one automatic draft per ticket    *)
(* and who can reopen a settled reply.                                     *)
(***************************************************************************)
EXTENDS DraftQueue, TLAPS

OneProcess == \A v, w \in Workers : v = w

-----------------------------------------------------------------------------
(* Helpers                                                                 *)

LEMMA GoTyped ==
  ASSUME TypeOK, NEW w \in Workers, NEW from, NEW to \in Steps,
         from # "idle", to # "idle", Go(w, from, to), UNCHANGED holds
  PROVE  /\ pc' \in [Workers -> Steps]
         /\ pc'[w] = to
         /\ \A v \in Workers \ {w} : pc'[v] = pc[v]
         /\ \A v \in Workers : Busy(v)' <=> Busy(v)
         /\ \A v \in Workers : Busy(v)' <=> holds'[v] # NoJob
BY DEF TypeOK, Go, Busy

LEMMA RestTyped ==
  ASSUME TypeOK, NEW w \in Workers, Rest(w)
  PROVE  /\ pc' \in [Workers -> Steps]
         /\ holds' \in [Workers -> Jobs \cup {NoJob}]
         /\ resume' \in [Workers -> Rows \cup {NoRow}]
         /\ row' \in [Workers -> Rows \cup {NoRow}]
         /\ ~Busy(w)' /\ holds'[w] = NoJob /\ resume'[w] = NoRow /\ row'[w] = NoRow
         /\ \A v \in Workers \ {w} :
              /\ pc'[v] = pc[v] /\ holds'[v] = holds[v]
              /\ resume'[v] = resume[v] /\ row'[v] = row[v]
         /\ \A v \in Workers : Busy(v)' <=> holds'[v] # NoJob
         /\ \A v \in Workers : pc'[v] = "writing" => row'[v] # NoRow
BY DEF TypeOK, Rest, Steps, Busy

(* A worker that is busy has a job.                                        *)
LEMMA BusyHolds ==
  ASSUME TypeOK, NEW w \in Workers, Busy(w)
  PROVE  holds[w] \in Jobs
BY DEF TypeOK, Busy

LEMMA RowsAreNotNoRow == \A r \in Rows : r # NoRow
BY RowsAreNumbered DEF Rows, NoRow

-----------------------------------------------------------------------------
(* Types                                                                   *)

LEMMA TypesStart == Init => TypeOK
BY KindsOfJob, AttemptsPositive
DEF Init, TypeOK, JobStatuses, ReplyStatuses, Decisions, Steps, Busy

LEMMA WorkKeepsTypes ==
  ASSUME TypeOK, NEW w \in Workers, Work(w)
  PROVE  TypeOK'
<1>1. CASE Trouble(w)
  BY <1>1 DEF Trouble, TypeOK, Steps, Busy, queue, thread
<1>2. CASE SkipStage(w)
  BY <1>2, GoTyped DEF SkipStage, TypeOK, Steps, queue, thread
<1>3. CASE Check(w)
  <2>1. CASE Blocks(w) = {}
    BY <1>3, <2>1, GoTyped DEF Check, TypeOK, Steps, queue, thread
  <2>2. CASE Blocks(w) # {}
    BY <1>3, <2>2, GoTyped DEF Check, TypeOK, Steps, queue, thread
  <2> QED
    BY <2>1, <2>2
<1>4. CASE Resume(w)
  <2>1. pc' \in [Workers -> Steps] /\ \A v \in Workers : Busy(v)' <=> holds'[v] # NoJob
    BY <1>4, GoTyped DEF Resume, Steps
  <2>2. resume[w] \in Rows
    BY <1>4 DEF Resume, Resumable, TypeOK
  <2>3. link' \in [Jobs -> Rows \cup {NoRow}]
    BY <1>4, <2>2 DEF Resume, Link, TypeOK
  <2>4. reply' \in [Rows -> ReplyStatuses] /\ row' \in [Workers -> Rows \cup {NoRow}]
    BY <1>4, <2>2 DEF Resume, TypeOK, ReplyStatuses
  <2>5. \A v \in Workers : pc'[v] = "writing" => row'[v] # NoRow
    BY <1>4, <2>2, RowsAreNotNoRow DEF Resume, Go, TypeOK
  <2> QED
    BY <1>4, <2>1, <2>3, <2>4, <2>5 DEF Resume, TypeOK
<1>5. CASE LookForReply(w)
  <2>1. CASE Fresh
    BY <1>5, <2>1, GoTyped DEF LookForReply, TypeOK, Steps, queue, thread
  <2>2. CASE ~Fresh
    BY <1>5, <2>2, GoTyped DEF LookForReply, TypeOK, Steps, queue, thread
  <2> QED
    BY <2>1, <2>2
<1>6. CASE Insert(w)
  <2>1. pc' \in [Workers -> Steps] /\ \A v \in Workers : Busy(v)' <=> holds'[v] # NoJob
    BY <1>6, GoTyped DEF Insert, Steps
  <2>2. PICK r \in Unborn :
          /\ reply' = [reply EXCEPT ![r] = "drafting"]
          /\ row' = [row EXCEPT ![w] = r]
          /\ Link(w, r)
    BY <1>6 DEF Insert
  <2>3. r \in Rows
    BY DEF Unborn
  <2>4. link' \in [Jobs -> Rows \cup {NoRow}]
    BY <2>2, <2>3 DEF Link, TypeOK
  <2>5. reply' \in [Rows -> ReplyStatuses] /\ row' \in [Workers -> Rows \cup {NoRow}]
    BY <2>2, <2>3 DEF TypeOK, ReplyStatuses
  <2>6. \A v \in Workers : pc'[v] = "writing" => row'[v] # NoRow
    BY <1>6, <2>2, <2>3, RowsAreNotNoRow DEF Insert, Go, TypeOK
  <2> QED
    BY <1>6, <2>1, <2>4, <2>5, <2>6 DEF Insert, TypeOK
<1>7. ASSUME NEW movedOn \in BOOLEAN, Finalize(w, movedOn)
      PROVE  TypeOK'
  <2>1. /\ pc' \in [Workers -> Steps]
        /\ \A v \in Workers : Busy(v)' <=> holds'[v] # NoJob
        /\ \A v \in Workers : pc'[v] = "writing" => pc[v] = "writing"
    BY <1>7, GoTyped DEF Finalize, Steps
  <2>2. reply' \in [Rows -> ReplyStatuses]
    BY <1>7 DEF Finalize, TypeOK, ReplyStatuses
  <2> QED
    BY <1>7, <2>1, <2>2 DEF Finalize, TypeOK, queue
<1>8. CASE MarkFailed(w)
  <2>1. /\ pc' \in [Workers -> Steps]
        /\ \A v \in Workers : Busy(v)' <=> holds'[v] # NoJob
        /\ \A v \in Workers : pc'[v] = "writing" => pc[v] = "writing"
    BY <1>8, GoTyped DEF MarkFailed, Steps
  <2>2. reply' \in [Rows -> ReplyStatuses]
    BY <1>8 DEF MarkFailed, TypeOK, ReplyStatuses
  <2> QED
    BY <1>8, <2>1, <2>2 DEF MarkFailed, TypeOK, queue
<1>9. ASSUME NEW terminal \in BOOLEAN, GiveBack(w, terminal)
      PROVE  TypeOK'
  <2>1. /\ job' \in [Jobs -> JobStatuses]
        /\ owner' \in [Jobs -> Workers \cup {NoWorker}]
        /\ lapsed' \in [Jobs -> BOOLEAN]
    BY <1>9 DEF GiveBack, TypeOK, JobStatuses
  <2> QED
    BY <1>9, <2>1, RestTyped DEF GiveBack, TypeOK, thread
<1>10. CASE Finish(w)
  <2>1. /\ job' \in [Jobs -> JobStatuses]
        /\ owner' \in [Jobs -> Workers \cup {NoWorker}]
        /\ lapsed' \in [Jobs -> BOOLEAN]
    BY <1>10 DEF Finish, TypeOK, JobStatuses
  <2> QED
    BY <1>10, <2>1, RestTyped DEF Finish, TypeOK, thread
<1> QED
  BY <1>1, <1>2, <1>3, <1>4, <1>5, <1>6, <1>7, <1>8, <1>9, <1>10 DEF Work

(* What the desk does to the rows: it reads them, or writes, by its id,   *)
(* the row a handler has read.                                             *)
LEMMA DeskRows ==
  ASSUME TypeOK, NEW q \in Rows, Desk(q)
  PROVE  /\ UNCHANGED <<manual, queue, work>>
         /\ \A s \in Rows :
              \/ reply'[s] = reply[s] /\ asked'[s] = asked[s]
              \/ /\ decided[s] = "redraft" /\ reply[s] # "gone"
                 /\ reply'[s] = "drafting" /\ asked'[s] = "redraft"
              \/ /\ decided[s] = "clear" /\ reply[s] # "gone"
                 /\ reply'[s] = "rejected" /\ asked'[s] = asked[s]
              \/ decided[s] = "drop" /\ reply'[s] = "gone" /\ asked'[s] = asked[s]
<1> USE DEF TypeOK
<1>1. CASE Abandon(q) \/ FindOldDraft(q) \/ AskRedraft(q) \/ FindFailed(q) \/ FindSuperseded(q)
  BY <1>1 DEF Abandon, FindOldDraft, AskRedraft, FindFailed, FindSuperseded, Read
<1>2. CASE Redraft(q)
  <2>1. decided[q] = "redraft" /\ UNCHANGED <<manual, queue, work>>
    BY <1>2 DEF Redraft, Late
  <2>2. reply' = [reply EXCEPT ![q] = IF @ = "gone" THEN @ ELSE "drafting"]
    BY <1>2 DEF Redraft, Late
  <2>3. asked' = [asked EXCEPT ![q] = IF reply[q] = "gone" THEN @ ELSE "redraft"]
    BY <1>2 DEF Redraft
  <2> QED
    BY <2>1, <2>2, <2>3
<1>3. CASE Clear(q)
  BY <1>3 DEF Clear, Late
<1>4. CASE Drop(q)
  BY <1>4 DEF Drop, Late
<1> QED
  BY <1>1, <1>2, <1>3, <1>4 DEF Desk

(* Only a row that exists is read.                                         *)
LEMMA DeskTyped ==
  ASSUME TypeOK, NEW q \in Rows, Desk(q)
  PROVE  /\ reply' \in [Rows -> ReplyStatuses]
         /\ asked' \in [Rows -> {"no", "reply", "redraft"}]
         /\ decided' \in [Rows -> Decisions]
         /\ \A s \in Rows :
              decided'[s] # "nothing" => decided[s] # "nothing" \/ reply[s] # "none"
<1> USE DEF TypeOK
<1>1. CASE Abandon(q)
  BY <1>1 DEF Abandon, Decisions
<1>2. ASSUME NEW what \in Decisions, Read(q, what), reply[q] # "none"
      PROVE  /\ UNCHANGED <<reply, asked>>
             /\ decided' \in [Rows -> Decisions]
             /\ \A s \in Rows :
                  decided'[s] # "nothing" => decided[s] # "nothing" \/ reply[s] # "none"
  BY <1>2 DEF Read
<1>3. CASE FindOldDraft(q) \/ AskRedraft(q) \/ FindFailed(q) \/ FindSuperseded(q)
  <2>1. reply[q] # "none"
    BY <1>3
    DEF FindOldDraft, AskRedraft, FindFailed, FindSuperseded, Newest, OpenDraft, Redraftable,
        Supersedable
  <2>2. \E what \in Decisions : Read(q, what)
    BY <1>3 DEF FindOldDraft, AskRedraft, FindFailed, FindSuperseded, Decisions
  <2> QED
    BY <1>2, <2>1, <2>2
<1>4. CASE Redraft(q) \/ Clear(q) \/ Drop(q)
  <2>1. decided' = [decided EXCEPT ![q] = "nothing"]
    BY <1>4 DEF Redraft, Clear, Drop, Late
  <2>2. reply' \in [Rows -> ReplyStatuses]
    BY <1>4 DEF Redraft, Clear, Drop, Late, ReplyStatuses
  <2>3. asked' \in [Rows -> {"no", "reply", "redraft"}]
    BY <1>4 DEF Redraft, Clear, Drop
  <2> QED
    BY <2>1, <2>2, <2>3 DEF Decisions
<1> QED
  BY <1>1, <1>2, <1>3, <1>4 DEF Desk

LEMMA TypesStep == TypeOK /\ [Next]_vars => TypeOK'
<1> SUFFICES ASSUME TypeOK, [Next]_vars PROVE TypeOK'
  OBVIOUS
<1>1. ASSUME NEW j \in Jobs, Discover(j) \/ Rearm(j) \/ Lapse(j) \/ Bury(j)
      PROVE  TypeOK'
  <2>1. /\ job' \in [Jobs -> JobStatuses]
        /\ attempts' \in [Jobs -> 0..MaxAttempts]
    BY <1>1, AttemptsPositive DEF Discover, Rearm, Lapse, Bury, TypeOK, JobStatuses
  <2>2. /\ owner' \in [Jobs -> Workers \cup {NoWorker}]
        /\ lapsed' \in [Jobs -> BOOLEAN]
        /\ link' \in [Jobs -> Rows \cup {NoRow}]
    BY <1>1 DEF Discover, Rearm, Lapse, Bury, TypeOK
  <2>3. UNCHANGED <<thread, work>>
    BY <1>1 DEF Discover, Rearm, Lapse, Bury
  <2> QED
    BY <2>1, <2>2, <2>3 DEF TypeOK, Busy, thread, work
<1>2. ASSUME NEW j \in Jobs, NEW r \in Rows, QueueAsked(j, r)
      PROVE  TypeOK'
  BY <1>2 DEF QueueAsked, TypeOK, JobStatuses, Busy, work
<1>3. ASSUME NEW r \in Rows, FailToQueue(r) \/ Desk(r)
      PROVE  TypeOK'
  <2>1. CASE FailToQueue(r)
    BY <1>3, <2>1 DEF FailToQueue, TypeOK, ReplyStatuses, Busy, queue, work
  <2>2. CASE Desk(r)
    <3>1. /\ reply' \in [Rows -> ReplyStatuses]
          /\ asked' \in [Rows -> {"no", "reply", "redraft"}]
          /\ decided' \in [Rows -> Decisions]
      BY <2>2, DeskTyped
    <3>2. UNCHANGED <<manual, queue, work>>
      BY <2>2, DeskRows
    <3> QED
      BY <3>1, <3>2 DEF TypeOK, Busy, queue, work
  <2> QED
    BY <1>3, <2>1, <2>2
<1>4. ASSUME NEW w \in Workers, Renew(w)
      PROVE  TypeOK'
  BY <1>4 DEF Renew, Owns, TypeOK, Busy, thread, work
<1>5. ASSUME NEW w \in Workers, Crash(w)
      PROVE  TypeOK'
  BY <1>5, RestTyped DEF Crash, TypeOK, queue, thread
<1>6. ASSUME NEW w \in Workers, NEW j \in Jobs, Claim(w, j)
      PROVE  TypeOK'
  <2>1. attempts[j] + 1 \in 0..MaxAttempts
    BY <1>6, AttemptsPositive DEF Claim, TriesLeft, TypeOK
  <2>2. /\ job' \in [Jobs -> JobStatuses]
        /\ attempts' \in [Jobs -> 0..MaxAttempts]
        /\ owner' \in [Jobs -> Workers \cup {NoWorker}]
        /\ lapsed' \in [Jobs -> BOOLEAN]
    BY <1>6, <2>1 DEF Claim, TypeOK, JobStatuses
  <2>3. /\ pc' \in [Workers -> Steps]
        /\ holds' \in [Workers -> Jobs \cup {NoJob}]
        /\ resume' \in [Workers -> Rows \cup {NoRow}]
        /\ \A v \in Workers : Busy(v)' <=> holds'[v] # NoJob
        /\ \A v \in Workers : pc'[v] = "writing" => pc[v] = "writing"
    BY <1>6, KindsOfJob DEF Claim, TypeOK, Steps, Busy
  <2> QED
    BY <1>6, <2>2, <2>3 DEF Claim, TypeOK, thread
<1>7. ASSUME NEW written \in BOOLEAN, ManualReply(written)
      PROVE  TypeOK'
  <2>1. PICK r \in Unborn :
          /\ \/ \E first \in {"drafting", "pending_approval"} :
                  reply' = [reply EXCEPT ![r] = first] /\ UNCHANGED decided
             \/ \E first \in {"drafting", "pending_approval"}, old \in Rows :
                  /\ reply' = [reply EXCEPT ![r] = first, ![old] = "superseded"]
                  /\ decided' = [decided EXCEPT ![old] = "nothing"]
          /\ manual' = [manual EXCEPT ![r] = TRUE]
          /\ asked' = [asked EXCEPT ![r] = IF written THEN @ ELSE "reply"]
    BY <1>7 DEF ManualReply, Stored
  <2>2. r \in Rows
    BY DEF Unborn
  <2>3. reply' \in [Rows -> ReplyStatuses]
    BY <2>1, <2>2 DEF TypeOK, ReplyStatuses
  <2>4. decided' \in [Rows -> Decisions]
    BY <2>1, <2>2 DEF TypeOK, Decisions
  <2>5. manual' \in [Rows -> BOOLEAN] /\ asked' \in [Rows -> {"no", "reply", "redraft"}]
    BY <2>1, <2>2 DEF TypeOK
  <2> QED
    BY <1>7, <2>3, <2>4, <2>5 DEF ManualReply, TypeOK, Busy, queue, work
<1>8. ASSUME NEW r \in Rows, NEW to \in ReplyStatuses, Handle(r, to)
      PROVE  TypeOK'
  BY <1>8 DEF Handle, TypeOK, Busy, queue, work
<1>9. CASE UNCHANGED vars
  BY <1>9 DEF vars, queue, thread, work, TypeOK, Busy
<1> QED
  BY <1>1, <1>2, <1>3, <1>4, <1>5, <1>6, <1>7, <1>8, <1>9, WorkKeepsTypes DEF Next

(* Every variable keeps its type; attempts stop at MAX_ATTEMPTS, also when *)
(* workers die (_claim_next_job).                                          *)
THEOREM QueueTyped == Spec => []TypeOK
BY TypesStart, TypesStep, PTL DEF Spec

-----------------------------------------------------------------------------
(* Any number of processes                                                 *)

(* Only the owner of a job ends a claim, and nobody takes a firm lease.    *)
LEMMA HoldersStep == TypeOK /\ FirmHolders /\ [Next]_vars => FirmHolders'
<1> SUFFICES ASSUME TypeOK, FirmHolders, [Next]_vars,
                    NEW v \in Workers, Busy(v)', holds'[v] \in FirmLeases
             PROVE  Owns(v)' /\ ~lapsed'[holds'[v]]
  BY DEF FirmHolders
<1> USE DEF TypeOK
<1>a. CASE Busy(v) /\ holds'[v] = holds[v] /\ UNCHANGED <<job, owner, lapsed>>
  BY <1>a DEF FirmHolders, Owns, Busy
<1>b. ASSUME Busy(v), holds'[v] = holds[v]
      PROVE  /\ holds[v] \in Jobs /\ job[holds[v]] = "processing"
             /\ owner[holds[v]] = v /\ ~lapsed[holds[v]]
  BY <1>b, FirmLeasesAreOfJobs DEF FirmHolders, Owns
<1>1. ASSUME NEW j \in Jobs, Discover(j) \/ Rearm(j) \/ Lapse(j) \/ Bury(j)
      PROVE  Owns(v)' /\ ~lapsed'[holds'[v]]
  <2>1. Busy(v) /\ holds'[v] = holds[v]
    BY <1>1 DEF Discover, Rearm, Lapse, Bury, work, Busy
  <2>2. holds[v] # j
    BY <1>1, <1>b, <2>1 DEF Discover, Rearm, Lapse, Bury, Abandoned
  <2>3. /\ job'[holds[v]] = job[holds[v]]
        /\ owner'[holds[v]] = owner[holds[v]]
        /\ lapsed'[holds[v]] = lapsed[holds[v]]
    BY <1>1, <1>b, <2>1, <2>2 DEF Discover, Rearm, Lapse, Bury
  <2> QED
    BY <1>b, <2>1, <2>3 DEF Owns, Busy
<1>2. ASSUME NEW j \in Jobs, NEW r \in Rows, QueueAsked(j, r)
      PROVE  Owns(v)' /\ ~lapsed'[holds'[v]]
  <2>1. Busy(v) /\ holds'[v] = holds[v]
    BY <1>2 DEF QueueAsked, work, Busy
  <2>2. holds[v] # j
    BY <1>2, <1>b, <2>1 DEF QueueAsked
  <2> QED
    BY <1>2, <1>b, <2>1, <2>2 DEF QueueAsked, Owns, Busy
<1>3. ASSUME NEW r \in Rows, FailToQueue(r) \/ Desk(r)
      PROVE  Owns(v)' /\ ~lapsed'[holds'[v]]
  <2>1. UNCHANGED <<queue, work>>
    BY <1>3, DeskRows DEF FailToQueue
  <2> QED
    BY <1>a, <2>1 DEF queue, work, Busy
<1>4. ASSUME NEW w \in Workers, Renew(w)
      PROVE  Owns(v)' /\ ~lapsed'[holds'[v]]
  <2>1. Busy(v) /\ holds'[v] = holds[v]
    BY <1>4 DEF Renew, work, Busy
  <2> QED
    BY <1>4, <1>b, <2>1 DEF Renew, Owns, Busy
<1>5. ASSUME NEW w \in Workers, Crash(w)
      PROVE  Owns(v)' /\ ~lapsed'[holds'[v]]
  <2>1. v # w /\ Busy(v) /\ holds'[v] = holds[v]
    BY <1>5, RestTyped DEF Crash, Busy
  <2> QED
    BY <1>5, <1>a, <2>1 DEF Crash, queue
<1>6. ASSUME NEW w \in Workers, NEW j \in Jobs, Claim(w, j)
      PROVE  Owns(v)' /\ ~lapsed'[holds'[v]]
  <2>1. CASE v = w
    BY <1>6, <2>1 DEF Claim, Owns, Busy
  <2>2. CASE v # w
    <3>1. Busy(v) /\ holds'[v] = holds[v]
      BY <1>6, <2>2 DEF Claim, Busy
    <3>2. holds[v] # j
      BY <1>6, <1>b, <3>1 DEF Claim, Due
    <3>3. /\ job'[holds[v]] = job[holds[v]]
          /\ owner'[holds[v]] = owner[holds[v]]
          /\ lapsed'[holds[v]] = lapsed[holds[v]]
      BY <1>6, <1>b, <3>1, <3>2 DEF Claim
    <3> QED
      BY <1>6, <1>b, <3>1, <3>3 DEF Owns, Busy
  <2> QED
    BY <2>1, <2>2
<1>7. ASSUME NEW written \in BOOLEAN, ManualReply(written)
      PROVE  Owns(v)' /\ ~lapsed'[holds'[v]]
  BY <1>7, <1>a DEF ManualReply, queue, work, Busy
<1>8. ASSUME NEW r \in Rows, NEW to \in ReplyStatuses, Handle(r, to)
      PROVE  Owns(v)' /\ ~lapsed'[holds'[v]]
  BY <1>8, <1>a DEF Handle, queue, work, Busy
<1>9. ASSUME NEW w \in Workers, NEW terminal \in BOOLEAN,
             GiveBack(w, terminal) \/ Finish(w)
      PROVE  Owns(v)' /\ ~lapsed'[holds'[v]]
  <2>1. v # w /\ Busy(v) /\ holds'[v] = holds[v]
    BY <1>9, RestTyped DEF GiveBack, Finish, Busy
  <2>2. CASE ~StillOwns(w)
    BY <1>9, <1>a, <2>1, <2>2 DEF GiveBack, Finish
  <2>3. CASE StillOwns(w)
    <3>1. holds[w] \in Jobs /\ holds[v] # holds[w]
      BY <1>b, <2>1, <2>3, BusyHolds DEF StillOwns, Owns
    <3>2. /\ job'[holds[v]] = job[holds[v]]
          /\ owner'[holds[v]] = owner[holds[v]]
          /\ lapsed'[holds[v]] = lapsed[holds[v]]
      BY <1>9, <1>b, <2>1, <2>3, <3>1 DEF GiveBack, Finish
    <3> QED
      BY <1>b, <1>9, <2>1, <3>2 DEF Owns, Busy
  <2> QED
    BY <2>2, <2>3
<1>10. ASSUME NEW w \in Workers, NEW movedOn \in BOOLEAN,
              \/ Trouble(w) \/ SkipStage(w) \/ Check(w) \/ Resume(w)
              \/ LookForReply(w) \/ Insert(w) \/ Finalize(w, movedOn) \/ MarkFailed(w)
       PROVE  Owns(v)' /\ ~lapsed'[holds'[v]]
  <2>1. UNCHANGED <<job, owner, lapsed, holds>>
    BY <1>10
    DEF Trouble, SkipStage, Check, Resume, LookForReply, Insert, Finalize, MarkFailed, queue
  <2>2. Busy(v)
    BY <1>10
    DEF Trouble, SkipStage, Check, Resume, LookForReply, Insert, Finalize, MarkFailed, Go, Busy
  <2> QED
    BY <1>a, <2>1, <2>2
<1>11. CASE UNCHANGED vars
  BY <1>11, <1>a DEF vars, queue, work, Busy
<1> QED
  BY <1>1, <1>2, <1>3, <1>4, <1>5, <1>6, <1>7, <1>8, <1>9, <1>10, <1>11 DEF Next, Work

(* While its lease is firm a job is in the hands of one worker, over       *)
(* crashes, abandoned jobs, repeated announcements and any number of       *)
(* processes (_claim_next_job).                                            *)
THEOREM OneHolderEach == Spec => []OneWorkerPerJob
<1>1. Init => TypeOK /\ FirmHolders
  BY TypesStart DEF Init, FirmHolders, Busy
<1>2. TypeOK /\ FirmHolders /\ [Next]_vars => (TypeOK /\ FirmHolders)'
  BY TypesStep, HoldersStep
<1>3. FirmHolders => OneWorkerPerJob
  BY DEF FirmHolders, OneWorkerPerJob, Owns
<1> QED
  BY <1>1, <1>2, <1>3, PTL DEF Spec

LEMMA DoneStep ==
  ASSUME TypeOK, [Next]_vars, NEW j \in Jobs, job[j] = "done"
  PROVE  job'[j] = "done"
<1> USE DEF TypeOK
<1>1. ASSUME NEW k \in Jobs, Discover(k) \/ Rearm(k) \/ Lapse(k) \/ Bury(k)
      PROVE  job'[j] = "done"
  BY <1>1 DEF Discover, Rearm, Lapse, Bury, Abandoned
<1>2. ASSUME NEW k \in Jobs, NEW r \in Rows, QueueAsked(k, r)
      PROVE  job'[j] = "done"
  BY <1>2 DEF QueueAsked
<1>3. ASSUME NEW w \in Workers, NEW k \in Jobs, Claim(w, k)
      PROVE  job'[j] = "done"
  BY <1>3 DEF Claim, Due
<1>4. ASSUME NEW w \in Workers, NEW terminal \in BOOLEAN,
             GiveBack(w, terminal) \/ Finish(w)
      PROVE  job'[j] = "done"
  <2>1. CASE ~StillOwns(w)
    BY <1>4, <2>1 DEF GiveBack, Finish
  <2>2. CASE StillOwns(w)
    BY <1>4, <2>2 DEF GiveBack, Finish, StillOwns, Owns
  <2> QED
    BY <2>1, <2>2
<1>5. ASSUME NEW w \in Workers, Renew(w) \/ Crash(w)
      PROVE  job'[j] = "done"
  BY <1>5 DEF Renew, Crash, queue
<1>6. ASSUME NEW w \in Workers, NEW movedOn \in BOOLEAN,
             \/ Trouble(w) \/ SkipStage(w) \/ Check(w) \/ Resume(w)
             \/ LookForReply(w) \/ Insert(w) \/ Finalize(w, movedOn) \/ MarkFailed(w)
      PROVE  job'[j] = "done"
  BY <1>6
  DEF Trouble, SkipStage, Check, Resume, LookForReply, Insert, Finalize, MarkFailed, queue
<1>7. ASSUME NEW r \in Rows, NEW to \in ReplyStatuses,
             Handle(r, to)
      PROVE  job'[j] = "done"
  BY <1>7 DEF Handle, queue
<1>8. ASSUME NEW written \in BOOLEAN, ManualReply(written)
      PROVE  job'[j] = "done"
  BY <1>8 DEF ManualReply, queue
<1>9. CASE UNCHANGED vars
  BY <1>9 DEF vars, queue
<1>10. CASE \E r \in Rows : FailToQueue(r) \/ Desk(r)
  BY <1>10, DeskRows DEF FailToQueue, queue
<1> QED
  BY <1>1, <1>2, <1>3, <1>4, <1>5, <1>6, <1>7, <1>8, <1>9, <1>10 DEF Next, Work

(* No process, however late, returns a finished job to the queue           *)
(* (_retry_job and _finish_job ask for locked_by).                         *)
THEOREM FinishedIsFinal == Spec => DoneIsDone
<1>1. TypeOK /\ [Next]_vars => [\A j \in Jobs : job[j] = "done" => job'[j] = "done"]_vars
  BY DoneStep
<1> QED
  BY <1>1, QueueTyped, PTL DEF Spec, DoneIsDone

-----------------------------------------------------------------------------
(* The rows of the ticket                                                  *)

(* The steps that touch rows.                                              *)
RowStep ==
  \/ \E j \in Jobs, r \in Rows : QueueAsked(j, r)
  \/ \E r \in Rows : FailToQueue(r) \/ Desk(r)
  \/ \E written \in BOOLEAN : ManualReply(written)
  \/ \E r \in Rows, to \in ReplyStatuses : Handle(r, to)
  \/ \E w \in Workers :
       \/ Resume(w)
       \/ Insert(w)
       \/ \E movedOn \in BOOLEAN : Finalize(w, movedOn)
       \/ MarkFailed(w)

LEMMA RowSteps == [Next]_vars => RowStep \/ UNCHANGED thread
<1> SUFFICES ASSUME [Next]_vars, ~RowStep PROVE UNCHANGED thread
  OBVIOUS
<1>1. ASSUME NEW j \in Jobs, Discover(j) \/ Rearm(j) \/ Lapse(j) \/ Bury(j)
      PROVE  UNCHANGED thread
  BY <1>1 DEF Discover, Rearm, Lapse, Bury
<1>2. ASSUME NEW w \in Workers, NEW j \in Jobs, Claim(w, j)
      PROVE  UNCHANGED thread
  BY <1>2 DEF Claim
<1>3. ASSUME NEW w \in Workers, Renew(w) \/ Crash(w)
      PROVE  UNCHANGED thread
  BY <1>3 DEF Renew, Crash
<1>4. ASSUME NEW w \in Workers, NEW terminal \in BOOLEAN,
             \/ Trouble(w) \/ SkipStage(w) \/ Check(w) \/ LookForReply(w)
             \/ GiveBack(w, terminal) \/ Finish(w)
      PROVE  UNCHANGED thread
  BY <1>4 DEF Trouble, SkipStage, Check, LookForReply, GiveBack, Finish
<1>5. CASE UNCHANGED vars
  BY <1>5 DEF vars
<1> QED
  BY <1>1, <1>2, <1>3, <1>4, <1>5 DEF Next, Work, RowStep

(* What a manual reply does to the rows: it opens one, and closes the one  *)
(* it has found.                                                           *)
LEMMA ManualRows ==
  ASSUME TypeOK, NEW written \in BOOLEAN, ManualReply(written)
  PROVE  \E r \in Rows :
           /\ reply[r] = "none"
           /\ reply'[r] \in {"drafting", "pending_approval", "superseded"} /\ manual'[r]
           /\ \A s \in Rows \ {r} :
                /\ manual'[s] = manual[s] /\ asked'[s] = asked[s]
                /\ decided'[s] # "nothing" => decided[s] # "nothing"
                /\ \/ reply'[s] = reply[s]
                   \/ s \in Stored /\ reply'[s] = "superseded"
<1>1. PICK r \in Unborn :
        /\ \/ \E first \in {"drafting", "pending_approval"} :
                reply' = [reply EXCEPT ![r] = first] /\ UNCHANGED decided
           \/ \E first \in {"drafting", "pending_approval"}, old \in Stored :
                /\ reply' = [reply EXCEPT ![r] = first, ![old] = "superseded"]
                /\ decided' = [decided EXCEPT ![old] = "nothing"]
        /\ manual' = [manual EXCEPT ![r] = TRUE]
        /\ asked' = [asked EXCEPT ![r] = IF written THEN @ ELSE "reply"]
  BY DEF ManualReply
<1>2. r \in Rows /\ reply[r] = "none"
  BY DEF Unborn
<1> QED
  BY <1>1, <1>2 DEF TypeOK, Stored

(* What the draft writer's last write does to the rows.                    *)
LEMMA FinalizedRows ==
  ASSUME TypeOK, NEW w \in Workers, NEW movedOn \in BOOLEAN, Finalize(w, movedOn)
  PROVE  /\ row[w] \in Rows
         /\ UNCHANGED <<manual, asked, decided>>
         /\ \/ UNCHANGED reply
            \/ /\ reply[row[w]] # "gone"
               /\ reply'[row[w]] \in {"pending_approval", "gone"}
               /\ \A s \in Rows \ {row[w]} :
                    \/ reply'[s] = reply[s]
                    \/ reply[s] \in Supersedable /\ reply'[s] = "gone"
<1>1. row[w] \in Rows
  BY DEF Finalize, Go, TypeOK
<1>2. CASE reply[row[w]] = "gone"
  BY <1>1, <1>2 DEF Finalize
<1>3. CASE reply[row[w]] # "gone"
  <2> DEFINE written == [reply EXCEPT ![row[w]] = "pending_approval"]
  <2>1. /\ written[row[w]] = "pending_approval"
        /\ \A s \in Rows \ {row[w]} : written[s] = reply[s]
    BY <1>1 DEF TypeOK
  <2>2. reply' = [r \in Rows |->
          IF movedOn /\ ~manual[r] /\ written[r] \in Supersedable
          THEN "gone" ELSE written[r]]
    BY <1>3 DEF Finalize
  <2> HIDE DEF written
  <2> QED
    BY <1>1, <1>3, <2>1, <2>2 DEF Finalize
<1> QED
  BY <1>2, <1>3

(* A row that exists and needs no queueing stays so.                       *)
LEMMA SeenStays ==
  ASSUME TypeOK, [Next]_vars, NEW r \in Rows, reply[r] # "none"
  PROVE  /\ reply'[r] # "none"
         /\ asked[r] # "reply" => asked'[r] # "reply"
<1> USE DEF TypeOK
<1>1. ASSUME NEW j \in Jobs, NEW q \in Rows, QueueAsked(j, q)
      PROVE  reply'[r] # "none" /\ (asked[r] # "reply" => asked'[r] # "reply")
  BY <1>1 DEF QueueAsked
<1>2. ASSUME NEW q \in Rows, FailToQueue(q)
      PROVE  reply'[r] # "none" /\ (asked[r] # "reply" => asked'[r] # "reply")
  BY <1>2 DEF FailToQueue
<1>3. ASSUME NEW q \in Rows, Desk(q)
      PROVE  reply'[r] # "none" /\ (asked[r] # "reply" => asked'[r] # "reply")
  BY <1>3, DeskRows
<1>4. ASSUME NEW written \in BOOLEAN, ManualReply(written)
      PROVE  reply'[r] # "none" /\ (asked[r] # "reply" => asked'[r] # "reply")
  BY <1>4, ManualRows
<1>5. ASSUME NEW q \in Rows, NEW to \in ReplyStatuses, Handle(q, to)
      PROVE  reply'[r] # "none" /\ (asked[r] # "reply" => asked'[r] # "reply")
  BY <1>5 DEF Handle
<1>6. ASSUME NEW w \in Workers, Resume(w)
      PROVE  reply'[r] # "none" /\ (asked[r] # "reply" => asked'[r] # "reply")
  BY <1>6 DEF Resume
<1>7. ASSUME NEW w \in Workers, Insert(w)
      PROVE  reply'[r] # "none" /\ (asked[r] # "reply" => asked'[r] # "reply")
  BY <1>7 DEF Insert
<1>8. ASSUME NEW w \in Workers, NEW movedOn \in BOOLEAN, Finalize(w, movedOn)
      PROVE  reply'[r] # "none" /\ (asked[r] # "reply" => asked'[r] # "reply")
  BY <1>8, FinalizedRows
<1>9. ASSUME NEW w \in Workers, MarkFailed(w)
      PROVE  reply'[r] # "none" /\ (asked[r] # "reply" => asked'[r] # "reply")
  BY <1>9 DEF MarkFailed
<1>10. CASE UNCHANGED thread
  BY <1>10 DEF thread
<1> QED
  BY <1>1, <1>2, <1>3, <1>4, <1>5, <1>6, <1>7, <1>8, <1>9, <1>10, RowSteps DEF RowStep

(* Only rows that exist are asked for.                                     *)
LEMMA AskedStep ==
  ASSUME TypeOK, KnownRows, [Next]_vars, NEW r \in Rows, asked'[r] # "no"
  PROVE  reply'[r] # "none"
<1>1. CASE reply[r] # "none"
  BY <1>1, SeenStays
<1>2. CASE reply[r] = "none"
  <2>1. asked[r] = "no"
    BY <1>2 DEF KnownRows
  <2> USE DEF TypeOK
  <2>2. ASSUME NEW j \in Jobs, NEW q \in Rows, QueueAsked(j, q)
        PROVE  FALSE
    BY <2>1, <2>2 DEF QueueAsked
  <2>3. ASSUME NEW q \in Rows, FailToQueue(q)
        PROVE  FALSE
    BY <2>1, <2>3 DEF FailToQueue
  <2>4. ASSUME NEW q \in Rows, Desk(q)
        PROVE  FALSE
    BY <1>2, <2>1, <2>4, DeskRows DEF KnownRows
  <2>5. ASSUME NEW written \in BOOLEAN, ManualReply(written)
        PROVE  reply'[r] # "none"
    BY <2>1, <2>5, ManualRows
  <2>6. ASSUME NEW q \in Rows, NEW to \in ReplyStatuses, Handle(q, to)
        PROVE  FALSE
    BY <2>1, <2>6 DEF Handle
  <2>7. ASSUME NEW w \in Workers, NEW movedOn \in BOOLEAN,
               Resume(w) \/ Insert(w) \/ Finalize(w, movedOn) \/ MarkFailed(w)
        PROVE  FALSE
    BY <2>1, <2>7 DEF Resume, Insert, Finalize, MarkFailed
  <2>8. CASE UNCHANGED thread
    BY <2>1, <2>8 DEF thread
  <2> QED
    BY <2>2, <2>3, <2>4, <2>5, <2>6, <2>7, <2>8, RowSteps DEF RowStep
<1> QED
  BY <1>1, <1>2

(* And only they are read.                                                 *)
LEMMA DecidedStep ==
  ASSUME TypeOK, KnownRows, [Next]_vars, NEW r \in Rows, decided'[r] # "nothing"
  PROVE  reply'[r] # "none"
<1> USE DEF TypeOK
<1>1. reply[r] # "none" => reply'[r] # "none"
  BY SeenStays
<1>2. decided[r] # "nothing" => reply[r] # "none"
  BY DEF KnownRows
<1>3. ASSUME NEW q \in Rows, Desk(q)
      PROVE  decided[r] # "nothing" \/ reply[r] # "none"
  BY <1>3, DeskTyped
<1>4. ASSUME NEW written \in BOOLEAN, ManualReply(written)
      PROVE  decided[r] # "nothing" \/ reply'[r] # "none"
  BY <1>4, ManualRows
<1>5. ASSUME NEW w \in Workers, NEW movedOn \in BOOLEAN, Finalize(w, movedOn)
      PROVE  decided[r] # "nothing"
  BY <1>5, FinalizedRows
<1>6. CASE UNCHANGED decided
  BY <1>1, <1>2, <1>6
<1>7. CASE RowStep
  <2>1. ASSUME NEW w \in Workers, Resume(w) \/ Insert(w) \/ MarkFailed(w)
        PROVE  UNCHANGED decided
    BY <2>1 DEF Resume, Insert, MarkFailed
  <2>2. ASSUME NEW q \in Rows, NEW j \in Jobs, NEW to \in ReplyStatuses,
               QueueAsked(j, q) \/ FailToQueue(q) \/ Handle(q, to)
        PROVE  UNCHANGED decided
    BY <2>2 DEF QueueAsked, FailToQueue, Handle
  <2>3. CASE \E j \in Jobs, q \in Rows : QueueAsked(j, q)
    BY <1>6, <2>2, <2>3
  <2>4. CASE \E q \in Rows : FailToQueue(q)
    BY <1>6, <2>4 DEF FailToQueue
  <2>5. CASE \E q \in Rows, to \in ReplyStatuses : Handle(q, to)
    BY <1>6, <2>5 DEF Handle
  <2> QED
    BY <1>1, <1>2, <1>3, <1>4, <1>5, <1>6, <1>7, <2>1, <2>3, <2>4, <2>5 DEF RowStep
<1> QED
  BY <1>6, <1>7, RowSteps DEF thread

(* What jobs and workers refer to after a step, they or the job referred   *)
(* to before, or it is the row just inserted.                              *)
LEMMA KnownStep == TypeOK /\ KnownRows /\ [Next]_vars => KnownRows'
<1> SUFFICES ASSUME TypeOK, KnownRows, [Next]_vars PROVE KnownRows'
  OBVIOUS
<1> USE DEF TypeOK
<1> DEFINE Seen(r) == r # NoRow => r \in Rows /\ reply'[r] # "none" /\ asked'[r] # "reply"
<1>1. /\ \A j \in Jobs : Seen(link[j])
      /\ \A w \in Workers : Seen(resume[w]) /\ Seen(row[w])
  BY SeenStays DEF KnownRows, Known
<1>2. \A r \in Rows : asked'[r] # "no" => reply'[r] # "none"
  BY AskedStep
<1>0. \A r \in Rows : decided'[r] # "nothing" => reply'[r] # "none"
  BY DecidedStep
<1>3. SUFFICES /\ \A j \in Jobs : Seen(link'[j])
               /\ \A w \in Workers : Seen(resume'[w]) /\ Seen(row'[w])
  BY <1>0, <1>2 DEF KnownRows, Known
<1> DEFINE Goal == /\ \A j \in Jobs : Seen(link'[j])
                   /\ \A w \in Workers : Seen(resume'[w]) /\ Seen(row'[w])
<1>4. ASSUME UNCHANGED <<link, resume, row>> PROVE Goal
  BY <1>1, <1>4
<1>5. Seen(NoRow)
  OBVIOUS
<1>6. ASSUME NEW j \in Jobs, Discover(j) \/ Rearm(j) \/ Lapse(j) \/ Bury(j)
      PROVE  Goal
  <2>1. UNCHANGED <<resume, row>> /\ \A k \in Jobs : link'[k] \in {link[k], NoRow}
    BY <1>6 DEF Discover, Rearm, Lapse, Bury, work
  <2> HIDE DEF Seen
  <2> QED
    BY <1>1, <1>5, <2>1
<1>7. ASSUME NEW j \in Jobs, NEW r \in Rows, QueueAsked(j, r)
      PROVE  Goal
  <2>1. /\ UNCHANGED <<resume, row>>
        /\ \A k \in Jobs : link'[k] \in {link[k], r}
    BY <1>7 DEF QueueAsked, work
  <2>2. Seen(r)
    <3>1. reply[r] # "none" /\ asked'[r] = "no"
      BY <1>7 DEF QueueAsked, KnownRows
    <3> QED
      BY <3>1, SeenStays
  <2> HIDE DEF Seen
  <2> QED
    BY <1>1, <2>1, <2>2
<1>8. ASSUME NEW w \in Workers, NEW j \in Jobs, Claim(w, j)
      PROVE  Goal
  <2>1. /\ UNCHANGED <<link, row>>
        /\ \A v \in Workers : resume'[v] \in {resume[v], link[j]}
    BY <1>8 DEF Claim
  <2> HIDE DEF Seen
  <2> QED
    BY <1>1, <2>1
<1>9. ASSUME NEW w \in Workers, Rest(w), UNCHANGED link
      PROVE  Goal
  <2>1. \A v \in Workers : resume'[v] \in {resume[v], NoRow} /\ row'[v] \in {row[v], NoRow}
    BY <1>9 DEF Rest
  <2> HIDE DEF Seen
  <2> QED
    BY <1>1, <1>5, <1>9, <2>1
<1>10. ASSUME NEW w \in Workers, NEW terminal \in BOOLEAN,
              GiveBack(w, terminal) \/ Finish(w) \/ Crash(w)
       PROVE  Goal
  BY <1>9, <1>10 DEF GiveBack, Finish, Crash, queue
<1>11. ASSUME NEW w \in Workers, NEW r, Seen(r), Link(w, r),
              row' = [row EXCEPT ![w] = r], UNCHANGED resume
       PROVE  Goal
  <2>1. /\ \A k \in Jobs : link'[k] \in {link[k], r}
        /\ \A v \in Workers : row'[v] \in {row[v], r}
    BY <1>11 DEF Link
  <2> HIDE DEF Seen
  <2> QED
    BY <1>1, <1>11, <2>1
<1>12. ASSUME NEW w \in Workers, Resume(w)
       PROVE  Goal
  <2>1. Seen(resume[w]) /\ Link(w, resume[w])
        /\ row' = [row EXCEPT ![w] = resume[w]] /\ UNCHANGED resume
    BY <1>1, <1>12 DEF Resume
  <2> HIDE DEF Seen, Goal
  <2> QED
    BY <1>11, <2>1
<1>13. ASSUME NEW w \in Workers, Insert(w)
       PROVE  Goal
  <2>1. PICK r \in Unborn :
          /\ reply' = [reply EXCEPT ![r] = "drafting"]
          /\ row' = [row EXCEPT ![w] = r]
          /\ Link(w, r)
    BY <1>13 DEF Insert
  <2>2. r \in Rows /\ reply[r] = "none" /\ reply'[r] = "drafting"
    BY <2>1 DEF Unborn
  <2>3. asked[r] = "no" /\ UNCHANGED <<asked, resume>>
    BY <1>13, <2>2 DEF Insert, KnownRows
  <2>4. Seen(r)
    BY <2>2, <2>3
  <2> HIDE DEF Seen, Goal
  <2> QED
    BY <1>11, <2>1, <2>3, <2>4
<1>14. ASSUME NEW w \in Workers, NEW movedOn \in BOOLEAN,
              \/ Trouble(w) \/ SkipStage(w) \/ Check(w) \/ LookForReply(w)
              \/ Finalize(w, movedOn) \/ MarkFailed(w) \/ Renew(w)
       PROVE  Goal
  BY <1>4, <1>14
  DEF Trouble, SkipStage, Check, LookForReply, Finalize, MarkFailed, Renew, queue, work
<1>15. ASSUME NEW r \in Rows, NEW to \in ReplyStatuses, Handle(r, to)
       PROVE  Goal
  BY <1>4, <1>15
  DEF Handle, queue, work
<1>16. ASSUME NEW written \in BOOLEAN, ManualReply(written)
       PROVE  Goal
  BY <1>4, <1>16
  DEF ManualReply, queue, work
<1>17. ASSUME NEW r \in Rows, FailToQueue(r) \/ Desk(r)
       PROVE  Goal
  <2>1. UNCHANGED <<queue, work>>
    BY <1>17, DeskRows DEF FailToQueue
  <2> QED
    BY <1>4, <2>1 DEF queue, work
<1>18. ASSUME UNCHANGED vars PROVE Goal
  BY <1>4, <1>18 DEF vars, queue, work
<1> HIDE DEF Goal
<1>19. Goal
  BY <1>4, <1>6, <1>7, <1>8, <1>10, <1>12, <1>13, <1>14, <1>15, <1>16, <1>17, <1>18
  DEF Next, Work
<1> QED
  BY <1>19 DEF Goal

-----------------------------------------------------------------------------
(* One process                                                             *)

(* The draft writer's own row, while it is written, is touched by nobody   *)
(* but the operator who opens another reply.                               *)
LEMMA WrittenStep ==
  TypeOK /\ KnownRows /\ WrittenRows /\ OneProcess /\ [Next]_vars => WrittenRows'
<1> SUFFICES ASSUME TypeOK, KnownRows, WrittenRows, OneProcess, [Next]_vars,
                    NEW w \in Workers, pc'[w] = "writing"
             PROVE  reply'[row'[w]] \in {"drafting", "superseded", "rejected", "gone"}
  BY DEF WrittenRows
<1> USE DEF TypeOK
<1>a. \A v \in Workers : v = w
  BY DEF OneProcess
<1>b. ASSUME UNCHANGED <<pc, row>>
      PROVE  /\ row'[w] = row[w] /\ row[w] \in Rows
             /\ reply[row[w]] \in {"drafting", "superseded", "rejected", "gone"}
             /\ asked[row[w]] # "reply"
  BY <1>b DEF WrittenRows, KnownRows, Known
<1>1. CASE UNCHANGED <<pc, row, reply>>
  BY <1>1, <1>b
<1>2. ASSUME NEW j \in Jobs, Discover(j) \/ Rearm(j) \/ Lapse(j) \/ Bury(j)
      PROVE  UNCHANGED <<pc, row, reply>>
  BY <1>2 DEF Discover, Rearm, Lapse, Bury, thread, work
<1>3. ASSUME NEW j \in Jobs, NEW r \in Rows, QueueAsked(j, r)
      PROVE  UNCHANGED <<pc, row, reply>>
  BY <1>3 DEF QueueAsked, work
<1>4. ASSUME NEW r \in Rows, FailToQueue(r)
      PROVE  reply'[row'[w]] \in {"drafting", "superseded", "rejected", "gone"}
  BY <1>4, <1>b DEF FailToQueue, work
<1>5. ASSUME NEW r \in Rows, Desk(r)
      PROVE  reply'[row'[w]] \in {"drafting", "superseded", "rejected", "gone"}
  <2>1. UNCHANGED <<pc, row>>
    BY <1>5, DeskRows DEF work
  <2> QED
    BY <1>5, <1>b, <2>1, DeskRows
<1>6. ASSUME NEW v \in Workers, Renew(v)
      PROVE  UNCHANGED <<pc, row, reply>>
  BY <1>6 DEF Renew, thread, work
<1>7. ASSUME NEW v \in Workers, NEW terminal \in BOOLEAN,
             Crash(v) \/ GiveBack(v, terminal) \/ Finish(v)
      PROVE  FALSE
  <2>1. Rest(v) /\ v = w
    BY <1>7, <1>a DEF Crash, GiveBack, Finish
  <2> QED
    BY <2>1 DEF Rest
<1>8. ASSUME NEW v \in Workers, NEW j \in Jobs, Claim(v, j)
      PROVE  FALSE
  BY <1>8, <1>a DEF Claim
<1>9. ASSUME NEW v \in Workers, NEW movedOn \in BOOLEAN,
             \/ Trouble(v) \/ SkipStage(v) \/ Check(v) \/ LookForReply(v)
             \/ Finalize(v, movedOn) \/ MarkFailed(v)
      PROVE  FALSE
  BY <1>9, <1>a
  DEF Trouble, SkipStage, Check, LookForReply, Finalize, MarkFailed, Go
<1>10. ASSUME NEW v \in Workers, Resume(v)
       PROVE  reply'[row'[w]] \in {"drafting", "superseded", "rejected", "gone"}
  BY <1>10, <1>a DEF Resume, Resumable
<1>11. ASSUME NEW v \in Workers, Insert(v)
       PROVE  reply'[row'[w]] \in {"drafting", "superseded", "rejected", "gone"}
  BY <1>11, <1>a DEF Insert, Unborn
<1>12. ASSUME NEW written \in BOOLEAN, ManualReply(written)
       PROVE  reply'[row'[w]] \in {"drafting", "superseded", "rejected", "gone"}
  <2>1. UNCHANGED <<pc, row>>
    BY <1>12 DEF ManualReply, work
  <2> QED
    BY <1>12, <1>b, <2>1, ManualRows
<1>13. ASSUME NEW r \in Rows, NEW to \in ReplyStatuses, Handle(r, to)
       PROVE  reply'[row'[w]] \in {"drafting", "superseded", "rejected", "gone"}
  BY <1>13, <1>b DEF Handle, Approvable, work
<1>14. CASE UNCHANGED vars
  BY <1>14, <1>1 DEF vars, thread, work
<1> QED
  BY <1>1, <1>2, <1>3, <1>4, <1>5, <1>6, <1>7, <1>8, <1>9, <1>10, <1>11, <1>12, <1>13,
     <1>14
  DEF Next, Work

(* Only an insertion makes an automatic draft.                             *)
LEMMA AutomaticRows ==
  ASSUME TypeOK, KnownRows, [Next]_vars,
         NEW r \in Rows, r \in Stored', ~manual'[r], ~(r \in Stored /\ ~manual[r])
  PROVE  \E w \in Workers : Insert(w) /\ r \in Unborn
<1> USE DEF TypeOK, Stored
<1>1. ASSUME NEW j \in Jobs, NEW q \in Rows, QueueAsked(j, q)
      PROVE  FALSE
  BY <1>1 DEF QueueAsked
<1>2. ASSUME NEW q \in Rows, FailToQueue(q)
      PROVE  FALSE
  BY <1>2 DEF FailToQueue
<1>3. ASSUME NEW q \in Rows, Desk(q)
      PROVE  FALSE
  BY <1>3, DeskRows DEF KnownRows
<1>4. ASSUME NEW written \in BOOLEAN, ManualReply(written)
      PROVE  FALSE
  BY <1>4, ManualRows
<1>5. ASSUME NEW q \in Rows, NEW to \in ReplyStatuses, Handle(q, to)
      PROVE  FALSE
  BY <1>5 DEF Handle, Approvable
<1>6. ASSUME NEW w \in Workers, Resume(w)
      PROVE  FALSE
  BY <1>6 DEF Resume, Resumable
<1>7. ASSUME NEW w \in Workers, Insert(w)
      PROVE  r \in Unborn
  BY <1>7 DEF Insert
<1>8. ASSUME NEW w \in Workers, NEW movedOn \in BOOLEAN, Finalize(w, movedOn)
      PROVE  FALSE
  <2>1. reply[row[w]] # "none"
    BY <1>8, FinalizedRows, RowsAreNotNoRow DEF KnownRows, Known
  <2> QED
    BY <1>8, <2>1, FinalizedRows
<1>9. ASSUME NEW w \in Workers, MarkFailed(w)
      PROVE  FALSE
  BY <1>9 DEF MarkFailed
<1>10. CASE UNCHANGED thread
  BY <1>10 DEF thread
<1> QED
  BY <1>1, <1>2, <1>3, <1>4, <1>5, <1>6, <1>7, <1>8, <1>9, <1>10, RowSteps DEF RowStep

LEMMA OneUnborn == \A r, s \in Unborn : r = s
BY RowsAreNumbered DEF Unborn, Rows

LEMMA AutomaticStep ==
  TypeOK /\ KnownRows /\ InsertsFirst /\ OneAutomaticDraft /\ OneProcess /\ [Next]_vars
    => InsertsFirst' /\ OneAutomaticDraft'
<1> SUFFICES ASSUME TypeOK, KnownRows, InsertsFirst, OneAutomaticDraft, OneProcess,
                    [Next]_vars
             PROVE  InsertsFirst' /\ OneAutomaticDraft'
  OBVIOUS
<1> USE DEF TypeOK
<1>1. CASE \E w \in Workers : Insert(w)
  <2>1. PICK w \in Workers : Insert(w)
    BY <1>1
  <2>2. pc[w] = "inserting" /\ pc'[w] = "writing" /\ \A v \in Workers : v = w
    BY <2>1 DEF Insert, Go, OneProcess
  <2>3. \A r \in Stored : manual[r]
    BY <2>2 DEF InsertsFirst
  <2>4. \A r \in Rows : r \in Stored' /\ ~manual'[r] => r \in Unborn
    BY <2>3, AutomaticRows
  <2> QED
    BY <2>2, <2>4, OneUnborn DEF InsertsFirst, OneAutomaticDraft, Stored
<1>2. CASE ~ \E w \in Workers : Insert(w)
  <2>1. \A r \in Rows : r \in Stored' /\ ~manual'[r] => r \in Stored /\ ~manual[r]
    BY <1>2, AutomaticRows
  <2>2. OneAutomaticDraft'
    BY <2>1 DEF OneAutomaticDraft, Stored
  <2>3. ASSUME NEW w \in Workers, pc'[w] = "inserting", pc[w] # "inserting"
        PROVE  Stored = {}
    <3>1. ASSUME NEW j \in Jobs, Discover(j) \/ Rearm(j) \/ Lapse(j) \/ Bury(j)
          PROVE  FALSE
      BY <2>3, <3>1 DEF Discover, Rearm, Lapse, Bury, work
    <3>2. ASSUME NEW j \in Jobs, NEW r \in Rows, QueueAsked(j, r)
          PROVE  FALSE
      BY <2>3, <3>2 DEF QueueAsked, work
    <3>3. ASSUME NEW r \in Rows, FailToQueue(r) \/ Desk(r)
          PROVE  FALSE
      BY <2>3, <3>3, DeskRows DEF FailToQueue, work
    <3>4. ASSUME NEW v \in Workers, Renew(v)
          PROVE  FALSE
      BY <2>3, <3>4 DEF Renew, work
    <3>5. ASSUME NEW v \in Workers, NEW terminal \in BOOLEAN,
                 Crash(v) \/ GiveBack(v, terminal) \/ Finish(v)
          PROVE  FALSE
      BY <2>3, <3>5 DEF Crash, GiveBack, Finish, Rest
    <3>6. ASSUME NEW v \in Workers, NEW j \in Jobs, Claim(v, j)
          PROVE  FALSE
      BY <2>3, <3>6 DEF Claim
    <3>7. ASSUME NEW v \in Workers, NEW movedOn \in BOOLEAN,
                 \/ Trouble(v) \/ SkipStage(v) \/ Check(v) \/ Resume(v)
                 \/ Finalize(v, movedOn) \/ MarkFailed(v)
          PROVE  FALSE
      BY <2>3, <3>7 DEF Trouble, SkipStage, Check, Resume, Finalize, MarkFailed, Go
    <3>8. ASSUME NEW v \in Workers, LookForReply(v)
          PROVE  Stored = {}
      BY <2>3, <3>8 DEF LookForReply, Go, Fresh
    <3>9. ASSUME NEW written \in BOOLEAN, ManualReply(written)
          PROVE  FALSE
      BY <2>3, <3>9 DEF ManualReply, work
    <3>10. ASSUME NEW r \in Rows, NEW to \in ReplyStatuses, Handle(r, to)
           PROVE  FALSE
      BY <2>3, <3>10 DEF Handle, work
    <3>11. CASE UNCHANGED vars
      BY <2>3, <3>11 DEF vars, work
    <3> QED
      BY <1>2, <3>1, <3>2, <3>3, <3>4, <3>5, <3>6, <3>7, <3>8, <3>9, <3>10, <3>11
      DEF Next, Work
  <2>4. InsertsFirst'
    BY <2>1, <2>3 DEF InsertsFirst, Stored
  <2> QED
    BY <2>2, <2>4
<1> QED
  BY <1>1, <1>2

(* What is settled is only touched by a sender, a person or the sweep, and *)
(* only those who read the row before take it back.                        *)
LEMMA SettledStep ==
  ASSUME TypeOK, WrittenRows, [Next]_vars,
         NEW r \in Rows, reply[r] \in {"approved", "sent"}
  PROVE  \/ reply'[r] \in {"approved", "sent", "send_failed", "superseded", "gone"}
         \/ decided[r] = "redraft" /\ reply'[r] = "drafting"
         \/ decided[r] = "clear" /\ reply'[r] = "rejected"
<1> USE DEF TypeOK
<1> DEFINE Settled ==
      \/ reply'[r] \in {"approved", "sent", "send_failed", "superseded", "gone"}
      \/ decided[r] = "redraft" /\ reply'[r] = "drafting"
      \/ decided[r] = "clear" /\ reply'[r] = "rejected"
<1>1. ASSUME NEW j \in Jobs, NEW q \in Rows, QueueAsked(j, q)
      PROVE  Settled
  BY <1>1 DEF QueueAsked
<1>2. ASSUME NEW q \in Rows, FailToQueue(q)
      PROVE  Settled
  BY <1>2 DEF FailToQueue
<1>3. ASSUME NEW q \in Rows, Desk(q)
      PROVE  Settled
  BY <1>3, DeskRows
<1>4. ASSUME NEW written \in BOOLEAN, ManualReply(written)
      PROVE  Settled
  BY <1>4, ManualRows
<1>5. ASSUME NEW q \in Rows, NEW to \in ReplyStatuses, Handle(q, to)
      PROVE  Settled
  BY <1>5 DEF Handle, Approvable
<1>6. ASSUME NEW w \in Workers, Resume(w)
      PROVE  Settled
  BY <1>6 DEF Resume, Resumable
<1>7. ASSUME NEW w \in Workers, Insert(w)
      PROVE  Settled
  BY <1>7 DEF Insert, Unborn
<1>8. ASSUME NEW w \in Workers, NEW movedOn \in BOOLEAN, Finalize(w, movedOn)
      PROVE  Settled
  <2>1. row[w] # r
    BY <1>8 DEF Finalize, Go, WrittenRows
  <2> QED
    BY <1>8, <2>1, FinalizedRows
<1>9. ASSUME NEW w \in Workers, MarkFailed(w)
      PROVE  Settled
  BY <1>9 DEF MarkFailed
<1>10. CASE UNCHANGED thread
  BY <1>10 DEF thread
<1> HIDE DEF Settled
<1>11. Settled
  BY <1>1, <1>2, <1>3, <1>4, <1>5, <1>6, <1>7, <1>8, <1>9, <1>10, RowSteps DEF RowStep, Settled
<1> QED
  BY <1>11 DEF Settled

LEMMA InvariantStart == Init => IInv
BY TypesStart
DEF Init, IInv, FirmHolders, KnownRows, Known, WrittenRows, InsertsFirst,
    OneAutomaticDraft, Stored, Busy

(* With one process: types, ownership, references, the row being written   *)
(* and the single automatic draft, together.                               *)
THEOREM QueueInvariance == ASSUME OneProcess PROVE Spec => []IInv
<1>1. IInv /\ [Next]_vars => IInv'
  BY TypesStep, HoldersStep, KnownStep, WrittenStep, AutomaticStep DEF IInv
<1> QED
  BY <1>1, InvariantStart, PTL DEF Spec

(* A single process writes one automatic draft for a ticket, however often *)
(* the ticket is announced, retried or armed again (_persist_placeholder). *)
THEOREM OneDraftEach == ASSUME OneProcess PROVE Spec => []OneAutomaticDraft
<1>1. IInv => OneAutomaticDraft
  BY DEF IInv
<1> QED
  BY <1>1, QueueInvariance, PTL

(* In a single process nothing but a person who read the row before, to    *)
(* have it written again or to clear it away, takes back an approved or    *)
(* sent reply: no job does, however late (_finalize_draft).                *)
THEOREM SettledRowsStay == ASSUME OneProcess PROVE Spec => SettledStays
<1>1. IInv /\ [Next]_vars =>
        [\A r \in Rows : reply[r] \in {"approved", "sent"} =>
           \/ reply'[r] \in {"approved", "sent", "send_failed", "superseded", "gone"}
           \/ decided[r] = "redraft" /\ reply'[r] = "drafting"
           \/ decided[r] = "clear" /\ reply'[r] = "rejected"]_vars
  BY SettledStep DEF IInv
<1> QED
  BY <1>1, QueueInvariance, PTL DEF Spec, SettledStays
=============================================================================
