------------------------- MODULE PostSendSyncProofs -------------------------
(***************************************************************************)
(* What PostSendSync guarantees for any number of messages: the types and  *)
(* the bound on the attempts for any number of processes; for one process, *)
(* that a delivery is logged once, that retries repeat only what failed,   *)
(* and that what is not complete is listed.                                *)
(***************************************************************************)
EXTENDS PostSendSync, TLAPS

OneProcess == \A v, w \in Workers : v = w

(* Attempts belong to delivered rows, and so do runs.                      *)
Delivered == {"sent", "test_sent"}

Tallied ==
  /\ \A m \in Messages : status[m] \notin Delivered => attempts[m] = 0
  /\ \A w \in Workers : Running(w) => status[run[w].of] \in Delivered

-----------------------------------------------------------------------------
(* Starting and ending a run                                               *)

LEMMA BeginsTyped ==
  ASSUME TypeOK, NEW w \in Workers, NEW m \in Messages, NEW at, NEW moved,
         attempts[m] < MaxAttempts, Begin(w, m, at, moved)
  PROVE  /\ run' \in [Workers -> Runs]
         /\ \A v \in Workers : run'[v].attempts < MaxAttempts
         /\ run'[w].of = m
         /\ run'[w].attempts = attempts[m]
         /\ run'[w].read = error[m]
         /\ run'[w].todo = {s \in StepNames : Due(m, s, at, moved)}
         /\ run'[w].failed = {}
         /\ \A v \in Workers \ {w} : run'[v] = run[v]
<1> DEFINE r == [of |-> m, attempts |-> attempts[m], read |-> error[m],
                 todo |-> {s \in StepNames : Due(m, s, at, moved)},
                 failed |-> {}, hopeless |-> {}]
<1>1. run' = [run EXCEPT ![w] = r]
  BY DEF Begin
<1>2. attempts[m] \in 0..MaxAttempts /\ error[m] \in SUBSET (StepNames \cup Marks)
  BY DEF TypeOK
<1>3. /\ r \in Runs
      /\ r.of = m /\ r.attempts = attempts[m] /\ r.read = error[m]
      /\ r.todo = {s \in StepNames : Due(m, s, at, moved)}
      /\ r.failed = {}
  BY <1>2 DEF Runs
<1> HIDE DEF r
<1> QED
  BY <1>1, <1>3 DEF TypeOK

LEMMA EndsTyped ==
  ASSUME TypeOK, NEW w \in Workers, run' = [run EXCEPT ![w] = NoRun]
  PROVE  /\ run' \in [Workers -> Runs]
         /\ \A v \in Workers : run'[v].attempts < MaxAttempts
         /\ run'[w].of = NoMessage
         /\ \A v \in Workers \ {w} : run'[v] = run[v]
<1>1. NoRun \in Runs /\ NoRun.attempts < MaxAttempts /\ NoRun.of = NoMessage
  BY SeveralAttempts DEF NoRun, Runs
<1> QED
  BY <1>1 DEF TypeOK

LEMMA PerformsTyped ==
  ASSUME TypeOK, NEW w \in Workers, NEW s \in StepNames,
         NEW outcome \in {"done", "failed", "hopeless"}, Perform(w, s, outcome)
  PROVE  /\ run' \in [Workers -> Runs]
         /\ \A v \in Workers : run'[v].of = run[v].of
         /\ \A v \in Workers : run'[v].attempts = run[v].attempts
         /\ \A v \in Workers : run'[v].read = run[v].read
         /\ \A v \in Workers : run'[v].todo \subseteq run[v].todo
<1>1. run \in [Workers -> Runs]
  BY DEF TypeOK
<1>2. ASSUME NEW r \in Runs
      PROVE  LET q == After(r, s, outcome) IN
             /\ q \in Runs
             /\ q.of = r.of /\ q.attempts = r.attempts /\ q.read = r.read
             /\ q.todo \subseteq r.todo
  <2>1. CASE outcome = "done"
    BY <2>1 DEF After, Runs
  <2>2. CASE outcome = "failed"
    BY <2>2 DEF After, Runs
  <2>3. CASE outcome = "hopeless"
    BY <2>3 DEF After, Runs
  <2> QED
    BY <2>1, <2>2, <2>3
<1>3. run' = [run EXCEPT ![w] = After(run[w], s, outcome)]
  BY DEF Perform
<1> QED
  BY <1>1, <1>2, <1>3

(* The row a run is about, and what it writes.                             *)
LEMMA RunsTyped ==
  ASSUME TypeOK, NEW w \in Workers, Running(w)
  PROVE  /\ run[w].of \in Messages
         /\ run[w].attempts \in 0..MaxAttempts
         /\ run[w].attempts < MaxAttempts
         /\ AttemptsAfter(run[w]) \in 1..MaxAttempts
         /\ run[w].failed \subseteq StepNames
         /\ run[w].read \subseteq StepNames \cup Marks
BY SeveralAttempts DEF TypeOK, Running, Runs, AttemptsAfter

-----------------------------------------------------------------------------
(* Any number of processes                                                 *)

LEMMA TypesStart == Init => TypeOK /\ Tallied
<1> SUFFICES ASSUME Init PROVE TypeOK /\ Tallied
  OBVIOUS
<1>1. NoRun \in Runs /\ NoRun.attempts < MaxAttempts
  BY SeveralAttempts DEF NoRun, Runs
<1>2. TypeOK
  BY <1>1, SeveralAttempts, AsksAreBounded DEF Init, TypeOK, Statuses
<1>3. Tallied
  BY DEF Init, Tallied, Running, NoRun, Delivered
<1> QED
  BY <1>2, <1>3

LEMMA TypesStep == TypeOK /\ Tallied /\ [Next]_vars => TypeOK' /\ Tallied'
<1> SUFFICES ASSUME TypeOK, Tallied, [Next]_vars PROVE TypeOK' /\ Tallied'
  OBVIOUS
<1> USE DEF Delivered
<1>0. Advanced \in Stages
  BY DEF TypeOK, Advanced, Stages
<1>1. ASSUME NEW w \in Workers, NEW m \in Messages, NEW delivered \in BOOLEAN,
             Deliver(w, m, delivered)
      PROVE  TypeOK' /\ Tallied'
  <2>1. attempts[m] = 0 /\ attempts[m] < MaxAttempts
    BY <1>1, SeveralAttempts DEF Deliver, Tallied
  <2>2. Begin(w, m, Advanced, Advanced # stage)
    BY <1>1 DEF Deliver
  <2>3. TypeOK'
    BY <1>0, <1>1, <2>1, <2>2, BeginsTyped DEF TypeOK, Deliver, Statuses
  <2>4. Tallied'
    BY <1>1, <2>1, <2>2, BeginsTyped DEF TypeOK, Tallied, Running, Deliver
  <2> QED
    BY <2>3, <2>4
<1>2. ASSUME NEW w \in Workers, NEW m \in Messages, Retry(w, m)
      PROVE  TypeOK' /\ Tallied'
  <2>1. attempts[m] < MaxAttempts /\ status[m] = "sent"
    BY <1>2 DEF Retry, Retryable
  <2>2. Begin(w, m, stage, TRUE)
    BY <1>2 DEF Retry
  <2>3. TypeOK'
    BY <1>2, <2>1, <2>2, BeginsTyped DEF TypeOK, Retry, row
  <2>4. Tallied'
    <3>1. UNCHANGED <<status, attempts>>
      BY <1>2 DEF Retry, row
    <3>2. run'[w].of = m /\ \A v \in Workers \ {w} : run'[v] = run[v]
      BY <2>1, <2>2, BeginsTyped
    <3> QED
      BY <2>1, <3>1, <3>2 DEF Tallied, Running
  <2> QED
    BY <2>3, <2>4
<1>3. ASSUME NEW w \in Workers, NEW s \in StepNames,
             NEW outcome \in {"done", "failed", "hopeless"}, Perform(w, s, outcome)
      PROVE  TypeOK' /\ Tallied'
  <2>1. TypeOK'
    BY <1>3, PerformsTyped DEF TypeOK, Perform, row
  <2>2. Tallied'
    BY <1>3, PerformsTyped DEF Tallied, Running, Perform, row
  <2> QED
    BY <2>1, <2>2
<1>4. ASSUME NEW w \in Workers, Record(w)
      PROVE  TypeOK' /\ Tallied'
  <2>1. Running(w) /\ run' = [run EXCEPT ![w] = NoRun]
    BY <1>4 DEF Record
  <2>2. status[run[w].of] \in Delivered
    BY <2>1 DEF Tallied
  <2>3. attempts' \in [Messages -> 0..MaxAttempts]
    BY <1>4, <2>1, RunsTyped, SeveralAttempts DEF TypeOK, Record
  <2>4. error' \in [Messages -> SUBSET (StepNames \cup Marks)]
    BY <1>4, <2>1, RunsTyped DEF TypeOK, Record, Named
  <2>10. synced' \in [Messages -> BOOLEAN]
    <3>1. CASE run[w].failed = {}
      BY <1>4, <3>1 DEF TypeOK, Record
    <3>2. CASE run[w].failed # {}
      BY <1>4, <3>2 DEF TypeOK, Record
    <3> QED
      BY <3>1, <3>2
  <2>5. lines' \in [Messages -> 0..2]
    <3>1. CASE run[w].attempts # 0
      BY <1>4, <3>1 DEF TypeOK, Record
    <3>2. CASE run[w].attempts = 0 /\ lines[run[w].of] = 0
      BY <1>4, <2>1, <3>2, RunsTyped DEF TypeOK, Record
    <3>3. CASE run[w].attempts = 0 /\ lines[run[w].of] # 0
      BY <1>4, <2>1, <3>3, RunsTyped DEF TypeOK, Record
    <3> QED
      BY <3>1, <3>2, <3>3
  <2>6. done' \in [Messages -> SUBSET StepNames]
    BY <1>4, <2>1, RunsTyped DEF TypeOK, Record
  <2>7. TypeOK'
    BY <1>4, <2>1, <2>3, <2>4, <2>10, <2>5, <2>6, EndsTyped DEF TypeOK, Record
  <2>8. \A m \in Messages \ {run[w].of} : attempts'[m] = attempts[m]
    BY <1>4 DEF Record, TypeOK
  <2>9. Tallied'
    BY <1>4, <2>1, <2>2, <2>8, EndsTyped DEF TypeOK, Tallied, Running, Record
  <2> QED
    BY <2>7, <2>9
<1>5. ASSUME NEW w \in Workers, Abandon(w)
      PROVE  TypeOK' /\ Tallied'
  BY <1>5, EndsTyped DEF TypeOK, Tallied, Running, Abandon, row
<1>6. ASSUME NEW m \in Messages, Quarantine(m)
      PROVE  TypeOK' /\ Tallied'
  BY <1>6 DEF TypeOK, Statuses, Tallied, Running, Quarantine
<1>11. ASSUME NEW m \in Messages, ConfirmNotSent(m)
      PROVE  TypeOK' /\ Tallied'
  BY <1>11 DEF TypeOK, Statuses, Tallied, Running, ConfirmNotSent
<1>10. ASSUME NEW m \in Messages, ConfirmSent(m)
      PROVE  TypeOK' /\ Tallied'
  <2>1. TypeOK'
    BY <1>0, <1>10, SeveralAttempts DEF TypeOK, Statuses, Marks, ConfirmSent
  <2>2. Tallied'
    BY <1>10 DEF TypeOK, Tallied, Running, ConfirmSent
  <2> QED
    BY <2>1, <2>2
<1>7. ASSUME NEW m \in Messages, RetrySync(m)
      PROVE  TypeOK' /\ Tallied'
  BY <1>7, SeveralAttempts, AsksAreBounded
  DEF TypeOK, Tallied, Running, RetrySync, AttemptsWhenAsked, Marks
<1>8. ASSUME NEW to \in Stages, MoveStage(to)
      PROVE  TypeOK' /\ Tallied'
  BY <1>8 DEF TypeOK, Tallied, Running, MoveStage, row
<1>9. CASE UNCHANGED vars
  BY <1>9 DEF TypeOK, Tallied, Running, vars, row
<1> QED
  BY <1>1, <1>2, <1>3, <1>4, <1>5, <1>6, <1>10, <1>11, <1>7, <1>8, <1>9 DEF Next, Call

(* Every variable keeps its type and no row is tried more than MaxAttempts *)
(* times, however many processes overlap (_retry_post_send_syncs).         *)
THEOREM SyncTyped == Spec => []TypeOK
<1>1. Init => TypeOK /\ Tallied
  BY TypesStart
<1>2. TypeOK /\ Tallied /\ [Next]_vars => (TypeOK /\ Tallied)'
  BY TypesStep
<1> QED
  BY <1>1, <1>2, PTL DEF Spec

-----------------------------------------------------------------------------
(* One process                                                             *)

(* The part of IInv that is about what a run wrote and read.               *)
Current ==
  /\ LineAtMostOnce
  /\ UndeliveredRows
  /\ RunsAreCurrent
  /\ FirstIsFirst
  /\ FailedIsNotDone
  /\ NothingIsRepeated
  /\ UnfinishedIsListed

LEMMA CurrentStart == Init => Current
BY DEF Init, Current, LineAtMostOnce, UndeliveredRows, RunsAreCurrent, FirstIsFirst,
       FailedIsNotDone, NothingIsRepeated, UnfinishedIsListed, Asked, Running, NoRun

(* A run that begins owes nothing that is done.                            *)
LEMMA BeginsCurrent ==
  ASSUME TypeOK, Current, OneProcess,
         NEW w \in Workers, NEW m \in Messages, NEW at, NEW moved,
         attempts[m] < MaxAttempts, ~synced[m], Begin(w, m, at, moved),
         UNCHANGED <<attempts, error, synced, lines, asks, done>>,
         status'[m] \in Delivered
  PROVE  RunsAreCurrent' /\ NothingIsRepeated'
<1>1. /\ run'[w].of = m
      /\ run'[w].attempts = attempts[m]
      /\ run'[w].read = error[m]
      /\ run'[w].todo = {s \in StepNames : Due(m, s, at, moved)}
  BY BeginsTyped
<1>2. \A v \in Workers : v = w
  BY DEF OneProcess
<1>3. RunsAreCurrent'
  BY <1>1, <1>2 DEF RunsAreCurrent, Running, Asked, Current, FirstIsFirst, Delivered
<1>4. run'[w].todo \cap done[m] = {}
  <2>1. CASE attempts[m] = 0
    BY <1>1, <2>1 DEF Current, FirstIsFirst
  <2>2. CASE Asked(m)
    BY <1>1, <2>2 DEF Current, FailedIsNotDone
  <2>3. CASE attempts[m] # 0 /\ ~Asked(m)
    <3>1. run'[w].todo \subseteq error[m]
      BY <1>1, <2>3 DEF Due
    <3> QED
      BY <2>3, <3>1 DEF Current, FailedIsNotDone
  <2> QED
    BY <2>1, <2>2, <2>3
<1> QED
  BY <1>1, <1>2, <1>3, <1>4 DEF NothingIsRepeated, Running

LEMMA RecordsCurrent ==
  ASSUME TypeOK, Tallied, Current, OneProcess, NEW w \in Workers, Record(w)
  PROVE  Current'
<1> DEFINE m == run[w].of
           failed == run[w].failed
<1>1. /\ Running(w)
      /\ m \in Messages
      /\ AttemptsAfter(run[w]) \in 1..MaxAttempts
      /\ failed \subseteq StepNames
  BY RunsTyped DEF Record
<1>2. /\ status' = status
      /\ attempts' = [attempts EXCEPT ![m] = AttemptsAfter(run[w])]
      /\ error' = [error EXCEPT ![m] = IF failed = run[w].read THEN error[m] ELSE failed]
      /\ synced' = [synced EXCEPT ![m] = IF failed = {} THEN TRUE ELSE synced[m]]
      /\ lines' = [lines EXCEPT ![m] =
           IF run[w].attempts # 0 THEN lines[m] ELSE IF lines[m] = 0 THEN 1 ELSE 2]
      /\ done' = [done EXCEPT ![m] =
           IF "operator_retry" \in error'[m] THEN {} ELSE StepNames \ failed]
  BY DEF Record, Named
<1>3. /\ \A n \in Messages \ {m} :
            /\ attempts'[n] = attempts[n] /\ error'[n] = error[n]
            /\ synced'[n] = synced[n] /\ lines'[n] = lines[n] /\ done'[n] = done[n]
      /\ attempts'[m] = AttemptsAfter(run[w]) /\ attempts'[m] # 0
      /\ error'[m] = (IF failed = run[w].read THEN error[m] ELSE failed)
      /\ synced'[m] = (IF failed = {} THEN TRUE ELSE synced[m])
      /\ done'[m] = (IF "operator_retry" \in error'[m] THEN {} ELSE StepNames \ failed)
  <2> USE <1>1, <1>2 DEF TypeOK
  <2> HIDE DEF m, failed
  <2>1. \A n \in Messages \ {m} :
          /\ attempts'[n] = attempts[n] /\ error'[n] = error[n]
          /\ synced'[n] = synced[n] /\ lines'[n] = lines[n] /\ done'[n] = done[n]
    OBVIOUS
  <2>2. attempts'[m] = AttemptsAfter(run[w]) /\ attempts'[m] # 0
    OBVIOUS
  <2>3. error'[m] = (IF failed = run[w].read THEN error[m] ELSE failed)
    OBVIOUS
  <2>4. synced'[m] = (IF failed = {} THEN TRUE ELSE synced[m])
    BY ZenonT(30)
  <2>5. done'[m] = (IF "operator_retry" \in error'[m] THEN {} ELSE StepNames \ failed)
    OBVIOUS
  <2> QED
    BY <2>1, <2>2, <2>3, <2>4, <2>5
<1>4. lines'[m] <= 1
  BY <1>1, <1>2 DEF TypeOK, Current, LineAtMostOnce, RunsAreCurrent
<1>5. Asked(m) \/ error[m] = run[w].read
  BY <1>1 DEF Current, RunsAreCurrent
<1>6. status[m] \in Delivered
  BY <1>1 DEF Tallied
<1>7. \A v \in Workers : ~Running(v)'
  BY EndsTyped DEF Record, OneProcess, Running
<1>8. "operator_retry" \notin StepNames
  BY DEF StepNames, Order
<1> HIDE DEF m, failed
<1>9. LineAtMostOnce'
  BY <1>3, <1>4 DEF Current, LineAtMostOnce
<1>10. UndeliveredRows'
  BY <1>2, <1>3, <1>6 DEF Current, UndeliveredRows, Delivered
<1>11. RunsAreCurrent' /\ NothingIsRepeated'
  BY <1>7 DEF RunsAreCurrent, NothingIsRepeated
<1>12. FirstIsFirst'
  BY <1>3 DEF Current, FirstIsFirst
<1>13. FailedIsNotDone'
  BY <1>1, <1>3, <1>5, <1>8 DEF Current, FailedIsNotDone, Asked
<1>14. UnfinishedIsListed'
  BY <1>2, <1>3, <1>5 DEF Current, UnfinishedIsListed, Asked, TypeOK
<1> QED
  BY <1>9, <1>10, <1>11, <1>12, <1>13, <1>14 DEF Current

LEMMA CurrentStep ==
  TypeOK /\ Tallied /\ Current /\ OneProcess /\ [Next]_vars => Current'
<1> SUFFICES ASSUME TypeOK, Tallied, Current, OneProcess, [Next]_vars
             PROVE  Current'
  OBVIOUS
<1> USE DEF Delivered
<1>1. ASSUME NEW w \in Workers, NEW m \in Messages, NEW delivered \in BOOLEAN,
             Deliver(w, m, delivered)
      PROVE  Current'
  <2>1. attempts[m] = 0 /\ attempts[m] < MaxAttempts /\ ~synced[m]
    BY <1>1, SeveralAttempts DEF Deliver, Current, UndeliveredRows
  <2>2. /\ Begin(w, m, Advanced, Advanced # stage)
        /\ UNCHANGED <<attempts, error, synced, lines, asks, done>>
        /\ status'[m] \in Delivered
    BY <1>1 DEF Deliver, TypeOK
  <2>3. RunsAreCurrent' /\ NothingIsRepeated'
    BY <2>1, <2>2, BeginsCurrent
  <2> QED
    BY <1>1, <2>1, <2>3
    DEF Deliver, TypeOK, Current, LineAtMostOnce, UndeliveredRows, FirstIsFirst,
        FailedIsNotDone, UnfinishedIsListed, Asked
<1>2. ASSUME NEW w \in Workers, NEW m \in Messages, Retry(w, m)
      PROVE  Current'
  <2>1. attempts[m] < MaxAttempts /\ ~synced[m] /\ status[m] = "sent"
    BY <1>2 DEF Retry, Retryable
  <2>2. /\ Begin(w, m, stage, TRUE)
        /\ UNCHANGED <<status, attempts, error, synced, lines, asks, done>>
    BY <1>2 DEF Retry, row
  <2>3. RunsAreCurrent' /\ NothingIsRepeated'
    BY <2>1, <2>2, BeginsCurrent
  <2> QED
    BY <2>2, <2>3
    DEF Current, LineAtMostOnce, UndeliveredRows, FirstIsFirst,
        FailedIsNotDone, UnfinishedIsListed, Asked
<1>3. ASSUME NEW w \in Workers, NEW s \in StepNames,
             NEW outcome \in {"done", "failed", "hopeless"}, Perform(w, s, outcome)
      PROVE  Current'
  <2>1. UNCHANGED <<status, attempts, error, synced, lines, asks, done>>
    BY <1>3 DEF Perform, row
  <2>2. RunsAreCurrent' /\ NothingIsRepeated'
    BY <1>3, <2>1, PerformsTyped
    DEF Current, RunsAreCurrent, NothingIsRepeated, Running, Asked
  <2> QED
    BY <2>1, <2>2
    DEF Current, LineAtMostOnce, UndeliveredRows, FirstIsFirst,
        FailedIsNotDone, UnfinishedIsListed, Asked
<1>4. ASSUME NEW w \in Workers, Record(w)
      PROVE  Current'
  BY <1>4, RecordsCurrent
<1>5. ASSUME NEW w \in Workers, Abandon(w)
      PROVE  Current'
  <2>1. UNCHANGED <<status, attempts, error, synced, lines, asks, done>>
    BY <1>5 DEF Abandon, row
  <2>2. RunsAreCurrent' /\ NothingIsRepeated'
    BY <1>5, EndsTyped
    DEF Abandon, OneProcess, RunsAreCurrent, NothingIsRepeated, Running
  <2> QED
    BY <2>1, <2>2
    DEF Current, LineAtMostOnce, UndeliveredRows, FirstIsFirst,
        FailedIsNotDone, UnfinishedIsListed, Asked
<1>6. ASSUME NEW m \in Messages, Quarantine(m) \/ ConfirmNotSent(m)
      PROVE  Current'
  <2>1. /\ UNCHANGED <<attempts, error, synced, lines, run, asks, done>>
        /\ status[m] \notin Delivered /\ status'[m] \notin Delivered
        /\ \A n \in Messages \ {m} : status'[n] = status[n]
    BY <1>6 DEF Quarantine, ConfirmNotSent, TypeOK
  <2>2. UndeliveredRows'
    BY <1>6, <2>1 DEF Current, UndeliveredRows, Quarantine, ConfirmNotSent, TypeOK
  <2>3. \A w \in Workers : Running(w) => run[w].of \in Messages \ {m}
    BY <2>1, RunsTyped DEF Tallied
  <2>4. RunsAreCurrent'
    BY <2>1, <2>3 DEF Current, RunsAreCurrent, Running, Asked
  <2> QED
    BY <2>1, <2>2, <2>4
    DEF Current, LineAtMostOnce, FirstIsFirst, FailedIsNotDone, NothingIsRepeated,
        UnfinishedIsListed, Asked, Running
<1>7. ASSUME NEW m \in Messages, ConfirmSent(m)
      PROVE  Current'
  <2>1. lines[m] = 0 /\ done[m] = {} /\ status[m] \notin Delivered
    BY <1>7 DEF ConfirmSent, Current, UndeliveredRows
  <2>2. \A w \in Workers : Running(w) => run[w].of # m
    BY <2>1 DEF Tallied
  <2>3. RunsAreCurrent'
    BY <1>7, <2>2 DEF ConfirmSent, TypeOK, Current, RunsAreCurrent, Running, Asked
  <2>4. FailedIsNotDone'
    BY <1>7, <2>1 DEF ConfirmSent, TypeOK, Current, FailedIsNotDone, Asked
  <2> QED
    BY <1>7, <2>1, <2>3, <2>4
    DEF ConfirmSent, TypeOK, Current, LineAtMostOnce, UndeliveredRows, FirstIsFirst,
        NothingIsRepeated, UnfinishedIsListed, Running
<1>8. ASSUME NEW m \in Messages, RetrySync(m)
      PROVE  Current'
  <2>1. RunsAreCurrent'
    BY <1>8
    DEF RetrySync, AttemptsWhenAsked, TypeOK, Current, RunsAreCurrent, Running, Asked
  <2>2. FailedIsNotDone' /\ NothingIsRepeated'
    BY <1>8
    DEF RetrySync, TypeOK, Current, FailedIsNotDone, NothingIsRepeated, Running, Asked
  <2>3. UndeliveredRows' /\ FirstIsFirst'
    BY <1>8
    DEF RetrySync, AttemptsWhenAsked, TypeOK, Current, UndeliveredRows, FirstIsFirst
  <2>4. UnfinishedIsListed'
    BY <1>8 DEF RetrySync, AttemptsWhenAsked, TypeOK, Current, UnfinishedIsListed
  <2> QED
    BY <1>8, <2>1, <2>2, <2>3, <2>4 DEF RetrySync, Current, LineAtMostOnce
<1>9. ASSUME NEW to \in Stages, MoveStage(to)
      PROVE  Current'
  BY <1>9
  DEF MoveStage, row, Current, LineAtMostOnce, UndeliveredRows, RunsAreCurrent,
      FirstIsFirst, FailedIsNotDone, NothingIsRepeated, UnfinishedIsListed, Asked, Running
<1>10. CASE UNCHANGED vars
  BY <1>10
  DEF vars, row, Current, LineAtMostOnce, UndeliveredRows, RunsAreCurrent,
      FirstIsFirst, FailedIsNotDone, NothingIsRepeated, UnfinishedIsListed, Asked, Running
<1> QED
  BY <1>1, <1>2, <1>3, <1>4, <1>5, <1>6, <1>7, <1>8, <1>9, <1>10 DEF Next, Call

(* With one process the invariant of the runs holds for any number of      *)
(* deliveries: one progress line each, no recorded step repeated without   *)
(* being asked, nothing given up in silence (_post_send_bookkeeping).      *)
THEOREM SyncInvariance == ASSUME OneProcess PROVE Spec => []IInv
<1>1. Init => TypeOK /\ Tallied /\ Current
  BY TypesStart, CurrentStart
<1>2. TypeOK /\ Tallied /\ Current /\ [Next]_vars => (TypeOK /\ Tallied /\ Current)'
  BY TypesStep, CurrentStep
<1>3. TypeOK /\ Current => IInv
  BY DEF IInv, Current
<1> QED
  BY <1>1, <1>2, <1>3, PTL DEF Spec

(* The progress log gets one line per delivery, through crashes, repeated  *)
(* first runs and the operator's retries ("never written twice either").   *)
THEOREM OneLineEach == ASSUME OneProcess PROVE Spec => []LineAtMostOnce
<1>1. IInv => LineAtMostOnce
  BY DEF IInv
<1> QED
  BY <1>1, SyncInvariance, PTL

(* A retry touches only what the last recorded run left with an error.     *)
THEOREM RetriesRepeatNothing == ASSUME OneProcess PROVE Spec => []NothingIsRepeated
<1>1. IInv => NothingIsRepeated
  BY DEF IInv
<1> QED
  BY <1>1, SyncInvariance, PTL

-----------------------------------------------------------------------------
(* Nothing is given up in silence, for any number of processes             *)

(* A row without an error and without a result is one whose bookkeeping    *)
(* was never recorded, and so no run of it has read an error: what a run   *)
(* finds unchanged is never an empty error over a step that failed.        *)
SilentRowsAreNew ==
  \A m \in Messages : error[m] = {} /\ ~synced[m] =>
    /\ attempts[m] = 0
    /\ \A w \in Workers : run[w].of = m => run[w].read = {}

LEMMA SilentIsUnrecorded == SilentRowsAreNew => UnfinishedIsListed
BY DEF SilentRowsAreNew, UnfinishedIsListed

LEMMA SilentStart == Init => SilentRowsAreNew
BY DEF Init, SilentRowsAreNew, NoRun

LEMMA SilentStep ==
  TypeOK /\ Tallied /\ SilentRowsAreNew /\ [Next]_vars => SilentRowsAreNew'
<1> SUFFICES ASSUME TypeOK, Tallied, SilentRowsAreNew, [Next]_vars
             PROVE  SilentRowsAreNew'
  OBVIOUS
<1> USE DEF Delivered
<1>1. ASSUME NEW w \in Workers, NEW m \in Messages, NEW delivered \in BOOLEAN,
             Deliver(w, m, delivered)
      PROVE  SilentRowsAreNew'
  <2>1. attempts[m] < MaxAttempts
    BY <1>1, SeveralAttempts DEF Deliver, Tallied
  <2>2. /\ run'[w].of = m /\ run'[w].read = error[m]
        /\ \A v \in Workers \ {w} : run'[v] = run[v]
    BY <1>1, <2>1, BeginsTyped DEF Deliver
  <2> QED
    BY <1>1, <2>2 DEF Deliver, SilentRowsAreNew
<1>2. ASSUME NEW w \in Workers, NEW m \in Messages, Retry(w, m)
      PROVE  SilentRowsAreNew'
  <2>1. attempts[m] < MaxAttempts
    BY <1>2 DEF Retry, Retryable
  <2>2. /\ run'[w].of = m /\ run'[w].read = error[m]
        /\ \A v \in Workers \ {w} : run'[v] = run[v]
    BY <1>2, <2>1, BeginsTyped DEF Retry
  <2> QED
    BY <1>2, <2>2 DEF Retry, row, SilentRowsAreNew
<1>3. ASSUME NEW w \in Workers, NEW s \in StepNames,
             NEW outcome \in {"done", "failed", "hopeless"}, Perform(w, s, outcome)
      PROVE  SilentRowsAreNew'
  BY <1>3, PerformsTyped DEF Perform, row, SilentRowsAreNew
<1>4. ASSUME NEW w \in Workers, Record(w)
      PROVE  SilentRowsAreNew'
  <2> DEFINE m == run[w].of
             failed == run[w].failed
  <2>1. Running(w) /\ m \in Messages
    BY <1>4, RunsTyped DEF Record
  <2>2. /\ \A n \in Messages \ {m} :
             attempts'[n] = attempts[n] /\ error'[n] = error[n] /\ synced'[n] = synced[n]
        /\ error'[m] = (IF failed = run[w].read THEN error[m] ELSE failed)
    BY <1>4, <2>1 DEF Record, Named, TypeOK
  <2>3. synced'[m] = (IF failed = {} THEN TRUE ELSE synced[m])
    <3>1. synced' = [synced EXCEPT ![m] = IF failed = {} THEN TRUE ELSE synced[m]]
      BY <1>4 DEF Record
    <3>2. synced \in [Messages -> BOOLEAN]
      BY DEF TypeOK
    <3> HIDE DEF m, failed
    <3> QED
      BY <2>1, <3>1, <3>2, ZenonT(30)
  <2>4. run'[w].of = NoMessage /\ \A v \in Workers \ {w} : run'[v] = run[v]
    BY <1>4, <2>1, EndsTyped DEF Record
  <2>5. ASSUME error'[m] = {}, ~synced'[m] PROVE FALSE
    <3>1. failed # {} /\ ~synced[m]
      BY <2>3, <2>5
    <3>2. failed = run[w].read /\ error[m] = {}
      BY <2>2, <2>5, <3>1
    <3> QED
      BY <2>1, <3>1, <3>2 DEF SilentRowsAreNew
  <2>6. \A v \in Workers : run'[v].of \in Messages => run'[v] = run[v]
    BY <2>4, NoMessageIsNoRow
  <2> QED
    BY <2>2, <2>5, <2>6 DEF SilentRowsAreNew
<1>5. ASSUME NEW w \in Workers, Abandon(w)
      PROVE  SilentRowsAreNew'
  BY <1>5, EndsTyped, NoMessageIsNoRow DEF Abandon, row, SilentRowsAreNew
<1>6. ASSUME NEW m \in Messages, Quarantine(m) \/ ConfirmNotSent(m)
      PROVE  SilentRowsAreNew'
  BY <1>6 DEF Quarantine, ConfirmNotSent, SilentRowsAreNew
<1>7. ASSUME NEW m \in Messages, ConfirmSent(m) \/ RetrySync(m)
      PROVE  SilentRowsAreNew'
  <2>1. error'[m] # {} /\ UNCHANGED run
    BY <1>7 DEF ConfirmSent, RetrySync, TypeOK
  <2>2. \A n \in Messages \ {m} :
          attempts'[n] = attempts[n] /\ error'[n] = error[n] /\ synced'[n] = synced[n]
    BY <1>7 DEF ConfirmSent, RetrySync, TypeOK
  <2> QED
    BY <2>1, <2>2 DEF SilentRowsAreNew
<1>8. ASSUME NEW to \in Stages, MoveStage(to)
      PROVE  SilentRowsAreNew'
  BY <1>8 DEF MoveStage, row, SilentRowsAreNew
<1>9. CASE UNCHANGED vars
  BY <1>9 DEF vars, row, SilentRowsAreNew
<1> QED
  BY <1>1, <1>2, <1>3, <1>4, <1>5, <1>6, <1>7, <1>8, <1>9 DEF Next, Call

(* A delivery whose bookkeeping was recorded and is not complete names     *)
(* what is missing, however many processes take up the same row            *)
(* (_post_send_bookkeeping, recovery.py:64-72).                            *)
THEOREM NothingGivenUpInSilence == Spec => []UnfinishedIsListed
<1>1. Init => TypeOK /\ Tallied /\ SilentRowsAreNew
  BY TypesStart, SilentStart
<1>2. TypeOK /\ Tallied /\ SilentRowsAreNew /\ [Next]_vars
        => (TypeOK /\ Tallied /\ SilentRowsAreNew)'
  BY TypesStep, SilentStep
<1> QED
  BY <1>1, <1>2, SilentIsUnrecorded, PTL DEF Spec
=============================================================================
