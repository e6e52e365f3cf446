----------------------- MODULE FollowupSequenceProofs -----------------------
(***************************************************************************)
(* What FollowupSequence guarantees for any number of sweeps, rows and     *)
(* acts: types, one reminder of a kind for each mail of ours, the order of *)
(* the ladder, and a person's decision that stands; for one sweep, one     *)
(* automatic close for each second reminder.                               *)
(***************************************************************************)
EXTENDS FollowupSequence, WellFoundedInduction, TLAPS

OneSweep == \A s, t \in Sweeps : s = t

(* Rows are taken in their order, and a row that is taken has a kind and a *)
(* moment.                                                                 *)
Numbered ==
  /\ \A r \in Rows : status[r] = "none" <=> kind[r] = "none"
  /\ \A r \in Rows : status[r] = "none" <=> made[r] = Never
  /\ \A q, r \in Rows : q < r /\ status[q] = "none" => status[r] = "none"

(* The ticket was answered: there always is a last mail of ours.           *)
Anchored == kind[1] = "reply" /\ status[1] = "sent"

(* A sweep that looks, or copies, knows what it is about to do.            *)
StepsAreSet ==
  \A s \in Sweeps :
    /\ pc[s] \in {"collecting", "deciding"} => step[s] \in Steps
    /\ pc[s] = "copying" => step[s] \in {"send_1", "send_2"}

(* A sweep that closes has seen a second reminder that was delivered.      *)
SecondLeft == \E r \in Rows : kind[r] = Second /\ status[r] = "sent"
Closing(s) == pc[s] \in {"closing", "marking_closed"}
ClosesAreEarned == \A s \in Sweeps : Closing(s) => SecondLeft

Aux == Numbered /\ Anchored /\ StepsAreSet /\ ClosesAreEarned
Inv == TypeOK /\ Aux /\ OneOfEachPerCycle /\ LadderInOrder

-----------------------------------------------------------------------------
(* The last of several moments                                             *)

LEMMA MaxIsLast ==
  ASSUME NEW n \in Nat, NEW S \in SUBSET (0 .. n), S # {}
  PROVE  Max(S) \in S /\ \A x \in S : Max(S) >= x
<1> DEFINE T == {n - x : x \in S}
<1>1. T \subseteq Nat /\ T # {}
  <2>1. \A x \in S : n - x \in Nat
    OBVIOUS
  <2> QED
    BY <2>1
<1>2. PICK y \in T : \A z \in T : ~ (<<z, y>> \in OpToRel(<, Nat))
  BY <1>1, WFMin, NatLessThanWellFounded, Zenon
<1>3. \A z \in T : z \in Nat /\ y \in Nat => ~ (z < y)
  BY <1>2, Zenon DEF OpToRel
<1>4. \A z \in T : ~ (z < y)
  BY <1>1, <1>3
<1>5. PICK x \in S : y = n - x
  BY <1>2
<1>6. ASSUME NEW u \in S PROVE x >= u
  <2>1. n - u \in T
    OBVIOUS
  <2>2. ~ (n - u < n - x)
    BY <1>4, <1>5, <2>1
  <2> QED
    BY <2>2
<1> QED
  BY <1>6 DEF Max

(* The last mail of ours, and when it left its author's hands: a delivered *)
(* reply of the console, or a colleague's mail.                            *)
LEMMA BaseIsAMail ==
  ASSUME TypeOK, Anchored
  PROVE  BaseAt \in SalesTimes /\ BaseAt \in 0 .. now
<1>1. 1 \in Rows
  BY RowsPositive DEF Rows
<1>2. 1 \in OurReplies
  BY <1>1 DEF Anchored, OurReplies, IsReply, Stored
<1>3. SalesTimes # {}
  BY <1>2 DEF SalesTimes
<1>4. SalesTimes \in SUBSET (0 .. now)
  <2>1. \A r \in OurReplies : sent[r] \in 0 .. now
    BY DEF TypeOK, OurReplies
  <2>2. \A m \in OurMails : m.at \in 0 .. now
    BY DEF TypeOK, OurMails
  <2> QED
    BY <2>1, <2>2 DEF SalesTimes
<1>5. now \in Nat
  BY DEF TypeOK
<1> QED
  BY <1>3, <1>4, <1>5, MaxIsLast DEF BaseAt

LEMMA CommittedByAMail ==
  ASSUME TypeOK, Anchored
  PROVE  /\ CommittedAt \in 0 .. now
         /\ \/ \E r \in Rows : kind[r] = "reply" /\ status[r] = "sent" /\ approved[r] = CommittedAt
            \/ \E m \in OurMails : m.at = CommittedAt
<1>1. BaseAt \in SalesTimes /\ BaseAt \in 0 .. now
  BY BaseIsAMail
<1>2. CASE \E r \in OurReplies : sent[r] = BaseAt
  <2> DEFINE w == CHOOSE r \in OurReplies : sent[r] = BaseAt
  <2>1. w \in OurReplies
    BY <1>2
  <2>2. CommittedAt = approved[w]
    BY <1>2 DEF CommittedAt
  <2>3. w \in Rows /\ kind[w] = "reply" /\ status[w] = "sent"
    BY <2>1 DEF OurReplies, IsReply
  <2> HIDE DEF w
  <2> QED
    BY <2>2, <2>3 DEF TypeOK
<1>3. CASE ~ \E r \in OurReplies : sent[r] = BaseAt
  <2>1. CommittedAt = BaseAt
    BY <1>3 DEF CommittedAt
  <2>2. \E m \in OurMails : m.at = BaseAt
    BY <1>1, <1>3 DEF SalesTimes
  <2> QED
    BY <1>1, <2>1, <2>2
<1> QED
  BY <1>2, <1>3

LEMMA LastIsCounted ==
  ASSUME NEW k, Counted(k) # {}
  PROVE  Last(k) \in Counted(k)
<1>1. Counted(k) \in SUBSET (0 .. MaxRows)
  BY RowsPositive DEF Counted, Rows
<1> QED
  BY <1>1, RowsPositive, MaxIsLast DEF Last

(* A reminder that was had is a delivered row of its kind.                 *)
LEMMA HadIsDelivered ==
  ASSUME NEW k, Had(k)
  PROVE  /\ Last(k) \in Rows /\ kind[Last(k)] = k /\ status[Last(k)] = "sent"
BY LastIsCounted DEF Had, Counted

-----------------------------------------------------------------------------
(* Types                                                                   *)

(* What has a type stays in it when the clock advances.                    *)
LEMMA Later ==
  ASSUME TypeOK, now' \in {now, now + 1}
  PROVE  /\ now' \in Nat /\ 0 .. now \subseteq 0 .. now'
         /\ waited \in 0 .. now'
         /\ mails \subseteq [at : 1 .. now', is : MailKinds]
         /\ made \in [Rows -> 0 .. now']
         /\ approved \in [Rows -> 0 .. now'] /\ sent \in [Rows -> 0 .. now']
         /\ closedAt \in 0 .. now' /\ releasedAt \in 0 .. now' /\ revivedAt \in 0 .. now'
         /\ after \in [Sweeps -> 0 .. now']
<1>1. now \in Nat
  BY DEF TypeOK
<1>2. now' \in Nat /\ 0 .. now \subseteq 0 .. now' /\ 1 .. now \subseteq 1 .. now'
  BY <1>1
<1>3. mails \subseteq [at : 1 .. now', is : MailKinds]
  BY <1>2 DEF TypeOK
<1> HIDE DEF Rows
<1> QED
  BY <1>2, <1>3 DEF TypeOK

LEMMA Ticks ==
  ASSUME TypeOK, Tick
  PROVE  now' \in {now, now + 1} /\ now' = now + 1 /\ waited' = waited /\ now' > now
BY DEF TypeOK, Tick

LEMMA Moves ==
  ASSUME TypeOK, NEW to \in Stages, MoveStage(to)
  PROVE  /\ now' \in {now, now + 1} /\ waited' = waited
         /\ stage' \in Stages /\ releasedAt' \in 0 .. now'
<1>1. CASE Released(to)
  BY <1>1, Ticks DEF MoveStage, TypeOK
<1>2. CASE ~Released(to)
  BY <1>2, Later DEF MoveStage, clock
<1> QED
  BY <1>1, <1>2

LEMMA Drops ==
  ASSUME TypeOK, NEW to, DropReminders(to)
  PROVE  /\ status' \in [Rows -> Statuses]
         /\ \A r \in Rows :
              \/ status'[r] = status[r]
              \/ status[r] \in Unsent /\ IsReminder(r) /\ status'[r] = "gone"
<1>1. status' = [r \in Rows |->
                  IF to # Contacted /\ IsReminder(r) /\ status[r] \in Unsent
                  THEN "gone" ELSE status[r]]
  BY DEF DropReminders
<1>2. status \in [Rows -> Statuses] /\ "gone" \in Statuses
  BY DEF TypeOK, Statuses
<1>3. ASSUME NEW r \in Rows
      PROVE  /\ status'[r] \in Statuses
             /\ \/ status'[r] = status[r]
                \/ (status[r] \in Unsent /\ IsReminder(r) /\ status'[r] = "gone")
  <2>1. status'[r] = IF to # Contacted /\ IsReminder(r) /\ status[r] \in Unsent
                     THEN "gone" ELSE status[r]
    BY <1>1
  <2>2. status[r] \in Statuses
    BY <1>2
  <2> QED
    BY <1>2, <2>1, <2>2
<1>4. status' = [r \in Rows |-> status'[r]]
  BY <1>1
<1> QED
  BY <1>3, <1>4

LEMMA Rests ==
  ASSUME TypeOK, NEW s \in Sweeps, Rest(s)
  PROVE  /\ pc' \in [Sweeps -> Places]
         /\ step' \in [Sweeps -> Steps \cup {"none"}]
         /\ after' \in [Sweeps -> 0 .. now]
         /\ pc'[s] = "idle"
         /\ \A t \in Sweeps \ {s} : pc'[t] = pc[t] /\ step'[t] = step[t] /\ after'[t] = after[t]
<1>1. Never \in 0 .. now
  BY DEF TypeOK, Never
<1> QED
  BY <1>1 DEF TypeOK, Rest, Places

LEMMA Goes ==
  ASSUME TypeOK, NEW s \in Sweeps, NEW from, NEW to \in Places, Go(s, from, to)
  PROVE  /\ pc' \in [Sweeps -> Places]
         /\ pc'[s] = to /\ pc[s] = from
         /\ \A t \in Sweeps \ {s} : pc'[t] = pc[t]
BY DEF TypeOK, Go

(* A new row is the first that is free: every row before it is older.      *)
LEMMA Born ==
  ASSUME TypeOK, Numbered, NEW r \in Unborn, now' = now + 1,
         made' = [made EXCEPT ![r] = now']
  PROVE  /\ r \in Rows /\ status[r] = "none"
         /\ \A q \in Rows : q < r => status[q] # "none"
         /\ \A q \in Rows : q > r => status[q] = "none" /\ made[q] = Never
         /\ made' \in [Rows -> 0 .. now']
         /\ made'[r] = now'
         /\ \A p, q \in Rows : p < q /\ made'[q] # Never =>
              Never < made'[p] /\ made'[p] < made'[q]
<1>1. r \in Rows /\ status[r] = "none" /\ \A q \in 1 .. r - 1 : status[q] # "none"
  BY DEF Unborn
<1>2. \A q \in Rows : q < r => status[q] # "none"
  BY <1>1 DEF Rows
<1>3. \A q \in Rows : q > r => status[q] = "none" /\ made[q] = Never
  BY <1>1 DEF Numbered
<1>4. now \in Nat /\ made \in [Rows -> 0 .. now]
  BY DEF TypeOK
<1>5. made' \in [Rows -> 0 .. now'] /\ made'[r] = now' /\ \A q \in Rows \ {r} : made'[q] = made[q]
  BY <1>1, <1>4
<1>6. \A q \in Rows : q < r => made[q] # Never /\ made[q] \in 0 .. now
  BY <1>1, <1>2, <1>4 DEF Numbered
<1>7. ASSUME NEW p \in Rows, NEW q \in Rows, p < q, made'[q] # Never
      PROVE  Never < made'[p] /\ made'[p] < made'[q]
  <2>1. q <= r
    BY <1>3, <1>5, <1>7 DEF Rows
  <2>2. CASE q = r
    BY <1>4, <1>5, <1>6, <1>7, <2>2 DEF Never, Rows
  <2>3. CASE q < r
    <3>1. made'[q] = made[q] /\ made'[p] = made[p]
      BY <1>1, <1>5, <1>7, <2>3 DEF Rows
    <3> QED
      BY <1>7, <3>1 DEF TypeOK
  <2> QED
    BY <1>1, <2>1, <2>2, <2>3 DEF Rows
<1> QED
  BY <1>1, <1>2, <1>3, <1>5, <1>7

LEMMA TypesStart == Init => TypeOK /\ Aux
<1> SUFFICES ASSUME Init PROVE TypeOK /\ Aux
  OBVIOUS
<1>1. 1 \in Rows /\ \A r \in Rows : r >= 1
  BY RowsPositive DEF Rows
<1>2. kind[1] = "reply" /\ status[1] = "sent" /\ made[1] = 1
  BY <1>1 DEF Init
<1>3. \A r \in Rows : r # 1 => kind[r] = "none" /\ status[r] = "none" /\ made[r] = Never
  BY DEF Init
<1>4. Numbered /\ Anchored
  BY <1>1, <1>2, <1>3 DEF Numbered, Anchored, Never, Rows
<1>5. StepsAreSet /\ ClosesAreEarned
  BY DEF Init, StepsAreSet, ClosesAreEarned, Closing
<1>6. kind \in [Rows -> Kinds] /\ status \in [Rows -> Statuses]
  BY DEF Init, Kinds, Statuses
<1>7. made \in [Rows -> 0 .. now] /\ approved \in [Rows -> 0 .. now] /\ sent \in [Rows -> 0 .. now]
  BY DEF Init, Never
<1>8. \A q, r \in Rows : q < r /\ made[r] # Never => Never < made[q] /\ made[q] < made[r]
  BY <1>1, <1>3 DEF Rows
<1>9. /\ now \in Nat /\ waited \in 0 .. now
      /\ mails \subseteq [at : 1 .. now, is : MailKinds] /\ stored \subseteq mails
      /\ acts \in 0 .. MaxActs
      /\ closedAt \in 0 .. now /\ releasedAt \in 0 .. now /\ revivedAt \in 0 .. now
      /\ stage \in Stages
  BY ActsAreBounded DEF Init, Never, Stages
<1>10. /\ pc \in [Sweeps -> Places] /\ step \in [Sweeps -> Steps \cup {"none"}]
       /\ after \in [Sweeps -> 0 .. now]
  BY DEF Init, Places, Never
<1> QED
  BY <1>4, <1>5, <1>6, <1>7, <1>8, <1>9, <1>10 DEF TypeOK, Aux

-----------------------------------------------------------------------------
(* What every step keeps                                                   *)

(* A row that is delivered stays as it is.                                 *)
SentStays ==
  \A r \in Rows : status[r] = "sent" =>
    status'[r] = "sent" /\ kind'[r] = kind[r] /\ approved'[r] = approved[r] /\ sent'[r] = sent[r]

(* No row is taken, and none that was deleted comes back.                  *)
SameRows ==
  /\ UNCHANGED <<kind, made>>
  /\ \A r \in Rows :
       /\ status'[r] = "none" <=> status[r] = "none"
       /\ status[r] = "gone" => status'[r] = "gone"

FirstBeforeSecond ==
  \A r \in Rows : IsReminder(r) /\ kind[r] = Second =>
    \E q \in Rows : kind[q] = First /\ status[q] = "sent" /\ sent[q] < made[r]

ClosedAfterSecond ==
  closedAt # Never =>
    \E r \in Rows : kind[r] = Second /\ status[r] = "sent" /\ sent[r] < closedAt

LEMMA LadderParts == LadderInOrder <=> FirstBeforeSecond /\ ClosedAfterSecond
BY DEF LadderInOrder, FirstBeforeSecond, ClosedAfterSecond

(* What the rows owe the invariant.                                        *)
RowsRight == Numbered /\ Anchored /\ OneOfEachPerCycle /\ FirstBeforeSecond

(* Who wrote between two moments has written for good.                     *)
LEMMA WrittenIsWritten ==
  ASSUME SentStays, stored \subseteq stored', NEW t, NEW u, WroteBetween(t, u)
  PROVE  \/ \E r \in Rows : /\ kind'[r] = "reply" /\ status'[r] = "sent"
                            /\ t <= approved'[r] /\ approved'[r] < u
         \/ \E m \in OurMails' : t <= m.at /\ m.at < u
<1>1. CASE \E m \in OurMails : t <= m.at /\ m.at < u
  BY <1>1 DEF OurMails
<1>2. CASE \E r \in Rows : /\ kind[r] = "reply" /\ status[r] = "sent"
                           /\ t <= approved[r] /\ approved[r] < u
  BY <1>2 DEF SentStays
<1> QED
  BY <1>1, <1>2 DEF WroteBetween

LEMMA OldRowsKeep ==
  ASSUME RowsRight, SentStays, SameRows, stored \subseteq stored'
  PROVE  RowsRight' /\ (SecondLeft => SecondLeft')
<1>1. Numbered'
  BY DEF RowsRight, Numbered, SameRows
<1>2. 1 \in Rows
  BY RowsPositive DEF Rows
<1>3. Anchored'
  BY <1>2 DEF RowsRight, Anchored, SentStays
<1>4. \A r \in Rows : IsReminder(r)' => IsReminder(r)
  BY DEF SameRows, IsReminder, Stored
<1>5. OneOfEachPerCycle'
  <2> SUFFICES ASSUME NEW q \in Rows, NEW r \in Rows, q < r, IsReminder(q)', IsReminder(r)',
                      kind'[q] = kind'[r]
               PROVE  WroteBetween(made[q], made[r])'
    BY DEF OneOfEachPerCycle
  <2>1. kind[q] = kind[r] /\ made'[q] = made[q] /\ made'[r] = made[r]
    BY DEF SameRows
  <2>2. WroteBetween(made[q], made[r])
    BY <1>4, <2>1 DEF RowsRight, OneOfEachPerCycle
  <2> QED
    BY <2>1, <2>2, WrittenIsWritten DEF WroteBetween
<1>6. FirstBeforeSecond'
  BY <1>4 DEF RowsRight, FirstBeforeSecond, SentStays, SameRows
<1>7. SecondLeft => SecondLeft'
  BY DEF SecondLeft, SentStays
<1> QED
  BY <1>1, <1>3, <1>5, <1>6, <1>7 DEF RowsRight

LEMMA SameRowsKeep ==
  ASSUME TypeOK, RowsRight, UNCHANGED rows, stored \subseteq stored'
  PROVE  RowsRight' /\ (SecondLeft => SecondLeft')
<1>1. SentStays /\ SameRows
  BY DEF rows, SentStays, SameRows
<1> QED
  BY <1>1, OldRowsKeep

LEMMA Parts ==
  Inv <=> /\ TypeOK /\ RowsRight /\ StepsAreSet /\ ClosesAreEarned /\ ClosedAfterSecond
BY LadderParts DEF Inv, Aux, RowsRight

LEMMA Assembled ==
  ASSUME TypeOK', RowsRight', StepsAreSet', ClosesAreEarned', ClosedAfterSecond'
  PROVE  Inv'
BY DEF Inv, Aux, RowsRight, LadderInOrder, FirstBeforeSecond, ClosedAfterSecond

(* A close that is on record stays right when the row it rests on stays.   *)
LEMMA CloseStays ==
  ASSUME ClosedAfterSecond, SentStays, closedAt' = closedAt
  PROVE  ClosedAfterSecond'
BY DEF ClosedAfterSecond, SentStays

LEMMA WorkStays ==
  ASSUME StepsAreSet, ClosesAreEarned, UNCHANGED work, SecondLeft => SecondLeft'
  PROVE  StepsAreSet' /\ ClosesAreEarned'
BY DEF StepsAreSet, ClosesAreEarned, Closing, work

-----------------------------------------------------------------------------
(* The sweep                                                               *)

(* A step of a sweep that only moves it on.                                *)
LEMMA SweepMoves ==
  ASSUME Inv, UNCHANGED <<clock, outside, rows, ticket>>,
         pc' \in [Sweeps -> Places], step' \in [Sweeps -> Steps \cup {"none"}],
         after' \in [Sweeps -> 0 .. now], StepsAreSet', ClosesAreEarned'
  PROVE  Inv'
<1>1. TypeOK'
  BY DEF Inv, TypeOK, clock, outside, rows, ticket
<1>2. RowsRight'
  BY SameRowsKeep, Parts DEF outside
<1>3. ClosedAfterSecond'
  BY Parts DEF ClosedAfterSecond, rows, ticket
<1> QED
  BY <1>1, <1>2, <1>3, Assembled

LEMMA RestKeeps ==
  ASSUME Inv, NEW s \in Sweeps, Rest(s), UNCHANGED <<clock, outside, rows, ticket>>
  PROVE  Inv'
<1>1. TypeOK /\ StepsAreSet /\ ClosesAreEarned
  BY Parts
<1>2. SecondLeft => SecondLeft'
  BY DEF SecondLeft, rows
<1>3. StepsAreSet' /\ ClosesAreEarned'
  BY <1>1, <1>2, Rests DEF StepsAreSet, ClosesAreEarned, Closing
<1> QED
  BY <1>1, <1>3, Rests, SweepMoves

(* It goes on to a place with what it was about to do.                     *)
LEMMA GoKeeps ==
  ASSUME Inv, NEW s \in Sweeps, NEW from, NEW to \in Places, Go(s, from, to),
         UNCHANGED <<clock, outside, rows, ticket, step, after>>,
         to \in {"collecting", "deciding"} => step[s] \in Steps,
         to = "copying" => step[s] \in {"send_1", "send_2"},
         to \in {"closing", "marking_closed"} => SecondLeft
  PROVE  Inv'
<1>1. TypeOK /\ StepsAreSet /\ ClosesAreEarned
  BY Parts
<1>2. SecondLeft => SecondLeft'
  BY DEF SecondLeft, rows
<1>3. /\ pc' \in [Sweeps -> Places] /\ pc'[s] = to
      /\ \A t \in Sweeps \ {s} : pc'[t] = pc[t]
  BY <1>1, Goes
<1>4. StepsAreSet' /\ ClosesAreEarned'
  BY <1>1, <1>2, <1>3 DEF StepsAreSet, ClosesAreEarned, Closing
<1> QED
  BY <1>1, <1>3, <1>4, SweepMoves DEF TypeOK

LEMMA SeeAnswerKeeps ==
  ASSUME Inv, NEW s \in Sweeps, SeeAnswer(s)
  PROVE  Inv'
<1>1. PICK to \in {"reviving", "advancing"} : Go(s, "idle", to)
  BY DEF SeeAnswer
<1> QED
  BY <1>1, GoKeeps DEF SeeAnswer, Places

LEMMA PickKeeps ==
  ASSUME Inv, NEW s \in Sweeps, Pick(s)
  PROVE  Inv'
<1>1. TypeOK /\ StepsAreSet /\ ClosesAreEarned /\ Anchored
  BY Parts DEF RowsRight
<1>2. PICK wanted \in Steps : step' = [step EXCEPT ![s] = wanted]
  BY DEF Pick
<1>3. step' \in [Sweeps -> Steps \cup {"none"}]
      /\ step'[s] = wanted /\ \A t \in Sweeps \ {s} : step'[t] = step[t]
  BY <1>1, <1>2 DEF TypeOK
<1>4. after' \in [Sweeps -> 0 .. now]
  BY <1>1, BaseIsAMail DEF TypeOK, Pick
<1>5. /\ pc' \in [Sweeps -> Places] /\ pc'[s] = "collecting"
      /\ \A t \in Sweeps \ {s} : pc'[t] = pc[t]
  BY <1>1, Goes DEF Pick, Places
<1>6. SecondLeft => SecondLeft'
  BY DEF Pick, SecondLeft, rows
<1>7. StepsAreSet' /\ ClosesAreEarned'
  BY <1>1, <1>3, <1>5, <1>6 DEF StepsAreSet, ClosesAreEarned, Closing
<1> QED
  BY <1>3, <1>4, <1>5, <1>7, SweepMoves DEF Pick

LEMMA CollectKeeps ==
  ASSUME Inv, NEW s \in Sweeps, Collect(s)
  PROVE  Inv'
<1>1. TypeOK /\ StepsAreSet /\ ClosesAreEarned /\ RowsRight /\ ClosedAfterSecond
  BY Parts
<1>2. stored \subseteq stored' /\ stored' \subseteq mails
  BY <1>1 DEF Collect, TypeOK
<1>3. /\ pc' \in [Sweeps -> Places] /\ pc'[s] = "deciding" /\ pc[s] = "collecting"
      /\ \A t \in Sweeps \ {s} : pc'[t] = pc[t]
  BY <1>1, Goes DEF Collect, Places
<1>4. TypeOK'
  BY <1>1, <1>2, <1>3 DEF TypeOK, Collect, clock, rows, ticket
<1>5. RowsRight' /\ (SecondLeft => SecondLeft')
  BY <1>1, <1>2, SameRowsKeep DEF Collect
<1>6. StepsAreSet' /\ ClosesAreEarned'
  BY <1>1, <1>3, <1>5 DEF Collect, StepsAreSet, ClosesAreEarned, Closing
<1>7. ClosedAfterSecond'
  BY <1>1 DEF Collect, ClosedAfterSecond, rows, ticket
<1> QED
  BY <1>4, <1>5, <1>6, <1>7, Assembled

LEMMA CloseIsEarned ==
  ASSUME NextIs("close")
  PROVE  SecondLeft
<1>1. Had(Second)
  BY DEF NextIs
<1> QED
  BY <1>1, HadIsDelivered DEF SecondLeft

LEMMA DecideKeeps ==
  ASSUME Inv, NEW s \in Sweeps, Decide(s)
  PROVE  Inv'
<1>1. pc[s] = "deciding" /\ step[s] \in Steps
  BY Parts DEF Decide, StepsAreSet
<1>2. UNCHANGED <<clock, outside, rows, ticket>>
  BY DEF Decide
<1>3. CASE pc' = [pc EXCEPT ![s] = "advancing"] /\ UNCHANGED <<step, after>>
  BY <1>1, <1>2, <1>3, GoKeeps DEF Go, Places
<1>4. CASE DueNow(step[s]) /\ step[s] = "close" /\ pc' = [pc EXCEPT ![s] = "closing"]
           /\ UNCHANGED <<step, after>>
  <2>1. SecondLeft
    BY <1>4, CloseIsEarned DEF DueNow
  <2> QED
    BY <1>1, <1>2, <1>4, <2>1, GoKeeps DEF Go, Places
<1>5. CASE step[s] # "close" /\ pc' = [pc EXCEPT ![s] = "copying"] /\ UNCHANGED <<step, after>>
  BY <1>1, <1>2, <1>5, GoKeeps DEF Go, Places, Steps
<1>6. CASE Rest(s)
  BY <1>2, <1>6, RestKeeps
<1> QED
  BY <1>3, <1>4, <1>5, <1>6 DEF Decide

(* The reminder it writes is the only one of its kind since CommittedAt,   *)
(* which is a moment at which a person wrote, and it is new.               *)
LEMMA InsertKeeps ==
  ASSUME Inv, NEW s \in Sweeps, InsertReminder(s)
  PROVE  Inv' /\ SentStays
<1>1. /\ TypeOK /\ RowsRight /\ StepsAreSet /\ ClosesAreEarned /\ ClosedAfterSecond
      /\ Numbered /\ Anchored
  BY Parts DEF RowsRight
<1>2. DueNow(step[s]) /\ step[s] \in {"send_1", "send_2"}
  BY <1>1 DEF InsertReminder, StepsAreSet
<1>3. /\ now' \in {now, now + 1} /\ now' = now + 1 /\ waited' = waited
      /\ UNCHANGED <<outside, sent, ticket>>
  BY <1>1, Ticks DEF InsertReminder
<1> DEFINE k == IF step[s] = "send_1" THEN First ELSE Second
<1>4. PICK r \in Unborn :
        /\ kind' = [kind EXCEPT ![r] = k]
        /\ status' = [status EXCEPT ![r] = "approved"]
        /\ made' = [made EXCEPT ![r] = now']
        /\ approved' = [approved EXCEPT ![r] = now']
  BY DEF InsertReminder
<1>5. k \in ReminderKinds /\ Counted(k) = {} /\ (k = Second => Had(First))
  BY <1>2 DEF DueNow, NextIs, ReminderKinds, First, Second
<1> HIDE DEF k
<1>6. /\ r \in Rows /\ status[r] = "none"
      /\ \A q \in Rows : q < r => status[q] # "none"
      /\ \A q \in Rows : q > r => status[q] = "none" /\ made[q] = Never
      /\ made' \in [Rows -> 0 .. now'] /\ made'[r] = now'
      /\ \A p, q \in Rows : p < q /\ made'[q] # Never =>
           Never < made'[p] /\ made'[p] < made'[q]
  BY <1>1, <1>3, <1>4, Born
<1>7. /\ kind'[r] = k /\ status'[r] = "approved" /\ approved'[r] = now'
      /\ \A q \in Rows \ {r} : /\ kind'[q] = kind[q] /\ status'[q] = status[q]
                               /\ made'[q] = made[q] /\ approved'[q] = approved[q]
  BY <1>1, <1>4, <1>6 DEF TypeOK
<1>8. Rest(s)
  BY DEF InsertReminder
<1>9. TypeOK'
  <2>1. kind' \in [Rows -> Kinds] /\ status' \in [Rows -> Statuses]
    BY <1>1, <1>4, <1>5, <1>6 DEF TypeOK, Kinds, Statuses
  <2>2. now' \in Nat /\ now' \in 0 .. now'
    BY <1>1, <1>3 DEF TypeOK
  <2>3. approved \in [Rows -> 0 .. now']
    BY <1>1, <1>3, Later
  <2>4. approved' \in [Rows -> 0 .. now']
    BY <1>4, <1>6, <2>2, <2>3
  <2>5. after' \in [Sweeps -> 0 .. now']
    BY <1>1, <1>3, <1>8, Rests, Later
  <2> QED
    BY <1>1, <1>3, <1>6, <1>8, <2>1, <2>4, <2>5, Rests, Later
    DEF TypeOK, outside, ticket
<1>10. SentStays
  BY <1>3, <1>6, <1>7 DEF SentStays
<1>11. Numbered'
  BY <1>1, <1>3, <1>5, <1>6, <1>7
  DEF TypeOK, Numbered, ReminderKinds, First, Second, Never
<1>12. Anchored'
  BY <1>1, <1>10, RowsPositive DEF Anchored, SentStays, Rows
<1>13. OneOfEachPerCycle'
  <2> SUFFICES ASSUME NEW p \in Rows, NEW q \in Rows, p < q, IsReminder(p)', IsReminder(q)',
                      kind'[p] = kind'[q]
               PROVE  WroteBetween(made[p], made[q])'
    BY DEF OneOfEachPerCycle
  <2>1. p # r
    BY <1>6, <1>7 DEF IsReminder, Stored
  <2>2. kind'[p] = kind[p] /\ status'[p] = status[p] /\ made'[p] = made[p] /\ IsReminder(p)
    BY <1>7, <2>1 DEF IsReminder, Stored
  <2>3. CASE q = r
    <3>1. IsReminder(p) /\ kind[p] = k
      BY <1>7, <2>2, <2>3
    <3>2. ~ (made[p] > CommittedAt)
      BY <1>5, <3>1 DEF Counted, AfterBase
    <3>3. made[p] <= CommittedAt /\ CommittedAt < now'
      BY <1>1, <1>3, <3>2, CommittedByAMail DEF TypeOK
    <3>4. WroteBetween(made[p], now')
      BY <1>1, <3>3, CommittedByAMail DEF WroteBetween
    <3> QED
      BY <1>3, <1>6, <1>10, <2>2, <2>3, <3>4, WrittenIsWritten DEF WroteBetween, outside
  <2>4. CASE q # r
    <3>1. kind'[q] = kind[q] /\ made'[q] = made[q] /\ IsReminder(q)
      BY <1>7, <2>4 DEF IsReminder, Stored
    <3>2. WroteBetween(made[p], made[q])
      BY <1>1, <2>2, <3>1 DEF RowsRight, OneOfEachPerCycle
    <3> QED
      BY <1>3, <1>10, <2>2, <3>1, <3>2, WrittenIsWritten DEF WroteBetween, outside
  <2> QED
    BY <2>3, <2>4
<1>14. FirstBeforeSecond'
  <2> SUFFICES ASSUME NEW q \in Rows, IsReminder(q)', kind'[q] = Second
               PROVE  \E p \in Rows : kind'[p] = First /\ status'[p] = "sent" /\ sent'[p] < made'[q]
    BY DEF FirstBeforeSecond
  <2>1. CASE q = r
    <3>1. Last(First) \in Rows /\ kind[Last(First)] = First /\ status[Last(First)] = "sent"
      BY <1>5, <1>7, <2>1, HadIsDelivered
    <3>2. sent[Last(First)] < now'
      BY <1>1, <1>3, <3>1 DEF TypeOK
    <3> QED
      BY <1>3, <1>6, <1>7, <2>1, <3>1, <3>2
  <2>2. CASE q # r
    <3>1. kind[q] = Second /\ IsReminder(q) /\ made'[q] = made[q]
      BY <1>7, <2>2 DEF IsReminder, Stored
    <3> QED
      BY <1>1, <1>10, <3>1 DEF RowsRight, FirstBeforeSecond, SentStays
  <2> QED
    BY <2>1, <2>2
<1>15. SecondLeft => SecondLeft'
  BY <1>10 DEF SecondLeft, SentStays
<1>16. StepsAreSet' /\ ClosesAreEarned'
  BY <1>1, <1>8, <1>15, Rests DEF StepsAreSet, ClosesAreEarned, Closing
<1>17. ClosedAfterSecond'
  BY <1>1, <1>3, <1>10, CloseStays DEF ticket
<1> QED
  BY <1>9, <1>10, <1>11, <1>12, <1>13, <1>14, <1>16, <1>17, Assembled DEF RowsRight

LEMMA DropsKeepRows ==
  ASSUME TypeOK, NEW to, DropReminders(to), UNCHANGED <<kind, made, approved, sent>>
  PROVE  SentStays /\ SameRows
<1>1. \A r \in Rows : status'[r] = status[r] \/ (status[r] \in Unsent /\ status'[r] = "gone")
  BY Drops
<1> QED
  BY <1>1 DEF SentStays, SameRows, Unsent

(* A move of the ticket, and the reminders it takes with it.               *)
LEMMA MoveKeeps ==
  ASSUME Inv, NEW to \in Stages, MoveStage(to), DropReminders(to),
         UNCHANGED <<mails, stored, kind, made, approved, sent, closedAt, revivedAt>>,
         acts' \in 0 .. MaxActs,
         pc' \in [Sweeps -> Places], step' \in [Sweeps -> Steps \cup {"none"}],
         after' \in [Sweeps -> 0 .. now],
         (SecondLeft => SecondLeft') => StepsAreSet' /\ ClosesAreEarned'
  PROVE  Inv'
<1>1. TypeOK /\ RowsRight /\ ClosedAfterSecond
  BY Parts
<1>2. /\ now' \in {now, now + 1} /\ waited' = waited
      /\ stage' \in Stages /\ releasedAt' \in 0 .. now'
  BY <1>1, Moves
<1>3. SentStays /\ SameRows
  BY <1>1, DropsKeepRows
<1>4. RowsRight' /\ (SecondLeft => SecondLeft')
  BY <1>1, <1>3, OldRowsKeep
<1>5. TypeOK'
  <2>1. after' \in [Sweeps -> 0 .. now']
    BY <1>1, <1>2, Later
  <2>2. /\ now' \in Nat /\ waited' \in 0 .. now'
        /\ mails' \subseteq [at : 1 .. now', is : MailKinds]
        /\ made' \in [Rows -> 0 .. now']
        /\ approved' \in [Rows -> 0 .. now'] /\ sent' \in [Rows -> 0 .. now']
        /\ closedAt' \in 0 .. now' /\ revivedAt' \in 0 .. now'
    BY <1>1, <1>2, Later
  <2>3. status' \in [Rows -> Statuses]
    BY <1>1, Drops
  <2> QED
    BY <1>1, <1>2, <2>1, <2>2, <2>3 DEF TypeOK
<1>6. ClosedAfterSecond'
  BY <1>1, <1>3, CloseStays
<1> QED
  BY <1>4, <1>5, <1>6, Assembled

LEMMA CloseKeeps ==
  ASSUME Inv, NEW s \in Sweeps, Close(s)
  PROVE  Inv'
<1>1. TypeOK /\ StepsAreSet /\ ClosesAreEarned
  BY Parts
<1>2. /\ pc' \in [Sweeps -> Places] /\ pc'[s] = "marking_closed" /\ pc[s] = "closing"
      /\ \A t \in Sweeps \ {s} : pc'[t] = pc[t]
  BY <1>1, Goes DEF Close, Places
<1>3. (SecondLeft => SecondLeft') => StepsAreSet' /\ ClosesAreEarned'
  BY <1>1, <1>2 DEF Close, StepsAreSet, ClosesAreEarned, Closing
<1>4. CloseStage \in Stages
  BY DEF Stages
<1> QED
  BY <1>1, <1>2, <1>3, <1>4, MoveKeeps DEF Close, TypeOK, outside

LEMMA AdvanceKeeps ==
  ASSUME Inv, NEW s \in Sweeps, Advance(s)
  PROVE  Inv'
<1>1. TypeOK /\ StepsAreSet /\ ClosesAreEarned
  BY Parts
<1>2. /\ pc' \in [Sweeps -> Places] /\ pc'[s] \in {"marking_revived", "idle"}
      /\ \A t \in Sweeps \ {s} : pc'[t] = pc[t] /\ step'[t] = step[t]
      /\ step' \in [Sweeps -> Steps \cup {"none"}]
      /\ after' \in [Sweeps -> 0 .. now]
  <2>1. CASE pc[s] = "reviving"
    BY <1>1, <2>1 DEF Advance, TypeOK, Places
  <2>2. CASE Rest(s)
    BY <1>1, <2>2, Rests
  <2> QED
    BY <2>1, <2>2 DEF Advance
<1>3. (SecondLeft => SecondLeft') => StepsAreSet' /\ ClosesAreEarned'
  BY <1>1, <1>2 DEF StepsAreSet, ClosesAreEarned, Closing
<1>4. Negotiation \in Stages
  BY DEF Stages
<1> QED
  BY <1>1, <1>2, <1>3, <1>4, MoveKeeps DEF Advance, TypeOK, outside

LEMMA PersonMovesKeeps ==
  ASSUME Inv, NEW to \in Stages, Move(to)
  PROVE  Inv'
<1>1. TypeOK /\ StepsAreSet /\ ClosesAreEarned
  BY Parts
<1>2. acts' \in 0 .. MaxActs
  BY <1>1, ActsAreBounded DEF Move, Act, TypeOK
<1>3. (SecondLeft => SecondLeft') => StepsAreSet' /\ ClosesAreEarned'
  BY <1>1, WorkStays DEF Move
<1> QED
  BY <1>1, <1>2, <1>3, MoveKeeps DEF Move, TypeOK, work

(* The mark is later than the second reminder it rests on.                 *)
LEMMA MarkClosedKeeps ==
  ASSUME Inv, NEW s \in Sweeps, MarkClosed(s)
  PROVE  Inv'
<1>1. TypeOK /\ RowsRight /\ StepsAreSet /\ ClosesAreEarned
  BY Parts
<1>2. /\ now' \in {now, now + 1} /\ now' = now + 1 /\ waited' = waited
      /\ closedAt' = now' /\ releasedAt' = Never
      /\ UNCHANGED <<outside, rows, stage, revivedAt>>
  BY <1>1, Ticks DEF MarkClosed
<1>3. Rest(s) /\ pc[s] = "marking_closed"
  BY DEF MarkClosed
<1>4. TypeOK'
  <2>1. now' \in Nat /\ closedAt' \in 0 .. now' /\ releasedAt' \in 0 .. now'
    BY <1>1, <1>2 DEF TypeOK, Never
  <2>2. after' \in [Sweeps -> 0 .. now']
    BY <1>1, <1>2, <1>3, Rests, Later
  <2> QED
    BY <1>1, <1>2, <1>3, <2>1, <2>2, Rests, Later DEF TypeOK, outside, rows
<1>5. RowsRight' /\ (SecondLeft => SecondLeft')
  BY <1>1, <1>2, SameRowsKeep DEF outside
<1>6. StepsAreSet' /\ ClosesAreEarned'
  BY <1>1, <1>3, <1>5, Rests DEF StepsAreSet, ClosesAreEarned, Closing
<1>7. PICK r \in Rows : kind[r] = Second /\ status[r] = "sent"
  BY <1>1, <1>3 DEF ClosesAreEarned, Closing, SecondLeft
<1>8. sent[r] < closedAt'
  BY <1>1, <1>2 DEF TypeOK
<1>9. ClosedAfterSecond'
  BY <1>2, <1>7, <1>8 DEF ClosedAfterSecond, rows
<1> QED
  BY <1>4, <1>5, <1>6, <1>9, Assembled

LEMMA MarkRevivedKeeps ==
  ASSUME Inv, NEW s \in Sweeps, MarkRevived(s)
  PROVE  Inv'
<1>1. TypeOK /\ RowsRight /\ StepsAreSet /\ ClosesAreEarned /\ ClosedAfterSecond
  BY Parts
<1>2. /\ now' \in {now, now + 1} /\ waited' = waited /\ revivedAt' \in 0 .. now'
  <2>1. CASE stage = Negotiation
    BY <1>1, <2>1, Ticks DEF MarkRevived, TypeOK
  <2>2. CASE stage # Negotiation
    BY <1>1, <2>2, Later DEF MarkRevived, TypeOK, clock
  <2> QED
    BY <2>1, <2>2
<1>3. Rest(s) /\ UNCHANGED <<outside, rows, stage, closedAt, releasedAt>>
  BY DEF MarkRevived
<1>4. TypeOK'
  <2>1. after' \in [Sweeps -> 0 .. now']
    BY <1>1, <1>2, <1>3, Rests, Later
  <2> QED
    BY <1>1, <1>2, <1>3, <2>1, Rests, Later DEF TypeOK, outside, rows
<1>5. RowsRight' /\ (SecondLeft => SecondLeft')
  BY <1>1, <1>3, SameRowsKeep DEF outside
<1>6. StepsAreSet' /\ ClosesAreEarned'
  BY <1>1, <1>3, <1>5, Rests DEF StepsAreSet, ClosesAreEarned, Closing
<1>7. ClosedAfterSecond'
  BY <1>1, <1>3 DEF ClosedAfterSecond, rows
<1> QED
  BY <1>4, <1>5, <1>6, <1>7, Assembled

LEMMA SweepKeeps ==
  ASSUME Inv, NEW s \in Sweeps, Sweep(s)
  PROVE  Inv'
<1>1. CASE CollectFails(s) \/ InsertNothing(s) \/ Crash(s)
  BY <1>1, RestKeeps DEF CollectFails, InsertNothing, Crash
<1>2. CASE AdvanceFails(s)
  BY <1>2, GoKeeps DEF AdvanceFails, Places
<1> QED
  BY <1>1, <1>2, SeeAnswerKeeps, PickKeeps, CollectKeeps, DecideKeeps, InsertKeeps,
     CloseKeeps, MarkClosedKeeps, AdvanceKeeps, MarkRevivedKeeps
  DEF Sweep

-----------------------------------------------------------------------------
(* The world outside the console                                           *)

LEMMA OutsideKeeps ==
  ASSUME Inv, UNCHANGED <<rows, ticket, work>>, stored \subseteq stored',
         now' \in {now, now + 1}, waited' \in 0 .. now', acts' \in 0 .. MaxActs,
         mails' \subseteq [at : 1 .. now', is : MailKinds], stored' \subseteq mails'
  PROVE  Inv'
<1>1. TypeOK /\ RowsRight /\ StepsAreSet /\ ClosesAreEarned /\ ClosedAfterSecond
  BY Parts
<1>2. TypeOK'
  BY <1>1, Later DEF TypeOK, rows, ticket, work
<1>3. RowsRight' /\ (SecondLeft => SecondLeft')
  BY <1>1, SameRowsKeep
<1>4. StepsAreSet' /\ ClosesAreEarned'
  BY <1>1, <1>3, WorkStays
<1>5. ClosedAfterSecond'
  BY <1>1 DEF ClosedAfterSecond, rows, ticket
<1> QED
  BY <1>2, <1>3, <1>4, <1>5, Assembled

LEMMA HappenKeeps ==
  ASSUME Inv, NEW k \in MailKinds, Happen(k)
  PROVE  Inv'
<1>1. TypeOK
  BY Parts
<1>2. now' \in {now, now + 1} /\ now' = now + 1 /\ waited' = waited /\ now \in Nat
  BY <1>1, Ticks DEF Happen, TypeOK
<1>3. [at |-> now', is |-> k] \in [at : 1 .. now', is : MailKinds]
  BY <1>2
<1>4. mails' \subseteq [at : 1 .. now', is : MailKinds]
  BY <1>1, <1>2, <1>3, Later DEF Happen
<1>5. acts' \in 0 .. MaxActs
  BY <1>1, ActsAreBounded DEF Happen, Act, TypeOK
<1> QED
  BY <1>1, <1>2, <1>4, <1>5, OutsideKeeps, Later DEF Happen, TypeOK

LEMMA StoreKeeps ==
  ASSUME Inv, NEW m \in mails, Store(m)
  PROVE  Inv'
<1>1. TypeOK
  BY Parts
<1> QED
  BY <1>1, OutsideKeeps, Later DEF Store, TypeOK, clock

LEMMA WaitKeeps ==
  ASSUME Inv, Wait
  PROVE  Inv'
<1>1. TypeOK
  BY Parts
<1> QED
  BY <1>1, OutsideKeeps, Later DEF Wait, TypeOK, outside

-----------------------------------------------------------------------------
(* Outgoing rows                                                           *)

(* One row that is taken and not delivered gets another status, and        *)
(* perhaps a moment.                                                       *)
LEMMA RowKeeps ==
  ASSUME Inv, NEW r \in Rows, NEW x \in Statuses \ {"none"},
         status[r] \notin {"none", "gone", "sent"},
         status' = [status EXCEPT ![r] = x],
         UNCHANGED <<mails, stored, kind, made, ticket, work>>,
         now' \in {now, now + 1}, waited' = waited, acts' \in 0 .. MaxActs,
         NEW t \in 0 .. now', NEW u \in 0 .. now',
         approved' = [approved EXCEPT ![r] = t],
         sent' = [sent EXCEPT ![r] = u]
  PROVE  Inv'
<1>1. TypeOK /\ RowsRight /\ StepsAreSet /\ ClosesAreEarned /\ ClosedAfterSecond
  BY Parts
<1>2. /\ status'[r] = x /\ status' \in [Rows -> Statuses]
      /\ \A q \in Rows \ {r} :
           status'[q] = status[q] /\ approved'[q] = approved[q] /\ sent'[q] = sent[q]
  BY <1>1 DEF TypeOK
<1>3. TypeOK'
  <2>1. approved \in [Rows -> 0 .. now'] /\ sent \in [Rows -> 0 .. now']
    BY <1>1, Later
  <2>2. approved' \in [Rows -> 0 .. now'] /\ sent' \in [Rows -> 0 .. now']
    BY <2>1
  <2> QED
    BY <1>1, <1>2, <2>2, Later DEF TypeOK, ticket, work
<1>4. SentStays /\ SameRows
  BY <1>2 DEF SentStays, SameRows
<1>5. RowsRight' /\ (SecondLeft => SecondLeft')
  BY <1>1, <1>4, OldRowsKeep
<1>6. StepsAreSet' /\ ClosesAreEarned'
  BY <1>1, <1>5, WorkStays
<1>7. ClosedAfterSecond'
  BY <1>1, <1>4, CloseStays DEF ticket
<1> QED
  BY <1>3, <1>5, <1>6, <1>7, Assembled

LEMMA MailKeeps ==
  ASSUME Inv, NEW r \in Rows, Mail(r)
  PROVE  Inv'
<1>1. /\ TypeOK
      /\ approved = [approved EXCEPT ![r] = approved[r]] /\ approved[r] \in 0 .. now
      /\ sent = [sent EXCEPT ![r] = sent[r]] /\ sent[r] \in 0 .. now
      /\ acts \in 0 .. MaxActs /\ now \in Nat /\ 0 .. now \subseteq 0 .. now + 1
      /\ now + 1 \in 0 .. now + 1 /\ Never \in 0 .. now
      /\ Act => acts' \in 0 .. MaxActs
  <2>1. TypeOK
    BY Parts
  <2>2. approved \in [Rows -> 0 .. now] /\ sent \in [Rows -> 0 .. now]
    BY <2>1 DEF TypeOK
  <2>3. now \in Nat /\ acts \in 0 .. MaxActs
    BY <2>1 DEF TypeOK
  <2>4. now + 1 \in 0 .. now + 1 /\ Never \in 0 .. now /\ 0 .. now \subseteq 0 .. now + 1
    BY <2>3 DEF Never
  <2>5. Act => acts' \in 0 .. MaxActs
    BY <2>3, ActsAreBounded DEF Act
  <2> QED
    BY <2>1, <2>2, <2>3, <2>4, <2>5
<1>2. {"approved", "stopped", "sending", "sent", "failed", "unknown"} \subseteq Statuses \ {"none"}
  BY DEF Statuses
<1>3. CASE Approve(r)
  BY <1>1, <1>2, <1>3, RowKeeps DEF Approve, Tick
<1>4. CASE Reject(r)
  BY <1>1, <1>2, <1>4, RowKeeps DEF Reject, clock, outside
<1>5. CASE Claim(r)
  BY <1>1, <1>2, <1>5, RowKeeps DEF Claim, clock, outside
<1>6. CASE Delivered(r)
  BY <1>1, <1>2, <1>6, RowKeeps DEF Delivered, Tick, outside
<1>7. CASE Refused(r)
  <2>1. PICK to \in {"failed", "stopped"} : status' = [status EXCEPT ![r] = to]
    BY <1>7 DEF Refused
  <2>2. to \in Statuses \ {"none"}
    BY <1>2
  <2> QED
    BY <1>1, <1>7, <2>1, <2>2, RowKeeps DEF Refused, clock, outside
<1>8. CASE Lost(r)
  BY <1>1, <1>2, <1>8, RowKeeps DEF Lost, Tick, outside
<1>9. CASE ConfirmSent(r)
  <2>1. CASE Tick /\ sent' = [sent EXCEPT ![r] = now']
    BY <1>1, <1>2, <1>9, <2>1, RowKeeps DEF ConfirmSent, Tick, outside
  <2>2. CASE UNCHANGED <<clock, sent>>
    BY <1>1, <1>2, <1>9, <2>2, RowKeeps DEF ConfirmSent, clock, outside
  <2> QED
    BY <1>9, <2>1, <2>2 DEF ConfirmSent
<1>10. CASE ConfirmNotSent(r)
  BY <1>1, <1>2, <1>10, RowKeeps DEF ConfirmNotSent, clock
<1> QED
  BY <1>3, <1>4, <1>5, <1>6, <1>7, <1>8, <1>9, <1>10 DEF Mail

(* A person begins a reply: a new row that is no reminder, and an open     *)
(* reply that was overtaken is closed.                                     *)
LEMMA WriteKeeps ==
  ASSUME Inv, Write
  PROVE  Inv' /\ SentStays
<1>1. /\ TypeOK /\ RowsRight /\ StepsAreSet /\ ClosesAreEarned /\ ClosedAfterSecond
      /\ Numbered /\ Anchored
  BY Parts DEF RowsRight
<1>2. /\ now' \in {now, now + 1} /\ now' = now + 1 /\ waited' = waited
      /\ UNCHANGED <<mails, stored, approved, sent, ticket, work>>
      /\ acts' \in 0 .. MaxActs
  BY <1>1, Ticks, ActsAreBounded DEF Write, Act, TypeOK
<1>3. PICK r \in Unborn :
        /\ kind' = [kind EXCEPT ![r] = "reply"]
        /\ made' = [made EXCEPT ![r] = now']
        /\ status' = [q \in Rows |->
                        CASE q = r -> "draft"
                          [] OpenReplies # {} /\ q = Max(OpenReplies) -> "stopped"
                          [] OTHER -> status[q]]
  BY DEF Write
<1>4. /\ r \in Rows /\ status[r] = "none"
      /\ \A q \in Rows : q < r => status[q] # "none"
      /\ \A q \in Rows : q > r => status[q] = "none" /\ made[q] = Never
      /\ made' \in [Rows -> 0 .. now'] /\ made'[r] = now'
      /\ \A p, q \in Rows : p < q /\ made'[q] # Never =>
           Never < made'[p] /\ made'[p] < made'[q]
  BY <1>1, <1>2, <1>3, Born
<1>5. OpenReplies # {} => Max(OpenReplies) \in OpenReplies
  <2>1. OpenReplies \in SUBSET (0 .. MaxRows)
    BY RowsPositive DEF OpenReplies, Rows
  <2> QED
    BY <2>1, RowsPositive, MaxIsLast
<1>6. ASSUME NEW q \in Rows \ {r}
      PROVE  status'[q] = status[q] \/ (status[q] \in Unsent /\ status'[q] = "stopped")
  <2>1. CASE OpenReplies # {} /\ q = Max(OpenReplies)
    <3>1. status[q] \in Unsent
      BY <1>5, <2>1 DEF OpenReplies
    <3>2. status'[q] = "stopped"
      BY <1>3, <2>1
    <3> QED
      BY <3>1, <3>2
  <2>2. CASE ~ (OpenReplies # {} /\ q = Max(OpenReplies))
    BY <1>3, <2>2
  <2> QED
    BY <2>1, <2>2
<1>7. /\ kind'[r] = "reply" /\ status'[r] = "draft"
      /\ \A q \in Rows \ {r} : kind'[q] = kind[q] /\ made'[q] = made[q]
  <2>1. kind'[r] = "reply" /\ \A q \in Rows \ {r} : kind'[q] = kind[q] /\ made'[q] = made[q]
    BY <1>1, <1>3, <1>4 DEF TypeOK
  <2>2. ~ (OpenReplies # {} /\ r = Max(OpenReplies))
    BY <1>4, <1>5 DEF OpenReplies, Unsent
  <2>3. status'[r] = "draft"
    BY <1>3, <1>4, <2>2
  <2> QED
    BY <2>1, <2>3
<1>8. TypeOK'
  <2>1. ASSUME NEW q \in Rows PROVE status'[q] \in Statuses
    BY <1>1, <1>6, <1>7 DEF TypeOK, Statuses
  <2>2. status' = [q \in Rows |-> status'[q]]
    BY <1>3
  <2>3. status' \in [Rows -> Statuses]
    BY <2>1, <2>2
  <2>4. kind' \in [Rows -> Kinds]
    BY <1>1, <1>3 DEF TypeOK, Kinds
  <2> QED
    BY <1>1, <1>2, <1>4, <2>3, <2>4, Later DEF TypeOK, ticket, work
<1>9. SentStays
  BY <1>2, <1>4, <1>6, <1>7 DEF SentStays, Unsent
<1>10. Numbered'
  BY <1>1, <1>2, <1>4, <1>6, <1>7 DEF TypeOK, Numbered, Unsent, Never
<1>11. Anchored'
  BY <1>1, <1>9, RowsPositive DEF Anchored, SentStays, Rows
<1>12. ASSUME NEW q \in Rows, IsReminder(q)'
       PROVE  kind'[q] = kind[q] /\ made'[q] = made[q] /\ IsReminder(q)
  <2>1. q # r
    BY <1>7, <1>12 DEF IsReminder, ReminderKinds, First, Second
  <2> QED
    BY <1>6, <1>7, <1>12, <2>1 DEF IsReminder, Stored, Unsent
<1>13. OneOfEachPerCycle'
  <2> SUFFICES ASSUME NEW p \in Rows, NEW q \in Rows, p < q, IsReminder(p)', IsReminder(q)',
                      kind'[p] = kind'[q]
               PROVE  WroteBetween(made[p], made[q])'
    BY DEF OneOfEachPerCycle
  <2>1. WroteBetween(made[p], made[q])
    BY <1>1, <1>12 DEF RowsRight, OneOfEachPerCycle
  <2>2. made'[p] = made[p] /\ made'[q] = made[q]
    BY <1>12
  <2> QED
    BY <1>2, <1>9, <2>1, <2>2, WrittenIsWritten DEF WroteBetween
<1>14. FirstBeforeSecond'
  BY <1>1, <1>9, <1>12 DEF RowsRight, FirstBeforeSecond, SentStays
<1>15. SecondLeft => SecondLeft'
  BY <1>9 DEF SecondLeft, SentStays
<1>16. StepsAreSet' /\ ClosesAreEarned'
  BY <1>1, <1>2, <1>15, WorkStays
<1>17. ClosedAfterSecond'
  BY <1>1, <1>2, <1>9, CloseStays DEF ticket
<1> QED
  BY <1>8, <1>9, <1>10, <1>11, <1>13, <1>14, <1>16, <1>17, Assembled DEF RowsRight

-----------------------------------------------------------------------------
(* Theorems                                                                *)

LEMMA InvStart == Init => Inv
<1> SUFFICES ASSUME Init PROVE Inv
  OBVIOUS
<1>1. TypeOK /\ Aux
  BY TypesStart
<1>2. \A r \in Rows : ~IsReminder(r)
  BY DEF Init, IsReminder, ReminderKinds, First, Second
<1>3. OneOfEachPerCycle
  BY <1>2 DEF OneOfEachPerCycle
<1>4. LadderInOrder
  BY <1>2 DEF Init, LadderInOrder
<1> QED
  BY <1>1, <1>3, <1>4 DEF Inv

LEMMA InvStep == Inv /\ [Next]_vars => Inv'
<1> SUFFICES ASSUME Inv, [Next]_vars PROVE Inv'
  OBVIOUS
<1>1. CASE UNCHANGED vars
  <2>1. UNCHANGED <<clock, outside, rows, ticket, work>>
    BY <1>1 DEF vars
  <2>2. StepsAreSet' /\ ClosesAreEarned'
    BY <2>1, Parts, WorkStays DEF SecondLeft, rows
  <2> QED
    BY <2>1, <2>2, SweepMoves DEF Inv, TypeOK, work
<1> QED
  BY <1>1, SweepKeeps, HappenKeeps, StoreKeeps, PersonMovesKeeps, MailKeeps, WaitKeeps,
     WriteKeeps
  DEF Next

(* The invariant of the reminders holds for any number of sweeps, rows and *)
(* acts: rows are taken in order, there is a last mail of ours, whoever    *)
(* closes has seen a delivered second reminder.                            *)
THEOREM FollowupInvariance == Spec => []Inv
<1> QED
  BY InvStart, InvStep, PTL DEF Spec

(* Every variable keeps its type; rows are numbered in the order of their  *)
(* creation, and no moment is in the future.                               *)
THEOREM FollowupTyped == Spec => []TypeOK
<1>1. Inv => TypeOK
  BY DEF Inv
<1> QED
  BY <1>1, FollowupInvariance, PTL

(* The customer gets each reminder once for each mail of ours, however     *)
(* many sweeps run (_create_reminder, sequence_state, _committed_at).      *)
THEOREM OneReminderPerCycle == Spec => []OneOfEachPerCycle
<1>1. Inv => OneOfEachPerCycle
  BY DEF Inv
<1> QED
  BY <1>1, FollowupInvariance, PTL

(* Nobody gets the second reminder who did not get the first one before,   *)
(* and nothing is closed before the second one left (next_step).           *)
THEOREM LadderIsClimbed == Spec => []LadderInOrder
<1>1. Inv => LadderInOrder
  BY DEF Inv
<1> QED
  BY <1>1, FollowupInvariance, PTL

-----------------------------------------------------------------------------
(* The decision of a person                                                *)

DecisionStep == ~ClosedBySequence /\ ClosedBySequence' => closedAt' # closedAt

LEMMA MoveDecides ==
  ASSUME TypeOK, NEW to \in Stages, MoveStage(to), closedAt' = closedAt
  PROVE  DecisionStep
<1>1. CASE Released(to)
  <2>1. releasedAt' = now + 1 /\ closedAt \in 0 .. now /\ now \in Nat
    BY <1>1 DEF MoveStage, Tick, TypeOK
  <2> QED
    BY <2>1 DEF DecisionStep, ClosedBySequence
<1>2. CASE ~Released(to)
  <2>1. releasedAt' = releasedAt /\ stage' = to
    BY <1>2 DEF MoveStage
  <2>2. to = stage \/ closedAt = Never
    BY <1>2 DEF Released
  <2> QED
    BY <2>1, <2>2 DEF DecisionStep, ClosedBySequence
<1> QED
  BY <1>1, <1>2

LEMMA StaysDecided ==
  ASSUME UNCHANGED <<stage, closedAt, releasedAt>>
  PROVE  DecisionStep
BY DEF DecisionStep, ClosedBySequence

LEMMA Decides == TypeOK /\ [Next]_vars => DecisionStep
<1> SUFFICES ASSUME TypeOK, [Next]_vars PROVE DecisionStep
  OBVIOUS
<1>1. ASSUME NEW s \in Sweeps, Sweep(s) PROVE DecisionStep
  <2>1. CASE Close(s)
    BY <2>1, MoveDecides DEF Close, Stages
  <2>2. CASE Advance(s)
    BY <2>2, MoveDecides DEF Advance, Stages
  <2>3. CASE MarkClosed(s)
    <3>1. closedAt' = now + 1 /\ closedAt \in 0 .. now /\ now \in Nat
      BY <2>3 DEF MarkClosed, Tick, TypeOK
    <3> QED
      BY <3>1 DEF DecisionStep
  <2>4. CASE MarkRevived(s)
    BY <2>4, StaysDecided DEF MarkRevived
  <2> QED
    BY <1>1, <2>1, <2>2, <2>3, <2>4, StaysDecided
    DEF Sweep, SeeAnswer, Pick, Collect, CollectFails, Decide, InsertReminder, InsertNothing,
        AdvanceFails, Crash, ticket
<1>2. ASSUME NEW to \in Stages, Move(to) PROVE DecisionStep
  BY <1>2, MoveDecides DEF Move
<1>3. ASSUME NEW r \in Rows, Mail(r) PROVE DecisionStep
  BY <1>3, StaysDecided
  DEF Mail, Approve, Reject, Claim, Delivered, Refused, Lost, ConfirmSent, ConfirmNotSent, ticket
<1>4. CASE (\E k \in MailKinds : Happen(k)) \/ (\E m \in mails : Store(m)) \/ Wait \/ Write
  BY <1>4, StaysDecided DEF Happen, Store, Wait, Write, ticket
<1>5. CASE UNCHANGED vars
  BY <1>5, StaysDecided DEF vars, ticket
<1> QED
  BY <1>1, <1>2, <1>3, <1>4, <1>5 DEF Next

(* Once anyone moved a ticket that the sequence had closed, no step makes  *)
(* it count as closed by the sequence again, until the sequence closes it  *)
(* anew (closed_by_sequence, _close, the listener in db/models.py).        *)
THEOREM DecisionsStand == Spec => PersonsDecisionStands
<1>1. TypeOK /\ [Next]_vars => [DecisionStep]_vars
  BY Decides
<1> QED
  BY <1>1, FollowupTyped, PTL DEF Spec, PersonsDecisionStands, DecisionStep

-----------------------------------------------------------------------------
(* One sweep                                                               *)

(* The second reminder that a close rests on is later than the last close. *)
NewSecond ==
  closedAt # Never => \E r \in Rows : kind[r] = Second /\ status[r] = "sent" /\ sent[r] > closedAt

Heading(s) == Closing(s) \/ (pc[s] \in {"collecting", "deciding"} /\ step[s] = "close")
SecondsAreNew == \A s \in Sweeps : Heading(s) => NewSecond

CloseStep ==
  closedAt' # closedAt /\ closedAt # Never =>
    \E r \in Rows : kind[r] = Second /\ status[r] = "sent" /\ sent[r] > closedAt

(* No step takes a delivery back.                                          *)
LEMMA DeliveriesStay == Inv /\ [Next]_vars => SentStays
<1> SUFFICES ASSUME Inv, [Next]_vars PROVE SentStays
  OBVIOUS
<1>0. TypeOK
  BY Parts
<1>1. ASSUME UNCHANGED rows PROVE SentStays
  BY <1>1 DEF rows, SentStays
<1>2. ASSUME NEW s \in Sweeps, Sweep(s) PROVE SentStays
  <2>1. CASE InsertReminder(s)
    BY <2>1, InsertKeeps
  <2>2. CASE Close(s)
    BY <1>0, <2>2, DropsKeepRows DEF Close
  <2>3. CASE Advance(s)
    BY <1>0, <2>3, DropsKeepRows DEF Advance
  <2> QED
    BY <1>1, <1>2, <2>1, <2>2, <2>3
    DEF Sweep, SeeAnswer, Pick, Collect, CollectFails, Decide, InsertNothing,
        MarkClosed, AdvanceFails, MarkRevived, Crash
<1>3. ASSUME NEW to \in Stages, Move(to) PROVE SentStays
  BY <1>0, <1>3, DropsKeepRows DEF Move
<1>4. ASSUME NEW r \in Rows, Mail(r) PROVE SentStays
  <2>1. status[r] # "sent" /\ kind' = kind
    BY <1>4 DEF Mail, Approve, Reject, Claim, Delivered, Refused, Lost, ConfirmSent, ConfirmNotSent
  <2>2. ASSUME NEW q \in Rows \ {r}
        PROVE  status'[q] = status[q] /\ approved'[q] = approved[q] /\ sent'[q] = sent[q]
    BY <1>0, <1>4
    DEF TypeOK, Mail, Approve, Reject, Claim, Delivered, Refused, Lost, ConfirmSent, ConfirmNotSent
  <2> QED
    BY <2>1, <2>2 DEF SentStays
<1>5. CASE (\E k \in MailKinds : Happen(k)) \/ (\E m \in mails : Store(m)) \/ Wait
  BY <1>1, <1>5 DEF Happen, Store, Wait
<1>6. CASE UNCHANGED vars
  BY <1>1, <1>6 DEF vars
<1> QED
  BY <1>2, <1>3, <1>4, <1>5, <1>6, WriteKeeps DEF Next

LEMMA SecondsStay ==
  ASSUME SecondsAreNew, SentStays, closedAt' = closedAt,
         \A s \in Sweeps : Heading(s)' => Heading(s)
  PROVE  SecondsAreNew' /\ CloseStep
<1>1. NewSecond => NewSecond'
  BY DEF NewSecond, SentStays
<1> QED
  BY <1>1 DEF SecondsAreNew, CloseStep

(* It heads for a close only when the second reminder is newer.            *)
LEMMA PickIsNew ==
  ASSUME Inv, NEW s \in Sweeps, Pick(s), step'[s] = "close"
  PROVE  NewSecond
<1>1. TypeOK
  BY Parts
<1>2. PICK wanted \in Steps :
        /\ DueNow(wanted)
        /\ wanted = "close" => ~ClosedThisCycle
        /\ step' = [step EXCEPT ![s] = wanted]
  BY DEF Pick
<1>3. step'[s] = wanted
  BY <1>1, <1>2 DEF TypeOK
<1>4. NextIs("close") /\ ~ClosedThisCycle
  BY <1>2, <1>3 DEF DueNow
<1>5. Last(Second) \in Rows /\ kind[Last(Second)] = Second /\ status[Last(Second)] = "sent"
  BY <1>4, HadIsDelivered DEF NextIs
<1> QED
  BY <1>1, <1>4, <1>5 DEF ClosedThisCycle, NewSecond, TypeOK

LEMMA OneSweepSteps ==
  OneSweep /\ Inv /\ SecondsAreNew /\ [Next]_vars => SecondsAreNew' /\ CloseStep
<1> SUFFICES ASSUME OneSweep, Inv, SecondsAreNew, [Next]_vars
             PROVE  SecondsAreNew' /\ CloseStep
  OBVIOUS
<1>1. TypeOK /\ SentStays
  BY Parts, DeliveriesStay
<1>2. ASSUME UNCHANGED <<pc, step, closedAt>> PROVE SecondsAreNew' /\ CloseStep
  BY <1>1, <1>2, SecondsStay DEF Heading, Closing
<1>3. ASSUME NEW s \in Sweeps, Sweep(s) PROVE SecondsAreNew' /\ CloseStep
  <2>1. \A t \in Sweeps : t = s
    BY DEF OneSweep
  <2>2. CASE Pick(s)
    <3>1. /\ UNCHANGED <<rows, closedAt>> /\ pc'[s] = "collecting"
      BY <1>1, <2>2, Goes DEF Pick, ticket, Places
    <3>2. NewSecond => NewSecond'
      BY <1>1, <3>1 DEF NewSecond, SentStays
    <3>3. step'[s] = "close" => NewSecond'
      BY <2>2, <3>2, PickIsNew
    <3> QED
      BY <2>1, <3>1, <3>3 DEF SecondsAreNew, Heading, Closing, CloseStep
  <2>3. CASE MarkClosed(s)
    <3>1. pc'[s] = "idle"
      BY <1>1, <2>3, Rests DEF MarkClosed
    <3>2. Heading(s)
      BY <2>3 DEF MarkClosed, Heading, Closing
    <3> QED
      BY <2>1, <3>1, <3>2 DEF SecondsAreNew, NewSecond, Heading, Closing, CloseStep
  <2>4. ASSUME Rest(s), closedAt' = closedAt PROVE SecondsAreNew' /\ CloseStep
    <3>1. pc'[s] = "idle"
      BY <1>1, <2>4, Rests
    <3> QED
      BY <2>1, <2>4, <3>1 DEF SecondsAreNew, Heading, Closing, CloseStep
  <2>5. CASE Decide(s)
    <3>1. closedAt' = closedAt
      BY <2>5 DEF Decide, ticket
    <3>2. CASE Rest(s)
      BY <2>4, <3>1, <3>2
    <3>3. CASE ~Rest(s)
      <4>1. PICK to \in Places \ {"collecting", "deciding"} :
              /\ pc' = [pc EXCEPT ![s] = to] /\ UNCHANGED step
              /\ to \in {"closing", "marking_closed"} => step[s] = "close"
        BY <2>5, <3>3 DEF Decide, Places
      <4>2. pc'[s] = to
        BY <1>1, <4>1 DEF TypeOK
      <4>3. Heading(s)' => Heading(s)
        BY <2>5, <4>1, <4>2 DEF Heading, Closing, Decide
      <4> QED
        BY <1>1, <2>1, <3>1, <4>3, SecondsStay
    <3> QED
      BY <3>2, <3>3
  <2>6. CASE Collect(s)
    <3>1. /\ pc'[s] = "deciding" /\ pc[s] = "collecting" /\ UNCHANGED <<step, closedAt>>
      BY <1>1, <2>6, Goes DEF Collect, Places, ticket
    <3> QED
      BY <1>1, <2>1, <3>1, SecondsStay DEF Heading, Closing
  <2>7. CASE Close(s)
    <3>1. pc[s] = "closing" /\ closedAt' = closedAt
      BY <2>7 DEF Close, Go
    <3> QED
      BY <1>1, <2>1, <3>1, SecondsStay DEF Heading, Closing
  <2>8. ASSUME NEW to \in {"reviving", "advancing", "marking_revived"},
               pc' = [pc EXCEPT ![s] = to], closedAt' = closedAt
        PROVE  SecondsAreNew' /\ CloseStep
    <3>1. pc'[s] = to
      BY <1>1, <2>8 DEF TypeOK
    <3> QED
      BY <1>1, <2>1, <2>8, <3>1, SecondsStay DEF Heading, Closing
  <2>9. CASE SeeAnswer(s) \/ AdvanceFails(s)
    BY <2>8, <2>9 DEF SeeAnswer, AdvanceFails, Go, ticket
  <2>10. CASE Advance(s)
    BY <2>4, <2>8, <2>10 DEF Advance
  <2> QED
    BY <1>3, <2>2, <2>3, <2>4, <2>5, <2>6, <2>7, <2>9, <2>10
    DEF Sweep, CollectFails, InsertReminder, InsertNothing, MarkRevived, Crash, ticket
<1>4. ASSUME NEW r \in Rows, Mail(r) PROVE SecondsAreNew' /\ CloseStep
  BY <1>2, <1>4
  DEF Mail, Approve, Reject, Claim, Delivered, Refused, Lost, ConfirmSent, ConfirmNotSent,
      ticket, work
<1>5. CASE \/ \E k \in MailKinds : Happen(k)
           \/ \E m \in mails : Store(m)
           \/ \E to \in Stages : Move(to)
           \/ Wait \/ Write
  BY <1>2, <1>5 DEF Happen, Store, Move, Wait, Write, ticket, work
<1>6. CASE UNCHANGED vars
  BY <1>2, <1>6 DEF vars, ticket, work
<1> QED
  BY <1>3, <1>4, <1>5, <1>6 DEF Next

(* One sweep at a time: the sequence closes a ticket once for each pair of *)
(* reminders, although a person opens it again (_closed_this_cycle).       *)
THEOREM ClosedOnce == ASSUME OneSweep PROVE Spec => ClosedOncePerCycle
<1>1. Init => SecondsAreNew
  BY DEF Init, SecondsAreNew, Heading, Closing
<1>2. Inv /\ SecondsAreNew /\ [Next]_vars => SecondsAreNew' /\ [CloseStep]_vars
  BY OneSweepSteps
<1> QED
  BY <1>1, <1>2, FollowupInvariance, PTL DEF Spec, ClosedOncePerCycle, CloseStep

=============================================================================
