------------------------ MODULE ThreadHistoryProofs ------------------------
(***************************************************************************)
(* What ThreadHistory promises for any number of tickets and mails, any    *)
(* size of a sweep and any overlap: no mail that HubSpot has announced is  *)
(* lost while its thread is read, no mail is two lines, no deleted line    *)
(* comes back, and, if a sweep is quicker than the overlap, the window     *)
(* never leaves a mail behind.                                             *)
(***************************************************************************)
EXTENDS ThreadHistory, TLAPS

(* Nothing the server has written is later than its clock.                 *)
ClockLeads ==
  /\ now >= 1
  /\ \A m \in Mails : inbox[m] <= now
  /\ \A t \in Tickets : requested[t] <= now /\ synced[t] <= now
  /\ polled <= now
  /\ until <= now
  /\ started <= now

(* What is asked for stands in the thread.                                 *)
MarkedStands ==
  /\ \A m \in marked : m \in thread[ThreadOf[m]]
  /\ \A t \in Tickets : \A m \in thread[t] : ThreadOf[m] = t

(* A reading misses only what was asked for after it began.                *)
ReadingSees ==
  /\ pc \in {"read", "store"} => ticket \in Tickets /\ started >= 1
  /\ pc = "store" =>
       \A m \in marked : ThreadOf[m] = ticket =>
         m \in seen \/ requested[ticket] >= started

(* A sweep of the mailbox reads only what has no line and no tombstone.    *)
BatchIsNew ==
  \A m \in batch : pc = "mail" /\ row[Gmail(m)] = Absent /\ Gmail(m) \notin tomb

(* What the sweep under way will have left behind is young enough.         *)
SweepLeaves ==
  pc = "mail" =>
    /\ started >= 1
    /\ \A m \in batch : inbox[m] # Never /\ inbox[m] <= now
    /\ ~left => \A m \in Mails : Wanted(m) => m \in batch \/ inbox[m] >= started
    /\ left => /\ \A m \in batch : inbox[m] >= until
               /\ \A m \in Mails \ batch : Wanted(m) =>
                    /\ inbox[m] >= until
                    /\ \A n \in batch : inbox[m] >= inbox[n]

(* Our own mails reach the mailbox by the send that puts them in a thread. *)
SentStands == \A m \in Ours : inbox[m] # Never => m \in thread[ThreadOf[m]]

(* A quick sweep: the clock has not run past the overlap.                  *)
SweepIsQuick == pc = "mail" => now <= started + Overlap

LEMMA ConstantsTyped ==
  /\ MaxTicket \in Nat \ {0} /\ MaxTime \in Nat \ {0} /\ Overlap \in Nat
  /\ Ours \subseteq Mails
  /\ ThreadOf \in [Mails -> Tickets]
  /\ \A m \in Mails : ThreadOf[m] \in Tickets
  /\ Tickets \subseteq Nat /\ 0 \notin Tickets
BY SomeTickets, TimesAreNumbers, OursAreMails, ThreadsAreTickets DEF Tickets

LEMMA CopiesTyped ==
  /\ \A m \in Mails : Conv(m) \in Copies /\ Gmail(m) \in Copies
  /\ \A m, n : Conv(m) # Gmail(n)
  /\ \A m, n : Conv(m) = Conv(n) => m = n
  /\ \A m, n : Gmail(m) = Gmail(n) => m = n
BY DEF Conv, Gmail, Copies, Places

-----------------------------------------------------------------------------
(* Types                                                                   *)

TimesTyped ==
  /\ now \in Times
  /\ inbox \in [Mails -> Times]
  /\ requested \in [Tickets -> Times]
  /\ synced \in [Tickets -> Times]
  /\ polled \in Times
  /\ started \in Times
  /\ until \in Times

ReadingTyped ==
  /\ thread \in [Tickets -> SUBSET Mails]
  /\ marked \subseteq Mails
  /\ failed \subseteq Tickets
  /\ pc \in {"idle", "queue", "read", "store", "mail"}
  /\ pending \subseteq Tickets
  /\ ticket \in 0..MaxTicket
  /\ pc \in {"read", "store"} => ticket \in Tickets
  /\ seen \subseteq Mails
  /\ batch \subseteq Mails
  /\ left \in BOOLEAN

RowsTyped ==
  /\ row \in [Copies -> 0..MaxTicket]
  /\ tomb \subseteq Copies

RepliesTyped ==
  reply \in [Ours -> {"unsent", "sending", "unknown", "confirmed", "keyed"}]

Typed == TimesTyped /\ ReadingTyped /\ RowsTyped /\ RepliesTyped

LEMMA TypedIsTypeOK == Typed => TypeOK
BY DEF Typed, TimesTyped, ReadingTyped, RowsTyped, RepliesTyped, TypeOK

LEMMA InitTyped == Init => Typed
<1> USE ConstantsTyped
<1>1. Init => TimesTyped
  BY DEF Init, TimesTyped, Times, Never
<1>2. Init => ReadingTyped
  <2>1. 0 \in 0..MaxTicket /\ {} \in SUBSET Mails
    OBVIOUS
  <2>2. QED
    BY <2>1 DEF Init, ReadingTyped
<1>3. Init => RowsTyped
  BY DEF Init, RowsTyped, Absent
<1>4. Init => RepliesTyped
  BY DEF Init, RepliesTyped
<1>5. QED
  BY <1>1, <1>2, <1>3, <1>4 DEF Typed

LEMMA TimesStep ==
  ASSUME TimesTyped, ReadingTyped, [Next]_vars
  PROVE  TimesTyped'
<1> USE ConstantsTyped
<1>1. CASE CollectFails
  BY <1>1 DEF CollectFails, TicketDone, Times, Never, TimesTyped,
     ReadingTyped, outside, queue, rows, sweep
<1>2. CASE Store
  BY <1>2 DEF Store, Stamp, TicketDone, Times, Never, TimesTyped,
     ReadingTyped, outside, queue, sweep
<1>3. CASE Tick
  BY <1>3 DEF Tick, Early, Times, TimesTyped, outside, queue, rows, reading,
     sweep
<1>4. CASE Restart
  BY <1>4 DEF Restart, Early, Times, Never, TimesTyped, outside, queue, rows
<1>5. CASE StartRound
  BY <1>5 DEF StartRound, Times, TimesTyped, outside, queue, rows, sweep
<1>6. CASE Collect
  BY <1>6 DEF Collect, Times, TimesTyped, outside, queue, rows, sweep
<1>7. CASE OpenMailbox
  BY <1>7 DEF OpenMailbox, Times, Never, TimesTyped, outside, queue, rows
<1>8. CASE CloseMailbox
  BY <1>8 DEF CloseMailbox, SweepOver, Window, Times, Never, TimesTyped,
     outside, queue, rows
<1>9. CASE MailboxFails
  BY <1>9 DEF MailboxFails, SweepOver, Times, Never, TimesTyped, outside,
     queue, rows
<1>10. ASSUME NEW t \in Tickets, TakeTicket(t) PROVE TimesTyped'
  BY <1>10 DEF TakeTicket, Times, TimesTyped, outside, queue, rows, sweep
<1>11. ASSUME NEW t \in Tickets, MarkStale(t) PROVE TimesTyped'
  BY <1>11 DEF MarkStale, Early, Mark, Times, TimesTyped, outside, queue,
     rows, reading, sweep
<1>12. ASSUME NEW m \in Mails, ReadMail(m) PROVE TimesTyped'
  BY <1>12 DEF ReadMail, Times, TimesTyped, outside, queue, reading
<1>13. ASSUME NEW m \in Mails, SkipMail(m) PROVE TimesTyped'
  BY <1>13 DEF SkipMail, Times, TimesTyped, outside, queue, rows, reading
<1>14. ASSUME NEW m \in Mails, ArriveInThread(m) PROVE TimesTyped'
  BY <1>14 DEF ArriveInThread, Early, Times, TimesTyped, queue, rows, reading,
     sweep
<1>15. ASSUME NEW m \in Mails, ArriveInMailbox(m) PROVE TimesTyped'
  BY <1>15 DEF ArriveInMailbox, Early, Times, Never, TimesTyped, queue, rows,
     reading, sweep
<1>16. ASSUME NEW m \in Mails, NEW p \in Places, DeleteRow(m, p) PROVE
   TimesTyped'
  BY <1>16 DEF DeleteRow, Times, TimesTyped, outside, queue, reading, sweep
<1>17. ASSUME NEW m \in Ours, StartSend(m) PROVE TimesTyped'
  BY <1>17 DEF StartSend, Times, TimesTyped, outside, queue, rows, reading,
     sweep
<1>18. ASSUME NEW m \in Ours, Deliver(m) PROVE TimesTyped'
  BY <1>18 DEF Deliver, Early, Times, TimesTyped, queue, rows, reading, sweep
<1>19. ASSUME NEW m \in Ours, RecordDelivery(m) PROVE TimesTyped'
  BY <1>19 DEF RecordDelivery, Times, TimesTyped, outside, queue, rows,
     reading, sweep
<1>20. ASSUME NEW m \in Ours, LoseAnswer(m) PROVE TimesTyped'
  BY <1>20 DEF LoseAnswer, Early, Mark, Times, TimesTyped, outside, queue,
     rows, reading, sweep
<1>21. ASSUME NEW m \in Ours, ConfirmByHand(m) PROVE TimesTyped'
  BY <1>21 DEF ConfirmByHand, Times, TimesTyped, outside, queue, rows,
     reading, sweep
<1>22. CASE UNCHANGED vars
  BY <1>22 DEF Times, TimesTyped, outside, queue, rows, reading, sweep, vars
<1>23. QED
  BY <1>1, <1>2, <1>3, <1>4, <1>5, <1>6, <1>7, <1>8, <1>9, <1>10, <1>11,
     <1>12, <1>13, <1>14, <1>15, <1>16, <1>17, <1>18, <1>19, <1>20, <1>21,
     <1>22 DEF Next, Poller, World

LEMMA ReadingStep ==
  ASSUME ReadingTyped, [Next]_vars
  PROVE  ReadingTyped'
<1> USE ConstantsTyped
<1>1. CASE Restart
  BY <1>1, 0 \in 0..MaxTicket DEF Restart, ReadingTyped, outside, queue, rows
<1>2. CASE StartRound
  BY <1>2 DEF StartRound, FirstDue, ReadingTyped, outside, queue, rows, sweep
<1>3. CASE OpenMailbox
  BY <1>3 DEF OpenMailbox, FirstOf, Fresh, ReadingTyped, outside, queue, rows
<1>4. CASE Tick
  BY <1>4 DEF Tick, Early, Tickets, ReadingTyped, outside, queue, rows,
     reading, sweep
<1>5. CASE Collect
  BY <1>5 DEF Collect, Tickets, ReadingTyped, outside, queue, rows, sweep
<1>6. CASE CollectFails
  BY <1>6 DEF CollectFails, TicketDone, Tickets, ReadingTyped, outside, queue,
     rows, sweep
<1>7. CASE Store
  BY <1>7 DEF Store, TicketDone, Tickets, ReadingTyped, outside, queue, sweep
<1>8. CASE CloseMailbox
  BY <1>8 DEF CloseMailbox, SweepOver, Tickets, ReadingTyped, outside, queue,
     rows
<1>9. CASE MailboxFails
  BY <1>9 DEF MailboxFails, SweepOver, Tickets, ReadingTyped, outside, queue,
     rows
<1>10. ASSUME NEW t \in Tickets, TakeTicket(t) PROVE ReadingTyped'
  BY <1>10 DEF TakeTicket, Tickets, ReadingTyped, outside, queue, rows, sweep
<1>11. ASSUME NEW t \in Tickets, MarkStale(t) PROVE ReadingTyped'
  BY <1>11 DEF MarkStale, Early, Mark, Tickets, ReadingTyped, outside, queue,
     rows, reading, sweep
<1>12. ASSUME NEW m \in Mails, ReadMail(m) PROVE ReadingTyped'
  BY <1>12 DEF ReadMail, Tickets, ReadingTyped, outside, queue, reading
<1>13. ASSUME NEW m \in Mails, SkipMail(m) PROVE ReadingTyped'
  BY <1>13 DEF SkipMail, Tickets, ReadingTyped, outside, queue, rows, reading
<1>14. ASSUME NEW m \in Mails, ArriveInThread(m) PROVE ReadingTyped'
  BY <1>14 DEF ArriveInThread, Early, Tickets, ReadingTyped, queue, rows,
     reading, sweep
<1>15. ASSUME NEW m \in Mails, ArriveInMailbox(m) PROVE ReadingTyped'
  BY <1>15 DEF ArriveInMailbox, Early, Tickets, ReadingTyped, queue, rows,
     reading, sweep
<1>16. ASSUME NEW m \in Mails, NEW p \in Places, DeleteRow(m, p) PROVE
   ReadingTyped'
  BY <1>16 DEF DeleteRow, Tickets, ReadingTyped, outside, queue, reading, sweep
<1>17. ASSUME NEW m \in Ours, StartSend(m) PROVE ReadingTyped'
  BY <1>17 DEF StartSend, Tickets, ReadingTyped, outside, queue, rows,
     reading, sweep
<1>18. ASSUME NEW m \in Ours, Deliver(m) PROVE ReadingTyped'
  BY <1>18 DEF Deliver, Early, Tickets, ReadingTyped, queue, rows, reading,
     sweep
<1>19. ASSUME NEW m \in Ours, RecordDelivery(m) PROVE ReadingTyped'
  BY <1>19 DEF RecordDelivery, Tickets, ReadingTyped, outside, queue, rows,
     reading, sweep
<1>20. ASSUME NEW m \in Ours, LoseAnswer(m) PROVE ReadingTyped'
  BY <1>20 DEF LoseAnswer, Early, Mark, Tickets, ReadingTyped, outside, queue,
     rows, reading, sweep
<1>21. ASSUME NEW m \in Ours, ConfirmByHand(m) PROVE ReadingTyped'
  BY <1>21 DEF ConfirmByHand, Tickets, ReadingTyped, outside, queue, rows,
     reading, sweep
<1>22. CASE UNCHANGED vars
  BY <1>22 DEF Tickets, ReadingTyped, outside, queue, rows, reading, sweep,
     vars
<1>23. QED
  BY <1>1, <1>2, <1>3, <1>4, <1>5, <1>6, <1>7, <1>8, <1>9, <1>10, <1>11,
     <1>12, <1>13, <1>14, <1>15, <1>16, <1>17, <1>18, <1>19, <1>20, <1>21,
     <1>22 DEF Next, Poller, World

LEMMA RowsStep ==
  ASSUME ReadingTyped, RowsTyped, [Next]_vars
  PROVE  RowsTyped'
<1> USE ConstantsTyped
<1>1. CASE Store
  BY <1>1, CopiesTyped DEF Store, New, Twins, InThread, TicketDone, Absent,
     Tickets, ReadingTyped, RowsTyped, outside, queue, sweep
<1>2. ASSUME NEW m \in Mails, ReadMail(m) PROVE RowsTyped'
  BY <1>2, CopiesTyped DEF ReadMail, Newest, RowsTyped, outside, queue, reading
<1>3. ASSUME NEW m \in Mails, NEW p \in Places, DeleteRow(m, p) PROVE
   RowsTyped'
  BY <1>3 DEF DeleteRow, Absent, Copies, RowsTyped, outside, queue, reading,
     sweep
<1>4. CASE Tick
  BY <1>4 DEF Tick, Early, RowsTyped, outside, queue, rows, reading, sweep
<1>5. CASE Restart
  BY <1>5 DEF Restart, Early, RowsTyped, outside, queue, rows
<1>6. CASE StartRound
  BY <1>6 DEF StartRound, RowsTyped, outside, queue, rows, sweep
<1>7. CASE Collect
  BY <1>7 DEF Collect, RowsTyped, outside, queue, rows, sweep
<1>8. CASE CollectFails
  BY <1>8 DEF CollectFails, TicketDone, RowsTyped, outside, queue, rows, sweep
<1>9. CASE OpenMailbox
  BY <1>9 DEF OpenMailbox, RowsTyped, outside, queue, rows
<1>10. CASE CloseMailbox
  BY <1>10 DEF CloseMailbox, SweepOver, RowsTyped, outside, queue, rows
<1>11. CASE MailboxFails
  BY <1>11 DEF MailboxFails, SweepOver, RowsTyped, outside, queue, rows
<1>12. ASSUME NEW t \in Tickets, TakeTicket(t) PROVE RowsTyped'
  BY <1>12 DEF TakeTicket, RowsTyped, outside, queue, rows, sweep
<1>13. ASSUME NEW t \in Tickets, MarkStale(t) PROVE RowsTyped'
  BY <1>13 DEF MarkStale, Early, Mark, RowsTyped, outside, queue, rows,
     reading, sweep
<1>14. ASSUME NEW m \in Mails, SkipMail(m) PROVE RowsTyped'
  BY <1>14 DEF SkipMail, RowsTyped, outside, queue, rows, reading
<1>15. ASSUME NEW m \in Mails, ArriveInThread(m) PROVE RowsTyped'
  BY <1>15 DEF ArriveInThread, Early, RowsTyped, queue, rows, reading, sweep
<1>16. ASSUME NEW m \in Mails, ArriveInMailbox(m) PROVE RowsTyped'
  BY <1>16 DEF ArriveInMailbox, Early, RowsTyped, queue, rows, reading, sweep
<1>17. ASSUME NEW m \in Ours, StartSend(m) PROVE RowsTyped'
  BY <1>17 DEF StartSend, RowsTyped, outside, queue, rows, reading, sweep
<1>18. ASSUME NEW m \in Ours, Deliver(m) PROVE RowsTyped'
  BY <1>18 DEF Deliver, Early, RowsTyped, queue, rows, reading, sweep
<1>19. ASSUME NEW m \in Ours, RecordDelivery(m) PROVE RowsTyped'
  BY <1>19 DEF RecordDelivery, RowsTyped, outside, queue, rows, reading, sweep
<1>20. ASSUME NEW m \in Ours, LoseAnswer(m) PROVE RowsTyped'
  BY <1>20 DEF LoseAnswer, Early, Mark, RowsTyped, outside, queue, rows,
     reading, sweep
<1>21. ASSUME NEW m \in Ours, ConfirmByHand(m) PROVE RowsTyped'
  BY <1>21 DEF ConfirmByHand, RowsTyped, outside, queue, rows, reading, sweep
<1>22. CASE UNCHANGED vars
  BY <1>22 DEF RowsTyped, outside, queue, rows, reading, sweep, vars
<1>23. QED
  BY <1>1, <1>2, <1>3, <1>4, <1>5, <1>6, <1>7, <1>8, <1>9, <1>10, <1>11,
     <1>12, <1>13, <1>14, <1>15, <1>16, <1>17, <1>18, <1>19, <1>20, <1>21,
     <1>22 DEF Next, Poller, World

LEMMA RepliesStep ==
  ASSUME RepliesTyped, [Next]_vars
  PROVE  RepliesTyped'
<1> USE ConstantsTyped
<1>1. CASE Store
  BY <1>1 DEF Store, TicketDone, RepliesTyped, outside, queue, sweep
<1>2. CASE Tick
  BY <1>2 DEF Tick, Early, RepliesTyped, outside, queue, rows, reading, sweep
<1>3. CASE Restart
  BY <1>3 DEF Restart, Early, RepliesTyped, outside, queue, rows
<1>4. CASE StartRound
  BY <1>4 DEF StartRound, RepliesTyped, outside, queue, rows, sweep
<1>5. CASE Collect
  BY <1>5 DEF Collect, RepliesTyped, outside, queue, rows, sweep
<1>6. CASE CollectFails
  BY <1>6 DEF CollectFails, TicketDone, RepliesTyped, outside, queue, rows,
     sweep
<1>7. CASE OpenMailbox
  BY <1>7 DEF OpenMailbox, RepliesTyped, outside, queue, rows
<1>8. CASE CloseMailbox
  BY <1>8 DEF CloseMailbox, SweepOver, RepliesTyped, outside, queue, rows
<1>9. CASE MailboxFails
  BY <1>9 DEF MailboxFails, SweepOver, RepliesTyped, outside, queue, rows
<1>10. ASSUME NEW t \in Tickets, TakeTicket(t) PROVE RepliesTyped'
  BY <1>10 DEF TakeTicket, RepliesTyped, outside, queue, rows, sweep
<1>11. ASSUME NEW t \in Tickets, MarkStale(t) PROVE RepliesTyped'
  BY <1>11 DEF MarkStale, Early, Mark, RepliesTyped, outside, rows, reading,
     sweep
<1>12. ASSUME NEW m \in Mails, ReadMail(m) PROVE RepliesTyped'
  BY <1>12 DEF ReadMail, RepliesTyped, outside, queue, reading
<1>13. ASSUME NEW m \in Mails, SkipMail(m) PROVE RepliesTyped'
  BY <1>13 DEF SkipMail, RepliesTyped, outside, queue, rows, reading
<1>14. ASSUME NEW m \in Mails, ArriveInThread(m) PROVE RepliesTyped'
  BY <1>14 DEF ArriveInThread, Early, RepliesTyped, queue, rows, reading, sweep
<1>15. ASSUME NEW m \in Mails, ArriveInMailbox(m) PROVE RepliesTyped'
  BY <1>15 DEF ArriveInMailbox, Early, RepliesTyped, queue, rows, reading,
     sweep
<1>16. ASSUME NEW m \in Mails, NEW p \in Places, DeleteRow(m, p) PROVE
   RepliesTyped'
  BY <1>16 DEF DeleteRow, RepliesTyped, outside, queue, reading, sweep
<1>17. ASSUME NEW m \in Ours, StartSend(m) PROVE RepliesTyped'
  BY <1>17 DEF StartSend, RepliesTyped, outside, queue, rows, reading, sweep
<1>18. ASSUME NEW m \in Ours, Deliver(m) PROVE RepliesTyped'
  BY <1>18 DEF Deliver, Early, RepliesTyped, queue, rows, reading, sweep
<1>19. ASSUME NEW m \in Ours, RecordDelivery(m) PROVE RepliesTyped'
  BY <1>19 DEF RecordDelivery, RepliesTyped, outside, queue, rows, reading,
     sweep
<1>20. ASSUME NEW m \in Ours, LoseAnswer(m) PROVE RepliesTyped'
  BY <1>20 DEF LoseAnswer, Early, Mark, RepliesTyped, outside, rows, reading,
     sweep
<1>21. ASSUME NEW m \in Ours, ConfirmByHand(m) PROVE RepliesTyped'
  BY <1>21 DEF ConfirmByHand, RepliesTyped, outside, queue, rows, reading,
     sweep
<1>22. CASE UNCHANGED vars
  BY <1>22 DEF RepliesTyped, outside, queue, rows, reading, sweep, vars
<1>23. QED
  BY <1>1, <1>2, <1>3, <1>4, <1>5, <1>6, <1>7, <1>8, <1>9, <1>10, <1>11,
     <1>12, <1>13, <1>14, <1>15, <1>16, <1>17, <1>18, <1>19, <1>20, <1>21,
     <1>22 DEF Next, Poller, World

LEMMA TypedStep ==
  ASSUME Typed, [Next]_vars
  PROVE  Typed'
BY TimesStep, ReadingStep, RowsStep, RepliesStep DEF Typed

-----------------------------------------------------------------------------
(* The queue of threads                                                    *)

LEMMA ClockStep ==
  ASSUME Typed, ClockLeads, [Next]_vars
  PROVE  ClockLeads'
<1> USE ConstantsTyped
<1>1. CASE Store
  BY <1>1 DEF Store, TicketDone, Stamp, Times, Never, ClockLeads, Typed,
     TimesTyped, ReadingTyped, outside, queue, sweep
<1>2. CASE Tick
  BY <1>2 DEF Tick, Early, Times, ClockLeads, Typed, TimesTyped, ReadingTyped,
     outside, queue, rows, reading, sweep
<1>3. CASE Restart
  BY <1>3 DEF Restart, Early, Times, Never, ClockLeads, Typed, TimesTyped,
     ReadingTyped, outside, queue, rows
<1>4. CASE StartRound
  BY <1>4 DEF StartRound, Times, ClockLeads, Typed, TimesTyped, ReadingTyped,
     outside, queue, rows, sweep
<1>5. CASE Collect
  BY <1>5 DEF Collect, Times, ClockLeads, Typed, TimesTyped, ReadingTyped,
     outside, queue, rows, sweep
<1>6. CASE CollectFails
  BY <1>6 DEF CollectFails, TicketDone, Times, Never, ClockLeads, Typed,
     TimesTyped, ReadingTyped, outside, queue, rows, sweep
<1>7. CASE OpenMailbox
  BY <1>7 DEF OpenMailbox, Times, Never, ClockLeads, Typed, TimesTyped,
     ReadingTyped, outside, queue, rows
<1>8. CASE CloseMailbox
  BY <1>8 DEF CloseMailbox, SweepOver, Window, Times, Never, ClockLeads,
     Typed, TimesTyped, ReadingTyped, outside, queue, rows
<1>9. CASE MailboxFails
  BY <1>9 DEF MailboxFails, SweepOver, Times, Never, ClockLeads, Typed,
     TimesTyped, ReadingTyped, outside, queue, rows
<1>10. ASSUME NEW t \in Tickets, TakeTicket(t) PROVE ClockLeads'
  BY <1>10 DEF TakeTicket, Times, ClockLeads, Typed, TimesTyped, ReadingTyped,
     outside, queue, rows, sweep
<1>11. ASSUME NEW t \in Tickets, MarkStale(t) PROVE ClockLeads'
  BY <1>11 DEF MarkStale, Early, Mark, Times, ClockLeads, Typed, TimesTyped,
     ReadingTyped, outside, queue, rows, reading, sweep
<1>12. ASSUME NEW m \in Mails, ReadMail(m) PROVE ClockLeads'
  BY <1>12 DEF ReadMail, Times, ClockLeads, Typed, TimesTyped, ReadingTyped,
     outside, queue, reading
<1>13. ASSUME NEW m \in Mails, SkipMail(m) PROVE ClockLeads'
  BY <1>13 DEF SkipMail, Times, ClockLeads, Typed, TimesTyped, ReadingTyped,
     outside, queue, rows, reading
<1>14. ASSUME NEW m \in Mails, ArriveInThread(m) PROVE ClockLeads'
  BY <1>14 DEF ArriveInThread, Early, Times, ClockLeads, Typed, TimesTyped,
     ReadingTyped, queue, rows, reading, sweep
<1>15. ASSUME NEW m \in Mails, ArriveInMailbox(m) PROVE ClockLeads'
  BY <1>15 DEF ArriveInMailbox, Early, Times, Never, ClockLeads, Typed,
     TimesTyped, ReadingTyped, queue, rows, reading, sweep
<1>16. ASSUME NEW m \in Mails, NEW p \in Places, DeleteRow(m, p) PROVE
   ClockLeads'
  BY <1>16 DEF DeleteRow, Times, ClockLeads, Typed, TimesTyped, ReadingTyped,
     outside, queue, reading, sweep
<1>17. ASSUME NEW m \in Ours, StartSend(m) PROVE ClockLeads'
  BY <1>17 DEF StartSend, Times, ClockLeads, Typed, TimesTyped, ReadingTyped,
     outside, queue, rows, reading, sweep
<1>18. ASSUME NEW m \in Ours, Deliver(m) PROVE ClockLeads'
  BY <1>18 DEF Deliver, Early, Times, ClockLeads, Typed, TimesTyped,
     ReadingTyped, queue, rows, reading, sweep
<1>19. ASSUME NEW m \in Ours, RecordDelivery(m) PROVE ClockLeads'
  BY <1>19 DEF RecordDelivery, Times, ClockLeads, Typed, TimesTyped,
     ReadingTyped, outside, queue, rows, reading, sweep
<1>20. ASSUME NEW m \in Ours, LoseAnswer(m) PROVE ClockLeads'
  BY <1>20 DEF LoseAnswer, Early, Mark, Times, ClockLeads, Typed, TimesTyped,
     ReadingTyped, outside, queue, rows, reading, sweep
<1>21. ASSUME NEW m \in Ours, ConfirmByHand(m) PROVE ClockLeads'
  BY <1>21 DEF ConfirmByHand, Times, ClockLeads, Typed, TimesTyped,
     ReadingTyped, outside, queue, rows, reading, sweep
<1>22. CASE UNCHANGED vars
  BY <1>22 DEF Times, ClockLeads, Typed, TimesTyped, ReadingTyped, outside,
     queue, rows, reading, sweep, vars
<1>23. QED
  BY <1>1, <1>2, <1>3, <1>4, <1>5, <1>6, <1>7, <1>8, <1>9, <1>10, <1>11,
     <1>12, <1>13, <1>14, <1>15, <1>16, <1>17, <1>18, <1>19, <1>20, <1>21,
     <1>22 DEF Next, Poller, World

LEMMA MarkedStep ==
  ASSUME Typed, MarkedStands, [Next]_vars
  PROVE  MarkedStands'
<1> USE ConstantsTyped
<1>1. CASE Store
  BY <1>1 DEF Store, TicketDone, MarkedStands, Typed, TimesTyped,
     ReadingTyped, outside, queue, sweep
<1>2. CASE Tick
  BY <1>2 DEF Tick, Early, MarkedStands, Typed, TimesTyped, ReadingTyped,
     outside, queue, rows, reading, sweep
<1>3. CASE Restart
  BY <1>3 DEF Restart, Early, MarkedStands, Typed, TimesTyped, ReadingTyped,
     outside, queue, rows
<1>4. CASE StartRound
  BY <1>4 DEF StartRound, MarkedStands, Typed, TimesTyped, ReadingTyped,
     outside, queue, rows, sweep
<1>5. CASE Collect
  BY <1>5 DEF Collect, MarkedStands, Typed, TimesTyped, ReadingTyped, outside,
     queue, rows, sweep
<1>6. CASE CollectFails
  BY <1>6 DEF CollectFails, TicketDone, MarkedStands, Typed, TimesTyped,
     ReadingTyped, outside, queue, rows, sweep
<1>7. CASE OpenMailbox
  BY <1>7 DEF OpenMailbox, MarkedStands, Typed, TimesTyped, ReadingTyped,
     outside, queue, rows
<1>8. CASE CloseMailbox
  BY <1>8 DEF CloseMailbox, SweepOver, MarkedStands, Typed, TimesTyped,
     ReadingTyped, outside, queue, rows
<1>9. CASE MailboxFails
  BY <1>9 DEF MailboxFails, SweepOver, MarkedStands, Typed, TimesTyped,
     ReadingTyped, outside, queue, rows
<1>10. ASSUME NEW t \in Tickets, TakeTicket(t) PROVE MarkedStands'
  BY <1>10 DEF TakeTicket, MarkedStands, Typed, TimesTyped, ReadingTyped,
     outside, queue, rows, sweep
<1>11. ASSUME NEW t \in Tickets, MarkStale(t) PROVE MarkedStands'
  BY <1>11 DEF MarkStale, Early, Mark, MarkedStands, Typed, TimesTyped,
     ReadingTyped, outside, queue, rows, reading, sweep
<1>12. ASSUME NEW m \in Mails, ReadMail(m) PROVE MarkedStands'
  BY <1>12 DEF ReadMail, MarkedStands, Typed, TimesTyped, ReadingTyped,
     outside, queue, reading
<1>13. ASSUME NEW m \in Mails, SkipMail(m) PROVE MarkedStands'
  BY <1>13 DEF SkipMail, MarkedStands, Typed, TimesTyped, ReadingTyped,
     outside, queue, rows, reading
<1>14. ASSUME NEW m \in Mails, ArriveInThread(m) PROVE MarkedStands'
  BY <1>14 DEF ArriveInThread, Early, MarkedStands, Typed, TimesTyped,
     ReadingTyped, queue, rows, reading, sweep
<1>15. ASSUME NEW m \in Mails, ArriveInMailbox(m) PROVE MarkedStands'
  BY <1>15 DEF ArriveInMailbox, Early, MarkedStands, Typed, TimesTyped,
     ReadingTyped, queue, rows, reading, sweep
<1>16. ASSUME NEW m \in Mails, NEW p \in Places, DeleteRow(m, p) PROVE
   MarkedStands'
  BY <1>16 DEF DeleteRow, MarkedStands, Typed, TimesTyped, ReadingTyped,
     outside, queue, reading, sweep
<1>17. ASSUME NEW m \in Ours, StartSend(m) PROVE MarkedStands'
  BY <1>17 DEF StartSend, MarkedStands, Typed, TimesTyped, ReadingTyped,
     outside, queue, rows, reading, sweep
<1>18. ASSUME NEW m \in Ours, Deliver(m) PROVE MarkedStands'
  BY <1>18 DEF Deliver, Early, MarkedStands, Typed, TimesTyped, ReadingTyped,
     queue, rows, reading, sweep
<1>19. ASSUME NEW m \in Ours, RecordDelivery(m) PROVE MarkedStands'
  BY <1>19 DEF RecordDelivery, MarkedStands, Typed, TimesTyped, ReadingTyped,
     outside, queue, rows, reading, sweep
<1>20. ASSUME NEW m \in Ours, LoseAnswer(m) PROVE MarkedStands'
  BY <1>20 DEF LoseAnswer, Early, Mark, MarkedStands, Typed, TimesTyped,
     ReadingTyped, outside, queue, rows, reading, sweep
<1>21. ASSUME NEW m \in Ours, ConfirmByHand(m) PROVE MarkedStands'
  BY <1>21 DEF ConfirmByHand, MarkedStands, Typed, TimesTyped, ReadingTyped,
     outside, queue, rows, reading, sweep
<1>22. CASE UNCHANGED vars
  BY <1>22 DEF MarkedStands, Typed, TimesTyped, ReadingTyped, outside, queue,
     rows, reading, sweep, vars
<1>23. QED
  BY <1>1, <1>2, <1>3, <1>4, <1>5, <1>6, <1>7, <1>8, <1>9, <1>10, <1>11,
     <1>12, <1>13, <1>14, <1>15, <1>16, <1>17, <1>18, <1>19, <1>20, <1>21,
     <1>22 DEF Next, Poller, World

LEMMA SeesStep ==
  ASSUME Typed, ClockLeads, MarkedStands, ReadingSees, [Next]_vars
  PROVE  ReadingSees'
<1> USE ConstantsTyped
<1>1. CASE Store
  BY <1>1 DEF Store, TicketDone, ReadingSees, Typed, TimesTyped, ReadingTyped,
     outside, queue, sweep
<1>2. CASE OpenMailbox
  BY <1>2 DEF OpenMailbox, ReadingSees, Typed, TimesTyped, ReadingTyped,
     outside, queue, rows
<1>3. CASE Tick
  BY <1>3 DEF Tick, Early, Times, ClockLeads, MarkedStands, ReadingSees,
     Typed, TimesTyped, ReadingTyped, outside, queue, rows, reading, sweep
<1>4. CASE Restart
  BY <1>4 DEF Restart, Early, Times, ClockLeads, MarkedStands, ReadingSees,
     Typed, TimesTyped, ReadingTyped, outside, queue, rows
<1>5. CASE StartRound
  BY <1>5 DEF StartRound, Times, ClockLeads, MarkedStands, ReadingSees, Typed,
     TimesTyped, ReadingTyped, outside, queue, rows, sweep
<1>6. CASE Collect
  BY <1>6 DEF Collect, Times, ClockLeads, MarkedStands, ReadingSees, Typed,
     TimesTyped, ReadingTyped, outside, queue, rows, sweep
<1>7. CASE CollectFails
  BY <1>7 DEF CollectFails, TicketDone, Times, ClockLeads, MarkedStands,
     ReadingSees, Typed, TimesTyped, ReadingTyped, outside, queue, rows, sweep
<1>8. CASE CloseMailbox
  BY <1>8 DEF CloseMailbox, SweepOver, Times, ClockLeads, MarkedStands,
     ReadingSees, Typed, TimesTyped, ReadingTyped, outside, queue, rows
<1>9. CASE MailboxFails
  BY <1>9 DEF MailboxFails, SweepOver, Times, ClockLeads, MarkedStands,
     ReadingSees, Typed, TimesTyped, ReadingTyped, outside, queue, rows
<1>10. ASSUME NEW t \in Tickets, TakeTicket(t) PROVE ReadingSees'
  BY <1>10 DEF TakeTicket, Times, ClockLeads, MarkedStands, ReadingSees,
     Typed, TimesTyped, ReadingTyped, outside, queue, rows, sweep
<1>11. ASSUME NEW t \in Tickets, MarkStale(t) PROVE ReadingSees'
  BY <1>11 DEF MarkStale, Early, Mark, Times, ClockLeads, MarkedStands,
     ReadingSees, Typed, TimesTyped, ReadingTyped, outside, queue, rows,
     reading, sweep
<1>12. ASSUME NEW m \in Mails, ReadMail(m) PROVE ReadingSees'
  BY <1>12 DEF ReadMail, Times, ClockLeads, MarkedStands, ReadingSees, Typed,
     TimesTyped, ReadingTyped, outside, queue, reading
<1>13. ASSUME NEW m \in Mails, SkipMail(m) PROVE ReadingSees'
  BY <1>13 DEF SkipMail, Times, ClockLeads, MarkedStands, ReadingSees, Typed,
     TimesTyped, ReadingTyped, outside, queue, rows, reading
<1>14. ASSUME NEW m \in Mails, ArriveInThread(m) PROVE ReadingSees'
  BY <1>14 DEF ArriveInThread, Early, Times, ClockLeads, MarkedStands,
     ReadingSees, Typed, TimesTyped, ReadingTyped, queue, rows, reading, sweep
<1>15. ASSUME NEW m \in Mails, ArriveInMailbox(m) PROVE ReadingSees'
  BY <1>15 DEF ArriveInMailbox, Early, Times, ClockLeads, MarkedStands,
     ReadingSees, Typed, TimesTyped, ReadingTyped, queue, rows, reading, sweep
<1>16. ASSUME NEW m \in Mails, NEW p \in Places, DeleteRow(m, p) PROVE
   ReadingSees'
  BY <1>16 DEF DeleteRow, Times, ClockLeads, MarkedStands, ReadingSees, Typed,
     TimesTyped, ReadingTyped, outside, queue, reading, sweep
<1>17. ASSUME NEW m \in Ours, StartSend(m) PROVE ReadingSees'
  BY <1>17 DEF StartSend, Times, ClockLeads, MarkedStands, ReadingSees, Typed,
     TimesTyped, ReadingTyped, outside, queue, rows, reading, sweep
<1>18. ASSUME NEW m \in Ours, Deliver(m) PROVE ReadingSees'
  BY <1>18 DEF Deliver, Early, Times, ClockLeads, MarkedStands, ReadingSees,
     Typed, TimesTyped, ReadingTyped, queue, rows, reading, sweep
<1>19. ASSUME NEW m \in Ours, RecordDelivery(m) PROVE ReadingSees'
  BY <1>19 DEF RecordDelivery, Times, ClockLeads, MarkedStands, ReadingSees,
     Typed, TimesTyped, ReadingTyped, outside, queue, rows, reading, sweep
<1>20. ASSUME NEW m \in Ours, LoseAnswer(m) PROVE ReadingSees'
  BY <1>20 DEF LoseAnswer, Early, Mark, Times, ClockLeads, MarkedStands,
     ReadingSees, Typed, TimesTyped, ReadingTyped, outside, queue, rows,
     reading, sweep
<1>21. ASSUME NEW m \in Ours, ConfirmByHand(m) PROVE ReadingSees'
  BY <1>21 DEF ConfirmByHand, Times, ClockLeads, MarkedStands, ReadingSees,
     Typed, TimesTyped, ReadingTyped, outside, queue, rows, reading, sweep
<1>22. CASE UNCHANGED vars
  BY <1>22 DEF Times, ClockLeads, MarkedStands, ReadingSees, Typed,
     TimesTyped, ReadingTyped, outside, queue, rows, reading, sweep, vars
<1>23. QED
  BY <1>1, <1>2, <1>3, <1>4, <1>5, <1>6, <1>7, <1>8, <1>9, <1>10, <1>11,
     <1>12, <1>13, <1>14, <1>15, <1>16, <1>17, <1>18, <1>19, <1>20, <1>21,
     <1>22 DEF Next, Poller, World

LEMMA MarkKeeps ==
  ASSUME Typed, ClockLeads, MarkedStands, MarkedIsKept,
         NEW t \in Tickets, Mark(t), UNCHANGED <<now, thread, row, tomb>>
  PROVE  MarkedIsKept'
<1> SUFFICES ASSUME NEW m \in marked'
             PROVE  \/ row[Conv(m)] # Absent
                    \/ Conv(m) \in tomb
                    \/ Due(ThreadOf[m])'
                    \/ ThreadOf[m] \in failed'
  BY DEF MarkedIsKept
<1>1. m \in Mails /\ ThreadOf[m] \in Tickets
  BY ConstantsTyped DEF Mark, Typed, ReadingTyped
<1>2. CASE ThreadOf[m] = t
  BY <1>1, <1>2 DEF Mark, Due, ClockLeads, Never, Typed, TimesTyped, Times
<1>3. CASE ThreadOf[m] # t
  <2>1. m \in marked
    BY <1>3 DEF Mark, MarkedStands
  <2>2. QED
    BY <1>1, <1>3, <2>1 DEF Mark, Due, MarkedIsKept, Typed, TimesTyped
<1>4. QED
  BY <1>2, <1>3

LEMMA KeptStep ==
  ASSUME Typed, ClockLeads, MarkedStands, ReadingSees, MarkedIsKept, [Next]_vars
  PROVE  MarkedIsKept'
<1> USE ConstantsTyped
<1>1. CASE Store
  <2> SUFFICES ASSUME NEW m \in marked'
                PROVE  \/ row'[Conv(m)] # Absent
                       \/ Conv(m) \in tomb'
                       \/ Due(ThreadOf[m])'
                       \/ ThreadOf[m] \in failed'
    BY DEF MarkedIsKept
  <2>1. m \in marked /\ m \in Mails /\ ThreadOf[m] \in Tickets
    BY <1>1, ConstantsTyped DEF Store, Typed, TimesTyped, ReadingTyped,
       outside, queue, rows, reading, sweep, vars
  <2>2. row[Conv(m)] # Absent => row'[Conv(m)] # Absent
    BY <1>1, <2>1, CopiesTyped DEF Store, New, Absent, RowsTyped, Typed,
       TimesTyped, ReadingTyped, outside, queue, rows, reading, sweep, vars
  <2>3. tomb \subseteq tomb'
    BY <1>1 DEF Store
  <2>4. CASE ThreadOf[m] # ticket
    <3>1. synced'[ThreadOf[m]] = synced[ThreadOf[m]] /\ requested' = requested
      BY <1>1, <2>1, <2>4 DEF Store, TimesTyped, Typed, TimesTyped,
         ReadingTyped, outside, queue, rows, reading, sweep, vars
    <3>2. Due(ThreadOf[m]) => Due(ThreadOf[m])'
      BY <3>1, <2>1 DEF Due
    <3>3. ThreadOf[m] \in failed => ThreadOf[m] \in failed'
      BY <1>1, <2>4 DEF Store
    <3>4. QED
      BY <2>1, <2>2, <2>3, <3>2, <3>3 DEF MarkedIsKept
  <2>5. CASE ThreadOf[m] = ticket
    <3>1. synced'[ticket] = started /\ requested' = requested /\ started >= 1
      BY <1>1, <2>1, <2>5 DEF Store, Stamp, ReadingSees, TimesTyped, Typed,
         TimesTyped, ReadingTyped, outside, queue, rows, reading, sweep, vars
    <3>2. CASE m \in seen
      <4>1. CASE row[Conv(m)] = Absent /\ Conv(m) \notin tomb
        <5>1. m \in New(ticket)
          BY <3>2, <4>1 DEF New
        <5>2. row'[Conv(m)] = ticket
          BY <1>1, <5>1, <2>1, CopiesTyped DEF Store
        <5>3. QED
          BY <5>2, <2>5, <2>1, ConstantsTyped DEF Absent
      <4>2. QED
        BY <4>1, <2>2, <2>3
    <3>3. CASE requested[ticket] >= started
      BY <3>1, <3>3, <2>5, <2>1 DEF Due, Never, TimesTyped, Times, Typed,
         TimesTyped, ReadingTyped, outside, queue, rows, reading, sweep, vars
    <3>4. QED
      BY <1>1, <3>2, <3>3, <2>1, <2>5 DEF Store, ReadingSees
  <2>6. QED
    BY <2>4, <2>5
<1>2. ASSUME NEW t \in Tickets, MarkStale(t) PROVE MarkedIsKept'
  BY <1>2, MarkKeeps DEF MarkStale, outside, rows
<1>3. ASSUME NEW m \in Mails, ReadMail(m) PROVE MarkedIsKept'
  BY <1>3, CopiesTyped DEF ReadMail, Newest, Due, MarkedIsKept, RowsTyped,
     Typed, TimesTyped, ReadingTyped, outside, queue, reading
<1>4. ASSUME NEW m \in Mails, NEW p \in Places, DeleteRow(m, p) PROVE
   MarkedIsKept'
  BY <1>4, CopiesTyped DEF DeleteRow, Due, Conv, Copies, MarkedIsKept,
     RowsTyped, Typed, TimesTyped, ReadingTyped, outside, queue, reading,
     sweep
<1>5. ASSUME NEW m \in Ours, LoseAnswer(m) PROVE MarkedIsKept'
  BY <1>5, MarkKeeps DEF LoseAnswer, outside, rows
<1>6. CASE Tick
  BY <1>6 DEF Tick, Early, Due, Times, Never, ClockLeads, MarkedStands,
     ReadingSees, MarkedIsKept, Typed, TimesTyped, ReadingTyped, outside,
     queue, rows, reading, sweep
<1>7. CASE Restart
  BY <1>7 DEF Restart, Early, Due, Times, Never, ClockLeads, MarkedStands,
     ReadingSees, MarkedIsKept, Typed, TimesTyped, ReadingTyped, outside,
     queue, rows
<1>8. CASE StartRound
  BY <1>8 DEF StartRound, Due, Times, Never, ClockLeads, MarkedStands,
     ReadingSees, MarkedIsKept, Typed, TimesTyped, ReadingTyped, outside,
     queue, rows, sweep
<1>9. CASE Collect
  BY <1>9 DEF Collect, Due, Times, Never, ClockLeads, MarkedStands,
     ReadingSees, MarkedIsKept, Typed, TimesTyped, ReadingTyped, outside,
     queue, rows, sweep
<1>10. CASE CollectFails
  BY <1>10 DEF CollectFails, TicketDone, Due, Times, Never, ClockLeads,
     MarkedStands, ReadingSees, MarkedIsKept, Typed, TimesTyped, ReadingTyped,
     outside, queue, rows, sweep
<1>11. CASE OpenMailbox
  BY <1>11 DEF OpenMailbox, Due, Times, Never, ClockLeads, MarkedStands,
     ReadingSees, MarkedIsKept, Typed, TimesTyped, ReadingTyped, outside,
     queue, rows
<1>12. CASE CloseMailbox
  BY <1>12 DEF CloseMailbox, SweepOver, Due, Times, Never, ClockLeads,
     MarkedStands, ReadingSees, MarkedIsKept, Typed, TimesTyped, ReadingTyped,
     outside, queue, rows
<1>13. CASE MailboxFails
  BY <1>13 DEF MailboxFails, SweepOver, Due, Times, Never, ClockLeads,
     MarkedStands, ReadingSees, MarkedIsKept, Typed, TimesTyped, ReadingTyped,
     outside, queue, rows
<1>14. ASSUME NEW t \in Tickets, TakeTicket(t) PROVE MarkedIsKept'
  BY <1>14 DEF TakeTicket, Due, Times, Never, ClockLeads, MarkedStands,
     ReadingSees, MarkedIsKept, Typed, TimesTyped, ReadingTyped, outside,
     queue, rows, sweep
<1>15. ASSUME NEW m \in Mails, SkipMail(m) PROVE MarkedIsKept'
  BY <1>15 DEF SkipMail, Due, Times, Never, ClockLeads, MarkedStands,
     ReadingSees, MarkedIsKept, Typed, TimesTyped, ReadingTyped, outside,
     queue, rows, reading
<1>16. ASSUME NEW m \in Mails, ArriveInThread(m) PROVE MarkedIsKept'
  BY <1>16 DEF ArriveInThread, Early, Due, Times, Never, ClockLeads,
     MarkedStands, ReadingSees, MarkedIsKept, Typed, TimesTyped, ReadingTyped,
     queue, rows, reading, sweep
<1>17. ASSUME NEW m \in Mails, ArriveInMailbox(m) PROVE MarkedIsKept'
  BY <1>17 DEF ArriveInMailbox, Early, Due, Times, Never, ClockLeads,
     MarkedStands, ReadingSees, MarkedIsKept, Typed, TimesTyped, ReadingTyped,
     queue, rows, reading, sweep
<1>18. ASSUME NEW m \in Ours, StartSend(m) PROVE MarkedIsKept'
  BY <1>18 DEF StartSend, Due, Times, Never, ClockLeads, MarkedStands,
     ReadingSees, MarkedIsKept, Typed, TimesTyped, ReadingTyped, outside,
     queue, rows, reading, sweep
<1>19. ASSUME NEW m \in Ours, Deliver(m) PROVE MarkedIsKept'
  BY <1>19 DEF Deliver, Early, Due, Times, Never, ClockLeads, MarkedStands,
     ReadingSees, MarkedIsKept, Typed, TimesTyped, ReadingTyped, queue, rows,
     reading, sweep
<1>20. ASSUME NEW m \in Ours, RecordDelivery(m) PROVE MarkedIsKept'
  BY <1>20 DEF RecordDelivery, Due, Times, Never, ClockLeads, MarkedStands,
     ReadingSees, MarkedIsKept, Typed, TimesTyped, ReadingTyped, outside,
     queue, rows, reading, sweep
<1>21. ASSUME NEW m \in Ours, ConfirmByHand(m) PROVE MarkedIsKept'
  BY <1>21 DEF ConfirmByHand, Due, Times, Never, ClockLeads, MarkedStands,
     ReadingSees, MarkedIsKept, Typed, TimesTyped, ReadingTyped, outside,
     queue, rows, reading, sweep
<1>22. CASE UNCHANGED vars
  BY <1>22 DEF Due, Times, Never, ClockLeads, MarkedStands, ReadingSees,
     MarkedIsKept, Typed, TimesTyped, ReadingTyped, outside, queue, rows,
     reading, sweep, vars
<1>23. QED
  BY <1>1, <1>2, <1>3, <1>4, <1>5, <1>6, <1>7, <1>8, <1>9, <1>10, <1>11,
     <1>12, <1>13, <1>14, <1>15, <1>16, <1>17, <1>18, <1>19, <1>20, <1>21,
     <1>22 DEF Next, Poller, World

-----------------------------------------------------------------------------
(* Lines of the history                                                    *)

LEMMA BatchStep ==
  ASSUME Typed, BatchIsNew, [Next]_vars
  PROVE  BatchIsNew'
<1> USE ConstantsTyped
<1>1. CASE Store
  BY <1>1 DEF Store, BatchIsNew, RowsTyped, Typed, TimesTyped, ReadingTyped,
     outside, queue, sweep
<1>2. CASE OpenMailbox
  BY <1>2 DEF OpenMailbox, FirstOf, Fresh, BatchIsNew, RowsTyped, Typed,
     TimesTyped, ReadingTyped, outside, queue, rows
<1>3. ASSUME NEW m \in Mails, ReadMail(m) PROVE BatchIsNew'
  BY <1>3, CopiesTyped DEF ReadMail, BatchIsNew, RowsTyped, Typed, TimesTyped,
     ReadingTyped, outside, queue, reading
<1>4. ASSUME NEW m \in Mails, NEW p \in Places, DeleteRow(m, p) PROVE
   BatchIsNew'
  BY <1>4, CopiesTyped DEF DeleteRow, Copies, Gmail, BatchIsNew, RowsTyped,
     Typed, TimesTyped, ReadingTyped, outside, queue, reading, sweep
<1>5. CASE Tick
  BY <1>5 DEF Tick, Early, BatchIsNew, RowsTyped, Typed, TimesTyped,
     ReadingTyped, outside, queue, rows, reading, sweep
<1>6. CASE Restart
  BY <1>6 DEF Restart, Early, BatchIsNew, RowsTyped, Typed, TimesTyped,
     ReadingTyped, outside, queue, rows
<1>7. CASE StartRound
  BY <1>7 DEF StartRound, BatchIsNew, RowsTyped, Typed, TimesTyped,
     ReadingTyped, outside, queue, rows, sweep
<1>8. CASE Collect
  BY <1>8 DEF Collect, BatchIsNew, RowsTyped, Typed, TimesTyped, ReadingTyped,
     outside, queue, rows, sweep
<1>9. CASE CollectFails
  BY <1>9 DEF CollectFails, TicketDone, BatchIsNew, RowsTyped, Typed,
     TimesTyped, ReadingTyped, outside, queue, rows, sweep
<1>10. CASE CloseMailbox
  BY <1>10 DEF CloseMailbox, SweepOver, BatchIsNew, RowsTyped, Typed,
     TimesTyped, ReadingTyped, outside, queue, rows
<1>11. CASE MailboxFails
  BY <1>11 DEF MailboxFails, SweepOver, BatchIsNew, RowsTyped, Typed,
     TimesTyped, ReadingTyped, outside, queue, rows
<1>12. ASSUME NEW t \in Tickets, TakeTicket(t) PROVE BatchIsNew'
  BY <1>12 DEF TakeTicket, BatchIsNew, RowsTyped, Typed, TimesTyped,
     ReadingTyped, outside, queue, rows, sweep
<1>13. ASSUME NEW t \in Tickets, MarkStale(t) PROVE BatchIsNew'
  BY <1>13 DEF MarkStale, Early, Mark, BatchIsNew, RowsTyped, Typed,
     TimesTyped, ReadingTyped, outside, queue, rows, reading, sweep
<1>14. ASSUME NEW m \in Mails, SkipMail(m) PROVE BatchIsNew'
  BY <1>14 DEF SkipMail, BatchIsNew, RowsTyped, Typed, TimesTyped,
     ReadingTyped, outside, queue, rows, reading
<1>15. ASSUME NEW m \in Mails, ArriveInThread(m) PROVE BatchIsNew'
  BY <1>15 DEF ArriveInThread, Early, BatchIsNew, RowsTyped, Typed,
     TimesTyped, ReadingTyped, queue, rows, reading, sweep
<1>16. ASSUME NEW m \in Mails, ArriveInMailbox(m) PROVE BatchIsNew'
  BY <1>16 DEF ArriveInMailbox, Early, BatchIsNew, RowsTyped, Typed,
     TimesTyped, ReadingTyped, queue, rows, reading, sweep
<1>17. ASSUME NEW m \in Ours, StartSend(m) PROVE BatchIsNew'
  BY <1>17 DEF StartSend, BatchIsNew, RowsTyped, Typed, TimesTyped,
     ReadingTyped, outside, queue, rows, reading, sweep
<1>18. ASSUME NEW m \in Ours, Deliver(m) PROVE BatchIsNew'
  BY <1>18 DEF Deliver, Early, BatchIsNew, RowsTyped, Typed, TimesTyped,
     ReadingTyped, queue, rows, reading, sweep
<1>19. ASSUME NEW m \in Ours, RecordDelivery(m) PROVE BatchIsNew'
  BY <1>19 DEF RecordDelivery, BatchIsNew, RowsTyped, Typed, TimesTyped,
     ReadingTyped, outside, queue, rows, reading, sweep
<1>20. ASSUME NEW m \in Ours, LoseAnswer(m) PROVE BatchIsNew'
  BY <1>20 DEF LoseAnswer, Early, Mark, BatchIsNew, RowsTyped, Typed,
     TimesTyped, ReadingTyped, outside, queue, rows, reading, sweep
<1>21. ASSUME NEW m \in Ours, ConfirmByHand(m) PROVE BatchIsNew'
  BY <1>21 DEF ConfirmByHand, BatchIsNew, RowsTyped, Typed, TimesTyped,
     ReadingTyped, outside, queue, rows, reading, sweep
<1>22. CASE UNCHANGED vars
  BY <1>22 DEF BatchIsNew, RowsTyped, Typed, TimesTyped, ReadingTyped,
     outside, queue, rows, reading, sweep, vars
<1>23. QED
  BY <1>1, <1>2, <1>3, <1>4, <1>5, <1>6, <1>7, <1>8, <1>9, <1>10, <1>11,
     <1>12, <1>13, <1>14, <1>15, <1>16, <1>17, <1>18, <1>19, <1>20, <1>21,
     <1>22 DEF Next, Poller, World

LEMMA OneRowStep ==
  ASSUME Typed, OneRowPerMail, [Next]_vars
  PROVE  OneRowPerMail'
<1> USE ConstantsTyped
<1>1. CASE Store
  BY <1>1, CopiesTyped DEF Store, New, Twins, InThread, TicketDone,
     OneRowPerMail, RowsTyped, Typed, TimesTyped, ReadingTyped, outside,
     queue, sweep
<1>2. ASSUME NEW m \in Mails, ReadMail(m) PROVE OneRowPerMail'
  BY <1>2, CopiesTyped DEF ReadMail, StandsAlready, HasRow, OneRowPerMail,
     RowsTyped, Typed, TimesTyped, ReadingTyped, outside, queue, reading
<1>3. ASSUME NEW m \in Mails, NEW p \in Places, DeleteRow(m, p) PROVE
   OneRowPerMail'
  BY <1>3, CopiesTyped DEF DeleteRow, Copies, OneRowPerMail, RowsTyped, Typed,
     TimesTyped, ReadingTyped, outside, queue, reading, sweep
<1>4. CASE Tick
  BY <1>4 DEF Tick, Early, OneRowPerMail, RowsTyped, Typed, TimesTyped,
     ReadingTyped, outside, queue, rows, reading, sweep
<1>5. CASE Restart
  BY <1>5 DEF Restart, Early, OneRowPerMail, RowsTyped, Typed, TimesTyped,
     ReadingTyped, outside, queue, rows
<1>6. CASE StartRound
  BY <1>6 DEF StartRound, OneRowPerMail, RowsTyped, Typed, TimesTyped,
     ReadingTyped, outside, queue, rows, sweep
<1>7. CASE Collect
  BY <1>7 DEF Collect, OneRowPerMail, RowsTyped, Typed, TimesTyped,
     ReadingTyped, outside, queue, rows, sweep
<1>8. CASE CollectFails
  BY <1>8 DEF CollectFails, TicketDone, OneRowPerMail, RowsTyped, Typed,
     TimesTyped, ReadingTyped, outside, queue, rows, sweep
<1>9. CASE OpenMailbox
  BY <1>9 DEF OpenMailbox, OneRowPerMail, RowsTyped, Typed, TimesTyped,
     ReadingTyped, outside, queue, rows
<1>10. CASE CloseMailbox
  BY <1>10 DEF CloseMailbox, SweepOver, OneRowPerMail, RowsTyped, Typed,
     TimesTyped, ReadingTyped, outside, queue, rows
<1>11. CASE MailboxFails
  BY <1>11 DEF MailboxFails, SweepOver, OneRowPerMail, RowsTyped, Typed,
     TimesTyped, ReadingTyped, outside, queue, rows
<1>12. ASSUME NEW t \in Tickets, TakeTicket(t) PROVE OneRowPerMail'
  BY <1>12 DEF TakeTicket, OneRowPerMail, RowsTyped, Typed, TimesTyped,
     ReadingTyped, outside, queue, rows, sweep
<1>13. ASSUME NEW t \in Tickets, MarkStale(t) PROVE OneRowPerMail'
  BY <1>13 DEF MarkStale, Early, Mark, OneRowPerMail, RowsTyped, Typed,
     TimesTyped, ReadingTyped, outside, queue, rows, reading, sweep
<1>14. ASSUME NEW m \in Mails, SkipMail(m) PROVE OneRowPerMail'
  BY <1>14 DEF SkipMail, OneRowPerMail, RowsTyped, Typed, TimesTyped,
     ReadingTyped, outside, queue, rows, reading
<1>15. ASSUME NEW m \in Mails, ArriveInThread(m) PROVE OneRowPerMail'
  BY <1>15 DEF ArriveInThread, Early, OneRowPerMail, RowsTyped, Typed,
     TimesTyped, ReadingTyped, queue, rows, reading, sweep
<1>16. ASSUME NEW m \in Mails, ArriveInMailbox(m) PROVE OneRowPerMail'
  BY <1>16 DEF ArriveInMailbox, Early, OneRowPerMail, RowsTyped, Typed,
     TimesTyped, ReadingTyped, queue, rows, reading, sweep
<1>17. ASSUME NEW m \in Ours, StartSend(m) PROVE OneRowPerMail'
  BY <1>17 DEF StartSend, OneRowPerMail, RowsTyped, Typed, TimesTyped,
     ReadingTyped, outside, queue, rows, reading, sweep
<1>18. ASSUME NEW m \in Ours, Deliver(m) PROVE OneRowPerMail'
  BY <1>18 DEF Deliver, Early, OneRowPerMail, RowsTyped, Typed, TimesTyped,
     ReadingTyped, queue, rows, reading, sweep
<1>19. ASSUME NEW m \in Ours, RecordDelivery(m) PROVE OneRowPerMail'
  BY <1>19 DEF RecordDelivery, OneRowPerMail, RowsTyped, Typed, TimesTyped,
     ReadingTyped, outside, queue, rows, reading, sweep
<1>20. ASSUME NEW m \in Ours, LoseAnswer(m) PROVE OneRowPerMail'
  BY <1>20 DEF LoseAnswer, Early, Mark, OneRowPerMail, RowsTyped, Typed,
     TimesTyped, ReadingTyped, outside, queue, rows, reading, sweep
<1>21. ASSUME NEW m \in Ours, ConfirmByHand(m) PROVE OneRowPerMail'
  BY <1>21 DEF ConfirmByHand, OneRowPerMail, RowsTyped, Typed, TimesTyped,
     ReadingTyped, outside, queue, rows, reading, sweep
<1>22. CASE UNCHANGED vars
  BY <1>22 DEF OneRowPerMail, RowsTyped, Typed, TimesTyped, ReadingTyped,
     outside, queue, rows, reading, sweep, vars
<1>23. QED
  BY <1>1, <1>2, <1>3, <1>4, <1>5, <1>6, <1>7, <1>8, <1>9, <1>10, <1>11,
     <1>12, <1>13, <1>14, <1>15, <1>16, <1>17, <1>18, <1>19, <1>20, <1>21,
     <1>22 DEF Next, Poller, World

LEMMA DeletedStep ==
  ASSUME Typed, BatchIsNew, DeletedStays, [Next]_vars
  PROVE  DeletedStays'
<1> USE ConstantsTyped
<1>1. CASE Store
  BY <1>1, CopiesTyped DEF Store, New, Twins, InThread, TicketDone,
     DeletedStays, RowsTyped, Typed, TimesTyped, ReadingTyped, outside, queue,
     sweep
<1>2. ASSUME NEW m \in Mails, ReadMail(m) PROVE DeletedStays'
  BY <1>2, CopiesTyped DEF ReadMail, BatchIsNew, DeletedStays, RowsTyped,
     Typed, TimesTyped, ReadingTyped, outside, queue, reading
<1>3. ASSUME NEW m \in Mails, NEW p \in Places, DeleteRow(m, p) PROVE
   DeletedStays'
  BY <1>3, CopiesTyped DEF DeleteRow, Copies, DeletedStays, RowsTyped, Typed,
     TimesTyped, ReadingTyped, outside, queue, reading, sweep
<1>4. CASE Tick
  BY <1>4 DEF Tick, Early, DeletedStays, RowsTyped, Typed, TimesTyped,
     ReadingTyped, outside, queue, rows, reading, sweep
<1>5. CASE Restart
  BY <1>5 DEF Restart, Early, DeletedStays, RowsTyped, Typed, TimesTyped,
     ReadingTyped, outside, queue, rows
<1>6. CASE StartRound
  BY <1>6 DEF StartRound, DeletedStays, RowsTyped, Typed, TimesTyped,
     ReadingTyped, outside, queue, rows, sweep
<1>7. CASE Collect
  BY <1>7 DEF Collect, DeletedStays, RowsTyped, Typed, TimesTyped,
     ReadingTyped, outside, queue, rows, sweep
<1>8. CASE CollectFails
  BY <1>8 DEF CollectFails, TicketDone, DeletedStays, RowsTyped, Typed,
     TimesTyped, ReadingTyped, outside, queue, rows, sweep
<1>9. CASE OpenMailbox
  BY <1>9 DEF OpenMailbox, DeletedStays, RowsTyped, Typed, TimesTyped,
     ReadingTyped, outside, queue, rows
<1>10. CASE CloseMailbox
  BY <1>10 DEF CloseMailbox, SweepOver, DeletedStays, RowsTyped, Typed,
     TimesTyped, ReadingTyped, outside, queue, rows
<1>11. CASE MailboxFails
  BY <1>11 DEF MailboxFails, SweepOver, DeletedStays, RowsTyped, Typed,
     TimesTyped, ReadingTyped, outside, queue, rows
<1>12. ASSUME NEW t \in Tickets, TakeTicket(t) PROVE DeletedStays'
  BY <1>12 DEF TakeTicket, DeletedStays, RowsTyped, Typed, TimesTyped,
     ReadingTyped, outside, queue, rows, sweep
<1>13. ASSUME NEW t \in Tickets, MarkStale(t) PROVE DeletedStays'
  BY <1>13 DEF MarkStale, Early, Mark, DeletedStays, RowsTyped, Typed,
     TimesTyped, ReadingTyped, outside, queue, rows, reading, sweep
<1>14. ASSUME NEW m \in Mails, SkipMail(m) PROVE DeletedStays'
  BY <1>14 DEF SkipMail, DeletedStays, RowsTyped, Typed, TimesTyped,
     ReadingTyped, outside, queue, rows, reading
<1>15. ASSUME NEW m \in Mails, ArriveInThread(m) PROVE DeletedStays'
  BY <1>15 DEF ArriveInThread, Early, DeletedStays, RowsTyped, Typed,
     TimesTyped, ReadingTyped, queue, rows, reading, sweep
<1>16. ASSUME NEW m \in Mails, ArriveInMailbox(m) PROVE DeletedStays'
  BY <1>16 DEF ArriveInMailbox, Early, DeletedStays, RowsTyped, Typed,
     TimesTyped, ReadingTyped, queue, rows, reading, sweep
<1>17. ASSUME NEW m \in Ours, StartSend(m) PROVE DeletedStays'
  BY <1>17 DEF StartSend, DeletedStays, RowsTyped, Typed, TimesTyped,
     ReadingTyped, outside, queue, rows, reading, sweep
<1>18. ASSUME NEW m \in Ours, Deliver(m) PROVE DeletedStays'
  BY <1>18 DEF Deliver, Early, DeletedStays, RowsTyped, Typed, TimesTyped,
     ReadingTyped, queue, rows, reading, sweep
<1>19. ASSUME NEW m \in Ours, RecordDelivery(m) PROVE DeletedStays'
  BY <1>19 DEF RecordDelivery, DeletedStays, RowsTyped, Typed, TimesTyped,
     ReadingTyped, outside, queue, rows, reading, sweep
<1>20. ASSUME NEW m \in Ours, LoseAnswer(m) PROVE DeletedStays'
  BY <1>20 DEF LoseAnswer, Early, Mark, DeletedStays, RowsTyped, Typed,
     TimesTyped, ReadingTyped, outside, queue, rows, reading, sweep
<1>21. ASSUME NEW m \in Ours, ConfirmByHand(m) PROVE DeletedStays'
  BY <1>21 DEF ConfirmByHand, DeletedStays, RowsTyped, Typed, TimesTyped,
     ReadingTyped, outside, queue, rows, reading, sweep
<1>22. CASE UNCHANGED vars
  BY <1>22 DEF DeletedStays, RowsTyped, Typed, TimesTyped, ReadingTyped,
     outside, queue, rows, reading, sweep, vars
<1>23. QED
  BY <1>1, <1>2, <1>3, <1>4, <1>5, <1>6, <1>7, <1>8, <1>9, <1>10, <1>11,
     <1>12, <1>13, <1>14, <1>15, <1>16, <1>17, <1>18, <1>19, <1>20, <1>21,
     <1>22 DEF Next, Poller, World

-----------------------------------------------------------------------------
(* The window of the mailbox                                               *)

LEMMA SentStep ==
  ASSUME Typed, SentStands, [Next]_vars
  PROVE  SentStands'
<1> USE ConstantsTyped
<1>1. CASE Tick
  BY <1>1 DEF Tick, Early, SentStands, Typed, TimesTyped, ReadingTyped,
     outside, queue, rows, reading, sweep
<1>2. CASE Restart
  BY <1>2 DEF Restart, Early, SentStands, Typed, TimesTyped, ReadingTyped,
     outside, queue, rows
<1>3. CASE StartRound
  BY <1>3 DEF StartRound, SentStands, Typed, TimesTyped, ReadingTyped,
     outside, queue, rows, sweep
<1>4. CASE Collect
  BY <1>4 DEF Collect, SentStands, Typed, TimesTyped, ReadingTyped, outside,
     queue, rows, sweep
<1>5. CASE CollectFails
  BY <1>5 DEF CollectFails, TicketDone, SentStands, Typed, TimesTyped,
     ReadingTyped, outside, queue, rows, sweep
<1>6. CASE Store
  BY <1>6 DEF Store, TicketDone, SentStands, Typed, TimesTyped, ReadingTyped,
     outside, queue, sweep
<1>7. CASE OpenMailbox
  BY <1>7 DEF OpenMailbox, SentStands, Typed, TimesTyped, ReadingTyped,
     outside, queue, rows
<1>8. CASE CloseMailbox
  BY <1>8 DEF CloseMailbox, SweepOver, SentStands, Typed, TimesTyped,
     ReadingTyped, outside, queue, rows
<1>9. CASE MailboxFails
  BY <1>9 DEF MailboxFails, SweepOver, SentStands, Typed, TimesTyped,
     ReadingTyped, outside, queue, rows
<1>10. ASSUME NEW t \in Tickets, TakeTicket(t) PROVE SentStands'
  BY <1>10 DEF TakeTicket, SentStands, Typed, TimesTyped, ReadingTyped,
     outside, queue, rows, sweep
<1>11. ASSUME NEW t \in Tickets, MarkStale(t) PROVE SentStands'
  BY <1>11 DEF MarkStale, Early, Mark, SentStands, Typed, TimesTyped,
     ReadingTyped, outside, queue, rows, reading, sweep
<1>12. ASSUME NEW m \in Mails, ReadMail(m) PROVE SentStands'
  BY <1>12 DEF ReadMail, SentStands, Typed, TimesTyped, ReadingTyped, outside,
     queue, reading
<1>13. ASSUME NEW m \in Mails, SkipMail(m) PROVE SentStands'
  BY <1>13 DEF SkipMail, SentStands, Typed, TimesTyped, ReadingTyped, outside,
     queue, rows, reading
<1>14. ASSUME NEW m \in Mails, ArriveInThread(m) PROVE SentStands'
  BY <1>14 DEF ArriveInThread, Early, SentStands, Typed, TimesTyped,
     ReadingTyped, queue, rows, reading, sweep
<1>15. ASSUME NEW m \in Mails, ArriveInMailbox(m) PROVE SentStands'
  BY <1>15 DEF ArriveInMailbox, Early, SentStands, Typed, TimesTyped,
     ReadingTyped, queue, rows, reading, sweep
<1>16. ASSUME NEW m \in Mails, NEW p \in Places, DeleteRow(m, p) PROVE
   SentStands'
  BY <1>16 DEF DeleteRow, SentStands, Typed, TimesTyped, ReadingTyped,
     outside, queue, reading, sweep
<1>17. ASSUME NEW m \in Ours, StartSend(m) PROVE SentStands'
  BY <1>17 DEF StartSend, SentStands, Typed, TimesTyped, ReadingTyped,
     outside, queue, rows, reading, sweep
<1>18. ASSUME NEW m \in Ours, Deliver(m) PROVE SentStands'
  BY <1>18 DEF Deliver, Early, SentStands, Typed, TimesTyped, ReadingTyped,
     queue, rows, reading, sweep
<1>19. ASSUME NEW m \in Ours, RecordDelivery(m) PROVE SentStands'
  BY <1>19 DEF RecordDelivery, SentStands, Typed, TimesTyped, ReadingTyped,
     outside, queue, rows, reading, sweep
<1>20. ASSUME NEW m \in Ours, LoseAnswer(m) PROVE SentStands'
  BY <1>20 DEF LoseAnswer, Early, Mark, SentStands, Typed, TimesTyped,
     ReadingTyped, outside, queue, rows, reading, sweep
<1>21. ASSUME NEW m \in Ours, ConfirmByHand(m) PROVE SentStands'
  BY <1>21 DEF ConfirmByHand, SentStands, Typed, TimesTyped, ReadingTyped,
     outside, queue, rows, reading, sweep
<1>22. CASE UNCHANGED vars
  BY <1>22 DEF SentStands, Typed, TimesTyped, ReadingTyped, outside, queue,
     rows, reading, sweep, vars
<1>23. QED
  BY <1>1, <1>2, <1>3, <1>4, <1>5, <1>6, <1>7, <1>8, <1>9, <1>10, <1>11,
     <1>12, <1>13, <1>14, <1>15, <1>16, <1>17, <1>18, <1>19, <1>20, <1>21,
     <1>22 DEF Next, Poller, World

LEMMA QuickStep ==
  ASSUME PromptSweep, Typed, SweepIsQuick, [Next]_vars
  PROVE  SweepIsQuick'
<1> USE ConstantsTyped
<1>1. CASE Tick
  BY <1>1 DEF Tick, Times, SweepIsQuick, Typed, TimesTyped, ReadingTyped,
     outside, queue, rows, reading, sweep
<1>2. CASE Restart
  BY <1>2 DEF Restart, Early, Times, SweepIsQuick, Typed, TimesTyped,
     ReadingTyped, outside, queue, rows
<1>3. CASE StartRound
  BY <1>3 DEF StartRound, Times, SweepIsQuick, Typed, TimesTyped,
     ReadingTyped, outside, queue, rows, sweep
<1>4. CASE Collect
  BY <1>4 DEF Collect, Times, SweepIsQuick, Typed, TimesTyped, ReadingTyped,
     outside, queue, rows, sweep
<1>5. CASE CollectFails
  BY <1>5 DEF CollectFails, TicketDone, Times, SweepIsQuick, Typed,
     TimesTyped, ReadingTyped, outside, queue, rows, sweep
<1>6. CASE Store
  BY <1>6 DEF Store, TicketDone, Times, SweepIsQuick, Typed, TimesTyped,
     ReadingTyped, outside, queue, sweep
<1>7. CASE OpenMailbox
  BY <1>7 DEF OpenMailbox, Times, SweepIsQuick, Typed, TimesTyped,
     ReadingTyped, outside, queue, rows
<1>8. CASE CloseMailbox
  BY <1>8 DEF CloseMailbox, SweepOver, Times, SweepIsQuick, Typed, TimesTyped,
     ReadingTyped, outside, queue, rows
<1>9. CASE MailboxFails
  BY <1>9 DEF MailboxFails, SweepOver, Times, SweepIsQuick, Typed, TimesTyped,
     ReadingTyped, outside, queue, rows
<1>10. ASSUME NEW t \in Tickets, TakeTicket(t) PROVE SweepIsQuick'
  BY <1>10 DEF TakeTicket, Times, SweepIsQuick, Typed, TimesTyped,
     ReadingTyped, outside, queue, rows, sweep
<1>11. ASSUME NEW t \in Tickets, MarkStale(t) PROVE SweepIsQuick'
  BY <1>11 DEF MarkStale, Early, Mark, Times, SweepIsQuick, Typed, TimesTyped,
     ReadingTyped, outside, queue, rows, reading, sweep
<1>12. ASSUME NEW m \in Mails, ReadMail(m) PROVE SweepIsQuick'
  BY <1>12 DEF ReadMail, Times, SweepIsQuick, Typed, TimesTyped, ReadingTyped,
     outside, queue, reading
<1>13. ASSUME NEW m \in Mails, SkipMail(m) PROVE SweepIsQuick'
  BY <1>13 DEF SkipMail, Times, SweepIsQuick, Typed, TimesTyped, ReadingTyped,
     outside, queue, rows, reading
<1>14. ASSUME NEW m \in Mails, ArriveInThread(m) PROVE SweepIsQuick'
  BY <1>14 DEF ArriveInThread, Early, Times, SweepIsQuick, Typed, TimesTyped,
     ReadingTyped, queue, rows, reading, sweep
<1>15. ASSUME NEW m \in Mails, ArriveInMailbox(m) PROVE SweepIsQuick'
  BY <1>15 DEF ArriveInMailbox, Early, Times, SweepIsQuick, Typed, TimesTyped,
     ReadingTyped, queue, rows, reading, sweep
<1>16. ASSUME NEW m \in Mails, NEW p \in Places, DeleteRow(m, p) PROVE
   SweepIsQuick'
  BY <1>16 DEF DeleteRow, Times, SweepIsQuick, Typed, TimesTyped,
     ReadingTyped, outside, queue, reading, sweep
<1>17. ASSUME NEW m \in Ours, StartSend(m) PROVE SweepIsQuick'
  BY <1>17 DEF StartSend, Times, SweepIsQuick, Typed, TimesTyped,
     ReadingTyped, outside, queue, rows, reading, sweep
<1>18. ASSUME NEW m \in Ours, Deliver(m) PROVE SweepIsQuick'
  BY <1>18 DEF Deliver, Early, Times, SweepIsQuick, Typed, TimesTyped,
     ReadingTyped, queue, rows, reading, sweep
<1>19. ASSUME NEW m \in Ours, RecordDelivery(m) PROVE SweepIsQuick'
  BY <1>19 DEF RecordDelivery, Times, SweepIsQuick, Typed, TimesTyped,
     ReadingTyped, outside, queue, rows, reading, sweep
<1>20. ASSUME NEW m \in Ours, LoseAnswer(m) PROVE SweepIsQuick'
  BY <1>20 DEF LoseAnswer, Early, Mark, Times, SweepIsQuick, Typed,
     TimesTyped, ReadingTyped, outside, queue, rows, reading, sweep
<1>21. ASSUME NEW m \in Ours, ConfirmByHand(m) PROVE SweepIsQuick'
  BY <1>21 DEF ConfirmByHand, Times, SweepIsQuick, Typed, TimesTyped,
     ReadingTyped, outside, queue, rows, reading, sweep
<1>22. CASE UNCHANGED vars
  BY <1>22 DEF Times, SweepIsQuick, Typed, TimesTyped, ReadingTyped, outside,
     queue, rows, reading, sweep, vars
<1>23. QED
  BY <1>1, <1>2, <1>3, <1>4, <1>5, <1>6, <1>7, <1>8, <1>9, <1>10, <1>11,
     <1>12, <1>13, <1>14, <1>15, <1>16, <1>17, <1>18, <1>19, <1>20, <1>21,
     <1>22 DEF Next, Poller, World

LEMMA LeavesStep ==
  ASSUME Typed, ClockLeads, SentStands, MailInWindow, SweepLeaves, [Next]_vars
  PROVE  SweepLeaves'
<1> USE ConstantsTyped
<1>1. CASE Store
  BY <1>1 DEF Store, TicketDone, SweepLeaves
<1>2. CASE OpenMailbox
  <2>1. \A m \in Mails : Wanted(m) => m \in Fresh
    BY DEF MailInWindow, Wanted, HasRow, Fresh
  <2>2. \A m \in Mails : Wanted(m)' => Wanted(m)
    BY <1>2 DEF OpenMailbox, Wanted, HasRow, outside, rows
  <2>3. /\ batch' \subseteq Fresh
        /\ ~left' => batch' = Fresh
        /\ left' => \A m \in batch', n \in Fresh \ batch' : inbox[m] <= inbox[n]
    BY <1>2 DEF OpenMailbox, FirstOf
  <2>4. /\ inbox' = inbox /\ until' = 0 /\ started' = now /\ now' = now
        /\ \A m \in Mails : inbox[m] \in Nat /\ inbox[m] <= now
        /\ now >= 1
    BY <1>2 DEF OpenMailbox, outside, Never, ClockLeads, Typed, TimesTyped,
       Times
  <2>5. \A m \in Fresh : m \in Mails /\ inbox[m] # Never
    BY DEF Fresh
  <2>6. QED
    BY <2>1, <2>2, <2>3, <2>4, <2>5 DEF SweepLeaves
<1>3. ASSUME NEW m \in Mails, ReadMail(m) PROVE SweepLeaves'
  BY <1>3, CopiesTyped DEF ReadMail, HasRow, Wanted, StandsAlready, Newest,
     Absent, Times, SweepLeaves, RowsTyped, Typed, TimesTyped, ReadingTyped,
     outside, queue, reading
<1>4. ASSUME NEW m \in Mails, SkipMail(m) PROVE SweepLeaves'
  BY <1>4 DEF SkipMail, HasRow, Wanted, SweepLeaves, RowsTyped, Typed,
     TimesTyped, ReadingTyped, outside, queue, rows, reading
<1>5. ASSUME NEW m \in Mails, ArriveInMailbox(m) PROVE SweepLeaves'
  BY <1>5 DEF ArriveInMailbox, HasRow, Wanted, ClockLeads, Never, Times,
     SweepLeaves, RowsTyped, Typed, TimesTyped, ReadingTyped, queue, rows,
     reading, sweep
<1>6. ASSUME NEW m \in Mails, NEW p \in Places, DeleteRow(m, p) PROVE
   SweepLeaves'
  BY <1>6, CopiesTyped DEF DeleteRow, HasRow, Wanted, SweepLeaves, Copies,
     Conv, Gmail, RowsTyped, Typed, TimesTyped, ReadingTyped, outside, queue,
     reading, sweep
<1>7. ASSUME NEW m \in Ours, Deliver(m) PROVE SweepLeaves'
  BY <1>7 DEF Deliver, HasRow, Wanted, SentStands, ClockLeads, Never, Times,
     SweepLeaves, RowsTyped, Typed, TimesTyped, ReadingTyped, queue, rows,
     reading, sweep
<1>8. CASE Tick
  BY <1>8 DEF Tick, Early, HasRow, Wanted, Times, Never, SweepLeaves,
     RowsTyped, Typed, TimesTyped, ReadingTyped, outside, queue, rows,
     reading, sweep
<1>9. CASE Restart
  BY <1>9 DEF Restart, Early, HasRow, Wanted, Times, Never, SweepLeaves,
     RowsTyped, Typed, TimesTyped, ReadingTyped, outside, queue, rows
<1>10. CASE StartRound
  BY <1>10 DEF StartRound, HasRow, Wanted, Times, Never, SweepLeaves,
     RowsTyped, Typed, TimesTyped, ReadingTyped, outside, queue, rows, sweep
<1>11. CASE Collect
  BY <1>11 DEF Collect, HasRow, Wanted, Times, Never, SweepLeaves, RowsTyped,
     Typed, TimesTyped, ReadingTyped, outside, queue, rows, sweep
<1>12. CASE CollectFails
  BY <1>12 DEF CollectFails, TicketDone, HasRow, Wanted, Times, Never,
     SweepLeaves, RowsTyped, Typed, TimesTyped, ReadingTyped, outside, queue,
     rows, sweep
<1>13. CASE CloseMailbox
  BY <1>13 DEF CloseMailbox, SweepOver, HasRow, Wanted, Times, Never,
     SweepLeaves, RowsTyped, Typed, TimesTyped, ReadingTyped, outside, queue,
     rows
<1>14. CASE MailboxFails
  BY <1>14 DEF MailboxFails, SweepOver, HasRow, Wanted, Times, Never,
     SweepLeaves, RowsTyped, Typed, TimesTyped, ReadingTyped, outside, queue,
     rows
<1>15. ASSUME NEW t \in Tickets, TakeTicket(t) PROVE SweepLeaves'
  BY <1>15 DEF TakeTicket, HasRow, Wanted, Times, Never, SweepLeaves,
     RowsTyped, Typed, TimesTyped, ReadingTyped, outside, queue, rows, sweep
<1>16. ASSUME NEW t \in Tickets, MarkStale(t) PROVE SweepLeaves'
  BY <1>16 DEF MarkStale, Early, Mark, HasRow, Wanted, Times, Never,
     SweepLeaves, RowsTyped, Typed, TimesTyped, ReadingTyped, outside, queue,
     rows, reading, sweep
<1>17. ASSUME NEW m \in Mails, ArriveInThread(m) PROVE SweepLeaves'
  BY <1>17 DEF ArriveInThread, Early, HasRow, Wanted, Times, Never,
     SweepLeaves, RowsTyped, Typed, TimesTyped, ReadingTyped, queue, rows,
     reading, sweep
<1>18. ASSUME NEW m \in Ours, StartSend(m) PROVE SweepLeaves'
  BY <1>18 DEF StartSend, HasRow, Wanted, Times, Never, SweepLeaves,
     RowsTyped, Typed, TimesTyped, ReadingTyped, outside, queue, rows,
     reading, sweep
<1>19. ASSUME NEW m \in Ours, RecordDelivery(m) PROVE SweepLeaves'
  BY <1>19 DEF RecordDelivery, HasRow, Wanted, Times, Never, SweepLeaves,
     RowsTyped, Typed, TimesTyped, ReadingTyped, outside, queue, rows,
     reading, sweep
<1>20. ASSUME NEW m \in Ours, LoseAnswer(m) PROVE SweepLeaves'
  BY <1>20 DEF LoseAnswer, Early, Mark, HasRow, Wanted, Times, Never,
     SweepLeaves, RowsTyped, Typed, TimesTyped, ReadingTyped, outside, queue,
     rows, reading, sweep
<1>21. ASSUME NEW m \in Ours, ConfirmByHand(m) PROVE SweepLeaves'
  BY <1>21 DEF ConfirmByHand, HasRow, Wanted, Times, Never, SweepLeaves,
     RowsTyped, Typed, TimesTyped, ReadingTyped, outside, queue, rows,
     reading, sweep
<1>22. CASE UNCHANGED vars
  BY <1>22 DEF HasRow, Wanted, Times, Never, SweepLeaves, RowsTyped, Typed,
     TimesTyped, ReadingTyped, outside, queue, rows, reading, sweep, vars
<1>23. QED
  BY <1>1, <1>2, <1>3, <1>4, <1>5, <1>6, <1>7, <1>8, <1>9, <1>10, <1>11,
     <1>12, <1>13, <1>14, <1>15, <1>16, <1>17, <1>18, <1>19, <1>20, <1>21,
     <1>22 DEF Next, Poller, World

LEMMA WindowStep ==
  ASSUME PromptSweep, Typed, ClockLeads, SweepIsQuick, SweepLeaves, MailInWindow,
         [Next]_vars
  PROVE  MailInWindow'
<1> USE ConstantsTyped
<1>1. CASE Store
  BY <1>1, CopiesTyped DEF Store, HasRow, Wanted, New, Twins, InThread,
     TicketDone, Absent, Since, MailInWindow, RowsTyped, Typed, TimesTyped,
     ReadingTyped, outside, queue, sweep
<1>2. CASE CloseMailbox
  BY <1>2 DEF CloseMailbox, HasRow, Wanted, Since, Window, SweepOver, Times,
     Never, ClockLeads, SweepIsQuick, SweepLeaves, MailInWindow, RowsTyped,
     Typed, TimesTyped, ReadingTyped, outside, queue, rows
<1>3. ASSUME NEW m \in Mails, ReadMail(m) PROVE MailInWindow'
  BY <1>3, CopiesTyped DEF ReadMail, HasRow, Wanted, StandsAlready, Newest,
     Absent, Since, MailInWindow, RowsTyped, Typed, TimesTyped, ReadingTyped,
     outside, queue, reading
<1>4. ASSUME NEW m \in Mails, NEW p \in Places, DeleteRow(m, p) PROVE
   MailInWindow'
  BY <1>4, CopiesTyped DEF DeleteRow, HasRow, Wanted, MailInWindow, Since,
     Copies, Conv, Gmail, RowsTyped, Typed, TimesTyped, ReadingTyped, outside,
     queue, reading, sweep
<1>5. CASE Tick
  BY <1>5 DEF Tick, Early, HasRow, Wanted, Since, Times, Never, ClockLeads,
     MailInWindow, RowsTyped, Typed, TimesTyped, ReadingTyped, outside, queue,
     rows, reading, sweep
<1>6. CASE Restart
  BY <1>6 DEF Restart, Early, HasRow, Wanted, Since, Times, Never, ClockLeads,
     MailInWindow, RowsTyped, Typed, TimesTyped, ReadingTyped, outside, queue,
     rows
<1>7. CASE StartRound
  BY <1>7 DEF StartRound, HasRow, Wanted, Since, Times, Never, ClockLeads,
     MailInWindow, RowsTyped, Typed, TimesTyped, ReadingTyped, outside, queue,
     rows, sweep
<1>8. CASE Collect
  BY <1>8 DEF Collect, HasRow, Wanted, Since, Times, Never, ClockLeads,
     MailInWindow, RowsTyped, Typed, TimesTyped, ReadingTyped, outside, queue,
     rows, sweep
<1>9. CASE CollectFails
  BY <1>9 DEF CollectFails, TicketDone, HasRow, Wanted, Since, Times, Never,
     ClockLeads, MailInWindow, RowsTyped, Typed, TimesTyped, ReadingTyped,
     outside, queue, rows, sweep
<1>10. CASE OpenMailbox
  BY <1>10 DEF OpenMailbox, HasRow, Wanted, Since, Times, Never, ClockLeads,
     MailInWindow, RowsTyped, Typed, TimesTyped, ReadingTyped, outside, queue,
     rows
<1>11. CASE MailboxFails
  BY <1>11 DEF MailboxFails, SweepOver, HasRow, Wanted, Since, Times, Never,
     ClockLeads, MailInWindow, RowsTyped, Typed, TimesTyped, ReadingTyped,
     outside, queue, rows
<1>12. ASSUME NEW t \in Tickets, TakeTicket(t) PROVE MailInWindow'
  BY <1>12 DEF TakeTicket, HasRow, Wanted, Since, Times, Never, ClockLeads,
     MailInWindow, RowsTyped, Typed, TimesTyped, ReadingTyped, outside, queue,
     rows, sweep
<1>13. ASSUME NEW t \in Tickets, MarkStale(t) PROVE MailInWindow'
  BY <1>13 DEF MarkStale, Early, Mark, HasRow, Wanted, Since, Times, Never,
     ClockLeads, MailInWindow, RowsTyped, Typed, TimesTyped, ReadingTyped,
     outside, queue, rows, reading, sweep
<1>14. ASSUME NEW m \in Mails, SkipMail(m) PROVE MailInWindow'
  BY <1>14 DEF SkipMail, HasRow, Wanted, Since, Times, Never, ClockLeads,
     MailInWindow, RowsTyped, Typed, TimesTyped, ReadingTyped, outside, queue,
     rows, reading
<1>15. ASSUME NEW m \in Mails, ArriveInThread(m) PROVE MailInWindow'
  BY <1>15 DEF ArriveInThread, Early, HasRow, Wanted, Since, Times, Never,
     ClockLeads, MailInWindow, RowsTyped, Typed, TimesTyped, ReadingTyped,
     queue, rows, reading, sweep
<1>16. ASSUME NEW m \in Mails, ArriveInMailbox(m) PROVE MailInWindow'
  BY <1>16 DEF ArriveInMailbox, Early, HasRow, Wanted, Since, Times, Never,
     ClockLeads, MailInWindow, RowsTyped, Typed, TimesTyped, ReadingTyped,
     queue, rows, reading, sweep
<1>17. ASSUME NEW m \in Ours, StartSend(m) PROVE MailInWindow'
  BY <1>17 DEF StartSend, HasRow, Wanted, Since, Times, Never, ClockLeads,
     MailInWindow, RowsTyped, Typed, TimesTyped, ReadingTyped, outside, queue,
     rows, reading, sweep
<1>18. ASSUME NEW m \in Ours, Deliver(m) PROVE MailInWindow'
  BY <1>18 DEF Deliver, Early, HasRow, Wanted, Since, Times, Never,
     ClockLeads, MailInWindow, RowsTyped, Typed, TimesTyped, ReadingTyped,
     queue, rows, reading, sweep
<1>19. ASSUME NEW m \in Ours, RecordDelivery(m) PROVE MailInWindow'
  BY <1>19 DEF RecordDelivery, HasRow, Wanted, Since, Times, Never,
     ClockLeads, MailInWindow, RowsTyped, Typed, TimesTyped, ReadingTyped,
     outside, queue, rows, reading, sweep
<1>20. ASSUME NEW m \in Ours, LoseAnswer(m) PROVE MailInWindow'
  BY <1>20 DEF LoseAnswer, Early, Mark, HasRow, Wanted, Since, Times, Never,
     ClockLeads, MailInWindow, RowsTyped, Typed, TimesTyped, ReadingTyped,
     outside, queue, rows, reading, sweep
<1>21. ASSUME NEW m \in Ours, ConfirmByHand(m) PROVE MailInWindow'
  BY <1>21 DEF ConfirmByHand, HasRow, Wanted, Since, Times, Never, ClockLeads,
     MailInWindow, RowsTyped, Typed, TimesTyped, ReadingTyped, outside, queue,
     rows, reading, sweep
<1>22. CASE UNCHANGED vars
  BY <1>22 DEF HasRow, Wanted, Since, Times, Never, ClockLeads, MailInWindow,
     RowsTyped, Typed, TimesTyped, ReadingTyped, outside, queue, rows,
     reading, sweep, vars
<1>23. QED
  BY <1>1, <1>2, <1>3, <1>4, <1>5, <1>6, <1>7, <1>8, <1>9, <1>10, <1>11,
     <1>12, <1>13, <1>14, <1>15, <1>16, <1>17, <1>18, <1>19, <1>20, <1>21,
     <1>22 DEF Next, Poller, World

-----------------------------------------------------------------------------
(* Theorems                                                                *)

Inv ==
  /\ Typed
  /\ ClockLeads
  /\ MarkedStands
  /\ ReadingSees
  /\ BatchIsNew
  /\ SentStands
  /\ MarkedIsKept
  /\ OneRowPerMail
  /\ DeletedStays

LEMMA InitInv == Init => Inv
<1> SUFFICES ASSUME Init PROVE Inv
  OBVIOUS
<1>1. Typed
  BY InitTyped
<1>2. ClockLeads
  BY ConstantsTyped DEF Init, ClockLeads, Never
<1>3. MarkedStands /\ ReadingSees /\ BatchIsNew /\ MarkedIsKept
  BY DEF Init, MarkedStands, ReadingSees, BatchIsNew, MarkedIsKept
<1>4. SentStands
  BY ConstantsTyped DEF Init, SentStands
<1>5. OneRowPerMail /\ DeletedStays
  BY CopiesTyped DEF Init, OneRowPerMail, DeletedStays
<1>6. QED
  BY <1>1, <1>2, <1>3, <1>4, <1>5 DEF Inv

LEMMA InvStep == Inv /\ [Next]_vars => Inv'
BY TypedStep, ClockStep, MarkedStep, SeesStep, BatchStep, SentStep, KeptStep,
   OneRowStep, DeletedStep
   DEF Inv

THEOREM AlwaysInv == Spec => []Inv
BY InitInv, InvStep, PTL DEF Spec

(* Every variable keeps its type.                                          *)
THEOREM HistoryTyped == Spec => []TypeOK
<1>1. Inv => TypeOK
  BY TypedIsTypeOK DEF Inv
<1>2. QED
  BY <1>1, AlwaysInv, PTL

(* No mail that HubSpot has announced is lost while its thread is read,    *)
(* whatever arrives during the reading (ticket_history._store).            *)
THEOREM AnnouncedMailIsKept == Spec => []MarkedIsKept
<1>1. Inv => MarkedIsKept
  BY DEF Inv
<1>2. QED
  BY <1>1, AlwaysInv, PTL

(* The two collectors never leave one mail as two lines.                   *)
THEOREM MailIsOneLine == Spec => []OneRowPerMail
<1>1. Inv => OneRowPerMail
  BY DEF Inv
<1>2. QED
  BY <1>1, AlwaysInv, PTL

(* A deleted or folded line does not come back.                            *)
THEOREM DeletedLineStays == Spec => []DeletedStays
<1>1. Inv => DeletedStays
  BY DEF Inv
<1>2. QED
  BY <1>1, AlwaysInv, PTL

WindowInv == Inv /\ SweepIsQuick /\ SweepLeaves /\ MailInWindow

LEMMA InitWindow == Init => WindowInv
<1> SUFFICES ASSUME Init PROVE WindowInv
  OBVIOUS
<1>1. SweepIsQuick /\ SweepLeaves
  BY DEF Init, SweepIsQuick, SweepLeaves
<1>2. MailInWindow
  BY DEF Init, MailInWindow, Wanted
<1>3. QED
  BY <1>1, <1>2, InitInv DEF WindowInv

LEMMA WindowInvStep == PromptSweep /\ WindowInv /\ [Next]_vars => WindowInv'
BY InvStep, QuickStep, LeavesStep, WindowStep DEF WindowInv, Inv

(* When a sweep is quicker than the overlap, the window of the mailbox     *)
(* never moves past a mail that has still to be brought in, however many   *)
(* mails a sweep leaves for the next one and wherever it is cut off.       *)
THEOREM NoMailLeftBehind ==
  ASSUME PromptSweep
  PROVE  Spec => []MailInWindow
<1>1. WindowInv /\ [Next]_vars => WindowInv'
  BY WindowInvStep
<1>2. WindowInv => MailInWindow
  BY DEF WindowInv
<1>3. QED
  BY InitWindow, <1>1, <1>2, PTL DEF Spec
=============================================================================
