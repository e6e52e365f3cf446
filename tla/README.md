# The sales console's workflow in TLA+

This directory holds TLA+ models of the part of the repository that moves
inquiries from a first mail to a contract: a ticket becomes a draft, a draft an
approved reply, an approved reply exactly one mail, and a mail a row of
bookkeeping; the ticket's stage follows HubSpot, its thread is collected, its
row stands in the sales workbook, and a won customer becomes a ledger whose
copy the workbook shows. The state of that workflow is a handful of tables in a
Postgres database and of tabs in a spreadsheet, written by console handlers,
webhooks, worker loops and sweeps that overlap in one process, and by two
processes during a rolling deploy. Paths below are relative to `src/src/`
unless they start with `src/`.

- [The system](#the-system)
- [Modules](#modules)
- [How the models correspond to the code](#how-the-models-correspond-to-the-code)
- [Runs, bounds and what they show](#runs-bounds-and-what-they-show)
- [Fairness](#fairness)
- [What is proved](#what-is-proved)
- [Where the code and its comments disagree](#where-the-code-and-its-comments-disagree)
- [Not modelled](#not-modelled)

## The system

FastAPI serves the console and the HubSpot webhooks, and the same process runs
the loops (`api/main.py`). Every loop is an asyncio task. Blocking work goes to
a thread pool, so handlers interleave at awaits and database transactions
interleave at statements. The database is some 200 ms away for each round trip
(`db/session.py`), which makes the gap between a SELECT and the UPDATE that
relies on it wide.

| Component | Code | State | Operations | Hard part |
|---|---|---|---|---|
| Delivery of an approved reply | `agents/send_worker.py`, `integrations/senders/`, `integrations/delivery.py` | `messages.status`, worker id and lease in it | claim, jitter, load, review, look the thread up, POST, retry, fall back to another inbox, record, reclaim | a crash or a lost answer after the provider accepted; several senders; a row that changes while a call is awaited |
| Review and approval | `agents/approval.py`, `agents/reply_safety.py` | `reply_approval` traces (the binding), `reply_context` traces (the evidence) | approve, reject, validate | read and conditional UPDATE in two statements |
| Bookkeeping after a delivery | `agents/send_worker.py:59-330` | `post_send_sync_attempts`, `_error`, `_synced_at`, conversation stage | mirror the stage, log a note, mark the contact and the workbook, write a progress line, retry | partial failure; hopeless failures; an attempts counter that also marks the first run |
| Recovery page | `api/routes/recovery.py` | the rows above | confirm sent, confirm not sent, sync again, retry a job, clear failures | races the loops |
| Inbound queue | `agents/inbound_worker.py` | `inbound_jobs`: status, attempts, lease, payload | enqueue, claim, renew, finish, retry, bury | crashed workers, late workers, repeated announcements |
| Draft writer | `agents/inbound.py` | draft rows | check, placeholder, model, finalize, mark failed | minutes pass between its read and its write |
| Ticket console | `api/routes/messages.py` | draft rows | edit, translate, send, redraft, manual reply | awaits the model between check and write |
| Stage synchronisation | `agents/stage_sync.py`, `hubspot_reconcile.py`, `hubspot_backfill.py`, stage handlers of `api/routes/customer_ops.py` | conversation stage, profile, drafts, `pending_won`, workbook cell | apply a stage from six sources, mirror it, delete overtaken drafts, take a thread down, adopt a ticket | reports of one fact in any order, lost or late |
| Thread collector | `agents/ticket_history.py` | `history_requested_at`, `history_synced_at`, `customer_interactions`, message rows | mark, collect, merge twins, settle unknown sends | the thread moves while it is read |
| Follow-up reminders | `agents/followup_sequence.py`, listener in `db/models.py` | reminder rows of `messages`; `followup_closed_at`, `_released_at`, `_revived_at` | look for answers, recheck, create, close, revive | two sweeps; the customer answers meanwhile; moments that are recorded late |
| Discovery | `agents/inbound_poller.py`, webhook routes | the stage sweep's marker | poll, enqueue | a window that passes a change nobody has applied |
| Mailbox collection | `agents/mailbox_sync.py`, `integrations/gmail.py` | `last_polled_at`, imported mail, tombs of deleted lines | sweep | duplicates, batches, failures in the middle |
| Workbook, inquiries | `agents/sheet_sync.py`, `integrations/google_sheets.py`, `agents/client_ids.py` | the tabs "Inbound DB" and registry; `sheet_client_id`, `sheet_inquiry_key`, `sheet_inbound_row` | number, append, rewrite, import, delete | rows without identity, lost answers, one lock for some of the writers |
| Workbook, customers | `agents/won_sheets.py`, `agents/sheet_to_db.py` | the tabs of clients and contracts, `_running`, `_again` | plan, write, clear, import | the plan is old when it is written |
| Clients and contracts | `api/routes/won_customers.py`, `agents/client_merge.py` | clients, contracts | create, change, retire, delete, merge | announcements, a merge with a synchronisation of its own |
| Notifications | `agents/_notify.py`, `integrations/slack.py` | none | post to Slack | none |
| Everything else | summaries, language models, sign-in, console reads, migrations, the mail agent, the web frontend | none of this workflow's | | |

What makes each part correct, in one line each:

- **Delivery.** A customer gets at most one mail for each decision of a person,
  with the text that was approved; a row that says nothing was sent tells the
  truth; an approved reply does not stay in the queue or in flight.
- **Bookkeeping.** One progress line a delivery, nothing written to HubSpot a
  second time, nothing missing in silence, and an end to the retries.
- **Queue.** One worker per job, a finished job stays finished, every job ends.
- **Drafts.** One automatic draft for each ticket; nothing that a person settled
  is reopened.
- **Reminders.** Each reminder once for each mail of ours, in order, and a close
  only after both; no stored answer is overlooked; what a person decided about a
  closed ticket stands.
- **Stage.** When HubSpot settles, so do the ticket, its drafts, its card and the
  workbook; mails are deleted only with the last trace of a customer.
- **Collection.** No announced mail is lost, none stands twice, a deleted one does
  not come back, and a reply without a key gets its own.
- **Inbound DB.** One row for each inquiry, one number for each company, every
  inquiry gets its row, every request for a synchronisation ends.
- **Customers' tabs.** At rest they show the ledger; what people typed for clients
  the console does not know stays.

## Modules

| Module | What it is |
|---|---|
| `SendWorker` | one reply from the first draft to the inbox: rows, console handlers, draft writer, sweep, thread collector, send workers, provider |
| `ReplyOutbox` | the abstract promise of the above: permits, decisions, deliveries; no workers, leases or statuses |
| `SendWorkerProofs` | the inductive invariant of `SendWorker`, its safety theorems, and that it implements `ReplyOutbox` |
| `PostSendSync`, `PostSendSyncProofs` | the bookkeeping after a delivery and its retries |
| `DraftQueue`, `DraftQueueProofs` | the durable queue, the draft writer and the operator's requests about one ticket |
| `FollowupSequence`, `FollowupSequenceProofs` | the reminders of one waiting ticket: sweeps, answers, colleagues' mails, moves, resolutions |
| `StageSync`, `StageSyncProofs` | the stage of a ticket and what hangs on it: profile, drafts, card, workbook cell, the thread itself |
| `ThreadHistory`, `ThreadHistoryProofs` | the mails of one contact, collected from HubSpot threads and from a personal mailbox |
| `InboundSheet`, `InboundSheetProofs` | the rows of the tab "Inbound DB", the numbers of companies, the lock |
| `WonLedger`, `WonLedgerProofs` | clients and contracts, their tabs, the synchronisation and the import |
| `MC...` | constants and symmetries for TLC |

Each module models in full what its neighbours take as one step. `SendWorker`
treats a draft job as two steps (start and finish or fail) and `DraftQueue`
treats approval and sending as one step (`Handle`). `PostSendSync` begins where
`SendWorker` records a delivery, and its `Quarantine`, `ConfirmSent` and
`ConfirmNotSent` are the same handlers as there, seen from the columns of the
bookkeeping. A sent reply is a move to Contacted in `StageSync`; a customer's
reply is a row in `ThreadHistory`, a judged reply in `StageSync` and an answer in
`FollowupSequence`. The workbook cell that `StageSync` mirrors is a row that
`InboundSheet` has to find, and the contract that closes a card there
(`SignContract`) is `CreateContract` of `WonLedger`. The conditions these steps have in
one module are those of the handler in the other, but no product of two modules
is checked.

## How the models correspond to the code

### SendWorker

`status`, `body` and `binding` are columns and traces of a row; `owner` is the
worker id written into the claimed row; `pc`, `msg`, `inHand`, `tries`,
`fallback` are the locals of `_send_one` and `senders.send`. `approving`,
`translating`, `retiring`, `drafting` and `decided` are handlers that have read
and not yet written. `since`, `sanctioned`, `copies`, `earlier` and `overwritten`
are history: the mails of the current decision, the text it was about, what is
in the customer's thread since, which workers still serve an earlier decision,
and which rows some handler has written when they no longer were what it had
read.

- *Atomicity.* A coroutine is one step between two awaits. What runs in a thread
  is one step per transaction, except where the code checks in one statement
  and writes in a later one and the row is live in between. `approve` asks for
  the status once more in its UPDATE. `_delete_pending_drafts` (SELECT by
  status, DELETE by id), `request_redraft`, `clear_send_failures`, the closing of
  an older draft by `start_manual_reply`, `resolve_unknown_delivery` and
  `_settle_keyless_sends` do not: they write the row they have seen, whatever it
  has become. All but the first are two steps over `decided`: `Asks` is what a
  handler reads, `Writes` what it writes. `message_translate` checks, awaits the model, and
  writes. `approval.reject` is one UPDATE with its condition.
- *The claim* is a part of the status (`sending:<pid>:<random>`), so whoever writes
  the status erases it (`SetStatus`); a worker that loads the row afterwards finds
  that it is no longer its own, one that has loaded it goes on.
- *One POST, five ends.* The provider accepts, declines (4xx), throttles (429),
  or nobody knows (timeout, 5xx, an answer without an id), or the process dies
  inside the call; in the last two the mail may have arrived or not.
- *Cross-inbox.* When the default sender belongs to another inbox the code tries
  it first and falls back to the thread's own address only after a refusal,
  after a new review. `fallback` is that choice.
- *Senders.* A worker is a send loop or an inline sender: with
  `SEND_WORKER_ENABLED` off the console handler runs `send_message_by_id` in the
  request. Inline senders of one process share a worker id; the claim decides.
- *Assumed.* `SEND_LEASE_SECONDS` (15 minutes) outlasts one `_send_one`
  (`LeaseOver`). A 4xx or 429 means that nothing was sent. A row has one draft
  job at a time (`StartDraft`); `DraftQueue` shows when that fails. A reminder is
  created `approved`, with no review behind it.
- *Values.* A body stands for all fields of the approval binding (recipient,
  subject, text, sender, thread): the review compares them all and any
  difference stops the mail.

### PostSendSync

A run reads the row, computes what is `todo`, calls one outside service after
another and commits once. `run[w]` is what it holds meanwhile. `error` is the
set of services named in the error text. SQLAlchemy writes a column only if its
value changed since it was read; `Record` does the same. `Deliver` joins the
delivery commit with the start of the run that `_send_one` awaits next; a
process that dies in between is `Deliver` followed by `Abandon`. Backoff times
are left out: a retry may come at any moment. A message without a conversation
is not modelled (its run has no step that could fail). The resolution of an unknown
delivery is one step here; `SendWorker` splits it.

### DraftQueue

One ticket: its announcements (`TicketJobs`), the operator's presses (`AskedJobs`), its
reply rows in the order of their creation, and the workers. `_persist_placeholder` looks for
an earlier reply and inserts its own in two statements, with no unique key behind them, and
is two steps. Redrafting, clearing failures, opening a manual reply and the sweep read the
status of a row and write it by its id later (`decided`). A single process works on one job
at a time; two workers are two processes. A lease may lapse under a living worker except for
the jobs in `FirmLeases`. The owner is a fresh uuid for each claim in the code and the
worker's name here: a worker never holds two claims. `Handle` is approval, rejection and
sending in one step each: approving and rejecting ask for the status in their UPDATE.

### FollowupSequence

One ticket that was answered from the console. `Rows` are its outgoing messages
in the order of their ids; `mails` are what is written outside the console and
`stored` the part that has a row in `customer_interactions`.

- *Time.* Every recorded moment is different; `now` counts them. Days are left out:
  `waited` marks the last moment before which every wait (3, 5, 7 days) is over,
  and `Wait` moves it up to `now` while no sweep runs. `sent` of an unknown
  delivery is the date its copy in the thread would have; `ConfirmSent` keeps it
  (`_settle_keyless_sends`) or takes the moment of the confirmation (the operator).
- *Atomicity.* `Pick` and `SeeAnswer` are the snapshot at the start of a sweep; `Collect` is
  the thread read of `_recheck`; `Decide` joins what follows it up to the next call that
  leaves the database; `InsertReminder` is the check and the insertion under the row lock.
  `_close` is two transactions and two steps. `SeeAnswer` and `Advance` are also
  `advance_if_customer_replied`, so that `Sweeps` counts sweeps and collectors. Approving,
  deleting and resolving are one step here; `SendWorker` models their races.
- *Left out because they only make the sweep skip a ticket:* the send window, the
  delivery switch, dead mailboxes, missing templates, the limit for each sweep, `sending` and
  `stalled`. A copy of a reminder is taken to be recognised as one (`outside_replies`).
- *Values.* An answer is in this ticket (`answer`) or attached to another one of the same
  contact (`elsewhere`); `ours` is a mail of a colleague. The sweep's thread read brings
  `answer` and `ours`; `elsewhere` arrives only through `Store`.

### StageSync

The variables `stage`, `leftNew`, `profile`, `draft`, `reminder`, `card`, `linked`,
`cell` are columns; `hs`, `pipe`, `changed` are HubSpot. `reports` holds what HubSpot
said and nobody has applied: a webhook, a result of the sweep's search, a
refresh by the operator, a ticket just taken in. Reports are applied in any
order, also after HubSpot has moved on. `calls` are the writes to HubSpot and to
the workbook that a handler leaves to a thread; they overtake one another as
well.

- *The sweep.* `Search` reads every ticket that changed since the marker minus the
  overlap, `SaveMarker` moves the marker. `changed` says how a ticket's last change lies to
  that window: `fresh` (after the search began), `searched`, `recent` (inside the
  overlap), `passing` (in it for the last time), `old`.
- *A row of the sweep that raises* is logged and passed over, and the marker moves on
  (`SkipRow`). `skipped` remembers it until the ticket changes again or a later sweep
  brings it through.
- *Two decisions on a stage that was read before.* `_finalize_draft` reads the stage and
  commits the draft later (`BeginFinish`, `FinishDraft`). The reminder sweep reads it in
  `_recheck`, copies and translates the reply, and inserts the reminder without looking at
  the stage again (`BeginReminder`, `CreateReminder`); one that is inserted where
  reminders no longer belong is `late`, and is mailed or removed like any other. An
  insertion that falls between a mover's SELECT and its DELETE has the same outcome
  as one after the move.
- *Prompt.* With `Prompt` nothing about a ticket is still under way when its last
  change leaves the window (the overlap is longer than a webhook takes), and no draft
  is read to its end just then.
- *Assumed.* One contact. Lost and Concluded behave like Negotiating under every
  rule here. The reply detector's verdict is any of the ones it can give.

### ThreadHistory

`requested` and `synced` are the two stamps of a conversation; `marked` is
history: what stood in the thread when it was last asked for. `row` says under
which ticket the copy of a mail stands (a copy found in HubSpot and one found in
Gmail are two keys), `tomb` which copies must not come back.

- *Atomicity.* A thread is read in one call and stored in one transaction;
  between them the thread grows. A mailbox is a list, one reading for each
  mail and the stamp. The two collectors run one after the other in the poller.
- *`PromptSweep`.* `mark_polled` stamps the END of the sweep. Mails that come
  while it runs are in the next window only if the sweep takes no longer
  than the overlap of five minutes, which is assumed.
- *Keyless sends.* `reply` is `unknown` or `confirmed` without the provider's key;
  the copy in the thread settles it (`_settle_keyless_sends`) or is folded into it.
- *Assumed.* `same_mail` always knows the copies of a mail. All sends of an instance
  lie within ten minutes, so that `_we_already_sent_it` sees all of them.

### InboundSheet

`sheet` is the sequence of rows, each with its Inquiry ID, its Client ID and
(history) the inquiry its text is about. A writer (the draft worker, the
poller) has the local variables `app[a]`; `up` and `del` are the threads that mirror a
stage and delete a ticket.

- *Atomicity.* A call to the spreadsheet is a step, and so is a transaction.
  `_APPEND_LOCK` is `lock`; the import, the stage mirror and the deletion do not take it.
- *Lost answers.* `Add` takes effect and the answer is lost (`Rewrite` and `Add` with
  `CallFails`): the next attempt has to find the row by its key.
- *`mixed`* is set once a row is taken for that of another inquiry, and the model
  stops there: the safety properties say `~mixed =>`. `SheetGuess` shows that it can
  happen and how. What follows is a consequence of that defect.
- *Assumed.* People type rows (`TypeRow`) but neither sort nor delete them, and they do
  not type an ID that is in use.

### WonLedger

`client` and `ledger` are the tables, `card` and `tab` the two tabs, `owed` a
committed write whose response has not passed the middleware, `running` and
`again` the module's two flags. `sync["loop"]` is the run of
`_sync_until_quiet`, `sync["merge"]` the one that the merge route calls itself.

- *Atomicity.* A handler has no `await` between its first read and its commit and is
  one step; the middleware's `schedule_sync` is another. The retirement by
  the stage sweep and the import announce nothing. `collect_rows` reads
  clients and contracts in two statements, hence two steps. The reading of the
  keys and the planning are one step; each of the three calls is a step.
- *Data.* A contract is what goes into number cells (`num`, written by the first call)
  and what goes into text cells (`txt`, by the second). The number of a client's
  row stands for its row in the tab of clients.
- *History.* `moved[s]` are the rows changed by somebody else since `s` read the tab;
  `spoilt` says that the last thing was not an announced write followed by a
  clean run: a failed run, an overlap, a contract that found no row, an import,
  an unannounced retirement.
- *The import* runs on the event loop and is one step; its reads are separate
  calls in the code, between which a synchronisation's thread may write.

## Runs, bounds and what they show

| Run | Instance | Shows |
|---|---|---|
| `SendOne` | 1 reply, 2 texts, 2 senders, 2 tries, 2 handlers between read and write; fair | the send path and the refinement, with crashes, lost answers, and edits, translations, sweeps, approvals, redrafts and resolutions racing the worker; no reply stays queued for ever |
| `SyncOne` | 1 delivery, 1 process, 3 attempts, 2 requests; fair | one line, nothing repeated, nothing missing in silence, and an end |
| `QueueOne` | 2 announcements, 1 press, 1 process, 2 rows, 1 attempt, all handlers that write late | one automatic draft; no job reopens a settled reply |
| `QueueTwo` | 1 announcement, 1 press, 2 processes, 2 attempts; fair | one worker per job while its lease is firm; a late worker of the other job cannot reopen what is finished; every queued job ends |
| `FollowTwo` | 2 sweeps, 4 rows, 2 acts of people | each reminder once for each mail of ours, in order; a person's move stands |
| `FollowOne` | 1 sweep, 3 rows, 2 acts; fair | one close for each pair of reminders; every stored answer is acted on |
| `StageOne` | 1 ticket, 4 stages, 2 moves, may leave the pipeline; fair | reminders fit the stage; ticket, workbook, card and drafts end where HubSpot stands |
| `HistoryOne` | 2 tickets, a customer's mail, a reply of ours, batches of 1, 2 ticks; fair | nothing announced is lost, nothing stands twice, the window keeps what is not in, replies get their keys |
| `SheetOne` | 2 inquiries of one company or of two, the second perhaps typed, 2 numbers, one move, deletion, fault and import | one row an inquiry, no false "has a row", one number a company |
| `SheetLive` | 2 inquiries of one company, a deletion, a fault, an import; fair | every inquiry gets its row, every request ends |
| `WonOne` | 2 clients, 2 values, 2 contracts each, 2 rows, 3 writes, 1 fault; fair | at rest the tab shows the ledger; rows of unknown clients stand; the synchronisations come to rest |
| `SheetGuess` | 2 inquiries of one company, no fault | a counterexample, see below |

Why the bounds are enough. Two texts tell the approved one from every other
one. Two senders are all that a race for one row needs, since the claim leaves
one of them; a row that is written over and claimed again while a worker is at it
needs the second. Two tries make a retry and the last one different. Of the
handlers that read and write apart, approvals, translations and removals counted
in, at most `MaxBegun` (2) are under way at once: two are what an order is made of. A row that has been written over may be read again by the handlers in
`Repeated` only (the three resolutions of an unknown delivery): after a late redraft or
closing the row is an ordinary draft or a closed one, where the same races would begin
once more. `DraftQueue` has one late writer at a time, of `Handlers`; `QueueTwo`
keeps the redraft, the one that queues a job. All of these are
bounds of the runs: the proofs leave `Handlers`, `Repeated` and `MaxBegun` open.
`since` stops at 2: one mail too many is as wrong as ten. Three
attempts tell the first run, a retry and the last one apart (the code has 8). Rows
of `DraftQueue` are bounded by `MaxRows`, requests for a sync by `MaxAsks`. Of
`FollowupSequence`, three rows are a reply and its two reminders, the fourth the
reply or the reminder that begins another cycle; two acts are an answer and a
colleague's mail, a mail and a move, or a move away and back. One ticket of
`StageSync` may have many reports and calls under way at once, which is where the
orders come from; two moves are enough for an overtaken one, and the proofs cover
more tickets. `HistoryOne` has a mail of each kind and two tickets of one contact, so
that a copy may stand under the wrong one; batches of one make every second mail
wait. Two inquiries make a shared number, a wrong row and a collision. Two rows of
the customers' tab let one contract too many be dropped, two clients let a merge
collide on a seq, three writes fit a save before, during and after a run. In every run
but `HistoryOne` the system may stop (every reply closed, every job done, every act
used), so deadlock is not checked there.

Symmetry: announcements in `QueueOne`, sweeps in `FollowTwo`; no run that checks
a liveness property uses it.

What TLAPS proves and a run could only repeat on a small instance is left to
the proofs: the type invariants, the inductive invariants and
`DoneCardStays`, `MailIsKept` and `DeletedStays` were
checked by TLC on these instances before they were proved. `FollowTwo` keeps a type
invariant because it says more than types: in which order rows are numbered, and that no
moment lies in the future.

What the properties except, and why. A handler that writes a row by its id may
hide a mail that left, and no property of the status can then be true: `FailedMeansNotSent`
speaks of rows that were not `overwritten`. `AtMostOncePerDecision`, `OnlyApprovedTextLeaves`
and `ApprovedIsResolved` need no such exception. In `ReplyOutbox` a reply is `firm` until
then; as long as it is, nobody decides about it while a decision stands, and afterwards
a decision may be granted again or given up (`Overwrite`), and the mail of
an earlier decision may still arrive (`DeliverEarlier`). `SettledStays` lets a person's own
request, decided on an earlier status of the row, take a reply back; no job may.
`RemindersFitStage` speaks of reminders that were inserted where they belonged. The liveness
properties of `StageSync` speak of tickets about which we are `Told`: no push of ours has failed
since their last change, and no row of theirs was passed over by a sweep.

## Fairness

- `SendWorker`: a worker that holds a row takes its next step (every call has a
  timeout); the loop claims the oldest due row until there is none, so a row
  that is due again and again is claimed (strong fairness for each row); every turn
  begins with `_reclaim_stuck_sending`. Nothing is assumed of people, of the
  draft writer, or of what the provider answers.
- `PostSendSync`: the sweep runs at every turn and takes the fewest attempts
  first; a run may be cut short again and again but not at the same call for
  ever.
- `DraftQueue`: the worker loop claims until nothing is due, oldest first;
  leases run out with the clock; a press that was taken is queued or fails.
- `FollowupSequence`: a sweep that began goes on (every call has a timeout), the
  poller comes round again, and neither the look for answers nor the move fails for
  ever. Nothing is assumed of people, of the webhook, or of the send worker.
- `StageSync`: the sweep, the webhook route, the writes to HubSpot and the workbook, the
  reply detector and a deletion that was decided go on (each is a task or a thread whose
  calls have timeouts), and a draft whose end was begun is committed or forgotten in a
  restart. A webhook may be lost, a call may fail; nothing is assumed of people.
- `ThreadHistory`: the poller runs for ever and time passes. Reading may fail at
  any time; what it fails to read is excepted in the properties.
- `InboundSheet`: both writers and the threads go on, the poller goes on, and each of its
  rounds comes to the requested synchronisation after the missing rows (strong
  fairness for `StartFull`).
- `WonLedger`: a committed write is announced, the merge goes on, each
  synchronisation takes its next step.

A property of the form `[]<>P` or `<>[]A => <>[]B` stands where the thing it speaks of
only grows or has settled; the comment at each says so.

## What is proved

TLAPS checks these for every value of the constants, under the named ASSUMEs of
the modules (the placeholders are not members of the sets they stand outside of,
the bounds are numbers, the clients of one band of Client IDs are finitely many
numbers). Every safety property of the runs that are expected to pass is among them.

- `SendWorkerProofs`: `IInv` is inductive, and with it `TypeOK`,
  `AtMostOncePerDecision`, `OnlyApprovedTextLeaves` and `FailedMeansNotSent`.
  None of the three is inductive alone. That a decision is not paid twice
  rests on `UnpaidHolders` (a worker that has not posted, and serves the last decision,
  holds a row nobody has paid), which rests on `OneHolder` (one worker at most serves a
  decision), which rests on `HeldRows` (a held row is `sending`, deleted or written
  over, so that only in the last case can it be approved and claimed again, and then the first
  worker serves an earlier decision) and on the assumption about leases in
  `Reclaim`. `PaidRows` says where a delivered row can be when nobody wrote over it,
  and `FailedMeansNotSent` follows. That the text is the approved one rests on `BoundRows`
  (a queued row has a binding, and it is the sanctioned text) and `PostedText`;
  `OnlyApprovedTextLeaves` is about the step that begins a POST, because a row may be written over
  and approved anew with another text while a POST is under way.
  With the same invariant each step of `SendWorker` is a step of `ReplyOutbox` or leaves
  it alone (`ImplementsOutbox`).
- `PostSendSyncProofs`: `TypeOK` and `UnfinishedIsListed` for any number of processes.
  The second rests on `SilentRowsAreNew`: a row without an error and without a result was
  never recorded, so no run of it has anything to drop from the list. The other
  invariants need one process (`OneProcess` is a hypothesis of the theorems, not
  of the module): with two, the sweep of one takes up the first run of the
  other. The strengthening is `RunsAreCurrent`: what a run read is still in the
  row unless the operator asked since.
- `StageSyncProofs`: types, `RemindersFitStage`, `NobodyLeft`, `DoneCardStays` and
  `MailIsKept` for any number of tickets, stages and moves. `RemindersFitStage` is inductive
  with the types alone because every transaction that moves a stage also deletes what no
  longer fits, and a reminder inserted after the move is told apart; `NobodyLeft` needs that
  a deletion which finds no other thread, mail or contract takes the profile with it.
- `ThreadHistoryProofs`: types, `MarkedIsKept`, `OneRowPerMail`, `DeletedStays`, and
  `MailInWindow` when sweeps are prompt. `MarkedIsKept` rests on what a reading in progress
  knows (it began before the mark, or it has seen the mail), `OneRowPerMail` on which copies
  a reply may still get, `MailInWindow` on the batch of the sweep under way.
- `InboundSheetProofs`: types, `OneRowPerInquiry`, `AttachedHasRow`,
  `OneIdPerCompany`. The inductive invariant is `BornFirst`, `KeysAreOwn`,
  `TypedAreImported`, `LockIsHeld` and, until a row is mixed up, `RowsAreOwn` (a row has the key and the
  number of its inquiry), `AddsWhatIsMissing` (whoever holds the lock and is about to append has
  seen that the row is missing, and nobody else can have added it) and `RowsStay`; and
  `NumbersAreOwn` until something was imported.
- `FollowupSequenceProofs`: types, `OneOfEachPerCycle`, `LadderInOrder` and
  `PersonsDecisionStands` for any number of sweeps, rows and acts of people, and
  `ClosedOncePerCycle` for one sweep (`OneSweep` is a hypothesis of that theorem: two
  sweeps may both close, see below). The conditions of the code look at the last of many
  moments; `BaseIsAMail` and `CommittedByAMail` say that this moment belongs to a mail of ours
  that exists, since `Anchored` (the ticket was answered before any reminder). That a
  reminder of a cycle is not repeated rests on `InsertReminder` asking again under the
  row lock; `Numbered` (rows are taken in order, a row that is taken has a kind and a moment)
  makes the row it takes a later one, and `StepsAreSet` ties the row to what the sweep has seen.
  `ClosesAreEarned` carries the delivered second reminder over the two transactions
  of a close, and for one sweep `SecondsAreNew` carries that it is younger than the last one.
- `WonLedgerProofs`: types, `HandRowsStand` and `QuietMeansInStep`. `HandRowsStand` goes
  through `KeysAreManaged` (what a run carries belongs to the clients it has read) and
  `PlanFits` (where it will write or clear there stood nothing or a row of one of its
  clients, unless the row has changed since). `QuietMeansInStep` follows from `Faithful`:
  unless something else came last, at most one run has read the ledger (`OneActive`), and
  when no other is `Awaited` (owed, asked for, begun) that run is `OnCourse`: it has what
  the ledger says, its rows are one for each contract and its clears the rest, and the tab
  has those cells already that it has written. When it clears the last rows the workbook is
  in step. That the plan gives each contract one row and each row one contract is
  `GoesToOneRow` and `GoesAlone`, which count the free rows above and the new keys before;
  they need that the clients are finitely many.
- `DraftQueueProofs`: for any number of processes `TypeOK`, `OneWorkerPerJob` and
  `DoneIsDone`. The first of the last two rests on `FirmHolders`: a worker whose job has a
  firm lease is the owner written in that job, and the job is `processing`. `DoneIsDone`
  needs no invariant, since every write that leaves `processing` asks for the owner and the
  status. For one process, `OneAutomaticDraft` and `SettledStays`, through `KnownRows` (a
  row that a job, a worker or a request refers to exists), `WrittenRows` (the row being
  written is still `drafting`, or was closed: nothing can approve it, and a redraft that
  comes late sets it to `drafting`) and `InsertsFirst` (a worker about to insert looked at a
  ticket that still has no automatic draft).

Only model-checked: the liveness properties (`ApprovedIsResolved`, `SyncSettles`, `JobsSettle`,
`AnswerIsHeard`, `Converges`, `WorkbookFollows`, `CardFollows`, `LateDraftLeaves`, `MailArrives`,
`ReplyGetsItsKey`, `RowArrives`, `RequestEnds`, `SyncsRest`), which need fairness and with it
ENABLED, and are out of the prover's reach. What holds for one process or one sweep only is
proved under that hypothesis; the section below says what happens with two. No module
declares a recursive operator, and nothing is proved by induction over data.

## Where the code and its comments disagree

One is a run whose counterexample TLC prints.

`SheetGuess`. `_row_for_inquiry` (`integrations/google_sheets.py:866`) takes the only
row of a Client ID for the inquiry's when none has its key, "without guessing
between shared Client IDs" as its docstring says. A company has one Client ID
for all its inquiries. When the second inquiry moves before its row is appended, the
update writes its key and stage over the first inquiry's row; a deletion at that
moment deletes it.

The others were seen with other instances or while reading and have no run of
their own. Properties named here are stated in their modules.

The send path, the drafts and the reminders:

- a translation that was started before the approval writes the row after the
  mail has left: the customer has the approved text, the row shows another
  one (`api/routes/messages.py:1132`; `SentRowIsWhatWasDelivered`);
- the sweep selects an approved draft, the worker sends it, the sweep deletes it
  by id (`agents/stage_sync.py:281`; `DeliveredRowIsKept`);
- `request_redraft` reads `send_failed`, in a thread of its own, asks for the conversation,
  and writes `drafting` by id: an operator who approves the row in between sees it go
  from `approved`, or from `sent`, back to `drafting`, in one process; the new
  draft can then be approved and mailed as another decision (`agents/inbound_worker.py:118`
  and `131`; `FailedMeansNotSent` and `SettledStays` except it);
- so does `clear_send_failures`, which writes `rejected` over what it selected as failed
  (`api/routes/recovery.py:124-132`), and `start_manual_reply`, which writes `superseded`
  over an open draft that may have been approved, claimed or sent since
  (`api/routes/messages.py:1468-1518`): the mail has left and the row says it will not;
- the operator resolves an unknown delivery as not sent while the collector, which has
  found its copy, has not committed: `sent` is written over the `approved`, or the
  `sending`, row; the other way round a delivery that was confirmed goes out again
  (`agents/ticket_history.py:567`, `api/routes/recovery.py:237-248`);
- a retried job with its link and a redraft of the same row run in two
  processes; the later one puts an approved or sent reply back on the review desk
  (`agents/inbound.py:1914`; `SettledStays` fails with two workers);
- the check under the lock before a reminder is inserted reads neither the stage
  nor the customer's replies; when the ticket left Contacted while the reply was
  copied and translated, the reminder is created and sent
  (`agents/followup_sequence.py:716`; `ReminderOnlyWhileWaiting`, and `late` in `StageSync`);
- the process ends between the delivery commit and the first bookkeeping
  commit; the next run finds attempts 0 and mirrors a stage this send did not
  move (`agents/send_worker.py:175`; `MirrorsItsOwnMove` of `PostSendSync` fails);
- the operator asks for a sync before a first run was recorded; the attempts
  become 1, no later run is a first one, and no progress line is written
  (`api/routes/recovery.py:262`; `SyncedIsLogged` fails);
- with two workers, `LineAtMostOnce` fails: the sweep of one process takes a row
  whose first run is still in progress in the other (`agents/send_worker.py:583`);
- with two workers and two announcements, `OneAutomaticDraft` fails: both look
  before either inserts (`agents/inbound.py:1822`);
- the operator's reply and the automatic draft each check that no other draft is
  open and then insert, so a ticket can have two open ones
  (`agents/inbound.py:1836`, `api/routes/messages.py:1468`);
- a redraft whose job cannot be queued leaves its row in `drafting`
  (`agents/inbound_worker.py:137`), as does a job that dies outside the draft's
  own try;
- the process ends between the two transactions of `_close`: the ticket is closed
  without a mark, and an answer no longer revives it
  (`agents/followup_sequence.py:757`);
- with two sweeps both may close the ticket, and the second one dates the close
  anew (`_still_due` does not ask `_closed_this_cycle`);
- a person's reply in `sending` or `delivery_unknown` is no open draft, so that a
  reminder may follow it within minutes (`agents/followup_sequence.py:284`).

The stage of a ticket:

- the reply detector's move is applied without asking what the stage is by then:
  an answer judged earlier takes a ticket back from Won (`agents/ticket_history.py:602-606`;
  `AnswerMovesForward`);
- taking a thread down unlinks its pending card; when the ticket is adopted again and
  leaves Won, the card stays (`agents/stage_sync.py:179-206`), and one that
  left and came back at Won between a search and its row is adopted without a
  card, which is why `CardFollows` speaks of tickets with a row in the workbook;
- a webhook that arrives after the overlap overwrites a newer stage for good (`Converges`
  fails with `Prompt = FALSE`), and a row that fails in a sweep is lost while the marker moves on
  (`agents/inbound_poller.py:216`; `Told` excepts it);
- adopting and backfilling write the profile even when the ticket is not the newest;
- archived mails count as history: a contact with two deleted tickets never goes;
- a thread that was taken away and whose unmapped webhook is lost stays until the
  operator refreshes it; an adopted one leaves its old row in the workbook;
- saving an unchanged stage in the console pushes the old stage to HubSpot.

The collectors:

- mails of strangers leave no line, and the window overlaps the last one by five minutes: when as
  many of them as one sweep reads came within the overlap, every later sweep reads the
  same ones and no later mail is reached; `agents/mailbox_sync.py:312` says they
  are read only once (`MailboxMovesOn` fails under `FairMailbox` with such a batch);
- a sweep longer than the overlap loses the mails that came early in it, since the stamp is its end;
- one mail that Gmail does not give is skipped and the window moves past it;
- `_we_already_sent_it` skips any outgoing mail of ours within ten minutes of a send;
- a deleted line may come back as its other copy; a keyless send whose thread
  line was deleted never gets its key; a failed ticket waits for the next webhook;
- docstrings (`agents/ticket_history.py:838-846`, `925-931`,
  `api/routes/customer_ops.py:1998-2008`) say that the queue is `history_synced_at IS NULL`;
  the code writes and compares `history_requested_at`.

The tab Inbound DB:

- when the last company with a number is deleted the number is handed out again
  and the registry row still names the old company (`agents/client_ids.py:97-99`;
  `RegistryNamesOwner`);
- the backfill of legacy keys takes over the only row of an ID, or raises "found 0 rows" for ever;
- an import adopts the one pending conversation under an ID for a row with
  another key (`agents/sheet_sync.py:386-387`);
- stage and deletion go by a row number that was read in an earlier call and take no
  lock, so rows that move up in between are written or deleted
  (`integrations/google_sheets.py:904-920` calls that harmless);
- an import that races a deletion makes a conversation of the deleted ticket's row,
  which may then stand in the way of its company's other rows (`Ghost` in `RowArrives`); an
  append in flight at a deletion leaves a row without an inquiry;
- orphaned or typed rows can give two companies one number, which is why
  `OneIdPerCompany` ends with the first import of one;
- `_APPEND_LOCK` is a lock of one process; two share nothing;
- the sweep of missing rows takes 50 at a time, and conversations that never get one (no message)
  may fill them all.

The customers' tabs:

- `api/routes/won_customers.py:191` refuses to retire a client with contracts since such a
  client is active, yet an import, or a merge into a retired client, gives one contracts and
  leaves `retired_on` (`RetiredIsEmpty`);
- `agents/won_sheets.py:414` says one runs at a time; the merge route calls
  `sync_won_sheets` directly, beside the loop (`api/routes/customer_ops.py:169`), and both may
  give one contract a row each or overwrite a row the other has just filled;
- a run that fails while another was asked for returns without it, and the last
  save waits for the next one (`agents/won_sheets.py:448-450` against 415: "the last save
  always gets into the sheet");
- a merge leaves the source's rows in the tabs for ever: the source is no longer a
  managed client; so does deleting a client whose contract was deleted before a run;
- an import that falls between two calls reads rows whose numbers are new and whose
  texts are old or empty, and writes them into the ledger; it also brings back a
  client that was deleted, since the row stays;
- cells the console does not own (W to Y, AM) stay in a cleared row and stick to
  the next contract put there;
- a person who types into a row between the reading and the writing is overwritten.

## Not modelled

Within the modelled parts:

- *Send path.* The quota per minute and day, which could only delay a claim; its overrun by
  several senders of one process (`agents/send_worker.py:90`) is a hazard without a
  property. The choice of the sender address; texts, prompts, backoff times.
- *Queue.* Contact sync jobs: no heartbeat, one contact written, no order to get wrong.
- *Reminders.* The candidate query over many tickets, templates, recipients.
- *Collectors.* Notes written to HubSpot tickets, the import of old CRM mails,
  `attach_personal_emails`, connecting a mailbox, sends from personal mailboxes.
- *Inbound DB.* Cells other than key, number and stage; formulas; the tab of orders;
  people who sort or delete rows; the match of companies by name, domains.
- *Customers.* Credits and payments (tabs of the same shape, planned by the same
  function), rows' positions in the tab of clients, exchange rates, hand edits in rows of clients
  the console knows, and the computations with money in `common/won.py`: pure
  decimal and calendar arithmetic that unit tests reach.
- *Two processes* are modelled for the queue, the send path and the bookkeeping, where claims
  are meant to hold across them, and not for the workbook, whose locks are of one process.

Entirely: language models and text processing (no state, and no model of what
they answer would say anything); sign-in (a filter before every handler);
console reads; the schema and its migrations; notifications (one post
whose failure is logged); the mail agent of the host, scripts that build
workbooks and guidebooks, and the web frontend, which acts only through the handlers
modelled here. They make up most of the repository's lines.
