---------------------------- MODULE InboundSheet ----------------------------
(***************************************************************************)
(* The rows of the tab "Inbound DB" and the inquiries they stand for. The  *)
(* draft worker appends the row of an inquiry it has just taken in; the    *)
(* poller appends the rows that are missing and runs the imports that an   *)
(* operator asked for; a stage that moves and a ticket that is deleted in  *)
(* HubSpot look their row up and write it or delete it. Only the appends   *)
(* take a lock, every look-up and every write is a call of its own, and a  *)
(* row has no identity but its number.                                     *)
(*                                                                         *)
(* Code: src/agents/sheet_sync.py, src/integrations/google_sheets.py,      *)
(* src/agents/client_ids.py; _mirror_new_inbound_to_sheet of               *)
(* src/agents/inbound.py and delete_conversation of                        *)
(* src/agents/hubspot_reconcile.py.                                        *)
(*                                                                         *)
(* A company is one contact; its ID stands for the 1000-series. A row is   *)
(* its Inquiry ID, its Client ID and the inquiry its text is about. The    *)
(* behaviour is followed until a row is taken for that of another inquiry  *)
(* (mixed). People type rows of their own but neither sort nor delete, and *)
(* they do not type an ID that is in use.                                  *)
(***************************************************************************)
EXTENDS Naturals, SequencesExt

CONSTANTS
  Inquiries,
  Companies,
  Belongs,      \* of which company the inquiries may be
  TypedSets,    \* which of them people may type into the workbook
  MaxId,        \* the last number of the series
  MaxMoves,     \* bound on the stage moves
  MaxDeletes,   \* bound on the tickets deleted in HubSpot
  MaxFaults,    \* bound on failing calls and restarts
  MaxAsks,      \* bound on the full synchronisations asked for
  Nobody        \* nobody holds the lock

Ids == 0..MaxId
NoId == 0
NoRow == 0
Writers == {"worker", "poller"}

ASSUME BoundsAreNumbers ==
  /\ MaxId \in Nat /\ MaxMoves \in Nat /\ MaxDeletes \in Nat
  /\ MaxFaults \in Nat /\ MaxAsks \in Nat
ASSUME BelongToCompanies == Belongs \subseteq [Inquiries -> Companies]
ASSUME TypedAreInquiries == TypedSets \subseteq SUBSET Inquiries
ASSUME NobodyIsNoWriter == Nobody \notin Writers
ASSUME NobodyIsNoInquiry == Nobody \notin Inquiries

VARIABLES
  company,      \* whose inquiry it is: Conversation.contact_id
  typed,        \* inquiries that a person types into the workbook
  conv,         \* the conversation of an inquiry
  keyOf,        \* Conversation.sheet_inquiry_key
  cid,          \* Conversation.sheet_client_id
  attached,     \* Conversation.sheet_inbound_row is set
  owned,        \* Contact.sheet_client_id
  sheet,        \* the rows of Inbound DB, from the first to the last
  registry,     \* the company a row of the registry tab was made for
  lock,         \* _APPEND_LOCK
  app,          \* what each writer is doing
  todo,         \* what is left of the poller's list
  full,         \* the poller is at a requested synchronisation
  snap,         \* the rows it has read for it
  request,      \* the state of the request
  up,           \* the thread that mirrors a stage
  del,          \* the thread that deletes a ticket
  mixed,        \* a row was taken for that of another inquiry
  moves, deletes, faults, asks   \* counters of the bounds

store == <<company, typed, conv, keyOf, cid, attached, owned>>
book == <<sheet, registry>>
poller == <<todo, full, snap, request>>
counters == <<moves, deletes, faults, asks>>
vars == <<store, book, lock, app, poller, up, del, mixed, counters>>

-----------------------------------------------------------------------------
NoKey == Nobody
Keys == Inquiries \cup {NoKey}

Alive(i) == conv[i] \in {"ticket", "imported"}

RowNumbers == 1..Len(sheet)

(* _clean_sheet_value(inquiry_key) or "legacy:<client>:<fingerprint>"      *)
KeyOfRow(r) == IF r.key = NoKey THEN r.who ELSE r.key

RowsWithKey(k) == {n \in RowNumbers : sheet[n].key = k}
RowsWithId(d) == {n \in RowNumbers : sheet[n].cid = d}

(* _row_for_inquiry: the row with the key, else the only row of the ID;    *)
(* NoRow also stands for the error raised when the ID has several.         *)
RowForInquiry(k, d) ==
  IF RowsWithKey(k) # {} THEN Min(RowsWithKey(k))
  ELSE IF Cardinality(RowsWithId(d)) = 1 THEN Min(RowsWithId(d))
  ELSE NoRow

(* Row n is not, or no longer, the row of inquiry i.                       *)
Foreign(n, i) == n \notin RowNumbers \/ sheet[n].who # i

(* Mutant: a number is taken for a row.                                    *)
PendingUnnumbered == {i \in Inquiries : Alive(i) /\ cid[i] = NoId}

(* The conversations sync_pending_inbound_rows selects.                    *)
Pending == {i \in Inquiries : Alive(i) /\ ~attached[i]}

-----------------------------------------------------------------------------
Idle == [at |-> "idle", inq |-> Nobody, sug |-> NoId, key |-> NoKey,
         cid |-> NoId, keys |-> {}, old |-> NoKey, row |-> NoRow]
Still == [at |-> "idle", inq |-> Nobody, key |-> NoKey, cid |-> NoId,
          row |-> NoRow]

Rows == [key : Keys, cid : Ids, who : Inquiries]

WriterSteps == {"idle", "reserve", "suggest", "claim", "read", "append",
                "legacy", "give", "find", "rewrite", "add", "attach"}

WriterStates ==
  [at : WriterSteps, inq : Inquiries \cup {Nobody}, sug : Nat, key : Keys,
   cid : Ids, keys : SUBSET Inquiries, old : Keys, row : Nat]

ThreadStates ==
  [at : {"idle", "find", "write"}, inq : Inquiries \cup {Nobody}, key : Keys,
   cid : Ids, row : Nat]

StoreOK ==
  /\ company \in [Inquiries -> Companies]
  /\ typed \subseteq Inquiries
  /\ conv \in [Inquiries -> {"unborn", "ticket", "imported", "gone"}]
  /\ keyOf \in [Inquiries -> Keys]
  /\ cid \in [Inquiries -> Ids]
  /\ attached \in [Inquiries -> BOOLEAN]
  /\ owned \in [Companies -> Ids]

BookOK == sheet \in Seq(Rows) /\ registry \in [Ids -> SUBSET Companies]

AppOK ==
  /\ lock \in Writers \cup {Nobody}
  /\ app \in [Writers -> WriterStates]
  /\ \A a \in Writers : app[a].at # "idle" => app[a].inq \in Inquiries

PollerOK ==
  /\ todo \subseteq Inquiries
  /\ full \in {"no", "snapshot", "import", "rows"}
  /\ snap \in Seq(Rows)
  /\ request \in {"none", "asked", "completed", "failed"}

ThreadsOK == up \in ThreadStates /\ del \in ThreadStates

CountersOK ==
  /\ mixed \in BOOLEAN
  /\ moves \in 0..MaxMoves /\ deletes \in 0..MaxDeletes
  /\ faults \in 0..MaxFaults /\ asks \in 0..MaxAsks

TypeOK ==
  StoreOK /\ BookOK /\ AppOK /\ PollerOK /\ ThreadsOK /\ CountersOK

Init ==
  /\ company \in Belongs
  /\ typed \in TypedSets
  /\ conv = [i \in Inquiries |-> "unborn"]
  /\ keyOf = [i \in Inquiries |-> NoKey]
  /\ cid = [i \in Inquiries |-> NoId]
  /\ attached = [i \in Inquiries |-> FALSE]
  /\ owned = [c \in Companies |-> NoId]
  /\ sheet = <<>>
  /\ registry = [d \in Ids |-> {}]
  /\ lock = Nobody
  /\ app = [a \in Writers |-> Idle]
  /\ todo = {}
  /\ full = "no"
  /\ snap = <<>>
  /\ request = "none"
  /\ up = Still
  /\ del = Still
  /\ mixed = FALSE
  /\ moves = 0
  /\ deletes = 0
  /\ faults = 0
  /\ asks = 0

-----------------------------------------------------------------------------
(* Outside: inquiries arrive, people type rows, stages move.               *)

(* A ticket is taken in. The draft pipeline mirrors it at once; what other *)
(* collectors take in waits for the poller.                                *)
Arrive(i, mirror) ==
  /\ conv[i] = "unborn" /\ i \notin typed
  /\ mirror => app["worker"].at = "idle"
  /\ conv' = [conv EXCEPT ![i] = "ticket"]
  /\ app' = IF mirror
            THEN [app EXCEPT !["worker"] = [Idle EXCEPT !.at = "reserve",
                                                        !.inq = i]]
            ELSE app
  /\ UNCHANGED <<company, typed, keyOf, cid, attached, owned, book, lock,
                 poller, up, del, mixed, counters>>

UsedIds ==
  {owned[c] : c \in Companies} \cup {cid[i] : i \in Inquiries}

SheetIds == {sheet[n].cid : n \in RowNumbers}

(* d is one more than the greatest of U.                                   *)
IsNext(d, U) == (\A u \in U : u < d) /\ d - 1 \in U \cup {0}

(* A person types a row without an Inquiry ID, under the ID of the company *)
(* or one that nobody has.                                                 *)
TypeRow(i) ==
  /\ i \in typed /\ conv[i] = "unborn"
  /\ \A n \in RowNumbers : sheet[n].who # i
  /\ \E d \in 1..MaxId :
       /\ IF owned[company[i]] # NoId THEN d = owned[company[i]]
          ELSE IsNext(d, UsedIds \cup SheetIds)
       /\ sheet' = Append(sheet, [key |-> NoKey, cid |-> d, who |-> i])
  /\ UNCHANGED <<store, registry, lock, app, poller, up, del, mixed, counters>>

(* A full synchronisation is asked for; a failed one can be asked again.   *)
Ask ==
  /\ request # "asked" /\ asks < MaxAsks
  /\ request' = "asked"
  /\ asks' = asks + 1
  /\ UNCHANGED <<store, book, lock, app, todo, full, snap, up, del, mixed,
                 moves, deletes, faults>>

-----------------------------------------------------------------------------
(* The writers. reserve_inbound_client_id.                                 *)

Goto(a, w) == app' = [app EXCEPT ![a] = w]

(* The number of the company, or the one the inquiry already has.          *)
Known(i) == IF owned[company[i]] # NoId THEN owned[company[i]] ELSE cid[i]

(* The inquiry gets its row key and, with its contact, the number d.       *)
Number(i, d) ==
  /\ keyOf' = [keyOf EXCEPT ![i] = IF @ = NoKey THEN i ELSE @]
  /\ cid' = [cid EXCEPT ![i] = d]
  /\ owned' = [owned EXCEPT ![company[i]] = IF @ = NoId THEN d ELSE @]
  /\ UNCHANGED <<company, typed, conv, attached>>

(* First transaction: without a number nothing is committed.               *)
Reserve(a) ==
  LET i == app[a].inq IN
  /\ app[a].at = "reserve"
  /\ \/ /\ ~Alive(i)
        /\ Goto(a, Idle) /\ UNCHANGED store
     \/ /\ Alive(i) /\ Known(i) # NoId
        /\ Number(i, Known(i))
        /\ Goto(a, [app[a] EXCEPT !.at = "read"])
     \/ /\ Alive(i) /\ Known(i) = NoId
        /\ Goto(a, [app[a] EXCEPT !.at = "suggest"]) /\ UNCHANGED store
  /\ UNCHANGED <<book, lock, poller, up, del, mixed, counters>>

(* The next number the workbook shows, read under the lock.                *)
Suggest(a) ==
  /\ app[a].at = "suggest" /\ lock = Nobody
  /\ Goto(a, [app[a] EXCEPT !.at = "claim",
                            !.sug = Max(SheetIds \cup {NoId}) + 1])
  /\ UNCHANGED <<store, book, lock, poller, up, del, mixed, counters>>

(* Mutant: the number that the workbook suggests is free.                  *)
NewByWorkbook(d, sug) == d = sug

(* Second transaction, under the advisory lock: the number the company got *)
(* meanwhile, or the greater of the two next ones. RuntimeError when the   *)
(* series is exhausted.                                                    *)
NewNumber(d, sug) == IsNext(d, UsedIds \cup {sug - 1})

Claim(a) ==
  LET i == app[a].inq IN
  /\ app[a].at = "claim"
  /\ \/ /\ Alive(i) /\ owned[company[i]] # NoId
        /\ Number(i, owned[company[i]])
        /\ Goto(a, [app[a] EXCEPT !.at = "read", !.sug = NoId])
     \/ /\ Alive(i) /\ owned[company[i]] = NoId
        /\ \E d \in 1..MaxId : NewNumber(d, app[a].sug) /\ Number(i, d)
        /\ Goto(a, [app[a] EXCEPT !.at = "read", !.sug = NoId])
     \/ /\ \/ ~Alive(i)
           \/ ~ \E d \in 1..MaxId : NewNumber(d, app[a].sug)
        /\ Goto(a, Idle) /\ UNCHANGED store
  /\ UNCHANGED <<book, lock, poller, up, del, mixed, counters>>

(* The record, and the keys of the company's inquiries that have a row.    *)
ReadRecord(a) ==
  LET i == app[a].inq IN
  /\ app[a].at = "read"
  /\ IF Alive(i) /\ ~attached[i]
     THEN Goto(a, [app[a] EXCEPT
            !.at = "append", !.key = keyOf[i], !.cid = cid[i],
            !.keys = {keyOf[j] : j \in {k \in Inquiries \ {i} :
                       /\ Alive(k) /\ cid[k] = cid[i]
                       /\ attached[k] /\ keyOf[k] # NoKey}}])
     ELSE Goto(a, Idle)
  /\ UNCHANGED <<store, book, lock, poller, up, del, mixed, counters>>

-----------------------------------------------------------------------------
(* _append_existing_tab, under the lock.                                   *)

(* Enter, and make the company's row in the registry unless there is one.  *)
Enter(a) ==
  /\ app[a].at = "append" /\ lock = Nobody
  /\ lock' = a
  /\ registry' = [registry EXCEPT ![app[a].cid] =
                    IF @ = {} THEN {company[app[a].inq]} ELSE @]
  /\ Goto(a, [app[a] EXCEPT !.at = IF app[a].keys = {} THEN "find" ELSE "legacy"])
  /\ UNCHANGED <<store, sheet, poller, up, del, mixed, counters>>

Leave(a) == lock' = Nobody /\ Goto(a, Idle)

NextKey(a, k) ==
  [app[a] EXCEPT !.keys = @ \ {k}, !.old = NoKey, !.row = NoRow,
                 !.at = IF app[a].keys = {k} THEN "find" ELSE "legacy"]

(* _backfill_legacy_inquiry_key looks for a row of the key, and for the    *)
(* only row of the ID when there is none.                                  *)
Legacy(a) ==
  /\ app[a].at = "legacy"
  /\ \E k \in app[a].keys :
       \/ /\ RowsWithKey(k) # {}
          /\ Goto(a, NextKey(a, k)) /\ UNCHANGED lock
       \/ /\ RowsWithKey(k) = {} /\ Cardinality(RowsWithId(app[a].cid)) = 1
          /\ Goto(a, [app[a] EXCEPT !.at = "give", !.old = k,
                                    !.row = Min(RowsWithId(app[a].cid))])
          /\ UNCHANGED lock
       \/ /\ RowsWithKey(k) = {} /\ Cardinality(RowsWithId(app[a].cid)) # 1
          /\ Leave(a)
  /\ UNCHANGED <<store, book, poller, up, del, mixed, counters>>

(* The Inquiry ID of row n becomes k.                                      *)
Keyed(n, k) ==
  IF n \in RowNumbers THEN [sheet EXCEPT ![n].key = k] ELSE sheet

Give(a) ==
  /\ app[a].at = "give"
  /\ sheet' = Keyed(app[a].row, app[a].old)
  /\ mixed' = Foreign(app[a].row, app[a].old)
  /\ Goto(a, NextKey(a, app[a].old))
  /\ UNCHANGED <<store, registry, lock, poller, up, del, counters>>

(* Mutant: only an inquiry that has its row is looked for.                 *)
WrittenIfAttached(a) ==
  IF attached[app[a].inq] THEN RowsWithKey(app[a].key) ELSE {}

(* _existing_row_for_keys: the row that carries the inquiry's key.         *)
Written(a) == RowsWithKey(app[a].key)

Find(a) ==
  /\ app[a].at = "find"
  /\ IF Written(a) = {}
     THEN Goto(a, [app[a] EXCEPT !.at = "add"])
     ELSE Goto(a, [app[a] EXCEPT !.at = "rewrite", !.row = Min(Written(a))])
  /\ UNCHANGED <<store, book, lock, poller, up, del, mixed, counters>>

RowOf(a) == [key |-> app[a].key, cid |-> app[a].cid, who |-> app[a].inq]

Answered(a) ==
  /\ lock' = Nobody
  /\ Goto(a, [Idle EXCEPT !.at = "attach", !.inq = app[a].inq,
                          !.cid = app[a].cid])

Rewrite(a) ==
  /\ app[a].at = "rewrite"
  /\ sheet' = IF app[a].row \in RowNumbers
              THEN [sheet EXCEPT ![app[a].row] = RowOf(a)] ELSE sheet
  /\ mixed' = Foreign(app[a].row, app[a].inq)
  /\ Answered(a)
  /\ UNCHANGED <<store, registry, poller, up, del, counters>>

Add(a) ==
  /\ app[a].at = "add"
  /\ sheet' = Append(sheet, RowOf(a))
  /\ Answered(a)
  /\ UNCHANGED <<store, registry, poller, up, del, mixed, counters>>

(* Last transaction: the inquiry has its row. The poller steps back when   *)
(* another writer has seen to it; the worker only when it is gone.         *)
Attach(a) ==
  LET i == app[a].inq IN
  /\ app[a].at = "attach"
  /\ IF Alive(i) /\ (a = "poller" => ~attached[i])
     THEN /\ attached' = [attached EXCEPT ![i] = TRUE]
          /\ cid' = [cid EXCEPT ![i] = app[a].cid]
          /\ owned' = [owned EXCEPT ![company[i]] =
                         IF @ = NoId THEN app[a].cid ELSE @]
          /\ UNCHANGED <<company, typed, conv, keyOf>>
     ELSE UNCHANGED store
  /\ Goto(a, Idle)
  /\ UNCHANGED <<book, lock, poller, up, del, mixed, counters>>

(* Mutant: a failed append counts as done.                                 *)
GivenUpAsDone(a) ==
  [Idle EXCEPT !.at = "attach", !.inq = app[a].inq, !.cid = app[a].cid]

(* Where a failing call leaves the writer.                                 *)
GivenUp(a) == Idle

(* A call to Sheets fails: record_inbound and the mirror swallow it. The   *)
(* answer of a write that arrived may be lost as well.                     *)
CallFails(a) ==
  /\ app[a].at \in {"suggest", "append", "legacy", "give", "find", "rewrite",
                    "add"}
  /\ faults < MaxFaults /\ faults' = faults + 1
  /\ \/ UNCHANGED sheet
     \/ app[a].at = "add" /\ sheet' = Append(sheet, RowOf(a))
  /\ lock' = IF lock = a THEN Nobody ELSE lock
  /\ Goto(a, GivenUp(a))
  /\ UNCHANGED <<store, registry, poller, up, del, mixed, moves,
                 deletes, asks>>

-----------------------------------------------------------------------------
(* The poller.                                                             *)

PollerIdle == app["poller"].at = "idle" /\ todo = {}

(* sync_pending_inbound_rows lists what has no row.                        *)
StartSweep ==
  /\ PollerIdle /\ full = "no" /\ Pending # {}
  /\ todo' = Pending
  /\ UNCHANGED <<store, book, lock, app, full, snap, request, up, del, mixed,
                 counters>>

TakeNext ==
  \E i \in todo :
  /\ app["poller"].at = "idle"
  /\ todo' = todo \ {i}
  /\ Goto("poller", [Idle EXCEPT !.at = "reserve", !.inq = i])
  /\ UNCHANGED <<store, book, lock, full, snap, request, up, del, mixed,
                 counters>>

(* process_requested_sheet_sync: the oldest request without an end, also   *)
(* one that a restart has left started.                                    *)
StartFull ==
  /\ PollerIdle /\ full = "no" /\ request = "asked"
  /\ full' = "snapshot"
  /\ UNCHANGED <<store, book, lock, app, todo, snap, request, up, del, mixed,
                 counters>>

(* Mutant: the event names another request.                                *)
EndedForAnother(kind) == request

(* The event that ends the request.                                        *)
EndedBy(kind) == kind

(* read_inbound_records; when it fails the request has failed.             *)
Snapshot ==
  /\ full = "snapshot"
  /\ full' = "import" /\ snap' = sheet
  /\ UNCHANGED <<store, book, lock, app, todo, request, up, del, mixed,
                 counters>>

SnapshotFails ==
  /\ full = "snapshot"
  /\ faults < MaxFaults /\ faults' = faults + 1
  /\ full' = "no" /\ request' = EndedBy("failed")
  /\ UNCHANGED <<store, book, lock, app, todo, snap, up, del, mixed, moves,
                 deletes, asks>>

-----------------------------------------------------------------------------
(* _import_inbound_records, one transaction over the rows that were read.  *)

SnapRows == {snap[n] : n \in 1..Len(snap)}
SnapKeys == {KeyOfRow(r) : r \in SnapRows}

(* conversations_by_key                                                    *)
ByKey(k) == {j \in Inquiries : Alive(j) /\ keyOf[j] = k}

(* legacy_candidates: conversations of the ID whose key no row has.        *)
Candidates(d) ==
  {j \in Inquiries : Alive(j) /\ cid[j] = d /\ keyOf[j] \notin SnapKeys}

(* The fallback for rows older than the Inquiry ID: a row without a        *)
(* conversation takes the one conversation left under its ID.              *)
Adopts(r) ==
  ByKey(KeyOfRow(r)) = {} /\ Cardinality(Candidates(r.cid)) = 1

(* Inquiries whose row makes a conversation of its own.                    *)
Created == {k \in SnapKeys : ByKey(k) = {}}

RowInSnap(k) == Min({n \in 1..Len(snap) : KeyOfRow(snap[n]) = k})
IdInSnap(k) == snap[RowInSnap(k)].cid

(* Their contact: that of the address, else the one that has the ID, else  *)
(* that of the first row under the ID.                                     *)
HasContact(c) == \E j \in Inquiries : Alive(j) /\ company[j] = c

HolderOf(d) ==
  IF \E c \in Companies : owned[c] = d
  THEN CHOOSE c \in Companies : owned[c] = d
  ELSE company[KeyOfRow(snap[Min({n \in 1..Len(snap) : snap[n].cid = d})])]

ContactFor(k) ==
  IF HasContact(company[k]) THEN company[k] ELSE HolderOf(IdInSnap(k))

NewRowsOf(c) == {RowInSnap(k) : k \in {j \in Created : ContactFor(j) = c}}

ImportRows ==
  /\ conv' = [i \in Inquiries |->
                IF i \in Created THEN "imported" ELSE conv[i]]
  /\ keyOf' = [i \in Inquiries |-> IF i \in Created THEN i ELSE keyOf[i]]
  /\ cid' = [i \in Inquiries |->
               IF i \in Created THEN IdInSnap(i) ELSE cid[i]]
  /\ attached' = [i \in Inquiries |->
                    \/ attached[i] \/ i \in Created
                    \/ Alive(i) /\ keyOf[i] \in SnapKeys]
  /\ company' = [i \in Inquiries |->
                   IF i \in Created THEN ContactFor(i) ELSE company[i]]
  /\ owned' = [c \in Companies |->
                 IF owned[c] # NoId \/ NewRowsOf(c) = {} THEN owned[c]
                 ELSE snap[Min(NewRowsOf(c))].cid]
  /\ UNCHANGED typed

(* In this model a conversation has its key when it has an ID, so one that *)
(* is adopted is that of another inquiry.                                  *)
Import ==
  /\ full = "import"
  /\ snap' = <<>>
  /\ IF \E r \in SnapRows : Adopts(r)
     THEN /\ mixed' = TRUE /\ full' = "no"
          /\ UNCHANGED <<store, todo>>
     ELSE /\ ImportRows
          /\ full' = "rows" /\ todo' = Pending'
          /\ UNCHANGED mixed
  /\ UNCHANGED <<book, lock, app, request, up, del, counters>>

(* After the rows that are missing, the request is completed.              *)
FinishFull ==
  /\ full = "rows" /\ PollerIdle
  /\ full' = "no" /\ request' = EndedBy("completed")
  /\ UNCHANGED <<store, book, lock, app, todo, snap, up, del, mixed, counters>>

-----------------------------------------------------------------------------
(* update_inbound_stage, in a thread of whoever moved the stage.           *)

MoveStage(i) ==
  /\ up.at = "idle" /\ Alive(i) /\ cid[i] # NoId
  /\ moves < MaxMoves /\ moves' = moves + 1
  /\ up' = [at |-> "find", inq |-> i, key |-> keyOf[i], cid |-> cid[i],
            row |-> NoRow]
  /\ UNCHANGED <<store, book, lock, app, poller, del, mixed, deletes,
                 faults, asks>>

(* Without a row the update is given up.                                   *)
FindStageRow ==
  LET n == RowForInquiry(up.key, up.cid) IN
  /\ up.at = "find"
  /\ up' = IF n = NoRow THEN Still ELSE [up EXCEPT !.at = "write", !.row = n]
  /\ UNCHANGED <<store, book, lock, app, poller, del, mixed, counters>>

(* The stage, and the inquiry's key, go into the row that was found.       *)
WriteStage ==
  /\ up.at = "write"
  /\ sheet' = Keyed(up.row, up.key)
  /\ mixed' = Foreign(up.row, up.inq)
  /\ up' = Still
  /\ UNCHANGED <<store, registry, lock, app, poller, del, counters>>

(* delete_conversation: the conversation goes, and its contact when nothing *)
(* else is left of it; the row goes after the transaction.                 *)
Delete(i) ==
  LET c == company[i] IN
  /\ conv[i] = "ticket" /\ del.at = "idle"
  /\ conv' = [conv EXCEPT ![i] = "gone"]
  /\ keyOf' = [keyOf EXCEPT ![i] = NoKey]
  /\ cid' = [cid EXCEPT ![i] = NoId]
  /\ attached' = [attached EXCEPT ![i] = FALSE]
  /\ owned' = [owned EXCEPT ![c] =
       IF \E j \in Inquiries \ {i} : Alive(j) /\ company[j] = c
       THEN @ ELSE NoId]
  /\ del' = IF cid[i] = NoId THEN Still
            ELSE [at |-> "find", inq |-> i, key |-> keyOf[i], cid |-> cid[i],
                  row |-> NoRow]
  /\ deletes < MaxDeletes /\ deletes' = deletes + 1
  /\ UNCHANGED <<company, typed, book, lock, app, poller, up, mixed, moves,
                 faults, asks>>

FindDeletedRow ==
  LET n == RowForInquiry(del.key, del.cid) IN
  /\ del.at = "find"
  /\ del' = IF n = NoRow THEN Still ELSE [del EXCEPT !.at = "write", !.row = n]
  /\ UNCHANGED <<store, book, lock, app, poller, up, mixed, counters>>

(* deleteDimension: the rows below move up.                                *)
DeleteRow ==
  /\ del.at = "write"
  /\ sheet' = IF del.row \in RowNumbers THEN RemoveAt(sheet, del.row)
              ELSE sheet
  /\ mixed' = Foreign(del.row, del.inq)
  /\ del' = Still
  /\ UNCHANGED <<store, registry, lock, app, poller, up, counters>>

(* Both swallow a failing call.                                            *)
ThreadFails ==
  /\ faults < MaxFaults /\ faults' = faults + 1
  /\ \/ up.at # "idle" /\ up' = Still /\ UNCHANGED del
     \/ del.at # "idle" /\ del' = Still /\ UNCHANGED up
  /\ UNCHANGED <<store, book, lock, app, poller, mixed, moves,
                 deletes, asks>>

(* The process ends and starts again; what is in the database stays.       *)
Restart ==
  /\ faults < MaxFaults /\ faults' = faults + 1
  /\ lock' = Nobody
  /\ app' = [a \in Writers |-> Idle]
  /\ todo' = {} /\ full' = "no" /\ snap' = <<>>
  /\ up' = Still /\ del' = Still
  /\ UNCHANGED <<store, book, request, mixed, moves,
                 deletes, asks>>

-----------------------------------------------------------------------------
WriterStep(a) ==
  \/ Reserve(a) \/ Suggest(a) \/ Claim(a) \/ ReadRecord(a)
  \/ Enter(a) \/ Legacy(a) \/ Give(a) \/ Find(a) \/ Rewrite(a) \/ Add(a)
  \/ Attach(a)

PollerStep ==
  StartSweep \/ TakeNext \/ StartFull \/ Snapshot \/ Import \/ FinishFull

ThreadStep == FindStageRow \/ WriteStage \/ FindDeletedRow \/ DeleteRow

Outside ==
  \/ \E i \in Inquiries :
       \/ \E mirror \in BOOLEAN : Arrive(i, mirror)
       \/ TypeRow(i) \/ MoveStage(i) \/ Delete(i)
  \/ Ask \/ Restart \/ SnapshotFails \/ ThreadFails
  \/ \E a \in Writers : CallFails(a)

Next ==
  /\ ~mixed
  /\ \/ \E a \in Writers : WriterStep(a)
     \/ PollerStep \/ ThreadStep \/ Outside

Spec == Init /\ [][Next]_vars

(* Each thread goes on, and every round of the poller comes to the request *)
(* after the rows that are missing.                                        *)
FairSpec ==
  /\ Spec
  /\ \A a \in Writers : WF_vars(~mixed /\ WriterStep(a))
  /\ WF_vars(~mixed /\ PollerStep)
  /\ SF_vars(~mixed /\ StartFull)
  /\ WF_vars(~mixed /\ ThreadStep)

-----------------------------------------------------------------------------
(* An inquiry has at most one row in the workbook, though answers are lost *)
(* and two writers append what one of them has appended before.            *)
OneRowPerInquiry ==
  ~mixed => \A m, n \in RowNumbers : sheet[m].who = sheet[n].who => m = n

(* A conversation that says it has a row has one: it is never appended     *)
(* again, so nobody would notice.                                          *)
AttachedHasRow ==
  ~mixed => \A i \in Inquiries :
    /\ conv[i] = "ticket" \/ i \in typed
    /\ attached[i]
    => \E n \in RowNumbers : sheet[n].who = i

(* One number for each company, whatever the writers read and when, until  *)
(* an import has made a conversation of a row.                             *)
OneIdPerCompany ==
  (\A i \in Inquiries : conv[i] # "imported") =>
  \A i, j \in Inquiries :
    conv[i] = "ticket" /\ conv[j] = "ticket" /\ NoId \notin {cid[i], cid[j]}
    => (cid[i] = cid[j] <=> company[i] = company[j])

(* A conversation that an import made of the row of a deleted ticket.      *)
Ghost == \E i \in Inquiries \ typed : conv[i] = "imported"

(* An inquiry gets its row unless it is deleted, or a ghost is there: it   *)
(* may say it has a row when its row has gone, and then no other inquiry   *)
(* of its company gets one.                                                *)
RowArrives ==
  \A i \in Inquiries :
    Alive(i) ~> (~Alive(i) \/ attached[i] \/ Ghost \/ mixed)

(* Every request for a full synchronisation ends.                          *)
RequestEnds == (request = "asked") ~> (request # "asked" \/ mixed)

(* The registry tab names the company whose number it is. The code hands a *)
(* number out again when the last company that had one is deleted, and     *)
(* leaves the registry as it is.                                           *)
RegistryNamesOwner ==
  \A i \in Inquiries :
    conv[i] = "ticket" => registry[cid[i]] \subseteq {company[i]}

(* No call writes, deletes or adopts the row of another inquiry.           *)
RowStaysItsOwn == ~mixed
=============================================================================
