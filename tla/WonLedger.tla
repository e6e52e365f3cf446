------------------------------ MODULE WonLedger ------------------------------
(***************************************************************************)
(* The ledger of won customers and its copy in the workbook. The console   *)
(* writes clients and contracts; every write schedules a synchronisation   *)
(* that reads the ledger, reads which key each row of the tab has, decides *)
(* row by row what to write and what to clear, and writes in three calls.  *)
(* One runs at a time and a write during a run asks for one more, except   *)
(* that merging two clients runs one of its own. People type rows for      *)
(* clients the console does not know, which the console adopts when it     *)
(* comes to know them; an import takes the workbook into the ledger.       *)
(*                                                                         *)
(* Code: src/api/routes/won_customers.py, src/agents/won_sheets.py,        *)
(* src/agents/sheet_to_db.py, src/agents/client_merge.py; the middleware   *)
(* publish_changes_middleware of src/api/main.py.                          *)
(*                                                                         *)
(* A handler has no await between its first read and its commit, so it is  *)
(* one step; its announcement is another. Of the tabs, the one of the      *)
(* clients is a function of the Client ID and the one of the contracts has *)
(* rows; the other two have the shape of the latter. A contract is what    *)
(* goes into number cells and what goes into text cells.                   *)
(***************************************************************************)
EXTENDS Naturals, FiniteSetsExt

CONSTANTS
  Clients,      \* Client IDs of one band
  Values,       \* what a contract can say
  MaxSeq,       \* bound on the contracts of a client
  Height,       \* rows of the tab: MAX_ROW - 1
  MaxWrites,    \* bound on what the console, the import and people write
  MaxFaults,    \* bound on failing calls and restarts
  None          \* no contract, no client, an empty cell

Seqs == 1..MaxSeq
Rows == 1..Height
Syncers == {"loop", "merge"}

ASSUME ClientsAreNumbers == Clients \subseteq Nat /\ IsFiniteSet(Clients)
ASSUME BoundsAreNumbers ==
  MaxSeq \in Nat /\ Height \in Nat /\ MaxWrites \in Nat /\ MaxFaults \in Nat
ASSUME NoneIsNothing == None \notin Clients /\ None \notin Values /\ None \notin Nat

VARIABLES
  client,       \* the row of a client, and its retired_on
  ledger,       \* the contracts of a client by their seq
  card,         \* the clients' tab: what stands for each Client ID
  tab,          \* the contracts' tab
  owed,         \* a write has been committed and not yet announced
  running,      \* _running
  again,        \* _again
  sync,         \* the synchronisations under way
  moved,        \* rows that changed since a synchronisation read the tab
  spoilt,       \* something else than an announced write came last
  writes, faults  \* counters of the bounds

console == <<client, ledger>>
book == <<card, tab>>
flags == <<owed, running, again>>
vars == <<console, book, flags, sync, moved, spoilt, writes, faults>>

Cells == Values \cup {None}
Contract == [num : Cells, txt : Cells]
Keys == Clients \X Seqs

Row == [client : Clients \cup {None}, seq : Seqs \cup {None},
        num : Cells, txt : Cells]
Blank == [client |-> None, seq |-> None, num |-> None, txt |-> None]

Nothing == [x \in {} |-> None]
Idle == [at |-> "idle", managed |-> {}, cards |-> Nothing, contracts |-> Nothing,
         rows |-> Nothing, clears |-> {}]

Known(c) == client[c] # "none"
SeqsOf(c) == {s \in Seqs : ledger[c][s] # None}
Busy(s) == sync[s].at # "idle"

Steps == {"idle", "waiting", "clients", "contracts", "read", "entered", "raw", "clear"}
States == {"none", "listed", "retired"}
Cards == UNION {[D -> States] : D \in SUBSET Clients}
Contracts == UNION {[K -> Contract] : K \in SUBSET Keys}
Written == UNION {[D -> Row] : D \in SUBSET Rows}

(* A run carries the clients and the contracts it has read, then the rows  *)
(* it writes and clears.                                                   *)
Run == [at : Steps, managed : SUBSET Clients, cards : Cards,
        contracts : Contracts, rows : Written, clears : SUBSET Rows]

TypeOK ==
  /\ client \in [Clients -> States]
  /\ ledger \in [Clients -> [Seqs -> Contract \cup {None}]]
  /\ card \in [Clients -> {"none", "other", "listed", "retired"}]
  /\ tab \in [Rows -> Row]
  /\ owed \in BOOLEAN /\ running \in BOOLEAN /\ again \in BOOLEAN
  /\ sync \in [Syncers -> Run]
  /\ \A s \in Syncers : DOMAIN sync[s].cards = sync[s].managed
  /\ moved \in [Syncers -> SUBSET Rows]
  /\ spoilt \in BOOLEAN
  /\ writes \in 0..MaxWrites /\ faults \in 0..MaxFaults

Init ==
  /\ client = [c \in Clients |-> "none"]
  /\ ledger = [c \in Clients |-> [s \in Seqs |-> None]]
  /\ card = [c \in Clients |-> "none"]
  /\ tab = [n \in Rows |-> Blank]
  /\ owed = FALSE /\ running = FALSE /\ again = FALSE
  /\ sync = [s \in Syncers |-> Idle]
  /\ moved = [s \in Syncers |-> {}]
  /\ spoilt = FALSE
  /\ writes = 0
  /\ faults = 0

-----------------------------------------------------------------------------
(* The console. Every handler commits, and the middleware announces it.    *)

Save ==
  /\ writes < MaxWrites /\ writes' = writes + 1
  /\ owed' = TRUE
  /\ UNCHANGED <<book, running, again, sync, moved, spoilt, faults>>

Says(v) == [num |-> v, txt |-> v]

(* _add_contract: the seq after the last one. The client is back on the    *)
(* list.                                                                   *)
NextSeq(c) == IF SeqsOf(c) = {} THEN 1 ELSE Max(SeqsOf(c)) + 1

AddContract(c, v) ==
  /\ NextSeq(c) \in Seqs
  /\ client' = [client EXCEPT ![c] = "listed"]
  /\ ledger' = [ledger EXCEPT ![c][NextSeq(c)] = Says(v)]

CreateClient(c, v) == ~Known(c) /\ AddContract(c, v) /\ Save

CreateContract(c, v) == Known(c) /\ AddContract(c, v) /\ Save

(* _fill_contract writes the fields the form brings and no others.         *)
UpdateContract(c, s, v) ==
  /\ ledger[c][s] # None
  /\ \E said \in {Says(v), [ledger[c][s] EXCEPT !.num = v],
                   [ledger[c][s] EXCEPT !.txt = v]} :
       ledger' = [ledger EXCEPT ![c][s] = said]
  /\ UNCHANGED client
  /\ Save

(* A client that loses its last contract is taken off the list.            *)
DeleteContract(c, s) ==
  /\ ledger[c][s] # None
  /\ ledger' = [ledger EXCEPT ![c][s] = None]
  /\ client' = [client EXCEPT ![c] = IF SeqsOf(c) = {s} THEN "retired" ELSE @]
  /\ Save

RetireClient(c, state) ==
  /\ Known(c) /\ SeqsOf(c) = {}
  /\ client' = [client EXCEPT ![c] = state]
  /\ UNCHANGED ledger
  /\ Save

DeleteClient(c) ==
  /\ Known(c) /\ SeqsOf(c) = {}
  /\ client' = [client EXCEPT ![c] = "none"]
  /\ UNCHANGED ledger
  /\ Save

(* Mutant: a write during a run does not ask for another.                  *)
AgainIgnored == again

(* schedule_sync while a run is under way.                                 *)
AskedAgain == TRUE

(* The middleware: schedule_sync after a write, and after the other writes *)
(* under /customers/ too.                                                  *)
Announce ==
  /\ \/ owed /\ UNCHANGED writes
     \/ ~owed /\ writes < MaxWrites /\ writes' = writes + 1
  /\ owed' = FALSE
  /\ IF running
     THEN again' = AskedAgain /\ UNCHANGED <<running, sync>>
     ELSE /\ running' = TRUE /\ again' = FALSE
          /\ sync' = [sync EXCEPT !["loop"] = [Idle EXCEPT !.at = "clients"]]
  /\ UNCHANGED <<console, book, moved, spoilt, faults>>

(* _retire_empty_client of the stage sweep, which announces nothing.       *)
RetireEmptyClient(c) ==
  /\ client[c] = "listed" /\ SeqsOf(c) = {}
  /\ writes < MaxWrites /\ writes' = writes + 1
  /\ client' = [client EXCEPT ![c] = "retired"]
  /\ spoilt' = TRUE
  /\ UNCHANGED <<ledger, book, flags, sync, moved, faults>>

-----------------------------------------------------------------------------
(* client_merge. The contracts of the source keep their seq when the       *)
(* target has none of that number, else they take the next free one.       *)

(* The places m of the source's contracts in the target, in their order.   *)
PlacedIn(source, target, m) ==
  /\ \A s \in SeqsOf(source) : m[s] >= s /\ m[s] \notin SeqsOf(target)
  /\ \A s, t \in SeqsOf(source) : s # t => m[s] # m[t]
  /\ \A s \in SeqsOf(source) : \A k \in s..(m[s] - 1) :
       k \in SeqsOf(target) \/ \E t \in SeqsOf(source) : t < s /\ m[t] = k

MergeClients(source, target) ==
  /\ source # target /\ Known(source) /\ sync["merge"].at = "idle"
  /\ writes < MaxWrites /\ writes' = writes + 1
  /\ \E m \in [SeqsOf(source) -> Seqs] :
       /\ PlacedIn(source, target, m)
       /\ ledger' = [ledger EXCEPT
            ![source] = [s \in Seqs |-> None],
            ![target] = [s \in Seqs |->
               IF \E t \in SeqsOf(source) : m[t] = s
               THEN ledger[source][CHOOSE t \in SeqsOf(source) : m[t] = s]
               ELSE @[s]]]
  /\ client' = [client EXCEPT ![source] = "none",
                              ![target] = IF Known(target) THEN @ ELSE "listed"]
  /\ sync' = [sync EXCEPT !["merge"] = [Idle EXCEPT !.at = "waiting"]]
  /\ UNCHANGED <<book, flags, moved, spoilt, faults>>

(* replace_inbound_client_id has answered.                                 *)
MergeGoesOn ==
  /\ sync["merge"].at = "waiting"
  /\ sync' = [sync EXCEPT !["merge"].at = "clients"]
  /\ UNCHANGED <<console, book, flags, moved, spoilt, writes, faults>>

-----------------------------------------------------------------------------
(* sync_won_sheets.                                                        *)

Step(s, at) == sync[s].at = at

(* collect_rows: the clients, then the contracts of these clients.         *)
CollectClients(s) ==
  /\ Step(s, "clients")
  /\ sync' = [sync EXCEPT ![s] =
       [@ EXCEPT !.at = "contracts",
                 !.managed = {c \in Clients : Known(c)},
                 !.cards = [c \in {d \in Clients : Known(d)} |-> client[c]]]]
  /\ spoilt' = \E t \in Syncers \ {s} : Busy(t)
  /\ UNCHANGED <<console, book, flags, moved, writes, faults>>

CollectContracts(s) ==
  /\ Step(s, "contracts")
  /\ sync' = [sync EXCEPT ![s] =
       [@ EXCEPT !.at = "read",
                 !.contracts = [k \in {j \in Keys : /\ j[1] \in sync[s].managed
                                                    /\ ledger[j[1]][j[2]] # None}
                                  |-> ledger[k[1]][k[2]]]]]
  /\ UNCHANGED <<console, book, flags, moved, spoilt, writes, faults>>

Before(j, k) == j[1] < k[1] \/ (j[1] = k[1] /\ j[2] < k[2])

RowsOf(k) == {n \in Rows : tab[n].client = k[1] /\ tab[n].seq = k[2]}
Free == {n \in Rows : tab[n].client = None /\ tab[n].seq = None}

(* plan_tab: a contract goes into the first row that has its key, the      *)
(* others fill the free rows from the top in the order of their keys, and  *)
(* what finds no row is dropped.                                           *)
New(keys) == {k \in keys : RowsOf(k) = {}}

Goes(keys, k, n) ==
  \/ n \in RowsOf(k) /\ \A m \in RowsOf(k) : n <= m
  \/ /\ RowsOf(k) = {} /\ n \in Free
     /\ Cardinality({j \in New(keys) : Before(j, k)})
          = Cardinality({m \in Free : m < n})

Taken(keys) == {n \in Rows : \E k \in keys : Goes(keys, k, n)}

(* Mutant: whatever the console does not bring is cleared.                 *)
ClearedAll(keys, managed) ==
  {n \in Rows : tab[n].client # None} \ Taken(keys)

(* Rows of the console's clients that the console does not bring.          *)
Cleared(keys, managed) ==
  {n \in Rows : tab[n].client \in managed} \ Taken(keys)

Plan(s) ==
  LET contracts == sync[s].contracts
      keys == DOMAIN contracts
      key(n) == CHOOSE k \in keys : Goes(keys, k, n)
  IN
  /\ Step(s, "read")
  /\ sync' = [sync EXCEPT ![s] =
       [@ EXCEPT !.at = "entered", !.contracts = Nothing,
                 !.rows = [n \in Taken(keys) |->
                   [client |-> key(n)[1], seq |-> key(n)[2],
                    num |-> contracts[key(n)].num, txt |-> contracts[key(n)].txt]],
                 !.clears = Cleared(keys, sync[s].managed)]]
  /\ moved' = [moved EXCEPT ![s] = {}]
  /\ spoilt' = (spoilt \/ \E k \in keys : \A n \in Rows : ~Goes(keys, k, n))
  /\ UNCHANGED <<console, book, flags, writes, faults>>

(* The rows of D have changed under the other synchronisation.             *)
Moved(s, D) ==
  moved' = [t \in Syncers |-> IF t = s THEN moved[t] ELSE moved[t] \cup D]

(* The effects of the three calls. The state of a client is a text cell;   *)
(* until it is written a row that is new says something else.              *)
Entered(s) ==
  /\ card' = [c \in Clients |->
                IF c \in sync[s].managed /\ card[c] = "none" THEN "other" ELSE card[c]]
  /\ tab' = [n \in Rows |->
               IF n \in DOMAIN sync[s].rows
               THEN [sync[s].rows[n] EXCEPT !.txt = tab[n].txt] ELSE tab[n]]
  /\ Moved(s, DOMAIN sync[s].rows)

Texts(s) ==
  /\ tab' = [n \in Rows |->
               IF n \in DOMAIN sync[s].rows
               THEN [tab[n] EXCEPT !.txt = sync[s].rows[n].txt] ELSE tab[n]]
  /\ card' = [c \in Clients |->
                IF c \in sync[s].managed THEN sync[s].cards[c] ELSE card[c]]
  /\ Moved(s, DOMAIN sync[s].rows)

Clears(s) ==
  /\ tab' = [n \in Rows |-> IF n \in sync[s].clears THEN Blank ELSE tab[n]]
  /\ Moved(s, sync[s].clears)
  /\ UNCHANGED card

WriteEntered(s) ==
  /\ Step(s, "entered")
  /\ Entered(s)
  /\ sync' = [sync EXCEPT ![s].at = "raw"]
  /\ UNCHANGED <<console, flags, spoilt, writes, faults>>

WriteRaw(s) ==
  /\ Step(s, "raw")
  /\ Texts(s)
  /\ sync' = [sync EXCEPT ![s].at = "clear"]
  /\ UNCHANGED <<console, flags, spoilt, writes, faults>>

(* Mutant: going round once more does not take the request.                *)
AgainKept == TRUE

(* The start of a round of _sync_until_quiet.                              *)
AgainTaken == FALSE

(* After the last call the loop goes round once more if it was asked to.   *)
Clear(s) ==
  /\ Step(s, "clear")
  /\ Clears(s)
  /\ IF s = "loop" /\ again
     THEN /\ again' = AgainTaken /\ UNCHANGED running
          /\ sync' = [sync EXCEPT ![s] = [Idle EXCEPT !.at = "clients"]]
     ELSE /\ running' = IF s = "loop" THEN FALSE ELSE running
          /\ UNCHANGED again
          /\ sync' = [sync EXCEPT ![s] = Idle]
  /\ UNCHANGED <<console, owed, spoilt, writes, faults>>

(* A call fails, before or after it took effect: the run ends, and so does *)
(* the loop, whatever it was asked meanwhile.                              *)
SyncFails(s) ==
  /\ Busy(s) /\ faults < MaxFaults /\ faults' = faults + 1
  /\ \/ Step(s, "entered") /\ Entered(s)
     \/ Step(s, "raw") /\ Texts(s)
     \/ Step(s, "clear") /\ Clears(s)
     \/ UNCHANGED <<book, moved>>
  /\ sync' = [sync EXCEPT ![s] = Idle]
  /\ running' = IF s = "loop" THEN FALSE ELSE running
  /\ spoilt' = TRUE
  /\ UNCHANGED <<console, owed, again, writes>>

Restart ==
  /\ faults < MaxFaults /\ faults' = faults + 1
  /\ spoilt' = (spoilt \/ owed \/ \E s \in Syncers : Busy(s))
  /\ owed' = FALSE /\ running' = FALSE /\ again' = FALSE
  /\ sync' = [s \in Syncers |-> Idle]
  /\ UNCHANGED <<console, book, moved, writes>>

-----------------------------------------------------------------------------
(* The workbook's side.                                                    *)

(* A person fills an empty row for a client the console does not know.     *)
TypeRow(n, c, q, v) ==
  /\ n \in Free /\ ~Known(c) /\ RowsOf(<<c, q>>) = {}
  /\ writes < MaxWrites /\ writes' = writes + 1
  /\ tab' = [tab EXCEPT ![n] = [client |-> c, seq |-> q, num |-> v, txt |-> v]]
  /\ card' = [card EXCEPT ![c] = IF @ = "none" THEN "other" ELSE @]
  /\ moved' = [s \in Syncers |-> moved[s] \cup {n}]
  /\ UNCHANGED <<console, flags, sync, spoilt, faults>>

(* Or the client alone, with the day it was won.                           *)
TypeClient(c) ==
  /\ card[c] = "none" /\ ~Known(c)
  /\ writes < MaxWrites /\ writes' = writes + 1
  /\ card' = [card EXCEPT ![c] = "other"]
  /\ UNCHANGED <<console, tab, flags, sync, moved, spoilt, faults>>

LastRow(k) == CHOOSE n \in RowsOf(k) : \A m \in RowsOf(k) : m <= n

(* import_from_sheet, which runs on the event loop: the clients of the     *)
(* workbook come into the ledger, and the last row of a key is what the    *)
(* contract says, empty cells included. A key that is new and stands twice *)
(* breaks the unique index, and nothing is imported. It announces nothing. *)
Import ==
  LET listed == {c \in Clients : Known(c) \/ card[c] # "none"}
      found(c, q) == IF c \in listed THEN RowsOf(<<c, q>>) ELSE {}
      says(n) == [num |-> tab[n].num, txt |-> tab[n].txt]
  IN
  /\ writes < MaxWrites /\ writes' = writes + 1
  /\ \A c \in Clients : \A q \in Seqs :
       ledger[c][q] = None => Cardinality(found(c, q)) <= 1
  /\ client' = [c \in Clients |->
       IF c \in listed /\ ~Known(c) THEN "listed" ELSE client[c]]
  /\ ledger' = [c \in Clients |-> [q \in Seqs |->
       IF found(c, q) = {} THEN ledger[c][q] ELSE says(LastRow(<<c, q>>))]]
  /\ spoilt' = TRUE
  /\ UNCHANGED <<book, flags, sync, moved, faults>>

-----------------------------------------------------------------------------

Console ==
  \/ \E c \in Clients :
       \/ \E v \in Values :
            \/ CreateClient(c, v) \/ CreateContract(c, v)
            \/ \E s \in Seqs : UpdateContract(c, s, v)
       \/ \E s \in Seqs : DeleteContract(c, s)
       \/ RetireClient(c, "listed") \/ RetireClient(c, "retired")
       \/ DeleteClient(c) \/ RetireEmptyClient(c)
       \/ \E d \in Clients : MergeClients(c, d)

Sync(s) ==
  \/ CollectClients(s) \/ CollectContracts(s) \/ Plan(s)
  \/ WriteEntered(s) \/ WriteRaw(s) \/ Clear(s)

People ==
  \E c \in Clients :
    \/ TypeClient(c)
    \/ \E n \in Rows, q \in Seqs, v \in Values : TypeRow(n, c, q, v)

Next ==
  \/ Console \/ Announce \/ MergeGoesOn
  \/ \E s \in Syncers : Sync(s) \/ SyncFails(s)
  \/ Restart \/ People \/ Import

Spec == Init /\ [][Next]_vars

(* A committed write is announced, a thread goes on: every call has a      *)
(* timeout.                                                                *)
FairSpec ==
  /\ Spec
  /\ WF_vars(Announce /\ owed) /\ WF_vars(MergeGoesOn)
  /\ \A s \in Syncers : WF_vars(Sync(s))

-----------------------------------------------------------------------------
(* Properties.                                                             *)

Quiet == ~owed /\ \A s \in Syncers : ~Busy(s)

(* The workbook says of every client what the ledger says: its state, one  *)
(* row for each contract, and no other row.                                *)
InStep ==
  \A c \in Clients : Known(c) =>
    /\ card[c] = client[c]
    /\ \A q \in Seqs :
         IF ledger[c][q] = None THEN RowsOf(<<c, q>>) = {}
         ELSE /\ Cardinality(RowsOf(<<c, q>>)) = 1
              /\ \A n \in RowsOf(<<c, q>>) :
                   tab[n].num = ledger[c][q].num /\ tab[n].txt = ledger[c][q].txt

(* When the synchronisations have come to rest the workbook shows the last *)
(* save (won_sheets.py:413-414), however saves, merges, imports and typed  *)
(* rows fell between their steps; unless the last run failed, overlapped   *)
(* with the other one or found no row, or something else came after it.    *)
QuietMeansInStep == (Quiet /\ ~spoilt) => InStep

(* Rows of clients the console does not know are not touched               *)
(* (won_sheets.py:301-303), whatever the console saves, merges or deletes  *)
(* while a synchronisation is under way; except a row that changed after   *)
(* that synchronisation had read the tab.                                  *)
HandRow(n) ==
  /\ tab[n].client # None /\ ~Known(tab[n].client)
  /\ \A s \in Syncers : tab[n].client \notin sync[s].managed /\ n \notin moved[s]

HandRowsStand == [][\A n \in Rows : HandRow(n) => tab'[n] = tab[n]]_vars

(* The synchronisations come to rest: a run that was asked for once more   *)
(* goes round once more and not for ever.                                  *)
SyncsRest == <>[]Quiet

(* Not checked by a run, see the README: a client with contracts is never  *)
(* off the list (won_customers.py:191).                                    *)
RetiredIsEmpty == \A c \in Clients : client[c] = "retired" => SeqsOf(c) = {}

=============================================================================
