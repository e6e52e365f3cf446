-------------------------- MODULE WonLedgerProofs --------------------------
(***************************************************************************)
(* What WonLedger guarantees for any number of clients, contracts, rows    *)
(* and faults: types, that rows of unknown clients are not touched, and    *)
(* that at rest the workbook shows the ledger.                             *)
(***************************************************************************)
EXTENDS WonLedger, WellFoundedInduction, FiniteSetTheorems, TLAPS

Writing(s) == sync[s].at \in {"entered", "raw", "clear"}

(* A run has collected contracts of its own clients only.                  *)
KeysAreManaged ==
  \A s \in Syncers : sync[s].at = "read" =>
    DOMAIN sync[s].contracts \subseteq sync[s].managed \X Seqs

(* It writes rows of its own clients, and where it writes or clears stood  *)
(* nothing or one of them, unless the row has changed since.               *)
PlanFits ==
  \A s \in Syncers : Writing(s) =>
    /\ \A n \in DOMAIN sync[s].rows : sync[s].rows[n].client \in sync[s].managed
    /\ \A n \in DOMAIN sync[s].rows \cup sync[s].clears :
         n \in moved[s] \/ tab[n].client \in sync[s].managed \cup {None}

Inv == TypeOK /\ KeysAreManaged /\ PlanFits

HandStep == \A n \in Rows : HandRow(n) => tab'[n] = tab[n]

-----------------------------------------------------------------------------
(* Data                                                                    *)

LEMMA LastExists ==
  ASSUME NEW S \in SUBSET Rows, S # {}
  PROVE  \E n \in S : \A m \in S : m <= n
<1> DEFINE T == {Height - n : n \in S}
<1>1. T \subseteq Nat /\ T # {}
  BY BoundsAreNumbers DEF Rows
<1>2. PICK x \in T : \A y \in T : ~ (<<y, x>> \in OpToRel(<, Nat))
  BY <1>1, WFMin, NatLessThanWellFounded, Zenon
<1>3. \A y \in T : y \in Nat /\ x \in Nat => ~ (y < x)
  BY <1>2, Zenon DEF OpToRel
<1>4. \A y \in T : ~ (y < x)
  BY <1>1, <1>3
<1>5. PICK n \in S : x = Height - n
  BY <1>2
<1>6. ASSUME NEW m \in S PROVE m <= n
  <2>1. Height - m \in T
    OBVIOUS
  <2>2. ~ (Height - m < Height - n)
    BY <1>4, <1>5, <2>1
  <2> QED
    BY <2>2, BoundsAreNumbers DEF Rows
<1> QED
  BY <1>6

LEMMA LastIsARow ==
  ASSUME NEW k, RowsOf(k) # {}
  PROVE  LastRow(k) \in RowsOf(k)
<1>1. RowsOf(k) \in SUBSET Rows
  BY DEF RowsOf
<1>2. \E n \in RowsOf(k) : \A m \in RowsOf(k) : m <= n
  BY <1>1, LastExists
<1> QED
  BY <1>2 DEF LastRow

LEMMA NothingFits == Nothing \in Cards /\ Nothing \in Contracts /\ Nothing \in Written
<1>1. Nothing \in [{} -> States] /\ Nothing \in [{} -> Contract] /\ Nothing \in [{} -> Row]
  BY DEF Nothing
<1> QED
  BY <1>1 DEF Cards, Contracts, Written

LEMMA IdleIsARun ==
  /\ Idle \in Run
  /\ Idle.at = "idle" /\ Idle.managed = {} /\ DOMAIN Idle.cards = {}
BY NothingFits DEF Idle, Run, Steps, Nothing

(* A run after a step keeps its parts, and the other run is as it was.     *)
LEMMA OneRunMoves ==
  ASSUME NEW s \in Syncers, NEW r \in Run, sync \in [Syncers -> Run],
         sync' = [sync EXCEPT ![s] = r]
  PROVE  /\ sync' \in [Syncers -> Run]
         /\ sync'[s] = r
         /\ \A t \in Syncers \ {s} : sync'[t] = sync[t]
OBVIOUS

LEMMA RowKeepsKey ==
  ASSUME NEW r \in Row, NEW x \in Cells
  PROVE  /\ [r EXCEPT !.txt = x] \in Row
         /\ [r EXCEPT !.txt = x].client = r.client
BY DEF Row

LEMMA BlankIsARow == Blank \in Row /\ Blank.client = None
BY DEF Blank, Row, Cells

-----------------------------------------------------------------------------
(* Steps                                                                   *)

LEMMA Beginning == Init => Inv
<1> SUFFICES ASSUME Init PROVE Inv
  OBVIOUS
<1>1. client \in [Clients -> States] /\ card \in [Clients -> {"none", "other", "listed", "retired"}]
  BY DEF Init, States
<1>2. ledger \in [Clients -> [Seqs -> Contract \cup {None}]]
  BY DEF Init
<1>3. tab \in [Rows -> Row]
  BY BlankIsARow DEF Init
<1>4. sync \in [Syncers -> Run] /\ \A s \in Syncers : sync[s] = Idle
  BY IdleIsARun DEF Init
<1>5. writes \in 0..MaxWrites /\ faults \in 0..MaxFaults
  BY BoundsAreNumbers DEF Init
<1>6. TypeOK
  BY <1>1, <1>2, <1>3, <1>4, <1>5, IdleIsARun DEF Init, TypeOK
<1> QED
  BY <1>4, <1>6, IdleIsARun DEF Inv, KeysAreManaged, PlanFits, Writing

(* Nothing that a run looks at has changed.                                *)
LEMMA RunsStay ==
  ASSUME Inv, UNCHANGED <<tab, sync, moved>>
  PROVE  KeysAreManaged' /\ PlanFits' /\ HandStep
BY DEF Inv, KeysAreManaged, PlanFits, Writing, HandStep

LEMMA SaveKeeps ==
  ASSUME Inv, Save, client' \in [Clients -> States],
         ledger' \in [Clients -> [Seqs -> Contract \cup {None}]]
  PROVE  Inv' /\ HandStep
<1>1. writes' \in 0..MaxWrites /\ owed' \in BOOLEAN
  BY BoundsAreNumbers DEF Inv, TypeOK, Save
<1>2. UNCHANGED <<card, tab, running, again, sync, moved, spoilt, faults>>
  BY DEF Save, book
<1>3. TypeOK'
  BY <1>1, <1>2 DEF Inv, TypeOK
<1> QED
  BY <1>2, <1>3, RunsStay DEF Inv

LEMMA SaysIsAContract == ASSUME NEW v \in Values PROVE Says(v) \in Contract
BY DEF Says, Contract, Cells

LEMMA AddTyped ==
  ASSUME Inv, NEW c \in Clients, NEW v \in Values, AddContract(c, v)
  PROVE  /\ client' \in [Clients -> States]
         /\ ledger' \in [Clients -> [Seqs -> Contract \cup {None}]]
BY SaysIsAContract DEF Inv, TypeOK, AddContract, States

LEMMA UpdateKeeps ==
  ASSUME Inv, NEW c \in Clients, NEW v \in Values, NEW s \in Seqs, UpdateContract(c, s, v)
  PROVE  Inv' /\ HandStep
<1>1. ledger[c][s] \in Contract
  BY DEF UpdateContract, Inv, TypeOK
<1>2. /\ [ledger[c][s] EXCEPT !.num = v] \in Contract
      /\ [ledger[c][s] EXCEPT !.txt = v] \in Contract
  BY <1>1 DEF Contract, Cells
<1>3. \A x \in Contract :
        [ledger EXCEPT ![c][s] = x] \in [Clients -> [Seqs -> Contract \cup {None}]]
  BY DEF Inv, TypeOK
<1>4. ledger' \in [Clients -> [Seqs -> Contract \cup {None}]]
  BY <1>2, <1>3, SaysIsAContract DEF UpdateContract
<1> QED
  BY <1>4, SaveKeeps DEF UpdateContract, Inv, TypeOK

LEMMA DeletionKeeps ==
  ASSUME Inv, NEW c \in Clients, NEW s \in Seqs, DeleteContract(c, s)
  PROVE  Inv' /\ HandStep
<1>1. ledger' \in [Clients -> [Seqs -> Contract \cup {None}]]
  BY DEF DeleteContract, Inv, TypeOK
<1>2. client' \in [Clients -> States]
  BY DEF DeleteContract, Inv, TypeOK, States
<1> QED
  BY <1>1, <1>2, SaveKeeps DEF DeleteContract

LEMMA OffTheListKeeps ==
  ASSUME Inv, NEW c \in Clients,
         RetireClient(c, "listed") \/ RetireClient(c, "retired") \/ DeleteClient(c)
  PROVE  Inv' /\ HandStep
BY SaveKeeps DEF RetireClient, DeleteClient, Inv, TypeOK, States

(* One run goes on, and the tab stays.                                     *)
LEMMA RunMoves ==
  ASSUME Inv, NEW s \in Syncers, NEW r \in Run, sync' = [sync EXCEPT ![s] = r],
         DOMAIN r.cards = r.managed,
         r.at = "read" => DOMAIN r.contracts \subseteq r.managed \X Seqs
  PROVE  /\ sync' \in [Syncers -> Run]
         /\ \A t \in Syncers : DOMAIN sync'[t].cards = sync'[t].managed
         /\ KeysAreManaged'
<1>1. sync \in [Syncers -> Run] /\ \A t \in Syncers : DOMAIN sync[t].cards = sync[t].managed
  BY DEF Inv, TypeOK
<1>2. sync' \in [Syncers -> Run] /\ sync'[s] = r /\ \A t \in Syncers \ {s} : sync'[t] = sync[t]
  BY <1>1, OneRunMoves
<1> QED
  BY <1>1, <1>2 DEF Inv, KeysAreManaged

LEMMA RunTurns ==
  ASSUME Inv, NEW s \in Syncers, NEW r \in Run, sync' = [sync EXCEPT ![s] = r],
         r.at \notin {"entered", "raw", "clear"}, UNCHANGED <<tab, moved>>
  PROVE  PlanFits' /\ HandStep
<1>1. sync'[s] = r /\ \A t \in Syncers \ {s} : sync'[t] = sync[t]
  BY OneRunMoves DEF Inv, TypeOK
<1> QED
  BY <1>1 DEF Inv, PlanFits, Writing, HandStep

LEMMA Starts ==
  ASSUME NEW at \in {"clients", "waiting"}
  PROVE  LET r == [Idle EXCEPT !.at = at] IN
         r \in Run /\ r.at = at /\ r.managed = {} /\ DOMAIN r.cards = {}
BY IdleIsARun DEF Run, Steps

LEMMA AnnounceKeeps ==
  ASSUME Inv, Announce
  PROVE  Inv' /\ HandStep
<1>1. writes' \in 0..MaxWrites
  BY BoundsAreNumbers DEF Announce, Inv, TypeOK
<1>2. CASE running
  <2>1. TypeOK'
    BY <1>1, <1>2 DEF Announce, Inv, TypeOK, AskedAgain, console, book
  <2> QED
    BY <1>2, <2>1, RunsStay DEF Announce, book, Inv
<1>3. CASE ~running
  <2> DEFINE r == [Idle EXCEPT !.at = "clients"]
  <2>1. r \in Run /\ r.at = "clients" /\ r.managed = {} /\ DOMAIN r.cards = {}
    BY Starts
  <2>2. "loop" \in Syncers /\ sync' = [sync EXCEPT !["loop"] = r]
    BY <1>3 DEF Announce, Syncers
  <2>3. /\ sync' \in [Syncers -> Run] /\ KeysAreManaged'
        /\ \A t \in Syncers : DOMAIN sync'[t].cards = sync'[t].managed
    BY <2>1, <2>2, RunMoves
  <2>4. PlanFits' /\ HandStep
    <3>1. UNCHANGED <<tab, moved>>
      BY DEF Announce, book
    <3> QED
      BY <2>1, <2>2, <3>1, RunTurns
  <2>5. TypeOK'
    BY <1>1, <1>3, <2>3 DEF Announce, Inv, TypeOK, console, book
  <2> QED
    BY <2>3, <2>4, <2>5 DEF Inv
<1> QED
  BY <1>2, <1>3

LEMMA RetireEmptyKeeps ==
  ASSUME Inv, NEW c \in Clients, RetireEmptyClient(c)
  PROVE  Inv' /\ HandStep
<1>1. client' \in [Clients -> States] /\ writes' \in 0..MaxWrites
  BY BoundsAreNumbers DEF RetireEmptyClient, Inv, TypeOK, States
<1>2. TypeOK'
  BY <1>1 DEF RetireEmptyClient, Inv, TypeOK, book, flags
<1> QED
  BY <1>2, RunsStay DEF RetireEmptyClient, book, Inv

LEMMA MergeKeeps ==
  ASSUME Inv, NEW source \in Clients, NEW target \in Clients, MergeClients(source, target)
  PROVE  Inv' /\ HandStep
<1> DEFINE r == [Idle EXCEPT !.at = "waiting"]
<1>1. r \in Run /\ r.at = "waiting" /\ r.managed = {} /\ DOMAIN r.cards = {}
  BY Starts
<1>2. "merge" \in Syncers /\ sync' = [sync EXCEPT !["merge"] = r]
  BY DEF MergeClients, Syncers
<1>3. /\ sync' \in [Syncers -> Run] /\ KeysAreManaged'
      /\ \A t \in Syncers : DOMAIN sync'[t].cards = sync'[t].managed
  BY <1>1, <1>2, RunMoves
<1>4. PlanFits' /\ HandStep
  <2>1. UNCHANGED <<tab, moved>>
    BY DEF MergeClients, book
  <2> QED
    BY <1>1, <1>2, <2>1, RunTurns
<1>5. ledger' \in [Clients -> [Seqs -> Contract \cup {None}]]
  <2>1. PICK m \in [SeqsOf(source) -> Seqs] :
          ledger' = [ledger EXCEPT
            ![source] = [s \in Seqs |-> None],
            ![target] = [s \in Seqs |->
               IF \E t \in SeqsOf(source) : m[t] = s
               THEN ledger[source][CHOOSE t \in SeqsOf(source) : m[t] = s]
               ELSE @[s]]]
    BY Zenon DEF MergeClients
  <2> DEFINE moves == [s \in Seqs |->
               IF \E t \in SeqsOf(source) : m[t] = s
               THEN ledger[source][CHOOSE t \in SeqsOf(source) : m[t] = s]
               ELSE ledger[target][s]]
  <2>2. source # target
    BY DEF MergeClients
  <2>3. ledger \in [Clients -> [Seqs -> Contract \cup {None}]]
    BY DEF Inv, TypeOK
  <2>4. moves \in [Seqs -> Contract \cup {None}]
    <3>1. ASSUME NEW s \in Seqs, \E t \in SeqsOf(source) : m[t] = s
          PROVE  ledger[source][CHOOSE t \in SeqsOf(source) : m[t] = s] \in Contract \cup {None}
      <4>1. (CHOOSE t \in SeqsOf(source) : m[t] = s) \in Seqs
        BY <3>1 DEF SeqsOf
      <4> QED
        BY <4>1, <2>3
    <3> QED
      BY <3>1, <2>3
  <2>5. ledger' = [ledger EXCEPT ![source] = [s \in Seqs |-> None], ![target] = moves]
    BY <2>1, <2>2, <2>3
  <2>6. [s \in Seqs |-> None] \in [Seqs -> Contract \cup {None}]
    OBVIOUS
  <2> QED
    BY <2>3, <2>4, <2>5, <2>6
<1>6. client' \in [Clients -> States] /\ writes' \in 0..MaxWrites
  BY BoundsAreNumbers DEF MergeClients, Inv, TypeOK, States
<1>7. TypeOK'
  BY <1>3, <1>5, <1>6 DEF MergeClients, Inv, TypeOK, book, flags
<1> QED
  BY <1>3, <1>4, <1>7 DEF Inv

(* The parts of a run that a step gives another place.                     *)
LEMMA PlaceTyped ==
  ASSUME Inv, NEW s \in Syncers, NEW at \in Steps
  PROVE  LET r == [sync[s] EXCEPT !.at = at] IN
         /\ r \in Run /\ r.at = at /\ r.managed = sync[s].managed /\ r.cards = sync[s].cards
         /\ r.rows = sync[s].rows /\ r.clears = sync[s].clears
         /\ DOMAIN r.cards = r.managed
<1>1. sync[s] \in Run /\ DOMAIN sync[s].cards = sync[s].managed
  BY DEF Inv, TypeOK
<1> QED
  BY <1>1 DEF Run

LEMMA MergeGoesOnKeeps ==
  ASSUME Inv, MergeGoesOn
  PROVE  Inv' /\ HandStep
<1> DEFINE r == [sync["merge"] EXCEPT !.at = "clients"]
<1>1. "merge" \in Syncers /\ "clients" \in Steps
  BY DEF Syncers, Steps
<1>2. r \in Run /\ r.at = "clients" /\ DOMAIN r.cards = r.managed
  BY <1>1, PlaceTyped
<1>3. sync' = [sync EXCEPT !["merge"] = r]
  BY <1>1 DEF MergeGoesOn, Inv, TypeOK
<1>4. /\ sync' \in [Syncers -> Run] /\ KeysAreManaged'
      /\ \A t \in Syncers : DOMAIN sync'[t].cards = sync'[t].managed
  BY <1>1, <1>2, <1>3, RunMoves
<1>5. PlanFits' /\ HandStep
  <2>1. UNCHANGED <<tab, moved>>
    BY DEF MergeGoesOn, book
  <2> QED
    BY <1>1, <1>2, <1>3, <2>1, RunTurns
<1>6. TypeOK'
  BY <1>4 DEF MergeGoesOn, Inv, TypeOK, console, book, flags
<1> QED
  BY <1>4, <1>5, <1>6 DEF Inv

LEMMA CollectKeeps ==
  ASSUME Inv, NEW s \in Syncers, CollectClients(s) \/ CollectContracts(s)
  PROVE  Inv' /\ HandStep
<1>1. sync[s] \in Run /\ DOMAIN sync[s].cards = sync[s].managed
  BY DEF Inv, TypeOK
<1>2. PICK r \in Run : /\ sync' = [sync EXCEPT ![s] = r]
                       /\ r.at \in {"contracts", "read"}
                       /\ DOMAIN r.cards = r.managed
                       /\ r.at = "read" => DOMAIN r.contracts \subseteq r.managed \X Seqs
  <2>1. CASE CollectClients(s)
    <3> DEFINE known == {c \in Clients : Known(c)}
               cards == [c \in known |-> client[c]]
               r == [sync[s] EXCEPT !.at = "contracts", !.managed = known, !.cards = cards]
    <3>1. cards \in [known -> States] /\ known \in SUBSET Clients
      BY DEF Inv, TypeOK
    <3>2. cards \in Cards
      BY <3>1 DEF Cards
    <3>3. r \in Run /\ r.at = "contracts" /\ DOMAIN r.cards = r.managed
      BY <1>1, <3>1, <3>2 DEF Run, Steps
    <3>4. sync' = [sync EXCEPT ![s] = r]
      BY <2>1 DEF CollectClients, Inv, TypeOK
    <3> QED
      BY <3>3, <3>4
  <2>2. CASE CollectContracts(s)
    <3> DEFINE keys == {j \in Keys : j[1] \in sync[s].managed /\ ledger[j[1]][j[2]] # None}
               contracts == [k \in keys |-> ledger[k[1]][k[2]]]
               r == [sync[s] EXCEPT !.at = "read", !.contracts = contracts]
    <3>1. \A k \in keys : k[1] \in Clients /\ k[2] \in Seqs /\ k = <<k[1], k[2]>>
      BY DEF Keys
    <3>2. \A k \in keys : ledger[k[1]][k[2]] \in Contract
      BY <3>1 DEF Inv, TypeOK
    <3>3. keys \in SUBSET Keys /\ contracts \in [keys -> Contract]
      BY <3>2
    <3>4. contracts \in Contracts
      BY <3>3 DEF Contracts
    <3>5. /\ r \in Run /\ r.at = "read" /\ DOMAIN r.cards = r.managed
          /\ r.managed = sync[s].managed /\ DOMAIN r.contracts = keys
      BY <1>1, <3>4 DEF Run, Steps
    <3>6. keys \subseteq sync[s].managed \X Seqs
      BY <3>1
    <3>7. sync' = [sync EXCEPT ![s] = r]
      BY <2>2 DEF CollectContracts, Inv, TypeOK
    <3> QED
      BY <3>5, <3>6, <3>7
  <2> QED
    BY <2>1, <2>2
<1>3. /\ sync' \in [Syncers -> Run] /\ KeysAreManaged'
      /\ \A t \in Syncers : DOMAIN sync'[t].cards = sync'[t].managed
  BY <1>2, RunMoves
<1>4. UNCHANGED <<console, book, flags, moved, writes, faults>> /\ spoilt' \in BOOLEAN
  BY DEF CollectClients, CollectContracts, Inv, TypeOK
<1>5. PlanFits' /\ HandStep
  <2>1. UNCHANGED <<tab, moved>> /\ r.at \notin {"entered", "raw", "clear"}
    BY <1>2, <1>4 DEF book
  <2> QED
    BY <1>2, <2>1, RunTurns
<1>6. TypeOK'
  BY <1>3, <1>4 DEF Inv, TypeOK, console, book, flags
<1> QED
  BY <1>3, <1>5, <1>6 DEF Inv

(* Where a contract goes stands nothing or its key.                        *)
LEMMA GoesWhereItMay ==
  ASSUME NEW keys, NEW k \in keys, NEW n \in Rows, Goes(keys, k, n)
  PROVE  tab[n].client = k[1] \/ tab[n].client = None
BY DEF Goes, RowsOf, Free

LEMMA PlanKeeps ==
  ASSUME Inv, NEW s \in Syncers, Plan(s)
  PROVE  Inv' /\ HandStep
<1> DEFINE contracts == sync[s].contracts
           keys == DOMAIN contracts
           key(n) == CHOOSE k \in keys : Goes(keys, k, n)
           row(n) == [client |-> key(n)[1], seq |-> key(n)[2],
                      num |-> contracts[key(n)].num, txt |-> contracts[key(n)].txt]
           rows == [n \in Taken(keys) |-> row(n)]
           clears == Cleared(keys, sync[s].managed)
           r == [sync[s] EXCEPT !.at = "entered", !.contracts = Nothing,
                                !.rows = rows, !.clears = clears]
<1>1. sync[s] \in Run /\ DOMAIN sync[s].cards = sync[s].managed /\ sync[s].at = "read"
  BY DEF Inv, TypeOK, Plan, Step
<1>2. keys \subseteq sync[s].managed \X Seqs /\ sync[s].managed \subseteq Clients
  BY <1>1 DEF Inv, KeysAreManaged, Run
<1>3. \A k \in keys : contracts[k] \in Contract
  <2>1. contracts \in Contracts
    BY <1>1 DEF Run
  <2> QED
    BY <2>1 DEF Contracts
<1>4. ASSUME NEW n \in Taken(keys)
      PROVE  key(n) \in keys /\ Goes(keys, key(n), n) /\ n \in Rows
  BY <1>4 DEF Taken
<1>5. ASSUME NEW n \in Taken(keys)
      PROVE  row(n) \in Row /\ row(n).client \in sync[s].managed
  <2>1. key(n) \in keys
    BY <1>4
  <2>2. key(n)[1] \in sync[s].managed /\ key(n)[1] \in Clients /\ key(n)[2] \in Seqs
    BY <1>2, <2>1
  <2>3. contracts[key(n)].num \in Cells /\ contracts[key(n)].txt \in Cells
    BY <1>3, <2>1 DEF Contract
  <2> HIDE DEF key
  <2> QED
    BY <2>2, <2>3 DEF Row
<1>6. rows \in [Taken(keys) -> Row] /\ Taken(keys) \in SUBSET Rows
  BY <1>5 DEF Taken
<1>7. rows \in Written
  BY <1>6 DEF Written
<1>8. clears \in SUBSET Rows
  BY DEF Cleared
<1>9. /\ r \in Run /\ r.at = "entered" /\ r.managed = sync[s].managed
      /\ r.rows = rows /\ r.clears = clears /\ DOMAIN r.cards = r.managed
  BY <1>1, <1>7, <1>8, NothingFits DEF Run, Steps
<1>10. sync' = [sync EXCEPT ![s] = r] /\ moved' = [moved EXCEPT ![s] = {}]
  <2>1. sync \in [Syncers -> Run]
    BY DEF Inv, TypeOK
  <2> QED
    BY <2>1 DEF Plan
<1> HIDE DEF r
<1>11. /\ sync' \in [Syncers -> Run] /\ KeysAreManaged'
       /\ \A t \in Syncers : DOMAIN sync'[t].cards = sync'[t].managed
  BY <1>9, <1>10, RunMoves
<1>12. sync'[s] = r /\ \A t \in Syncers \ {s} : sync'[t] = sync[t] /\ moved'[t] = moved[t]
  <2>1. sync'[s] = r /\ \A t \in Syncers \ {s} : sync'[t] = sync[t]
    BY <1>9, <1>10, OneRunMoves DEF Inv, TypeOK
  <2> QED
    BY <1>10, <2>1 DEF Inv, TypeOK
<1>13. UNCHANGED tab
  BY DEF Plan, book
<1>14. PlanFits'
  <2>1. \A n \in DOMAIN rows : rows[n].client \in sync[s].managed
    BY <1>5
  <2>2. ASSUME NEW n \in DOMAIN rows PROVE tab[n].client \in sync[s].managed \cup {None}
    <3>1. n \in Taken(keys)
      OBVIOUS
    <3>2. key(n) \in keys /\ Goes(keys, key(n), n) /\ n \in Rows
      BY <1>4, <3>1
    <3>3. key(n)[1] \in sync[s].managed
      BY <1>2, <3>2
    <3>4. tab[n].client = key(n)[1] \/ tab[n].client = None
      BY <3>2, GoesWhereItMay
    <3> QED
      BY <3>3, <3>4
  <2>3. \A n \in clears : tab[n].client \in sync[s].managed
    BY DEF Cleared
  <2>4. ASSUME NEW t \in Syncers, Writing(t)'
        PROVE  /\ \A n \in DOMAIN sync'[t].rows : sync'[t].rows[n].client \in sync'[t].managed
               /\ \A n \in DOMAIN sync'[t].rows \cup sync'[t].clears :
                    n \in moved'[t] \/ tab'[n].client \in sync'[t].managed \cup {None}
    <3>1. CASE t = s
      BY <3>1, <2>1, <2>2, <2>3, <1>9, <1>12, <1>13
    <3>2. CASE t # s
      BY <3>2, <2>4, <1>12, <1>13 DEF Inv, PlanFits, Writing
    <3> QED
      BY <3>1, <3>2
  <2> QED
    BY <2>4 DEF PlanFits
<1>15. TypeOK'
  BY <1>10, <1>11 DEF Plan, Inv, TypeOK, console, book, flags
<1> QED
  BY <1>11, <1>13, <1>14, <1>15 DEF Inv, HandStep

(* A call that takes effect: the runs that had planned their rows find     *)
(* them as they were, or changed.                                          *)
BookKept ==
  \A t \in Syncers : Writing(t) =>
    \A n \in DOMAIN sync[t].rows \cup sync[t].clears :
      n \in moved'[t] \/ tab'[n].client \in sync[t].managed \cup {None}

Book ==
  /\ card' \in [Clients -> {"none", "other", "listed", "retired"}]
  /\ tab' \in [Rows -> Row]
  /\ moved' \in [Syncers -> SUBSET Rows]

LEMMA MovedGrows ==
  ASSUME Inv, NEW s \in Syncers, NEW D \in SUBSET Rows, Moved(s, D)
  PROVE  /\ moved' \in [Syncers -> SUBSET Rows]
         /\ moved'[s] = moved[s]
         /\ \A t \in Syncers \ {s} : moved'[t] = moved[t] \cup D
BY DEF Moved, Inv, TypeOK

LEMMA WrittenRows ==
  ASSUME Inv, NEW s \in Syncers
  PROVE  /\ DOMAIN sync[s].rows \in SUBSET Rows
         /\ \A n \in DOMAIN sync[s].rows : sync[s].rows[n] \in Row
         /\ sync[s].clears \in SUBSET Rows
<1>1. sync[s] \in Run
  BY DEF Inv, TypeOK
<1>2. sync[s].rows \in Written /\ sync[s].clears \in SUBSET Rows
  BY <1>1 DEF Run
<1> QED
  BY <1>2 DEF Written

(* Rows of D change and say something of a client of s, or nothing.        *)
LEMMA OwnRowsChange ==
  ASSUME Inv, NEW s \in Syncers, Writing(s), NEW D \in SUBSET Rows,
         D \subseteq DOMAIN sync[s].rows \cup sync[s].clears, Moved(s, D),
         tab' \in [Rows -> Row], \A n \in Rows \ D : tab'[n] = tab[n],
         \A n \in D : tab'[n].client \in sync[s].managed \cup {None, tab[n].client}
  PROVE  BookKept /\ HandStep
<1>1. /\ moved'[s] = moved[s]
      /\ \A t \in Syncers \ {s} : moved'[t] = moved[t] \cup D
  BY MovedGrows
<1>2. ASSUME NEW t \in Syncers, Writing(t),
             NEW n \in DOMAIN sync[t].rows \cup sync[t].clears
      PROVE  n \in moved'[t] \/ tab'[n].client \in sync[t].managed \cup {None}
  <2>1. n \in Rows /\ (n \in moved[t] \/ tab[n].client \in sync[t].managed \cup {None})
    BY <1>2, WrittenRows DEF Inv, PlanFits
  <2> QED
    BY <1>1, <2>1
<1>3. ASSUME NEW n \in Rows, HandRow(n) PROVE tab'[n] = tab[n]
  BY <1>3 DEF HandRow, Inv, PlanFits
<1> QED
  BY <1>2, <1>3 DEF BookKept, HandStep

LEMMA CallsKeepTheBook ==
  ASSUME Inv, NEW s \in Syncers, Writing(s), Entered(s) \/ Texts(s) \/ Clears(s)
  PROVE  Book /\ BookKept /\ HandStep
<1> DEFINE D == DOMAIN sync[s].rows
<1>1. /\ D \in SUBSET Rows /\ \A n \in D : sync[s].rows[n] \in Row
      /\ sync[s].clears \in SUBSET Rows
  BY WrittenRows
<1>2. \A n \in D : sync[s].rows[n].client \in sync[s].managed
  BY DEF Inv, PlanFits
<1>3. tab \in [Rows -> Row] /\ \A n \in Rows : tab[n] \in Row /\ tab[n].txt \in Cells
  BY DEF Inv, TypeOK, Row
<1>4. card \in [Clients -> {"none", "other", "listed", "retired"}]
  BY DEF Inv, TypeOK
<1>5. CASE Entered(s)
  <2>1. tab' = [n \in Rows |-> IF n \in D THEN [sync[s].rows[n] EXCEPT !.txt = tab[n].txt]
                                          ELSE tab[n]]
    BY <1>5 DEF Entered
  <2>2. /\ \A n \in D : tab'[n] \in Row /\ tab'[n].client = sync[s].rows[n].client
        /\ \A n \in Rows \ D : tab'[n] = tab[n]
    BY <1>1, <1>3, <2>1, RowKeepsKey
  <2>3. tab' \in [Rows -> Row]
    BY <1>3, <2>1, <2>2
  <2>4. card' \in [Clients -> {"none", "other", "listed", "retired"}]
    BY <1>4, <1>5 DEF Entered
  <2>5. Moved(s, D)
    BY <1>5 DEF Entered
  <2> QED
    BY <1>1, <1>2, <2>2, <2>3, <2>4, <2>5, MovedGrows, OwnRowsChange DEF Book
<1>6. CASE Texts(s)
  <2>1. tab' = [n \in Rows |-> IF n \in D THEN [tab[n] EXCEPT !.txt = sync[s].rows[n].txt]
                                          ELSE tab[n]]
    BY <1>6 DEF Texts
  <2>2. \A n \in D : sync[s].rows[n].txt \in Cells
    BY <1>1 DEF Row
  <2>3. /\ \A n \in D : tab'[n] \in Row /\ tab'[n].client = tab[n].client
        /\ \A n \in Rows \ D : tab'[n] = tab[n]
    BY <1>1, <1>3, <2>1, <2>2, RowKeepsKey
  <2>4. tab' \in [Rows -> Row]
    BY <1>3, <2>1, <2>3
  <2>5. \A c \in sync[s].managed : sync[s].cards[c] \in {"none", "listed", "retired"}
    <3>1. sync[s] \in Run /\ DOMAIN sync[s].cards = sync[s].managed
      BY DEF Inv, TypeOK
    <3>2. sync[s].cards \in Cards
      BY <3>1 DEF Run
    <3> QED
      BY <3>1, <3>2 DEF Cards, States
  <2>6. card' \in [Clients -> {"none", "other", "listed", "retired"}]
    BY <1>4, <1>6, <2>5 DEF Texts
  <2>7. Moved(s, D)
    BY <1>6 DEF Texts
  <2> QED
    BY <1>1, <2>3, <2>4, <2>6, <2>7, MovedGrows, OwnRowsChange DEF Book
<1>7. CASE Clears(s)
  <2>1. tab' = [n \in Rows |-> IF n \in sync[s].clears THEN Blank ELSE tab[n]]
    BY <1>7 DEF Clears
  <2>2. /\ tab' \in [Rows -> Row]
        /\ \A n \in sync[s].clears : tab'[n].client = None
        /\ \A n \in Rows \ sync[s].clears : tab'[n] = tab[n]
    BY <1>1, <1>3, <2>1, BlankIsARow
  <2>3. Moved(s, sync[s].clears) /\ card' = card
    BY <1>7 DEF Clears
  <2> QED
    BY <1>1, <1>4, <2>2, <2>3, MovedGrows, OwnRowsChange DEF Book
<1> QED
  BY <1>5, <1>6, <1>7

(* After a call the run goes on or ends.                                   *)
LEMMA RunAfterCall ==
  ASSUME Inv, NEW s \in Syncers, Writing(s), NEW r \in Run,
         sync' = [sync EXCEPT ![s] = r], BookKept,
         \/ r.at \notin {"entered", "raw", "clear"}
         \/ /\ r.rows = sync[s].rows /\ r.clears = sync[s].clears
            /\ r.managed = sync[s].managed
  PROVE  PlanFits'
<1>1. sync'[s] = r /\ \A t \in Syncers \ {s} : sync'[t] = sync[t]
  BY OneRunMoves DEF Inv, TypeOK
<1>2. ASSUME NEW t \in Syncers, Writing(t)'
      PROVE  /\ Writing(t)
             /\ sync'[t].rows = sync[t].rows /\ sync'[t].clears = sync[t].clears
             /\ sync'[t].managed = sync[t].managed
  BY <1>1, <1>2 DEF Writing
<1>3. ASSUME NEW t \in Syncers, Writing(t)'
      PROVE  /\ \A n \in DOMAIN sync'[t].rows : sync'[t].rows[n].client \in sync'[t].managed
             /\ \A n \in DOMAIN sync'[t].rows \cup sync'[t].clears :
                  n \in moved'[t] \/ tab'[n].client \in sync'[t].managed \cup {None}
  <2>1. /\ Writing(t)
        /\ sync'[t].rows = sync[t].rows /\ sync'[t].clears = sync[t].clears
        /\ sync'[t].managed = sync[t].managed
    BY <1>2, <1>3
  <2>2. \A n \in DOMAIN sync[t].rows : sync[t].rows[n].client \in sync[t].managed
    BY <2>1 DEF Inv, PlanFits
  <2>3. \A n \in DOMAIN sync[t].rows \cup sync[t].clears :
          n \in moved'[t] \/ tab'[n].client \in sync[t].managed \cup {None}
    BY <2>1 DEF BookKept
  <2> QED
    BY <2>1, <2>2, <2>3
<1> QED
  BY <1>3 DEF PlanFits

LEMMA WriteKeeps ==
  ASSUME Inv, NEW s \in Syncers, WriteEntered(s) \/ WriteRaw(s)
  PROVE  Inv' /\ HandStep
<1>1. Writing(s)
  BY DEF WriteEntered, WriteRaw, Step, Writing
<1>2. Book /\ BookKept /\ HandStep
  BY <1>1, CallsKeepTheBook DEF WriteEntered, WriteRaw
<1>3. PICK at \in {"raw", "clear"} : sync' = [sync EXCEPT ![s] = [sync[s] EXCEPT !.at = at]]
  BY DEF WriteEntered, WriteRaw, Inv, TypeOK
<1> DEFINE r == [sync[s] EXCEPT !.at = at]
<1>4. /\ r \in Run /\ r.at = at /\ r.managed = sync[s].managed /\ DOMAIN r.cards = r.managed
      /\ r.rows = sync[s].rows /\ r.clears = sync[s].clears
  <2>1. at \in Steps
    BY <1>3 DEF Steps
  <2> QED
    BY <2>1, PlaceTyped
<1>5. /\ sync' \in [Syncers -> Run] /\ KeysAreManaged'
      /\ \A t \in Syncers : DOMAIN sync'[t].cards = sync'[t].managed
  BY <1>3, <1>4, RunMoves
<1>6. PlanFits'
  BY <1>1, <1>2, <1>3, <1>4, RunAfterCall
<1>7. TypeOK'
  BY <1>2, <1>5 DEF WriteEntered, WriteRaw, Book, Inv, TypeOK, console, flags
<1> QED
  BY <1>2, <1>5, <1>6, <1>7 DEF Inv

LEMMA ClearKeeps ==
  ASSUME Inv, NEW s \in Syncers, Clear(s)
  PROVE  Inv' /\ HandStep
<1>1. Writing(s)
  BY DEF Clear, Step, Writing
<1>2. Book /\ BookKept /\ HandStep
  BY <1>1, CallsKeepTheBook DEF Clear
<1>3. PICK r \in Run : /\ sync' = [sync EXCEPT ![s] = r]
                       /\ r.at \in {"clients", "idle"} /\ DOMAIN r.cards = r.managed
  BY Starts, IdleIsARun DEF Clear
<1>4. /\ sync' \in [Syncers -> Run] /\ KeysAreManaged'
      /\ \A t \in Syncers : DOMAIN sync'[t].cards = sync'[t].managed
  BY <1>3, RunMoves
<1>5. PlanFits'
  <2>1. r.at \notin {"entered", "raw", "clear"}
    BY <1>3
  <2> QED
    BY <2>1, <1>1, <1>2, <1>3, RunAfterCall
<1>6. again' \in BOOLEAN /\ running' \in BOOLEAN
  BY DEF Clear, AgainTaken, Inv, TypeOK
<1>7. TypeOK'
  BY <1>2, <1>4, <1>6 DEF Clear, Book, Inv, TypeOK, console
<1> QED
  BY <1>2, <1>4, <1>5, <1>7 DEF Inv

LEMMA FailKeeps ==
  ASSUME Inv, NEW s \in Syncers, SyncFails(s)
  PROVE  Inv' /\ HandStep
<1>1. sync' = [sync EXCEPT ![s] = Idle]
  BY DEF SyncFails
<1>2. /\ sync' \in [Syncers -> Run] /\ KeysAreManaged'
      /\ \A t \in Syncers : DOMAIN sync'[t].cards = sync'[t].managed
  BY <1>1, IdleIsARun, RunMoves
<1>3. /\ faults' \in 0..MaxFaults
      /\ running' \in BOOLEAN
  <2>1. faults' \in 0..MaxFaults
    BY BoundsAreNumbers DEF SyncFails, Inv, TypeOK
  <2>2. running' \in BOOLEAN
    BY Zenon DEF SyncFails, Inv, TypeOK
  <2> QED
    BY <2>1, <2>2
<1>4. Book /\ PlanFits' /\ HandStep
  <2>1. CASE Writing(s) /\ (Entered(s) \/ Texts(s) \/ Clears(s))
    <3>1. Book /\ BookKept /\ HandStep
      BY <2>1, CallsKeepTheBook
    <3>2. Idle \in Run /\ Idle.at \notin {"entered", "raw", "clear"}
      BY IdleIsARun
    <3> QED
      BY <2>1, <3>1, <3>2, <1>1, RunAfterCall
  <2>2. CASE UNCHANGED <<book, moved>>
    <3>1. UNCHANGED <<card, tab, moved>>
      BY <2>2 DEF book
    <3>2. PlanFits' /\ HandStep
      BY <3>1, <1>1, IdleIsARun, RunTurns
    <3> QED
      BY <3>1, <3>2 DEF Book, Inv, TypeOK
  <2> QED
    BY <2>1, <2>2 DEF SyncFails, Step, Writing
<1>5. TypeOK'
  BY <1>2, <1>3, <1>4 DEF SyncFails, Book, Inv, TypeOK, console
<1> QED
  BY <1>2, <1>4, <1>5 DEF Inv

LEMMA RestartKeeps ==
  ASSUME Inv, Restart
  PROVE  Inv' /\ HandStep
<1>1. sync' \in [Syncers -> Run] /\ \A s \in Syncers : sync'[s] = Idle
  BY IdleIsARun DEF Restart
<1>2. faults' \in 0..MaxFaults /\ spoilt' \in BOOLEAN
  BY BoundsAreNumbers DEF Restart, Inv, TypeOK
<1>3. UNCHANGED <<client, ledger, card, tab, moved, writes>>
  BY DEF Restart, console, book
<1>4. TypeOK'
  BY <1>1, <1>2, <1>3, IdleIsARun DEF Restart, Inv, TypeOK
<1>5. KeysAreManaged' /\ PlanFits'
  BY <1>1, IdleIsARun DEF KeysAreManaged, PlanFits, Writing
<1> QED
  BY <1>3, <1>4, <1>5 DEF Inv, HandStep

LEMMA TypeRowKeeps ==
  ASSUME Inv, NEW n \in Rows, NEW c \in Clients, NEW q \in Seqs, NEW v \in Values,
         TypeRow(n, c, q, v)
  PROVE  Inv' /\ HandStep
<1> DEFINE typed == [client |-> c, seq |-> q, num |-> v, txt |-> v]
<1>1. tab' = [tab EXCEPT ![n] = typed] /\ typed \in Row /\ tab[n].client = None
  BY DEF TypeRow, Free, Row, Cells
<1>2. /\ UNCHANGED <<client, ledger, owed, running, again, sync, spoilt, faults>>
      /\ moved' = [s \in Syncers |-> moved[s] \cup {n}]
  BY DEF TypeRow, console, flags
<1>3. writes' \in 0..MaxWrites
  BY BoundsAreNumbers DEF TypeRow, Inv, TypeOK
<1>4. card' \in [Clients -> {"none", "other", "listed", "retired"}]
  BY DEF TypeRow, Inv, TypeOK
<1>5. tab' \in [Rows -> Row] /\ \A m \in Rows \ {n} : tab'[m] = tab[m]
  BY <1>1 DEF Inv, TypeOK
<1>6. moved' \in [Syncers -> SUBSET Rows]
  BY <1>2 DEF Inv, TypeOK
<1>7. TypeOK'
  BY <1>2, <1>3, <1>4, <1>5, <1>6 DEF Inv, TypeOK
<1>8. KeysAreManaged'
  BY <1>2 DEF Inv, KeysAreManaged
<1>9. PlanFits'
  <2>1. ASSUME NEW t \in Syncers, Writing(t),
               NEW m \in DOMAIN sync[t].rows \cup sync[t].clears
        PROVE  m \in moved'[t] \/ tab'[m].client \in sync[t].managed \cup {None}
    <3>1. m \in Rows /\ (m \in moved[t] \/ tab[m].client \in sync[t].managed \cup {None})
      BY <2>1, WrittenRows DEF Inv, PlanFits
    <3> QED
      BY <3>1, <1>2, <1>5
  <2> QED
    BY <2>1, <1>2 DEF Inv, PlanFits, Writing
<1>10. HandStep
  BY <1>1, <1>5 DEF HandStep, HandRow
<1> QED
  BY <1>7, <1>8, <1>9, <1>10 DEF Inv

LEMMA TypeClientKeeps ==
  ASSUME Inv, NEW c \in Clients, TypeClient(c)
  PROVE  Inv' /\ HandStep
<1>1. card' \in [Clients -> {"none", "other", "listed", "retired"}]
  BY DEF TypeClient, Inv, TypeOK
<1>2. writes' \in 0..MaxWrites
  BY BoundsAreNumbers DEF TypeClient, Inv, TypeOK
<1>3. UNCHANGED <<client, ledger, tab, owed, running, again, sync, moved, spoilt, faults>>
  BY DEF TypeClient, console, flags
<1>4. TypeOK'
  BY <1>1, <1>2, <1>3 DEF Inv, TypeOK
<1> QED
  BY <1>3, <1>4, RunsStay DEF Inv

LEMMA ImportKeeps ==
  ASSUME Inv, Import
  PROVE  Inv' /\ HandStep
<1>1. \A k : RowsOf(k) # {} => LastRow(k) \in Rows
  BY LastIsARow DEF RowsOf
<1>2. \A n \in Rows : [num |-> tab[n].num, txt |-> tab[n].txt] \in Contract
  BY DEF Inv, TypeOK, Row, Contract
<1>3. ledger' \in [Clients -> [Seqs -> Contract \cup {None}]]
  <2> DEFINE listed == {c \in Clients : Known(c) \/ card[c] # "none"}
             found(c, q) == IF c \in listed THEN RowsOf(<<c, q>>) ELSE {}
             says(n) == [num |-> tab[n].num, txt |-> tab[n].txt]
             new(c, q) == IF found(c, q) = {} THEN ledger[c][q] ELSE says(LastRow(<<c, q>>))
  <2>1. ASSUME NEW c \in Clients, NEW q \in Seqs PROVE new(c, q) \in Contract \cup {None}
    <3>1. CASE found(c, q) = {}
      BY <3>1 DEF Inv, TypeOK
    <3>2. CASE found(c, q) # {}
      <4>1. RowsOf(<<c, q>>) # {}
        BY <3>2
      <4>2. LastRow(<<c, q>>) \in Rows
        BY <4>1, <1>1
      <4>3. says(LastRow(<<c, q>>)) \in Contract
        BY <4>2, <1>2
      <4> QED
        BY <3>2, <4>3
    <3> QED
      BY <3>1, <3>2
  <2>2. ledger' = [c \in Clients |-> [q \in Seqs |-> new(c, q)]]
    BY DEF Import
  <2> HIDE DEF new
  <2> QED
    BY <2>1, <2>2
<1>4. client' \in [Clients -> States] /\ writes' \in 0..MaxWrites
  BY BoundsAreNumbers DEF Import, Inv, TypeOK, States
<1>5. TypeOK'
  BY <1>3, <1>4 DEF Import, Inv, TypeOK, book, flags
<1> QED
  BY <1>5, RunsStay DEF Import, book, Inv

LEMMA StepsKeep ==
  ASSUME Inv, [Next]_vars
  PROVE  Inv' /\ HandStep
<1>1. CASE Console
  <2>1. PICK c \in Clients :
          \/ \E v \in Values :
               \/ CreateClient(c, v) \/ CreateContract(c, v)
               \/ \E s \in Seqs : UpdateContract(c, s, v)
          \/ \E s \in Seqs : DeleteContract(c, s)
          \/ RetireClient(c, "listed") \/ RetireClient(c, "retired")
          \/ DeleteClient(c) \/ RetireEmptyClient(c)
          \/ \E d \in Clients : MergeClients(c, d)
    BY <1>1 DEF Console
  <2>2. CASE \E v \in Values : CreateClient(c, v) \/ CreateContract(c, v)
    BY <2>2, AddTyped, SaveKeeps DEF CreateClient, CreateContract
  <2>3. CASE \E v \in Values, s \in Seqs : UpdateContract(c, s, v)
    BY <2>3, UpdateKeeps
  <2>4. CASE \E s \in Seqs : DeleteContract(c, s)
    BY <2>4, DeletionKeeps
  <2>5. CASE RetireClient(c, "listed") \/ RetireClient(c, "retired") \/ DeleteClient(c)
    BY <2>5, OffTheListKeeps
  <2>6. CASE RetireEmptyClient(c)
    BY <2>6, RetireEmptyKeeps
  <2>7. CASE \E d \in Clients : MergeClients(c, d)
    BY <2>7, MergeKeeps
  <2> QED
    BY <2>1, <2>2, <2>3, <2>4, <2>5, <2>6, <2>7
<1>2. CASE Announce
  BY <1>2, AnnounceKeeps
<1>3. CASE MergeGoesOn
  BY <1>3, MergeGoesOnKeeps
<1>4. CASE \E s \in Syncers : Sync(s) \/ SyncFails(s)
  BY <1>4, CollectKeeps, PlanKeeps, WriteKeeps, ClearKeeps, FailKeeps DEF Sync
<1>5. CASE Restart
  BY <1>5, RestartKeeps
<1>6. CASE People
  BY <1>6, TypeRowKeeps, TypeClientKeeps DEF People
<1>7. CASE Import
  BY <1>7, ImportKeeps
<1>8. CASE UNCHANGED vars
  <2>1. UNCHANGED <<client, ledger, card, tab, owed, running, again, sync, moved, spoilt,
                    writes, faults>>
    BY <1>8 DEF vars, console, book, flags
  <2>2. TypeOK'
    BY <2>1 DEF Inv, TypeOK
  <2> QED
    BY <2>1, <2>2, RunsStay DEF Inv
<1> QED
  BY <1>1, <1>2, <1>3, <1>4, <1>5, <1>6, <1>7, <1>8 DEF Next

-----------------------------------------------------------------------------
(* The invariant of the ledger and its copy holds in every reachable       *)
(* state, for any number of clients, contracts, rows and faults.           *)
THEOREM LedgerInvariance == Spec => []Inv
<1>1. Inv /\ [Next]_vars => Inv'
  BY StepsKeep
<1> QED
  BY Beginning, <1>1, PTL DEF Spec

(* Types of the ledger, the workbook and the runs.                         *)
THEOREM LedgerTyped == Spec => []TypeOK
<1>1. Inv => TypeOK
  BY DEF Inv
<1> QED
  BY <1>1, LedgerInvariance, PTL

(* A row of a client the console does not know is left as it is            *)
(* (plan_tab), whatever is saved, merged, deleted, imported or fails while *)
(* one or two synchronisations are under way.                              *)
THEOREM HandRowsAreLeft == Spec => HandRowsStand
<1>1. Inv /\ [Next]_vars => [\A n \in Rows : HandRow(n) => tab'[n] = tab[n]]_vars
  BY StepsKeep DEF HandStep
<1> QED
  BY <1>1, LedgerInvariance, PTL DEF Spec, HandRowsStand

-----------------------------------------------------------------------------
(* At rest the workbook shows the ledger. Unless something else came last, *)
(* one run at most has read the ledger, and when nothing has been saved    *)
(* since that is not yet announced, asked for or begun, what the run has   *)
(* done so far is on course; and without a run the workbook is in step.    *)

RunningIsBusy == running => Busy("loop")

ActiveSteps == {"contracts", "read", "entered", "raw", "clear"}
Active(s) == sync[s].at \in ActiveSteps

(* Another run will read the ledger.                                       *)
Awaited ==
  \/ owed
  \/ again /\ Busy("loop")
  \/ \E s \in Syncers : sync[s].at \in {"waiting", "clients"}

KeysNow == {k \in Keys : Known(k[1]) /\ ledger[k[1]][k[2]] # None}

ReadClients(s) ==
  /\ sync[s].managed = {c \in Clients : Known(c)}
  /\ \A c \in sync[s].managed : sync[s].cards[c] = client[c]

ReadContracts(s) ==
  sync[s].at = "read" =>
    /\ DOMAIN sync[s].contracts = KeysNow
    /\ \A k \in KeysNow : sync[s].contracts[k] = ledger[k[1]][k[2]]

IsFor(r, k) == r.client = k[1] /\ r.seq = k[2]
Tells(r, contract) == r.num = contract.num /\ r.txt = contract.txt

(* Every contract has its row among those to be written, and every row of  *)
(* a client is to be written or cleared.                                   *)
PlansAll(s) ==
  Writing(s) =>
    LET written == sync[s].rows IN
    /\ \A n \in DOMAIN written : \E k \in KeysNow :
         IsFor(written[n], k) /\ Tells(written[n], ledger[k[1]][k[2]])
    /\ \A k \in KeysNow : \E n \in DOMAIN written : IsFor(written[n], k)
    /\ \A k \in KeysNow : \A n, m \in DOMAIN written :
         IsFor(written[n], k) /\ IsFor(written[m], k) => n = m
    /\ \A n \in Rows \ DOMAIN written :
         tab[n].client \in sync[s].managed => n \in sync[s].clears
    /\ \A n \in sync[s].clears : n \notin DOMAIN written

HasEntered(s) ==
  sync[s].at \in {"raw", "clear"} => \A n \in DOMAIN sync[s].rows :
    /\ tab[n].client = sync[s].rows[n].client
    /\ tab[n].seq = sync[s].rows[n].seq
    /\ tab[n].num = sync[s].rows[n].num

HasTexts(s) ==
  sync[s].at = "clear" =>
    /\ \A n \in DOMAIN sync[s].rows : tab[n].txt = sync[s].rows[n].txt
    /\ \A c \in sync[s].managed : card[c] = client[c]

OnCourse(s) ==
  ReadClients(s) /\ ReadContracts(s) /\ PlansAll(s) /\ HasEntered(s) /\ HasTexts(s)

OneActive == \A s, t \in Syncers : Active(s) /\ Active(t) => s = t

Truthful ==
  ~spoilt =>
    /\ OneActive
    /\ ~Awaited => /\ \A s \in Syncers : Active(s) => OnCourse(s)
                   /\ (\A s \in Syncers : ~Active(s)) => InStep

Faithful == RunningIsBusy /\ Truthful

-----------------------------------------------------------------------------
(* Which contract goes where                                               *)

LEMMA BoundsAreFinite == IsFiniteSet(Keys) /\ IsFiniteSet(Rows)
<1>1. IsFiniteSet(Seqs) /\ IsFiniteSet(Rows)
  BY BoundsAreNumbers, FS_Interval DEF Seqs, Rows
<1> QED
  BY <1>1, ClientsAreNumbers, FS_Product DEF Keys

LEMMA KeysAreOrdered ==
  /\ \A j, k \in Keys : j # k => Before(j, k) \/ Before(k, j)
  /\ \A i, j, k \in Keys : Before(i, j) /\ Before(j, k) => Before(i, k)
  /\ \A k \in Keys : ~Before(k, k)
<1>1. \A k \in Keys : k = <<k[1], k[2]>> /\ k[1] \in Nat /\ k[2] \in Nat
  <2>1. \A k \in Keys : k = <<k[1], k[2]>> /\ k[1] \in Clients /\ k[2] \in Seqs
    BY DEF Keys
  <2>2. Clients \subseteq Nat /\ Seqs \subseteq Nat
    BY ClientsAreNumbers DEF Seqs
  <2> QED
    BY <2>1, <2>2
<1> QED
  BY <1>1 DEF Before

LEMMA FewerFree ==
  ASSUME NEW n \in Free, NEW m \in Free, n < m
  PROVE  Cardinality({x \in Free : x < n}) # Cardinality({x \in Free : x < m})
<1> DEFINE S == {x \in Free : x < n}
           T == {x \in Free : x < m}
<1>1. Free \subseteq Rows /\ Rows \subseteq Nat
  BY DEF Free, Rows
<1>2. IsFiniteSet(T)
  BY <1>1, BoundsAreFinite, FS_Subset
<1>3. S \in SUBSET T /\ n \in T /\ n \notin S
  <2>1. n \in Nat /\ m \in Nat
    BY <1>1
  <2>2. n \in T /\ ~ (n < n)
    BY <2>1
  <2>3. ASSUME NEW x \in S PROVE x \in T
    <3>1. x \in Free /\ x \in Nat /\ x < n
      BY <1>1
    <3> QED
      BY <2>1, <3>1
  <2> QED
    BY <2>2, <2>3
<1> HIDE DEF S, T
<1>4. Cardinality(T) = Cardinality(S) => T = S
  BY <1>2, <1>3, FS_Subset
<1> QED
  BY <1>3, <1>4 DEF S, T

LEMMA FewerNew ==
  ASSUME NEW keys \in SUBSET Keys, NEW j \in New(keys), NEW k \in New(keys), Before(j, k)
  PROVE  Cardinality({i \in New(keys) : Before(i, j)})
           # Cardinality({i \in New(keys) : Before(i, k)})
<1> DEFINE S == {i \in New(keys) : Before(i, j)}
           T == {i \in New(keys) : Before(i, k)}
<1>1. New(keys) \subseteq Keys
  BY DEF New
<1>2. IsFiniteSet(T)
  BY <1>1, BoundsAreFinite, FS_Subset
<1>3. S \in SUBSET T /\ j \in T /\ j \notin S
  BY <1>1, KeysAreOrdered
<1> HIDE DEF S, T
<1>4. Cardinality(T) = Cardinality(S) => T = S
  BY <1>2, <1>3, FS_Subset
<1> QED
  BY <1>3, <1>4 DEF S, T

(* A contract goes into one row, and into a row goes one contract.         *)
LEMMA GoesToOneRow ==
  ASSUME NEW keys \in SUBSET Keys, NEW k \in keys, NEW n \in Rows, NEW m \in Rows,
         Goes(keys, k, n), Goes(keys, k, m)
  PROVE  n = m
<1>1. n \in Nat /\ m \in Nat
  BY DEF Rows
<1>2. CASE RowsOf(k) # {}
  BY <1>1, <1>2 DEF Goes
<1>3. CASE RowsOf(k) = {}
  <2>1. /\ n \in Free /\ m \in Free
        /\ Cardinality({x \in Free : x < n}) = Cardinality({x \in Free : x < m})
    BY <1>3 DEF Goes
  <2>2. ~ (n < m) /\ ~ (m < n)
    BY <2>1, FewerFree
  <2> QED
    BY <1>1, <2>2
<1> QED
  BY <1>2, <1>3

LEMMA GoesAlone ==
  ASSUME NEW keys \in SUBSET Keys, NEW j \in keys, NEW k \in keys, NEW n \in Rows,
         Goes(keys, j, n), Goes(keys, k, n)
  PROVE  j = k
<1>1. /\ j \in Keys /\ k \in Keys /\ j = <<j[1], j[2]>> /\ k = <<k[1], k[2]>>
      /\ j[1] \in Clients /\ k[1] \in Clients
  BY DEF Keys
<1>2. CASE n \in RowsOf(j) /\ n \in RowsOf(k)
  BY <1>1, <1>2 DEF RowsOf
<1>3. CASE n \in Free
  <2>1. n \notin RowsOf(j) /\ n \notin RowsOf(k)
    BY <1>1, <1>3, NoneIsNothing DEF Free, RowsOf
  <2>2. /\ j \in New(keys) /\ k \in New(keys)
        /\ Cardinality({i \in New(keys) : Before(i, j)})
             = Cardinality({i \in New(keys) : Before(i, k)})
    BY <2>1 DEF Goes, New
  <2>3. ~Before(j, k) /\ ~Before(k, j)
    BY <2>2, FewerNew
  <2> QED
    BY <1>1, <2>3, KeysAreOrdered
<1> QED
  BY <1>2, <1>3, <1>1, NoneIsNothing DEF Goes, Free, RowsOf

-----------------------------------------------------------------------------
(* A run on course                                                         *)

LEMMA SameConsole ==
  ASSUME UNCHANGED <<client, ledger>>
  PROVE  /\ KeysNow' = KeysNow
         /\ \A c : Known(c)' = Known(c)
BY DEF KeysNow, Known

(* A step of the only run that has read the ledger.                        *)
LEMMA RunGoesOn ==
  ASSUME Inv, Faithful, NEW s \in Syncers, Active(s), Active(s)',
         \A t \in Syncers \ {s} : sync'[t] = sync[t],
         UNCHANGED <<owed, running, again>>, spoilt => spoilt',
         ~spoilt' /\ OnCourse(s) => OnCourse(s)'
  PROVE  Faithful'
<1>1. \A t \in Syncers : /\ Active(t)' <=> Active(t)
                         /\ Busy(t)' <=> Busy(t)
                         /\ sync'[t].at \in {"waiting", "clients"}
                              <=> sync[t].at \in {"waiting", "clients"}
  BY DEF Active, ActiveSteps, Busy
<1>2. "loop" \in Syncers
  BY DEF Syncers
<1>3. RunningIsBusy'
  BY <1>1, <1>2 DEF Faithful, RunningIsBusy
<1>4. Awaited' <=> Awaited
  BY <1>1, <1>2 DEF Awaited
<1>5. ASSUME ~spoilt'
      PROVE  OneActive' /\ (~Awaited' => \A t \in Syncers : Active(t)' => OnCourse(t)')
  <2>1. OneActive /\ (~Awaited => OnCourse(s))
    BY <1>5 DEF Faithful, Truthful
  <2>2. OneActive'
    BY <1>1, <2>1 DEF OneActive
  <2>3. \A t \in Syncers : Active(t)' => t = s
    BY <1>1, <2>1 DEF OneActive
  <2>4. ~Awaited' => OnCourse(s)'
    BY <1>4, <1>5, <2>1
  <2> QED
    BY <2>2, <2>3, <2>4
<1> QED
  BY <1>3, <1>5 DEF Faithful, Truthful

(* A step after which another run is to read, or something else came last. *)
LEMMA NothingToTell ==
  ASSUME Faithful, RunningIsBusy', spoilt => spoilt',
         \A t \in Syncers : Active(t)' => Active(t),
         Awaited' \/ spoilt'
  PROVE  Faithful'
BY DEF Faithful, Truthful, OneActive

LEMMA SaveTold ==
  ASSUME Inv, Faithful, Save
  PROVE  Faithful'
<1>1. owed' /\ UNCHANGED <<running, sync, spoilt>>
  BY DEF Save
<1>2. RunningIsBusy' /\ \A t \in Syncers : Active(t)' => Active(t)
  BY <1>1 DEF Faithful, RunningIsBusy, Busy, Active
<1>3. Awaited'
  BY <1>1 DEF Awaited
<1> QED
  BY <1>1, <1>2, <1>3, NothingToTell

LEMMA AnnounceTold ==
  ASSUME Inv, Faithful, Announce
  PROVE  Faithful'
<1>1. "loop" \in Syncers /\ UNCHANGED spoilt
  BY DEF Syncers, Announce
<1>2. CASE running
  <2>1. again' /\ UNCHANGED <<running, sync>>
    BY <1>2 DEF Announce, AskedAgain
  <2>2. Busy("loop")'
    BY <1>2, <2>1 DEF Faithful, RunningIsBusy, Busy
  <2>3. RunningIsBusy' /\ Awaited'
    BY <2>1, <2>2 DEF RunningIsBusy, Awaited
  <2>4. \A t \in Syncers : Active(t)' => Active(t)
    BY <2>1 DEF Active
  <2> QED
    BY <1>1, <2>3, <2>4, NothingToTell
<1>3. CASE ~running
  <2> DEFINE r == [Idle EXCEPT !.at = "clients"]
  <2>1. r \in Run /\ r.at = "clients"
    BY Starts
  <2>2. sync' = [sync EXCEPT !["loop"] = r]
    BY <1>3 DEF Announce
  <2>3. sync'["loop"].at = "clients" /\ \A t \in Syncers \ {"loop"} : sync'[t] = sync[t]
    BY <1>1, <2>1, <2>2, OneRunMoves DEF Inv, TypeOK
  <2>4. RunningIsBusy' /\ Awaited'
    BY <1>1, <2>3 DEF RunningIsBusy, Busy, Awaited
  <2>5. \A t \in Syncers : Active(t)' => Active(t)
    BY <2>3 DEF Active, ActiveSteps
  <2> QED
    BY <1>1, <2>4, <2>5, NothingToTell
<1> QED
  BY <1>2, <1>3

LEMMA MergeTold ==
  ASSUME Inv, Faithful, NEW at \in {"waiting", "clients"},
         UNCHANGED <<running, spoilt>>,
         NEW r \in Run, r.at = at, sync' = [sync EXCEPT !["merge"] = r]
  PROVE  Faithful'
<1>1. "merge" \in Syncers /\ "loop" \in Syncers /\ "merge" # "loop"
  BY DEF Syncers
<1>2. sync'["merge"].at = at /\ \A t \in Syncers \ {"merge"} : sync'[t] = sync[t]
  BY <1>1, OneRunMoves DEF Inv, TypeOK
<1>3. RunningIsBusy' /\ Awaited'
  BY <1>1, <1>2 DEF Faithful, RunningIsBusy, Busy, Awaited
<1>4. \A t \in Syncers : Active(t)' => Active(t)
  BY <1>2 DEF Active, ActiveSteps
<1> QED
  BY <1>3, <1>4, NothingToTell

(* The ledger changes behind the announcements.                            *)
LEMMA BehindTold ==
  ASSUME Inv, Faithful, spoilt', UNCHANGED <<running, sync>>
  PROVE  Faithful'
<1>1. RunningIsBusy' /\ \A t \in Syncers : Active(t)' => Active(t)
  BY DEF Faithful, RunningIsBusy, Busy, Active
<1> QED
  BY <1>1, NothingToTell

LEMMA FailTold ==
  ASSUME Inv, Faithful, NEW s \in Syncers, SyncFails(s)
  PROVE  Faithful'
<1>1. sync'[s] = Idle /\ \A t \in Syncers \ {s} : sync'[t] = sync[t]
  BY IdleIsARun, OneRunMoves DEF SyncFails, Inv, TypeOK
<1>2. spoilt' /\ running' = (IF s = "loop" THEN FALSE ELSE running)
  BY DEF SyncFails
<1>3. RunningIsBusy'
  BY <1>1, <1>2 DEF Faithful, RunningIsBusy, Busy, Syncers
<1>4. \A t \in Syncers : Active(t)' => Active(t)
  BY <1>1, IdleIsARun DEF Active, ActiveSteps
<1> QED
  BY <1>2, <1>3, <1>4, NothingToTell

LEMMA StillInStep ==
  ASSUME InStep, UNCHANGED <<client, ledger, card, tab>>
  PROVE  InStep'
BY DEF InStep, Known, RowsOf

LEMMA RestartTold ==
  ASSUME Inv, Faithful, Restart
  PROVE  Faithful'
<1>1. \A s \in Syncers : sync'[s] = Idle
  BY DEF Restart
<1>2. ~running' /\ (spoilt' <=> spoilt \/ owed \/ \E s \in Syncers : Busy(s))
  BY DEF Restart
<1>3. \A s \in Syncers : ~Active(s)'
  BY <1>1, IdleIsARun DEF Active, ActiveSteps
<1>4. ASSUME ~spoilt' PROVE InStep'
  <2>1. ~spoilt /\ ~owed /\ \A s \in Syncers : sync[s].at = "idle"
    BY <1>2, <1>4 DEF Busy
  <2>2. ~Awaited
    BY <2>1 DEF Awaited, Busy, Syncers
  <2>3. \A s \in Syncers : ~Active(s)
    BY <2>1 DEF Active, ActiveSteps
  <2>4. InStep
    BY <2>1, <2>2, <2>3 DEF Faithful, Truthful
  <2> QED
    BY <2>4, StillInStep DEF Restart, console, book
<1> QED
  BY <1>2, <1>3, <1>4 DEF Faithful, Truthful, RunningIsBusy, OneActive

LEMMA CollectClientsTold ==
  ASSUME Inv, Faithful, NEW s \in Syncers, CollectClients(s)
  PROVE  Faithful'
<1> DEFINE known == {c \in Clients : Known(c)}
           cards == [c \in known |-> client[c]]
           r == [sync[s] EXCEPT !.at = "contracts", !.managed = known, !.cards = cards]
<1>1. cards \in [known -> States] /\ known \in SUBSET Clients
  BY DEF Inv, TypeOK
<1>2. cards \in Cards
  BY <1>1 DEF Cards
<1>3. r \in Run /\ r.at = "contracts" /\ r.managed = known /\ r.cards = cards
  <2>1. sync[s] \in Run
    BY DEF Inv, TypeOK
  <2> QED
    BY <2>1, <1>1, <1>2 DEF Run, Steps
<1>4. sync' = [sync EXCEPT ![s] = r]
  BY DEF CollectClients, Inv, TypeOK
<1>5. sync'[s] = r /\ \A t \in Syncers \ {s} : sync'[t] = sync[t]
  BY <1>3, <1>4, OneRunMoves DEF Inv, TypeOK
<1>6. UNCHANGED <<client, ledger, running>>
  BY DEF CollectClients, console, flags
<1>7. RunningIsBusy'
  BY <1>3, <1>5, <1>6 DEF Faithful, RunningIsBusy, Busy, Syncers
<1>8. ASSUME ~spoilt' PROVE OneActive' /\ \A t \in Syncers : Active(t)' => OnCourse(t)'
  <2>1. \A t \in Syncers \ {s} : ~Busy(t)
    BY <1>8 DEF CollectClients
  <2>2. \A t \in Syncers : Active(t)' => t = s
    BY <2>1, <1>5 DEF Active, ActiveSteps, Busy
  <2>3. OnCourse(s)'
    <3>1. ReadClients(s)'
      BY <1>3, <1>5, <1>6 DEF ReadClients, Known
    <3>2. sync'[s].at = "contracts"
      BY <1>3, <1>5
    <3>3. ReadContracts(s)' /\ PlansAll(s)' /\ HasEntered(s)' /\ HasTexts(s)'
      BY <3>2 DEF ReadContracts, PlansAll, Writing, HasEntered, HasTexts
    <3> QED
      BY <3>1, <3>3 DEF OnCourse
  <2> QED
    BY <2>2, <2>3 DEF OneActive
<1>9. Active(s)'
  BY <1>3, <1>5 DEF Active, ActiveSteps
<1> QED
  BY <1>7, <1>8, <1>9 DEF Faithful, Truthful

LEMMA CollectContractsTold ==
  ASSUME Inv, Faithful, NEW s \in Syncers, CollectContracts(s)
  PROVE  Faithful'
<1> DEFINE keys == {j \in Keys : j[1] \in sync[s].managed /\ ledger[j[1]][j[2]] # None}
           contracts == [k \in keys |-> ledger[k[1]][k[2]]]
           r == [sync[s] EXCEPT !.at = "read", !.contracts = contracts]
<1>1. \A k \in keys : k[1] \in Clients /\ k[2] \in Seqs
  BY DEF Keys
<1>2. \A k \in keys : ledger[k[1]][k[2]] \in Contract
  BY <1>1 DEF Inv, TypeOK
<1>3. contracts \in Contracts
  <2>1. keys \in SUBSET Keys /\ contracts \in [keys -> Contract]
    BY <1>2
  <2> QED
    BY <2>1 DEF Contracts
<1>4. /\ r \in Run /\ r.at = "read" /\ r.managed = sync[s].managed
      /\ r.cards = sync[s].cards /\ r.contracts = contracts
  <2>1. sync[s] \in Run
    BY DEF Inv, TypeOK
  <2> QED
    BY <2>1, <1>3 DEF Run, Steps
<1>5. sync' = [sync EXCEPT ![s] = r]
  BY DEF CollectContracts, Inv, TypeOK
<1>6. sync'[s] = r /\ \A t \in Syncers \ {s} : sync'[t] = sync[t]
  BY <1>4, <1>5, OneRunMoves DEF Inv, TypeOK
<1>7. UNCHANGED <<client, ledger, owed, running, again, spoilt>>
  BY DEF CollectContracts, console, flags
<1>8. Active(s) /\ Active(s)'
  BY <1>4, <1>6 DEF CollectContracts, Step, Active, ActiveSteps
<1>9. ASSUME OnCourse(s) PROVE OnCourse(s)'
  <2>1. ReadClients(s)
    BY <1>9 DEF OnCourse
  <2>2. ReadClients(s)'
    BY <2>1, <1>4, <1>6, <1>7 DEF ReadClients, Known
  <2>3. keys = KeysNow
    <3>1. \A j \in Keys : j[1] \in sync[s].managed <=> Known(j[1])
      BY <2>1 DEF ReadClients, Keys
    <3> QED
      BY <3>1 DEF KeysNow
  <2>4. KeysNow' = KeysNow
    BY <1>7, SameConsole
  <2>5. ReadContracts(s)'
    BY <2>3, <2>4, <1>4, <1>6, <1>7 DEF ReadContracts
  <2>6. sync'[s].at = "read"
    BY <1>4, <1>6
  <2>7. PlansAll(s)' /\ HasEntered(s)' /\ HasTexts(s)'
    BY <2>6 DEF PlansAll, Writing, HasEntered, HasTexts
  <2> QED
    BY <2>2, <2>5, <2>7 DEF OnCourse
<1> QED
  BY <1>6, <1>7, <1>8, <1>9, RunGoesOn

(* What plan_tab decides.                                                  *)
LEMMA PlanDecides ==
  ASSUME Inv, NEW s \in Syncers, Plan(s)
  PROVE  LET keys == DOMAIN sync[s].contracts IN
         /\ keys \in SUBSET Keys
         /\ \A t \in Syncers \ {s} : sync'[t] = sync[t]
         /\ sync'[s].at = "entered" /\ sync'[s].managed = sync[s].managed
         /\ sync'[s].cards = sync[s].cards
         /\ DOMAIN sync'[s].rows = Taken(keys)
         /\ sync'[s].clears = Cleared(keys, sync[s].managed)
         /\ \A n \in Taken(keys) : \E k \in keys :
              /\ Goes(keys, k, n)
              /\ IsFor(sync'[s].rows[n], k)
              /\ Tells(sync'[s].rows[n], sync[s].contracts[k])
<1> DEFINE contracts == sync[s].contracts
           keys == DOMAIN contracts
           key(n) == CHOOSE k \in keys : Goes(keys, k, n)
           row(n) == [client |-> key(n)[1], seq |-> key(n)[2],
                      num |-> contracts[key(n)].num, txt |-> contracts[key(n)].txt]
           rows == [n \in Taken(keys) |-> row(n)]
           clears == Cleared(keys, sync[s].managed)
           r == [sync[s] EXCEPT !.at = "entered", !.contracts = Nothing,
                                !.rows = rows, !.clears = clears]
<1>1. sync[s] \in Run /\ sync \in [Syncers -> Run]
  BY DEF Inv, TypeOK
<1>2. sync' = [sync EXCEPT ![s] = r]
  BY <1>1 DEF Plan
<1>3. sync'[s] = r /\ \A t \in Syncers \ {s} : sync'[t] = sync[t]
  BY <1>1, <1>2
<1>4. /\ r.at = "entered" /\ r.managed = sync[s].managed /\ r.cards = sync[s].cards
      /\ r.rows = rows /\ r.clears = clears
  BY <1>1 DEF Run
<1>5. keys \in SUBSET Keys
  <2>1. contracts \in Contracts
    BY <1>1 DEF Run
  <2> QED
    BY <2>1 DEF Contracts
<1>6. ASSUME NEW n \in Taken(keys)
      PROVE  /\ key(n) \in keys /\ Goes(keys, key(n), n)
             /\ IsFor(rows[n], key(n)) /\ Tells(rows[n], contracts[key(n)])
  <2>1. key(n) \in keys /\ Goes(keys, key(n), n)
    BY <1>6 DEF Taken
  <2>2. rows[n] = row(n)
    BY <1>6
  <2> HIDE DEF key, rows
  <2> QED
    BY <2>1, <2>2 DEF IsFor, Tells
<1>7. DOMAIN rows = Taken(keys)
  OBVIOUS
<1> HIDE DEF key, rows, r, clears
<1> QED
  BY <1>3, <1>4, <1>5, <1>6, <1>7 DEF clears

LEMMA PlanTold ==
  ASSUME Inv, Faithful, NEW s \in Syncers, Plan(s)
  PROVE  Faithful'
<1> DEFINE keys == DOMAIN sync[s].contracts
           written == sync'[s].rows
<1>1. /\ keys \in SUBSET Keys
      /\ \A t \in Syncers \ {s} : sync'[t] = sync[t]
      /\ sync'[s].at = "entered" /\ sync'[s].managed = sync[s].managed
      /\ sync'[s].cards = sync[s].cards
      /\ DOMAIN written = Taken(keys)
      /\ sync'[s].clears = Cleared(keys, sync[s].managed)
  BY PlanDecides
<1>2. \A n \in Taken(keys) : \E k \in keys :
        Goes(keys, k, n) /\ IsFor(written[n], k) /\ Tells(written[n], sync[s].contracts[k])
  BY PlanDecides
<1>3. UNCHANGED <<client, ledger, tab, owed, running, again>> /\ sync[s].at = "read"
  BY DEF Plan, Step, console, book, flags
<1>4. spoilt' <=> spoilt \/ \E k \in keys : \A n \in Rows : ~Goes(keys, k, n)
  BY DEF Plan
<1>5. Active(s) /\ Active(s)'
  BY <1>1, <1>3 DEF Active, ActiveSteps
<1> HIDE DEF keys, written
<1>6. ASSUME ~spoilt', OnCourse(s) PROVE OnCourse(s)'
  <2>1. ReadClients(s)'
    BY <1>1, <1>3, <1>6 DEF OnCourse, ReadClients, Known
  <2>2. ReadContracts(s)' /\ HasEntered(s)' /\ HasTexts(s)'
    BY <1>1 DEF ReadContracts, HasEntered, HasTexts
  <2>3. keys = KeysNow /\ \A k \in keys : sync[s].contracts[k] = ledger[k[1]][k[2]]
    BY <1>3, <1>6 DEF OnCourse, ReadContracts, keys
  <2>4. \A k \in keys : k = <<k[1], k[2]>>
    BY <1>1 DEF Keys
  <2>5. \A n \in Taken(keys) : \E k \in keys :
          IsFor(written[n], k) /\ Tells(written[n], ledger[k[1]][k[2]])
    BY <1>2, <2>3
  <2>6. ASSUME NEW k \in keys, NEW n \in Taken(keys), IsFor(written[n], k)
        PROVE  Goes(keys, k, n)
    <3>1. PICK j \in keys : Goes(keys, j, n) /\ IsFor(written[n], j)
      BY <1>2
    <3>2. j = k
      BY <2>4, <2>6, <3>1 DEF IsFor
    <3> QED
      BY <3>1, <3>2
  <2>7. ASSUME NEW k \in keys PROVE \E n \in Taken(keys) : IsFor(written[n], k)
    <3>1. PICK n \in Rows : Goes(keys, k, n)
      BY <1>4, <1>6
    <3>2. n \in Taken(keys)
      BY <3>1 DEF Taken
    <3>3. PICK j \in keys : Goes(keys, j, n) /\ IsFor(written[n], j)
      BY <1>2, <3>2
    <3>4. j = k
      BY <1>1, <3>1, <3>3, GoesAlone
    <3> QED
      BY <3>2, <3>3, <3>4
  <2>8. ASSUME NEW k \in keys, NEW n \in Taken(keys), NEW m \in Taken(keys),
               IsFor(written[n], k), IsFor(written[m], k)
        PROVE  n = m
    <3>1. Goes(keys, k, n) /\ Goes(keys, k, m) /\ n \in Rows /\ m \in Rows
      BY <2>6, <2>8 DEF Taken
    <3> QED
      BY <1>1, <3>1, GoesToOneRow
  <2>9. /\ \A n \in Rows \ Taken(keys) :
             tab[n].client \in sync[s].managed => n \in sync'[s].clears
        /\ \A n \in sync'[s].clears : n \notin Taken(keys)
    BY <1>1 DEF Cleared
  <2>10. KeysNow' = keys
    BY <1>3, <2>3, SameConsole
  <2>11. PlansAll(s)'
    BY <1>1, <1>3, <2>5, <2>7, <2>8, <2>9, <2>10 DEF PlansAll, written
  <2> QED
    BY <2>1, <2>2, <2>11 DEF OnCourse
<1> QED
  BY <1>1, <1>3, <1>4, <1>5, <1>6, RunGoesOn

(* A run after one of its calls.                                           *)
LEMMA CallMoves ==
  ASSUME Inv, NEW s \in Syncers, NEW at \in Steps,
         sync' = [sync EXCEPT ![s] = [sync[s] EXCEPT !.at = at]]
  PROVE  /\ \A t \in Syncers \ {s} : sync'[t] = sync[t]
         /\ sync'[s].at = at /\ sync'[s].managed = sync[s].managed
         /\ sync'[s].cards = sync[s].cards /\ sync'[s].rows = sync[s].rows
         /\ sync'[s].clears = sync[s].clears
<1> DEFINE r == [sync[s] EXCEPT !.at = at]
<1>1. /\ r \in Run /\ r.at = at /\ r.managed = sync[s].managed
      /\ r.cards = sync[s].cards /\ r.rows = sync[s].rows /\ r.clears = sync[s].clears
  BY PlaceTyped
<1>2. sync'[s] = r /\ \A t \in Syncers \ {s} : sync'[t] = sync[t]
  BY <1>1, OneRunMoves DEF Inv, TypeOK
<1> QED
  BY <1>1, <1>2

(* What is written outside the planned rows is not looked at.              *)
LEMMA StillPlanned ==
  ASSUME Inv, NEW s \in Syncers, Writing(s), OnCourse(s),
         sync'[s].managed = sync[s].managed, sync'[s].cards = sync[s].cards,
         sync'[s].rows = sync[s].rows, sync'[s].clears = sync[s].clears,
         sync'[s].at \in {"entered", "raw", "clear"},
         \A n \in Rows \ DOMAIN sync[s].rows : tab'[n] = tab[n],
         UNCHANGED <<client, ledger>>
  PROVE  ReadClients(s)' /\ ReadContracts(s)' /\ PlansAll(s)'
<1>1. ReadClients(s)' /\ ReadContracts(s)'
  BY DEF OnCourse, ReadClients, ReadContracts, Known
<1>2. KeysNow' = KeysNow
  BY SameConsole
<1>3. PlansAll(s)'
  BY <1>2 DEF OnCourse, PlansAll
<1> QED
  BY <1>1, <1>3

LEMMA WriteEnteredTold ==
  ASSUME Inv, Faithful, NEW s \in Syncers, WriteEntered(s)
  PROVE  Faithful'
<1> DEFINE D == DOMAIN sync[s].rows
<1>1. /\ UNCHANGED <<client, ledger, owed, running, again, spoilt>>
      /\ sync[s].at = "entered" /\ Writing(s)
  BY DEF WriteEntered, Step, Writing, console, flags
<1>2. sync' = [sync EXCEPT ![s] = [sync[s] EXCEPT !.at = "raw"]]
  BY DEF WriteEntered, Inv, TypeOK
<1>3. /\ \A t \in Syncers \ {s} : sync'[t] = sync[t]
      /\ sync'[s].at = "raw" /\ sync'[s].managed = sync[s].managed
      /\ sync'[s].cards = sync[s].cards /\ sync'[s].rows = sync[s].rows
      /\ sync'[s].clears = sync[s].clears
  <2>1. "raw" \in Steps
    BY DEF Steps
  <2> QED
    BY <1>2, <2>1, CallMoves
<1>4. Active(s) /\ Active(s)'
  BY <1>1, <1>3 DEF Active, ActiveSteps
<1>5. D \in SUBSET Rows /\ \A n \in D : sync[s].rows[n] \in Row
  BY WrittenRows
<1>6. \A n \in Rows : tab'[n] = IF n \in D THEN [sync[s].rows[n] EXCEPT !.txt = tab[n].txt]
                                           ELSE tab[n]
  BY DEF WriteEntered, Entered
<1>7. \A n \in D : /\ tab'[n].client = sync[s].rows[n].client
                   /\ tab'[n].seq = sync[s].rows[n].seq
                   /\ tab'[n].num = sync[s].rows[n].num
  BY <1>5, <1>6 DEF Row
<1>8. ASSUME OnCourse(s) PROVE OnCourse(s)'
  <2>1. ReadClients(s)' /\ ReadContracts(s)' /\ PlansAll(s)'
    BY <1>1, <1>3, <1>6, <1>8, StillPlanned
  <2>2. HasEntered(s)' /\ HasTexts(s)'
    BY <1>3, <1>7 DEF HasEntered, HasTexts
  <2> QED
    BY <2>1, <2>2 DEF OnCourse
<1> QED
  BY <1>1, <1>3, <1>4, <1>8, RunGoesOn

LEMMA WriteRawTold ==
  ASSUME Inv, Faithful, NEW s \in Syncers, WriteRaw(s)
  PROVE  Faithful'
<1> DEFINE D == DOMAIN sync[s].rows
<1>1. /\ UNCHANGED <<client, ledger, owed, running, again, spoilt>>
      /\ sync[s].at = "raw" /\ Writing(s)
  BY DEF WriteRaw, Step, Writing, console, flags
<1>2. sync' = [sync EXCEPT ![s] = [sync[s] EXCEPT !.at = "clear"]]
  BY DEF WriteRaw, Inv, TypeOK
<1>3. /\ \A t \in Syncers \ {s} : sync'[t] = sync[t]
      /\ sync'[s].at = "clear" /\ sync'[s].managed = sync[s].managed
      /\ sync'[s].cards = sync[s].cards /\ sync'[s].rows = sync[s].rows
      /\ sync'[s].clears = sync[s].clears
  <2>1. "clear" \in Steps
    BY DEF Steps
  <2> QED
    BY <1>2, <2>1, CallMoves
<1>4. Active(s) /\ Active(s)'
  BY <1>1, <1>3 DEF Active, ActiveSteps
<1>5. D \in SUBSET Rows /\ \A n \in Rows : tab[n] \in Row
  BY WrittenRows DEF Inv, TypeOK
<1>6. \A n \in Rows : tab'[n] = IF n \in D THEN [tab[n] EXCEPT !.txt = sync[s].rows[n].txt]
                                           ELSE tab[n]
  BY DEF WriteRaw, Texts
<1>7. \A n \in D : /\ tab'[n].client = tab[n].client /\ tab'[n].seq = tab[n].seq
                   /\ tab'[n].num = tab[n].num /\ tab'[n].txt = sync[s].rows[n].txt
  BY <1>5, <1>6 DEF Row
<1>8. sync[s].managed \subseteq Clients
  BY DEF Inv, TypeOK, Run
<1>9. \A c \in sync[s].managed : card'[c] = sync[s].cards[c]
  BY <1>8 DEF WriteRaw, Texts
<1>10. ASSUME OnCourse(s) PROVE OnCourse(s)'
  <2>1. ReadClients(s)' /\ ReadContracts(s)' /\ PlansAll(s)'
    BY <1>1, <1>3, <1>6, <1>10, StillPlanned
  <2>2. \A n \in D : /\ tab[n].client = sync[s].rows[n].client
                     /\ tab[n].seq = sync[s].rows[n].seq
                     /\ tab[n].num = sync[s].rows[n].num
    BY <1>1, <1>10 DEF OnCourse, HasEntered
  <2>3. HasEntered(s)'
    BY <1>3, <1>7, <2>2 DEF HasEntered
  <2>4. \A c \in sync[s].managed : card'[c] = client[c]
    BY <1>9, <1>10 DEF OnCourse, ReadClients
  <2>5. HasTexts(s)'
    BY <1>1, <1>3, <1>7, <2>4 DEF HasTexts
  <2> QED
    BY <2>1, <2>3, <2>5 DEF OnCourse
<1> QED
  BY <1>1, <1>3, <1>4, <1>10, RunGoesOn

(* The last call of a run on course leaves the workbook in step.           *)
LEMMA ClearBringsInStep ==
  ASSUME Inv, NEW s \in Syncers, sync[s].at = "clear", OnCourse(s), Clears(s),
         UNCHANGED <<client, ledger>>
  PROVE  InStep'
<1> DEFINE rows == sync[s].rows
           D == DOMAIN rows
<1>1. D \in SUBSET Rows /\ sync[s].clears \in SUBSET Rows
  BY WrittenRows
<1>2. card' = card /\ \A n \in Rows : tab'[n] = IF n \in sync[s].clears THEN Blank ELSE tab[n]
  BY DEF Clears
<1>3. Writing(s)
  BY DEF Writing
<1>4. /\ \A n \in D : \E k \in KeysNow :
           IsFor(rows[n], k) /\ Tells(rows[n], ledger[k[1]][k[2]])
      /\ \A k \in KeysNow : \E n \in D : IsFor(rows[n], k)
      /\ \A k \in KeysNow : \A n, m \in D : IsFor(rows[n], k) /\ IsFor(rows[m], k) => n = m
      /\ \A n \in Rows \ D : tab[n].client \in sync[s].managed => n \in sync[s].clears
      /\ \A n \in sync[s].clears : n \notin D
  BY <1>3 DEF OnCourse, PlansAll
<1>5. \A n \in D : /\ tab[n].client = rows[n].client /\ tab[n].seq = rows[n].seq
                   /\ tab[n].num = rows[n].num /\ tab[n].txt = rows[n].txt
  BY DEF OnCourse, HasEntered, HasTexts
<1>6. sync[s].managed = {c \in Clients : Known(c)}
      /\ \A c \in sync[s].managed : card[c] = client[c]
  BY DEF OnCourse, ReadClients, HasTexts
<1> HIDE DEF rows, D
<1>7. ASSUME NEW c \in Clients, Known(c), NEW q \in Seqs
      PROVE  IF ledger[c][q] = None THEN RowsOf(<<c, q>>)' = {}
             ELSE /\ Cardinality(RowsOf(<<c, q>>)') = 1
                  /\ \A n \in RowsOf(<<c, q>>)' :
                       tab'[n].num = ledger[c][q].num /\ tab'[n].txt = ledger[c][q].txt
  <2> DEFINE here == {n \in Rows : tab'[n].client = c /\ tab'[n].seq = q}
  <2>1. RowsOf(<<c, q>>)' = here
    BY DEF RowsOf
  <2>2. c # None /\ c \in sync[s].managed
    BY <1>6, <1>7, NoneIsNothing
  <2>3. ASSUME NEW n \in here
        PROVE  n \in D /\ tab'[n] = tab[n] /\ IsFor(rows[n], <<c, q>>)
    <3>1. n \in Rows /\ tab'[n].client = c /\ tab'[n].seq = q
      OBVIOUS
    <3>2. n \notin sync[s].clears
      BY <1>2, <2>2, <3>1, BlankIsARow
    <3>3. tab'[n] = tab[n]
      BY <1>2, <3>1, <3>2
    <3>4. n \in D
      BY <1>4, <2>2, <3>1, <3>2, <3>3
    <3> QED
      BY <1>5, <3>1, <3>3, <3>4 DEF IsFor
  <2>4. ASSUME NEW n \in D, IsFor(rows[n], <<c, q>>)
        PROVE  n \in here
    <3>1. n \notin sync[s].clears /\ n \in Rows
      BY <1>1, <1>4
    <3> QED
      BY <1>2, <1>5, <2>4, <3>1 DEF IsFor
  <2>5. ASSUME NEW n \in here
        PROVE  <<c, q>> \in KeysNow /\ Tells(rows[n], ledger[c][q])
    <3>1. n \in D /\ IsFor(rows[n], <<c, q>>)
      BY <2>3
    <3>2. PICK k \in KeysNow : IsFor(rows[n], k) /\ Tells(rows[n], ledger[k[1]][k[2]])
      BY <1>4, <3>1
    <3>3. k[1] = c /\ k[2] = q /\ k = <<c, q>>
      BY <3>1, <3>2 DEF IsFor, KeysNow, Keys
    <3> QED
      BY <3>2, <3>3
  <2>6. CASE ledger[c][q] = None
    <3>1. <<c, q>> \notin KeysNow
      BY <2>6 DEF KeysNow
    <3> QED
      BY <2>1, <2>5, <2>6, <3>1
  <2>7. CASE ledger[c][q] # None
    <3>1. <<c, q>> \in KeysNow
      BY <1>7, <2>7 DEF KeysNow, Keys
    <3>2. PICK n \in D : IsFor(rows[n], <<c, q>>)
      BY <1>4, <3>1
    <3>3. n \in here /\ \A m \in here : m = n
      BY <1>4, <2>3, <2>4, <3>1, <3>2
    <3>4. here = {n}
      BY <3>3
    <3>5. Cardinality(here) = 1
      BY <3>4, FS_Singleton
    <3>6. ASSUME NEW m \in here
          PROVE  tab'[m].num = ledger[c][q].num /\ tab'[m].txt = ledger[c][q].txt
      <4>1. m \in D /\ tab'[m] = tab[m] /\ Tells(rows[m], ledger[c][q])
        BY <2>3, <2>5
      <4> QED
        BY <1>5, <4>1 DEF Tells
    <3> HIDE DEF here
    <3> QED
      BY <2>1, <2>7, <3>5, <3>6
  <2> QED
    BY <2>6, <2>7
<1>8. \A c \in Clients : Known(c) => card'[c] = client[c]
  BY <1>2, <1>6
<1>9. \A c \in Clients : Known(c)' <=> Known(c)
  BY DEF Known
<1> QED
  BY <1>7, <1>8, <1>9 DEF InStep

LEMMA ClearTold ==
  ASSUME Inv, Faithful, NEW s \in Syncers, Clear(s)
  PROVE  Faithful'
<1>1. /\ UNCHANGED <<client, ledger, owed, spoilt>> /\ sync[s].at = "clear" /\ Clears(s)
  BY DEF Clear, Step, console
<1>2. "loop" \in Syncers
  BY DEF Syncers
<1>3. Active(s)
  BY <1>1 DEF Active, ActiveSteps
<1>4. CASE s = "loop" /\ again
  <2> DEFINE r == [Idle EXCEPT !.at = "clients"]
  <2>1. r \in Run /\ r.at = "clients"
    BY Starts
  <2>2. sync' = [sync EXCEPT ![s] = r]
    BY <1>4 DEF Clear
  <2>3. sync'[s].at = "clients" /\ \A t \in Syncers \ {s} : sync'[t] = sync[t]
    BY <2>1, <2>2, OneRunMoves DEF Inv, TypeOK
  <2>4. RunningIsBusy' /\ Awaited'
    BY <1>4, <2>3 DEF RunningIsBusy, Busy, Awaited
  <2>5. \A t \in Syncers : Active(t)' => Active(t)
    BY <2>3 DEF Active, ActiveSteps
  <2> QED
    BY <1>1, <2>4, <2>5, NothingToTell
<1>5. CASE ~ (s = "loop" /\ again)
  <2>1. sync' = [sync EXCEPT ![s] = Idle] /\ again' = again
    BY <1>5, Zenon DEF Clear
  <2>2. running' = (IF s = "loop" THEN FALSE ELSE running)
    BY <1>5, Zenon DEF Clear
  <2>3. sync'[s] = Idle /\ \A t \in Syncers \ {s} : sync'[t] = sync[t]
    BY <2>1, IdleIsARun, OneRunMoves DEF Inv, TypeOK
  <2>4. RunningIsBusy'
    <3>1. CASE s = "loop"
      BY <2>2, <3>1 DEF RunningIsBusy
    <3>2. CASE s # "loop"
      <4>1. running' = running /\ sync'["loop"] = sync["loop"]
        BY <1>2, <2>2, <2>3, <3>2
      <4> QED
        BY <4>1 DEF Faithful, RunningIsBusy, Busy
    <3> QED
      BY <3>1, <3>2
  <2>5. ~Active(s)' /\ \A t \in Syncers : Active(t)' => Active(t)
    BY <2>3, IdleIsARun DEF Active, ActiveSteps
  <2>6. Awaited => Awaited'
    <3>1. CASE owed
      BY <1>1, <3>1 DEF Awaited
    <3>2. CASE again /\ Busy("loop")
      <4>1. s # "loop"
        BY <1>5, <3>2
      <4>2. sync'["loop"] = sync["loop"]
        BY <1>2, <2>3, <4>1
      <4> QED
        BY <2>1, <3>2, <4>2 DEF Awaited, Busy
    <3>3. CASE \E t \in Syncers : sync[t].at \in {"waiting", "clients"}
      BY <1>1, <2>3, <3>3 DEF Awaited
    <3> QED
      BY <3>1, <3>2, <3>3 DEF Awaited
  <2>7. ASSUME ~spoilt', ~Awaited' PROVE InStep' /\ \A t \in Syncers : ~Active(t)'
    <3>1. OneActive /\ OnCourse(s)
      BY <1>1, <1>3, <2>6, <2>7 DEF Faithful, Truthful
    <3>2. InStep'
      BY <1>1, <3>1, ClearBringsInStep
    <3>3. \A t \in Syncers : ~Active(t)'
      BY <1>3, <2>5, <3>1 DEF OneActive
    <3> QED
      BY <3>2, <3>3
  <2>8. ~spoilt' => OneActive'
    BY <1>1, <2>5 DEF Faithful, Truthful, OneActive
  <2> QED
    BY <2>4, <2>7, <2>8 DEF Faithful, Truthful
<1> QED
  BY <1>4, <1>5

(* No run moves, and what they look at stays as good as it was.            *)
LEMMA OnlookersStay ==
  ASSUME Faithful, UNCHANGED <<owed, running, again, sync, spoilt>>,
         \A s \in Syncers : Active(s) /\ OnCourse(s) => OnCourse(s)',
         InStep => InStep'
  PROVE  Faithful'
<1>1. RunningIsBusy'
  BY DEF Faithful, RunningIsBusy, Busy
<1>2. /\ Awaited' <=> Awaited
      /\ \A s \in Syncers : Active(s)' <=> Active(s)
  BY DEF Awaited, Busy, Active
<1>3. OneActive' <=> OneActive
  BY <1>2 DEF OneActive
<1>4. Truthful'
  BY <1>2, <1>3 DEF Faithful, Truthful
<1> QED
  BY <1>1, <1>4 DEF Faithful

LEMMA TypeRowTold ==
  ASSUME Inv, Faithful, NEW n \in Rows, NEW c \in Clients, NEW q \in Seqs, NEW v \in Values,
         TypeRow(n, c, q, v)
  PROVE  Faithful'
<1> DEFINE typed == [client |-> c, seq |-> q, num |-> v, txt |-> v]
<1>1. /\ UNCHANGED <<client, ledger, owed, running, again, sync, spoilt>>
      /\ tab' = [tab EXCEPT ![n] = typed]
      /\ tab[n].client = None /\ tab[n].seq = None /\ ~Known(c)
  BY DEF TypeRow, Free, console, flags
<1>2. tab'[n].client = c /\ \A m \in Rows \ {n} : tab'[m] = tab[m]
  BY <1>1 DEF Inv, TypeOK
<1>3. \A d \in Clients \ {c} : card'[d] = card[d]
  BY DEF TypeRow, Inv, TypeOK
<1>4. KeysNow' = KeysNow /\ \A d : Known(d)' = Known(d)
  BY <1>1, SameConsole
<1>5. ASSUME NEW s \in Syncers, Active(s), OnCourse(s) PROVE OnCourse(s)'
  <2>1. sync[s].managed = {d \in Clients : Known(d)} /\ c \notin sync[s].managed
    BY <1>1, <1>5 DEF OnCourse, ReadClients
  <2>2. ReadClients(s)' /\ ReadContracts(s)'
    BY <1>1, <1>4, <1>5 DEF OnCourse, ReadClients, ReadContracts
  <2>3. PlansAll(s)'
    <3>1. ASSUME Writing(s), NEW m \in Rows \ DOMAIN sync[s].rows,
                 tab'[m].client \in sync[s].managed
          PROVE  m \in sync[s].clears
      <4>1. m # n
        BY <1>2, <2>1, <3>1
      <4>2. tab'[m] = tab[m]
        BY <1>2, <4>1
      <4> QED
        BY <1>5, <3>1, <4>2 DEF OnCourse, PlansAll
    <3> QED
      BY <1>1, <1>4, <1>5, <3>1 DEF OnCourse, PlansAll, Writing
  <2>4. ASSUME sync[s].at \in {"raw", "clear"}, NEW m \in DOMAIN sync[s].rows
        PROVE  tab'[m] = tab[m]
    <3>1. Writing(s) /\ m \in Rows
      BY <2>4, WrittenRows DEF Writing
    <3>2. sync[s].rows[m].client \in sync[s].managed
      BY <3>1 DEF Inv, PlanFits
    <3>3. tab[m].client # None
      BY <1>5, <2>1, <2>4, <3>2, NoneIsNothing DEF OnCourse, HasEntered
    <3>4. m # n
      BY <1>1, <3>3
    <3> QED
      BY <1>2, <3>1, <3>4
  <2>5. HasEntered(s)'
    BY <1>1, <1>5, <2>4 DEF OnCourse, HasEntered
  <2>6. \A d \in sync[s].managed : card'[d] = card[d]
    BY <1>3, <2>1
  <2>7. HasTexts(s)'
    BY <1>1, <1>5, <2>4, <2>6 DEF OnCourse, HasTexts
  <2> QED
    BY <2>2, <2>3, <2>5, <2>7 DEF OnCourse
<1>6. ASSUME InStep PROVE InStep'
  <2>1. ASSUME NEW d \in Clients, Known(d), NEW p \in Seqs
        PROVE  /\ RowsOf(<<d, p>>)' = RowsOf(<<d, p>>)
               /\ \A m \in RowsOf(<<d, p>>) : tab'[m] = tab[m]
    <3>1. d # c /\ d # None
      BY <1>1, <2>1, NoneIsNothing
    <3>2. n \notin RowsOf(<<d, p>>) /\ RowsOf(<<d, p>>) \subseteq Rows
      BY <1>1, <3>1 DEF RowsOf
    <3>3. \A m \in Rows : tab'[m].client = d /\ tab'[m].seq = p
                            <=> tab[m].client = d /\ tab[m].seq = p
      BY <1>1, <1>2, <3>1
    <3> QED
      BY <1>2, <3>2, <3>3 DEF RowsOf
  <2>2. \A d \in Clients : Known(d) => card'[d] = card[d]
    BY <1>1, <1>3
  <2>3. ASSUME NEW d \in Clients, Known(d)
        PROVE  /\ card'[d] = client[d]
               /\ \A p \in Seqs :
                    IF ledger[d][p] = None THEN RowsOf(<<d, p>>)' = {}
                    ELSE /\ Cardinality(RowsOf(<<d, p>>)') = 1
                         /\ \A m \in RowsOf(<<d, p>>)' :
                              tab'[m].num = ledger[d][p].num /\ tab'[m].txt = ledger[d][p].txt
    BY <1>6, <2>1, <2>2, <2>3 DEF InStep
  <2> QED
    BY <1>1, <1>4, <2>3 DEF InStep
<1> QED
  BY <1>1, <1>5, <1>6, OnlookersStay

LEMMA TypeClientTold ==
  ASSUME Inv, Faithful, NEW c \in Clients, TypeClient(c)
  PROVE  Faithful'
<1>1. UNCHANGED <<client, ledger, tab, owed, running, again, sync, spoilt>> /\ ~Known(c)
  BY DEF TypeClient, console, flags
<1>2. \A d \in Clients \ {c} : card'[d] = card[d]
  BY DEF TypeClient, Inv, TypeOK
<1>3. KeysNow' = KeysNow /\ \A d : Known(d)' = Known(d)
  BY <1>1, SameConsole
<1>4. ASSUME NEW s \in Syncers, OnCourse(s) PROVE OnCourse(s)'
  <2>1. sync[s].managed = {d \in Clients : Known(d)}
    BY <1>4 DEF OnCourse, ReadClients
  <2>2. \A d \in sync[s].managed : card'[d] = card[d]
    BY <1>1, <1>2, <2>1
  <2>3. ReadClients(s)' /\ ReadContracts(s)' /\ PlansAll(s)' /\ HasEntered(s)'
    BY <1>1, <1>3, <1>4
       DEF OnCourse, ReadClients, ReadContracts, PlansAll, Writing, HasEntered
  <2>4. HasTexts(s)'
    BY <1>1, <1>4, <2>2 DEF OnCourse, HasTexts
  <2> QED
    BY <2>3, <2>4 DEF OnCourse
<1>5. ASSUME InStep PROVE InStep'
  <2>1. \A d \in Clients : Known(d) => card'[d] = card[d]
    BY <1>1, <1>2
  <2>2. \A d \in Clients, p \in Seqs : RowsOf(<<d, p>>)' = RowsOf(<<d, p>>)
    BY <1>1 DEF RowsOf
  <2> QED
    BY <1>1, <1>3, <1>5, <2>1, <2>2 DEF InStep
<1> QED
  BY <1>1, <1>4, <1>5, OnlookersStay

LEMMA FaithfulAtFirst == Init => Faithful
<1> SUFFICES ASSUME Init PROVE Faithful
  OBVIOUS
<1>1. ~running /\ \A s \in Syncers : sync[s].at = "idle"
  BY IdleIsARun DEF Init
<1>2. \A s \in Syncers : ~Active(s)
  BY <1>1 DEF Active, ActiveSteps
<1>3. InStep
  BY DEF Init, InStep, Known
<1> QED
  BY <1>1, <1>2, <1>3 DEF Faithful, RunningIsBusy, Truthful, OneActive

LEMMA StepsAreTold ==
  ASSUME Inv, Faithful, [Next]_vars
  PROVE  Faithful'
<1>1. CASE Console
  <2>1. PICK c \in Clients :
          \/ \E v \in Values :
               \/ CreateClient(c, v) \/ CreateContract(c, v)
               \/ \E s \in Seqs : UpdateContract(c, s, v)
          \/ \E s \in Seqs : DeleteContract(c, s)
          \/ RetireClient(c, "listed") \/ RetireClient(c, "retired")
          \/ DeleteClient(c) \/ RetireEmptyClient(c)
          \/ \E d \in Clients : MergeClients(c, d)
    BY <1>1 DEF Console
  <2>2. CASE Save
    BY <2>2, SaveTold
  <2>3. CASE RetireEmptyClient(c)
    BY <2>3, BehindTold DEF RetireEmptyClient, flags
  <2>4. ASSUME NEW d \in Clients, MergeClients(c, d) PROVE Faithful'
    <3> DEFINE r == [Idle EXCEPT !.at = "waiting"]
    <3>1. r \in Run /\ r.at = "waiting"
      BY Starts
    <3>2. sync' = [sync EXCEPT !["merge"] = r] /\ UNCHANGED <<running, spoilt>>
      BY <2>4 DEF MergeClients, flags
    <3> QED
      BY <3>1, <3>2, MergeTold
  <2>5. \/ Save \/ RetireEmptyClient(c) \/ \E d \in Clients : MergeClients(c, d)
    BY <2>1 DEF CreateClient, CreateContract, UpdateContract, DeleteContract,
                RetireClient, DeleteClient
  <2> QED
    BY <2>2, <2>3, <2>4, <2>5
<1>2. CASE Announce
  BY <1>2, AnnounceTold
<1>3. CASE MergeGoesOn
  <2> DEFINE r == [sync["merge"] EXCEPT !.at = "clients"]
  <2>1. "merge" \in Syncers /\ "clients" \in Steps
    BY DEF Syncers, Steps
  <2>2. r \in Run /\ r.at = "clients"
    BY <2>1, PlaceTyped
  <2>3. sync' = [sync EXCEPT !["merge"] = r] /\ UNCHANGED <<running, spoilt>>
    BY <1>3, <2>1 DEF MergeGoesOn, Inv, TypeOK, flags
  <2> QED
    BY <2>2, <2>3, MergeTold
<1>4. CASE \E s \in Syncers : Sync(s) \/ SyncFails(s)
  BY <1>4, CollectClientsTold, CollectContractsTold, PlanTold, WriteEnteredTold,
     WriteRawTold, ClearTold, FailTold DEF Sync
<1>5. CASE Restart
  BY <1>5, RestartTold
<1>6. CASE People
  BY <1>6, TypeRowTold, TypeClientTold DEF People
<1>7. CASE Import
  <2>1. spoilt' /\ UNCHANGED <<running, sync>>
    BY <1>7 DEF Import, flags
  <2> QED
    BY <2>1, BehindTold
<1>8. CASE UNCHANGED vars
  <2>1. UNCHANGED <<client, ledger, card, tab, owed, running, again, sync, spoilt>>
    BY <1>8 DEF vars, console, book, flags
  <2>2. KeysNow' = KeysNow /\ \A d : Known(d)' = Known(d)
    BY <2>1, SameConsole
  <2>3. \A s \in Syncers : OnCourse(s) => OnCourse(s)'
    BY <2>1, <2>2 DEF OnCourse, ReadClients, ReadContracts, PlansAll, Writing,
                      HasEntered, HasTexts
  <2> QED
    BY <2>1, <2>3, StillInStep, OnlookersStay
<1> QED
  BY <1>1, <1>2, <1>3, <1>4, <1>5, <1>6, <1>7, <1>8 DEF Next

(* When the synchronisations have come to rest, and nothing else came last *)
(* (spoilt), the workbook shows what the ledger says of every client of    *)
(* the console (won_sheets.py:413-414), for any number of clients,         *)
(* contracts and rows, whatever fell between the steps of the runs.        *)
THEOREM QuietIsInStep == Spec => []QuietMeansInStep
<1>1. Inv /\ Faithful /\ [Next]_vars => Faithful'
  BY StepsAreTold
<1>2. ASSUME Faithful PROVE QuietMeansInStep
  <2> SUFFICES ASSUME Quiet, ~spoilt PROVE InStep
    BY DEF QuietMeansInStep
  <2>1. ~owed /\ \A s \in Syncers : sync[s].at = "idle"
    BY DEF Quiet, Busy
  <2>2. ~Awaited /\ \A s \in Syncers : ~Active(s)
    BY <2>1 DEF Awaited, Active, ActiveSteps, Busy, Syncers
  <2> QED
    BY <1>2, <2>2 DEF Faithful, Truthful
<1> QED
  BY FaithfulAtFirst, <1>1, <1>2, LedgerInvariance, PTL DEF Spec

=============================================================================
