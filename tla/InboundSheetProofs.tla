------------------------- MODULE InboundSheetProofs -------------------------
(***************************************************************************)
(* What InboundSheet guarantees for any number of inquiries, companies,    *)
(* numbers, faults and restarts: types, one number for each company, one   *)
(* row for each inquiry.                                                   *)
(***************************************************************************)
EXTENDS InboundSheet, TLAPS, WellFoundedInduction, SequenceTheorems,
        FiniteSetTheorems

-----------------------------------------------------------------------------
(* Least and greatest elements.                                            *)

LEMMA HasLeast ==
  ASSUME NEW S, S \subseteq Nat, S # {}
  PROVE  \E x \in S : \A y \in S : x =< y
<1> DEFINE R == {ss \in Nat \X Nat : ss[1] < ss[2]}
<1>1. IsWellFoundedOn(R, Nat)
  BY NatLessThanWellFounded, Zenon DEF OpToRel
<1>2. \E x \in S : \A y \in S : ~ (<<y, x>> \in R)
  <2> HIDE DEF R
  <2> QED BY <1>1, WFMin
<1>3. \A x, y \in S : <<y, x>> \in R <=> y < x
  OBVIOUS
<1> HIDE DEF R
<1>4. \A x, y \in S : ~ (y < x) => x =< y
  OBVIOUS
<1> QED BY <1>2, <1>3, <1>4

LEMMA MinIsMember ==
  ASSUME NEW S, S \subseteq Nat, S # {}
  PROVE  Min(S) \in S
  BY HasLeast DEF Min

LEMMA MaxIsMember ==
  ASSUME NEW n \in Nat, NEW S, S \subseteq 0..n, S # {}
  PROVE  Max(S) \in S
<1> DEFINE T == {n - x : x \in S}
<1>1. T \subseteq Nat /\ T # {}
  <2>1. T \subseteq Nat
    <3> SUFFICES ASSUME NEW x \in S PROVE n - x \in Nat
      OBVIOUS
    <3> QED OBVIOUS
  <2>2. PICK x \in S : TRUE
    OBVIOUS
  <2>3. n - x \in T
    OBVIOUS
  <2> QED BY <2>1, <2>3
<1>2. PICK x \in T : \A y \in T : x =< y
  <2> HIDE DEF T
  <2> QED BY <1>1, HasLeast
<1>3. PICK z \in S : x = n - z
  BY <1>2
<1>4. \A y \in S : n - y \in T
  OBVIOUS
<1>5. \A y \in S : z >= y
  <2> TAKE y \in S
  <2>1. x =< n - y
    <3> HIDE DEF T
    <3> QED BY <1>2, <1>4
  <2> QED BY <2>1, <1>3
<1> QED BY <1>5 DEF Max

(* Deleting a row: the rows before it stay, those behind it move up.       *)
LEMMA RowsAfterRemoval ==
  ASSUME NEW R, NEW s \in Seq(R), NEW n \in 1..Len(s)
  PROVE  /\ RemoveAt(s, n) \in Seq(R)
         /\ Len(RemoveAt(s, n)) = Len(s) - 1
         /\ \A m \in 1..(Len(s) - 1) :
              RemoveAt(s, n)[m] = IF m < n THEN s[m] ELSE s[m + 1]
<1> DEFINE A == SubSeq(s, 1, n - 1)
           B == SubSeq(s, n + 1, Len(s))
<1>1. /\ A \in Seq(R) /\ Len(A) = n - 1
      /\ \A m \in 1..(n - 1) : A[m] = s[m]
  BY SubSeqProperties
<1>2. /\ B \in Seq(R) /\ Len(B) = Len(s) - n
      /\ \A m \in 1..(Len(s) - n) : B[m] = s[n + m]
  BY SubSeqProperties
<1> HIDE DEF A, B
<1>3. /\ A \o B \in Seq(R) /\ Len(A \o B) = Len(A) + Len(B)
      /\ \A m \in 1..(Len(A) + Len(B)) :
           (A \o B)[m] = IF m =< Len(A) THEN A[m] ELSE B[m - Len(A)]
  BY <1>1, <1>2, ConcatProperties
<1>4. RemoveAt(s, n) = A \o B
  BY DEF RemoveAt, A, B
<1>5. ASSUME NEW m \in 1..(Len(s) - 1)
      PROVE  (A \o B)[m] = IF m < n THEN s[m] ELSE s[m + 1]
  <2>1. CASE m < n
    BY <2>1, <1>1, <1>2, <1>3
  <2>2. CASE ~ m < n
    <3> DEFINE k == m - (n - 1)
    <3>1. k \in 1..(Len(s) - n) /\ n + k = m + 1 /\ ~ (m =< n - 1)
      BY <2>2
    <3>2. m \in 1..(Len(A) + Len(B))
      BY <1>1, <1>2
    <3>3. (A \o B)[m] = B[m - Len(A)]
      BY <3>1, <3>2, <1>1, <1>3
    <3>4. (A \o B)[m] = B[k]
      BY <3>3, <1>1
    <3> HIDE DEF k
    <3>5. B[k] = s[n + k]
      BY <3>1, <1>2
    <3> QED BY <3>1, <3>4, <3>5, <2>2
  <2> QED BY <2>1, <2>2
<1>6. Len(A) + Len(B) = Len(s) - 1
  BY <1>1, <1>2
<1> QED BY <1>3, <1>4, <1>5, <1>6

-----------------------------------------------------------------------------
(* Types.                                                                  *)

LEMMA IdsAreNumbers == NoId \in Ids /\ Ids \subseteq Nat /\ MaxId \in Nat
  BY BoundsAreNumbers DEF Ids, NoId

LEMMA RestIsTyped ==
  /\ Idle \in WriterStates /\ Idle.at = "idle"
  /\ Still \in ThreadStates
  BY IdsAreNumbers DEF Idle, Still, WriterStates, ThreadStates, WriterSteps,
     Keys, NoKey, NoId, NoRow

LEMMA RowNumbersAreNumbers ==
  ASSUME BookOK
  PROVE  /\ RowNumbers \subseteq Nat /\ Len(sheet) \in Nat
         /\ \A n \in RowNumbers : sheet[n] \in Rows
  BY DEF BookOK, RowNumbers

LEMMA FoundRow ==
  ASSUME BookOK, NEW k, NEW d
  PROVE  /\ RowForInquiry(k, d) \in Nat
         /\ RowForInquiry(k, d) # NoRow => RowForInquiry(k, d) \in RowNumbers
<1>1. RowsWithKey(k) \subseteq RowNumbers /\ RowsWithId(d) \subseteq RowNumbers
  BY DEF RowsWithKey, RowsWithId
<1>2. RowsWithKey(k) # {} => Min(RowsWithKey(k)) \in RowsWithKey(k)
  BY <1>1, RowNumbersAreNumbers, MinIsMember
<1>3. Cardinality(RowsWithId(d)) = 1 => RowsWithId(d) # {}
  BY FS_EmptySet
<1>4. RowsWithId(d) # {} => Min(RowsWithId(d)) \in RowsWithId(d)
  BY <1>1, RowNumbersAreNumbers, MinIsMember
<1> QED BY <1>1, <1>2, <1>3, <1>4, RowNumbersAreNumbers DEF RowForInquiry,
     NoRow

LEMMA KeptTypes ==
  ASSUME TypeOK
  PROVE  /\ UNCHANGED store => StoreOK'
         /\ UNCHANGED book => BookOK'
         /\ UNCHANGED <<lock, app>> => AppOK'
         /\ UNCHANGED poller => PollerOK'
         /\ UNCHANGED <<up, del>> => ThreadsOK'
         /\ UNCHANGED <<mixed, counters>> => CountersOK'
<1>1. UNCHANGED store => StoreOK'
  BY DEF TypeOK, StoreOK, store
<1>2. UNCHANGED book => BookOK'
  BY DEF TypeOK, BookOK, book
<1>3. UNCHANGED <<lock, app>> => AppOK'
  BY DEF TypeOK, AppOK
<1>4. UNCHANGED poller => PollerOK'
  BY DEF TypeOK, PollerOK, poller
<1>5. UNCHANGED <<up, del>> => ThreadsOK'
  BY DEF TypeOK, ThreadsOK
<1>6. UNCHANGED <<mixed, counters>> => CountersOK'
  BY DEF TypeOK, CountersOK, counters
<1> QED BY <1>1, <1>2, <1>3, <1>4, <1>5, <1>6

(* A writer that goes to a state of its own.                               *)
LEMMA GoneTo ==
  ASSUME AppOK, NEW a \in Writers, NEW w \in WriterStates,
         w.at # "idle" => w.inq \in Inquiries,
         lock' \in Writers \cup {Nobody}, Goto(a, w)
  PROVE  AppOK'
  BY DEF AppOK, Goto

(* A writer at work moves, perhaps with a suggestion or a row at hand.     *)
LEMMA MoveTyped ==
  ASSUME AppOK, NEW a \in Writers, app[a].at # "idle", NEW s \in WriterSteps
  PROVE  /\ [app[a] EXCEPT !.at = s] \in WriterStates
         /\ [app[a] EXCEPT !.at = s].inq = app[a].inq
<1>1. app[a] \in WriterStates
  BY DEF AppOK
<1> QED BY <1>1 DEF WriterStates

LEMMA SuggestionTyped ==
  ASSUME AppOK, NEW a \in Writers, app[a].at # "idle", NEW s \in WriterSteps, NEW n \in Nat
  PROVE  /\ [app[a] EXCEPT !.at = s, !.sug = n] \in WriterStates
         /\ [app[a] EXCEPT !.at = s, !.sug = n].inq = app[a].inq
<1>1. app[a] \in WriterStates
  BY DEF AppOK
<1> QED BY <1>1 DEF WriterStates

LEMMA RowInHandTyped ==
  ASSUME AppOK, NEW a \in Writers, app[a].at # "idle", NEW s \in WriterSteps, NEW n \in Nat
  PROVE  /\ [app[a] EXCEPT !.at = s, !.row = n] \in WriterStates
         /\ [app[a] EXCEPT !.at = s, !.row = n].inq = app[a].inq
<1>1. app[a] \in WriterStates
  BY DEF AppOK
<1> QED BY <1>1 DEF WriterStates

LEMMA WriterHas ==
  ASSUME AppOK, NEW a \in Writers, app[a].at # "idle"
  PROVE  /\ app[a].inq \in Inquiries /\ app[a].key \in Keys
         /\ app[a].cid \in Ids /\ app[a].keys \in SUBSET Inquiries
         /\ app[a].row \in Nat /\ app[a].sug \in Nat /\ app[a].old \in Keys
<1>1. app[a] \in WriterStates /\ app[a].inq \in Inquiries
  BY DEF AppOK
<1> QED BY <1>1 DEF WriterStates

LEMMA NumberTyped ==
  ASSUME StoreOK, NEW i \in Inquiries, NEW d \in Ids, Number(i, d)
  PROVE  StoreOK'
<1>1. keyOf' \in [Inquiries -> Keys]
  BY DEF StoreOK, Number, Keys
<1>2. cid' \in [Inquiries -> Ids] /\ owned' \in [Companies -> Ids]
  BY DEF StoreOK, Number
<1> QED BY <1>1, <1>2 DEF StoreOK, Number

(* What a writer leaves alone.                                             *)
LEMMA WriterTyped ==
  ASSUME TypeOK, StoreOK', BookOK', AppOK',
         UNCHANGED <<poller, up, del>>, UNCHANGED <<moves, deletes, asks>>,
         mixed' \in BOOLEAN, faults' \in 0..MaxFaults
  PROVE  TypeOK'
<1>1. PollerOK' /\ ThreadsOK'
  BY KeptTypes DEF poller
<1>2. CountersOK'
  BY DEF TypeOK, CountersOK
<1> QED BY <1>1, <1>2 DEF TypeOK

LEMMA MixedTyped ==
  ASSUME NEW n, NEW i
  PROVE  Foreign(n, i) \in BOOLEAN
  BY DEF Foreign

LEMMA ReserveTypes ==
  ASSUME TypeOK, NEW a \in Writers, Reserve(a)
  PROVE  TypeOK'
<1> DEFINE i == app[a].inq
<1>0. StoreOK /\ BookOK /\ AppOK /\ app[a].at # "idle" /\ i \in Inquiries
  BY DEF TypeOK, AppOK, Reserve
<1>1. UNCHANGED book /\ UNCHANGED lock /\ UNCHANGED <<poller, up, del>>
      /\ UNCHANGED <<moves, deletes, asks>> /\ mixed' \in BOOLEAN
      /\ faults' \in 0..MaxFaults
  BY DEF Reserve, counters, TypeOK, CountersOK
<1>2. BookOK' /\ lock' \in Writers \cup {Nobody}
  BY <1>0, <1>1, KeptTypes DEF AppOK
<1>3. Known(i) \in Ids
  BY <1>0 DEF Known, StoreOK
<1>4. /\ Idle \in WriterStates /\ Idle.at = "idle"
      /\ [app[a] EXCEPT !.at = "read"] \in WriterStates
      /\ [app[a] EXCEPT !.at = "read"].inq = i
      /\ [app[a] EXCEPT !.at = "suggest"] \in WriterStates
      /\ [app[a] EXCEPT !.at = "suggest"].inq = i
  <2>1. "read" \in WriterSteps /\ "suggest" \in WriterSteps
    BY DEF WriterSteps
  <2> QED BY <1>0, <2>1, RestIsTyped, MoveTyped
<1>5. CASE UNCHANGED store /\ \/ Goto(a, Idle)
                              \/ Goto(a, [app[a] EXCEPT !.at = "suggest"])
  <2>1. AppOK'
    BY <1>0, <1>2, <1>4, <1>5, GoneTo
  <2> QED BY <2>1, <1>1, <1>2, <1>5, KeptTypes, WriterTyped
<1>6. CASE Number(i, Known(i)) /\ Goto(a, [app[a] EXCEPT !.at = "read"])
  <2>1. AppOK'
    BY <1>0, <1>2, <1>4, <1>6, GoneTo
  <2>2. StoreOK'
    BY <1>0, <1>3, <1>6, NumberTyped
  <2> QED BY <2>1, <2>2, <1>1, <1>2, WriterTyped
<1> QED BY <1>5, <1>6 DEF Reserve

LEMMA KeyedRows ==
  ASSUME BookOK, NEW n \in Nat, NEW k \in Keys
  PROVE  /\ Keyed(n, k) \in Seq(Rows)
         /\ Len(Keyed(n, k)) = Len(sheet)
         /\ \A m \in RowNumbers :
              Keyed(n, k)[m] = IF m = n THEN [sheet[m] EXCEPT !.key = k]
                               ELSE sheet[m]
<1>1. CASE n \in RowNumbers
  <2>1. sheet[n] \in Rows /\ [sheet[n] EXCEPT !.key = k] \in Rows
    BY <1>1, RowNumbersAreNumbers DEF Rows
  <2>2. Keyed(n, k) = [sheet EXCEPT ![n] = [sheet[n] EXCEPT !.key = k]]
    BY <1>1 DEF Keyed
  <2> QED BY <1>1, <2>1, <2>2, ExceptSeq DEF BookOK, RowNumbers
<1>2. CASE n \notin RowNumbers
  BY <1>2 DEF Keyed, BookOK
<1> QED BY <1>1, <1>2

LEMMA SuggestTypes ==
  ASSUME TypeOK, NEW a \in Writers, Suggest(a)
  PROVE  TypeOK'
<1> DEFINE i == app[a].inq
<1>0. StoreOK /\ BookOK /\ AppOK /\ app[a].at # "idle" /\ i \in Inquiries
  BY DEF TypeOK, AppOK, Suggest
<1>1. /\ UNCHANGED <<store, book, lock, poller, up, del>>
      /\ UNCHANGED <<moves, deletes, asks>> /\ mixed' \in BOOLEAN
      /\ faults' \in 0..MaxFaults
  BY DEF Suggest, counters, TypeOK, CountersOK
<1>2. StoreOK' /\ BookOK' /\ lock' \in Writers \cup {Nobody}
  BY <1>0, <1>1, KeptTypes DEF AppOK
<1> DEFINE s == Max(SheetIds \cup {NoId}) + 1
<1>3. s \in Nat
  <2>1. SheetIds \cup {NoId} \subseteq 0..MaxId
    BY <1>0, RowNumbersAreNumbers, IdsAreNumbers DEF SheetIds, Rows, Ids
  <2> QED BY <2>1, MaxIsMember, IdsAreNumbers
<1>4. [app[a] EXCEPT !.at = "claim", !.sug = s] \in WriterStates
      /\ [app[a] EXCEPT !.at = "claim", !.sug = s].inq = i
  <2>1. "claim" \in WriterSteps
    BY DEF WriterSteps
  <2> HIDE DEF s
  <2> QED BY <1>0, <1>3, <2>1, SuggestionTyped
<1>5. Goto(a, [app[a] EXCEPT !.at = "claim", !.sug = s])
  BY DEF Suggest
<1> HIDE DEF s
<1>6. AppOK'
  BY <1>0, <1>2, <1>4, <1>5, GoneTo
<1> QED BY <1>1, <1>2, <1>6, WriterTyped

LEMMA ClaimTypes ==
  ASSUME TypeOK, NEW a \in Writers, Claim(a)
  PROVE  TypeOK'
<1> DEFINE i == app[a].inq
<1>0. StoreOK /\ BookOK /\ AppOK /\ app[a].at # "idle" /\ i \in Inquiries
  BY DEF TypeOK, AppOK, Claim
<1>1. /\ UNCHANGED <<book, lock, poller, up, del>>
      /\ UNCHANGED <<moves, deletes, asks>> /\ mixed' \in BOOLEAN
      /\ faults' \in 0..MaxFaults
  BY DEF Claim, counters, TypeOK, CountersOK
<1>2. BookOK' /\ lock' \in Writers \cup {Nobody}
  BY <1>0, <1>1, KeptTypes DEF AppOK
<1>3. /\ Idle \in WriterStates /\ Idle.at = "idle"
      /\ [app[a] EXCEPT !.at = "read", !.sug = NoId] \in WriterStates
      /\ [app[a] EXCEPT !.at = "read", !.sug = NoId].inq = i
  <2>1. "read" \in WriterSteps /\ NoId \in Nat
    BY IdsAreNumbers DEF WriterSteps
  <2> QED BY <1>0, <2>1, RestIsTyped, SuggestionTyped
<1>4. CASE UNCHANGED store /\ Goto(a, Idle)
  <2>1. AppOK'
    BY <1>0, <1>2, <1>3, <1>4, GoneTo
  <2> QED BY <2>1, <1>1, <1>2, <1>4, KeptTypes, WriterTyped
<1>5. ASSUME NEW d \in Ids, Number(i, d),
             Goto(a, [app[a] EXCEPT !.at = "read", !.sug = NoId])
      PROVE  TypeOK'
  <2>1. AppOK'
    BY <1>0, <1>2, <1>3, <1>5, GoneTo
  <2>2. StoreOK'
    BY <1>0, <1>5, NumberTyped
  <2> QED BY <2>1, <2>2, <1>1, <1>2, WriterTyped
<1>6. owned[company[i]] \in Ids /\ 1..MaxId \subseteq Ids
  BY <1>0, IdsAreNumbers DEF StoreOK, Ids
<1> QED BY <1>4, <1>5, <1>6 DEF Claim

LEMMA ReadRecordTypes ==
  ASSUME TypeOK, NEW a \in Writers, ReadRecord(a)
  PROVE  TypeOK'
<1> DEFINE i == app[a].inq
<1>0. StoreOK /\ BookOK /\ AppOK /\ app[a].at # "idle" /\ i \in Inquiries
  BY DEF TypeOK, AppOK, ReadRecord
<1>1. /\ UNCHANGED <<store, book, lock, poller, up, del>>
      /\ UNCHANGED <<moves, deletes, asks>> /\ mixed' \in BOOLEAN
      /\ faults' \in 0..MaxFaults
  BY DEF ReadRecord, counters, TypeOK, CountersOK
<1>2. StoreOK' /\ BookOK' /\ lock' \in Writers \cup {Nobody}
  BY <1>0, <1>1, KeptTypes DEF AppOK
<1> DEFINE ks == {keyOf[j] : j \in {k \in Inquiries \ {i} :
                    /\ Alive(k) /\ cid[k] = cid[i]
                    /\ attached[k] /\ keyOf[k] # NoKey}}
           w == [app[a] EXCEPT !.at = "append", !.key = keyOf[i],
                               !.cid = cid[i], !.keys = ks]
<1>3. ks \subseteq Inquiries /\ keyOf[i] \in Keys /\ cid[i] \in Ids
  BY <1>0 DEF StoreOK, Keys
<1>4. app[a] \in WriterStates
  BY <1>0 DEF AppOK
<1>5. Goto(a, w) \/ Goto(a, Idle)
  BY DEF ReadRecord
<1> HIDE DEF ks
<1>6. w \in WriterStates /\ w.inq = i
  BY <1>3, <1>4 DEF WriterStates, WriterSteps
<1> HIDE DEF w
<1>7. AppOK'
  BY <1>0, <1>2, <1>5, <1>6, GoneTo, RestIsTyped
<1> QED BY <1>1, <1>2, <1>7, WriterTyped

LEMMA EnterTypes ==
  ASSUME TypeOK, NEW a \in Writers, Enter(a)
  PROVE  TypeOK'
<1> DEFINE i == app[a].inq
<1>0. StoreOK /\ BookOK /\ AppOK /\ app[a].at # "idle" /\ i \in Inquiries
  BY DEF TypeOK, AppOK, Enter
<1>1. /\ UNCHANGED <<store, sheet, poller, up, del>>
      /\ UNCHANGED <<moves, deletes, asks>> /\ mixed' \in BOOLEAN
      /\ faults' \in 0..MaxFaults
  BY DEF Enter, counters, TypeOK, CountersOK
<1>2. StoreOK' /\ lock' \in Writers \cup {Nobody}
  BY <1>0, <1>1, KeptTypes DEF Enter
<1>3. BookOK'
  BY <1>0, WriterHas DEF Enter, BookOK, StoreOK
<1>4. PICK s \in {"find", "legacy"} : Goto(a, [app[a] EXCEPT !.at = s])
  BY DEF Enter
<1>5. [app[a] EXCEPT !.at = s] \in WriterStates
      /\ [app[a] EXCEPT !.at = s].inq = i
  <2>1. s \in WriterSteps
    BY <1>4 DEF WriterSteps
  <2> QED BY <1>0, <2>1, MoveTyped
<1>6. AppOK'
  BY <1>0, <1>2, <1>4, <1>5, GoneTo
<1> QED BY <1>1, <1>2, <1>3, <1>6, WriterTyped

LEMMA NextKeyTyped ==
  ASSUME AppOK, NEW a \in Writers, app[a].at # "idle", NEW k
  PROVE  NextKey(a, k) \in WriterStates /\ NextKey(a, k).inq = app[a].inq
<1>1. app[a] \in WriterStates
  BY DEF AppOK
<1> QED BY <1>1, IdsAreNumbers
  DEF NextKey, WriterStates, WriterSteps, NoKey, Keys, NoRow

LEMMA LegacyTypes ==
  ASSUME TypeOK, NEW a \in Writers, Legacy(a)
  PROVE  TypeOK'
<1> DEFINE i == app[a].inq
<1>0. StoreOK /\ BookOK /\ AppOK /\ app[a].at # "idle" /\ i \in Inquiries
  BY DEF TypeOK, AppOK, Legacy
<1>1. /\ UNCHANGED <<store, book, poller, up, del>>
      /\ UNCHANGED <<moves, deletes, asks>> /\ mixed' \in BOOLEAN
      /\ faults' \in 0..MaxFaults
  BY DEF Legacy, counters, TypeOK, CountersOK
<1>2. StoreOK' /\ BookOK'
  BY <1>0, <1>1, KeptTypes
<1>3. \A k \in app[a].keys : k \in Keys
  BY <1>0, WriterHas DEF Keys
<1>4. PICK k \in app[a].keys :
        \/ Goto(a, NextKey(a, k)) /\ UNCHANGED lock
        \/ /\ Cardinality(RowsWithId(app[a].cid)) = 1
           /\ Goto(a, [app[a] EXCEPT !.at = "give", !.old = k,
                                     !.row = Min(RowsWithId(app[a].cid))])
           /\ UNCHANGED lock
        \/ Leave(a)
  BY DEF Legacy
<1>5. lock \in Writers \cup {Nobody} /\ lock' \in Writers \cup {Nobody}
  BY <1>0, <1>4 DEF Leave, AppOK
<1>6. CASE Goto(a, NextKey(a, k))
  <2>1. AppOK'
    BY <1>0, <1>5, <1>6, NextKeyTyped, GoneTo
  <2> QED BY <2>1, <1>1, <1>2, WriterTyped
<1>7. CASE /\ Cardinality(RowsWithId(app[a].cid)) = 1
           /\ Goto(a, [app[a] EXCEPT !.at = "give", !.old = k,
                                     !.row = Min(RowsWithId(app[a].cid))])
  <2> DEFINE n == Min(RowsWithId(app[a].cid))
  <2>1. n \in Nat
    <3>1. RowsWithId(app[a].cid) \subseteq Nat
      BY <1>0, RowNumbersAreNumbers DEF RowsWithId
    <3>2. RowsWithId(app[a].cid) # {}
      BY <1>7, FS_EmptySet
    <3> QED BY <3>1, <3>2, MinIsMember
  <2> HIDE DEF n
  <2>2. [app[a] EXCEPT !.at = "give", !.old = k, !.row = n] \in WriterStates
        /\ [app[a] EXCEPT !.at = "give", !.old = k, !.row = n].inq = i
    <3>1. app[a] \in WriterStates /\ k \in Keys
      BY <1>0, <1>3, <1>4 DEF AppOK
    <3> QED BY <3>1, <2>1 DEF WriterStates, WriterSteps
  <2>3. AppOK'
    BY <1>0, <1>5, <1>7, <2>2, GoneTo DEF n
  <2> QED BY <2>3, <1>1, <1>2, WriterTyped
<1>8. CASE Leave(a)
  <2>1. AppOK'
    BY <1>0, <1>5, <1>8, GoneTo, RestIsTyped DEF Leave
  <2> QED BY <2>1, <1>1, <1>2, WriterTyped
<1> QED BY <1>4, <1>6, <1>7, <1>8

LEMMA GiveTypes ==
  ASSUME TypeOK, NEW a \in Writers, Give(a)
  PROVE  TypeOK'
<1> DEFINE i == app[a].inq
<1>0. StoreOK /\ BookOK /\ AppOK /\ app[a].at # "idle" /\ i \in Inquiries
  BY DEF TypeOK, AppOK, Give
<1>1. /\ UNCHANGED <<store, registry, lock, poller, up, del>>
      /\ UNCHANGED <<moves, deletes, asks>> /\ mixed' \in BOOLEAN
      /\ faults' \in 0..MaxFaults
  BY MixedTyped DEF Give, counters, TypeOK, CountersOK
<1>2. StoreOK' /\ lock' \in Writers \cup {Nobody}
  BY <1>0, <1>1, KeptTypes DEF AppOK
<1>3. BookOK'
  BY <1>0, <1>1, WriterHas, KeyedRows DEF Give, BookOK
<1>4. AppOK'
  BY <1>0, <1>2, NextKeyTyped, GoneTo DEF Give
<1> QED BY <1>1, <1>2, <1>3, <1>4, WriterTyped

LEMMA FindTypes ==
  ASSUME TypeOK, NEW a \in Writers, Find(a)
  PROVE  TypeOK'
<1> DEFINE i == app[a].inq
<1>0. StoreOK /\ BookOK /\ AppOK /\ app[a].at # "idle" /\ i \in Inquiries
  BY DEF TypeOK, AppOK, Find
<1>1. /\ UNCHANGED <<store, book, lock, poller, up, del>>
      /\ UNCHANGED <<moves, deletes, asks>> /\ mixed' \in BOOLEAN
      /\ faults' \in 0..MaxFaults
  BY DEF Find, counters, TypeOK, CountersOK
<1>2. StoreOK' /\ BookOK' /\ lock' \in Writers \cup {Nobody}
  BY <1>0, <1>1, KeptTypes DEF AppOK
<1> DEFINE n == Min(Written(a))
<1>3. Written(a) # {} => n \in Nat
  <2>1. Written(a) \subseteq Nat
    BY <1>0, RowNumbersAreNumbers DEF Written, RowsWithKey
  <2> QED BY <2>1, MinIsMember
<1>4. \/ Goto(a, [app[a] EXCEPT !.at = "add"])
      \/ /\ Written(a) # {}
         /\ Goto(a, [app[a] EXCEPT !.at = "rewrite", !.row = n])
  BY DEF Find
<1> HIDE DEF n
<1>5. /\ [app[a] EXCEPT !.at = "add"] \in WriterStates
      /\ [app[a] EXCEPT !.at = "add"].inq = i
      /\ n \in Nat =>
           /\ [app[a] EXCEPT !.at = "rewrite", !.row = n] \in WriterStates
           /\ [app[a] EXCEPT !.at = "rewrite", !.row = n].inq = i
  <2>1. "add" \in WriterSteps /\ "rewrite" \in WriterSteps
    BY DEF WriterSteps
  <2> QED BY <1>0, <2>1, MoveTyped, RowInHandTyped
<1>6. AppOK'
  BY <1>0, <1>2, <1>3, <1>4, <1>5, GoneTo
<1> QED BY <1>1, <1>2, <1>6, WriterTyped

LEMMA AnsweredTyped ==
  ASSUME AppOK, NEW a \in Writers, app[a].at # "idle",
         NEW w, w = [Idle EXCEPT !.at = "attach", !.inq = app[a].inq,
                                 !.cid = app[a].cid]
  PROVE  w \in WriterStates /\ w.inq \in Inquiries
<1>1. app[a].inq \in Inquiries /\ app[a].cid \in Ids
  BY WriterHas
<1>2. Idle \in WriterStates
  BY RestIsTyped
<1> QED BY <1>1, <1>2 DEF WriterStates, WriterSteps

LEMMA RowOfTyped ==
  ASSUME AppOK, NEW a \in Writers, app[a].at # "idle"
  PROVE  RowOf(a) \in Rows
<1>1. app[a].inq \in Inquiries /\ app[a].cid \in Ids /\ app[a].key \in Keys
  BY WriterHas
<1> QED BY <1>1 DEF RowOf, Rows

LEMMA RewriteTypes ==
  ASSUME TypeOK, NEW a \in Writers, Rewrite(a)
  PROVE  TypeOK'
<1> DEFINE i == app[a].inq
<1>0. StoreOK /\ BookOK /\ AppOK /\ app[a].at # "idle" /\ i \in Inquiries
  BY DEF TypeOK, AppOK, Rewrite
<1>1. /\ UNCHANGED <<store, registry, poller, up, del>>
      /\ UNCHANGED <<moves, deletes, asks>> /\ mixed' \in BOOLEAN
      /\ faults' \in 0..MaxFaults
  BY MixedTyped DEF Rewrite, counters, TypeOK, CountersOK
<1>2. StoreOK' /\ lock' \in Writers \cup {Nobody}
  BY <1>0, <1>1, KeptTypes DEF Rewrite, Answered
<1>3. BookOK'
  BY <1>0, <1>1, RowOfTyped, ExceptSeq DEF Rewrite, BookOK, RowNumbers
<1>4. AppOK'
  BY <1>0, <1>2, AnsweredTyped, GoneTo DEF Rewrite, Answered
<1> QED BY <1>1, <1>2, <1>3, <1>4, WriterTyped

LEMMA AddTypes ==
  ASSUME TypeOK, NEW a \in Writers, Add(a)
  PROVE  TypeOK'
<1> DEFINE i == app[a].inq
<1>0. StoreOK /\ BookOK /\ AppOK /\ app[a].at # "idle" /\ i \in Inquiries
  BY DEF TypeOK, AppOK, Add
<1>1. /\ UNCHANGED <<store, registry, poller, up, del>>
      /\ UNCHANGED <<moves, deletes, asks>> /\ mixed' \in BOOLEAN
      /\ faults' \in 0..MaxFaults
  BY DEF Add, counters, TypeOK, CountersOK
<1>2. StoreOK' /\ lock' \in Writers \cup {Nobody}
  BY <1>0, <1>1, KeptTypes DEF Add, Answered
<1>3. BookOK'
  BY <1>0, <1>1, RowOfTyped, AppendProperties DEF Add, BookOK
<1>4. AppOK'
  BY <1>0, <1>2, AnsweredTyped, GoneTo DEF Add, Answered
<1> QED BY <1>1, <1>2, <1>3, <1>4, WriterTyped

LEMMA AttachTypes ==
  ASSUME TypeOK, NEW a \in Writers, Attach(a)
  PROVE  TypeOK'
<1> DEFINE i == app[a].inq
<1>0. StoreOK /\ BookOK /\ AppOK /\ app[a].at # "idle" /\ i \in Inquiries
  BY DEF TypeOK, AppOK, Attach
<1>1. /\ UNCHANGED <<book, lock, poller, up, del>>
      /\ UNCHANGED <<moves, deletes, asks>> /\ mixed' \in BOOLEAN
      /\ faults' \in 0..MaxFaults
  BY DEF Attach, counters, TypeOK, CountersOK
<1>2. BookOK' /\ lock' \in Writers \cup {Nobody}
  BY <1>0, <1>1, KeptTypes DEF AppOK
<1>3. AppOK'
  BY <1>0, <1>2, GoneTo, RestIsTyped DEF Attach
<1>4. app[a].cid \in Ids
  BY <1>0 DEF AppOK, WriterStates
<1>5. StoreOK'
  <2>1. CASE UNCHANGED store
    BY <2>1, KeptTypes
  <2>2. CASE ~ UNCHANGED store
    BY <2>2, <1>0, <1>4 DEF Attach, StoreOK
  <2> QED BY <2>1, <2>2
<1> QED BY <1>1, <1>2, <1>3, <1>5, WriterTyped

LEMMA CallFailsTypes ==
  ASSUME TypeOK, NEW a \in Writers, CallFails(a)
  PROVE  TypeOK'
<1> DEFINE i == app[a].inq
<1>0. StoreOK /\ BookOK /\ AppOK /\ app[a].at # "idle" /\ i \in Inquiries
  BY DEF TypeOK, AppOK, CallFails
<1>1. /\ UNCHANGED <<store, registry, poller, up, del>>
      /\ UNCHANGED <<moves, deletes, asks>> /\ mixed' \in BOOLEAN
      /\ faults' \in 0..MaxFaults
  BY BoundsAreNumbers DEF CallFails, counters, TypeOK, CountersOK
<1>2. StoreOK' /\ lock' \in Writers \cup {Nobody}
  BY <1>0, <1>1, KeptTypes DEF CallFails, AppOK
<1>3. BookOK'
  BY <1>0, <1>1, RowOfTyped, AppendProperties DEF CallFails, BookOK
<1>4. AppOK'
  BY <1>0, <1>2, GoneTo, RestIsTyped DEF CallFails, GivenUp
<1> QED BY <1>1, <1>2, <1>3, <1>4, WriterTyped

LEMMA WriterTypes ==
  ASSUME TypeOK, NEW a \in Writers, WriterStep(a)
  PROVE  TypeOK'
  BY ReserveTypes, SuggestTypes, ClaimTypes, ReadRecordTypes, EnterTypes,
     LegacyTypes, GiveTypes, FindTypes, RewriteTypes, AddTypes, AttachTypes
  DEF WriterStep

-----------------------------------------------------------------------------
(* The rows the poller has read.                                           *)

LEMMA SnapTyped ==
  ASSUME PollerOK
  PROVE  /\ \A n \in 1..Len(snap) : snap[n] \in Rows
         /\ SnapRows \subseteq Rows /\ SnapKeys \subseteq Inquiries
         /\ \A r \in Rows : KeyOfRow(r) \in Inquiries
         /\ \A k \in SnapKeys :
              RowInSnap(k) \in 1..Len(snap) /\ IdInSnap(k) \in Ids
<1>1. \A n \in 1..Len(snap) : snap[n] \in Rows
  BY DEF PollerOK
<1>2. \A r \in Rows : KeyOfRow(r) \in Inquiries
  BY DEF Rows, KeyOfRow, Keys
<1>3. ASSUME NEW k \in SnapKeys
      PROVE  RowInSnap(k) \in 1..Len(snap) /\ IdInSnap(k) \in Ids
  <2> DEFINE S == {n \in 1..Len(snap) : KeyOfRow(snap[n]) = k}
  <2>1. S \subseteq Nat /\ S # {}
    BY DEF SnapKeys, SnapRows
  <2>2. Min(S) \in S
    <3> HIDE DEF S
    <3> QED BY <2>1, MinIsMember
  <2>3. RowInSnap(k) \in 1..Len(snap)
    BY <2>2 DEF RowInSnap
  <2> QED BY <1>1, <2>3 DEF IdInSnap, Rows
<1> QED BY <1>1, <1>2, <1>3 DEF SnapRows, SnapKeys

LEMMA ContactTyped ==
  ASSUME StoreOK, PollerOK, NEW k \in Created
  PROVE  ContactFor(k) \in Companies
<1>1. k \in SnapKeys /\ k \in Inquiries /\ company[k] \in Companies
  BY SnapTyped DEF Created, StoreOK
<1>2. HolderOf(IdInSnap(k)) \in Companies
  <2> DEFINE d == IdInSnap(k)
             S == {n \in 1..Len(snap) : snap[n].cid = d}
  <2>1. CASE \E c \in Companies : owned[c] = d
    BY <2>1 DEF HolderOf
  <2>2. CASE ~ \E c \in Companies : owned[c] = d
    <3>1. RowInSnap(k) \in S /\ S \subseteq Nat
      BY <1>1, SnapTyped DEF IdInSnap
    <3>2. Min(S) \in S
      <4> HIDE DEF S
      <4> QED BY <3>1, MinIsMember
    <3>3. KeyOfRow(snap[Min(S)]) \in Inquiries
      BY <3>2, SnapTyped
    <3> QED BY <2>2, <3>3 DEF HolderOf, StoreOK
  <2> QED BY <2>1, <2>2
<1> QED BY <1>1, <1>2 DEF ContactFor

LEMMA ImportTyped ==
  ASSUME StoreOK, PollerOK, ImportRows
  PROVE  StoreOK'
<1>1. company' \in [Inquiries -> Companies]
  BY ContactTyped DEF ImportRows, StoreOK
<1>2. conv' \in [Inquiries -> {"unborn", "ticket", "imported", "gone"}]
      /\ typed' \subseteq Inquiries
  BY DEF ImportRows, StoreOK
<1>3. keyOf' \in [Inquiries -> Keys]
  BY DEF ImportRows, StoreOK, Keys
<1>4. cid' \in [Inquiries -> Ids]
  <2>1. \A i \in Created : IdInSnap(i) \in Ids
    BY SnapTyped DEF Created
  <2> QED BY <2>1 DEF ImportRows, StoreOK
<1>5. attached' \in [Inquiries -> BOOLEAN]
  <2>1. \A i \in Inquiries :
          (attached[i] \/ i \in Created \/ (Alive(i) /\ keyOf[i] \in SnapKeys))
            \in BOOLEAN
    BY DEF StoreOK, Alive
  <2> QED BY <2>1 DEF ImportRows
<1>6. owned' \in [Companies -> Ids]
  <2>1. ASSUME NEW c \in Companies, NewRowsOf(c) # {}
        PROVE  snap[Min(NewRowsOf(c))].cid \in Ids
    <3>1. NewRowsOf(c) \subseteq 1..Len(snap)
      BY SnapTyped DEF NewRowsOf, Created
    <3>2. Min(NewRowsOf(c)) \in NewRowsOf(c)
      BY <3>1, <2>1, MinIsMember
    <3> QED BY <3>1, <3>2, SnapTyped DEF Rows
  <2> QED BY <2>1 DEF ImportRows, StoreOK
<1> QED BY <1>1, <1>2, <1>3, <1>4, <1>5, <1>6 DEF StoreOK

LEMMA PollerTypes ==
  ASSUME TypeOK, PollerStep \/ SnapshotFails
  PROVE  TypeOK'
<1>0. StoreOK /\ BookOK /\ AppOK /\ PollerOK /\ "poller" \in Writers
  BY DEF TypeOK, Writers
<1>1. CASE StartSweep
  <2>1. PollerOK'
    BY <1>0, <1>1 DEF StartSweep, PollerOK, Pending
  <2> QED BY <1>0, <1>1, <2>1, KeptTypes DEF StartSweep, TypeOK
<1>2. CASE TakeNext
  <2>1. PICK i \in todo :
          Goto("poller", [Idle EXCEPT !.at = "reserve", !.inq = i])
    BY <1>2 DEF TakeNext
  <2>2. i \in Inquiries
    BY <1>0, <2>1 DEF PollerOK
  <2>3. [Idle EXCEPT !.at = "reserve", !.inq = i] \in WriterStates
        /\ [Idle EXCEPT !.at = "reserve", !.inq = i].inq = i
    BY <2>2, RestIsTyped DEF WriterStates, WriterSteps
  <2>4. AppOK'
    BY <1>0, <1>2, <2>1, <2>2, <2>3, GoneTo DEF TakeNext, AppOK
  <2>5. PollerOK'
    BY <1>0, <1>2 DEF TakeNext, PollerOK
  <2> QED BY <1>0, <1>2, <2>4, <2>5, KeptTypes DEF TakeNext, TypeOK
<1>3. CASE StartFull
  <2>1. PollerOK'
    BY <1>0, <1>3 DEF StartFull, PollerOK
  <2> QED BY <1>0, <1>3, <2>1, KeptTypes DEF StartFull, TypeOK
<1>4. CASE Snapshot
  <2>1. PollerOK'
    BY <1>0, <1>4 DEF Snapshot, PollerOK, BookOK
  <2> QED BY <1>0, <1>4, <2>1, KeptTypes DEF Snapshot, TypeOK
<1>5. CASE SnapshotFails
  <2>1. PollerOK'
    BY <1>0, <1>5 DEF SnapshotFails, PollerOK, EndedBy
  <2>2. CountersOK'
    BY <1>5, BoundsAreNumbers DEF SnapshotFails, TypeOK, CountersOK
  <2> QED BY <1>0, <1>5, <2>1, <2>2, KeptTypes DEF SnapshotFails, TypeOK
<1>6. CASE Import
  <2>1. StoreOK'
    BY <1>0, <1>6, ImportTyped, KeptTypes DEF Import
  <2>2. PollerOK'
    <3>1. Pending' \subseteq Inquiries /\ <<>> \in Seq(Rows)
      BY DEF Pending
    <3> QED BY <1>0, <1>6, <3>1 DEF Import, PollerOK
  <2>3. CountersOK'
    BY <1>6 DEF Import, TypeOK, CountersOK, counters
  <2> QED BY <1>0, <1>6, <2>1, <2>2, <2>3, KeptTypes DEF Import, TypeOK
<1>7. CASE FinishFull
  <2>1. PollerOK'
    BY <1>0, <1>7 DEF FinishFull, PollerOK, EndedBy
  <2> QED BY <1>0, <1>7, <2>1, KeptTypes DEF FinishFull, TypeOK
<1> QED BY <1>1, <1>2, <1>3, <1>4, <1>5, <1>6, <1>7 DEF PollerStep

LEMMA FoundIsThread ==
  ASSUME NEW t \in ThreadStates, NEW n \in Nat
  PROVE  [t EXCEPT !.at = "write", !.row = n] \in ThreadStates
  BY DEF ThreadStates

LEMMA ThreadTypes ==
  ASSUME TypeOK, ThreadStep
  PROVE  TypeOK'
<1>0. BookOK /\ ThreadsOK
  BY DEF TypeOK
<1>1. CASE FindStageRow
  <2>1. ThreadsOK'
    BY <1>0, <1>1, FoundRow, FoundIsThread, RestIsTyped
    DEF FindStageRow, ThreadsOK
  <2> QED BY <1>1, <2>1, KeptTypes DEF FindStageRow, TypeOK
<1>2. CASE FindDeletedRow
  <2>1. ThreadsOK'
    BY <1>0, <1>2, FoundRow, FoundIsThread, RestIsTyped
    DEF FindDeletedRow, ThreadsOK
  <2> QED BY <1>2, <2>1, KeptTypes DEF FindDeletedRow, TypeOK
<1>3. CASE WriteStage
  <2>1. ThreadsOK' /\ up.row \in Nat /\ up.key \in Keys
    BY <1>0, <1>3, RestIsTyped DEF WriteStage, ThreadsOK, ThreadStates
  <2>2. BookOK'
    BY <1>0, <1>3, <2>1, KeyedRows DEF WriteStage, BookOK
  <2>3. CountersOK'
    BY <1>3, MixedTyped DEF WriteStage, TypeOK, CountersOK, counters
  <2> QED BY <1>3, <2>1, <2>2, <2>3, KeptTypes DEF WriteStage, TypeOK
<1>4. CASE DeleteRow
  <2>1. ThreadsOK'
    BY <1>0, <1>4, RestIsTyped DEF DeleteRow, ThreadsOK
  <2>2. BookOK'
    BY <1>0, <1>4, RowsAfterRemoval DEF DeleteRow, BookOK, RowNumbers
  <2>3. CountersOK'
    BY <1>4, MixedTyped DEF DeleteRow, TypeOK, CountersOK, counters
  <2> QED BY <1>4, <2>1, <2>2, <2>3, KeptTypes DEF DeleteRow, TypeOK
<1> QED BY <1>1, <1>2, <1>3, <1>4 DEF ThreadStep

LEMMA OutsideTypes ==
  ASSUME TypeOK, Outside
  PROVE  TypeOK'
<1>0. StoreOK /\ BookOK /\ AppOK /\ PollerOK /\ ThreadsOK /\ CountersOK
      /\ "worker" \in Writers
  BY DEF TypeOK, Writers
<1>1. ASSUME NEW i \in Inquiries, NEW mirror \in BOOLEAN, Arrive(i, mirror)
      PROVE  TypeOK'
  <2>1. StoreOK'
    BY <1>0, <1>1 DEF Arrive, StoreOK
  <2>2. [Idle EXCEPT !.at = "reserve", !.inq = i] \in WriterStates
        /\ [Idle EXCEPT !.at = "reserve", !.inq = i].inq = i
    BY RestIsTyped DEF WriterStates, WriterSteps
  <2>3. AppOK'
    <3>1. CASE mirror
      BY <3>1, <1>0, <1>1, <2>2, GoneTo DEF Arrive, Goto, AppOK
    <3>2. CASE ~mirror
      BY <3>2, <1>1, KeptTypes DEF Arrive
    <3> QED BY <3>1, <3>2
  <2> QED BY <1>1, <2>1, <2>3, KeptTypes DEF Arrive, TypeOK
<1>2. ASSUME NEW i \in Inquiries, TypeRow(i)
      PROVE  TypeOK'
  <2>1. PICK d \in Ids :
          sheet' = Append(sheet, [key |-> NoKey, cid |-> d, who |-> i])
    BY <1>2, IdsAreNumbers DEF TypeRow, Ids
  <2>2. [key |-> NoKey, cid |-> d, who |-> i] \in Rows
    BY DEF Rows, Keys
  <2>3. BookOK'
    BY <1>0, <1>2, <2>1, <2>2, AppendProperties DEF TypeRow, BookOK
  <2> QED BY <1>2, <2>3, KeptTypes DEF TypeRow, TypeOK
<1>3. ASSUME NEW i \in Inquiries, MoveStage(i)
      PROVE  TypeOK'
  <2>1. ThreadsOK'
    BY <1>0, <1>3 DEF MoveStage, ThreadsOK, ThreadStates, StoreOK, NoRow
  <2>2. CountersOK'
    BY <1>0, <1>3, BoundsAreNumbers DEF MoveStage, CountersOK
  <2> QED BY <1>3, <2>1, <2>2, KeptTypes DEF MoveStage, TypeOK
<1>4. ASSUME NEW i \in Inquiries, Delete(i)
      PROVE  TypeOK'
  <2>1. StoreOK'
    <3>1. conv' \in [Inquiries -> {"unborn", "ticket", "imported", "gone"}]
          /\ attached' \in [Inquiries -> BOOLEAN]
          /\ company' \in [Inquiries -> Companies]
          /\ typed' \subseteq Inquiries
      BY <1>0, <1>4 DEF Delete, StoreOK
    <3>2. keyOf' \in [Inquiries -> Keys]
      BY <1>0, <1>4 DEF Delete, StoreOK, Keys
    <3>3. cid' \in [Inquiries -> Ids] /\ owned' \in [Companies -> Ids]
      BY <1>0, <1>4, IdsAreNumbers DEF Delete, StoreOK
    <3> QED BY <3>1, <3>2, <3>3 DEF StoreOK
  <2>2. ThreadsOK'
    BY <1>0, <1>4, RestIsTyped
    DEF Delete, ThreadsOK, ThreadStates, StoreOK, NoRow
  <2>3. CountersOK'
    BY <1>0, <1>4, BoundsAreNumbers DEF Delete, CountersOK
  <2> QED BY <1>4, <2>1, <2>2, <2>3, KeptTypes DEF Delete, TypeOK
<1>5. CASE Ask
  <2>1. PollerOK' /\ CountersOK'
    BY <1>0, <1>5, BoundsAreNumbers DEF Ask, PollerOK, CountersOK
  <2> QED BY <1>5, <2>1, KeptTypes DEF Ask, TypeOK
<1>6. CASE Restart
  <2>1. AppOK'
    BY <1>0, <1>6, RestIsTyped DEF Restart, AppOK
  <2>2. PollerOK' /\ ThreadsOK'
    <3>1. <<>> \in Seq(Rows)
      OBVIOUS
    <3> QED BY <3>1, <1>0, <1>6, RestIsTyped DEF Restart, PollerOK, ThreadsOK
  <2>3. CountersOK'
    BY <1>0, <1>6, BoundsAreNumbers DEF Restart, CountersOK
  <2> QED BY <1>6, <2>1, <2>2, <2>3, KeptTypes DEF Restart, TypeOK
<1>7. CASE SnapshotFails
  BY <1>7, PollerTypes
<1>8. CASE ThreadFails
  <2>1. ThreadsOK' /\ CountersOK'
    BY <1>0, <1>8, RestIsTyped, BoundsAreNumbers
    DEF ThreadFails, ThreadsOK, CountersOK
  <2> QED BY <1>8, <2>1, KeptTypes DEF ThreadFails, TypeOK
<1>9. ASSUME NEW a \in Writers, CallFails(a)
      PROVE  TypeOK'
  BY <1>9, CallFailsTypes
<1> QED BY <1>1, <1>2, <1>3, <1>4, <1>5, <1>6, <1>7, <1>8, <1>9 DEF Outside

LEMMA InitTypes == Init => TypeOK
<1> SUFFICES ASSUME Init PROVE TypeOK
  OBVIOUS
<1>1. StoreOK
  BY BelongToCompanies, TypedAreInquiries, IdsAreNumbers DEF Init, StoreOK,
     Keys
<1>2. <<>> \in Seq(Rows)
  OBVIOUS
<1>3. BookOK /\ PollerOK
  BY <1>2 DEF Init, BookOK, PollerOK
<1>4. AppOK /\ ThreadsOK
  BY RestIsTyped DEF Init, AppOK, ThreadsOK
<1>5. CountersOK
  <2>1. mixed \in BOOLEAN
    BY DEF Init
  <2>2. moves = 0 /\ deletes = 0 /\ faults = 0 /\ asks = 0
    BY DEF Init
  <2> QED BY <2>1, <2>2, BoundsAreNumbers DEF CountersOK
<1> QED BY <1>1, <1>3, <1>4, <1>5 DEF TypeOK

LEMMA NextTypes ==
  ASSUME TypeOK, [Next]_vars
  PROVE  TypeOK'
<1>1. CASE Next
  BY <1>1, WriterTypes, PollerTypes, ThreadTypes, OutsideTypes DEF Next
<1>2. CASE UNCHANGED vars
  <2>1. /\ UNCHANGED store /\ UNCHANGED book /\ UNCHANGED <<lock, app>>
        /\ UNCHANGED poller /\ UNCHANGED <<up, del>>
        /\ UNCHANGED <<mixed, counters>>
    BY <1>2 DEF vars
  <2> QED BY <2>1, KeptTypes DEF TypeOK
<1> QED BY <1>1, <1>2

(* Every variable keeps its type.                                          *)
THEOREM SheetTyped == Spec => []TypeOK
  BY InitTypes, NextTypes, PTL DEF Spec

-----------------------------------------------------------------------------
(***************************************************************************)
(* The inductive invariant.                                                *)

(* From its append to its end a writer has the record of its inquiry, and  *)
(* for a part of it the lock.                                              *)
Locked == {"legacy", "give", "find", "rewrite", "add"}
Appending == Locked \cup {"append"}
Working == Appending \cup {"attach"}

(* Nobody works on an inquiry that has not arrived.                        *)
BornFirst ==
  /\ \A i \in Inquiries : conv[i] = "unborn" =>
       cid[i] = NoId /\ keyOf[i] = NoKey /\ ~attached[i]
  /\ \A a \in Writers : app[a].at # "idle" => conv[app[a].inq] # "unborn"
  /\ \A i \in todo : conv[i] # "unborn"

(* The key of an inquiry is its own, and whoever has a number has a key.   *)
KeysAreOwn ==
  /\ \A i \in Inquiries :
       keyOf[i] \in {i, NoKey} /\ (cid[i] # NoId => keyOf[i] = i)
  /\ \A a \in Writers :
       /\ app[a].at \in Working \cup {"read"} /\ Alive(app[a].inq)
          => keyOf[app[a].inq] = app[a].inq
       /\ app[a].at \in Appending => app[a].key = app[a].inq
  /\ up.at # "idle" => up.key = up.inq

(* What people type comes in by an import only, which attaches it, and is  *)
(* never appended or deleted.                                              *)
TypedAreImported ==
  /\ \A i \in typed :
       conv[i] = "unborn" \/ (conv[i] = "imported" /\ attached[i])
  /\ \A a \in Writers : app[a].at \in Working => app[a].inq \notin typed
  /\ del.at # "idle" => /\ del.inq \in Inquiries \ typed
                        /\ conv[del.inq] \in {"gone", "imported"}

LockIsHeld == \A a \in Writers : app[a].at \in Locked => lock = a

(* A row carries the key of the inquiry it is about, or a person typed it. *)
OwnKey(r) == r.key = r.who \/ (r.key = NoKey /\ r.who \in typed)

HasRow(i) == \E n \in RowNumbers : sheet[n].who = i

RowsAreOwn ==
  /\ \A n \in RowNumbers : OwnKey(sheet[n])
  /\ \A m, n \in RowNumbers : sheet[m].who = sheet[n].who => m = n

(* Under the lock nobody adds the row that a writer has not found.         *)
AddsWhatIsMissing ==
  \A a \in Writers : app[a].at = "add" => ~HasRow(app[a].inq)

(* A row that was read is still there, unless its ticket was deleted.      *)
RowsStay ==
  /\ \A i \in Inquiries :
       (conv[i] = "ticket" \/ i \in typed) /\ attached[i] => HasRow(i)
  /\ \A a \in Writers :
       app[a].at = "attach" /\ conv[app[a].inq] = "ticket"
       => HasRow(app[a].inq)
  /\ \A n \in 1..Len(snap) :
       /\ OwnKey(snap[n])
       /\ \/ HasRow(snap[n].who)
          \/ /\ conv[snap[n].who] \in {"gone", "imported"}
             /\ snap[n].who \notin typed

(* Until an import has made a conversation of a row, the tickets of a      *)
(* company have its number or none, and no two companies have the same.    *)
NumbersAreOwn ==
  /\ \A c, d \in Companies : owned[c] = owned[d] /\ owned[c] # NoId => c = d
  /\ \A i \in Inquiries :
       conv[i] = "ticket" /\ cid[i] # NoId => cid[i] = owned[company[i]]
  /\ \A a \in Writers :
       /\ app[a].at \in Working \cup {"read"}
       /\ conv[app[a].inq] = "ticket"
       => /\ cid[app[a].inq] # NoId
          /\ app[a].at \in Working => app[a].cid = cid[app[a].inq]

NothingImported == \A i \in Inquiries : conv[i] # "imported"

Inv ==
  /\ TypeOK /\ BornFirst /\ KeysAreOwn /\ TypedAreImported /\ LockIsHeld
  /\ ~mixed => (RowsAreOwn /\ AddsWhatIsMissing /\ RowsStay)
  /\ NothingImported => NumbersAreOwn

(***************************************************************************)
(* What the longer steps do to the writer.                                 *)

LEMMA ReserveEffect ==
  ASSUME TypeOK, NEW a \in Writers, Reserve(a)
  PROVE  /\ app[a].at = "reserve" /\ app[a].inq \in Inquiries
         /\ UNCHANGED <<sheet, lock, todo, snap, up, del, mixed>>
         /\ \E w \in WriterStates :
              /\ app' = [app EXCEPT ![a] = w]
              /\ \/ w.at = "idle" /\ UNCHANGED store
                 \/ w.at = "suggest" /\ w.inq = app[a].inq /\ UNCHANGED store
                 \/ /\ w.at = "read" /\ w.inq = app[a].inq
                    /\ Alive(w.inq) /\ Known(w.inq) \in Ids \ {NoId}
                    /\ Number(w.inq, Known(w.inq))
<1>1. /\ app[a].at = "reserve" /\ app[a].inq \in Inquiries
      /\ app[a] \in WriterStates
  BY DEF Reserve, AppOK, TypeOK
<1>2. UNCHANGED <<sheet, lock, todo, snap, up, del, mixed>>
  BY DEF Reserve, book, poller
<1>3. /\ Idle \in WriterStates /\ Idle.at = "idle"
      /\ \A s \in WriterSteps : /\ [app[a] EXCEPT !.at = s] \in WriterStates
                                /\ [app[a] EXCEPT !.at = s].at = s
                                /\ [app[a] EXCEPT !.at = s].inq = app[a].inq
  BY <1>1, RestIsTyped DEF WriterStates
<1> DEFINE R(w) == /\ app' = [app EXCEPT ![a] = w]
                   /\ \/ w.at = "idle" /\ UNCHANGED store
                      \/ /\ w.at = "suggest" /\ w.inq = app[a].inq
                         /\ UNCHANGED store
                      \/ /\ w.at = "read" /\ w.inq = app[a].inq
                         /\ Alive(w.inq) /\ Known(w.inq) \in Ids \ {NoId}
                         /\ Number(w.inq, Known(w.inq))
<1>4. Known(app[a].inq) \in Ids
  BY <1>1 DEF Known, StoreOK, TypeOK
<1>5. R(Idle) \/ R([app[a] EXCEPT !.at = "suggest"])
              \/ R([app[a] EXCEPT !.at = "read"])
  BY <1>3, <1>4 DEF Reserve, Goto, WriterSteps
<1> QED BY <1>1, <1>2, <1>3, <1>5 DEF WriterSteps

LEMMA ClaimEffect ==
  ASSUME TypeOK, NEW a \in Writers, Claim(a)
  PROVE  /\ app[a].at = "claim" /\ app[a].inq \in Inquiries
         /\ UNCHANGED <<sheet, lock, todo, snap, up, del, mixed>>
         /\ \E w \in WriterStates :
              /\ app' = [app EXCEPT ![a] = w]
              /\ \/ w.at = "idle" /\ UNCHANGED store
                 \/ /\ w.at = "read" /\ w.inq = app[a].inq /\ Alive(w.inq)
                    /\ \E d \in Ids \ {NoId} :
                         /\ Number(w.inq, d)
                         /\ IF owned[company[w.inq]] # NoId
                            THEN d = owned[company[w.inq]]
                            ELSE \A c \in Companies : owned[c] # d
<1>1. /\ app[a].at = "claim" /\ app[a].inq \in Inquiries
      /\ app[a] \in WriterStates
  BY DEF Claim, AppOK, TypeOK
<1>2. UNCHANGED <<sheet, lock, todo, snap, up, del, mixed>>
  BY DEF Claim, book, poller
<1> DEFINE w == [app[a] EXCEPT !.at = "read", !.sug = NoId]
<1>3. w \in WriterStates /\ w.at = "read" /\ w.inq = app[a].inq
  BY <1>1, IdsAreNumbers DEF WriterStates, WriterSteps
<1>4. ASSUME NEW d \in 1..MaxId, NewNumber(d, app[a].sug)
      PROVE  d \in Ids \ {NoId} /\ \A c \in Companies : owned[c] # d
  <2>1. \A c \in Companies : owned[c] < d /\ owned[c] \in Ids
    BY <1>4 DEF NewNumber, IsNext, UsedIds, TypeOK, StoreOK
  <2> QED BY <2>1, IdsAreNumbers DEF Ids, NoId
<1>5. CASE UNCHANGED store /\ Goto(a, Idle)
  BY <1>1, <1>2, <1>5, RestIsTyped DEF Goto
<1>6. CASE /\ Alive(app[a].inq) /\ owned[company[app[a].inq]] # NoId
           /\ Number(app[a].inq, owned[company[app[a].inq]])
           /\ Goto(a, w)
  <2>1. owned[company[app[a].inq]] \in Ids
    BY <1>1 DEF TypeOK, StoreOK
  <2> HIDE DEF w
  <2> QED BY <1>1, <1>2, <1>3, <1>6, <2>1 DEF Goto
<1>7. CASE /\ Alive(app[a].inq) /\ owned[company[app[a].inq]] = NoId
           /\ \E d \in 1..MaxId : /\ NewNumber(d, app[a].sug)
                                  /\ Number(app[a].inq, d)
           /\ Goto(a, w)
  <2> HIDE DEF w
  <2> QED BY <1>1, <1>2, <1>3, <1>4, <1>7 DEF Goto
<1> QED BY <1>5, <1>6, <1>7 DEF Claim

LEMMA ReadRecordEffect ==
  ASSUME TypeOK, NEW a \in Writers, ReadRecord(a)
  PROVE  /\ app[a].at = "read" /\ app[a].inq \in Inquiries
         /\ UNCHANGED <<sheet, lock, todo, snap, up, del, mixed>>
         /\ UNCHANGED store
         /\ \E w \in WriterStates :
              /\ app' = [app EXCEPT ![a] = w]
              /\ \/ w.at = "idle"
                 \/ /\ w.at = "append" /\ w.inq = app[a].inq
                    /\ Alive(w.inq) /\ ~attached[w.inq]
                    /\ w.key = keyOf[w.inq] /\ w.cid = cid[w.inq]
<1> DEFINE i == app[a].inq
           ks == {keyOf[j] : j \in {k \in Inquiries \ {i} :
                    /\ Alive(k) /\ cid[k] = cid[i]
                    /\ attached[k] /\ keyOf[k] # NoKey}}
           w == [app[a] EXCEPT !.at = "append", !.key = keyOf[i],
                               !.cid = cid[i], !.keys = ks]
<1>1. /\ app[a].at = "read" /\ i \in Inquiries /\ app[a] \in WriterStates
      /\ keyOf[i] \in Keys /\ cid[i] \in Ids /\ ks \subseteq Inquiries
  BY DEF ReadRecord, AppOK, StoreOK, TypeOK, Keys
<1>2. UNCHANGED <<sheet, lock, todo, snap, up, del, mixed>> /\ UNCHANGED store
  BY DEF ReadRecord, book, poller
<1>3. Goto(a, Idle) \/ (Alive(i) /\ ~attached[i] /\ Goto(a, w))
  <2>1. CASE Alive(i) /\ ~attached[i]
    BY <2>1, Zenon DEF ReadRecord
  <2>2. CASE ~ (Alive(i) /\ ~attached[i])
    BY <2>2, Zenon DEF ReadRecord
  <2> QED BY <2>1, <2>2
<1> HIDE DEF ks
<1>4. /\ w \in WriterStates /\ w.at = "append" /\ w.inq = i
      /\ w.key = keyOf[i] /\ w.cid = cid[i]
  BY <1>1 DEF WriterStates, WriterSteps
<1> HIDE DEF w, i
<1> QED BY <1>1, <1>2, <1>3, <1>4, RestIsTyped DEF Goto, i

LEMMA LegacyEffect ==
  ASSUME TypeOK, NEW a \in Writers, Legacy(a)
  PROVE  /\ app[a].at = "legacy" /\ app[a].inq \in Inquiries
         /\ UNCHANGED <<sheet, todo, snap, up, del, mixed>> /\ UNCHANGED store
         /\ \E w \in WriterStates :
              /\ app' = [app EXCEPT ![a] = w]
              /\ \/ w.at = "idle" /\ lock' = Nobody
                 \/ /\ w.at \in {"legacy", "give", "find"} /\ lock' = lock
                    /\ w.inq = app[a].inq /\ w.key = app[a].key
                    /\ w.cid = app[a].cid
<1>1. /\ app[a].at = "legacy" /\ app[a].inq \in Inquiries
      /\ app[a] \in WriterStates /\ BookOK
  BY DEF Legacy, AppOK, TypeOK
<1>2. UNCHANGED <<sheet, todo, snap, up, del, mixed>> /\ UNCHANGED store
  BY DEF Legacy, book, poller
<1> DEFINE n == Min(RowsWithId(app[a].cid))
           g(k) == [app[a] EXCEPT !.at = "give", !.old = k, !.row = n]
<1>3. PICK k \in app[a].keys :
        \/ Goto(a, NextKey(a, k)) /\ UNCHANGED lock
        \/ /\ Cardinality(RowsWithId(app[a].cid)) = 1
           /\ Goto(a, g(k)) /\ UNCHANGED lock
        \/ Leave(a)
  BY DEF Legacy
<1>4. k \in Keys
  BY <1>1, <1>3 DEF WriterStates, Keys
<1>5. CASE Goto(a, NextKey(a, k)) /\ UNCHANGED lock
  <2>1. /\ NextKey(a, k) \in WriterStates
        /\ NextKey(a, k).at \in {"legacy", "find"}
        /\ NextKey(a, k).inq = app[a].inq /\ NextKey(a, k).key = app[a].key
        /\ NextKey(a, k).cid = app[a].cid
    BY <1>1, IdsAreNumbers
    DEF NextKey, WriterStates, WriterSteps, NoKey, Keys, NoRow
  <2> QED BY <1>1, <1>2, <1>5, <2>1 DEF Goto
<1>6. CASE /\ Cardinality(RowsWithId(app[a].cid)) = 1
           /\ Goto(a, g(k)) /\ UNCHANGED lock
  <2>1. n \in Nat
    <3>1. RowsWithId(app[a].cid) \subseteq Nat
      BY <1>1, RowNumbersAreNumbers DEF RowsWithId
    <3>2. RowsWithId(app[a].cid) # {}
      BY <1>6, FS_EmptySet
    <3> QED BY <3>1, <3>2, MinIsMember
  <2> HIDE DEF n
  <2>2. /\ g(k) \in WriterStates /\ g(k).at = "give" /\ g(k).inq = app[a].inq
        /\ g(k).key = app[a].key /\ g(k).cid = app[a].cid
    BY <1>1, <1>4, <2>1 DEF WriterStates, WriterSteps
  <2> HIDE DEF g
  <2> QED BY <1>1, <1>2, <1>6, <2>2 DEF Goto
<1>7. CASE Leave(a)
  BY <1>1, <1>2, <1>7, RestIsTyped DEF Leave, Goto
<1> HIDE DEF g
<1> QED BY <1>3, <1>5, <1>6, <1>7

LEMMA FindEffect ==
  ASSUME TypeOK, NEW a \in Writers, Find(a)
  PROVE  /\ app[a].at = "find" /\ app[a].inq \in Inquiries
         /\ UNCHANGED <<sheet, lock, todo, snap, up, del, mixed>>
         /\ UNCHANGED store
         /\ \E w \in WriterStates :
              /\ app' = [app EXCEPT ![a] = w]
              /\ w.inq = app[a].inq /\ w.key = app[a].key /\ w.cid = app[a].cid
              /\ \/ w.at = "add" /\ Written(a) = {}
                 \/ w.at = "rewrite"
<1>1. /\ app[a].at = "find" /\ app[a].inq \in Inquiries
      /\ app[a] \in WriterStates /\ BookOK
  BY DEF Find, AppOK, TypeOK
<1>2. /\ UNCHANGED <<sheet, lock, todo, snap, up, del, mixed>>
      /\ UNCHANGED store
  BY DEF Find, book, poller
<1>3. CASE Written(a) = {}
  <2> DEFINE w == [app[a] EXCEPT !.at = "add"]
  <2>1. Goto(a, w)
    BY <1>3 DEF Find
  <2>2. /\ w \in WriterStates /\ w.at = "add" /\ w.inq = app[a].inq
        /\ w.key = app[a].key /\ w.cid = app[a].cid
    BY <1>1 DEF WriterStates, WriterSteps
  <2> HIDE DEF w
  <2> QED BY <1>1, <1>2, <1>3, <2>1, <2>2 DEF Goto
<1>4. CASE Written(a) # {}
  <2> DEFINE n == Min(Written(a))
             w == [app[a] EXCEPT !.at = "rewrite", !.row = n]
  <2>1. n \in Nat
    <3>1. Written(a) \subseteq Nat
      BY <1>1, RowNumbersAreNumbers DEF Written, RowsWithKey
    <3> QED BY <3>1, <1>4, MinIsMember
  <2>2. Goto(a, w)
    BY <1>4 DEF Find
  <2> HIDE DEF n
  <2>3. /\ w \in WriterStates /\ w.at = "rewrite" /\ w.inq = app[a].inq
        /\ w.key = app[a].key /\ w.cid = app[a].cid
    BY <1>1, <2>1 DEF WriterStates, WriterSteps
  <2> HIDE DEF w
  <2> QED BY <1>1, <1>2, <2>2, <2>3 DEF Goto
<1> QED BY <1>3, <1>4


LEMMA BornFirstKept ==
  BornFirst /\ UNCHANGED <<conv, cid, keyOf, attached, app, todo>>
  => BornFirst'
  BY DEF BornFirst, store, book, poller, counters, StoreOK, AppOK,
     WriterStates, Alive

LEMMA BornFirstStep ==
  ASSUME Inv, Next
  PROVE  BornFirst'
<1>0. TypeOK /\ BornFirst /\ StoreOK /\ AppOK /\ PollerOK
  BY NobodyIsNoWriter DEF Inv, TypeOK
<1>1. ASSUME NEW a \in Writers, Reserve(a) PROVE BornFirst'
  BY <1>0, <1>1, ReserveEffect DEF BornFirst, store, StoreOK, AppOK,
     WriterStates, Alive, Number
<1>2. ASSUME NEW a \in Writers, Suggest(a) PROVE BornFirst'
  BY <1>0, <1>2 DEF Suggest, Goto, BornFirst, store, book, poller, counters,
     StoreOK, AppOK, WriterStates, Alive
<1>3. ASSUME NEW a \in Writers, Claim(a) PROVE BornFirst'
  BY <1>0, <1>3, ClaimEffect DEF BornFirst, store, StoreOK, AppOK,
     WriterStates, Alive, Number
<1>4. ASSUME NEW a \in Writers, ReadRecord(a) PROVE BornFirst'
  BY <1>0, <1>4, ReadRecordEffect DEF BornFirst, store, StoreOK, AppOK,
     WriterStates, Alive
<1>5. ASSUME NEW a \in Writers, Enter(a) PROVE BornFirst'
  BY <1>0, <1>5 DEF Enter, Goto, BornFirst, store, book, poller, counters,
     StoreOK, AppOK, WriterStates, Alive
<1>6. ASSUME NEW a \in Writers, Legacy(a) PROVE BornFirst'
  BY <1>0, <1>6, LegacyEffect DEF BornFirst, store, StoreOK, AppOK,
     WriterStates, Alive
<1>7. ASSUME NEW a \in Writers, Give(a) PROVE BornFirst'
  BY <1>0, <1>7 DEF Give, Goto, NextKey, BornFirst, store, book, poller,
     counters, StoreOK, AppOK, WriterStates, Alive
<1>8. ASSUME NEW a \in Writers, Find(a) PROVE BornFirst'
  BY <1>0, <1>8, FindEffect DEF BornFirst, store, StoreOK, AppOK,
     WriterStates, Alive
<1>9. ASSUME NEW a \in Writers, Rewrite(a) PROVE BornFirst'
  BY <1>0, <1>9 DEF Rewrite, Answered, Goto, Idle, BornFirst, store, book,
     poller, counters, StoreOK, AppOK, WriterStates, Alive
<1>10. ASSUME NEW a \in Writers, Add(a) PROVE BornFirst'
  BY <1>0, <1>10 DEF Add, Answered, Goto, Idle, BornFirst, store, book,
     poller, counters, StoreOK, AppOK, WriterStates, Alive
<1>11. ASSUME NEW a \in Writers, Attach(a) PROVE BornFirst'
  BY <1>0, <1>11 DEF Attach, Goto, Idle, BornFirst, store, book, poller,
     counters, StoreOK, AppOK, WriterStates, Alive
<1>12. ASSUME NEW a \in Writers, CallFails(a) PROVE BornFirst'
  BY <1>0, <1>12 DEF CallFails, Goto, GivenUp, Idle, BornFirst, store, book,
     poller, counters, StoreOK, AppOK, WriterStates, Alive
<1>13. ASSUME NEW i \in Inquiries, NEW m \in BOOLEAN, Arrive(i, m)
      PROVE  BornFirst'
  BY <1>0, <1>13 DEF Arrive, Idle, BornFirst, store, book, poller, counters,
     StoreOK, AppOK, WriterStates, Alive
<1>14. ASSUME NEW i \in Inquiries, Delete(i) PROVE BornFirst'
  BY <1>0, <1>14 DEF Delete, Still, BornFirst, store, book, poller, counters,
     StoreOK, AppOK, WriterStates, Alive
<1>15. ASSUME NEW i \in Inquiries,
             TypeRow(i) \/ MoveStage(i)
      PROVE  BornFirst'
  BY <1>0, <1>15, BornFirstKept
  DEF TypeRow, MoveStage, store, book, poller, counters
<1>16. CASE StartSweep
  BY <1>0, <1>16 DEF StartSweep, Pending, BornFirst, store, book, poller,
     counters, StoreOK, AppOK, WriterStates, Alive, PollerOK
<1>17. CASE TakeNext
  BY <1>0, <1>17 DEF TakeNext, Goto, Idle, BornFirst, store, book, poller,
     counters, StoreOK, AppOK, WriterStates, Alive
<1>18. CASE Import
  BY <1>0, <1>18 DEF Import, ImportRows, BornFirst, store, book, poller,
     counters, StoreOK, AppOK, WriterStates, Alive, Pending
<1>19. CASE Restart
  BY <1>0, <1>19 DEF Restart, Idle, Still, BornFirst, store, book, poller,
     counters, StoreOK, AppOK, WriterStates, Alive
<1>20. CASE \/ StartFull \/ Snapshot \/ FinishFull \/ SnapshotFails
            \/ FindStageRow \/ WriteStage \/ FindDeletedRow \/ DeleteRow \/ Ask
            \/ ThreadFails
  BY <1>0, <1>20, BornFirstKept
  DEF StartFull, Snapshot, FinishFull, SnapshotFails, FindStageRow,
     WriteStage, FindDeletedRow, DeleteRow, Ask, ThreadFails, store, book,
     poller, counters
<1> QED BY <1>1, <1>2, <1>3, <1>4, <1>5, <1>6, <1>7, <1>8, <1>9, <1>10, <1>11,
     <1>12, <1>13, <1>14, <1>15, <1>16, <1>17, <1>18, <1>19, <1>20
  DEF Next, WriterStep, PollerStep, ThreadStep, Outside

LEMMA LockIsHeldKept ==
  LockIsHeld /\ UNCHANGED <<lock, app>> => LockIsHeld'
  BY DEF LockIsHeld, store, book, poller, counters, AppOK, WriterStates, Locked

LEMMA LockIsHeldStep ==
  ASSUME Inv, Next
  PROVE  LockIsHeld'
<1>0. TypeOK /\ LockIsHeld /\ AppOK /\ Nobody \notin Writers
  BY NobodyIsNoWriter DEF Inv, TypeOK
<1>1. ASSUME NEW a \in Writers, Reserve(a) PROVE LockIsHeld'
  BY <1>0, <1>1, ReserveEffect DEF LockIsHeld, store, AppOK, WriterStates,
     Locked, Number
<1>2. ASSUME NEW a \in Writers, Suggest(a) PROVE LockIsHeld'
  BY <1>0, <1>2 DEF Suggest, Goto, LockIsHeld, store, book, poller, counters,
     AppOK, WriterStates, Locked
<1>3. ASSUME NEW a \in Writers, Claim(a) PROVE LockIsHeld'
  BY <1>0, <1>3, ClaimEffect DEF LockIsHeld, store, AppOK, WriterStates,
     Locked, Number
<1>4. ASSUME NEW a \in Writers, ReadRecord(a) PROVE LockIsHeld'
  BY <1>0, <1>4, ReadRecordEffect DEF LockIsHeld, store, AppOK, WriterStates,
     Locked
<1>5. ASSUME NEW a \in Writers, Enter(a) PROVE LockIsHeld'
  BY <1>0, <1>5 DEF Enter, Goto, LockIsHeld, store, book, poller, counters,
     AppOK, WriterStates, Locked
<1>6. ASSUME NEW a \in Writers, Legacy(a) PROVE LockIsHeld'
  BY <1>0, <1>6, LegacyEffect DEF LockIsHeld, store, AppOK, WriterStates,
     Locked
<1>7. ASSUME NEW a \in Writers, Give(a) PROVE LockIsHeld'
  BY <1>0, <1>7 DEF Give, Goto, NextKey, LockIsHeld, store, book, poller,
     counters, AppOK, WriterStates, Locked
<1>8. ASSUME NEW a \in Writers, Find(a) PROVE LockIsHeld'
  BY <1>0, <1>8, FindEffect DEF LockIsHeld, store, AppOK, WriterStates, Locked
<1>9. ASSUME NEW a \in Writers, Rewrite(a) PROVE LockIsHeld'
  BY <1>0, <1>9 DEF Rewrite, Answered, Goto, Idle, LockIsHeld, store, book,
     poller, counters, AppOK, WriterStates, Locked
<1>10. ASSUME NEW a \in Writers, Add(a) PROVE LockIsHeld'
  BY <1>0, <1>10 DEF Add, Answered, Goto, Idle, LockIsHeld, store, book,
     poller, counters, AppOK, WriterStates, Locked
<1>11. ASSUME NEW a \in Writers, Attach(a) PROVE LockIsHeld'
  BY <1>0, <1>11 DEF Attach, Goto, Idle, LockIsHeld, store, book, poller,
     counters, AppOK, WriterStates, Locked
<1>12. ASSUME NEW a \in Writers, CallFails(a) PROVE LockIsHeld'
  BY <1>0, <1>12 DEF CallFails, Goto, GivenUp, Idle, LockIsHeld, store, book,
     poller, counters, AppOK, WriterStates, Locked
<1>13. ASSUME NEW i \in Inquiries, NEW m \in BOOLEAN, Arrive(i, m)
      PROVE  LockIsHeld'
  BY <1>0, <1>13 DEF Arrive, Idle, LockIsHeld, store, book, poller, counters,
     AppOK, WriterStates, Locked
<1>14. ASSUME NEW i \in Inquiries,
             TypeRow(i) \/ MoveStage(i) \/ Delete(i)
      PROVE  LockIsHeld'
  BY <1>0, <1>14, LockIsHeldKept
  DEF TypeRow, MoveStage, Delete, store, book, poller, counters
<1>15. CASE TakeNext
  BY <1>0, <1>15 DEF TakeNext, Goto, Idle, LockIsHeld, store, book, poller,
     counters, AppOK, WriterStates, Locked
<1>16. CASE Restart
  BY <1>0, <1>16 DEF Restart, Idle, Still, LockIsHeld, store, book, poller,
     counters, AppOK, WriterStates, Locked
<1>17. CASE \/ StartSweep \/ StartFull \/ Snapshot \/ Import \/ FinishFull
            \/ SnapshotFails \/ FindStageRow \/ WriteStage \/ FindDeletedRow
            \/ DeleteRow \/ Ask \/ ThreadFails
  BY <1>0, <1>17, LockIsHeldKept
  DEF StartSweep, StartFull, Snapshot, Import, FinishFull, SnapshotFails,
     FindStageRow, WriteStage, FindDeletedRow, DeleteRow, Ask, ThreadFails,
     store, book, poller, counters
<1> QED BY <1>1, <1>2, <1>3, <1>4, <1>5, <1>6, <1>7, <1>8, <1>9, <1>10, <1>11,
     <1>12, <1>13, <1>14, <1>15, <1>16, <1>17
  DEF Next, WriterStep, PollerStep, ThreadStep, Outside

LEMMA TypedAreImportedKept ==
  TypedAreImported /\ UNCHANGED <<typed, conv, attached, app, del>>
  => TypedAreImported'
  BY DEF TypedAreImported, store, book, poller, counters, StoreOK, AppOK,
     ThreadsOK, ThreadStates, WriterStates, Alive, Locked, Appending, Working

LEMMA TypedAreImportedStep ==
  ASSUME Inv, Next
  PROVE  TypedAreImported'
<1>0. /\ TypeOK /\ TypedAreImported /\ BornFirst
      /\ StoreOK /\ AppOK /\ PollerOK /\ ThreadsOK
  BY NobodyIsNoWriter DEF Inv, TypeOK
<1>1. ASSUME NEW a \in Writers, Reserve(a) PROVE TypedAreImported'
  <2>1. PICK w \in WriterStates :
          /\ app' = [app EXCEPT ![a] = w]
          /\ w.at \in {"idle", "suggest", "read"} /\ del' = del
          /\ typed' = typed /\ conv' = conv /\ attached' = attached
    BY <1>0, <1>1, ReserveEffect DEF Number, store
  <2> QED BY <1>0, <2>1
      DEF TypedAreImported, AppOK, Working, Appending, Locked
<1>2. ASSUME NEW a \in Writers, Suggest(a) PROVE TypedAreImported'
  BY <1>0, <1>2 DEF Suggest, Goto, TypedAreImported, store, book, poller,
     counters, StoreOK, AppOK, ThreadsOK, ThreadStates, WriterStates, Alive,
     Locked, Appending, Working
<1>3. ASSUME NEW a \in Writers, Claim(a) PROVE TypedAreImported'
  BY <1>0, <1>3, ClaimEffect DEF TypedAreImported, store, StoreOK, AppOK,
     ThreadsOK, ThreadStates, WriterStates, Alive, Locked, Appending, Working,
     Number
<1>4. ASSUME NEW a \in Writers, ReadRecord(a) PROVE TypedAreImported'
  BY <1>0, <1>4, ReadRecordEffect DEF TypedAreImported, store, StoreOK, AppOK,
     ThreadsOK, ThreadStates, WriterStates, Alive, Locked, Appending, Working
<1>5. ASSUME NEW a \in Writers, Enter(a) PROVE TypedAreImported'
  BY <1>0, <1>5 DEF Enter, Goto, TypedAreImported, store, book, poller,
     counters, StoreOK, AppOK, ThreadsOK, ThreadStates, WriterStates, Alive,
     Locked, Appending, Working
<1>6. ASSUME NEW a \in Writers, Legacy(a) PROVE TypedAreImported'
  BY <1>0, <1>6, LegacyEffect DEF TypedAreImported, store, StoreOK, AppOK,
     ThreadsOK, ThreadStates, WriterStates, Alive, Locked, Appending, Working
<1>7. ASSUME NEW a \in Writers, Give(a) PROVE TypedAreImported'
  BY <1>0, <1>7 DEF Give, Goto, NextKey, TypedAreImported, store, book,
     poller, counters, StoreOK, AppOK, ThreadsOK, ThreadStates, WriterStates,
     Alive, Locked, Appending, Working
<1>8. ASSUME NEW a \in Writers, Find(a) PROVE TypedAreImported'
  BY <1>0, <1>8, FindEffect DEF TypedAreImported, store, StoreOK, AppOK,
     ThreadsOK, ThreadStates, WriterStates, Alive, Locked, Appending, Working
<1>9. ASSUME NEW a \in Writers, Rewrite(a) PROVE TypedAreImported'
  BY <1>0, <1>9 DEF Rewrite, Answered, Goto, Idle, TypedAreImported, store,
     book, poller, counters, StoreOK, AppOK, ThreadsOK, ThreadStates,
     WriterStates, Alive, Locked, Appending, Working
<1>10. ASSUME NEW a \in Writers, Add(a) PROVE TypedAreImported'
  BY <1>0, <1>10 DEF Add, Answered, Goto, Idle, TypedAreImported, store, book,
     poller, counters, StoreOK, AppOK, ThreadsOK, ThreadStates, WriterStates,
     Alive, Locked, Appending, Working
<1>11. ASSUME NEW a \in Writers, Attach(a) PROVE TypedAreImported'
  BY <1>0, <1>11 DEF Attach, Goto, Idle, TypedAreImported, store, book,
     poller, counters, StoreOK, AppOK, ThreadsOK, ThreadStates, WriterStates,
     Alive, Locked, Appending, Working
<1>12. ASSUME NEW a \in Writers, CallFails(a) PROVE TypedAreImported'
  BY <1>0, <1>12 DEF CallFails, Goto, GivenUp, Idle, TypedAreImported, store,
     book, poller, counters, StoreOK, AppOK, ThreadsOK, ThreadStates,
     WriterStates, Alive, Locked, Appending, Working
<1>13. ASSUME NEW i \in Inquiries, NEW m \in BOOLEAN, Arrive(i, m)
      PROVE  TypedAreImported'
  BY <1>0, <1>13 DEF Arrive, Idle, TypedAreImported, store, book, poller,
     counters, StoreOK, AppOK, ThreadsOK, ThreadStates, WriterStates, Alive,
     Locked, Appending, Working
<1>14. ASSUME NEW i \in Inquiries, Delete(i) PROVE TypedAreImported'
  BY <1>0, <1>14 DEF Delete, Still, TypedAreImported, store, book, poller,
     counters, StoreOK, AppOK, ThreadsOK, ThreadStates, WriterStates, Alive,
     Locked, Appending, Working
<1>15. ASSUME NEW i \in Inquiries,
             TypeRow(i) \/ MoveStage(i)
      PROVE  TypedAreImported'
  BY <1>0, <1>15, TypedAreImportedKept
  DEF TypeRow, MoveStage, store, book, poller, counters
<1>16. CASE TakeNext
  BY <1>0, <1>16 DEF TakeNext, Goto, Idle, TypedAreImported, store, book,
     poller, counters, StoreOK, AppOK, ThreadsOK, ThreadStates, WriterStates,
     Alive, Locked, Appending, Working
<1>17. CASE Import
  BY <1>0, <1>17 DEF Import, ImportRows, TypedAreImported, store, book,
     poller, counters, StoreOK, AppOK, ThreadsOK, ThreadStates, WriterStates,
     Alive, Locked, Appending, Working, Created
<1>18. CASE FindDeletedRow
  BY <1>0, <1>18 DEF FindDeletedRow, Still, TypedAreImported, store, book,
     poller, counters, StoreOK, AppOK, ThreadsOK, ThreadStates, WriterStates,
     Alive, Locked, Appending, Working
<1>19. CASE DeleteRow
  BY <1>0, <1>19 DEF DeleteRow, Still, TypedAreImported, store, book, poller,
     counters, StoreOK, AppOK, ThreadsOK, ThreadStates, WriterStates, Alive,
     Locked, Appending, Working
<1>20. CASE ThreadFails
  BY <1>0, <1>20 DEF ThreadFails, Still, TypedAreImported, store, book,
     poller, counters, StoreOK, AppOK, ThreadsOK, ThreadStates, WriterStates,
     Alive, Locked, Appending, Working
<1>21. CASE Restart
  BY <1>0, <1>21 DEF Restart, Idle, Still, TypedAreImported, store, book,
     poller, counters, StoreOK, AppOK, ThreadsOK, ThreadStates, WriterStates,
     Alive, Locked, Appending, Working
<1>22. CASE \/ StartSweep \/ StartFull \/ Snapshot \/ FinishFull
            \/ SnapshotFails \/ FindStageRow \/ WriteStage \/ Ask
  BY <1>0, <1>22, TypedAreImportedKept
  DEF StartSweep, StartFull, Snapshot, FinishFull, SnapshotFails,
     FindStageRow, WriteStage, Ask, store, book, poller, counters
<1> QED BY <1>1, <1>2, <1>3, <1>4, <1>5, <1>6, <1>7, <1>8, <1>9, <1>10, <1>11,
     <1>12, <1>13, <1>14, <1>15, <1>16, <1>17, <1>18, <1>19, <1>20, <1>21,
     <1>22
  DEF Next, WriterStep, PollerStep, ThreadStep, Outside

LEMMA KeysAreOwnKept ==
  KeysAreOwn /\ UNCHANGED <<keyOf, cid, conv, app, up>> => KeysAreOwn'
  BY DEF KeysAreOwn, store, book, poller, counters, StoreOK, AppOK, ThreadsOK,
     ThreadStates, WriterStates, Alive, Locked, Appending, Working, NoKey

LEMMA KeysAreOwnStep ==
  ASSUME Inv, Next
  PROVE  KeysAreOwn'
<1>0. /\ TypeOK /\ KeysAreOwn /\ BornFirst
      /\ StoreOK /\ AppOK /\ PollerOK /\ ThreadsOK
  BY NobodyIsNoWriter DEF Inv, TypeOK
<1>1. ASSUME NEW a \in Writers, Reserve(a) PROVE KeysAreOwn'
  BY <1>0, <1>1, ReserveEffect DEF KeysAreOwn, store, StoreOK, AppOK,
     ThreadsOK, ThreadStates, WriterStates, Alive, Locked, Appending, Working,
     NoKey, Number
<1>2. ASSUME NEW a \in Writers, Suggest(a) PROVE KeysAreOwn'
  BY <1>0, <1>2 DEF Suggest, Goto, KeysAreOwn, store, book, poller, counters,
     StoreOK, AppOK, ThreadsOK, ThreadStates, WriterStates, Alive, Locked,
     Appending, Working, NoKey
<1>3. ASSUME NEW a \in Writers, Claim(a) PROVE KeysAreOwn'
  BY <1>0, <1>3, ClaimEffect DEF KeysAreOwn, store, StoreOK, AppOK, ThreadsOK,
     ThreadStates, WriterStates, Alive, Locked, Appending, Working, NoKey,
     Number
<1>4. ASSUME NEW a \in Writers, ReadRecord(a) PROVE KeysAreOwn'
  <2>1. PICK w \in WriterStates :
          /\ app' = [app EXCEPT ![a] = w]
          /\ \/ w.at = "idle"
             \/ /\ w.at = "append" /\ w.inq = app[a].inq
                /\ Alive(w.inq) /\ w.key = keyOf[w.inq]
    BY <1>0, <1>4, ReadRecordEffect
  <2>2. /\ UNCHANGED store /\ UNCHANGED up
        /\ app[a].at = "read" /\ app[a].inq \in Inquiries
    BY <1>0, <1>4, ReadRecordEffect
  <2>3. /\ \A b \in Writers : b # a => app'[b] = app[b]
        /\ app'[a] = w
    BY <1>0, <2>1 DEF AppOK
  <2>4. ASSUME NEW b \in Writers
        PROVE  (/\ app[b].at \in Working \cup {"read"} /\ Alive(app[b].inq)
                   => keyOf[app[b].inq] = app[b].inq
                /\ app[b].at \in Appending => app[b].key = app[b].inq)'
    <3>1. CASE b = a /\ w.at = "idle"
      BY <3>1, <2>3 DEF Appending, Working, Locked
    <3>2. CASE b = a /\ w.at = "append"
      <4>1. keyOf[w.inq] = w.inq
        BY <3>2, <1>0, <2>1, <2>2 DEF KeysAreOwn
      <4> QED BY <3>2, <4>1, <2>1, <2>2, <2>3 DEF store
    <3>3. CASE b # a
      BY <3>3, <1>0, <2>2, <2>3 DEF KeysAreOwn, store, Alive
    <3> QED BY <3>1, <3>2, <3>3, <2>1
  <2> QED BY <1>0, <2>2, <2>4 DEF KeysAreOwn, store
<1>5. ASSUME NEW a \in Writers, Enter(a) PROVE KeysAreOwn'
  BY <1>0, <1>5 DEF Enter, Goto, KeysAreOwn, store, book, poller, counters,
     StoreOK, AppOK, ThreadsOK, ThreadStates, WriterStates, Alive, Locked,
     Appending, Working, NoKey
<1>6. ASSUME NEW a \in Writers, Legacy(a) PROVE KeysAreOwn'
  BY <1>0, <1>6, LegacyEffect DEF KeysAreOwn, store, StoreOK, AppOK,
     ThreadsOK, ThreadStates, WriterStates, Alive, Locked, Appending, Working,
     NoKey
<1>7. ASSUME NEW a \in Writers, Give(a) PROVE KeysAreOwn'
  BY <1>0, <1>7 DEF Give, Goto, NextKey, KeysAreOwn, store, book, poller,
     counters, StoreOK, AppOK, ThreadsOK, ThreadStates, WriterStates, Alive,
     Locked, Appending, Working, NoKey
<1>8. ASSUME NEW a \in Writers, Find(a) PROVE KeysAreOwn'
  BY <1>0, <1>8, FindEffect DEF KeysAreOwn, store, StoreOK, AppOK, ThreadsOK,
     ThreadStates, WriterStates, Alive, Locked, Appending, Working, NoKey
<1>9. ASSUME NEW a \in Writers, Rewrite(a) PROVE KeysAreOwn'
  BY <1>0, <1>9 DEF Rewrite, Answered, Goto, Idle, KeysAreOwn, store, book,
     poller, counters, StoreOK, AppOK, ThreadsOK, ThreadStates, WriterStates,
     Alive, Locked, Appending, Working, NoKey
<1>10. ASSUME NEW a \in Writers, Add(a) PROVE KeysAreOwn'
  BY <1>0, <1>10 DEF Add, Answered, Goto, Idle, KeysAreOwn, store, book,
     poller, counters, StoreOK, AppOK, ThreadsOK, ThreadStates, WriterStates,
     Alive, Locked, Appending, Working, NoKey
<1>11. ASSUME NEW a \in Writers, Attach(a) PROVE KeysAreOwn'
  BY <1>0, <1>11 DEF Attach, Goto, Idle, KeysAreOwn, store, book, poller,
     counters, StoreOK, AppOK, ThreadsOK, ThreadStates, WriterStates, Alive,
     Locked, Appending, Working, NoKey
<1>12. ASSUME NEW a \in Writers, CallFails(a) PROVE KeysAreOwn'
  BY <1>0, <1>12 DEF CallFails, Goto, GivenUp, Idle, KeysAreOwn, store, book,
     poller, counters, StoreOK, AppOK, ThreadsOK, ThreadStates, WriterStates,
     Alive, Locked, Appending, Working, NoKey
<1>13. ASSUME NEW i \in Inquiries, NEW m \in BOOLEAN, Arrive(i, m)
      PROVE  KeysAreOwn'
  BY <1>0, <1>13 DEF Arrive, Idle, KeysAreOwn, store, book, poller, counters,
     StoreOK, AppOK, ThreadsOK, ThreadStates, WriterStates, Alive, Locked,
     Appending, Working, NoKey, BornFirst
<1>14. ASSUME NEW i \in Inquiries, MoveStage(i) PROVE KeysAreOwn'
  BY <1>0, <1>14 DEF MoveStage, KeysAreOwn, store, book, poller, counters,
     StoreOK, AppOK, ThreadsOK, ThreadStates, WriterStates, Alive, Locked,
     Appending, Working, NoKey
<1>15. ASSUME NEW i \in Inquiries, Delete(i) PROVE KeysAreOwn'
  BY <1>0, <1>15 DEF Delete, Still, KeysAreOwn, store, book, poller, counters,
     StoreOK, AppOK, ThreadsOK, ThreadStates, WriterStates, Alive, Locked,
     Appending, Working, NoKey
<1>16. ASSUME NEW i \in Inquiries,
             TypeRow(i)
      PROVE  KeysAreOwn'
  BY <1>0, <1>16, KeysAreOwnKept
  DEF TypeRow, store, book, poller, counters
<1>17. CASE TakeNext
  BY <1>0, <1>17 DEF TakeNext, Goto, Idle, KeysAreOwn, store, book, poller,
     counters, StoreOK, AppOK, ThreadsOK, ThreadStates, WriterStates, Alive,
     Locked, Appending, Working, NoKey
<1>18. CASE Import
  <2>1. CASE UNCHANGED store
    BY <1>0, <1>18, <2>1, KeysAreOwnKept DEF Import, store
  <2>2. CASE ImportRows
    <3>1. \A i \in Inquiries :
            /\ i \in Created => keyOf'[i] = i
            /\ i \notin Created => /\ keyOf'[i] = keyOf[i] /\ cid'[i] = cid[i]
                                  /\ conv'[i] = conv[i]
      BY <2>2 DEF ImportRows
    <3>2. app' = app /\ up' = up
      BY <1>18 DEF Import
    <3> QED BY <1>0, <3>1, <3>2
        DEF KeysAreOwn, AppOK, Alive, Working, Appending, Locked
  <2> QED BY <1>18, <2>1, <2>2 DEF Import
<1>19. CASE FindStageRow
  BY <1>0, <1>19 DEF FindStageRow, Still, KeysAreOwn, store, book, poller,
     counters, StoreOK, AppOK, ThreadsOK, ThreadStates, WriterStates, Alive,
     Locked, Appending, Working, NoKey
<1>20. CASE WriteStage
  BY <1>0, <1>20 DEF WriteStage, Still, KeysAreOwn, store, book, poller,
     counters, StoreOK, AppOK, ThreadsOK, ThreadStates, WriterStates, Alive,
     Locked, Appending, Working, NoKey
<1>21. CASE ThreadFails
  BY <1>0, <1>21 DEF ThreadFails, Still, KeysAreOwn, store, book, poller,
     counters, StoreOK, AppOK, ThreadsOK, ThreadStates, WriterStates, Alive,
     Locked, Appending, Working, NoKey
<1>22. CASE Restart
  BY <1>0, <1>22 DEF Restart, Idle, Still, KeysAreOwn, store, book, poller,
     counters, StoreOK, AppOK, ThreadsOK, ThreadStates, WriterStates, Alive,
     Locked, Appending, Working, NoKey
<1>23. CASE \/ StartSweep \/ StartFull \/ Snapshot \/ FinishFull
            \/ SnapshotFails \/ FindDeletedRow \/ DeleteRow \/ Ask
  BY <1>0, <1>23, KeysAreOwnKept
  DEF StartSweep, StartFull, Snapshot, FinishFull, SnapshotFails,
     FindDeletedRow, DeleteRow, Ask, store, book, poller, counters
<1> QED BY <1>1, <1>2, <1>3, <1>4, <1>5, <1>6, <1>7, <1>8, <1>9, <1>10, <1>11,
     <1>12, <1>13, <1>14, <1>15, <1>16, <1>17, <1>18, <1>19, <1>20, <1>21,
     <1>22, <1>23
  DEF Next, WriterStep, PollerStep, ThreadStep, Outside

(***************************************************************************)
(* The three ways in which the tab changes.                                *)

LEMMA RowsRewritten ==
  ASSUME TypeOK, RowsAreOwn, typed' = typed,
         NEW s \in Seq(Rows), sheet' = s, Len(s) = Len(sheet),
         \A m \in RowNumbers :
           s[m].who = sheet[m].who /\ (s[m] = sheet[m] \/ s[m].key = s[m].who)
  PROVE  RowsAreOwn' /\ \A i : HasRow(i)' <=> HasRow(i)
<1>1. RowNumbers' = RowNumbers
  BY DEF RowNumbers
<1> QED BY <1>1 DEF RowsAreOwn, HasRow, OwnKey

LEMMA RowAdded ==
  ASSUME TypeOK, RowsAreOwn, typed' = typed,
         NEW r \in Rows, ~HasRow(r.who), OwnKey(r), sheet' = Append(sheet, r)
  PROVE  RowsAreOwn' /\ \A i : HasRow(i)' <=> HasRow(i) \/ i = r.who
<1> DEFINE k == Len(sheet) + 1
<1>1. sheet \in Seq(Rows) /\ Len(sheet) \in Nat
  BY DEF TypeOK, BookOK
<1>2. /\ RowNumbers' = RowNumbers \cup {k}
      /\ k \in RowNumbers' /\ k \notin RowNumbers
      /\ \A n \in RowNumbers : sheet'[n] = sheet[n]
      /\ sheet'[k] = r
  BY <1>1, AppendProperties DEF RowNumbers
<1> HIDE DEF k
<1>3. \A n \in RowNumbers : sheet[n].who # r.who
  BY DEF HasRow
<1>4. RowsAreOwn'
  <2>1. \A n \in RowNumbers' : OwnKey(sheet[n])'
    BY <1>2 DEF RowsAreOwn, OwnKey
  <2>2. \A m, n \in RowNumbers' : sheet'[m].who = sheet'[n].who => m = n
    <3> SUFFICES ASSUME NEW m \in RowNumbers', NEW n \in RowNumbers',
                        sheet'[m].who = sheet'[n].who
                 PROVE  m = n
      OBVIOUS
    <3>1. CASE m = k \/ n = k
      BY <1>2, <1>3, <3>1
    <3>2. CASE m # k /\ n # k
      BY <1>2, <3>2 DEF RowsAreOwn
    <3> QED BY <3>1, <3>2
  <2> QED BY <2>1, <2>2 DEF RowsAreOwn
<1>5. ASSUME NEW i PROVE HasRow(i)' <=> HasRow(i) \/ i = r.who
  BY <1>2 DEF HasRow
<1> QED BY <1>4, <1>5

LEMMA RowRemoved ==
  ASSUME TypeOK, RowsAreOwn, typed' = typed,
         NEW n \in RowNumbers, sheet' = RemoveAt(sheet, n)
  PROVE  RowsAreOwn' /\ \A i : HasRow(i)' <=> HasRow(i) /\ i # sheet[n].who
<1>1. sheet \in Seq(Rows) /\ Len(sheet) \in Nat
  BY DEF TypeOK, BookOK
<1> DEFINE from(m) == IF m < n THEN m ELSE m + 1
<1>2. /\ RowNumbers' = 1..(Len(sheet) - 1)
      /\ \A m \in RowNumbers' : /\ sheet'[m] = sheet[from(m)]
                                /\ from(m) \in RowNumbers \ {n}
  <2>1. n \in 1..Len(sheet)
    BY DEF RowNumbers
  <2>2. /\ RowNumbers' = 1..(Len(sheet) - 1)
        /\ \A m \in 1..(Len(sheet) - 1) :
             sheet'[m] = IF m < n THEN sheet[m] ELSE sheet[m + 1]
    BY <1>1, <2>1, RowsAfterRemoval DEF RowNumbers
  <2>3. \A m \in 1..(Len(sheet) - 1) : from(m) \in (1..Len(sheet)) \ {n}
    BY <1>1, <2>1
  <2> QED BY <2>2, <2>3 DEF RowNumbers
<1>3. \A l, m \in RowNumbers' : from(l) = from(m) => l = m
  BY <1>1, <1>2 DEF RowNumbers
<1>4. \A l \in RowNumbers \ {n} : \E m \in RowNumbers' : from(m) = l
  <2> TAKE l \in RowNumbers \ {n}
  <2>1. CASE l < n
    <3>1. l \in RowNumbers' /\ from(l) = l
      BY <1>1, <1>2, <2>1 DEF RowNumbers
    <3> QED BY <3>1
  <2>2. CASE ~ l < n
    <3>1. l - 1 \in RowNumbers' /\ from(l - 1) = l
      BY <1>1, <1>2, <2>2 DEF RowNumbers
    <3> QED BY <3>1
  <2> QED BY <2>1, <2>2
<1> HIDE DEF from
<1>5. RowsAreOwn'
  BY <1>2, <1>3 DEF RowsAreOwn, OwnKey
<1>6. ASSUME NEW i PROVE HasRow(i)' <=> HasRow(i) /\ i # sheet[n].who
  <2>1. HasRow(i)' => HasRow(i) /\ i # sheet[n].who
    BY <1>2 DEF HasRow, RowsAreOwn
  <2>2. ASSUME HasRow(i), i # sheet[n].who PROVE HasRow(i)'
    <3>1. PICK l \in RowNumbers \ {n} : sheet[l].who = i
      BY <2>2 DEF HasRow
    <3>2. PICK m \in RowNumbers' : from(m) = l
      BY <1>4
    <3> QED BY <1>2, <3>1, <3>2 DEF HasRow
  <2> QED BY <2>1, <2>2
<1> QED BY <1>5, <1>6

(* A call that is not mixed up writes or deletes the row of its inquiry.   *)
LEMMA OwnRowKeyed ==
  ASSUME TypeOK, RowsAreOwn, typed' = typed,
         NEW n \in Nat, NEW k \in Keys, ~Foreign(n, k), sheet' = Keyed(n, k)
  PROVE  RowsAreOwn' /\ \A i : HasRow(i)' <=> HasRow(i)
<1>1. n \in RowNumbers /\ sheet[n].who = k /\ BookOK
  BY DEF Foreign, TypeOK
<1> DEFINE s == Keyed(n, k)
<1>2. s \in Seq(Rows) /\ Len(s) = Len(sheet)
  BY <1>1, KeyedRows
<1>3. \A m \in RowNumbers :
        s[m].who = sheet[m].who /\ (s[m] = sheet[m] \/ s[m].key = s[m].who)
  <2> TAKE m \in RowNumbers
  <2>1. sheet[m] \in Rows
    BY <1>1, RowNumbersAreNumbers
  <2>2. s[m] = IF m = n THEN [sheet[m] EXCEPT !.key = k] ELSE sheet[m]
    BY <1>1, KeyedRows
  <2> QED BY <1>1, <2>1, <2>2 DEF Rows
<1> HIDE DEF s
<1> QED BY <1>2, <1>3, RowsRewritten DEF s

LEMMA GiveRows ==
  ASSUME TypeOK, RowsAreOwn, NEW a \in Writers, Give(a), ~mixed'
  PROVE  RowsAreOwn' /\ \A i : HasRow(i)' <=> HasRow(i)
<1>1. app[a].row \in Nat /\ app[a].old \in Keys
  BY WriterHas DEF Give, TypeOK
<1> QED BY <1>1, OwnRowKeyed DEF Give, store

LEMMA StageRows ==
  ASSUME TypeOK, RowsAreOwn, KeysAreOwn, WriteStage, ~mixed'
  PROVE  RowsAreOwn' /\ \A i : HasRow(i)' <=> HasRow(i)
<1>1. up.row \in Nat /\ up.key \in Keys /\ up.key = up.inq
  BY DEF WriteStage, TypeOK, ThreadsOK, ThreadStates, KeysAreOwn
<1> QED BY <1>1, OwnRowKeyed DEF WriteStage, store

LEMMA RewriteRows ==
  ASSUME TypeOK, RowsAreOwn, KeysAreOwn, NEW a \in Writers, Rewrite(a), ~mixed'
  PROVE  /\ RowsAreOwn' /\ \A i : HasRow(i)' <=> HasRow(i)
         /\ HasRow(app[a].inq)
<1> DEFINE n == app[a].row
           s == [sheet EXCEPT ![n] = RowOf(a)]
<1>1. n \in RowNumbers /\ sheet[n].who = app[a].inq
  BY DEF Rewrite, Foreign
<1>2. /\ RowOf(a) \in Rows /\ RowOf(a).who = app[a].inq
      /\ RowOf(a).key = app[a].inq
  BY RowOfTyped DEF Rewrite, TypeOK, KeysAreOwn, RowOf, Appending, Locked
<1>3. /\ s \in Seq(Rows) /\ Len(s) = Len(sheet)
      /\ \A m \in RowNumbers : s[m] = IF m = n THEN RowOf(a) ELSE sheet[m]
  BY <1>1, <1>2, ExceptSeq DEF TypeOK, BookOK, RowNumbers
<1>4. sheet' = s /\ typed' = typed
  BY <1>1 DEF Rewrite, store
<1> HIDE DEF s
<1>5. RowsAreOwn' /\ \A i : HasRow(i)' <=> HasRow(i)
  BY <1>1, <1>2, <1>3, <1>4, RowsRewritten
<1> QED BY <1>1, <1>5 DEF HasRow

LEMMA AddRows ==
  ASSUME TypeOK, RowsAreOwn, AddsWhatIsMissing, KeysAreOwn,
         NEW a \in Writers, app[a].at = "add",
         typed' = typed, sheet' = Append(sheet, RowOf(a))
  PROVE  RowsAreOwn' /\ \A i : HasRow(i)' <=> HasRow(i) \/ i = app[a].inq
<1>1. /\ RowOf(a) \in Rows /\ RowOf(a).who = app[a].inq
      /\ RowOf(a).key = app[a].inq /\ ~HasRow(app[a].inq)
  BY RowOfTyped
  DEF TypeOK, KeysAreOwn, AddsWhatIsMissing, RowOf, Appending, Locked
<1> QED BY <1>1, RowAdded DEF OwnKey

LEMMA TypeRows ==
  ASSUME TypeOK, RowsAreOwn, NEW i \in Inquiries, TypeRow(i)
  PROVE  RowsAreOwn' /\ \A j : HasRow(j)' <=> HasRow(j) \/ j = i
<1>1. PICK d \in Ids :
        sheet' = Append(sheet, [key |-> NoKey, cid |-> d, who |-> i])
  BY IdsAreNumbers DEF TypeRow, Ids
<1> DEFINE r == [key |-> NoKey, cid |-> d, who |-> i]
<1>2. r \in Rows /\ r.who = i /\ r.key = NoKey
  BY DEF Rows, Keys
<1>3. i \in typed /\ ~HasRow(i) /\ typed' = typed
  BY DEF TypeRow, HasRow, store
<1> HIDE DEF r
<1>4. sheet' = Append(sheet, r)
  BY <1>1 DEF r
<1> QED BY <1>2, <1>3, <1>4, RowAdded DEF OwnKey

LEMMA DeleteRows ==
  ASSUME TypeOK, RowsAreOwn, DeleteRow, ~mixed'
  PROVE  RowsAreOwn' /\ \A i : HasRow(i)' <=> HasRow(i) /\ i # del.inq
<1>1. del.row \in RowNumbers /\ sheet[del.row].who = del.inq
  BY DEF DeleteRow, Foreign
<1> QED BY <1>1, RowRemoved DEF DeleteRow, store

(***************************************************************************)
(* Every step keeps the rows as they are.                                  *)

LEMMA RowsAreOwnStep ==
  ASSUME Inv, Next, ~mixed'
  PROVE  RowsAreOwn'
<1>0. /\ TypeOK /\ RowsAreOwn /\ AddsWhatIsMissing /\ KeysAreOwn
  BY DEF Inv, Next
<1>1. UNCHANGED <<sheet, typed>> => RowsAreOwn'
  BY <1>0 DEF RowsAreOwn, RowNumbers, OwnKey
<1>2. ASSUME NEW a \in Writers,
             Reserve(a) \/ Suggest(a) \/ Claim(a) \/ ReadRecord(a) \/ Enter(a)
             \/ Legacy(a) \/ Find(a) \/ Attach(a)
      PROVE  RowsAreOwn'
  BY <1>1, <1>2 DEF Reserve, Suggest, Claim, ReadRecord, Enter, Legacy, Find,
     Attach, Number, store, book
<1>3. ASSUME NEW a \in Writers, Give(a) \/ Rewrite(a)
      PROVE  RowsAreOwn'
  BY <1>0, <1>3, GiveRows, RewriteRows
<1>4. ASSUME NEW a \in Writers, Add(a) \/ CallFails(a)
      PROVE  RowsAreOwn'
  BY <1>0, <1>1, <1>4, AddRows DEF Add, CallFails, store
<1>5. ASSUME NEW i \in Inquiries, TypeRow(i) PROVE RowsAreOwn'
  BY <1>0, <1>5, TypeRows
<1>6. CASE WriteStage \/ DeleteRow
  BY <1>0, <1>6, StageRows, DeleteRows
<1>7. CASE \/ PollerStep \/ FindStageRow \/ FindDeletedRow
           \/ Ask \/ Restart \/ SnapshotFails \/ ThreadFails
  BY <1>1, <1>7 DEF PollerStep, StartSweep, TakeNext, StartFull, Snapshot,
     Import, ImportRows, FinishFull, FindStageRow, FindDeletedRow, Ask,
     Restart, SnapshotFails, ThreadFails, store, book
<1>8. ASSUME NEW i \in Inquiries,
             (\E m \in BOOLEAN : Arrive(i, m)) \/ MoveStage(i) \/ Delete(i)
      PROVE  RowsAreOwn'
  BY <1>1, <1>8 DEF Arrive, MoveStage, Delete, store, book
<1> QED BY <1>2, <1>3, <1>4, <1>5, <1>6, <1>7, <1>8
    DEF Next, WriterStep, ThreadStep, Outside

LEMMA AddsWhatIsMissingStep ==
  ASSUME Inv, Next, ~mixed'
  PROVE  AddsWhatIsMissing'
<1>0. /\ TypeOK /\ RowsAreOwn /\ AddsWhatIsMissing /\ KeysAreOwn
      /\ TypedAreImported /\ LockIsHeld
      /\ app \in [Writers -> WriterStates]
      /\ \A a \in Writers : app[a].at # "idle" => app[a].inq \in Inquiries
  BY DEF Inv, Next, TypeOK, AppOK
<1>1. UNCHANGED sheet => \A i : HasRow(i)' <=> HasRow(i)
  BY DEF HasRow, RowNumbers
<1>2. ASSUME \A i : HasRow(i)' => HasRow(i),
             NEW a \in Writers, NEW w \in WriterStates,
             app' = [app EXCEPT ![a] = w], w.at # "add"
      PROVE  AddsWhatIsMissing'
  BY <1>0, <1>2 DEF AddsWhatIsMissing
<1>3. ASSUME \A i : HasRow(i)' => HasRow(i), UNCHANGED app
      PROVE  AddsWhatIsMissing'
  BY <1>3, <1>0 DEF AddsWhatIsMissing
<1>4. ASSUME NEW a \in Writers,
             \/ Reserve(a) \/ Claim(a) \/ ReadRecord(a) \/ Legacy(a)
      PROVE  AddsWhatIsMissing'
  BY <1>0, <1>1, <1>2, <1>4, ReserveEffect, ClaimEffect, ReadRecordEffect,
     LegacyEffect
<1>5. ASSUME NEW a \in Writers, Suggest(a) \/ Enter(a) \/ Attach(a)
      PROVE  AddsWhatIsMissing'
  <2>1. \A b \in Writers : app'[b].at = "add" => app'[b] = app[b]
    <3>1. CASE Suggest(a)
      <4>1. [app[a] EXCEPT !.at = "claim",
                           !.sug = Max(SheetIds \cup {NoId}) + 1].at # "add"
        BY <1>0 DEF WriterStates
      <4> QED BY <1>0, <3>1, <4>1 DEF Suggest, Goto
    <3>2. CASE Enter(a)
      <4>1. PICK s \in {"find", "legacy"} :
              app' = [app EXCEPT ![a] = [app[a] EXCEPT !.at = s]]
        BY <3>2 DEF Enter, Goto
      <4> QED BY <1>0, <4>1 DEF WriterStates
    <3>3. CASE Attach(a)
      BY <1>0, <3>3 DEF Attach, Goto, Idle
    <3> QED BY <1>5, <3>1, <3>2, <3>3
  <2> QED BY <1>0, <1>1, <1>5, <2>1 DEF Suggest, Enter, Attach, book,
      AddsWhatIsMissing
<1>6. ASSUME NEW a \in Writers, Give(a) PROVE AddsWhatIsMissing'
  <2>1. \A i : HasRow(i)' <=> HasRow(i)
    BY <1>0, <1>6, GiveRows
  <2> DEFINE w == NextKey(a, app[a].old)
  <2>2. w \in WriterStates /\ w.at # "add" /\ app' = [app EXCEPT ![a] = w]
    <3>1. app[a].at = "give" /\ app[a] \in WriterStates
      BY <1>0, <1>6 DEF Give
    <3>2. w \in WriterStates
      BY <1>6, <3>1, NextKeyTyped DEF TypeOK, Inv
    <3>3. w.at # "add"
      BY <3>1 DEF NextKey, WriterStates
    <3> QED BY <1>6, <3>2, <3>3 DEF Give, Goto
  <2> HIDE DEF w
  <2> QED BY <2>1, <2>2, <1>2
<1>7. ASSUME NEW a \in Writers, Find(a) PROVE AddsWhatIsMissing'
  <2>1. Written(a) = {} => ~HasRow(app[a].inq)
    <3>1. app[a].key = app[a].inq /\ app[a].inq \notin typed
      BY <1>0, <1>7
      DEF Find, KeysAreOwn, TypedAreImported, Working, Appending, Locked
    <3> QED BY <1>0, <3>1 DEF Written, RowsWithKey, HasRow, RowsAreOwn, OwnKey
  <2> QED BY <1>0, <1>1, <1>7, <2>1, FindEffect DEF AddsWhatIsMissing
<1>8. ASSUME NEW a \in Writers, Rewrite(a) PROVE AddsWhatIsMissing'
  <2>1. \A i : HasRow(i)' <=> HasRow(i)
    BY <1>0, <1>8, RewriteRows
  <2> QED BY <1>0, <1>8, <2>1
      DEF Rewrite, Answered, Goto, Idle, AddsWhatIsMissing
<1>9. ASSUME NEW a \in Writers, Add(a) \/ CallFails(a)
      PROVE  AddsWhatIsMissing'
  <2>1. \A b \in Writers : app'[b].at = "add" => b # a /\ app'[b] = app[b]
    <3>1. PICK w : w.at # "add" /\ app' = [app EXCEPT ![a] = w]
      BY <1>9 DEF Add, CallFails, Answered, GivenUp, Goto, Idle
    <3> QED BY <1>0, <3>1
  <2>2. CASE UNCHANGED sheet
    BY <1>0, <1>1, <2>1, <2>2 DEF AddsWhatIsMissing
  <2>3. CASE app[a].at = "add" /\ sheet' = Append(sheet, RowOf(a))
    <3>1. \A b \in Writers : b # a => app[b].at # "add"
      BY <1>0, <2>3 DEF LockIsHeld, Locked
    <3> QED BY <2>1, <3>1 DEF AddsWhatIsMissing
  <2> QED BY <1>9, <2>2, <2>3 DEF Add, CallFails
<1>10. ASSUME NEW i \in Inquiries, TypeRow(i) PROVE AddsWhatIsMissing'
  <2>1. /\ \A j : HasRow(j)' <=> HasRow(j) \/ j = i
        /\ i \in typed /\ app' = app
    BY <1>0, <1>10, TypeRows DEF TypeRow
  <2> QED BY <1>0, <2>1 DEF AddsWhatIsMissing, TypedAreImported, Working,
      Appending, Locked
<1>11. CASE WriteStage \/ DeleteRow
  <2>1. (\A i : HasRow(i)' => HasRow(i)) /\ app' = app
    BY <1>0, <1>11, StageRows, DeleteRows DEF WriteStage, DeleteRow
  <2> QED BY <1>3, <2>1
<1>12. ASSUME NEW i \in Inquiries, NEW m \in BOOLEAN, Arrive(i, m)
       PROVE  AddsWhatIsMissing'
  <2>1. UNCHANGED sheet
    BY <1>12 DEF Arrive, book
  <2>2. \A a \in Writers : app'[a].at = "add" => app'[a] = app[a]
    BY <1>0, <1>12 DEF Arrive, Idle
  <2> QED BY <1>0, <1>1, <2>1, <2>2 DEF AddsWhatIsMissing
<1>13. ASSUME NEW i \in Inquiries, MoveStage(i) \/ Delete(i)
       PROVE  AddsWhatIsMissing'
  BY <1>1, <1>3, <1>13 DEF MoveStage, Delete, book
<1>14. CASE TakeNext
  <2>1. \A a \in Writers : app'[a].at = "add" => app'[a] = app[a]
    BY <1>0, <1>14 DEF TakeNext, Goto, Idle
  <2> QED BY <1>0, <1>1, <1>14, <2>1 DEF TakeNext, book, AddsWhatIsMissing
<1>15. CASE Restart
  BY <1>15 DEF Restart, Idle, AddsWhatIsMissing
<1>16. CASE \/ StartSweep \/ StartFull \/ Snapshot \/ Import \/ FinishFull
            \/ FindStageRow \/ FindDeletedRow \/ Ask \/ SnapshotFails
            \/ ThreadFails
  BY <1>1, <1>3, <1>16 DEF StartSweep, StartFull, Snapshot, Import, FinishFull,
     FindStageRow, FindDeletedRow, Ask, SnapshotFails, ThreadFails, book
<1> QED BY <1>4, <1>5, <1>6, <1>7, <1>8, <1>9, <1>10, <1>11, <1>12, <1>13,
        <1>14, <1>15, <1>16
    DEF Next, WriterStep, PollerStep, ThreadStep, Outside

(* What holds on to the rows when neither conversations nor attachments    *)
(* change.                                                                 *)
LEMMA RowsStayKept ==
  ASSUME TypeOK, RowsStay, UNCHANGED <<typed, conv, attached>>,
         snap' = snap \/ snap' = <<>>,
         \A i \in Inquiries : HasRow(i) =>
           HasRow(i)' \/ (conv[i] \in {"gone", "imported"} /\ i \notin typed),
         \A a \in Writers : app'[a].at = "attach" =>
           \/ app'[a] = app[a]
           \/ app'[a].inq \in Inquiries /\ HasRow(app[a].inq)'
  PROVE  RowsStay'
<1>0. /\ \A n \in 1..Len(snap) : snap[n].who \in Inquiries
      /\ \A a \in Writers : app[a].at = "attach" => app[a].inq \in Inquiries
  BY SnapTyped DEF TypeOK, AppOK, Rows
<1>1. \A i \in Inquiries :
        (conv[i] = "ticket" \/ i \in typed) /\ attached[i] => HasRow(i)'
  BY DEF RowsStay
<1>2. ASSUME NEW a \in Writers, app'[a].at = "attach",
             conv[app'[a].inq] = "ticket"
      PROVE  HasRow(app[a].inq)'
  <2>1. CASE app'[a] = app[a]
    <3>1. HasRow(app[a].inq) /\ app[a].inq \in Inquiries
      BY <1>0, <1>2, <2>1 DEF RowsStay
    <3>2. \A i \in Inquiries : HasRow(i) /\ conv[i] = "ticket" => HasRow(i)'
      OBVIOUS
    <3>3. \A i \in Inquiries : i = app[a].inq => HasRow(i)'
      BY <3>1, <3>2, <1>2, <2>1
    <3> QED BY <3>1, <3>3, <2>1
  <2>2. CASE app'[a] # app[a]
    BY <1>2, <2>2
  <2> QED BY <2>1, <2>2
<1>3. ASSUME NEW n \in 1..Len(snap')
      PROVE  /\ OwnKey(snap[n])'
             /\ \/ HasRow(snap[n].who)'
                \/ /\ conv[snap'[n].who] \in {"gone", "imported"}
                   /\ snap'[n].who \notin typed
  <2>1. snap' = snap
    BY <1>3
  <2>2. OwnKey(snap[n]) /\ snap[n].who \in Inquiries
    BY <1>0, <1>3, <2>1 DEF RowsStay
  <2>3. OwnKey(snap[n])'
    BY <2>1, <2>2 DEF OwnKey
  <2>4. \A i \in Inquiries : i = snap[n].who =>
          HasRow(i)' \/ (conv[i] \in {"gone", "imported"} /\ i \notin typed)
    BY <1>0, <1>3, <2>1, <2>2 DEF RowsStay
  <2> QED BY <2>1, <2>2, <2>3, <2>4
<1> QED BY <1>1, <1>2, <1>3 DEF RowsStay, OwnKey

(* The inquiries of the rows that were read.                               *)
LEMMA SnapWho ==
  ASSUME TypeOK, RowsStay, NEW k \in SnapKeys
  PROVE  /\ k \in Inquiries
         /\ \/ HasRow(k)
            \/ conv[k] \in {"gone", "imported"} /\ k \notin typed
<1>1. PICK n \in 1..Len(snap) : KeyOfRow(snap[n]) = k
  BY DEF SnapKeys, SnapRows
<1>2. snap[n].who = k
  BY <1>1 DEF RowsStay, OwnKey, KeyOfRow
<1> QED BY <1>1, <1>2, SnapTyped DEF RowsStay, TypeOK

LEMMA RowsStayStep ==
  ASSUME Inv, Next, ~mixed'
  PROVE  RowsStay'
<1>0. /\ TypeOK /\ RowsAreOwn /\ AddsWhatIsMissing /\ KeysAreOwn
      /\ TypedAreImported /\ BornFirst /\ RowsStay
      /\ app \in [Writers -> WriterStates]
      /\ \A a \in Writers : app[a].at # "idle" => app[a].inq \in Inquiries
      /\ conv \in [Inquiries -> {"unborn", "ticket", "imported", "gone"}]
      /\ attached \in [Inquiries -> BOOLEAN] /\ typed \subseteq Inquiries
  BY DEF Inv, Next, TypeOK, AppOK, StoreOK
<1>1. UNCHANGED sheet => \A i : HasRow(i)' <=> HasRow(i)
  BY DEF HasRow, RowNumbers
<1>2. ASSUME \A i : HasRow(i) => HasRow(i)',
             UNCHANGED <<typed, conv, attached>>,
             snap' = snap,
             NEW a \in Writers, NEW w \in WriterStates,
             app' = [app EXCEPT ![a] = w], w.at # "attach"
      PROVE  RowsStay'
  BY <1>0, <1>2, RowsStayKept
<1>3. ASSUME \A i : HasRow(i) => HasRow(i)',
             UNCHANGED <<typed, conv, attached>>,
             snap' = snap \/ snap' = <<>>, UNCHANGED app
      PROVE  RowsStay'
  BY <1>0, <1>3, RowsStayKept
<1>4. ASSUME NEW a \in Writers,
             \/ Reserve(a) \/ Claim(a) \/ ReadRecord(a) \/ Legacy(a) \/ Find(a)
      PROVE  RowsStay'
  <2>1. /\ UNCHANGED <<typed, conv, attached, sheet, snap>>
        /\ \E w \in WriterStates :
             app' = [app EXCEPT ![a] = w] /\ w.at # "attach"
    BY <1>0, <1>4, ReserveEffect, ClaimEffect, ReadRecordEffect, LegacyEffect,
       FindEffect DEF Number, store
  <2> QED BY <1>1, <1>2, <2>1
<1>5. ASSUME NEW a \in Writers, Suggest(a) \/ Enter(a)
      PROVE  RowsStay'
  <2>1. \A b \in Writers : app'[b].at = "attach" => app'[b] = app[b]
    <3>1. CASE Suggest(a)
      <4>1. [app[a] EXCEPT !.at = "claim",
               !.sug = Max(SheetIds \cup {NoId}) + 1].at # "attach"
        BY <1>0 DEF WriterStates
      <4> QED BY <1>0, <3>1, <4>1 DEF Suggest, Goto
    <3>2. CASE Enter(a)
      <4>1. PICK s \in {"find", "legacy"} :
              app' = [app EXCEPT ![a] = [app[a] EXCEPT !.at = s]]
        BY <3>2 DEF Enter, Goto
      <4> QED BY <1>0, <4>1 DEF WriterStates
    <3> QED BY <1>5, <3>1, <3>2
  <2>2. UNCHANGED <<typed, conv, attached, sheet, snap>>
    BY <1>5 DEF Suggest, Enter, store, book, poller
  <2> QED BY <1>0, <1>1, <2>1, <2>2, RowsStayKept
<1>6. ASSUME NEW a \in Writers, Give(a) PROVE RowsStay'
  <2>1. \A i : HasRow(i)' <=> HasRow(i)
    BY <1>0, <1>6, GiveRows
  <2> DEFINE w == NextKey(a, app[a].old)
  <2>2. w \in WriterStates /\ w.at # "attach" /\ app' = [app EXCEPT ![a] = w]
    <3>1. app[a].at = "give" /\ app[a] \in WriterStates
      BY <1>0, <1>6 DEF Give
    <3>2. w \in WriterStates
      BY <1>6, <3>1, NextKeyTyped DEF TypeOK, Inv
    <3>3. w.at # "attach"
      BY <3>1 DEF NextKey, WriterStates
    <3> QED BY <1>6, <3>2, <3>3 DEF Give, Goto
  <2> HIDE DEF w
  <2>3. UNCHANGED <<typed, conv, attached, snap>>
    BY <1>6 DEF Give, store, poller
  <2> QED BY <2>1, <2>2, <2>3, <1>2
<1>7. ASSUME NEW a \in Writers, Rewrite(a) \/ Add(a) PROVE RowsStay'
  <2>1. \A i : HasRow(i) \/ i = app[a].inq => HasRow(i)'
    BY <1>0, <1>7, RewriteRows, AddRows DEF Add, store
  <2>2. /\ UNCHANGED <<typed, conv, attached, snap>>
        /\ app[a].inq \in Inquiries
        /\ \A b \in Writers : app'[b] = app[b] \/ app'[b].inq = app[a].inq
    BY <1>0, <1>7 DEF Rewrite, Add, Answered, Goto, Idle, store, poller
  <2>3. \A b \in Writers : app'[b].inq = app[a].inq => HasRow(app[b].inq)'
    BY <2>1
  <2> QED BY <1>0, <2>1, <2>2, <2>3, RowsStayKept
<1>8. ASSUME NEW a \in Writers, CallFails(a) PROVE RowsStay'
  <2>1. \A i : HasRow(i) => HasRow(i)'
    BY <1>0, <1>1, <1>8, AddRows DEF CallFails, store
  <2>2. /\ UNCHANGED <<typed, conv, attached, snap>>
        /\ app' = [app EXCEPT ![a] = Idle]
    BY <1>8 DEF CallFails, GivenUp, Goto, store, poller
  <2> QED BY <1>2, <2>1, <2>2, RestIsTyped
<1>9. ASSUME NEW a \in Writers, Attach(a) PROVE RowsStay'
  <2> DEFINE i == app[a].inq
  <2>1. /\ i \in Inquiries /\ i \notin typed /\ app[a].at = "attach"
        /\ UNCHANGED <<typed, conv, snap, sheet>>
        /\ app' = [app EXCEPT ![a] = Idle]
        /\ attached' = attached \/ attached' = [attached EXCEPT ![i] = TRUE]
    BY <1>0, <1>9
    DEF Attach, Goto, store, book, poller, TypedAreImported, Working
  <2>2. \A j \in Inquiries :
          (conv[j] = "ticket" \/ j \in typed) /\ attached'[j] => HasRow(j)'
    BY <1>0, <1>1, <2>1 DEF RowsStay
  <2>3. ASSUME NEW b \in Writers, app'[b].at = "attach" PROVE app'[b] = app[b]
    BY <1>0, <2>1, <2>3 DEF Idle
  <2> QED BY <1>0, <1>1, <2>1, <2>2, <2>3 DEF RowsStay, OwnKey
<1>10. ASSUME NEW i \in Inquiries, NEW m \in BOOLEAN, Arrive(i, m)
       PROVE  RowsStay'
  <2>1. /\ UNCHANGED <<typed, attached, snap, sheet>>
        /\ conv' = [conv EXCEPT ![i] = "ticket"] /\ conv[i] = "unborn"
        /\ i \notin typed /\ ~attached[i]
    BY <1>0, <1>10 DEF Arrive, store, book, poller, BornFirst
  <2>2. \A a \in Writers : app'[a].at = "attach" =>
          app'[a] = app[a] /\ app[a].inq \in Inquiries \ {i}
    BY <1>0, <1>10 DEF Arrive, Idle, BornFirst
  <2>3. \A n \in 1..Len(snap) : snap[n].who \in Inquiries
    BY <1>0, SnapTyped DEF TypeOK, Rows
  <2> QED BY <1>0, <1>1, <2>1, <2>2, <2>3 DEF RowsStay, OwnKey
<1>11. ASSUME NEW i \in Inquiries, Delete(i) PROVE RowsStay'
  <2>1. /\ UNCHANGED <<typed, snap, sheet, app>>
        /\ conv' = [conv EXCEPT ![i] = "gone"] /\ conv[i] = "ticket"
        /\ attached' = [attached EXCEPT ![i] = FALSE]
        /\ i \notin typed
    BY <1>0, <1>11 DEF Delete, store, book, poller, TypedAreImported
  <2>2. \A n \in 1..Len(snap) : snap[n].who \in Inquiries
    BY <1>0, SnapTyped DEF TypeOK, Rows
  <2> QED BY <1>0, <1>1, <2>1, <2>2 DEF RowsStay, OwnKey
<1>12. CASE Snapshot
  <2>1. /\ UNCHANGED <<typed, conv, attached, sheet, app>> /\ snap' = sheet
    BY <1>12 DEF Snapshot, store, book
  <2>2. \A n \in RowNumbers : OwnKey(sheet[n]) /\ HasRow(sheet[n].who)
    BY <1>0 DEF RowsAreOwn, HasRow
  <2> QED BY <1>0, <1>1, <2>1, <2>2 DEF RowsStay, OwnKey, RowNumbers
<1>13. CASE Import
  <2>1. ImportRows /\ snap' = <<>> /\ UNCHANGED <<sheet, app, typed>>
    BY <1>13 DEF Import, ImportRows, book
  <2>2. ASSUME NEW j \in Inquiries, attached'[j],
               conv'[j] = "ticket" \/ j \in typed
        PROVE  HasRow(j)
    <3>1. conv[j] = "ticket" \/ j \in typed
      BY <2>1, <2>2 DEF ImportRows
    <3>2. CASE attached[j]
      BY <1>0, <3>1, <3>2 DEF RowsStay
    <3>3. CASE j \in SnapKeys
      BY <1>0, <3>1, <3>3, SnapWho
    <3>4. CASE Alive(j) /\ keyOf[j] \in SnapKeys
      <4>1. keyOf[j] = j
        BY <1>0, <3>4, SnapWho, NobodyIsNoInquiry DEF KeysAreOwn, NoKey
      <4> QED BY <1>0, <3>1, <3>4, <4>1, SnapWho
    <3> QED BY <2>1, <2>2, <3>2, <3>3, <3>4 DEF ImportRows, Created
  <2>3. \A j \in Inquiries : conv'[j] = "ticket" => conv[j] = "ticket"
    BY <2>1 DEF ImportRows
  <2>4. \A a \in Writers : app[a].at = "attach" => app[a].inq \in Inquiries
    BY <1>0
  <2> QED BY <1>0, <1>1, <2>1, <2>2, <2>3, <2>4 DEF RowsStay
<1>14. ASSUME NEW i \in Inquiries, TypeRow(i) \/ MoveStage(i)
       PROVE  RowsStay'
  <2>1. \A j : HasRow(j) => HasRow(j)'
    BY <1>0, <1>1, <1>14, TypeRows DEF MoveStage, book
  <2> QED BY <1>3, <1>14, <2>1 DEF TypeRow, MoveStage, store, poller
<1>15. CASE WriteStage
  <2>1. \A j : HasRow(j) => HasRow(j)'
    BY <1>0, <1>15, StageRows
  <2> QED BY <1>3, <1>15, <2>1 DEF WriteStage, store, poller
<1>16. CASE DeleteRow
  <2>1. /\ \A i : HasRow(i)' <=> HasRow(i) /\ i # del.inq
        /\ del.inq \notin typed /\ conv[del.inq] \in {"gone", "imported"}
    BY <1>0, <1>16, DeleteRows DEF DeleteRow, TypedAreImported
  <2>2. UNCHANGED <<typed, conv, attached, snap, app>>
    BY <1>16 DEF DeleteRow, store, poller
  <2> QED BY <1>0, <2>1, <2>2, RowsStayKept
<1>17. CASE TakeNext
  <2>1. \A a \in Writers : app'[a].at = "attach" => app'[a] = app[a]
    BY <1>0, <1>17 DEF TakeNext, Goto, Idle
  <2>2. UNCHANGED <<typed, conv, attached, snap, sheet>>
    BY <1>17 DEF TakeNext, store, book
  <2> QED BY <1>0, <1>1, <2>1, <2>2, RowsStayKept
<1>18. CASE Restart
  <2>1. /\ UNCHANGED <<typed, conv, attached, sheet>> /\ snap' = <<>>
        /\ \A a \in Writers : app'[a].at # "attach"
    BY <1>18 DEF Restart, store, book, Idle
  <2> QED BY <1>0, <1>1, <2>1, RowsStayKept
<1>19. CASE \/ StartSweep \/ StartFull \/ FinishFull \/ FindStageRow
            \/ FindDeletedRow \/ Ask \/ SnapshotFails \/ ThreadFails
  BY <1>1, <1>3, <1>19 DEF StartSweep, StartFull, FinishFull, FindStageRow,
     FindDeletedRow, Ask, SnapshotFails, ThreadFails, store, book, poller
<1> QED BY <1>4, <1>5, <1>6, <1>7, <1>8, <1>9, <1>10, <1>11, <1>12, <1>13,
        <1>14, <1>15, <1>16, <1>17, <1>18, <1>19
    DEF Next, WriterStep, PollerStep, ThreadStep, Outside

LEMMA NumbersAreOwnKept ==
  ASSUME NumbersAreOwn, UNCHANGED <<conv, cid, owned, company>>,
         \A a \in Writers : app'[a].at \in Working \cup {"read"} =>
           /\ app[a].at \in Working \cup {"read"} /\ app'[a].inq = app[a].inq
           /\ app'[a].at \in Working =>
                app[a].at \in Working /\ app'[a].cid = app[a].cid
  PROVE  NumbersAreOwn'
  BY DEF NumbersAreOwn

LEMMA NumbersAreOwnStep ==
  ASSUME Inv, Next, NothingImported'
  PROVE  NumbersAreOwn'
<1>0. /\ TypeOK /\ BornFirst
      /\ app \in [Writers -> WriterStates]
      /\ \A a \in Writers : app[a].at # "idle" => app[a].inq \in Inquiries
      /\ conv \in [Inquiries -> {"unborn", "ticket", "imported", "gone"}]
      /\ cid \in [Inquiries -> Ids] /\ owned \in [Companies -> Ids]
      /\ company \in [Inquiries -> Companies]
  BY DEF Inv, TypeOK, AppOK, StoreOK
<1>1. NothingImported
  <2>1. \A i \in Inquiries : conv[i] = "imported" => conv'[i] = "imported"
    <3>1. UNCHANGED conv \/ Import \/ \E i \in Inquiries :
            (\E m \in BOOLEAN : Arrive(i, m)) \/ Delete(i)
      BY DEF Next, WriterStep, PollerStep, ThreadStep, Outside, Reserve,
         Suggest, Claim, ReadRecord, Enter, Legacy, Give, Find, Rewrite, Add,
         Attach, CallFails, Number, StartSweep, TakeNext, StartFull, Snapshot,
         FinishFull, SnapshotFails, FindStageRow, WriteStage, FindDeletedRow,
         DeleteRow, Ask, ThreadFails, Restart, TypeRow, MoveStage, store
    <3>2. Import => \A i \in Inquiries :
            conv[i] = "imported" => conv'[i] = "imported"
      BY DEF Import, ImportRows, store
    <3> QED BY <1>0, <3>1, <3>2 DEF Arrive, Delete
  <2> QED BY <2>1 DEF NothingImported
<1>2. /\ NumbersAreOwn
      /\ \A i \in Inquiries : Alive(i) <=> conv[i] = "ticket"
  BY <1>1 DEF Inv, NothingImported, Alive
<1>3. ASSUME NEW a \in Writers, NEW w \in WriterStates,
             UNCHANGED <<conv, cid, owned, company>>,
             app' = [app EXCEPT ![a] = w],
             w.at \in Working \cup {"read"} =>
               /\ app[a].at \in Working /\ w.inq = app[a].inq
               /\ w.at \in Working /\ w.cid = app[a].cid
      PROVE  NumbersAreOwn'
  BY <1>0, <1>2, <1>3, NumbersAreOwnKept
<1>4. ASSUME UNCHANGED <<conv, cid, owned, company, app>>
      PROVE  NumbersAreOwn'
  BY <1>2, <1>4, NumbersAreOwnKept
<1>5. ASSUME NEW a \in Writers, NEW w \in WriterStates, NEW d \in Ids \ {NoId},
             app[a].at \in {"reserve", "claim"},
             app' = [app EXCEPT ![a] = w], w.at = "read", w.inq = app[a].inq,
             Alive(w.inq), Number(w.inq, d),
             IF owned[company[w.inq]] # NoId THEN d = owned[company[w.inq]]
             ELSE \A c \in Companies : owned[c] # d
      PROVE  NumbersAreOwn'
  <2> DEFINE i == w.inq
  <2>1. /\ i \in Inquiries /\ conv[i] = "ticket" /\ company[i] \in Companies
        /\ conv' = conv /\ company' = company
        /\ cid' = [cid EXCEPT ![i] = d]
        /\ owned' = [owned EXCEPT ![company[i]] = d]
    BY <1>0, <1>2, <1>5 DEF Number
  <2>2. \A c, e \in Companies :
          owned'[c] = owned'[e] /\ owned'[c] # NoId => c = e
    BY <1>0, <1>2, <1>5, <2>1 DEF NumbersAreOwn
  <2>3. \A j \in Inquiries :
          conv[j] = "ticket" /\ cid'[j] # NoId => cid'[j] = owned'[company[j]]
    BY <1>0, <1>2, <1>5, <2>1 DEF NumbersAreOwn
  <2>4. \A j \in Inquiries :
          conv[j] = "ticket" /\ cid[j] # NoId => cid'[j] = cid[j]
    BY <1>0, <1>2, <1>5, <2>1 DEF NumbersAreOwn
  <2>5. ASSUME NEW b \in Writers, app'[b].at \in Working \cup {"read"},
               conv[app'[b].inq] = "ticket"
        PROVE  /\ cid'[app'[b].inq] # NoId
               /\ app'[b].at \in Working => app'[b].cid = cid'[app'[b].inq]
    <3>1. CASE b = a
      BY <1>0, <1>5, <2>1, <3>1 DEF Working, Appending, Locked
    <3>2. CASE b # a
      <4>1. app'[b] = app[b] /\ app[b].inq \in Inquiries
        BY <1>0, <1>5, <2>5, <3>2 DEF Working, Appending, Locked
      <4> QED BY <1>2, <2>4, <2>5, <4>1 DEF NumbersAreOwn
    <3> QED BY <3>1, <3>2
  <2> QED BY <2>1, <2>2, <2>3, <2>5 DEF NumbersAreOwn
<1>6. ASSUME NEW a \in Writers, Reserve(a) PROVE NumbersAreOwn'
  <2>1. PICK w \in WriterStates :
          /\ app' = [app EXCEPT ![a] = w]
          /\ \/ w.at = "idle" /\ UNCHANGED store
             \/ w.at = "suggest" /\ w.inq = app[a].inq /\ UNCHANGED store
             \/ /\ w.at = "read" /\ w.inq = app[a].inq
                /\ Alive(w.inq) /\ Known(w.inq) \in Ids \ {NoId}
                /\ Number(w.inq, Known(w.inq))
    BY <1>0, <1>6, ReserveEffect
  <2>2. CASE w.at \in {"idle", "suggest"} /\ UNCHANGED store
    BY <1>3, <2>1, <2>2 DEF store, Working, Appending, Locked
  <2>3. CASE w.at = "read" /\ w.inq = app[a].inq /\ Alive(w.inq)
             /\ Known(w.inq) \in Ids \ {NoId} /\ Number(w.inq, Known(w.inq))
    <3>1. app[a].at = "reserve" /\ app[a].inq \in Inquiries
      BY <1>0, <1>6, ReserveEffect
    <3>2. owned[company[w.inq]] # NoId /\ Known(w.inq) = owned[company[w.inq]]
      BY <1>2, <2>3, <3>1 DEF Known, NumbersAreOwn
    <3> QED BY <1>5, <2>1, <2>3, <3>1, <3>2
  <2> QED BY <2>1, <2>2, <2>3
<1>7. ASSUME NEW a \in Writers, Claim(a) PROVE NumbersAreOwn'
  <2>1. PICK w \in WriterStates :
          /\ app' = [app EXCEPT ![a] = w]
          /\ \/ w.at = "idle" /\ UNCHANGED store
             \/ /\ w.at = "read" /\ w.inq = app[a].inq /\ Alive(w.inq)
                /\ \E d \in Ids \ {NoId} :
                     /\ Number(w.inq, d)
                     /\ IF owned[company[w.inq]] # NoId
                        THEN d = owned[company[w.inq]]
                        ELSE \A c \in Companies : owned[c] # d
    BY <1>0, <1>7, ClaimEffect
  <2>2. CASE w.at = "idle" /\ UNCHANGED store
    BY <1>3, <2>1, <2>2 DEF store, Working, Appending, Locked
  <2>3. app[a].at = "claim"
    BY <1>7 DEF Claim
  <2> QED BY <1>5, <2>1, <2>2, <2>3
<1>8. ASSUME NEW a \in Writers, ReadRecord(a) PROVE NumbersAreOwn'
  <2>1. PICK w \in WriterStates :
          /\ app' = [app EXCEPT ![a] = w]
          /\ \/ w.at = "idle"
             \/ /\ w.at = "append" /\ w.inq = app[a].inq
                /\ w.cid = cid[w.inq]
    BY <1>0, <1>8, ReadRecordEffect
  <2>2. /\ app[a].at = "read" /\ app[a].inq \in Inquiries
        /\ UNCHANGED <<conv, cid, owned, company>>
    BY <1>0, <1>8, ReadRecordEffect DEF store
  <2>3. CASE w.at = "idle"
    BY <1>3, <2>1, <2>2, <2>3 DEF Working, Appending, Locked
  <2>4. CASE w.at = "append" /\ w.inq = app[a].inq /\ w.cid = cid[w.inq]
    <3>1. ASSUME NEW b \in Writers, app'[b].at \in Working \cup {"read"},
                 conv[app'[b].inq] = "ticket"
          PROVE  /\ cid[app'[b].inq] # NoId
                 /\ app'[b].at \in Working => app'[b].cid = cid[app'[b].inq]
      BY <1>0, <1>2, <2>1, <2>2, <2>4, <3>1 DEF NumbersAreOwn
    <3> QED BY <1>2, <2>2, <3>1 DEF NumbersAreOwn
  <2> QED BY <2>1, <2>3, <2>4
<1>9. ASSUME NEW a \in Writers, Legacy(a) \/ Find(a) PROVE NumbersAreOwn'
  <2>1. /\ UNCHANGED <<conv, cid, owned, company>>
        /\ app[a].at \in Working
    BY <1>0, <1>9, LegacyEffect, FindEffect DEF store, Working, Appending,
     Locked
  <2>2. PICK w \in WriterStates :
          /\ app' = [app EXCEPT ![a] = w]
          /\ \/ w.at = "idle"
             \/ /\ w.inq = app[a].inq /\ w.cid = app[a].cid
                /\ w.at \in {"legacy", "give", "find", "add", "rewrite"}
    BY <1>0, <1>9, LegacyEffect, FindEffect
  <2> QED BY <1>3, <2>1, <2>2 DEF Working, Appending, Locked
<1>10. ASSUME NEW a \in Writers, Suggest(a) PROVE NumbersAreOwn'
  <2>1. [app[a] EXCEPT !.at = "claim",
                       !.sug = Max(SheetIds \cup {NoId}) + 1].at = "claim"
    BY <1>0 DEF WriterStates
  <2>2. \A b \in Writers : app'[b] = app[b] \/ app'[b].at = "claim"
    BY <1>0, <1>10, <2>1 DEF Suggest, Goto
  <2> QED BY <1>2, <1>10, <2>2, NumbersAreOwnKept
      DEF Suggest, store, Working, Appending, Locked
<1>11. ASSUME NEW a \in Writers, Enter(a) PROVE NumbersAreOwn'
  <2>1. PICK s \in {"find", "legacy"} :
          app' = [app EXCEPT ![a] = [app[a] EXCEPT !.at = s]]
    BY <1>11 DEF Enter, Goto
  <2>2. /\ app[a].at = "append" /\ UNCHANGED <<conv, cid, owned, company>>
    BY <1>11 DEF Enter, store
  <2>3. \A b \in Writers :
          \/ app'[b] = app[b]
          \/ /\ app[b].at = "append" /\ app'[b].at \in {"find", "legacy"}
             /\ app'[b].inq = app[b].inq /\ app'[b].cid = app[b].cid
    BY <1>0, <2>1, <2>2 DEF WriterStates
  <2> QED BY <1>2, <2>2, <2>3, NumbersAreOwnKept DEF Working, Appending, Locked
<1>12. ASSUME NEW a \in Writers, Give(a) PROVE NumbersAreOwn'
  <2> DEFINE w == NextKey(a, app[a].old)
  <2>1. app[a].at = "give" /\ UNCHANGED <<conv, cid, owned, company>>
        /\ app' = [app EXCEPT ![a] = w]
    BY <1>12 DEF Give, Goto, store
  <2>2. w \in WriterStates
    BY <1>12, <2>1, NextKeyTyped DEF TypeOK, Inv
  <2>3. /\ w.at \in {"find", "legacy"} /\ w.inq = app[a].inq
        /\ w.cid = app[a].cid
    BY <1>0 DEF NextKey, WriterStates
  <2> HIDE DEF w
  <2> QED BY <1>3, <2>1, <2>2, <2>3 DEF Working, Appending, Locked
<1>13. ASSUME NEW a \in Writers, Rewrite(a) \/ Add(a) PROVE NumbersAreOwn'
  <2> DEFINE w == [Idle EXCEPT !.at = "attach", !.inq = app[a].inq,
                               !.cid = app[a].cid]
  <2>1. app[a].at \in Working /\ UNCHANGED <<conv, cid, owned, company>>
        /\ app' = [app EXCEPT ![a] = w]
    BY <1>13 DEF Rewrite, Add, Answered, Goto, store, Working, Appending,
     Locked
  <2>2. w \in WriterStates
    BY <1>13, AnsweredTyped DEF Inv, TypeOK, Rewrite, Add
  <2>3. w.at = "attach" /\ w.inq = app[a].inq /\ w.cid = app[a].cid
    BY DEF Idle
  <2> HIDE DEF w
  <2> QED BY <1>3, <2>1, <2>2, <2>3 DEF Working
<1>14. ASSUME NEW a \in Writers, Attach(a) PROVE NumbersAreOwn'
  <2> DEFINE i == app[a].inq
  <2>1. /\ app[a].at = "attach" /\ i \in Inquiries
        /\ app' = [app EXCEPT ![a] = Idle]
        /\ conv' = conv /\ company' = company
    BY <1>0, <1>14 DEF Attach, Goto, store
  <2>2. UNCHANGED <<cid, owned>>
    <3>1. CASE UNCHANGED store
      BY <3>1 DEF store
    <3>2. CASE ~ UNCHANGED store
      <4>1. /\ Alive(i) /\ cid' = [cid EXCEPT ![i] = app[a].cid]
            /\ owned' = [owned EXCEPT ![company[i]] =
                           IF @ = NoId THEN app[a].cid ELSE @]
        BY <1>14, <3>2 DEF Attach
      <4>2. /\ app[a].cid = cid[i] /\ cid[i] # NoId
            /\ cid[i] = owned[company[i]]
        BY <1>2, <2>1, <4>1 DEF NumbersAreOwn, Working
      <4> QED BY <1>0, <4>1, <4>2
    <3> QED BY <3>1, <3>2
  <2> QED BY <1>3, <2>1, <2>2, RestIsTyped DEF Working, Appending, Locked
<1>15. ASSUME NEW a \in Writers, CallFails(a) PROVE NumbersAreOwn'
  <2>1. /\ app' = [app EXCEPT ![a] = Idle]
        /\ UNCHANGED <<conv, cid, owned, company>>
    BY <1>15 DEF CallFails, GivenUp, Goto, store
  <2> QED BY <1>3, <2>1, RestIsTyped DEF Working, Appending, Locked
<1>16. ASSUME NEW i \in Inquiries, NEW m \in BOOLEAN, Arrive(i, m)
       PROVE  NumbersAreOwn'
  <2>1. /\ UNCHANGED <<cid, owned, company>>
        /\ conv' = [conv EXCEPT ![i] = "ticket"] /\ cid[i] = NoId
        /\ conv[i] = "unborn"
    BY <1>0, <1>16 DEF Arrive, BornFirst
  <2>2. \A a \in Writers : app'[a].at \in Working \cup {"read"} =>
          app'[a] = app[a] /\ app[a].inq \in Inquiries \ {i}
    BY <1>0, <1>16 DEF Arrive, Idle, BornFirst, Working, Appending, Locked
  <2> QED BY <1>0, <1>2, <2>1, <2>2 DEF NumbersAreOwn
<1>17. ASSUME NEW i \in Inquiries, Delete(i) PROVE NumbersAreOwn'
  <2> DEFINE c == company[i]
  <2>1. /\ UNCHANGED <<company, app>>
        /\ conv' = [conv EXCEPT ![i] = "gone"]
        /\ cid' = [cid EXCEPT ![i] = NoId]
        /\ \/ owned' = owned
           \/ /\ owned' = [owned EXCEPT ![c] = NoId]
              /\ \A j \in Inquiries \ {i} : Alive(j) => company[j] # c
    BY <1>0, <1>17 DEF Delete
  <2>2. \A j \in Inquiries : conv'[j] = "ticket" =>
          j # i /\ conv[j] = "ticket" /\ cid'[j] = cid[j]
    BY <1>0, <2>1
  <2>3. \A d, e \in Companies :
          owned'[d] = owned'[e] /\ owned'[d] # NoId => d = e
    BY <1>0, <1>2, <2>1 DEF NumbersAreOwn
  <2>4. \A j \in Inquiries :
          conv'[j] = "ticket" /\ cid'[j] # NoId => cid'[j] = owned'[company[j]]
    BY <1>0, <1>2, <2>1, <2>2 DEF NumbersAreOwn
  <2>5. \A a \in Writers : app[a].at \in Working \cup {"read"} =>
          app[a].inq \in Inquiries
    BY <1>0 DEF Working, Appending, Locked
  <2> QED BY <1>2, <2>1, <2>2, <2>3, <2>4, <2>5 DEF NumbersAreOwn
<1>18. CASE Import
  <2>1. CASE UNCHANGED store
    BY <1>4, <1>18, <2>1 DEF Import, store
  <2>2. CASE ImportRows
    <3>1. Created = {}
      <4>1. \A i \in Created : i \in Inquiries /\ conv'[i] = "imported"
        BY <1>0, <2>2, SnapTyped DEF ImportRows, Created, TypeOK
      <4> QED BY <4>1 DEF NothingImported
    <3>2. UNCHANGED <<conv, cid, company>>
      BY <1>0, <2>2, <3>1 DEF ImportRows
    <3>3. \A c \in Companies : NewRowsOf(c) = {}
      BY <3>1 DEF NewRowsOf
    <3>4. UNCHANGED owned
      BY <1>0, <2>2, <3>3 DEF ImportRows
    <3> QED BY <1>4, <1>18, <3>2, <3>4 DEF Import
  <2> QED BY <1>18, <2>1, <2>2 DEF Import
<1>19. CASE TakeNext
  <2>1. \A a \in Writers :
          app'[a].at \in Working \cup {"read"} => app'[a] = app[a]
    BY <1>0, <1>19 DEF TakeNext, Goto, Idle, Working, Appending, Locked
  <2> QED BY <1>2, <1>19, <2>1, NumbersAreOwnKept DEF TakeNext, store
<1>20. CASE Restart
  BY <1>2, <1>20, NumbersAreOwnKept
  DEF Restart, Idle, store, Working, Appending, Locked
<1>21. CASE \/ StartSweep \/ StartFull \/ Snapshot \/ FinishFull
            \/ ThreadStep \/ Ask \/ SnapshotFails \/ ThreadFails
            \/ \E i \in Inquiries : TypeRow(i) \/ MoveStage(i)
  BY <1>4, <1>21 DEF StartSweep, StartFull, Snapshot, FinishFull, ThreadStep,
     FindStageRow, WriteStage, FindDeletedRow, DeleteRow, Ask, SnapshotFails,
     ThreadFails, TypeRow, MoveStage, store
<1> QED BY <1>6, <1>7, <1>8, <1>9, <1>10, <1>11, <1>12, <1>13, <1>14, <1>15,
        <1>16, <1>17, <1>18, <1>19, <1>20, <1>21
    DEF Next, WriterStep, PollerStep, Outside

-----------------------------------------------------------------------------
LEMMA InitInv == Init => Inv
<1> SUFFICES ASSUME Init PROVE Inv
  OBVIOUS
<1>1. /\ TypeOK
      /\ conv = [i \in Inquiries |-> "unborn"] /\ sheet = <<>> /\ snap = <<>>
      /\ app = [a \in Writers |-> Idle] /\ up = Still /\ del = Still
      /\ todo = {}
  BY InitTypes DEF Init
<1>2. BornFirst
  BY <1>1 DEF Init, BornFirst, Idle
<1>3. KeysAreOwn
  BY <1>1 DEF Init, KeysAreOwn, Idle, Still, Working, Appending, Locked
<1>4. TypedAreImported
  BY <1>1 DEF TypedAreImported, Idle, Still, Working, Appending, Locked,
     TypeOK, StoreOK
<1>5. LockIsHeld
  BY <1>1 DEF LockIsHeld, Idle, Locked
<1>6. RowsAreOwn /\ AddsWhatIsMissing /\ RowsStay
  BY <1>1 DEF Init, RowsAreOwn, AddsWhatIsMissing, RowsStay, RowNumbers, Idle
<1>7. NumbersAreOwn
  BY <1>1 DEF Init, NumbersAreOwn, Idle, Working, Appending, Locked
<1> QED BY <1>1, <1>2, <1>3, <1>4, <1>5, <1>6, <1>7 DEF Inv

LEMMA InvStep == Inv /\ [Next]_vars => Inv'
<1> SUFFICES ASSUME Inv, [Next]_vars PROVE Inv'
  OBVIOUS
<1>1. CASE Next
  <2>1. TypeOK'
    BY <1>1, NextTypes DEF Inv
  <2> QED BY <1>1, <2>1, BornFirstStep, KeysAreOwnStep, TypedAreImportedStep,
          LockIsHeldStep, RowsAreOwnStep, AddsWhatIsMissingStep, RowsStayStep,
          NumbersAreOwnStep
      DEF Inv
<1>2. CASE UNCHANGED vars
  BY <1>2 DEF Inv, vars, store, book, poller, counters, TypeOK, StoreOK,
     BookOK,
     AppOK, PollerOK, ThreadsOK, CountersOK, BornFirst, KeysAreOwn, Alive,
     TypedAreImported, LockIsHeld, RowsAreOwn, AddsWhatIsMissing, RowsStay,
     OwnKey, HasRow, RowNumbers, NumbersAreOwn, NothingImported
<1> QED BY <1>1, <1>2

(* What holds between the steps of the writers, the poller and the threads *)
(* that update and delete rows: keys, rows and numbers belong to their     *)
(* inquiries and companies, and whoever works on the tab has the lock.     *)
THEOREM SheetInvariance == Spec => []Inv
  BY InitInv, InvStep, PTL DEF Spec

(* An inquiry has at most one row, for any number of them (append_inbound_ *)
(* row of google_sheets.py and whoever writes or deletes rows beside it).  *)
THEOREM OneRowEach == Spec => []OneRowPerInquiry
<1>1. Inv => OneRowPerInquiry
  BY DEF Inv, RowsAreOwn, OneRowPerInquiry
<1> QED BY <1>1, SheetInvariance, PTL

(* A conversation that says it has a row has one, so that nobody needs to  *)
(* append it again (sync_pending_inbound_rows of sheet_sync.py).           *)
THEOREM AttachedIsThere == Spec => []AttachedHasRow
<1>1. Inv => AttachedHasRow
  BY DEF Inv, RowsStay, HasRow, AttachedHasRow
<1> QED BY <1>1, SheetInvariance, PTL

(* One number for each company (reserve_inbound_client_id of               *)
(* sheet_sync.py), whatever the writers read and when.                     *)
THEOREM OneNumberEach == Spec => []OneIdPerCompany
<1>1. Inv => OneIdPerCompany
  <2> SUFFICES ASSUME Inv, NothingImported,
                      NEW i \in Inquiries, NEW j \in Inquiries,
                      conv[i] = "ticket", conv[j] = "ticket",
                      cid[i] # NoId, cid[j] # NoId
               PROVE  cid[i] = cid[j] <=> company[i] = company[j]
    BY DEF OneIdPerCompany, NothingImported
  <2>1. /\ cid[i] = owned[company[i]] /\ cid[j] = owned[company[j]]
        /\ company[i] \in Companies /\ company[j] \in Companies
    BY DEF Inv, NumbersAreOwn, TypeOK, StoreOK
  <2> QED BY <2>1 DEF Inv, NumbersAreOwn
<1> QED BY <1>1, SheetInvariance, PTL
=============================================================================
