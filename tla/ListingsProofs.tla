------------------------------ MODULE ListingsProofs ------------------------------
(***************************************************************************)
(* Theorems about Listings, for every set of rows, owners and questions,   *)
(* every size of a page and of a batch.  Rows are only ever inserted and   *)
(* their fixed columns stay: what a statement has read remains stored, and *)
(* the inductive invariants rest on that.                                  *)
(* The last part proves it of the indexer, whose commits they are.         *)
(***************************************************************************)
EXTENDS Listings, FiniteSetTheorems, SequenceTheorems, WellFoundedInduction, TLAPS

(***************************************************************************)
(* Types.                                                                  *)
(***************************************************************************)

LEMMA StoredIsFinite ==
    ASSUME TypeOK, NEW S \in SUBSET stored
    PROVE  IsFiniteSet(S) /\ Cardinality(S) \in Nat
<1>1. IsFiniteSet(S)
  BY RowAssumption, FS_Subset DEF TypeOK
<1> QED
  BY <1>1, FS_CardinalityType

(* The table a question is about tells details from walks.                 *)
LEMMA QuestionKinds ==
    ASSUME NEW q \in Asked \cup {NoQuery}
    PROVE  /\ q \in DetailQueries <=> q.table = "detail"
           /\ q \in Walks => q.table # "detail"
           /\ NoQuery \notin DetailQueries \cup Walks
           /\ q \in DetailQueries => q.of \in Addresses
<1>1. \A d \in DetailQueries : d.table = "detail" /\ d.of \in Addresses
  BY DEF DetailQueries, Filter
<1>2. \A d \in VaultQueries : d.table = "vaults"
  BY DEF VaultQueries, Filter
<1>3. \A d \in HistoryQueries : d.table = "events"
  BY DEF HistoryQueries, Filter
<1>4. \A d \in NoteQueries : d.table = "notes"
  BY DEF NoteQueries, Filter
<1>5. NoQuery.table = "none"
  BY DEF NoQuery, Filter
<1> QED
  BY <1>1, <1>2, <1>3, <1>4, <1>5, AskedAssumption DEF Walks

LEMMA ScopeIsStored == Scope \subseteq stored
BY DEF Scope, EventsOf, Matching

LEMMA CountIsNatural == TypeOK => Cardinality(CountRows) \in Nat
BY StoredIsFinite, ScopeIsStored DEF CountRows

LEMMA TypeInit == Init => TypeOK
<1> SUFFICES ASSUME Init PROVE TypeOK
  OBVIOUS
<1>1. NoQuery \notin DetailQueries
  BY QuestionKinds
<1> QED
  BY <1>1 DEF Init, TypeOK

LEMMA ClearType ==
    ASSUME TypeOK, Clear, UNCHANGED tableVars PROVE TypeOK'
<1>1. NoQuery \notin DetailQueries
  BY QuestionKinds
<1> QED
  BY <1>1 DEF TypeOK, Clear, tableVars

LEMMA WriteType ==
    ASSUME TypeOK, NEW new \in SUBSET Rows,
           NEW f \in [VaultRows -> Owners \cup {NoOwner}], Write(new, f)
    PROVE  TypeOK'
<1>1. stored' \subseteq Rows /\ stored \subseteq stored' /\ owner' = f
  BY DEF TypeOK, Write
<1>2. entered' \in BOOLEAN /\ left' \in BOOLEAN
  BY DEF TypeOK, Write
<1> QED
  BY <1>1, <1>2 DEF TypeOK, Write, requestVars

LEMMA TypeNext == TypeOK /\ [Next]_vars => TypeOK'
<1> SUFFICES ASSUME TypeOK, [Next]_vars PROVE TypeOK'
  OBVIOUS
<1> USE DEF tableVars, requestVars, walkVars
<1>k. query.table = "detail" <=> query \in DetailQueries
  BY QuestionKinds DEF TypeOK
<1>1. ASSUME NEW q \in Asked, Ask(q) PROVE TypeOK'
  <2>1. q \in DetailQueries => FirstStatement(q) = "find"
    BY QuestionKinds DEF FirstStatement
  <2>2. q # NoQuery
    BY QuestionKinds, AskedAssumption
  <2>3. vault = NoRow
    BY <1>1, QuestionKinds DEF Ask, TypeOK
  <2> QED
    BY <1>1, <2>1, <2>2, <2>3 DEF Ask, TypeOK, FirstStatement, Matching
<1>2. ASSUME FindVault PROVE TypeOK'
  BY <1>2, <1>k DEF FindVault, TypeOK
<1>3. ASSUME FindDetail PROVE TypeOK'
  <2>1. vault' \in VaultRows /\ vault' # NoRow
    BY <1>3, RowAssumption DEF FindDetail, VaultsOf, Matches, TypeOK, VaultRows, InTable
  <2> QED
    BY <1>3, <2>1, <1>k DEF FindDetail, TypeOK
<1>4. ASSUME Refuse \/ Stop PROVE TypeOK'
  BY <1>4, ClearType DEF Refuse, Stop
<1>5. ASSUME Count PROVE TypeOK'
  BY <1>5, CountIsNatural, ScopeIsStored DEF Count, TypeOK
<1>6. ASSUME ReadPage PROVE TypeOK'
  <2>1. Matching(query) \subseteq stored
    BY DEF Matching
  <2> QED
    BY <1>6, <2>1 DEF ReadPage, TypeOK
<1>7. ASSUME ReadLatest PROVE TypeOK'
  <2>1. Candidates \subseteq stored
    BY DEF Candidates, EventsOf
  <2> QED
    BY <1>7, <2>1 DEF ReadLatest, TypeOK
<1>8. ASSUME NextPage PROVE TypeOK'
  <2>1. query \notin DetailQueries
    BY <1>8, QuestionKinds DEF NextPage, TypeOK
  <2> QED
    BY <1>8, <2>1, PageAssumption DEF NextPage, TypeOK, FirstStatement
<1>9. ASSUME NEW new \in SUBSET (VaultRows \ stored),
             NEW moved \in SUBSET (VaultRows \cap stored), CommitVaults(new, moved)
      PROVE TypeOK'
  <2>1. PICK f \in [new \cup moved -> Owners \cup {NoOwner}] :
          Write(new, [r \in VaultRows |-> IF r \in new \cup moved THEN f[r] ELSE owner[r]])
    BY <1>9 DEF CommitVaults
  <2>2. [r \in VaultRows |-> IF r \in new \cup moved THEN f[r] ELSE owner[r]]
          \in [VaultRows -> Owners \cup {NoOwner}]
    BY DEF TypeOK
  <2>3. new \in SUBSET Rows
    BY DEF VaultRows, InTable
  <2> QED
    BY <2>1, <2>2, <2>3, WriteType
<1>10. ASSUME NEW new \in SUBSET (EventRows \ stored), CommitEvents(new) PROVE TypeOK'
  BY <1>10, WriteType DEF CommitEvents, EventRows, InTable, TypeOK
<1>11. ASSUME NEW n \in NoteRows, CommitNote(n) PROVE TypeOK'
  BY <1>11, WriteType DEF CommitNote, NoteRows, InTable, TypeOK
<1>12. ASSUME UNCHANGED vars PROVE TypeOK'
  BY <1>12 DEF vars, TypeOK
<1> QED
  BY <1>1, <1>2, <1>3, <1>4, <1>5, <1>6, <1>7, <1>8, <1>9, <1>10, <1>11, <1>12
     DEF Next, Request, Commit

(* What a request has read, what is stored and the owners keep their types *)
(* (vaults.py:117-277, alerts.py:437-480).                                 *)
THEOREM ListingsTypeCorrect == Spec => []TypeOK
BY TypeInit, TypeNext, PTL DEF Spec

(***************************************************************************)
(* What a request has read.                                                *)
(***************************************************************************)

(* A request has nothing counted before its count, and no rows before its  *)
(* last statement.                                                         *)
Fresh ==
    /\ at \in {"idle", "find", "count"} => counted = {}
    /\ at # "answered" => items = {}

TotalIsCounted == at \in {"page", "latest", "answered"} => total = Cardinality(counted)

Detail == query \in DetailQueries

(* A detail has a vault of its address once that is found, and all it has  *)
(* read is of that vault.                                                  *)
DetailOfVault ==
    /\ at = "page" => ~Detail
    /\ Detail /\ at # "find" =>
          /\ Row[vault].of = query.of /\ query.chain \in {Any, Row[vault].chain}
          /\ counted \cup items \subseteq EventsOf(vault)

DetailIsDated ==
    Detail /\ at = "answered" =>
        /\ counted # {} => items # {}
        /\ \A c \in counted, e \in items : NoLater(c, e)

RequestInv == TypeOK /\ Fresh /\ TotalIsCounted /\ DetailOfVault /\ DetailIsDated

LEMMA CommitIsWrite ==
    ASSUME Commit
    PROVE  /\ stored \subseteq stored'
           /\ UNCHANGED <<requestVars, counted>>
BY DEF Commit, CommitVaults, CommitEvents, CommitNote, Write

LEMMA RequestInvInit == Init => RequestInv
<1> SUFFICES ASSUME Init PROVE RequestInv
  OBVIOUS
<1>1. ~Detail
  BY QuestionKinds DEF Init, Detail
<1> QED
  BY <1>1, TypeInit
     DEF Init, RequestInv, Fresh, TotalIsCounted, DetailOfVault, DetailIsDated

LEMMA LatestIsLast ==
    ASSUME RequestInv, ReadLatest, Detail
    PROVE  /\ items' \subseteq EventsOf(vault)
           /\ counted # {} => items' # {}
           /\ \A c \in counted, e \in items' : NoLater(c, e)
<1> USE DEF RequestInv
<1>1. counted \subseteq Candidates
  BY DEF ReadLatest, DetailOfVault, Candidates
<1>2. PICK S \in SUBSET Candidates :
        /\ Cardinality(S) = Lesser(1, Cardinality(Candidates))
        /\ \A r \in Candidates, s \in S : NoLater(r, s)
        /\ items' = S
  BY DEF ReadLatest
<1>3. IsFiniteSet(Candidates) /\ Cardinality(Candidates) \in Nat
  BY StoredIsFinite DEF Candidates, EventsOf
<1>4. ASSUME counted # {} PROVE S # {}
  <2>1. Cardinality(Candidates) # 0
    BY <1>1, <1>3, <1>4, FS_EmptySet
  <2>2. Cardinality(S) = 1
    BY <1>2, <1>3, <2>1 DEF Lesser
  <2> QED
    BY <2>2, FS_EmptySet
<1> QED
  BY <1>1, <1>2, <1>4 DEF Candidates

LEMMA RequestInvNext == RequestInv /\ [Next]_vars => RequestInv'
<1> SUFFICES ASSUME RequestInv, [Next]_vars PROVE RequestInv'
  OBVIOUS
<1> USE DEF RequestInv, tableVars, requestVars, walkVars
<1>t. TypeOK'
  BY TypeNext
<1>k. query.table = "detail" <=> Detail
  BY QuestionKinds DEF TypeOK, Detail
<1>1. ASSUME NEW q \in Asked, Ask(q) PROVE RequestInv'
  <2>1. Detail' => at' = "find"
    BY <1>1, QuestionKinds DEF Ask, Detail, FirstStatement
  <2> QED
    BY <1>1, <1>t, <2>1
       DEF Ask, FirstStatement, Fresh, TotalIsCounted, DetailOfVault, DetailIsDated
<1>2. ASSUME FindVault PROVE RequestInv'
  BY <1>2, <1>t, <1>k
     DEF FindVault, Fresh, TotalIsCounted, DetailOfVault, DetailIsDated, Detail
<1>3. ASSUME FindDetail PROVE RequestInv'
  <2>1. vault' \in VaultsOf(query) /\ query.of \in Addresses
    BY <1>3, <1>k, QuestionKinds DEF FindDetail, Detail, TypeOK
  <2>2. query.of # Any
    BY <2>1, RowAssumption DEF Addresses, VaultRows, InTable
  <2>3. Row[vault'].of = query.of /\ query.chain \in {Any, Row[vault'].chain}
    BY <2>1, <2>2 DEF VaultsOf, Matches
  <2> QED
    BY <1>3, <1>t, <2>3
       DEF FindDetail, Fresh, TotalIsCounted, DetailOfVault, DetailIsDated, Detail
<1>4. ASSUME Refuse \/ Stop PROVE RequestInv'
  <2>1. ~Detail'
    BY <1>4, QuestionKinds DEF Refuse, Stop, Clear, Detail
  <2> QED
    BY <1>4, <1>t, <2>1
       DEF Refuse, Stop, Clear, Fresh, TotalIsCounted, DetailOfVault, DetailIsDated
<1>5. ASSUME Count PROVE RequestInv'
  <2>1. Fresh' /\ TotalIsCounted' /\ DetailIsDated'
    BY <1>5 DEF Count, CountRows, Fresh, TotalIsCounted, DetailIsDated
  <2>2. Detail => counted' = EventsOf(vault)
    BY <1>5, <1>k DEF Count, Scope
  <2>3. DetailOfVault'
    BY <1>5, <1>k, <2>2 DEF Count, Fresh, DetailOfVault, EventsOf, Detail
  <2> QED
    BY <1>t, <2>1, <2>3
<1>6. ASSUME ReadPage PROVE RequestInv'
  BY <1>6, <1>t DEF ReadPage, Fresh, TotalIsCounted, DetailOfVault, DetailIsDated, Detail
<1>7. ASSUME ReadLatest PROVE RequestInv'
  BY <1>7, <1>t, LatestIsLast
     DEF ReadLatest, Fresh, TotalIsCounted, DetailOfVault, DetailIsDated, Detail, EventsOf
<1>8. ASSUME NextPage PROVE RequestInv'
  <2>1. ~Detail
    BY <1>8, QuestionKinds DEF NextPage, Detail, TypeOK
  <2> QED
    BY <1>8, <1>t, <2>1
       DEF NextPage, FirstStatement, Fresh, TotalIsCounted, DetailOfVault, DetailIsDated, Detail
<1>9. ASSUME Commit PROVE RequestInv'
  <2>1. stored \subseteq stored' /\ UNCHANGED <<requestVars, counted>>
    BY <1>9, CommitIsWrite
  <2> QED
    BY <1>t, <2>1
       DEF Fresh, TotalIsCounted, DetailOfVault, DetailIsDated, Detail, EventsOf
<1>10. ASSUME UNCHANGED vars PROVE RequestInv'
  BY <1>10, <1>t
     DEF vars, Fresh, TotalIsCounted, DetailOfVault, DetailIsDated, Detail, EventsOf
<1> QED
  BY <1>1, <1>2, <1>3, <1>4, <1>5, <1>6, <1>7, <1>8, <1>9, <1>10 DEF Next, Request

LEMMA RequestInvHolds == Spec => []RequestInv
BY RequestInvInit, RequestInvNext, PTL DEF Spec

(* A detail counts and dates the events of one vault of its address,       *)
(* whatever the indexer commits between its three statements               *)
(* (vaults.py:234-265).                                                    *)
THEOREM DetailsAreConsistent == Spec => []DetailIsConsistent
<1>1. RequestInv => DetailIsConsistent
  <2> SUFFICES ASSUME RequestInv, Answered(DetailQueries)
               PROVE  /\ Row[vault].of = query.of
                      /\ query.chain \in {Any, Row[vault].chain}
                      /\ counted \cup items \subseteq EventsOf(vault)
                      /\ total > 0 => items # {}
                      /\ \A c \in counted, e \in items : NoLater(c, e)
    BY DEF DetailIsConsistent
  <2>1. at = "answered" /\ Detail
    BY DEF Answered, Detail
  <2>2. total > 0 => counted # {}
    BY <2>1, FS_EmptySet DEF RequestInv, TotalIsCounted
  <2> QED
    BY <2>1, <2>2 DEF RequestInv, DetailOfVault, DetailIsDated
<1> QED
  BY <1>1, RequestInvHolds, PTL

(* What a page leaves of the rows that match.                              *)
LEMMA PageSize ==
    ASSUME TypeOK, NEW S, NEW M \in SUBSET stored, IsPage(S, M)
    PROVE  Cardinality(S) = Lesser(Limit, Cardinality(M) - Lesser(offset, Cardinality(M)))
<1>1. PICK before \in SUBSET (M \ S) :
        /\ Cardinality(before) = Lesser(offset, Cardinality(M))
        /\ Cardinality(S) = Lesser(Limit, Cardinality(M \ before))
  BY DEF IsPage
<1>2. IsFiniteSet(M) /\ IsFiniteSet(before)
  BY StoredIsFinite
<1>3. Cardinality(M \ before) = Cardinality(M) - Cardinality(before)
  <2>1. M \cap before = before
    BY <1>1
  <2> QED
    BY <1>2, <2>1, FS_Difference
<1> QED
  BY <1>1, <1>3

(* The total of an answer fits its rows but for what was committed between *)
(* the two statements (vaults.py:144-145, 205-206; alerts.py:447-463).     *)
THEOREM AnswersFitTotals == Spec => AnswerFitsTotal
<1>1. RequestInv /\ [Next]_vars =>
        [ReadPage =>
          /\ counted \subseteq Matching(query)
                => Cardinality(items') >= Lesser(Limit, total - offset)
          /\ Matching(query) \subseteq counted
                => items' = {} \/ Cardinality(items') <= total - offset]_vars
  <2> SUFFICES ASSUME RequestInv, ReadPage
               PROVE  /\ counted \subseteq Matching(query)
                            => Cardinality(items') >= Lesser(Limit, total - offset)
                      /\ Matching(query) \subseteq counted
                            => items' = {} \/ Cardinality(items') <= total - offset
    OBVIOUS
  <2> DEFINE M == Matching(query)
  <2>1. M \in SUBSET stored
    BY DEF Matching
  <2>2. IsPage(items', M) /\ items' \in SUBSET M
    BY DEF ReadPage
  <2>3. Cardinality(items') = Lesser(Limit, Cardinality(M) - Lesser(offset, Cardinality(M)))
    BY <2>1, <2>2, PageSize DEF RequestInv
  <2>4. /\ total = Cardinality(counted) /\ total \in Nat /\ offset \in Nat
        /\ counted \in SUBSET stored
    BY DEF RequestInv, TotalIsCounted, ReadPage, TypeOK
  <2>5. IsFiniteSet(M) /\ Cardinality(M) \in Nat /\ IsFiniteSet(counted)
    BY <2>1, <2>4, StoredIsFinite DEF RequestInv
  <2>6. counted \subseteq M => total <= Cardinality(M)
    BY <2>4, <2>5, FS_Subset
  <2>7. M \subseteq counted => Cardinality(M) <= total
    BY <2>4, <2>5, FS_Subset
  <2>8. Cardinality(items') = 0 => items' = {}
    BY <2>2, <2>5, FS_Subset, FS_EmptySet
  <2> HIDE DEF M
  <2>9. counted \subseteq M => Cardinality(items') >= Lesser(Limit, total - offset)
    BY <2>3, <2>4, <2>5, <2>6, PageAssumption DEF Lesser
  <2>10. M \subseteq counted => items' = {} \/ Cardinality(items') <= total - offset
    BY <2>3, <2>4, <2>5, <2>7, <2>8, PageAssumption DEF Lesser
  <2> QED
    BY <2>9, <2>10 DEF M
<1> QED
  BY <1>1, RequestInvHolds, PTL DEF Spec, AnswerFitsTotal

(***************************************************************************)
(* The walk over the pages.                                                *)
(*                                                                         *)
(* A row's place in a listing is the number of rows in front of it.  Where *)
(* the order tells all rows apart, a page has the rows with the places     *)
(* from offset to offset + Limit - 1.  Rows that come in move others back, *)
(* rows that leave move others forward: a row that was owed and is not     *)
(* seen is still in front of the walk unless one has left, and a row that  *)
(* was seen is behind it unless one has entered.                           *)
(***************************************************************************)

Listed == Matching(query)
InFront(M, r) == {s \in M : ~NoLater(s, r)}
Reach == IF at = "answered" THEN offset + Limit ELSE offset

NotBegun ==
    /\ query \notin Walks => seen = {}
    /\ at = "latest" => query \notin Walks
    /\ at = "idle" => offset = 0 /\ ~entered /\ ~left

NonePassed ==
    query \in Walks /\ ~left /\ ~Tied =>
        /\ owed \subseteq Listed
        /\ \A r \in owed \ seen :
              /\ Cardinality(InFront(Listed, r)) >= Reach
              /\ at = "answered" => Cardinality(items) = Limit

NoneAgain ==
    ~entered /\ ~Tied =>
        /\ twice = {}
        /\ \A r \in seen \cap Listed : Cardinality(InFront(Listed, r)) < Reach

WalkInv == RequestInv /\ NotBegun /\ NonePassed /\ NoneAgain

(* What a page says of the places of its rows and of those it leaves out.  *)
LEMMA PagePlaces ==
    ASSUME TypeOK, NEW M \in SUBSET stored, NEW S \in SUBSET M, IsPage(S, M),
           \A r, s \in M : r # s => Row[r].at # Row[s].at
    PROVE  /\ \A r \in S : /\ Cardinality(InFront(M, r)) >= offset
                           /\ Cardinality(InFront(M, r)) < offset + Limit
           /\ \A r \in M \ S : Cardinality(InFront(M, r)) >= offset =>
                 /\ Cardinality(InFront(M, r)) >= offset + Limit
                 /\ Cardinality(S) = Limit
<1>1. PICK before \in SUBSET (M \ S) :
        /\ Cardinality(before) = Lesser(offset, Cardinality(M))
        /\ Cardinality(S) = Lesser(Limit, Cardinality(M \ before))
        /\ \A r \in M \ before, b \in before : NoLater(r, b)
        /\ \A r \in M \ (before \cup S), s \in S : NoLater(r, s)
  BY DEF IsPage
<1>2. ASSUME NEW T \in SUBSET M PROVE IsFiniteSet(T) /\ Cardinality(T) \in Nat
  BY StoredIsFinite
<1>3. ASSUME NEW T \in SUBSET M, NEW U \in SUBSET M, T \subseteq U
      PROVE  Cardinality(T) <= Cardinality(U) /\ (Cardinality(T) = Cardinality(U) => T = U)
  BY <1>2, <1>3, FS_Subset
<1>4. offset \in Nat /\ Limit \in Nat \ {0}
  BY PageAssumption DEF TypeOK
<1>5. \A r, s \in M : /\ Row[r].at \in Nat /\ Row[s].at \in Nat
                      /\ r # s => (NoLater(s, r) <=> ~NoLater(r, s))
                      /\ NoLater(r, r)
  BY RowAssumption DEF TypeOK, NoLater
<1>6. ASSUME NEW r \in M PROVE InFront(M, r) \in SUBSET M
  BY DEF InFront
<1>7. \A r \in M \ before : before \subseteq InFront(M, r) /\ Cardinality(before) = offset
  <2> SUFFICES ASSUME NEW r \in M \ before
               PROVE  before \subseteq InFront(M, r) /\ Cardinality(before) = offset
    OBVIOUS
  <2>1. before \subseteq InFront(M, r)
    BY <1>1, <1>5 DEF InFront
  <2>2. Cardinality(before) # Cardinality(M)
    BY <1>3
  <2> QED
    BY <1>1, <1>2, <1>4, <2>1, <2>2 DEF Lesser
<1>8. Cardinality(before \cup S) = Cardinality(before) + Cardinality(S)
  <2>1. Cardinality(before \cap S) = 0
    <3>1. before \cap S = {}
      BY <1>1
    <3> QED
      BY <3>1, FS_EmptySet
  <2>2. IsFiniteSet(before) /\ IsFiniteSet(S)
    BY <1>2
  <2>3. Cardinality(before) \in Nat /\ Cardinality(S) \in Nat
    BY <1>2
  <2>4. Cardinality(before \cup S)
          = Cardinality(before) + Cardinality(S) - Cardinality(before \cap S)
    BY <2>2, FS_Union
  <2> QED
    BY <2>1, <2>3, <2>4
<1>9. ASSUME NEW r \in S
      PROVE  Cardinality(InFront(M, r)) >= offset /\ Cardinality(InFront(M, r)) < offset + Limit
  <2>1. Cardinality(before) = offset /\ Cardinality(before) <= Cardinality(InFront(M, r))
    BY <1>1, <1>3, <1>6, <1>7
  <2>2. InFront(M, r) \subseteq before \cup S /\ r \in before \cup S /\ r \notin InFront(M, r)
    BY <1>1, <1>5 DEF InFront
  <2>3. /\ Cardinality(InFront(M, r)) <= Cardinality(before \cup S)
        /\ Cardinality(InFront(M, r)) # Cardinality(before \cup S)
    BY <1>3, <1>6, <2>2
  <2>4. Cardinality(S) <= Limit
    BY <1>1, <1>2, <1>4 DEF Lesser
  <2>5. /\ Cardinality(InFront(M, r)) \in Nat /\ Cardinality(before) \in Nat
        /\ Cardinality(S) \in Nat
    BY <1>2, <1>6
  <2> QED
    BY <1>4, <1>8, <2>1, <2>3, <2>4, <2>5
<1>10. ASSUME NEW r \in M \ S, Cardinality(InFront(M, r)) >= offset
       PROVE  Cardinality(InFront(M, r)) >= offset + Limit /\ Cardinality(S) = Limit
  <2>1. r \notin before
    <3> SUFFICES ASSUME r \in before PROVE FALSE
      OBVIOUS
    <3>1. InFront(M, r) \subseteq before /\ r \notin InFront(M, r)
      BY <1>1, <1>5 DEF InFront
    <3>2. /\ Cardinality(InFront(M, r)) <= Cardinality(before)
          /\ Cardinality(InFront(M, r)) # Cardinality(before)
      BY <1>3, <1>6, <3>1
    <3>3. Cardinality(before) <= offset
      BY <1>1, <1>2, <1>4 DEF Lesser
    <3> QED
      BY <1>2, <1>4, <1>6, <1>10, <3>2, <3>3
  <2>2. Cardinality(before) = offset
    BY <1>7, <2>1
  <2>3. before \cup S \subseteq InFront(M, r)
    BY <1>1, <1>5, <1>7, <2>1 DEF InFront
  <2>4. Cardinality(S) = Limit
    <3>1. S \subseteq M \ before /\ S # M \ before
      BY <1>1, <2>1
    <3>2. Cardinality(S) # Cardinality(M \ before)
      BY <1>3, <3>1
    <3> QED
      BY <1>1, <1>2, <1>4, <3>2 DEF Lesser
  <2>5. Cardinality(before \cup S) <= Cardinality(InFront(M, r))
    BY <1>3, <1>6, <2>3
  <2> QED
    BY <1>2, <1>4, <1>6, <1>8, <2>2, <2>4, <2>5
<1> QED
  BY <1>9, <1>10

(* What is committed while a walk is under way: a row that enters or       *)
(* leaves is noticed, and rows that tie go on to do so.                    *)
LEMMA CommitMoves ==
    ASSUME TypeOK, Commit, query \in Walks
    PROVE  /\ UNCHANGED <<requestVars, seen, twice, owed, counted>>
           /\ ~entered' => ~entered /\ Listed' \subseteq Listed
           /\ ~left' => ~left /\ Listed \subseteq Listed'
           /\ Tied => Tied'
<1>1. PICK new, f : new \subseteq Rows /\ Write(new, f)
  BY DEF Commit, CommitVaults, CommitEvents, CommitNote, VaultRows, EventRows, NoteRows,
         InTable, TypeOK
<1>2. at # "idle"
  BY QuestionKinds DEF TypeOK
<1> DEFINE then == {r \in stored' : Matches(r, query.table, query, f)}
<1>3. /\ UNCHANGED <<requestVars, seen, twice, owed, counted>>
      /\ stored \subseteq stored' /\ owner' = f
      /\ entered' = (entered \/ (at # "idle" /\ then \ Listed # {}))
      /\ left' = (left \/ (at # "idle" /\ Listed \ then # {}))
  BY <1>1 DEF Write, Listed
<1>4. Listed' = then
  BY <1>3 DEF Listed, Matching, requestVars
<1>5. ~entered' => ~entered /\ Listed' \subseteq Listed
  <2> SUFFICES ASSUME ~entered' PROVE ~entered /\ Listed' \subseteq Listed
    OBVIOUS
  <2>1. ~entered /\ ~(then \ Listed # {})
    BY <1>2, <1>3, Zenon
  <2> QED
    BY <1>4, <2>1
<1>6. ~left' => ~left /\ Listed \subseteq Listed'
  <2> SUFFICES ASSUME ~left' PROVE ~left /\ Listed \subseteq Listed'
    OBVIOUS
  <2>1. ~left /\ ~(Listed \ then # {})
    BY <1>2, <1>3, Zenon
  <2> QED
    BY <1>4, <2>1
<1>7. ASSUME Tied PROVE Tied'
  <2>1. PICK r, s \in Listed : r # s /\ Row[r].at = Row[s].at
    BY <1>7 DEF Tied, Listed
  <2>2. query \notin VaultQueries
    <3> SUFFICES ASSUME query \in VaultQueries PROVE FALSE
      OBVIOUS
    <3>1. query.table = "vaults"
      BY DEF VaultQueries, Filter
    <3>2. r \in VaultRows /\ s \in VaultRows
      BY <2>1, <3>1 DEF Listed, Matching, Matches, VaultRows, InTable, TypeOK
    <3> QED
      BY <2>1, <3>2, VaultAssumption
  <2>3. query.owner = Any
    BY <2>2 DEF Walks, HistoryQueries, NoteQueries, Filter
  <2>4. r \in Listed' /\ s \in Listed'
    BY <1>3, <1>4, <2>1, <2>3 DEF Listed, Matching, Matches
  <2> QED
    BY <2>1, <2>4 DEF Tied, Listed
<1> QED
  BY <1>3, <1>5, <1>6, <1>7

LEMMA WalkInvInit == Init => WalkInv
<1> SUFFICES ASSUME Init PROVE WalkInv
  OBVIOUS
<1>1. query \notin Walks
  BY QuestionKinds DEF Init
<1> QED
  BY <1>1, RequestInvInit DEF Init, WalkInv, NotBegun, NonePassed, NoneAgain

(* Steps of a request that return no row of a walk.                        *)
LEMMA WalkWaits ==
    ASSUME WalkInv, {at, at'} \cap {"idle", "answered"} = {},
           at' = "latest" => query \notin Walks,
           UNCHANGED <<tableVars, query, offset, items, seen, twice, owed, entered, left>>
    PROVE  NotBegun' /\ NonePassed' /\ NoneAgain'
<1>1. UNCHANGED <<Listed, Tied, Reach>> /\ \A r : UNCHANGED InFront(Listed, r)
  BY DEF Listed, Matching, Tied, Reach, InFront, tableVars
<1> QED
  BY <1>1 DEF WalkInv, NotBegun, NonePassed, NoneAgain

LEMMA WalkReads ==
    ASSUME WalkInv, ReadPage
    PROVE  NotBegun' /\ NonePassed' /\ NoneAgain'
<1>1. PICK S \in SUBSET Listed :
        /\ IsPage(S, Listed)
        /\ items' = S /\ seen' = seen \cup S /\ twice' = twice \cup (seen \cap S)
  BY DEF ReadPage, Listed
<1>2. /\ at = "page" /\ at' = "answered"
      /\ UNCHANGED <<tableVars, query, offset, vault, owed, entered, left>>
  BY DEF ReadPage
<1>3. query \in Walks /\ TypeOK
  BY <1>2, AskedAssumption, QuestionKinds
     DEF WalkInv, RequestInv, DetailOfVault, Detail, TypeOK
<1>4. UNCHANGED <<Listed, Tied>> /\ \A r : UNCHANGED InFront(Listed, r)
  BY <1>2 DEF Listed, Matching, Tied, InFront, tableVars
<1>5. Reach = offset /\ Reach' = offset + Limit
  BY <1>2 DEF Reach
<1>6. NotBegun'
  BY <1>2, <1>3 DEF NotBegun
<1>7. Listed \in SUBSET stored
  BY DEF Listed, Matching
<1>8. ASSUME ~Tied
      PROVE  /\ \A r \in S : /\ Cardinality(InFront(Listed, r)) >= offset
                             /\ Cardinality(InFront(Listed, r)) < offset + Limit
             /\ \A r \in Listed \ S : Cardinality(InFront(Listed, r)) >= offset =>
                   /\ Cardinality(InFront(Listed, r)) >= offset + Limit
                   /\ Cardinality(S) = Limit
  <2>1. \A r, s \in Listed : r # s => Row[r].at # Row[s].at
    BY <1>8 DEF Tied, Listed
  <2> QED
    BY <1>1, <1>3, <1>7, <2>1, PagePlaces
<1>9. NonePassed'
  <2> SUFFICES ASSUME ~left, ~Tied
               PROVE  /\ owed \subseteq Listed
                      /\ \A r \in owed \ seen' :
                            /\ Cardinality(InFront(Listed, r)) >= offset + Limit
                            /\ Cardinality(S) = Limit
    BY <1>1, <1>2, <1>4, <1>5 DEF NonePassed
  <2>1. /\ owed \subseteq Listed
        /\ \A r \in owed \ seen : Cardinality(InFront(Listed, r)) >= offset
    BY <1>3, <1>5 DEF WalkInv, NonePassed
  <2> QED
    BY <1>1, <1>8, <2>1
<1>10. NoneAgain'
  <2> SUFFICES ASSUME ~entered, ~Tied
               PROVE  /\ twice' = {}
                      /\ \A r \in seen' \cap Listed :
                            Cardinality(InFront(Listed, r)) < offset + Limit
    BY <1>2, <1>4, <1>5 DEF NoneAgain
  <2>1. /\ twice = {}
        /\ \A r \in seen \cap Listed : Cardinality(InFront(Listed, r)) < offset
    BY <1>5 DEF WalkInv, NoneAgain
  <2>2. offset \in Nat /\ Limit \in Nat \ {0}
    BY <1>3, PageAssumption DEF TypeOK
  <2>3. \A r \in Listed : Cardinality(InFront(Listed, r)) \in Nat
    BY <1>3, <1>7, StoredIsFinite DEF InFront
  <2>4. seen \cap S = {}
    <3> SUFFICES ASSUME NEW r \in seen \cap S PROVE FALSE
      OBVIOUS
    <3>1. /\ Cardinality(InFront(Listed, r)) < offset
          /\ Cardinality(InFront(Listed, r)) >= offset
          /\ Cardinality(InFront(Listed, r)) \in Nat
      BY <1>1, <1>8, <2>1, <2>3
    <3> QED
      BY <2>2, <3>1
  <2>5. ASSUME NEW r \in seen' \cap Listed
        PROVE  Cardinality(InFront(Listed, r)) < offset + Limit
    BY <1>1, <1>8, <2>1, <2>2, <2>3, <2>5
  <2> QED
    BY <1>1, <2>1, <2>4, <2>5
<1> QED
  BY <1>6, <1>9, <1>10

LEMMA WalkCommits ==
    ASSUME WalkInv, Commit
    PROVE  NotBegun' /\ NonePassed' /\ NoneAgain'
<1>1. TypeOK /\ TypeOK'
  BY TypeNext DEF WalkInv, RequestInv, Next
<1>2. CASE query \notin Walks
  <2>1. /\ UNCHANGED <<requestVars, seen, twice>>
        /\ at = "idle" => UNCHANGED <<entered, left>>
    <3>1. PICK new, f : Write(new, f)
      BY DEF Commit, CommitVaults, CommitEvents, CommitNote
    <3> QED
      BY <1>1, <3>1 DEF Write, TypeOK
  <2>2. seen = {} /\ twice = {}
    BY <1>1, <1>2 DEF WalkInv, NotBegun, TypeOK
  <2> QED
    BY <1>2, <2>1, <2>2 DEF WalkInv, NotBegun, NonePassed, NoneAgain, requestVars
<1>3. CASE query \in Walks
  <2>1. /\ UNCHANGED <<requestVars, seen, twice, owed, counted>>
        /\ ~entered' => ~entered /\ Listed' \subseteq Listed
        /\ ~left' => ~left /\ Listed \subseteq Listed'
        /\ Tied => Tied'
    BY <1>1, <1>3, CommitMoves
  <2>2. at # "idle" /\ offset \in Nat /\ Limit \in Nat
    BY <1>1, <1>3, QuestionKinds, PageAssumption DEF TypeOK
  <2>3. Reach' = Reach /\ Reach \in Nat
    BY <2>1, <2>2 DEF Reach, requestVars
  <2>4. Listed \in SUBSET stored /\ Listed' \in SUBSET stored'
    BY DEF Listed, Matching
  <2>5. ASSUME NEW M, NEW N \in SUBSET M, NEW r, IsFiniteSet(M)
        PROVE  /\ Cardinality(InFront(N, r)) <= Cardinality(InFront(M, r))
               /\ Cardinality(InFront(N, r)) \in Nat /\ Cardinality(InFront(M, r)) \in Nat
    <3>1. InFront(N, r) \subseteq InFront(M, r) /\ InFront(M, r) \subseteq M
      BY DEF InFront
    <3> QED
      BY <2>5, <3>1, FS_Subset, FS_CardinalityType
  <2>6. IsFiniteSet(Listed) /\ IsFiniteSet(Listed')
    BY <1>1, <2>4, RowAssumption, FS_Subset DEF TypeOK
  <2>7. NotBegun'
    BY <1>3, <2>1, <2>2 DEF WalkInv, NotBegun, requestVars
  <2>8. NonePassed'
    <3> SUFFICES ASSUME ~left', ~Tied'
                 PROVE  /\ owed \subseteq Listed'
                        /\ \A r \in owed \ seen :
                              /\ Cardinality(InFront(Listed', r)) >= Reach
                              /\ at = "answered" => Cardinality(items) = Limit
      BY <2>1, <2>3 DEF NonePassed, InFront, NoLater, requestVars
    <3>1. /\ owed \subseteq Listed
          /\ \A r \in owed \ seen :
                /\ Cardinality(InFront(Listed, r)) >= Reach
                /\ at = "answered" => Cardinality(items) = Limit
      BY <1>3, <2>1 DEF WalkInv, NonePassed
    <3>2. ASSUME NEW r \in owed \ seen
          PROVE  Cardinality(InFront(Listed', r)) >= Reach
      <4>1. /\ Cardinality(InFront(Listed, r)) <= Cardinality(InFront(Listed', r))
            /\ Cardinality(InFront(Listed, r)) \in Nat
            /\ Cardinality(InFront(Listed', r)) \in Nat
        BY <2>1, <2>5, <2>6
      <4> QED
        BY <2>3, <3>1, <4>1
    <3> QED
      BY <2>1, <3>1, <3>2
  <2>9. NoneAgain'
    <3> SUFFICES ASSUME ~entered', ~Tied'
                 PROVE  /\ twice = {}
                        /\ \A r \in seen \cap Listed' :
                              Cardinality(InFront(Listed', r)) < Reach
      BY <2>1, <2>3 DEF NoneAgain, InFront, NoLater
    <3>1. /\ twice = {}
          /\ \A r \in seen \cap Listed : Cardinality(InFront(Listed, r)) < Reach
      BY <2>1 DEF WalkInv, NoneAgain
    <3>2. ASSUME NEW r \in seen \cap Listed'
          PROVE  Cardinality(InFront(Listed', r)) < Reach
      <4>1. /\ Cardinality(InFront(Listed', r)) <= Cardinality(InFront(Listed, r))
            /\ Cardinality(InFront(Listed, r)) \in Nat
            /\ Cardinality(InFront(Listed', r)) \in Nat
        BY <2>1, <2>5, <2>6
      <4>2. Cardinality(InFront(Listed, r)) < Reach
        BY <2>1, <3>1
      <4> QED
        BY <2>3, <4>1, <4>2
    <3> QED
      BY <3>1, <3>2
  <2> QED
    BY <2>7, <2>8, <2>9
<1> QED
  BY <1>2, <1>3

LEMMA WalkInvNext == WalkInv /\ [Next]_vars => WalkInv'
<1> SUFFICES ASSUME WalkInv, [Next]_vars PROVE NotBegun' /\ NonePassed' /\ NoneAgain'
  BY RequestInvNext DEF WalkInv
<1> DEFINE Goal == NotBegun' /\ NonePassed' /\ NoneAgain'
<1>1. TypeOK
  BY DEF WalkInv, RequestInv
<1>2. ASSUME NEW q \in Asked, Ask(q) PROVE Goal
  <2>1. /\ at = "idle" /\ query' = q /\ at' \in {"find", "count"} /\ owed' = Matching(q)
        /\ UNCHANGED <<stored, owner, offset, seen, twice, entered, left>>
    BY <1>2 DEF Ask, FirstStatement, tableVars
  <2>2. query = NoQuery /\ offset = 0 /\ ~entered /\ ~left /\ seen = {} /\ twice = {}
    BY <1>1, <2>1, QuestionKinds DEF WalkInv, NotBegun, TypeOK
  <2>3. owed' = Listed' /\ Reach' = 0
    BY <2>1, <2>2 DEF Listed, Matching, Reach
  <2>4. \A r : Cardinality(InFront(Listed', r)) \in Nat
    <3>1. TypeOK'
      BY <1>1, TypeNext
    <3>2. IsFiniteSet(Listed')
      BY <3>1, RowAssumption, FS_Subset DEF Listed, Matching, TypeOK
    <3> QED
      BY <3>2, FS_Subset, FS_CardinalityType DEF InFront
  <2>5. NonePassed'
    <3>1. \A r : Cardinality(InFront(Listed', r)) >= Reach'
      BY <2>3, <2>4
    <3>2. \A r : InFront(Listed, r)' = InFront(Listed', r)
      BY DEF InFront, NoLater
    <3> QED
      BY <2>1, <2>3, <3>1, <3>2 DEF NonePassed
  <2> QED
    BY <2>1, <2>2, <2>5 DEF NotBegun, NoneAgain
<1>3. ASSUME FindVault \/ FindDetail \/ Count \/ ReadLatest PROVE Goal
  <2>1. CASE FindVault \/ FindDetail \/ Count
    <3>1. /\ UNCHANGED <<tableVars, query, offset, items, seen, twice, owed,
                         entered, left>>
          /\ {at, at'} \cap {"idle", "answered"} = {}
      BY <2>1 DEF FindVault, FindDetail, Count, walkVars
    <3>2. at' = "latest" => query \notin Walks
      BY <1>1, <2>1, QuestionKinds DEF FindVault, FindDetail, Count, TypeOK
    <3> QED
      BY <3>1, <3>2, WalkWaits
  <2>2. CASE ReadLatest
    <3>1. query \notin Walks /\ seen = {} /\ twice = {}
      BY <1>1, <2>2 DEF ReadLatest, WalkInv, NotBegun, TypeOK
    <3> QED
      BY <2>2, <3>1 DEF ReadLatest, NotBegun, NonePassed, NoneAgain, walkVars
  <2> QED
    BY <1>3, <2>1, <2>2
<1>4. ASSUME Refuse \/ Stop PROVE Goal
  <2>1. query' \notin Walks
    BY <1>4, QuestionKinds DEF Refuse, Stop, Clear
  <2> QED
    BY <1>4, <2>1 DEF Refuse, Stop, Clear, NotBegun, NonePassed, NoneAgain
<1>5. ASSUME NextPage PROVE Goal
  <2>1. /\ at = "answered" /\ at' \in {"find", "count"} /\ offset' = offset + Limit
        /\ UNCHANGED <<tableVars, query, seen, twice, owed, entered, left>>
        /\ query \in Walks
    BY <1>5 DEF NextPage, FirstStatement
  <2>2. UNCHANGED <<Listed, Tied, Reach>>
    BY <2>1 DEF Listed, Matching, Tied, Reach, tableVars
  <2> QED
    BY <2>1, <2>2 DEF WalkInv, NotBegun, NonePassed, NoneAgain, InFront, NoLater
<1>6. ASSUME UNCHANGED vars PROVE Goal
  <2>1. UNCHANGED <<Listed, Tied, Reach>>
    BY <1>6 DEF vars, Listed, Matching, Tied, Reach, tableVars, requestVars
  <2> QED
    BY <1>6, <2>1
       DEF vars, WalkInv, NotBegun, NonePassed, NoneAgain, InFront, NoLater,
           requestVars, walkVars
<1> QED
  BY <1>2, <1>3, <1>4, <1>5, <1>6, WalkReads, WalkCommits DEF Next, Request

LEMMA WalkInvHolds == Spec => []WalkInv
BY WalkInvInit, WalkInvNext, PTL DEF Spec

(* A walk over the pages has returned every row that was there when it     *)
(* began once its pages end, whatever is inserted meanwhile, unless a row  *)
(* has left or the order leaves rows untold (vaults.py:137-145, 196-206;   *)
(* alerts.py:446-463).                                                     *)
THEOREM WalksAreComplete == Spec => []WalkIsComplete
<1>1. WalkInv => WalkIsComplete
  <2> SUFFICES ASSUME WalkInv, Answered(Walks), ~left, ~Tied, NEW r \in owed \ seen
               PROVE  /\ Cardinality(items) = Limit
                      /\ offset + Limit < total \/ ~(Matching(query) \subseteq counted)
    BY DEF WalkIsComplete
  <2>1. /\ r \in Listed /\ Cardinality(InFront(Listed, r)) >= offset + Limit
        /\ Cardinality(items) = Limit
    BY DEF WalkInv, NonePassed, Answered, Reach
  <2>2. ASSUME Matching(query) \subseteq counted PROVE offset + Limit < total
    <3>1. InFront(Listed, r) \subseteq counted /\ r \in counted
      BY <2>1, <2>2 DEF InFront, Listed
    <3>2. r \notin InFront(Listed, r)
      <4>1. Row[r].at \in Nat
        BY <2>1, RowAssumption DEF Listed, Matching, WalkInv, RequestInv, TypeOK
      <4> QED
        BY <4>1 DEF InFront, NoLater
    <3>3. /\ IsFiniteSet(counted) /\ total = Cardinality(counted) /\ total \in Nat
          /\ offset \in Nat /\ Limit \in Nat
      BY StoredIsFinite, PageAssumption
         DEF WalkInv, RequestInv, TotalIsCounted, Answered, TypeOK
    <3>4. /\ Cardinality(InFront(Listed, r)) <= Cardinality(counted)
          /\ Cardinality(InFront(Listed, r)) # Cardinality(counted)
      BY <3>1, <3>2, <3>3, FS_Subset
    <3>5. Cardinality(InFront(Listed, r)) \in Nat
      BY <3>1, <3>3, FS_Subset, FS_CardinalityType
    <3> QED
      BY <2>1, <3>3, <3>4, <3>5
  <2> QED
    BY <2>1, <2>2
<1> QED
  BY <1>1, WalkInvHolds, PTL

(* A row is shown on two pages of a walk only if another one has come in   *)
(* front of it meanwhile, or ties with it (vaults.py:138, 200-202;         *)
(* alerts.py:460-462).                                                     *)
THEOREM RepeatsAreExplained == Spec => []RepeatsNeedInserts
<1>1. WalkInv => RepeatsNeedInserts
  BY DEF WalkInv, NoneAgain, RepeatsNeedInserts
<1> QED
  BY <1>1, WalkInvHolds, PTL

(***************************************************************************)
(* Places in a sorted set.  A page of the subgraph is a range of places,   *)
(* so what a pass over the pages sees or misses is a matter of how many    *)
(* ids are in front of one.                                                *)
(***************************************************************************)

Less == {x \in Nat \X Nat : x[1] < x[2]}

(* Every set of natural numbers but the empty one has a least element.     *)
LEMMA LeastOf ==
    ASSUME NEW T, T \subseteq Nat, T # {}
    PROVE  \E x \in T : \A y \in T : x <= y
<1>1. Less = OpToRel(<, Nat)
  BY DEF Less, OpToRel
<1>2. PICK x \in T : \A y \in T : <<y, x>> \notin Less
  BY <1>1, NatLessThanWellFounded, WFMin
<1>3. ASSUME NEW y \in T PROVE x <= y
  <2>1. <<y, x>> \in Less <=> y < x
    BY DEF Less
  <2> QED
    BY <2>1, <1>2
<1> QED
  BY <1>3

(* The ids of D in front of i, and how many they are.                      *)
Before(D, i) == {j \in D : j < i}
Rank(D, i) == Cardinality(Before(D, i))

LEMMA RankType ==
    ASSUME NEW D, IsFiniteSet(D), NEW i
    PROVE  IsFiniteSet(Before(D, i)) /\ Rank(D, i) \in Nat
<1>1. IsFiniteSet(Before(D, i))
  BY FS_Subset DEF Before
<1> QED
  BY <1>1, FS_CardinalityType DEF Rank

LEMMA RankOrders ==
    ASSUME NEW D, IsFiniteSet(D), D \subseteq Nat, NEW i \in D, NEW j \in D, i < j
    PROVE  Rank(D, i) < Rank(D, j)
<1>1. i \notin Before(D, i) /\ Before(D, i) \cup {i} \subseteq Before(D, j)
  <2>1. i \in Nat /\ j \in Nat /\ ~(i < i)
    OBVIOUS
  <2>2. \A x \in D : x \in Nat /\ (x < i => x < j)
    BY <2>1
  <2> QED
    BY <2>1, <2>2 DEF Before
<1>2. IsFiniteSet(Before(D, i) \cup {i})
      /\ Cardinality(Before(D, i) \cup {i}) = Rank(D, i) + 1
  BY <1>1, RankType, FS_AddElement DEF Rank
<1>3. Cardinality(Before(D, i) \cup {i}) <= Rank(D, j)
  BY <1>1, RankType, FS_Subset DEF Rank
<1> QED
  BY <1>2, <1>3, RankType

LEMMA RankTells ==
    ASSUME NEW D, IsFiniteSet(D), D \subseteq Nat,
           NEW i \in D, NEW j \in D, Rank(D, i) = Rank(D, j)
    PROVE  i = j
<1>1. Rank(D, i) \in Nat
  BY RankType
<1>2. i < j => Rank(D, i) < Rank(D, j)
  BY RankOrders
<1>3. j < i => Rank(D, j) < Rank(D, i)
  BY RankOrders
<1> QED
  BY <1>1, <1>2, <1>3

(* No place is empty: up to the rank of any id, each number is the rank of *)
(* one.                                                                    *)
LEMMA RanksAreFilled ==
    ASSUME NEW D, IsFiniteSet(D), D \subseteq Nat,
           NEW i \in D, NEW m \in Nat, m <= Rank(D, i)
    PROVE  \E x \in D : Rank(D, x) = m
<1> DEFINE High == {x \in D : Rank(D, x) >= m}
<1>1. PICK x \in High : \A y \in High : x <= y
  BY LeastOf
<1>2. \A y \in Before(D, x) : Rank(D, y) \in 0..(m - 1)
  <2> TAKE y \in Before(D, x)
  <2>1. y \in D /\ y < x
    BY DEF Before
  <2>2. y \notin High
    BY <1>1, <2>1
  <2> QED
    BY <2>1, <2>2, RankType
<1>3. [y \in Before(D, x) |-> Rank(D, y)] \in Injection(Before(D, x), 0..(m - 1))
  <2>1. \A y \in Before(D, x), z \in Before(D, x) : Rank(D, y) = Rank(D, z) => y = z
    BY RankTells DEF Before
  <2> QED
    BY <1>2, <2>1 DEF Injection, IsInjective
<1>4. IsFiniteSet(0..(m - 1)) /\ Cardinality(0..(m - 1)) = m
  <2>1. /\ IsFiniteSet(0..(m - 1))
        /\ Cardinality(0..(m - 1)) = IF 0 > m - 1 THEN 0 ELSE m - 1 - 0 + 1
    BY FS_Interval
  <2> QED
    BY <2>1
<1>5. Rank(D, x) <= m
  BY <1>3, <1>4, FS_Injection DEF Rank
<1> QED
  BY <1>1, <1>5, RankType

(* The ids of the page that skips n.                                       *)
OnPage(D, n) == {i \in D : Rank(D, i) \in n..(n + Batch - 1)}

(* A page has Batch ids at most, and it has as many if an id lies behind   *)
(* it.                                                                     *)
LEMMA PageFits ==
    ASSUME NEW D, IsFiniteSet(D), D \subseteq Nat, NEW n \in Nat
    PROVE  /\ IsFiniteSet(OnPage(D, n))
           /\ Cardinality(OnPage(D, n)) \in Nat
           /\ Cardinality(OnPage(D, n)) <= Batch
<1> DEFINE Ranks == n..(n + Batch - 1)
<1>1. IsFiniteSet(OnPage(D, n))
  BY FS_Subset DEF OnPage
<1>2. IsFiniteSet(Ranks) /\ Cardinality(Ranks) = Batch
  BY FS_Interval, PageAssumption
<1>3. [i \in OnPage(D, n) |-> Rank(D, i)] \in Injection(OnPage(D, n), Ranks)
  BY RankTells DEF Injection, IsInjective, OnPage
<1>4. Cardinality(OnPage(D, n)) <= Cardinality(Ranks)
  BY <1>2, <1>3, FS_Injection
<1> QED
  BY <1>1, <1>2, <1>4, FS_CardinalityType

LEMMA PageFilled ==
    ASSUME NEW D, IsFiniteSet(D), D \subseteq Nat, NEW n \in Nat,
           NEW i \in D, Rank(D, i) >= n + Batch
    PROVE  Cardinality(OnPage(D, n)) = Batch
<1> DEFINE Ranks == n..(n + Batch - 1)
           f == [x \in OnPage(D, n) |-> Rank(D, x)]
<1>1. IsFiniteSet(Ranks) /\ Cardinality(Ranks) = Batch
  BY FS_Interval, PageAssumption
<1>2. \A m \in Ranks : \E x \in OnPage(D, n) : Rank(D, x) = m
  <2> TAKE m \in Ranks
  <2>1. m \in Nat /\ m <= Rank(D, i)
    BY RankType, PageAssumption
  <2>2. PICK x \in D : Rank(D, x) = m
    BY <2>1, RanksAreFilled
  <2> QED
    BY <2>2 DEF OnPage
<1>3. f \in Surjection(OnPage(D, n), Ranks)
  BY <1>2 DEF Surjection, OnPage
<1>4. Cardinality(Ranks) <= Cardinality(OnPage(D, n))
  BY <1>3, PageFits, FS_Surjection
<1>5. Cardinality(OnPage(D, n)) \in Nat /\ Cardinality(OnPage(D, n)) <= Batch
  BY PageFits
<1> QED
  BY <1>1, <1>4, <1>5, PageAssumption

(***************************************************************************)
(* The commits of the indexer.  CommitVaults and CommitEvents take for     *)
(* granted that the indexer inserts rows and gives vaults owners, a page   *)
(* at a time, and does nothing else to the tables.  Here its module, with a*)
(* history of owners, is instantiated, and that is proved of it, along with*)
(* its types and with what a pass that ends has done for rows and owners.  *)
(***************************************************************************)
CONSTANTS VaultIds, EventIds, Workers, Commands, Observed, Depth, MaxTroubles
VARIABLES sg, past, db, stage, kind, studio, skip, page, unseen, inserts, updates, troubles,
          late, stirred

Ix == INSTANCE IndexerPasses WITH at <- stage

(* What the module Indexer assumes of its constants; PageAssumption has    *)
(* the batch.                                                              *)
IndexAssumption ==
    /\ VaultIds \subseteq Nat /\ EventIds \subseteq Nat
    /\ Depth \in Nat /\ MaxTroubles \in Nat

(* The ids of the store and of the table that process p is syncing.        *)
Source(p) == DOMAIN sg[kind[p]]
Table(p) == DOMAIN db[kind[p]]

(* TypeOK in the parts that steps disturb, with what a pass needs besides: *)
(* the subgraph is finite, events have no owner, so it was in the stores it*)
(* may go back to, a page is no longer than a batch, and what is to be     *)
(* updated gets an owner.                                                  *)
GoodStore(s) ==
    /\ Ix!IsStore(s)
    /\ \A k \in Ix!Kinds : IsFiniteSet(DOMAIN s[k])
    /\ \A i \in DOMAIN s["events"] : s["events"][i] = Ix!NoOwner

StoreOK == GoodStore(sg) /\ Ix!IsStore(db)

PastOK == Len(past) <= Depth /\ \E S : past \in Seq(S) /\ \A s \in S : GoodStore(s)

ScalarsOK ==
    /\ stage \in [Ix!Processes -> {"idle", "fetch", "write"}]
    /\ kind \in [Ix!Processes -> Ix!Kinds]
    /\ studio \in [Ix!Processes -> BOOLEAN]
    /\ skip \in [Ix!Processes -> Nat]
    /\ DOMAIN page = Ix!Processes /\ DOMAIN unseen = Ix!Processes
    /\ DOMAIN inserts = Ix!Processes /\ DOMAIN updates = Ix!Processes
    /\ troubles \in 0..MaxTroubles

PageOK(p) ==
    /\ Ix!IsTable(page[p], kind[p])
    /\ IsFiniteSet(DOMAIN page[p]) /\ Cardinality(DOMAIN page[p]) <= Batch
    /\ kind[p] = "events" => \A i \in DOMAIN page[p] : page[p][i] = Ix!NoOwner
    /\ stage[p] = "write" <=> page[p] # Ix!Nothing
    /\ unseen[p] \cup inserts[p] \cup updates[p] \subseteq DOMAIN page[p]
    /\ \A i \in updates[p] : page[p][i] # Ix!NoOwner

IndexInv == StoreOK /\ PastOK /\ ScalarsOK /\ \A p \in Ix!Processes : PageOK(p)

LEMMA TypesFollow == IndexInv => Ix!TypeOK
<1> SUFFICES ASSUME IndexInv PROVE Ix!TypeOK
  OBVIOUS
<1>1. Ix!IsStore(sg) /\ Ix!IsStore(db)
  BY DEF IndexInv, StoreOK, GoodStore
<1>2. /\ stage \in [Ix!Processes -> {"idle", "fetch", "write"}]
      /\ kind \in [Ix!Processes -> Ix!Kinds]
      /\ studio \in [Ix!Processes -> BOOLEAN]
      /\ skip \in [Ix!Processes -> Nat]
      /\ troubles \in 0..MaxTroubles
  BY DEF IndexInv, ScalarsOK
<1>3. \A p \in Ix!Processes :
         /\ Ix!IsTable(page[p], kind[p])
         /\ stage[p] = "write" <=> page[p] # Ix!Nothing
         /\ unseen[p] \cup inserts[p] \cup updates[p] \subseteq DOMAIN page[p]
  BY DEF IndexInv, PageOK
<1>4. Len(past) \in 0..Depth /\ \A n \in 1..Len(past) : Ix!IsStore(past[n])
  <2>1. PICK S : past \in Seq(S) /\ \A s \in S : GoodStore(s)
    BY DEF IndexInv, PastOK
  <2>2. Len(past) \in Nat /\ Len(past) <= Depth /\ \A n \in 1..Len(past) : past[n] \in S
    BY <2>1 DEF IndexInv, PastOK
  <2> QED
    BY <2>1, <2>2 DEF GoodStore
<1> QED
  BY <1>1, <1>2, <1>3, <1>4 DEF Ix!TypeOK

LEMMA EmptyPage ==
    /\ DOMAIN Ix!Nothing = {}
    /\ IsFiniteSet(DOMAIN Ix!Nothing)
    /\ Cardinality(DOMAIN Ix!Nothing) = 0
<1>1. DOMAIN Ix!Nothing = {}
  BY DEF Ix!Nothing
<1> QED
  BY <1>1, FS_EmptySet

LEMMA IdsAreNumbers ==
    ASSUME IndexAssumption, StoreOK, NEW k \in Ix!Kinds
    PROVE  DOMAIN sg[k] \subseteq Nat /\ IsFiniteSet(DOMAIN sg[k])
BY DEF IndexAssumption, StoreOK, GoodStore, Ix!IsStore, Ix!IsTable, Ix!IdsOf

(* The instance has its own copy of Cardinality, the same one.             *)
LEMMA CountsAgree == \A S : Ix!Cardinality(S) = Cardinality(S)
BY DEF Ix!Cardinality, Cardinality

LEMMA PageIsCut ==
    ASSUME NEW f, NEW n
    PROVE  /\ DOMAIN Ix!Page(f, n) = OnPage(DOMAIN f, n)
           /\ \A i \in DOMAIN Ix!Page(f, n) : Ix!Page(f, n)[i] = f[i]
BY CountsAgree DEF Ix!Page, OnPage, Rank, Before, Ix!Restrict

LEMMA TypesInit == IndexAssumption /\ Ix!Init => IndexInv
<1> SUFFICES ASSUME IndexAssumption, Ix!Init PROVE IndexInv
  OBVIOUS
<1>1. StoreOK
  BY EmptyPage DEF Ix!Init, StoreOK, GoodStore, Ix!IsStore, Ix!IsTable, Ix!Kinds
<1>2. PastOK
  <2>1. past \in Seq({}) /\ Len(past) <= Depth
    BY DEF Ix!Init, IndexAssumption
  <2>2. \A s \in {} : GoodStore(s)
    OBVIOUS
  <2> QED
    BY <2>1, <2>2 DEF PastOK
<1>3. ScalarsOK
  BY DEF IndexAssumption, Ix!Init, ScalarsOK, Ix!Kinds
<1>4. \A p \in Ix!Processes : PageOK(p)
  BY EmptyPage, PageAssumption DEF Ix!Init, PageOK, Ix!IsTable
<1> QED
  BY <1>1, <1>2, <1>3, <1>4 DEF IndexInv

(* What is kept of former stores are former stores.                        *)
LEMMA PastIsKept ==
    ASSUME IndexAssumption, NEW S, \A s \in S : GoodStore(s),
           NEW q \in Seq(S), Len(q) <= Depth + 1, Ix!Keep(q)
    PROVE  PastOK'
<1>1. CASE past' = <<>>
  <2>1. past' \in Seq(S) /\ Len(past') <= Depth
    BY <1>1 DEF IndexAssumption
  <2>2. \A s \in S : GoodStore(s)'
    BY DEF GoodStore, Ix!IsStore, Ix!IsTable, Ix!IdsOf
  <2> QED
    BY <2>1, <2>2 DEF PastOK
<1>2. CASE past' = Ix!Recent(q)
  <2>1. past' \in Seq(S) /\ Len(past') <= Depth
    <3>1. CASE Len(q) > Depth
      <4>1. q # <<>> /\ past' = Tail(q)
        BY <1>2, <3>1 DEF IndexAssumption, Ix!Recent
      <4>2. Tail(q) \in Seq(S) /\ Len(Tail(q)) = Len(q) - 1
        BY <4>1, HeadTailProperties
      <4> QED
        BY <4>1, <4>2 DEF IndexAssumption
    <3>2. CASE ~(Len(q) > Depth)
      BY <1>2, <3>2 DEF IndexAssumption, Ix!Recent
    <3> QED
      BY <3>1, <3>2
  <2>2. \A s \in S : GoodStore(s)'
    BY DEF GoodStore, Ix!IsStore, Ix!IsTable, Ix!IdsOf
  <2> QED
    BY <2>1, <2>2 DEF PastOK
<1> QED
  BY <1>1, <1>2 DEF Ix!Keep

LEMMA HoldMoves ==
    ASSUME ScalarsOK, NEW p \in Ix!Processes, NEW f, Ix!Hold(p, f)
    PROVE  /\ DOMAIN page' = Ix!Processes /\ DOMAIN unseen' = Ix!Processes
           /\ DOMAIN inserts' = Ix!Processes /\ DOMAIN updates' = Ix!Processes
           /\ page'[p] = f /\ unseen'[p] = DOMAIN f /\ inserts'[p] = {} /\ updates'[p] = {}
           /\ \A q \in Ix!Processes \ {p} :
                 /\ page'[q] = page[q] /\ unseen'[q] = unseen[q]
                 /\ inserts'[q] = inserts[q] /\ updates'[q] = updates[q]
BY DEF ScalarsOK, Ix!Hold

(* A step of one process leaves what the others hold.                      *)
Unmoved(q) ==
    /\ stage'[q] = stage[q] /\ kind'[q] = kind[q] /\ skip'[q] = skip[q] /\ studio'[q] = studio[q]
    /\ page'[q] = page[q] /\ unseen'[q] = unseen[q]
    /\ inserts'[q] = inserts[q] /\ updates'[q] = updates[q]

LEMMA UnmovedPage ==
    ASSUME NEW q, PageOK(q), Unmoved(q)
    PROVE  PageOK(q)'
BY DEF PageOK, Unmoved, Ix!IsTable, Ix!IdsOf, Ix!Nothing

Alone(p) == \A q \in Ix!Processes \ {p} : Unmoved(q)

LEMMA BeginMoves ==
    ASSUME ScalarsOK, NEW p \in Ix!Processes, NEW k \in Ix!Kinds, Ix!Begin(p, k),
           studio' \in [Ix!Processes -> BOOLEAN], troubles' \in 0..MaxTroubles,
           \A q \in Ix!Processes \ {p} : studio'[q] = studio[q]
    PROVE  /\ ScalarsOK' /\ PageOK(p)' /\ Alone(p)
           /\ stage'[p] = "fetch" /\ kind'[p] = k /\ skip'[p] = 0 /\ page'[p] = Ix!Nothing
<1>1. /\ stage'[p] = "fetch" /\ kind'[p] = k /\ skip'[p] = 0
  BY DEF Ix!Begin, ScalarsOK
<1>2. /\ DOMAIN page' = Ix!Processes /\ DOMAIN unseen' = Ix!Processes
      /\ DOMAIN inserts' = Ix!Processes /\ DOMAIN updates' = Ix!Processes
      /\ page'[p] = Ix!Nothing /\ unseen'[p] = {} /\ inserts'[p] = {} /\ updates'[p] = {}
      /\ \A q \in Ix!Processes \ {p} :
            /\ page'[q] = page[q] /\ unseen'[q] = unseen[q]
            /\ inserts'[q] = inserts[q] /\ updates'[q] = updates[q]
  BY HoldMoves, EmptyPage DEF Ix!Begin
<1>3. ScalarsOK'
  BY <1>2 DEF Ix!Begin, ScalarsOK
<1>4. Alone(p)
  BY <1>2 DEF Alone, Unmoved, Ix!Begin, ScalarsOK
<1>5. PageOK(p)'
  BY <1>1, <1>2, EmptyPage, PageAssumption DEF PageOK, Ix!IsTable, Ix!IdsOf, Ix!Nothing
<1> QED
  BY <1>1, <1>2, <1>3, <1>4, <1>5

LEMMA LeaveMoves ==
    ASSUME ScalarsOK, NEW p \in Ix!Processes, Ix!Leave(p), troubles' \in 0..MaxTroubles
    PROVE  ScalarsOK' /\ PageOK(p)' /\ Alone(p) /\ stage'[p] = "idle"
<1>1. stage'[p] = "idle" /\ kind'[p] = "vaults"
  BY DEF Ix!Leave, ScalarsOK
<1>2. /\ DOMAIN page' = Ix!Processes /\ DOMAIN unseen' = Ix!Processes
      /\ DOMAIN inserts' = Ix!Processes /\ DOMAIN updates' = Ix!Processes
      /\ page'[p] = Ix!Nothing /\ unseen'[p] = {} /\ inserts'[p] = {} /\ updates'[p] = {}
      /\ \A q \in Ix!Processes \ {p} :
            /\ page'[q] = page[q] /\ unseen'[q] = unseen[q]
            /\ inserts'[q] = inserts[q] /\ updates'[q] = updates[q]
  BY HoldMoves, EmptyPage DEF Ix!Leave
<1>3. ScalarsOK'
  BY <1>2 DEF Ix!Leave, ScalarsOK, Ix!Kinds
<1>4. Alone(p)
  BY <1>2 DEF Alone, Unmoved, Ix!Leave, ScalarsOK
<1>5. PageOK(p)'
  BY <1>1, <1>2, EmptyPage, PageAssumption DEF PageOK, Ix!IsTable, Ix!IdsOf, Ix!Nothing
<1> QED
  BY <1>1, <1>3, <1>4, <1>5

LEMMA FetchMoves ==
    ASSUME IndexAssumption, StoreOK, ScalarsOK, NEW p \in Ix!Processes, PageOK(p), Ix!Fetch(p)
    PROVE  /\ ScalarsOK' /\ PageOK(p)' /\ Alone(p)
           /\ stage'[p] = "write" /\ kind'[p] = kind[p] /\ skip'[p] = skip[p]
           /\ DOMAIN page'[p] = OnPage(Source(p), skip[p]) /\ unseen'[p] = DOMAIN page'[p]
<1> DEFINE f == Ix!NextPage(p)
<1>1. /\ stage' = [stage EXCEPT ![p] = "write"]
      /\ UNCHANGED <<kind, studio, skip, troubles>>
      /\ Ix!Hold(p, f) /\ f # Ix!Nothing
  BY DEF Ix!Fetch
<1>2. /\ DOMAIN page' = Ix!Processes /\ DOMAIN unseen' = Ix!Processes
      /\ DOMAIN inserts' = Ix!Processes /\ DOMAIN updates' = Ix!Processes
      /\ page'[p] = f /\ unseen'[p] = DOMAIN f /\ inserts'[p] = {} /\ updates'[p] = {}
      /\ \A q \in Ix!Processes \ {p} :
            /\ page'[q] = page[q] /\ unseen'[q] = unseen[q]
            /\ inserts'[q] = inserts[q] /\ updates'[q] = updates[q]
  BY <1>1, HoldMoves
<1>3. ScalarsOK'
  BY <1>1, <1>2 DEF ScalarsOK
<1>4. Alone(p)
  BY <1>1, <1>2 DEF Alone, Unmoved, ScalarsOK
<1>5. /\ DOMAIN f = OnPage(Source(p), skip[p])
      /\ \A i \in DOMAIN f : f[i] = sg[kind[p]][i]
  BY PageIsCut DEF Ix!NextPage, Source
<1>6. kind[p] \in Ix!Kinds /\ skip[p] \in Nat /\ stage'[p] = "write"
  BY <1>1 DEF ScalarsOK
<1>7. Source(p) \subseteq Nat /\ IsFiniteSet(Source(p))
  BY <1>6, IdsAreNumbers DEF Source
<1>8. IsFiniteSet(DOMAIN f) /\ Cardinality(DOMAIN f) <= Batch
  BY <1>5, <1>6, <1>7, PageFits
<1>9. OnPage(Source(p), skip[p]) \subseteq Source(p)
  BY DEF OnPage
<1>10. Ix!IsTable(f, kind[p]) /\ (kind[p] = "events" => \A i \in DOMAIN f : f[i] = Ix!NoOwner)
  BY <1>5, <1>6, <1>9 DEF StoreOK, GoodStore, Ix!IsStore, Ix!IsTable, Source
<1>11. PageOK(p)'
  BY <1>1, <1>2, <1>6, <1>8, <1>10 DEF PageOK, Ix!IsTable, Ix!IdsOf, Ix!Nothing
<1> QED
  BY <1>1, <1>2, <1>3, <1>4, <1>5, <1>6, <1>11

LEMMA LookMoves ==
    ASSUME ScalarsOK, NEW p \in Ix!Processes, PageOK(p), NEW i \in unseen[p], Ix!Look(p, i)
    PROVE  /\ ScalarsOK' /\ PageOK(p)' /\ Alone(p)
           /\ stage'[p] = stage[p] /\ kind'[p] = kind[p] /\ skip'[p] = skip[p]
           /\ page'[p] = page[p]
           /\ unseen[p] \cup inserts[p] \subseteq unseen'[p] \cup inserts'[p] \cup Table(p)
<1>1. /\ unseen' = [unseen EXCEPT ![p] = @ \ {i}]
      /\ UNCHANGED <<sg, db, stage, kind, studio, skip, page, troubles>>
  BY DEF Ix!Look
<1>2. /\ DOMAIN unseen' = Ix!Processes /\ unseen'[p] = unseen[p] \ {i}
      /\ \A q \in Ix!Processes \ {p} : unseen'[q] = unseen[q]
  BY <1>1 DEF ScalarsOK
<1>3. /\ DOMAIN inserts' = Ix!Processes /\ DOMAIN updates' = Ix!Processes
      /\ inserts'[p] = IF i \in Table(p) THEN inserts[p] ELSE inserts[p] \cup {i}
      /\ updates'[p] = IF i \in Table(p) /\ page[p][i] \notin {Ix!NoOwner, db[kind[p]][i]}
                       THEN updates[p] \cup {i} ELSE updates[p]
      /\ \A q \in Ix!Processes \ {p} : inserts'[q] = inserts[q] /\ updates'[q] = updates[q]
  BY DEF Ix!Look, ScalarsOK, Table
<1>4. ScalarsOK'
  BY <1>1, <1>2, <1>3 DEF ScalarsOK
<1>5. Alone(p)
  BY <1>1, <1>2, <1>3 DEF Alone, Unmoved
<1>6. PageOK(p)'
  BY <1>1, <1>2, <1>3 DEF PageOK, Ix!IsTable, Ix!IdsOf, Ix!Nothing
<1> QED
  BY <1>1, <1>2, <1>3, <1>4, <1>5, <1>6

(* A COMMIT writes the page's new and updated rows into one table.         *)
LEMMA RowsAreWritten ==
    ASSUME StoreOK, ScalarsOK, NEW p \in Ix!Processes, PageOK(p), Ix!CommitRows(p), sg' = sg
    PROVE  /\ StoreOK'
           /\ \A k \in Ix!Kinds : DOMAIN db[k] \subseteq DOMAIN db'[k]
           /\ \A k \in Ix!Kinds \ {kind[p]} : db'[k] = db[k]
           /\ DOMAIN db'[kind[p]] = Table(p) \cup inserts[p] \cup updates[p]
           /\ \A i \in Table(p) \ (inserts[p] \cup updates[p]) : db'[kind[p]][i] = db[kind[p]][i]
           /\ \A i \in inserts[p] \cup updates[p] : db'[kind[p]][i] = page[p][i]
<1> DEFINE k == kind[p]
           new == inserts[p] \cup updates[p]
<1>1. k \in Ix!Kinds /\ DOMAIN db = Ix!Kinds
  BY DEF ScalarsOK, StoreOK, Ix!IsStore
<1>2. db' = [db EXCEPT ![k] = Ix!Written(db[k], p, new)]
  BY DEF Ix!CommitRows
<1>3. /\ DOMAIN db' = Ix!Kinds /\ db'[k] = Ix!Written(db[k], p, new)
      /\ \A j \in Ix!Kinds \ {k} : db'[j] = db[j]
  BY <1>1, <1>2
<1>4. /\ DOMAIN db'[k] = Table(p) \cup new
      /\ \A i \in Table(p) \ new : db'[k][i] = db[k][i]
      /\ \A i \in new : db'[k][i] = page[p][i]
  BY <1>3 DEF Ix!Written, Table
<1>5. \A j \in Ix!Kinds : DOMAIN db[j] \subseteq DOMAIN db'[j]
  BY <1>3, <1>4 DEF Table
<1>6. new \subseteq DOMAIN page[p] /\ Ix!IsTable(page[p], k) /\ Ix!IsTable(db[k], k)
  BY <1>1 DEF PageOK, StoreOK, Ix!IsStore
<1>7. Ix!IsTable(db'[k], k)
  BY <1>4, <1>6 DEF Ix!IsTable, Table
<1>8. \A j \in Ix!Kinds : Ix!IsTable(db'[j], j)
  BY <1>3, <1>7 DEF StoreOK, Ix!IsStore
<1>9. StoreOK'
  BY <1>3, <1>8 DEF StoreOK, GoodStore, Ix!IsStore, Ix!IsTable, Ix!IdsOf
<1> QED
  BY <1>3, <1>4, <1>5, <1>9

(* A page that is not the last one was full, so skip grows by a batch.     *)
LEMMA GoesOn ==
    ASSUME ScalarsOK, NEW p \in Ix!Processes, PageOK(p), Ix!Seen(p), Ix!Commit(p), ~Ix!IsLastPage(p)
    PROVE  /\ ScalarsOK' /\ PageOK(p)' /\ Alone(p)
           /\ stage'[p] = "fetch" /\ kind'[p] = kind[p] /\ skip'[p] = skip[p] + Batch
<1> DEFINE n == Cardinality(DOMAIN page[p])
<1>1. /\ stage' = [stage EXCEPT ![p] = "fetch"] /\ skip' = [skip EXCEPT ![p] = @ + n]
      /\ Ix!Hold(p, Ix!Nothing) /\ UNCHANGED <<kind, studio, troubles>>
  BY CountsAgree DEF Ix!Commit
<1>2. n = Batch
  <2>1. n \in Nat /\ n <= Batch
    BY FS_CardinalityType DEF PageOK
  <2> QED
    BY <2>1, CountsAgree, PageAssumption DEF Ix!IsLastPage
<1>3. /\ DOMAIN page' = Ix!Processes /\ DOMAIN unseen' = Ix!Processes
      /\ DOMAIN inserts' = Ix!Processes /\ DOMAIN updates' = Ix!Processes
      /\ page'[p] = Ix!Nothing /\ unseen'[p] = {} /\ inserts'[p] = {} /\ updates'[p] = {}
      /\ \A q \in Ix!Processes \ {p} :
            /\ page'[q] = page[q] /\ unseen'[q] = unseen[q]
            /\ inserts'[q] = inserts[q] /\ updates'[q] = updates[q]
  BY <1>1, HoldMoves, EmptyPage
<1>4. /\ stage'[p] = "fetch" /\ skip'[p] = skip[p] + Batch
      /\ kind'[p] = kind[p]
  BY <1>1, <1>2 DEF ScalarsOK
<1>5. ScalarsOK'
  BY <1>1, <1>2, <1>3, PageAssumption DEF ScalarsOK
<1>6. Alone(p)
  BY <1>1, <1>3 DEF Alone, Unmoved, ScalarsOK
<1>7. PageOK(p)'
  BY <1>3, <1>4, EmptyPage, PageAssumption DEF PageOK, Ix!IsTable, Ix!IdsOf, Ix!Nothing
<1> QED
  BY <1>1, <1>4, <1>5, <1>6, <1>7

RowsStay == \A k \in Ix!Kinds : DOMAIN db[k] \subseteq DOMAIN db'[k]

(* Statements that write nothing.                                          *)
LEMMA StoresStay ==
    ASSUME StoreOK, UNCHANGED <<sg, db>>
    PROVE  StoreOK' /\ RowsStay
BY DEF StoreOK, GoodStore, RowsStay, Ix!IsStore, Ix!IsTable, Ix!IdsOf

LEMMA PastStays ==
    ASSUME IndexAssumption, PastOK, past' = past \/ Ix!Keep(past)
    PROVE  PastOK'
<1>1. PICK S : past \in Seq(S) /\ \A s \in S : GoodStore(s)
  BY DEF PastOK
<1>2. Len(past) \in Nat /\ Len(past) <= Depth
  BY <1>1 DEF PastOK
<1>3. CASE past' = past
  <2>1. past' \in Seq(S) /\ Len(past') <= Depth
    BY <1>1, <1>2, <1>3
  <2>2. \A s \in S : GoodStore(s)'
    BY <1>1 DEF GoodStore, Ix!IsStore, Ix!IsTable, Ix!IdsOf
  <2> QED
    BY <2>1, <2>2 DEF PastOK
<1>4. CASE Ix!Keep(past)
  <2>1. Len(past) <= Depth + 1
    BY <1>2 DEF IndexAssumption
  <2> QED
    BY <1>1, <1>4, <2>1, PastIsKept
<1> QED
  BY <1>3, <1>4

(* It is enough to look at the process that takes a step.                  *)
LEMMA OneMoves ==
    ASSUME IndexInv, NEW p \in Ix!Processes,
           StoreOK', PastOK', ScalarsOK', PageOK(p)', Alone(p)
    PROVE  IndexInv'
<1>1. ASSUME NEW q \in Ix!Processes \ {p} PROVE PageOK(q)'
  BY UnmovedPage DEF Alone, IndexInv
<1> QED
  BY <1>1 DEF IndexInv

LEMMA PutMoves ==
    ASSUME NEW k \in Ix!Kinds, NEW f, Ix!IsTable(f, k), IsFiniteSet(DOMAIN f),
           NEW x \in Ix!IdsOf(k), NEW y \in Owners \cup {Ix!NoOwner}
    PROVE  /\ Ix!IsTable(Ix!Put(f, x, y), k) /\ IsFiniteSet(DOMAIN Ix!Put(f, x, y))
           /\ \A i \in DOMAIN Ix!Put(f, x, y) : Ix!Put(f, x, y)[i] = IF i = x THEN y ELSE f[i]
<1>1. DOMAIN Ix!Put(f, x, y) = DOMAIN f \cup {x}
  BY DEF Ix!Put
<1>2. \A i \in DOMAIN Ix!Put(f, x, y) : Ix!Put(f, x, y)[i] = IF i = x THEN y ELSE f[i]
  BY DEF Ix!Put
<1>3. IsFiniteSet(DOMAIN f \cup {x})
  BY FS_AddElement
<1> QED
  BY <1>1, <1>2, <1>3 DEF Ix!IsTable

(* The mapping handlers save an entity or change an owner,                 *)
LEMMA HandlersMove ==
    ASSUME IndexAssumption, StoreOK, PastOK, NEW v \in VaultIds, NEW e, NEW o,
           \/ o \in Owners /\ Ix!VaultCreated(v, o)
           \/ e \in EventIds /\ o \in Owners /\ Ix!VaultInitialized(v, o, e)
           \/ e \in EventIds /\ Ix!VaultEvent(v, e)
    PROVE  StoreOK' /\ PastOK' /\ UNCHANGED <<db, Ix!tickVars, troubles>>
<1> DEFINE Vs == Ix!Put(sg["vaults"], v, o)
           Es == Ix!Put(sg["events"], e, Ix!NoOwner)
<1>1. /\ GoodStore(sg) /\ DOMAIN sg = Ix!Kinds /\ "vaults" \in Ix!Kinds /\ "events" \in Ix!Kinds
      /\ v \in Ix!IdsOf("vaults") /\ (e \in EventIds => e \in Ix!IdsOf("events"))
  BY DEF StoreOK, GoodStore, Ix!IsStore, Ix!Kinds, Ix!IdsOf
<1>2. o \in Owners => Ix!IsTable(Vs, "vaults") /\ IsFiniteSet(DOMAIN Vs)
  BY <1>1, PutMoves DEF GoodStore, Ix!IsStore
<1>3. e \in EventIds => /\ Ix!IsTable(Es, "events") /\ IsFiniteSet(DOMAIN Es)
                       /\ \A i \in DOMAIN Es : Es[i] = Ix!NoOwner
  <2>1. \A i \in DOMAIN Es : Es[i] = Ix!NoOwner
    BY <1>1 DEF Ix!Put, GoodStore
  <2>2. e \in EventIds => Ix!IsTable(Es, "events") /\ IsFiniteSet(DOMAIN Es)
    BY <1>1, PutMoves DEF GoodStore, Ix!IsStore
  <2> QED
    BY <2>1, <2>2
<1>4. Ix!Save(sg')
  BY DEF Ix!VaultCreated, Ix!VaultInitialized, Ix!VaultEvent, Ix!Save
<1>5. UNCHANGED <<db, Ix!tickVars, troubles>> /\ Ix!Keep(Append(past, sg))
  BY <1>4 DEF Ix!Save
<1>6. /\ DOMAIN sg' = Ix!Kinds
      /\ (sg'["vaults"] = sg["vaults"] \/ (o \in Owners /\ sg'["vaults"] = Vs))
      /\ (sg'["events"] = sg["events"] \/ (e \in EventIds /\ sg'["events"] = Es))
  BY <1>1 DEF Ix!VaultCreated, Ix!VaultInitialized, Ix!VaultEvent, Ix!Save
<1>7. Ix!IsTable(sg'["vaults"], "vaults") /\ IsFiniteSet(DOMAIN sg'["vaults"])
  BY <1>1, <1>2, <1>6 DEF GoodStore, Ix!IsStore
<1>8. /\ Ix!IsTable(sg'["events"], "events") /\ IsFiniteSet(DOMAIN sg'["events"])
      /\ \A i \in DOMAIN sg'["events"] : sg'["events"][i] = Ix!NoOwner
  BY <1>1, <1>3, <1>6 DEF GoodStore, Ix!IsStore
<1>9. StoreOK'
  BY <1>5, <1>6, <1>7, <1>8
     DEF StoreOK, GoodStore, Ix!IsStore, Ix!Kinds, Ix!IsTable, Ix!IdsOf
<1>10. PastOK'
  <2>1. PICK S : past \in Seq(S) /\ \A s \in S : GoodStore(s)
    BY DEF PastOK
  <2>2. \A s \in S \cup {sg} : GoodStore(s)
    BY <1>1, <2>1
  <2>3. /\ Append(past, sg) \in Seq(S \cup {sg})
        /\ Len(Append(past, sg)) <= Depth + 1
    BY <2>1 DEF PastOK, IndexAssumption
  <2> QED
    BY <1>5, <2>2, <2>3, PastIsKept
<1> QED
  BY <1>5, <1>9, <1>10

(* and a reorganisation brings a former store back; neither moves a pass.  *)
LEMMA RevertMoves ==
    ASSUME IndexAssumption, StoreOK, PastOK, ScalarsOK, NEW n \in 1..Depth, Ix!Revert(n)
    PROVE  /\ StoreOK' /\ PastOK' /\ ScalarsOK'
           /\ UNCHANGED <<db, Ix!tickVars>>
<1>1. /\ n \in 1..Len(past) /\ sg' = past[n] /\ Ix!Keep(SubSeq(past, 1, n - 1))
      /\ UNCHANGED <<db, Ix!tickVars>> /\ troubles < MaxTroubles /\ troubles' = troubles + 1
  BY DEF Ix!Revert, Ix!Trouble
<1>2. PICK S : past \in Seq(S) /\ \A s \in S : GoodStore(s)
  BY DEF PastOK
<1>3. Len(past) \in Nat /\ Len(past) <= Depth /\ past[n] \in S
  BY <1>1, <1>2 DEF PastOK
<1>4. StoreOK'
  BY <1>1, <1>2, <1>3 DEF StoreOK, GoodStore, Ix!IsStore, Ix!IsTable, Ix!IdsOf
<1>5. SubSeq(past, 1, n - 1) \in Seq(S) /\ Len(SubSeq(past, 1, n - 1)) <= Depth + 1
  BY <1>1, <1>2, <1>3 DEF IndexAssumption
<1>6. PastOK'
  BY <1>1, <1>2, <1>5, PastIsKept
<1>7. ScalarsOK'
  BY <1>1 DEF IndexAssumption, ScalarsOK, Ix!tickVars, Ix!pageVars
<1> QED
  BY <1>1, <1>4, <1>6, <1>7

(* Where the subgraph moves, no process does.                              *)
LEMMA NoneMoves ==
    ASSUME UNCHANGED Ix!tickVars, NEW q
    PROVE  Unmoved(q)
BY DEF Unmoved, Ix!tickVars, Ix!pageVars

LEMMA FinishMoves ==
    ASSUME ScalarsOK, NEW p \in Ix!Processes, Ix!Finish(p), troubles' = troubles
    PROVE  ScalarsOK' /\ PageOK(p)' /\ Alone(p)
<1>1. troubles' \in 0..MaxTroubles /\ studio \in [Ix!Processes -> BOOLEAN]
  BY DEF ScalarsOK
<1>2. CASE kind[p] = "vaults"
  <2>1. Ix!Begin(p, "events") /\ studio' = studio /\ "events" \in Ix!Kinds
    BY <1>2 DEF Ix!Finish, Ix!Kinds
  <2> QED
    BY <1>1, <2>1, BeginMoves
<1>3. CASE kind[p] # "vaults"
  <2>1. Ix!Leave(p)
    BY <1>3 DEF Ix!Finish
  <2> QED
    BY <1>1, <2>1, LeaveMoves
<1> QED
  BY <1>2, <1>3

(* A pass over vaults begins, at the start of a tick or anew from the      *)
(* Studio URL.                                                             *)
LEMMA StartMoves ==
    ASSUME IndexAssumption, ScalarsOK, NEW p \in Ix!Processes,
           Ix!StartTick(p) \/ Ix!Run(p) \/ Ix!Fallback(p)
    PROVE  /\ Ix!Begin(p, "vaults") /\ "vaults" \in Ix!Kinds /\ UNCHANGED <<sg, db>>
           /\ studio' \in [Ix!Processes -> BOOLEAN] /\ troubles' \in 0..MaxTroubles
           /\ \A q \in Ix!Processes \ {p} : studio'[q] = studio[q]
           /\ past' = past \/ Ix!Keep(past)
<1>1. CASE Ix!StartTick(p) \/ Ix!Run(p)
  <2>1. Ix!Begin(p, "vaults") /\ UNCHANGED <<sg, past, db, studio, troubles>>
    BY <1>1 DEF Ix!StartTick, Ix!Run, Ix!StartSync
  <2> QED
    BY <2>1 DEF ScalarsOK, Ix!Kinds
<1>2. CASE Ix!Fallback(p)
  <2>1. /\ Ix!Begin(p, "vaults") /\ studio' = [studio EXCEPT ![p] = TRUE]
        /\ UNCHANGED <<sg, db>> /\ Ix!Keep(past)
        /\ troubles < MaxTroubles /\ troubles' = troubles + 1
    BY <1>2 DEF Ix!Fallback, Ix!Trouble
  <2> QED
    BY <2>1 DEF IndexAssumption, ScalarsOK, Ix!Kinds
<1> QED
  BY <1>1, <1>2

(* A step of a process leaves the others where they are, and rows stored.   *)
LEMMA ProcessMoves ==
    ASSUME IndexAssumption, IndexInv, NEW p \in Ix!Processes,
           \/ Ix!StartTick(p) \/ Ix!Run(p) \/ Ix!TickStep(p) \/ Ix!Fail(p) \/ Ix!Fallback(p)
    PROVE  StoreOK' /\ PastOK' /\ ScalarsOK' /\ PageOK(p)' /\ Alone(p) /\ RowsStay
<1> DEFINE Goal == StoreOK' /\ PastOK' /\ ScalarsOK' /\ PageOK(p)' /\ Alone(p) /\ RowsStay
<1>1. StoreOK /\ PastOK /\ ScalarsOK /\ PageOK(p)
  BY DEF IndexInv
<1>2. past' = past \/ Ix!Keep(past) => PastOK'
  BY <1>1, PastStays
<1>3. UNCHANGED <<sg, db>> => StoreOK' /\ RowsStay
  BY <1>1, StoresStay
<1>4. CASE Ix!StartTick(p) \/ Ix!Run(p) \/ Ix!Fallback(p)
  <2>1. ScalarsOK' /\ PageOK(p)' /\ Alone(p)
    BY <1>1, <1>4, StartMoves, BeginMoves
  <2>2. UNCHANGED <<sg, db>> /\ (past' = past \/ Ix!Keep(past))
    BY <1>1, <1>4, StartMoves
  <2> QED
    BY <1>2, <1>3, <2>1, <2>2
<1>5. CASE Ix!Fetch(p)
  <2>1. UNCHANGED <<sg, past, db>>
    BY <1>5 DEF Ix!Fetch
  <2> QED
    BY <1>1, <1>2, <1>3, <1>5, <2>1, FetchMoves
<1>6. CASE Ix!FetchEnd(p)
  <2>1. Ix!Finish(p) /\ UNCHANGED <<sg, past, db, troubles>>
    BY <1>6 DEF Ix!FetchEnd
  <2> QED
    BY <1>1, <1>2, <1>3, <2>1, FinishMoves
<1>7. CASE Ix!Commit(p)
  <2>1. Ix!CommitRows(p) /\ Ix!Seen(p) /\ UNCHANGED <<sg, past, troubles>>
    BY <1>7 DEF Ix!Commit, Ix!CommitRows
  <2>2. StoreOK' /\ RowsStay
    BY <1>1, <2>1, RowsAreWritten DEF RowsStay
  <2>3. ScalarsOK' /\ PageOK(p)' /\ Alone(p)
    <3>1. CASE Ix!IsLastPage(p)
      BY <1>1, <1>7, <2>1, <3>1, FinishMoves DEF Ix!Commit
    <3>2. CASE ~Ix!IsLastPage(p)
      BY <1>1, <1>7, <2>1, <3>2, GoesOn
    <3> QED
      BY <3>1, <3>2
  <2> QED
    BY <1>2, <2>1, <2>2, <2>3
<1>8. CASE Ix!CommitConflict(p) \/ Ix!Fail(p)
  <2>1. Ix!Leave(p) /\ UNCHANGED <<sg, db>> /\ (past' = past \/ Ix!Keep(past))
    BY <1>8 DEF Ix!CommitConflict, Ix!Fail
  <2>2. troubles' \in 0..MaxTroubles
    BY <1>1, <1>8 DEF IndexAssumption, ScalarsOK, Ix!CommitConflict, Ix!Fail, Ix!Trouble
  <2> QED
    BY <1>1, <1>2, <1>3, <2>1, <2>2, LeaveMoves
<1>9. ASSUME NEW i \in unseen[p], Ix!Look(p, i) PROVE Goal
  <2>1. UNCHANGED <<sg, past, db>>
    BY <1>9 DEF Ix!Look
  <2> QED
    BY <1>1, <1>2, <1>3, <1>9, <2>1, LookMoves
<1> QED
  BY <1>4, <1>5, <1>6, <1>7, <1>8, <1>9 DEF Ix!TickStep

LEMMA SubgraphMoves ==
    ASSUME IndexAssumption, IndexInv, Ix!Subgraph
    PROVE  /\ StoreOK' /\ PastOK' /\ ScalarsOK'
           /\ UNCHANGED <<db, Ix!tickVars>>
<1>1. StoreOK /\ PastOK /\ ScalarsOK
  BY DEF IndexInv
<1>2. ASSUME NEW v \in VaultIds, NEW e, NEW o,
             \/ o \in Owners /\ Ix!VaultCreated(v, o)
             \/ e \in EventIds /\ o \in Owners /\ Ix!VaultInitialized(v, o, e)
             \/ e \in EventIds /\ Ix!VaultEvent(v, e)
      PROVE  /\ StoreOK' /\ PastOK' /\ ScalarsOK'
             /\ UNCHANGED <<db, Ix!tickVars>>
  <2>1. StoreOK' /\ PastOK' /\ UNCHANGED <<db, Ix!tickVars, troubles>>
    BY <1>1, <1>2, HandlersMove
  <2> QED
    BY <1>1, <2>1 DEF ScalarsOK, Ix!tickVars, Ix!pageVars
<1>3. ASSUME NEW n \in 1..Depth, Ix!Revert(n)
      PROVE  /\ StoreOK' /\ PastOK' /\ ScalarsOK'
             /\ UNCHANGED <<db, Ix!tickVars>>
  BY <1>1, <1>3, RevertMoves
<1> QED
  BY <1>2, <1>3 DEF Ix!Subgraph

LEMMA IndexInvNext == IndexAssumption /\ IndexInv /\ [Ix!Next]_(Ix!vars) => IndexInv'
<1> SUFFICES ASSUME IndexAssumption, IndexInv, [Ix!Next]_(Ix!vars) PROVE IndexInv'
  OBVIOUS
<1>1. StoreOK /\ PastOK /\ ScalarsOK /\ \A p \in Ix!Processes : PageOK(p)
  BY DEF IndexInv
<1>2. ASSUME NEW p \in Ix!Processes,
             \/ Ix!StartTick(p) \/ Ix!Run(p) \/ Ix!TickStep(p) \/ Ix!Fail(p) \/ Ix!Fallback(p)
      PROVE  IndexInv'
  BY <1>2, ProcessMoves, OneMoves
<1>3. ASSUME StoreOK', PastOK', ScalarsOK', UNCHANGED Ix!tickVars
      PROVE  IndexInv'
  BY <1>1, <1>3, NoneMoves, UnmovedPage DEF IndexInv
<1>4. CASE Ix!Subgraph
  BY <1>3, <1>4, SubgraphMoves
<1>5. CASE UNCHANGED Ix!vars
  <2>1. UNCHANGED <<sg, past, db, troubles>> /\ UNCHANGED Ix!tickVars
    BY <1>5 DEF Ix!vars
  <2>2. ScalarsOK'
    BY <1>1, <2>1 DEF ScalarsOK, Ix!tickVars, Ix!pageVars
  <2> QED
    BY <1>1, <1>3, <2>1, <2>2, StoresStay, PastStays
<1> QED
  BY <1>2, <1>4, <1>5 DEF Ix!Next

LEMMA IndexInvHolds == ASSUME IndexAssumption PROVE Ix!Spec => []IndexInv
BY TypesInit, IndexInvNext, PTL DEF Ix!Spec

(* The indexer keeps its types, for every set of ids, workers and commands *)
(* and every batch (apps/indexer/main.py, apps/worker/tasks.py).           *)
THEOREM IndexerTypeCorrect == ASSUME IndexAssumption PROVE Ix!Spec => []Ix!TypeOK
BY TypesFollow, IndexInvHolds, PTL

(***************************************************************************)
(* What a pass does for rows and owners.  Observed is any process; late and*)
(* stirred take no part in the steps, so all of the above holds beside     *)
(* them.                                                                   *)
(***************************************************************************)

(* Entities the pages have not come to: in front of the next page, or      *)
(* behind a page that is full.                                             *)
Ahead(i) ==
    \/ stage[Observed] = "fetch" /\ Rank(Source(Observed), i) >= skip[Observed]
    \/ /\ stage[Observed] = "write" /\ Cardinality(DOMAIN page[Observed]) = Batch
       /\ Rank(Source(Observed), i) >= skip[Observed] + Batch

(* Where an entity may be that is not late: stored by now, ahead, or on the*)
(* page and not written.                                                   *)
Kept(i) == i \in Table(Observed) \/ Ahead(i) \/ i \in unseen[Observed] \cup inserts[Observed]

PassOK == stage[Observed] # "idle" => \A i \in Source(Observed) \ late : Kept(i)

(* Where a vault may be that nothing has stirred: it has its owner, or is  *)
(* ahead, or on the page with something left to do.                        *)
Reached(v) ==
    \/ Ix!SameOwner(v) \/ Ahead(v)
    \/ v \in unseen[Observed] \cup inserts[Observed] \cup updates[Observed]

PassesVaults == stage[Observed] # "idle" /\ kind[Observed] = "vaults"
Steady == DOMAIN sg["vaults"] \ stirred

SettledPass ==
    PassesVaults =>
        \A v \in Steady :
            /\ v \in DOMAIN page[Observed] => page[Observed][v] = sg["vaults"][v]
            /\ sg["vaults"][v] # Ix!NoOwner => Reached(v)

PassInv == IndexInv /\ PassOK /\ SettledPass

ObservedType ==
    /\ stage[Observed] \in {"idle", "fetch", "write"} /\ kind[Observed] \in Ix!Kinds
    /\ skip[Observed] \in Nat
    /\ Source(Observed) \subseteq Nat /\ IsFiniteSet(Source(Observed))

LEMMA ObservedHasType ==
    ASSUME IndexAssumption, Observed \in Ix!Processes, IndexInv
    PROVE  ObservedType /\ PageOK(Observed) /\ StoreOK /\ ScalarsOK
<1>1. StoreOK /\ ScalarsOK /\ PageOK(Observed)
  BY DEF IndexInv
<1> QED
  BY <1>1, IdsAreNumbers DEF ObservedType, ScalarsOK, Source

(* What is not late after a step of a pass was there before it and not     *)
(* late, and nothing smaller was undone; what is steady was steady, with   *)
(* the same owner, and the step has left its row alone but for a commit of *)
(* the pass itself.                                                        *)
LEMMA NotLate ==
    ASSUME Ix!Note, Ix!SamePass, NEW i \in Source(Observed)' \ late'
    PROVE  /\ i \in Source(Observed) \ late
           /\ \A j \in Source(Observed) : j < i => j \in Source(Observed)'
<1> DEFINE f == sg[kind[Observed]]
           g == sg'[kind[Observed]]
<1>1. /\ late' = DOMAIN g \cap (late \cup Ix!Entered(f, g) \cup Ix!MovedUp(f, g))
      /\ Source(Observed)' = DOMAIN g /\ Source(Observed) = DOMAIN f
  BY DEF Ix!Note, Ix!SamePass, Source
<1> QED
  BY <1>1 DEF Ix!Entered, Ix!MovedUp

LEMMA SteadyStays ==
    ASSUME Ix!Note, Ix!SamePass, RowsStay, kind[Observed] = "vaults", NEW v \in Steady'
    PROVE  /\ v \in Steady /\ sg'["vaults"][v] = sg["vaults"][v]
           /\ v \in Source(Observed)' \ late'
           /\ page'[Observed] = page[Observed] /\ Ix!SameOwner(v) => Ix!SameOwner(v)'
<1> DEFINE f == sg["vaults"]
           g == sg'["vaults"]
<1>1. /\ stirred' = DOMAIN g \cap
             (stirred \cup late' \cup Ix!Reassigned(f, g) \cup Ix!RewrittenByOthers)
      /\ Source(Observed)' = DOMAIN g /\ Source(Observed) = DOMAIN f
  BY DEF Ix!Note, Ix!SamePass, Source
<1>2. v \in DOMAIN g /\ v \notin stirred /\ v \notin late'
      /\ v \notin Ix!Reassigned(f, g) /\ v \notin Ix!RewrittenByOthers
  BY <1>1 DEF Steady
<1>3. v \in DOMAIN f
  BY <1>1, <1>2, NotLate
<1>4. g[v] = f[v]
  BY <1>2, <1>3 DEF Ix!Reassigned
<1>5. ASSUME page'[Observed] = page[Observed], Ix!SameOwner(v) PROVE Ix!SameOwner(v)'
  <2>1. v \notin Ix!Reassigned(db["vaults"], db'["vaults"])
    BY <1>2, <1>5 DEF Ix!RewrittenByOthers
  <2>2. v \in DOMAIN db'["vaults"]
    BY <1>5 DEF RowsStay, Ix!SameOwner, Ix!Kinds
  <2> QED
    BY <1>4, <1>5, <2>1, <2>2 DEF Ix!SameOwner, Ix!Reassigned
<1> QED
  BY <1>1, <1>2, <1>3, <1>4, <1>5 DEF Steady

(* What is ahead of a pass stays ahead of it if nothing in front of it is  *)
(* undone.                                                                 *)
LEMMA AheadStays ==
    ASSUME ObservedType, ObservedType', Unmoved(Observed), NEW i, Ahead(i),
           \A j \in Source(Observed) : j < i => j \in Source(Observed)'
    PROVE  Ahead(i)'
<1>1. Before(Source(Observed), i) \subseteq Before(Source(Observed)', i)
  BY DEF Before
<1>2. /\ Rank(Source(Observed), i) \in Nat /\ Rank(Source(Observed)', i) \in Nat
      /\ Rank(Source(Observed), i) <= Rank(Source(Observed)', i)
  BY <1>1, RankType, FS_Subset DEF Rank, ObservedType
<1>3. Rank(Source(Observed), i)' = Rank(Source(Observed)', i)
  BY DEF Rank, Before
<1>4. /\ stage'[Observed] = stage[Observed] /\ skip'[Observed] = skip[Observed]
      /\ page'[Observed] = page[Observed] /\ skip[Observed] \in Nat
  BY DEF Unmoved, ObservedType
<1>5. CASE stage[Observed] = "fetch" /\ Rank(Source(Observed), i) >= skip[Observed]
  BY <1>2, <1>3, <1>4, <1>5 DEF Ahead
<1>6. CASE /\ stage[Observed] = "write" /\ Cardinality(DOMAIN page[Observed]) = Batch
           /\ Rank(Source(Observed), i) >= skip[Observed] + Batch
  BY <1>2, <1>3, <1>4, <1>6, PageAssumption DEF Ahead
<1> QED
  BY <1>5, <1>6 DEF Ahead

(* What other processes and the subgraph do leaves a pass as it is.        *)
LEMMA PassStays ==
    ASSUME PassOK, SettledPass, ObservedType, ObservedType', Ix!Note, Unmoved(Observed), RowsStay
    PROVE  PassOK' /\ SettledPass'
<1>1. /\ stage'[Observed] = stage[Observed] /\ kind'[Observed] = kind[Observed]
      /\ page'[Observed] = page[Observed] /\ unseen'[Observed] = unseen[Observed]
      /\ inserts'[Observed] = inserts[Observed] /\ updates'[Observed] = updates[Observed]
      /\ studio'[Observed] = studio[Observed]
  BY DEF Unmoved
<1>2. stage[Observed] # "idle" => Ix!SamePass
  BY <1>1 DEF Ix!SamePass
<1>3. ASSUME stage'[Observed] # "idle", NEW i \in Source(Observed)' \ late'
      PROVE  Kept(i)'
  <2>1. /\ i \in Source(Observed) \ late
        /\ \A j \in Source(Observed) : j < i => j \in Source(Observed)'
    BY <1>1, <1>2, <1>3, NotLate
  <2>2. Kept(i)
    BY <1>1, <1>3, <2>1 DEF PassOK
  <2>3. Ahead(i) => Ahead(i)'
    BY <2>1, AheadStays
  <2>4. i \in Table(Observed) => i \in Table(Observed)'
    BY <1>1 DEF Table, RowsStay, ObservedType
  <2> QED
    BY <1>1, <2>2, <2>3, <2>4 DEF Kept
<1>4. ASSUME PassesVaults', NEW v \in Steady'
      PROVE  /\ v \in DOMAIN page'[Observed] => page'[Observed][v] = sg'["vaults"][v]
             /\ sg'["vaults"][v] # Ix!NoOwner => Reached(v)'
  <2>1. stage[Observed] # "idle" /\ kind[Observed] = "vaults"
    BY <1>1, <1>4 DEF PassesVaults
  <2>2. /\ v \in Steady /\ sg'["vaults"][v] = sg["vaults"][v]
        /\ v \in Source(Observed)' \ late'
        /\ Ix!SameOwner(v) => Ix!SameOwner(v)'
    BY <1>1, <1>2, <1>4, <2>1, SteadyStays
  <2>3. /\ v \in DOMAIN page[Observed] => page[Observed][v] = sg["vaults"][v]
        /\ sg["vaults"][v] # Ix!NoOwner => Reached(v)
    BY <2>1, <2>2 DEF SettledPass, PassesVaults
  <2>4. Ahead(v) => Ahead(v)'
    BY <1>2, <2>1, <2>2, NotLate, AheadStays
  <2> QED
    BY <1>1, <2>2, <2>3, <2>4 DEF Reached
<1> QED
  BY <1>3, <1>4 DEF PassOK, SettledPass

(* A pass that begins has everything ahead of it.                          *)
LEMMA PassBegins ==
    ASSUME ObservedType', stage'[Observed] = "fetch", skip'[Observed] = 0,
           page'[Observed] = Ix!Nothing
    PROVE  PassOK' /\ SettledPass'
<1>1. \A i : Rank(Source(Observed)', i) >= 0
  BY RankType DEF ObservedType
<1>2. \A i : Rank(Source(Observed), i)' = Rank(Source(Observed)', i)
  BY DEF Rank, Before
<1>3. \A i : Ahead(i)'
  BY <1>1, <1>2 DEF Ahead
<1> QED
  BY <1>3, EmptyPage DEF PassOK, SettledPass, Kept, Reached

(* A page has the owners of the subgraph, and what was ahead of the pages  *)
(* is on it or behind it; it is full then.                                 *)
LEMMA PassFetches ==
    ASSUME IndexAssumption, Observed \in Ix!Processes, PassInv, ObservedType', Ix!Note,
           Ix!Fetch(Observed)
    PROVE  PassOK' /\ SettledPass'
<1> DEFINE D == Source(Observed)
<1>1. ObservedType /\ PageOK(Observed) /\ StoreOK /\ ScalarsOK
  BY ObservedHasType DEF PassInv
<1>2. /\ UNCHANGED <<sg, db, studio>> /\ stage[Observed] = "fetch"
      /\ Ix!Hold(Observed, Ix!NextPage(Observed))
  BY DEF Ix!Fetch
<1>3. /\ stage'[Observed] = "write" /\ kind'[Observed] = kind[Observed]
      /\ skip'[Observed] = skip[Observed]
      /\ DOMAIN page'[Observed] = OnPage(D, skip[Observed])
      /\ unseen'[Observed] = DOMAIN page'[Observed]
  BY <1>1, FetchMoves
<1>4. page'[Observed] = Ix!NextPage(Observed)
  BY <1>1, <1>2, HoldMoves
<1>5. /\ Source(Observed)' = D /\ Table(Observed)' = Table(Observed)
      /\ \A i : Rank(D, i)' = Rank(D, i)
      /\ \A v : Ix!SameOwner(v)' <=> Ix!SameOwner(v)
  BY <1>2, <1>3 DEF Source, Table, Rank, Before, Ix!SameOwner
<1>6. Ix!SamePass /\ RowsStay
  BY <1>2, <1>3 DEF Ix!SamePass, RowsStay
<1>7. unseen[Observed] \cup inserts[Observed] \cup updates[Observed] = {}
  BY <1>1, <1>2, EmptyPage DEF PageOK
<1>8. ASSUME NEW i \in D, Ahead(i)
      PROVE  Ahead(i)' \/ i \in unseen'[Observed]
  <2>1. Rank(D, i) \in Nat /\ Rank(D, i) >= skip[Observed] /\ skip[Observed] \in Nat
    BY <1>1, <1>2, <1>8, RankType DEF Ahead, ObservedType
  <2>2. CASE Rank(D, i) <= skip[Observed] + Batch - 1
    <3>1. i \in OnPage(D, skip[Observed])
      BY <2>1, <2>2, PageAssumption DEF OnPage
    <3> QED
      BY <1>3, <3>1
  <2>3. CASE Rank(D, i) >= skip[Observed] + Batch
    <3>1. Cardinality(DOMAIN page'[Observed]) = Batch
      BY <1>1, <1>3, <2>1, <2>3, PageFilled DEF ObservedType
    <3> QED
      BY <1>3, <1>5, <2>3, <3>1 DEF Ahead
  <2> QED
    BY <2>1, <2>2, <2>3, PageAssumption
<1>9. ASSUME NEW i \in Source(Observed)' \ late' PROVE Kept(i)'
  <2>1. i \in D \ late
    BY <1>6, <1>9, NotLate
  <2>2. i \in Table(Observed) \/ Ahead(i)
    BY <1>2, <1>7, <2>1 DEF PassInv, PassOK, Kept
  <2> QED
    BY <1>5, <1>8, <2>1, <2>2 DEF Kept
<1>10. ASSUME PassesVaults', NEW v \in Steady'
       PROVE  /\ v \in DOMAIN page'[Observed] => page'[Observed][v] = sg'["vaults"][v]
              /\ sg'["vaults"][v] # Ix!NoOwner => Reached(v)'
  <2>1. kind[Observed] = "vaults" /\ D = DOMAIN sg["vaults"] /\ PassesVaults
    BY <1>2, <1>3, <1>10 DEF PassesVaults, Source
  <2>2. v \in Steady /\ v \in D
    BY <1>6, <1>10, <2>1, SteadyStays DEF Steady
  <2>3. v \in DOMAIN page'[Observed] => page'[Observed][v] = sg'["vaults"][v]
    BY <1>2, <1>4, <2>1, PageIsCut DEF Ix!NextPage
  <2>4. sg["vaults"][v] # Ix!NoOwner => Ix!SameOwner(v) \/ Ahead(v)
    BY <1>7, <2>1, <2>2 DEF PassInv, SettledPass, Reached
  <2> QED
    BY <1>2, <1>5, <1>8, <2>2, <2>3, <2>4 DEF Reached
<1> QED
  BY <1>9, <1>10 DEF PassOK, SettledPass

(* What is looked for is stored, inserted or, if it has another owner,     *)
(* updated.                                                                *)
LEMMA PassLooks ==
    ASSUME IndexAssumption, Observed \in Ix!Processes, PassInv, Ix!Note,
           NEW i \in unseen[Observed], Ix!Look(Observed, i)
    PROVE  PassOK' /\ SettledPass'
<1>1. /\ ObservedType /\ PageOK(Observed) /\ StoreOK /\ ScalarsOK
      /\ UNCHANGED <<sg, db, stage, kind, studio, skip, page>>
  BY ObservedHasType DEF PassInv, Ix!Look
<1>2. /\ unseen'[Observed] = unseen[Observed] \ {i}
      /\ inserts'[Observed] = IF i \in Table(Observed) THEN inserts[Observed]
                              ELSE inserts[Observed] \cup {i}
      /\ updates'[Observed] =
             IF /\ i \in Table(Observed)
                /\ page[Observed][i] \notin {Ix!NoOwner, db[kind[Observed]][i]}
             THEN updates[Observed] \cup {i} ELSE updates[Observed]
  BY <1>1 DEF Ix!Look, ScalarsOK, Table
<1>3. /\ Source(Observed)' = Source(Observed) /\ Table(Observed)' = Table(Observed)
      /\ \A j : Ahead(j)' <=> Ahead(j)
      /\ \A v : Ix!SameOwner(v)' <=> Ix!SameOwner(v)
  BY <1>1 DEF Source, Table, Ahead, Rank, Before, Ix!SameOwner
<1>4. RowsStay /\ (stage'[Observed] # "idle" => Ix!SamePass)
  BY <1>1 DEF Ix!SamePass, RowsStay
<1>5. ASSUME stage'[Observed] # "idle", NEW j \in Source(Observed)' \ late' PROVE Kept(j)'
  <2>1. j \in Source(Observed) \ late
    BY <1>4, <1>5, NotLate
  <2>2. Kept(j)
    BY <1>1, <1>5, <2>1 DEF PassInv, PassOK
  <2> QED
    BY <1>2, <1>3, <2>2 DEF Kept
<1>6. ASSUME PassesVaults', NEW v \in Steady'
      PROVE  /\ v \in DOMAIN page'[Observed] => page'[Observed][v] = sg'["vaults"][v]
             /\ sg'["vaults"][v] # Ix!NoOwner => Reached(v)'
  <2>1. kind[Observed] = "vaults" /\ stage'[Observed] # "idle" /\ PassesVaults
    BY <1>1, <1>6 DEF PassesVaults
  <2>2. v \in Steady
    BY <1>4, <1>6, <2>1, SteadyStays
  <2>3. /\ v \in DOMAIN page[Observed] => page[Observed][v] = sg["vaults"][v]
        /\ sg["vaults"][v] # Ix!NoOwner => Reached(v)
    BY <2>1, <2>2 DEF PassInv, SettledPass
  <2>4. ASSUME sg["vaults"][v] # Ix!NoOwner PROVE Reached(v)'
    <3>1. CASE v = i
      <4>1. page[Observed][i] = sg["vaults"][i]
        BY <1>1, <2>3, <3>1 DEF PageOK
      <4>2. Ix!SameOwner(v) \/ v \in inserts'[Observed] \cup updates'[Observed]
        BY <1>2, <2>1, <2>4, <3>1, <4>1 DEF Ix!SameOwner, Table
      <4> QED
        BY <1>3, <4>2 DEF Reached
    <3>2. CASE v # i
      BY <1>2, <1>3, <2>3, <2>4, <3>2 DEF Reached
    <3> QED
      BY <3>1, <3>2
  <2> QED
    BY <1>1, <2>3, <2>4
<1> QED
  BY <1>5, <1>6 DEF PassOK, SettledPass

(* A commit of the pass gives what it writes the owner of the page, which  *)
(* is the subgraph's.                                                      *)
LEMMA OwnerIsWritten ==
    ASSUME IndexAssumption, Observed \in Ix!Processes, PassInv, Ix!CommitRows(Observed), sg' = sg,
           kind[Observed] = "vaults", NEW v \in Steady,
           Ix!SameOwner(v) \/ v \in inserts[Observed] \cup updates[Observed]
    PROVE  Ix!SameOwner(v)'
<1>1. StoreOK /\ ScalarsOK /\ PageOK(Observed) /\ stage[Observed] = "write"
  BY ObservedHasType DEF PassInv, Ix!CommitRows, Ix!Seen
<1>2. /\ DOMAIN db'["vaults"] = DOMAIN db["vaults"] \cup inserts[Observed] \cup updates[Observed]
      /\ \A i \in DOMAIN db["vaults"] \ (inserts[Observed] \cup updates[Observed]) :
            db'["vaults"][i] = db["vaults"][i]
      /\ \A i \in inserts[Observed] \cup updates[Observed] :
            db'["vaults"][i] = page[Observed][i]
  BY <1>1, RowsAreWritten DEF Table
<1>3. v \in DOMAIN page[Observed] => page[Observed][v] = sg["vaults"][v]
  BY <1>1 DEF PassInv, SettledPass, PassesVaults
<1>4. v \in inserts[Observed] \cup updates[Observed] => v \in DOMAIN page[Observed]
  BY <1>1 DEF PageOK
<1> QED
  BY <1>2, <1>3, <1>4 DEF Ix!SameOwner

(* A pass goes on behind a full page, what was on it is stored.            *)
LEMMA PassGoesOn ==
    ASSUME IndexAssumption, Observed \in Ix!Processes, PassInv, Ix!Note,
           Ix!Commit(Observed), ~Ix!IsLastPage(Observed)
    PROVE  PassOK' /\ SettledPass'
<1>1. /\ ObservedType /\ PageOK(Observed) /\ StoreOK /\ ScalarsOK
      /\ sg' = sg /\ studio' = studio /\ Ix!CommitRows(Observed) /\ Ix!Seen(Observed)
      /\ stage[Observed] = "write" /\ unseen[Observed] = {}
  BY ObservedHasType DEF PassInv, Ix!Commit, Ix!CommitRows, Ix!Seen
<1>2. /\ PageOK(Observed)'
      /\ stage'[Observed] = "fetch" /\ kind'[Observed] = kind[Observed]
      /\ skip'[Observed] = skip[Observed] + Batch
  BY <1>1, GoesOn
<1>3. DOMAIN page'[Observed] = {}
  BY <1>2, EmptyPage DEF PageOK
<1>4. /\ RowsStay
      /\ Table(Observed)' = Table(Observed) \cup inserts[Observed] \cup updates[Observed]
  BY <1>1, <1>2, RowsAreWritten DEF RowsStay, Table
<1>5. Ix!SamePass
  BY <1>1, <1>2 DEF Ix!SamePass
<1>6. \A i : Ahead(i) => Ahead(i)'
  BY <1>1, <1>2 DEF Ahead, Rank, Before, Source
<1>7. ASSUME NEW i \in Source(Observed)' \ late' PROVE Kept(i)'
  <2>1. i \in Source(Observed) \ late
    BY <1>5, <1>7, NotLate
  <2>2. Kept(i)
    BY <1>1, <2>1 DEF PassInv, PassOK
  <2> QED
    BY <1>1, <1>4, <1>6, <2>2 DEF Kept
<1>8. ASSUME PassesVaults', NEW v \in Steady', sg'["vaults"][v] # Ix!NoOwner
      PROVE  Reached(v)'
  <2>1. kind[Observed] = "vaults" /\ PassesVaults
    BY <1>1, <1>2, <1>8 DEF PassesVaults
  <2>2. v \in Steady
    BY <1>4, <1>5, <1>8, <2>1, SteadyStays
  <2>3. Reached(v)
    BY <1>1, <1>8, <2>1, <2>2 DEF PassInv, SettledPass
  <2>4. Ix!SameOwner(v) \/ v \in inserts[Observed] \cup updates[Observed] => Ix!SameOwner(v)'
    BY <1>1, <2>1, <2>2, OwnerIsWritten
  <2> QED
    BY <1>1, <1>6, <2>3, <2>4 DEF Reached
<1> QED
  BY <1>3, <1>7, <1>8 DEF PassOK, SettledPass

LEMMA PassFinishes ==
    ASSUME Observed \in Ix!Processes, ScalarsOK, ObservedType', Ix!Finish(Observed),
           troubles' = troubles
    PROVE  PassOK' /\ SettledPass'
<1>1. troubles' \in 0..MaxTroubles /\ studio \in [Ix!Processes -> BOOLEAN]
  BY DEF ScalarsOK
<1>2. CASE kind[Observed] = "vaults"
  <2>1. Ix!Begin(Observed, "events") /\ studio' = studio /\ "events" \in Ix!Kinds
    BY <1>2 DEF Ix!Finish, Ix!Kinds
  <2> QED
    BY <1>1, <2>1, BeginMoves, PassBegins
<1>3. CASE kind[Observed] # "vaults"
  <2>1. stage'[Observed] = "idle"
    BY <1>1, <1>3, LeaveMoves DEF Ix!Finish
  <2> QED
    BY <2>1 DEF PassOK, SettledPass, PassesVaults
<1> QED
  BY <1>2, <1>3

LEMMA PassInvInit ==
    ASSUME IndexAssumption, Observed \in Ix!Processes, Ix!InitPasses PROVE PassInv
<1>1. stage[Observed] = "idle"
  BY DEF Ix!InitPasses, Ix!Init
<1> QED
  BY <1>1, TypesInit DEF PassInv, PassOK, SettledPass, PassesVaults, Ix!InitPasses

LEMMA PassInvNext ==
    ASSUME IndexAssumption, Observed \in Ix!Processes, PassInv, [Ix!NextPasses]_(Ix!passVars)
    PROVE  PassInv'
<1>1. IndexInv /\ IndexInv'
  <2>1. [Ix!Next]_(Ix!vars)
    BY DEF Ix!NextPasses, Ix!passVars
  <2> QED
    BY <2>1, IndexInvNext DEF PassInv
<1>2. /\ ObservedType /\ PageOK(Observed) /\ StoreOK /\ ScalarsOK
      /\ PassOK /\ SettledPass
  BY <1>1, ObservedHasType DEF PassInv
<1>3. ObservedType'
  <2>1. StoreOK' /\ ScalarsOK'
    BY <1>1 DEF IndexInv
  <2> QED
    BY <2>1 DEF ObservedType, ScalarsOK, Source, IndexAssumption, StoreOK, GoodStore,
                Ix!IsStore, Ix!IsTable, Ix!IdsOf
<1>4. CASE UNCHANGED Ix!passVars
  <2>1. /\ UNCHANGED <<sg, db, stage, kind, skip, page, unseen, inserts, updates>>
        /\ UNCHANGED <<late, stirred>>
    BY <1>4 DEF Ix!passVars, Ix!vars, Ix!tickVars, Ix!pageVars
  <2> QED
    BY <1>1, <1>2, <2>1
       DEF PassInv, PassOK, SettledPass, PassesVaults, Steady, Kept, Reached, Ahead,
           Rank, Before, Source, Table, Ix!SameOwner, Ix!NoOwner
<1>5. ASSUME Ix!Note,
             \/ Ix!StartTick(Observed) \/ Ix!Run(Observed)
             \/ Ix!TickStep(Observed) \/ Ix!Fail(Observed) \/ Ix!Fallback(Observed)
      PROVE  PassOK' /\ SettledPass'
  <2>1. CASE Ix!StartTick(Observed) \/ Ix!Run(Observed) \/ Ix!Fallback(Observed)
    <3>1. /\ stage'[Observed] = "fetch" /\ skip'[Observed] = 0
          /\ page'[Observed] = Ix!Nothing
      BY <1>2, <2>1, StartMoves, BeginMoves
    <3> QED
      BY <1>3, <3>1, PassBegins
  <2>2. CASE Ix!CommitConflict(Observed) \/ Ix!Fail(Observed)
    <3>1. stage'[Observed] = "idle"
      BY <1>2, <2>2 DEF Ix!CommitConflict, Ix!Fail, Ix!Leave, ScalarsOK
    <3> QED
      BY <3>1 DEF PassOK, SettledPass, PassesVaults
  <2>3. CASE Ix!Fetch(Observed)
    BY <1>3, <1>5, <2>3, PassFetches
  <2>4. CASE Ix!FetchEnd(Observed)
    BY <1>2, <1>3, <2>4, PassFinishes DEF Ix!FetchEnd
  <2>5. CASE Ix!Commit(Observed)
    <3>1. CASE Ix!IsLastPage(Observed)
      BY <1>2, <1>3, <2>5, <3>1, PassFinishes DEF Ix!Commit
    <3> QED
      BY <1>5, <2>5, <3>1, PassGoesOn
  <2>6. ASSUME NEW i \in unseen[Observed], Ix!Look(Observed, i) PROVE PassOK' /\ SettledPass'
    BY <1>5, <2>6, PassLooks
  <2> QED
    BY <1>5, <2>1, <2>2, <2>3, <2>4, <2>5, <2>6 DEF Ix!TickStep
<1>6. ASSUME Ix!Note, NEW p \in Ix!Processes \ {Observed},
             \/ Ix!StartTick(p) \/ Ix!Run(p) \/ Ix!TickStep(p) \/ Ix!Fail(p) \/ Ix!Fallback(p)
      PROVE  PassOK' /\ SettledPass'
  <2>1. Alone(p) /\ RowsStay
    BY <1>1, <1>6, ProcessMoves
  <2> QED
    BY <1>2, <1>3, <1>6, <2>1, PassStays DEF Alone
<1>7. ASSUME Ix!Note, Ix!Subgraph PROVE PassOK' /\ SettledPass'
  <2>1. UNCHANGED db /\ UNCHANGED Ix!tickVars
    BY <1>1, <1>7, SubgraphMoves
  <2>2. RowsStay
    BY <2>1 DEF RowsStay
  <2> QED
    BY <1>2, <1>3, <1>7, <2>1, <2>2, NoneMoves, PassStays
<1> QED
  BY <1>1, <1>4, <1>5, <1>6, <1>7 DEF PassInv, Ix!NextPasses, Ix!Next

LEMMA PassInvHolds ==
    ASSUME IndexAssumption, Observed \in Ix!Processes PROVE Ix!SpecPasses => []PassInv
BY PassInvInit, PassInvNext, PTL DEF Ix!SpecPasses

(* When a pass ends nothing is ahead of it, nor left to look for.          *)
LEMMA NothingAhead ==
    ASSUME IndexAssumption, Observed \in Ix!Processes, PassInv, Ix!Passed(Observed),
           NEW i \in Source(Observed)
    PROVE  ~Ahead(i) /\ unseen[Observed] = {} /\ stage[Observed] # "idle"
<1>1. ObservedType /\ PageOK(Observed)
  BY ObservedHasType DEF PassInv
<1>2. CASE Ix!FetchEnd(Observed)
  <2>1. stage[Observed] = "fetch" /\ Ix!NextPage(Observed) = Ix!Nothing
    BY <1>2 DEF Ix!FetchEnd
  <2>2. unseen[Observed] = {}
    BY <1>1, <2>1, EmptyPage DEF PageOK
  <2>3. OnPage(Source(Observed), skip[Observed]) = {}
    BY <2>1, EmptyPage, PageIsCut DEF Ix!NextPage, Source
  <2>4. \A x \in Source(Observed) : Rank(Source(Observed), x) # skip[Observed]
    BY <1>1, <2>3, PageAssumption DEF OnPage, ObservedType
  <2>5. ~(Rank(Source(Observed), i) >= skip[Observed])
    BY <1>1, <2>4, RanksAreFilled DEF ObservedType
  <2> QED
    BY <2>1, <2>2, <2>5 DEF Ahead
<1>3. CASE Ix!Commit(Observed) /\ Ix!IsLastPage(Observed)
  <2>1. stage[Observed] = "write" /\ unseen[Observed] = {}
    BY <1>3 DEF Ix!Commit, Ix!CommitRows, Ix!Seen
  <2>2. Cardinality(DOMAIN page[Observed]) # Batch
    BY <1>3, CountsAgree, PageAssumption DEF Ix!IsLastPage
  <2> QED
    BY <2>1, <2>2 DEF Ahead
<1> QED
  BY <1>2, <1>3 DEF Ix!Passed

(* A pass that ends normally, in any process, has stored everything that is*)
(* in the subgraph but what came in meanwhile, and what moved up because a *)
(* smaller id was undone; whatever the subgraph adds or undoes and other   *)
(* passes write, and for every batch (main.py:171-223, 256-324).           *)
THEOREM PassesAreComplete ==
    ASSUME IndexAssumption, Observed \in Ix!Processes
    PROVE  Ix!SpecPasses => Ix!CleanPassIsComplete
<1> DEFINE Complete ==
      Ix!Passed(Observed) => Source(Observed) \ late \subseteq DOMAIN db'[kind[Observed]]
<1>1. PassInv /\ [Ix!NextPasses]_(Ix!passVars) => [Complete]_(Ix!passVars)
  <2> SUFFICES ASSUME PassInv, Ix!Passed(Observed), NEW i \in Source(Observed) \ late
               PROVE  i \in DOMAIN db'[kind[Observed]]
    OBVIOUS
  <2>1. StoreOK /\ ScalarsOK /\ PageOK(Observed)
    BY ObservedHasType DEF PassInv
  <2>2. stage[Observed] # "idle" /\ unseen[Observed] = {} /\ ~Ahead(i)
    BY NothingAhead
  <2>3. i \in Table(Observed) \cup inserts[Observed]
    BY <2>2 DEF PassInv, PassOK, Kept
  <2>4. CASE Ix!FetchEnd(Observed)
    <3>1. inserts[Observed] = {} /\ db' = db
      BY <2>1, <2>4, EmptyPage DEF PageOK, Ix!FetchEnd
    <3> QED
      BY <2>3, <3>1 DEF Table
  <2>5. CASE Ix!Commit(Observed)
    <3>1. Ix!CommitRows(Observed) /\ sg' = sg
      BY <2>5 DEF Ix!Commit, Ix!CommitRows
    <3> QED
      BY <2>1, <2>3, <3>1, RowsAreWritten
  <2> QED
    BY <2>4, <2>5 DEF Ix!Passed
<1> QED
  BY <1>1, PassInvHolds, PTL DEF Ix!SpecPasses, Ix!CleanPassIsComplete, Source

(* A pass over vaults that ends leaves each with the owner of the subgraph,*)
(* unless it moved up since the pass began, or that owner has changed, or  *)
(* another process has written one; for every batch and whatever older     *)
(* ticks wrote (main.py:180-223).                                          *)
THEOREM PassesSettleOwners ==
    ASSUME IndexAssumption, Observed \in Ix!Processes
    PROVE  Ix!SpecPasses => Ix!PassSettlesOwners
<1> DEFINE Settles ==
      Ix!Passed(Observed) /\ kind[Observed] = "vaults" =>
          \A v \in DOMAIN sg["vaults"] \ stirred :
              sg["vaults"][v] # Ix!NoOwner => Ix!SameOwner(v)'
<1>1. PassInv /\ [Ix!NextPasses]_(Ix!passVars) => [Settles]_(Ix!passVars)
  <2> SUFFICES ASSUME PassInv, Ix!Passed(Observed), kind[Observed] = "vaults",
                      NEW v \in Steady, sg["vaults"][v] # Ix!NoOwner
               PROVE  Ix!SameOwner(v)'
    BY DEF Steady
  <2>1. PageOK(Observed) /\ v \in Source(Observed)
    BY ObservedHasType DEF PassInv, Source, Steady
  <2>2. stage[Observed] # "idle" /\ unseen[Observed] = {} /\ ~Ahead(v)
    BY <2>1, NothingAhead
  <2>3. Ix!SameOwner(v) \/ v \in inserts[Observed] \cup updates[Observed]
    BY <2>2 DEF PassInv, SettledPass, PassesVaults, Reached
  <2>4. CASE Ix!FetchEnd(Observed)
    <3>1. inserts[Observed] \cup updates[Observed] = {} /\ UNCHANGED <<sg, db>>
      BY <2>1, <2>4, EmptyPage DEF PageOK, Ix!FetchEnd
    <3> QED
      BY <2>3, <3>1 DEF Ix!SameOwner
  <2>5. CASE Ix!Commit(Observed)
    <3>1. Ix!CommitRows(Observed) /\ sg' = sg
      BY <2>5 DEF Ix!Commit, Ix!CommitRows
    <3> QED
      BY <2>3, <3>1, OwnerIsWritten
  <2> QED
    BY <2>4, <2>5 DEF Ix!Passed
<1> QED
  BY <1>1, PassInvHolds, PTL DEF Ix!SpecPasses, Ix!PassSettlesOwners

(* The rows that a step inserts or changes.                                *)
Changed(k) == {i \in DOMAIN db'[k] : i \notin DOMAIN db[k] \/ db'[k][i] # db[k][i]}

(* A step changes one table at most; rows stay, a batch of them at most is *)
(* inserted or changed, and what is changed is the owner of a vault, to a  *)
(* known one: a commit is one of CommitVaults or CommitEvents              *)
(* (main.py:182-220, 267-321).                                             *)
PagesOnly ==
    \A k \in Ix!Kinds : db'[k] # db[k] =>
        /\ DOMAIN db[k] \subseteq DOMAIN db'[k]
        /\ IsFiniteSet(Changed(k)) /\ Cardinality(Changed(k)) <= Batch
        /\ \A j \in Ix!Kinds \ {k} : db'[j] = db[j]
        /\ \A i \in Changed(k) \cap DOMAIN db[k] : k = "vaults" /\ db'[k][i] # Ix!NoOwner

(* The indexer commits what Listings takes for granted of it, and nothing  *)
(* else.                                                                   *)
THEOREM CommitsArePages == ASSUME IndexAssumption PROVE Ix!Spec => [][PagesOnly]_(Ix!vars)
<1>1. IndexInv /\ [Ix!Next]_(Ix!vars) => [PagesOnly]_(Ix!vars)
  <2> SUFFICES ASSUME IndexInv, Ix!Next, NEW k \in Ix!Kinds, db'[k] # db[k]
               PROVE  /\ DOMAIN db[k] \subseteq DOMAIN db'[k]
                      /\ IsFiniteSet(Changed(k)) /\ Cardinality(Changed(k)) <= Batch
                      /\ \A j \in Ix!Kinds \ {k} : db'[j] = db[j]
                      /\ \A i \in Changed(k) \cap DOMAIN db[k] : k = "vaults" /\ db'[k][i] # Ix!NoOwner
    BY DEF PagesOnly
  <2>1. PICK p \in Ix!Processes : Ix!CommitRows(p) /\ sg' = sg
    BY DEF Ix!Next, Ix!TickStep, Ix!Subgraph, Ix!StartTick, Ix!Run, Ix!StartSync, Ix!Fetch,
           Ix!FetchEnd, Ix!Look, Ix!Commit, Ix!CommitConflict, Ix!Fail, Ix!Fallback,
           Ix!VaultCreated, Ix!VaultInitialized, Ix!VaultEvent, Ix!Save, Ix!Revert
  <2>2. StoreOK /\ ScalarsOK /\ PageOK(p)
    BY DEF IndexInv
  <2>3. /\ \A j \in Ix!Kinds : DOMAIN db[j] \subseteq DOMAIN db'[j]
        /\ \A j \in Ix!Kinds \ {kind[p]} : db'[j] = db[j]
        /\ DOMAIN db'[kind[p]] = Table(p) \cup inserts[p] \cup updates[p]
        /\ \A i \in Table(p) \ (inserts[p] \cup updates[p]) : db'[kind[p]][i] = db[kind[p]][i]
        /\ \A i \in inserts[p] \cup updates[p] : db'[kind[p]][i] = page[p][i]
    BY <2>1, <2>2, RowsAreWritten
  <2>4. k = kind[p]
    BY <2>3
  <2>5. Changed(k) \subseteq inserts[p] \cup updates[p]
    BY <2>3, <2>4 DEF Changed, Table
  <2>6. /\ inserts[p] \cup updates[p] \subseteq DOMAIN page[p]
        /\ IsFiniteSet(DOMAIN page[p]) /\ Cardinality(DOMAIN page[p]) <= Batch
    BY <2>2 DEF PageOK
  <2>7. IsFiniteSet(Changed(k)) /\ Cardinality(Changed(k)) <= Cardinality(DOMAIN page[p])
    BY <2>5, <2>6, FS_Subset
  <2>8. Cardinality(Changed(k)) <= Batch
    <3>1. Cardinality(Changed(k)) \in Nat /\ Cardinality(DOMAIN page[p]) \in Nat
      BY <2>6, <2>7, FS_CardinalityType
    <3> QED
      BY <2>6, <2>7, <3>1, PageAssumption
  <2>9. ASSUME NEW i \in Changed(k) \cap DOMAIN db[k]
        PROVE  k = "vaults" /\ db'[k][i] # Ix!NoOwner
    <3>1. inserts[p] \cap DOMAIN db[kind[p]] = {}
      BY <2>1 DEF Ix!CommitRows, Ix!Conflict
    <3>2. i \in updates[p]
      BY <2>4, <2>5, <2>9, <3>1
    <3>3. db'[k][i] = page[p][i] /\ page[p][i] # Ix!NoOwner /\ i \in DOMAIN page[p]
      BY <2>2, <2>3, <2>4, <2>6, <3>2 DEF PageOK
    <3>4. kind[p] # "events"
      BY <2>2, <3>3 DEF PageOK
    <3> QED
      BY <2>4, <3>3, <3>4 DEF Ix!Kinds
  <2> QED
    BY <2>3, <2>4, <2>7, <2>8, <2>9
<1> QED
  BY <1>1, IndexInvHolds, PTL DEF Ix!Spec
===================================================================================
