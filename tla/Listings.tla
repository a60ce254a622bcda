--------------------------------- MODULE Listings ---------------------------------
(***************************************************************************)
(* The reading routes of the API: the list of vaults, the history of a     *)
(* vault and its detail (apps/api/v1/routes/vaults.py), and the history of *)
(* notifications (apps/api/v1/routes/alerts.py).                           *)
(*                                                                         *)
(* Each route takes several statements and each statement sees what is     *)
(* committed when it runs (READ COMMITTED, the default of Postgres, which  *)
(* get_engine leaves alone).  The indexer and the notification tasks       *)
(* commit rows in between.  Readers do not disturb each other, so there is *)
(* one, a client that asks for a page after the other; requests that are   *)
(* refused for a malformed parameter read nothing and are left out.        *)
(*                                                                         *)
(* A row is a member of Rows; what never changes of it is in Row: the      *)
(* table, the chain, whose it is (the address of a vault, the wallet of a  *)
(* notification), what the type and time filters of the history look at,   *)
(* and what the route sorts by.                                            *)
(***************************************************************************)
EXTENDS Integers, FiniteSets

CONSTANTS
    Rows,       \* the rows that may be inserted
    Row,        \* Row[r]: the columns of row r that never change
    Owners,     \* wallets that own vaults
    Asked,      \* what the client may ask for
    Limit,      \* rows on a page
    Batch       \* indexer_batch_size

Any == "any"
NoOwner == "nobody"
NoRow == "no_row"
Tables == {"vaults", "events", "notes"}
InTable(t) == {r \in Rows : Row[r].table = t}
VaultRows == InTable("vaults")
EventRows == InTable("events")
NoteRows == InTable("notes")
Chains == {Row[r].chain : r \in VaultRows}

ASSUME RowAssumption ==
    /\ IsFiniteSet(Rows) /\ NoRow \notin Rows
    /\ \A r \in Rows :
          Row[r].table \in Tables /\ Row[r].at \in Nat /\ Row[r].of # Any
(* uq_vault_chain_address, and the primary key by which vaults are sorted. *)
ASSUME VaultAssumption ==
    \A r, s \in VaultRows : r # s =>
        /\ Row[r].at # Row[s].at
        /\ Row[r].chain # Row[s].chain \/ Row[r].of # Row[s].of
ASSUME PageAssumption == Limit \in Nat \ {0} /\ Batch \in Nat \ {0}

VARIABLES
    stored,     \* the rows that are committed
    owner,      \* owner[r]: the owner of vault r
    at,         \* "idle", "find", "count", "page", "latest" or "answered"
    query,      \* what the client asks for
    offset,     \* the offset of the page
    total,      \* the count of this request
    items,      \* the rows this request has returned
    vault,      \* the vault get_vault has found
    seen,       \* rows returned by the pages of this walk (history)
    twice,      \* rows returned by two of them (history)
    owed,       \* rows that matched when the walk began (history)
    counted,    \* the rows there were to count (history)
    entered,    \* a row has come to match since the walk began (history)
    left        \* a row has ceased to match since the walk began (history)

tableVars == <<stored, owner>>
requestVars == <<at, query, offset, total, items, vault>>
walkVars == <<seen, twice, owed, counted, entered, left>>
vars == <<tableVars, requestVars, walkVars>>

(***************************************************************************)
(* The filters of each route: Any where a parameter is not given.  The     *)
(* list of vaults has a default chain, so it is always one chain's.        *)
(***************************************************************************)

Filter(t, chain, of, type, o) ==
    [table |-> t, chain |-> chain, of |-> of, type |-> type, owner |-> o]

VaultQueries ==
    {Filter("vaults", c, Any, Any, o) : c \in Chains, o \in Owners \cup {Any}}
Addresses == {Row[r].of : r \in VaultRows}
Types == {Row[r].type : r \in EventRows}
HistoryQueries ==
    {Filter("events", c, a, k, Any) :
        c \in Chains \cup {Any}, a \in Addresses, k \in Types \cup {Any}}
NoteQueries == {Filter("notes", Any, Row[n].of, Any, Any) : n \in NoteRows}
DetailQueries == {Filter("detail", c, a, Any, Any) : c \in Chains \cup {Any}, a \in Addresses}

NoQuery == Filter("none", Any, Any, Any, Any)
Walks == VaultQueries \cup HistoryQueries \cup NoteQueries

ASSUME AskedAssumption == Asked \subseteq Walks \cup DetailQueries

(* Row r passes the filter q of table t when vaults have the owners f.     *)
Matches(r, t, q, f) ==
    /\ Row[r].table = t
    /\ q.chain \in {Any, Row[r].chain}
    /\ q.of \in {Any, Row[r].of}
    /\ q.type \in {Any, Row[r].type}
    /\ q.owner # Any => f[r] = q.owner

(* What a walk with filter q would return if it took a moment.             *)
Matching(q) == {r \in stored : Matches(r, q.table, q, owner)}

(* The vaults of the address a history or a detail is asked for.           *)
VaultsOf(q) == {r \in stored : Matches(r, "vaults", [q EXCEPT !.type = Any], owner)}

(* The events of the vault that was found.                                 *)
EventsOf(v) ==
    {e \in stored : /\ Row[e].table = "events"
                    /\ Row[e].of = Row[v].of /\ Row[e].chain = Row[v].chain}

(* What a request is about.                                                *)
Scope == IF query.table = "detail" THEN EventsOf(vault) ELSE Matching(query)

TypeOK ==
    /\ stored \subseteq Rows
    /\ owner \in [VaultRows -> Owners \cup {NoOwner}]
    /\ at \in {"idle", "find", "count", "page", "latest", "answered"}
    /\ query \in Asked \cup {NoQuery} /\ (query = NoQuery <=> at = "idle")
    /\ offset \in Nat /\ total \in Nat
    /\ items \subseteq stored /\ seen \subseteq stored
    /\ twice \subseteq seen /\ owed \subseteq stored /\ counted \subseteq stored
    /\ vault \in VaultRows \cup {NoRow}
    /\ vault # NoRow <=> query \in DetailQueries /\ at # "find"
    /\ entered \in BOOLEAN /\ left \in BOOLEAN

Clear ==
    /\ at' = "idle" /\ query' = NoQuery
    /\ offset' = 0 /\ total' = 0
    /\ items' = {} /\ vault' = NoRow
    /\ seen' = {} /\ twice' = {} /\ owed' = {} /\ counted' = {}
    /\ entered' = FALSE /\ left' = FALSE

Init ==
    /\ stored = {}
    /\ owner = [r \in VaultRows |-> NoOwner]
    /\ at = "idle" /\ query = NoQuery
    /\ offset = 0 /\ total = 0
    /\ items = {} /\ vault = NoRow
    /\ seen = {} /\ twice = {} /\ owed = {} /\ counted = {}
    /\ entered = FALSE /\ left = FALSE

(***************************************************************************)
(* Commits of the indexer and of the notification tasks.                   *)
(***************************************************************************)

(* The rows new are committed and the vaults have the owners f.            *)
Write(new, f) ==
    /\ stored' = stored \cup new
    /\ owner' = f
    /\ LET then == {r \in stored' : Matches(r, query.table, query, f)}
       IN  /\ entered' = (entered \/ (at # "idle" /\ then \ Matching(query) # {}))
           /\ left' = (left \/ (at # "idle" /\ Matching(query) \ then # {}))
    /\ UNCHANGED <<requestVars, seen, twice, owed, counted>>

(* sync_vaults: a page of vaults is inserted or given other owners.  Ids   *)
(* are taken before the commit, so they become visible in any order.       *)
CommitVaults(new, moved) ==
    /\ Cardinality(new \cup moved) \in 1..Batch
    /\ \E f \in [new \cup moved -> Owners \cup {NoOwner}] :
          /\ \A r \in moved : f[r] \notin {NoOwner, owner[r]}
          /\ Write(new, [r \in VaultRows |-> IF r \in new \cup moved THEN f[r] ELSE owner[r]])

(* sync_vault_events: a page of events is inserted.                        *)
CommitEvents(new) ==
    /\ Cardinality(new) \in 1..Batch
    /\ Write(new, owner)

(* _persist_notification_log                                               *)
CommitNote(n) ==
    /\ n \notin stored
    /\ Write({n}, owner)

(***************************************************************************)
(* A request of the client, statement by statement.                        *)
(***************************************************************************)

FirstStatement(q) == IF q.table \in {"events", "detail"} THEN "find" ELSE "count"

Ask(q) ==
    /\ at = "idle"
    /\ at' = FirstStatement(q)
    /\ query' = q
    /\ owed' = Matching(q)
    /\ UNCHANGED <<tableVars, offset, total, items, vault,
                   seen, twice, counted, entered, left>>

(* Mutated forms, each named for the mistake it makes, precede the         *)
(* definitions they replace: they show which property notices.             *)
FindDetailOrNone ==
    /\ at = "find" /\ query.table = "detail"
    /\ vault' \in IF VaultsOf(query) = {} THEN {NoRow} ELSE VaultsOf(query)
    /\ at' = "count"
    /\ UNCHANGED <<tableVars, query, offset, total, items, walkVars>>

(* vault_exists_stmt of the history.                                       *)
FindVault ==
    /\ at = "find" /\ query.table = "events"
    /\ VaultsOf(query) # {}
    /\ at' = "count"
    /\ UNCHANGED <<tableVars, query, offset, total, items, vault, walkVars>>

(* The rows of the detail: there is one.                                   *)
FindDetail ==
    /\ at = "find" /\ query.table = "detail"
    /\ VaultsOf(query) # {}
    /\ Cardinality(VaultsOf(query)) > 1 => query.chain # Any
    /\ vault' \in VaultsOf(query)
    /\ at' = "count"
    /\ UNCHANGED <<tableVars, query, offset, total, items, walkVars>>

(* 404, or 409 for a detail that several chains have.                      *)
Refuse ==
    /\ at = "find"
    /\ \/ VaultsOf(query) = {}
       \/ query.table = "detail" /\ query.chain = Any /\ Cardinality(VaultsOf(query)) > 1
    /\ Clear
    /\ UNCHANGED tableVars

CountOfTheTable == {r \in stored : Row[r].table = query.table}

(* The rows of count_stmt: it has the filters of the page.                 *)
CountRows == Scope

Count ==
    /\ at = "count"
    /\ total' = Cardinality(CountRows)
    /\ counted' = Scope
    /\ at' = IF query.table = "detail" THEN "latest" ELSE "page"
    /\ UNCHANGED <<tableVars, query, offset, items, vault,
                   seen, twice, owed, entered, left>>

NoLater(r, s) == Row[r].at <= Row[s].at
Lesser(m, n) == IF m < n THEN m ELSE n

IsPageOfNoOrder(S, M) ==
    \E before \in SUBSET (M \ S) :
        /\ Cardinality(before) = Lesser(offset, Cardinality(M))
        /\ Cardinality(S) = Lesser(Limit, Cardinality(M \ before))

(* ORDER BY ... DESC OFFSET offset LIMIT limit: rows that the order does   *)
(* not tell apart come in any order, another one for each statement.       *)
IsPage(S, M) ==
    \E before \in SUBSET (M \ S) :
        /\ Cardinality(before) = Lesser(offset, Cardinality(M))
        /\ Cardinality(S) = Lesser(Limit, Cardinality(M \ before))
        /\ \A r \in M \ before, b \in before : NoLater(r, b)
        /\ \A r \in M \ (before \cup S), s \in S : NoLater(r, s)

(* data_stmt                                                               *)
ReadPage ==
    /\ at = "page"
    /\ \E S \in SUBSET Matching(query) :
          /\ IsPage(S, Matching(query))
          /\ items' = S
          /\ seen' = seen \cup S
          /\ twice' = twice \cup (seen \cap S)
    /\ at' = "answered"
    /\ UNCHANGED <<tableVars, query, offset, total, vault, owed, counted, entered, left>>

LatestOfAddress == {e \in stored : Row[e].table = "events" /\ Row[e].of = Row[vault].of}

(* The events latest_event is chosen from.                                 *)
Candidates == EventsOf(vault)

(* latest_event: the first one of the order, if any.                       *)
ReadLatest ==
    /\ at = "latest"
    /\ \E S \in SUBSET Candidates :
          /\ Cardinality(S) = Lesser(1, Cardinality(Candidates))
          /\ \A r \in Candidates, s \in S : NoLater(r, s)
          /\ items' = S
    /\ at' = "answered"
    /\ UNCHANGED <<tableVars, query, offset, total, vault, walkVars>>

(* The client asks for the next page, unless this one is short and the     *)
(* total is reached; or it stops.                                          *)
NextPage ==
    /\ at = "answered" /\ query \in Walks
    /\ Cardinality(items) = Limit \/ offset + Limit < total
    /\ at' = FirstStatement(query)
    /\ offset' = offset + Limit
    /\ items' = {} /\ total' = 0 /\ counted' = {}
    /\ UNCHANGED <<tableVars, query, vault, seen, twice, owed, entered, left>>

Stop ==
    /\ at = "answered"
    /\ Clear
    /\ UNCHANGED tableVars

Request ==
    \/ \E q \in Asked : Ask(q)
    \/ FindVault \/ FindDetail \/ Refuse
    \/ Count \/ ReadPage \/ ReadLatest
    \/ NextPage \/ Stop

Commit ==
    \/ \E new \in SUBSET (VaultRows \ stored), moved \in SUBSET (VaultRows \cap stored) :
          CommitVaults(new, moved)
    \/ \E new \in SUBSET (EventRows \ stored) : CommitEvents(new)
    \/ \E n \in NoteRows : CommitNote(n)

Next == Request \/ Commit

Spec == Init /\ [][Next]_vars

(***************************************************************************)
(* Properties.                                                             *)
(***************************************************************************)

Answered(qs) == at = "answered" /\ query \in qs

(* Two matching rows the order does not tell apart: events of two chains,  *)
(* or of a block that a reorganisation has replaced.                       *)
Tied == \E r, s \in Matching(query) : r # s /\ Row[r].at = Row[s].at

(* A walk over the pages has returned every row that was there when it     *)
(* began once a page is short, or once the total is reached with nothing   *)
(* committed between that count and its page.  Rows inserted meanwhile     *)
(* push others back, never past the walk; a vault that changes hands, or   *)
(* rows the order does not tell apart, may hide one                        *)
(* (vaults.py:137-145, 196-206; alerts.py:446-463).                        *)
WalkIsComplete ==
    Answered(Walks) /\ ~left /\ ~Tied =>
        \/ owed \subseteq seen
        \/ /\ Cardinality(items) = Limit
           /\ offset + Limit < total \/ ~(Matching(query) \subseteq counted)

(* A row is shown on two pages of a walk only if another one has come in   *)
(* front of it meanwhile, or ties with it: the offset counts rows, not     *)
(* pages, and counts from 0 (vaults.py:138, 200-202; alerts.py:460-462).   *)
RepeatsNeedInserts == twice # {} => entered \/ Tied

(* The total of an answer and its rows are two statements: there are as    *)
(* many rows as the total promises unless a vault changed hands in         *)
(* between, and no more unless one was committed in between                *)
(* (vaults.py:144-145, 205-206; alerts.py:447-463).                        *)
AnswerFitsTotal ==
    [][ReadPage =>
        /\ counted \subseteq Matching(query)
              => Cardinality(items') >= Lesser(Limit, total - offset)
        /\ Matching(query) \subseteq counted
              => items' = {} \/ Cardinality(items') <= total - offset]_vars

(* A detail counts and dates the events of one vault of that address: if   *)
(* any are counted there is a latest one, none of those counted is later,  *)
(* and it is of the vault's chain though other chains have the same        *)
(* address (vaults.py:234-265).                                            *)
DetailIsConsistent ==
    Answered(DetailQueries) =>
        /\ Row[vault].of = query.of /\ query.chain \in {Any, Row[vault].chain}
        /\ counted \cup items \subseteq EventsOf(vault)
        /\ total > 0 => items # {}
        /\ \A c \in counted, e \in items : NoLater(c, e)
===================================================================================
