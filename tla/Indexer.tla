--------------------------------- MODULE Indexer ---------------------------------
(***************************************************************************)
(* worker.indexer.tick (apps/worker/tasks.py, apps/indexer/main.py): celery*)
(* workers copy vaults and vault events from the subgraph to Postgres, page*)
(* by page, from the beginning at every tick and without a lock; the       *)
(* command "make indexer" does the same once, whenever somebody runs it.   *)
(* The subgraph (subgraph-base-testnet/src) grows meanwhile, and goes back *)
(* to an earlier store when the chain is reorganised.                      *)
(*                                                                         *)
(* A table of either side is a function from ids to owners; events have    *)
(* the owner NoOwner throughout.  Ids are integers because the subgraph    *)
(* sorts by id; an id says nothing of the time its entity was created.     *)
(***************************************************************************)
EXTENDS Integers, FiniteSets, Sequences, Functions

CONSTANTS
    VaultIds,   \* ids of vaults
    EventIds,   \* ids txHash-logIndex of vault events
    Owners,     \* wallets
    Workers,    \* processes of the celery queue
    Commands,   \* shells from which the indexer is run by hand
    Batch,      \* indexer_batch_size
    Depth,      \* bound on the handlers that one reorganisation undoes
    MaxTroubles \* bound on reorganisations, failed requests, statements and kills

Processes == Workers \cup Commands

ASSUME IdAssumption == VaultIds \subseteq Nat /\ EventIds \subseteq Nat
ASSUME BatchAssumption == Batch \in Nat \ {0}
ASSUME BoundAssumption == MaxTroubles \in Nat /\ Depth \in Nat

VARIABLES
    sg,         \* sg["vaults"], sg["events"]: the entities of the subgraph
    past,       \* its stores before the latest handlers, the oldest first
    db,         \* db["vaults"], db["events"]: the tables vaults, vault_events
    at,         \* at[p]: "idle", "fetch" or "write"
    kind,       \* kind[p]: the table the tick of p is syncing
    studio,     \* studio[p]: the tick has fallen back to the Studio URL
    skip,       \* skip[p]: entities paged over so far
    page,       \* page[p]: the page being written
    unseen,     \* unseen[p]: ids of the page not looked for in the table yet
    inserts,    \* inserts[p]: ids of the page that the table did not have
    updates,    \* updates[p]: ids of the page with another owner in the table
    troubles    \* reorganisations and failures so far

pageVars == <<page, unseen, inserts, updates>>
tickVars == <<at, kind, studio, skip, pageVars>>
vars == <<sg, past, db, tickVars, troubles>>

Kinds == {"vaults", "events"}
NoOwner == "nobody"
Nothing == [i \in {} |-> NoOwner]
IdsOf(k) == IF k = "vaults" THEN VaultIds ELSE EventIds

IsTable(f, k) == /\ DOMAIN f \subseteq IdsOf(k)
                 /\ \A i \in DOMAIN f : f[i] \in Owners \cup {NoOwner}

IsStore(s) == DOMAIN s = Kinds /\ \A k \in Kinds : IsTable(s[k], k)

TypeOK ==
    /\ IsStore(sg) /\ IsStore(db)
    /\ Len(past) \in 0..Depth /\ \A n \in 1..Len(past) : IsStore(past[n])
    /\ at \in [Processes -> {"idle", "fetch", "write"}]
    /\ kind \in [Processes -> Kinds]
    /\ studio \in [Processes -> BOOLEAN]
    /\ skip \in [Processes -> Nat]
    /\ \A p \in Processes : IsTable(page[p], kind[p])
    /\ \A p \in Processes : at[p] = "write" <=> page[p] # Nothing
    /\ \A p \in Processes :
          unseen[p] \cup inserts[p] \cup updates[p] \subseteq DOMAIN page[p]
    /\ troubles \in 0..MaxTroubles

Init ==
    /\ sg = [k \in Kinds |-> Nothing]
    /\ past = <<>>
    /\ db = [k \in Kinds |-> Nothing]
    /\ at = [p \in Processes |-> "idle"]
    /\ kind = [p \in Processes |-> "vaults"]
    /\ studio = [p \in Processes |-> FALSE]
    /\ skip = [p \in Processes |-> 0]
    /\ page = [p \in Processes |-> Nothing]
    /\ unseen = [p \in Processes |-> {}]
    /\ inserts = [p \in Processes |-> {}]
    /\ updates = [p \in Processes |-> {}]
    /\ troubles = 0

Trouble == troubles < MaxTroubles /\ troubles' = troubles + 1

Put(f, x, y) == [z \in DOMAIN f \cup {x} |-> IF z = x THEN y ELSE f[z]]

(***************************************************************************)
(* The subgraph: each handler changes its store once, and the node keeps   *)
(* what it needs to go back; nothing, once MaxTroubles are over.           *)
(***************************************************************************)
Recent(stores) == IF Len(stores) > Depth THEN Tail(stores) ELSE stores

Keep(stores) == past' = IF troubles' < MaxTroubles THEN Recent(stores) ELSE <<>>

Save(store) ==
    /\ sg' = store
    /\ UNCHANGED <<db, tickVars, troubles>>
    /\ Keep(Append(past, sg))

(* handleVaultCreated: a vault that is there is left alone.                *)
VaultCreated(v, user) ==
    /\ v \notin DOMAIN sg["vaults"]
    /\ Save([sg EXCEPT !["vaults"] = Put(@, v, user)])

NewEvent(v, e) == v \in DOMAIN sg["vaults"] /\ e \notin DOMAIN sg["events"]

(* handleVaultInitialized: the owner is set, and an event is saved.  The   *)
(* events of a vault are handled once VaultCreated was, so                 *)
(* getOrCreateVault finds the vault.                                       *)
VaultInitialized(v, owner, e) ==
    /\ NewEvent(v, e)
    /\ Save([sg EXCEPT !["vaults"] = Put(@, v, owner), !["events"] = Put(@, e, NoOwner)])

(* The other handlers save an event.                                       *)
VaultEvent(v, e) ==
    /\ NewEvent(v, e)
    /\ Save([sg EXCEPT !["events"] = Put(@, e, NoOwner)])

(* A reorganisation undoes the latest handlers, the vaults they created    *)
(* and the owners they set as well as the events they saved.               *)
Revert(n) ==
    /\ n \in 1..Len(past)
    /\ Trouble
    /\ sg' = past[n]
    /\ Keep(SubSeq(past, 1, n - 1))
    /\ UNCHANGED <<db, tickVars>>

(***************************************************************************)
(* One tick, or one run of the command, in process p.                      *)
(***************************************************************************)

(* Process p has table f as its page, nothing of it written yet.            *)
Hold(p, f) ==
    /\ page' = [page EXCEPT ![p] = f]
    /\ unseen' = [unseen EXCEPT ![p] = DOMAIN f]
    /\ inserts' = [inserts EXCEPT ![p] = {}]
    /\ updates' = [updates EXCEPT ![p] = {}]

(* Mutated forms, each named for the mistake it makes, precede the         *)
(* definitions they replace: they show which property notices.             *)
BeginWithOldSkip(p, k) ==
    /\ at' = [at EXCEPT ![p] = "fetch"]
    /\ kind' = [kind EXCEPT ![p] = k]
    /\ Hold(p, Nothing)
    /\ UNCHANGED skip

(* sync_vaults or sync_vault_events begins.                                *)
Begin(p, k) ==
    /\ at' = [at EXCEPT ![p] = "fetch"]
    /\ kind' = [kind EXCEPT ![p] = k]
    /\ skip' = [skip EXCEPT ![p] = 0]
    /\ Hold(p, Nothing)

(* The tick returns or raises.                                             *)
Leave(p) ==
    /\ at' = [at EXCEPT ![p] = "idle"]
    /\ kind' = [kind EXCEPT ![p] = "vaults"]
    /\ studio' = [studio EXCEPT ![p] = FALSE]
    /\ skip' = [skip EXCEPT ![p] = 0]
    /\ Hold(p, Nothing)

StartSync(p) ==
    /\ at[p] = "idle"
    /\ Begin(p, "vaults")
    /\ UNCHANGED <<sg, past, db, studio, troubles>>

StartTick(p) == p \in Workers /\ StartSync(p)

(* The command makes the same two passes, with the same fallback; an error *)
(* ends it.                                                                *)
Run(p) == p \in Commands /\ StartSync(p)

(* The pass over a table is over: vaults are followed by events.           *)
Finish(p) ==
    IF kind[p] = "vaults" THEN Begin(p, "events") /\ UNCHANGED studio ELSE Leave(p)

(* vaults(first: Batch, skip: n), sorted by id.                            *)
Page(f, n) ==
    Restrict(f, {i \in DOMAIN f : Cardinality({j \in DOMAIN f : j < i}) \in n..(n + Batch - 1)})

NextPage(p) == Page(sg[kind[p]], skip[p])

Fetch(p) ==
    /\ at[p] = "fetch"
    /\ NextPage(p) # Nothing
    /\ Hold(p, NextPage(p))
    /\ at' = [at EXCEPT ![p] = "write"]
    /\ UNCHANGED <<sg, past, db, kind, studio, skip, troubles>>

(* The page is empty.                                                      *)
FetchEnd(p) ==
    /\ at[p] = "fetch"
    /\ NextPage(p) = Nothing
    /\ Finish(p)
    /\ UNCHANGED <<sg, past, db, troubles>>

(* The SELECT for the next entity of the page: a row is inserted if there  *)
(* is none, and the owner of a vault is set if it is another one.          *)
Look(p, i) ==
    /\ i \in unseen[p] /\ \A j \in unseen[p] : i <= j
    /\ unseen' = [unseen EXCEPT ![p] = @ \ {i}]
    /\ LET table == db[kind[p]]
           owner == page[p][i]
       IN  IF i \notin DOMAIN table
           THEN inserts' = [inserts EXCEPT ![p] = @ \cup {i}] /\ UNCHANGED updates
           ELSE /\ updates' = IF owner \notin {NoOwner, table[i]}
                              THEN [updates EXCEPT ![p] = @ \cup {i}] ELSE updates
                /\ UNCHANGED inserts
    /\ UNCHANGED <<sg, past, db, at, kind, studio, skip, page, troubles>>

Seen(p) == at[p] = "write" /\ unseen[p] = {}
Conflict(p) == inserts[p] \cap DOMAIN db[kind[p]] # {}

Written(table, p, ids) ==
    [i \in DOMAIN table \cup ids |-> IF i \in ids THEN page[p][i] ELSE table[i]]

IsLastPageOffByOne(p) == Cardinality(DOMAIN page[p]) <= Batch

(* len(vaults) < batch                                                     *)
IsLastPage(p) == Cardinality(DOMAIN page[p]) < Batch

CommitInsertsOnly(p) ==
    /\ Seen(p) /\ ~Conflict(p)
    /\ db' = [db EXCEPT ![kind[p]] = Written(@, p, inserts[p])]

(* COMMIT of the page.                                                     *)
CommitRows(p) ==
    /\ Seen(p) /\ ~Conflict(p)
    /\ db' = [db EXCEPT ![kind[p]] = Written(@, p, inserts[p] \cup updates[p])]

Commit(p) ==
    /\ CommitRows(p)
    /\ IF IsLastPage(p)
       THEN Finish(p)
       ELSE /\ at' = [at EXCEPT ![p] = "fetch"]
            /\ skip' = [skip EXCEPT ![p] = @ + Cardinality(DOMAIN page[p])]
            /\ Hold(p, Nothing)
            /\ UNCHANGED <<kind, studio>>
    /\ UNCHANGED <<sg, past, troubles>>

(* Another tick has inserted one of the rows meanwhile: the constraint     *)
(* uq_vault_chain_address or uq_chain_tx_log is violated, the page is      *)
(* rolled back and the tick ends with an error.                            *)
CommitConflict(p) ==
    /\ Seen(p) /\ Conflict(p)
    /\ Leave(p)
    /\ UNCHANGED <<sg, past, db, troubles>>

(* The third attempt of a request fails, a statement fails or the process  *)
(* is killed: what is committed stays.                                     *)
Fail(p) ==
    /\ at[p] # "idle"
    /\ Trouble
    /\ Leave(p)
    /\ UNCHANGED <<sg, db>>
    /\ Keep(past)

(* The gateway answers 403: everything is synced again from the Studio URL.*)
Fallback(p) ==
    /\ at[p] = "fetch" /\ ~studio[p]
    /\ Trouble
    /\ Begin(p, "vaults")
    /\ studio' = [studio EXCEPT ![p] = TRUE]
    /\ UNCHANGED <<sg, db>>
    /\ Keep(past)

TickStep(p) ==
    \/ Fetch(p) \/ FetchEnd(p) \/ Commit(p) \/ CommitConflict(p)
    \/ \E i \in unseen[p] : Look(p, i)

Subgraph ==
    \/ \E v \in VaultIds, o \in Owners : VaultCreated(v, o)
    \/ \E v \in VaultIds, e \in EventIds :
          VaultEvent(v, e) \/ \E o \in Owners : VaultInitialized(v, o, e)
    \/ \E n \in 1..Depth : Revert(n)

Next ==
    \/ \E p \in Processes : StartTick(p) \/ Run(p) \/ TickStep(p) \/ Fail(p) \/ Fallback(p)
    \/ Subgraph

Spec == Init /\ [][Next]_vars

(* Beat keeps starting ticks, nobody has to run the command, and either    *)
(* goes on unless it fails.                                                *)
Fairness == \A p \in Processes : WF_vars(StartTick(p) \/ TickStep(p))

(***************************************************************************)
(* Properties.                                                             *)
(***************************************************************************)

Passed(p) == FetchEnd(p) \/ (Commit(p) /\ IsLastPage(p))

(* A vault or an event that stays in the subgraph gets into its table,     *)
(* though ticks overlap, conflict and skip what moved in front of their    *)
(* page (tasks.py:575-654).                                                *)
EveryEntityIndexed ==
    \A k \in Kinds : \A i \in IdsOf(k) :
        <>[](i \in DOMAIN sg[k]) => <>(i \in DOMAIN db[k])

(* The owner of a vault, to whom alerts go, settles at the one the         *)
(* subgraph settles at, though a slow tick may write an older one over it  *)
(* (main.py:193-202).                                                      *)
OwnerConverges ==
    \A v \in VaultIds, o \in Owners :
        LET Owned(store) == v \in DOMAIN store["vaults"] /\ store["vaults"][v] = o
        IN  <>[]Owned(sg) => <>[]Owned(db)
===================================================================================
