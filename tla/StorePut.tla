------------------------------ MODULE StorePut ------------------------------
(***************************************************************************)
(* The store stages of pipeline runs over one database.  A run takes each  *)
(* of its atoms through its store stages, one put after the other          *)
(* (core/src/pipeline.ts 160-179); every attempt wraps the data in an atom *)
(* with a fresh id and is handed the idempotency key of the whole run,     *)
(* which the caller chose or the Composer generated (core/src/composer/    *)
(* composer.ts 99-105, 406-413).  put looks the key up in the idempotency  *)
(* cache, inserts the row and writes the cache entry: three statements     *)
(* with an await each in store-postgres, one synchronous piece of code in  *)
(* store-sqlite; store-pgvector only inserts.                              *)
(***************************************************************************)
EXTENDS Naturals, FiniteSets

CONSTANTS
    Kinds,        \* the stores to consider: "postgres", "sqlite", "pgvector"
    Runs,         \* runs of the pipeline, of one process or of several
    Keys,         \* idempotency keys
    NAtoms,       \* atoms of each run
    NStages,      \* store stages of the pipeline, all on this database
    MaxAttempts,  \* attempts of a stage under its retry policy
    MaxPurges,    \* bound: calls of purgeExpiredIdempotencyEntries
    None

\* An attempt at a put; it stands for the atom id made for it.
Ids == Runs \X (1..NAtoms) \X (1..NStages) \X (1..MaxAttempts)

ASSUME StoreAssumption ==
    /\ Kinds \subseteq {"postgres", "sqlite", "pgvector"}
    /\ NAtoms \in Nat \ {0} /\ NStages \in Nat \ {0} /\ MaxAttempts \in Nat \ {0}
    /\ MaxPurges \in Nat
    /\ None \notin Ids

VARIABLES
    kind,     \* which store the pipeline has
    rows,     \* pipeline_atoms: the ids stored
    cache,    \* pipeline_idempotency_cache: key to atom id
    key,      \* ctx.idempotencyKey of each run
    atom, stage, attempt,  \* what each run is working on
    pc,       \* where its put is suspended
    acked,    \* the ids whose put returned ok
    broken,   \* history: the ids whose put failed although the row is there
    purges

database == <<rows, cache>>
run == <<atom, stage, attempt, pc>>
config == <<kind, key>>
vars == <<database, config, run, acked, broken, purges>>

PCs == {"put", "insert", "remember", "ok", "failed"}

TypeOK ==
    /\ rows \subseteq Ids
    /\ cache \in [Keys -> Ids \cup {None}]
    /\ kind \in Kinds /\ key \in [Runs -> Keys]
    /\ atom \in [Runs -> 1..NAtoms]
    /\ stage \in [Runs -> 1..NStages]
    /\ attempt \in [Runs -> 1..MaxAttempts]
    /\ pc \in [Runs -> PCs]
    /\ acked \subseteq Ids /\ broken \subseteq Ids
    /\ purges \in 0..MaxPurges

Init ==
    /\ rows = {} /\ cache = [k \in Keys |-> None]
    /\ kind \in Kinds
    /\ key \in [Runs -> Keys]       \* a caller may give two runs one key
    /\ atom = [r \in Runs |-> 1] /\ stage = [r \in Runs |-> 1]
    /\ attempt = [r \in Runs |-> 1]
    /\ pc = [r \in Runs |-> "put"]
    /\ acked = {} /\ broken = {} /\ purges = 0

Id(r) == <<r, atom[r], stage[r], attempt[r]>>
Hit(r) == cache[key[r]] # None

-----------------------------------------------------------------------------
\* The stage returned ok: the run goes on to its next stage or atom.
Succeeds(r) ==
    /\ acked' = acked \cup {Id(r)}
    /\ IF stage[r] < NStages
       THEN /\ stage' = [stage EXCEPT ![r] = @ + 1] /\ UNCHANGED atom
            /\ pc' = [pc EXCEPT ![r] = "put"] /\ attempt' = [attempt EXCEPT ![r] = 1]
       ELSE IF atom[r] < NAtoms
       THEN /\ atom' = [atom EXCEPT ![r] = @ + 1] /\ stage' = [stage EXCEPT ![r] = 1]
            /\ pc' = [pc EXCEPT ![r] = "put"] /\ attempt' = [attempt EXCEPT ![r] = 1]
       ELSE pc' = [pc EXCEPT ![r] = "ok"] /\ UNCHANGED <<atom, stage, attempt>>
    /\ UNCHANGED broken

\* put caught an error (classifyDbError): a transient one or a timeout is
\* retried while there are attempts and retry budget left.
Fails(r) ==
    /\ broken' = IF Id(r) \in rows' THEN broken \cup {Id(r)} ELSE broken
    /\ \/ attempt[r] < MaxAttempts
          /\ attempt' = [attempt EXCEPT ![r] = @ + 1] /\ pc' = [pc EXCEPT ![r] = "put"]
       \/ pc' = [pc EXCEPT ![r] = "failed"] /\ UNCHANGED attempt
    /\ UNCHANGED <<atom, stage, acked>>

Goes(r, to) ==
    /\ pc' = [pc EXCEPT ![r] = to]
    /\ UNCHANGED <<atom, stage, attempt, acked, broken>>

\* INSERT ... ON CONFLICT (id) DO UPDATE; a statement that failed may have
\* been committed all the same, when only its answer got lost.
InsertRow(r) == rows' = rows \cup {Id(r)}

\* INSERT ... ON CONFLICT DO NOTHING.
RememberOverwrites(r) == cache' = [cache EXCEPT ![key[r]] = Id(r)]    \* mutant
RememberKey(r) ==
    cache' = IF Hit(r) THEN cache ELSE [cache EXCEPT ![key[r]] = Id(r)]

(***************************************************************************)
(* store-postgres: checkIdempotencyCache, insert, writeIdempotencyCache.   *)
(***************************************************************************)
CheckRemembers(r) ==                                                \* mutant
    /\ kind = "postgres" /\ pc[r] = "put"
    /\ \/ Hit(r) /\ Succeeds(r) /\ UNCHANGED cache
       \/ ~Hit(r) /\ Goes(r, "insert") /\ RememberKey(r)
    /\ UNCHANGED <<rows, config, purges>>
Check(r) ==
    /\ kind = "postgres" /\ pc[r] = "put"
    /\ UNCHANGED database
    /\ \/ Hit(r) /\ Succeeds(r)
       \/ ~Hit(r) /\ Goes(r, "insert")
       \/ Fails(r)
    /\ UNCHANGED <<config, purges>>

Insert(r) ==
    /\ kind = "postgres" /\ pc[r] = "insert"
    /\ UNCHANGED cache
    /\ \/ InsertRow(r) /\ (Goes(r, "remember") \/ Fails(r))
       \/ UNCHANGED rows /\ Fails(r)
    /\ UNCHANGED <<config, purges>>

Remember(r) ==
    /\ pc[r] = "remember"
    /\ UNCHANGED rows
    /\ \/ RememberKey(r) /\ (Succeeds(r) \/ Fails(r))
       \/ UNCHANGED cache /\ Fails(r)
    /\ UNCHANGED <<config, purges>>

PutSyncForgets(r) ==                                                \* mutant
    /\ kind = "sqlite" /\ pc[r] = "put"
    /\ \/ Hit(r) /\ Succeeds(r) /\ UNCHANGED database
       \/ ~Hit(r) /\ InsertRow(r) /\ UNCHANGED cache /\ (Succeeds(r) \/ Fails(r))
    /\ UNCHANGED <<config, purges>>
\* store-sqlite: the three statements run without an await between them,
\* each on its own, outside a transaction.
PutSync(r) ==
    /\ kind = "sqlite" /\ pc[r] = "put"
    /\ \/ Hit(r) /\ Succeeds(r) /\ UNCHANGED database
       \/ ~Hit(r) /\ InsertRow(r) /\ RememberKey(r) /\ Succeeds(r)
       \/ ~Hit(r) /\ InsertRow(r) /\ UNCHANGED cache /\ Fails(r)
       \/ UNCHANGED database /\ Fails(r)
    /\ UNCHANGED <<config, purges>>

UpsertIgnoresFailure(r) ==                                          \* mutant
    /\ kind = "pgvector" /\ pc[r] = "put"
    /\ UNCHANGED cache
    /\ (InsertRow(r) \/ UNCHANGED rows) /\ (Succeeds(r) \/ Fails(r))
    /\ UNCHANGED <<config, purges>>
\* store-pgvector: the insert alone.
Upsert(r) ==
    /\ kind = "pgvector" /\ pc[r] = "put"
    /\ UNCHANGED cache
    /\ \/ InsertRow(r) /\ (Succeeds(r) \/ Fails(r))
       \/ UNCHANGED rows /\ Fails(r)
    /\ UNCHANGED <<config, purges>>

\* The process of a run dies.
Crash(r) ==
    /\ pc[r] \notin {"ok", "failed"}
    /\ pc' = [pc EXCEPT ![r] = "failed"]
    /\ broken' = IF Id(r) \in rows THEN broken \cup {Id(r)} ELSE broken
    /\ UNCHANGED <<database, config, atom, stage, attempt, acked, purges>>

\* purgeExpiredIdempotencyEntries: entries older than the ttl go.
Purge ==
    /\ purges < MaxPurges /\ purges' = purges + 1
    /\ \E K \in SUBSET Keys : cache' = [k \in Keys |-> IF k \in K THEN None ELSE cache[k]]
    /\ UNCHANGED <<rows, config, run, acked, broken>>

Next ==
    \/ \E r \in Runs : Check(r) \/ Insert(r) \/ Remember(r) \/ PutSync(r) \/ Upsert(r) \/ Crash(r)
    \/ Purge

Spec == Init /\ [][Next]_vars

-----------------------------------------------------------------------------
(***************************************************************************)
(* Properties.                                                             *)
(***************************************************************************)
KeyOf(id) == key[id[1]]
SamePut(x, y) == x[1] = y[1] /\ x[2] = y[2] /\ x[3] = y[3]

\* A remembered key always stands for a row that is there, stored under that
\* key, whatever crashed or was retried (postgres-store.ts 147-167): a hit
\* never answers for a put that did not happen.
CacheNamesRow ==
    \A k \in Keys : cache[k] # None => cache[k] \in rows /\ KeyOf(cache[k]) = k

\* A key once remembered keeps its atom until it is purged, also when
\* another run remembers it at the same time (idempotency-cache.ts 46-53).
EntriesStand ==
    [][\A k \in Keys : cache[k] # None => cache'[k] \in {cache[k], None}]_vars

\* A put that begins once another put under its key is acknowledged is
\* answered from the cache and stores nothing, until a purge: two rows come
\* under one key only from puts that were under way together
\* (postgres-store.ts 140-173).
AckedPutsAreAnswered ==
    [][(kind # "pgvector" /\ purges = 0) =>
         \A r \in Runs : (pc[r] = "put" /\ \E x \in acked : key[x[1]] = key[r])
            => pc'[r] # "insert" /\ Id(r) \notin rows' \ rows]_vars
KeysStand == EntriesStand /\ AckedPutsAreAnswered

\* The first put of a run that shares its key with no other run is stored
\* once it is acknowledged, also when the acknowledging attempt hit the
\* entry of an attempt that failed late.
FirstPutIsStored ==
    \A x \in acked :
        (x[2] = 1 /\ x[3] = 1 /\ \A q \in Runs \ {x[1]} : key[q] # key[x[1]])
            => \E y \in rows : SamePut(x, y)

\* No two completed puts under one key, however runs interleave: the cache
\* check and the write behave as one (postgres-store README.md:3 and
\* docs/spec-adapters.md:75: put opens a transaction for the check).
OneRowPerKey ==
    \A x, y \in rows : KeyOf(x) = KeyOf(y) /\ x # y => x \in broken \/ y \in broken

\* The SQLite store's put has no await, which is what makes it so
\* (sqlite-store.ts 119-200), until a purge forgets the key.
SyncOneRowPerKey == kind = "sqlite" /\ purges = 0 => OneRowPerKey

\* A remembered key names a row, and without a purge the only completed one
\* in SQLite.
KeysNameRows == CacheNamesRow /\ SyncOneRowPerKey

\* docs/spec-build-plan.md:49-54: put and then get gives back the atom.  Of
\* an acknowledged put, some attempt's row can be read.
AckedIsReadable == \A x \in acked : \E y \in rows : SamePut(x, y)

\* The pgvector store has no idempotency cache that could answer for an atom
\* that is not there (pgvector-store.ts 154-194).
UpsertIsReadable == kind = "pgvector" => AckedIsReadable

\* What is acknowledged can be read: without a cache always, with one the
\* first atom of a run that has a key of its own.
PutsAreStored == FirstPutIsStored /\ UpsertIsReadable
=============================================================================
