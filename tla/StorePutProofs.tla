--------------------------- MODULE StorePutProofs ---------------------------
(***************************************************************************)
(* Theorems about StorePut, for any runs, keys, atoms and stages, and      *)
(* about StoreReads, for any atoms, instants, distances and pages.         *)
(***************************************************************************)
EXTENDS MCStore, FiniteSetTheorems, SequenceTheorems, WellFoundedInduction, TLAPS

\* An attempt id has its four fields in their ranges.
LEMMA IdFields ==
    ASSUME NEW x \in Ids
    PROVE  /\ x[1] \in Runs /\ x[2] \in 1..NAtoms /\ x[3] \in 1..NStages
           /\ x[4] \in 1..MaxAttempts
  BY DEF Ids

\* The id of the attempt a run is at.
LEMMA IdType ==
    ASSUME TypeOK, NEW r \in Runs
    PROVE  /\ Id(r) \in Ids /\ Id(r)[1] = r
           /\ Id(r)[2] = atom[r] /\ Id(r)[3] = stage[r]
  BY DEF TypeOK, Id, Ids

-----------------------------------------------------------------------------
(***************************************************************************)
(* Types.                                                                  *)
(***************************************************************************)
\* The first state is well typed.
LEMMA TypeInit == Init => TypeOK
  BY StoreAssumption DEF Init, TypeOK, StoreAssumption, PCs

\* Both ways a put may end, and the move to its next statement, keep the
\* types of what they write.
LEMMA RunType ==
    ASSUME TypeOK, NEW r \in Runs, rows' \subseteq Ids,
           \/ Succeeds(r) \/ Fails(r)
           \/ \E to \in {"insert", "remember"} : Goes(r, to)
    PROVE  /\ atom' \in [Runs -> 1..NAtoms]
           /\ stage' \in [Runs -> 1..NStages]
           /\ attempt' \in [Runs -> 1..MaxAttempts]
           /\ pc' \in [Runs -> PCs]
           /\ acked' \subseteq Ids /\ broken' \subseteq Ids
  <1>0. Id(r) \in Ids
    BY IdType
  <1>1. CASE Succeeds(r)
    BY <1>0, <1>1, StoreAssumption DEF Succeeds, TypeOK, PCs, StoreAssumption
  <1>2. CASE Fails(r)
    BY <1>0, <1>2, StoreAssumption DEF Fails, TypeOK, PCs, StoreAssumption
  <1>3. CASE \E to \in {"insert", "remember"} : Goes(r, to)
    BY <1>3 DEF Goes, TypeOK, PCs
  <1> QED
    BY <1>1, <1>2, <1>3

\* Every step keeps the types.
LEMMA TypeStep == TypeOK /\ [Next]_vars => TypeOK'
  <1> SUFFICES ASSUME TypeOK, [Next]_vars PROVE TypeOK'
    OBVIOUS
  <1>1. ASSUME NEW r \in Runs, Check(r) PROVE TypeOK'
    BY <1>1, RunType DEF Check, TypeOK, database, config
  <1>2. ASSUME NEW r \in Runs, Insert(r) PROVE TypeOK'
    <2>1. rows' \subseteq Ids
      BY <1>2, IdType DEF Insert, InsertRow, TypeOK
    <2> QED
      BY <1>2, <2>1, RunType DEF Insert, TypeOK, config
  <1>3. ASSUME NEW r \in Runs, Remember(r) PROVE TypeOK'
    <2>1. cache' \in [Keys -> Ids \cup {None}]
      BY <1>3, IdType DEF Remember, RememberKey, TypeOK
    <2> QED
      BY <1>3, <2>1, RunType DEF Remember, TypeOK, config
  <1>4. ASSUME NEW r \in Runs, PutSync(r) PROVE TypeOK'
    <2>1. rows' \subseteq Ids /\ cache' \in [Keys -> Ids \cup {None}]
      BY <1>4, IdType DEF PutSync, InsertRow, RememberKey, database, TypeOK
    <2> QED
      BY <1>4, <2>1, RunType DEF PutSync, TypeOK, config
  <1>5. ASSUME NEW r \in Runs, Upsert(r) PROVE TypeOK'
    <2>1. rows' \subseteq Ids
      BY <1>5, IdType DEF Upsert, InsertRow, TypeOK
    <2> QED
      BY <1>5, <2>1, RunType DEF Upsert, TypeOK, config
  <1>6. ASSUME NEW r \in Runs, Crash(r) PROVE TypeOK'
    BY <1>6, IdType DEF Crash, TypeOK, PCs, database, config
  <1>7. CASE Purge
    BY <1>7, StoreAssumption DEF Purge, TypeOK, run, config, StoreAssumption
  <1>8. CASE UNCHANGED vars
    BY <1>8 DEF vars, config, database, run, TypeOK
  <1> QED
    BY <1>1, <1>2, <1>3, <1>4, <1>5, <1>6, <1>7, <1>8 DEF Next

\* The variables of the store keep their types, for every set of runs.
THEOREM TypeCorrect == Spec => []TypeOK
  <1> QED
    BY TypeInit, TypeStep, PTL DEF Spec
-----------------------------------------------------------------------------
(***************************************************************************)
(* A remembered key stands for a row.                                      *)
(***************************************************************************)
\* Between its insert and its cache write, the row of a put is there.
Written == \A r \in Runs : pc[r] = "remember" => Id(r) \in rows

Kept == CacheNamesRow /\ Written

\* A cache write leaves each entry alone or, for a forgotten key of the run
\* that writes it, sets it to that run's row.
LEMMA RememberEffect ==
    ASSUME TypeOK, NEW r \in Runs, RememberKey(r), NEW k \in Keys
    PROVE  \/ cache'[k] = cache[k]
           \/ cache[k] = None /\ k = key[r] /\ cache'[k] = Id(r)
  BY DEF RememberKey, Hit, TypeOK

\* A run that does not move stays where it was: only the acting run's
\* position can change.
LEMMA OthersStay ==
    ASSUME TypeOK, NEW r \in Runs, NEW q \in Runs \ {r},
           \/ Succeeds(r) \/ Fails(r)
           \/ \E to \in {"insert", "remember"} : Goes(r, to)
    PROVE  pc'[q] = pc[q] /\ Id(q)' = Id(q)
  <1>1. CASE Succeeds(r)
    BY <1>1 DEF Succeeds, TypeOK, Id
  <1>2. CASE Fails(r)
    BY <1>2 DEF Fails, TypeOK, Id
  <1>3. CASE \E to \in {"insert", "remember"} : Goes(r, to)
    BY <1>3 DEF Goes, TypeOK, Id
  <1> QED
    BY <1>1, <1>2, <1>3

\* A put that ends does not stand before its cache write any more.
LEMMA EndsElsewhere ==
    ASSUME TypeOK, NEW r \in Runs, Succeeds(r) \/ Fails(r)
    PROVE  pc'[r] # "remember"
  BY DEF Succeeds, Fails, TypeOK

\* Every step keeps it.
LEMMA KeptStep == TypeOK /\ Kept /\ [Next]_vars => Kept'
  <1> SUFFICES ASSUME TypeOK, CacheNamesRow, Written, [Next]_vars
               PROVE  CacheNamesRow' /\ Written'
    BY DEF Kept
  <1>1. ASSUME NEW r \in Runs, Check(r) PROVE CacheNamesRow' /\ Written'
    <2>1. CacheNamesRow'
      BY <1>1 DEF Check, database, config, CacheNamesRow, KeyOf
    <2>2. pc'[r] # "remember"
      BY <1>1, EndsElsewhere DEF Check, Goes, TypeOK
    <2>3. Written'
      BY <1>1, <2>2, OthersStay DEF Check, database, Written
    <2> QED
      BY <2>1, <2>3
  <1>2. ASSUME NEW r \in Runs, Insert(r) PROVE CacheNamesRow' /\ Written'
    <2>1. rows \subseteq rows' /\ UNCHANGED <<cache, key>>
      BY <1>2 DEF Insert, InsertRow, config
    <2>2. CacheNamesRow'
      BY <2>1 DEF CacheNamesRow, KeyOf
    <2>3. pc'[r] = "remember" => Id(r)' \in rows'
      BY <1>2, EndsElsewhere DEF Insert, InsertRow, Goes, Id
    <2>4. Written'
      BY <1>2, <2>1, <2>3, OthersStay DEF Insert, Written
    <2> QED
      BY <2>2, <2>4
  <1>3. ASSUME NEW r \in Runs, Remember(r) PROVE CacheNamesRow' /\ Written'
    <2>1. Id(r) \in rows /\ UNCHANGED <<rows, key>>
      BY <1>3 DEF Remember, Written, config
    <2>2. ASSUME NEW k \in Keys, cache'[k] # None
          PROVE  cache'[k] \in rows /\ KeyOf(cache'[k]) = k
      BY <1>3, <2>1, <2>2, RememberEffect, IdType DEF Remember, CacheNamesRow, KeyOf
    <2>3. CacheNamesRow'
      BY <2>1, <2>2 DEF CacheNamesRow, KeyOf
    <2>4. Written'
      BY <1>3, <2>1, EndsElsewhere, OthersStay DEF Remember, Written
    <2> QED
      BY <2>3, <2>4
  <1>4. ASSUME NEW r \in Runs, PutSync(r) PROVE CacheNamesRow' /\ Written'
    <2>1. rows \subseteq rows' /\ UNCHANGED key
      BY <1>4 DEF PutSync, InsertRow, database, config
    <2>2. \/ UNCHANGED cache
          \/ RememberKey(r) /\ Id(r) \in rows'
      BY <1>4 DEF PutSync, InsertRow, database
    <2>3. ASSUME NEW k \in Keys, cache'[k] # None
          PROVE  cache'[k] \in rows' /\ KeyOf(cache'[k]) = k
      BY <2>1, <2>2, <2>3, RememberEffect, IdType DEF CacheNamesRow, KeyOf
    <2>4. CacheNamesRow'
      BY <2>1, <2>3 DEF CacheNamesRow, KeyOf
    <2>5. pc'[r] # "remember"
      BY <1>4, EndsElsewhere DEF PutSync
    <2>6. Written'
      BY <1>4, <2>1, <2>5, OthersStay DEF PutSync, Written
    <2> QED
      BY <2>4, <2>6
  <1>5. ASSUME NEW r \in Runs, Upsert(r) PROVE CacheNamesRow' /\ Written'
    <2>1. rows \subseteq rows' /\ UNCHANGED <<cache, key>>
      BY <1>5 DEF Upsert, InsertRow, config
    <2>2. CacheNamesRow'
      BY <2>1 DEF CacheNamesRow, KeyOf
    <2>3. Written'
      BY <1>5, <2>1, EndsElsewhere, OthersStay DEF Upsert, Written
    <2> QED
      BY <2>2, <2>3
  <1>6. ASSUME NEW r \in Runs, Crash(r) PROVE CacheNamesRow' /\ Written'
    BY <1>6 DEF Crash, database, config, CacheNamesRow, KeyOf, Written, Id, TypeOK
  <1>7. CASE Purge
    BY <1>7 DEF Purge, run, config, CacheNamesRow, KeyOf, Written, Id
  <1>8. CASE UNCHANGED vars
    BY <1>8 DEF vars, config, database, run, CacheNamesRow, KeyOf, Written, Id
  <1> QED
    BY <1>1, <1>2, <1>3, <1>4, <1>5, <1>6, <1>7, <1>8 DEF Next

\* A remembered key stands for a row that is there, for all runs, retries,
\* crashes and purges.
THEOREM CacheNamesRowAlways == Spec => []CacheNamesRow
  <1>1. Init => Kept
    BY DEF Init, Kept, CacheNamesRow, Written
  <1>2. Kept => CacheNamesRow
    BY DEF Kept
  <1> QED
    BY <1>1, <1>2, KeptStep, TypeInit, TypeStep, PTL DEF Spec

\* No step changes what a key stands for, except a purge that forgets it.
LEMMA EntriesStep ==
    TypeOK /\ [Next]_vars =>
        [\A k \in Keys : cache[k] # None => cache'[k] \in {cache[k], None}]_vars
  <1> SUFFICES ASSUME TypeOK, [Next]_vars, NEW k \in Keys, cache[k] # None
               PROVE  cache'[k] \in {cache[k], None}
    OBVIOUS
  <1>1. ASSUME NEW r \in Runs, RememberKey(r) PROVE cache'[k] = cache[k]
    BY <1>1, RememberEffect
  <1>2. ASSUME NEW r \in Runs, Check(r) \/ Insert(r) \/ Upsert(r) \/ Crash(r)
        PROVE  UNCHANGED cache
    BY <1>2 DEF Check, Insert, Upsert, Crash, database
  <1>3. ASSUME NEW r \in Runs, Remember(r) \/ PutSync(r)
        PROVE  RememberKey(r) \/ UNCHANGED cache
    BY <1>3 DEF Remember, PutSync, database
  <1>4. CASE Purge
    BY <1>4 DEF Purge, TypeOK
  <1>5. CASE UNCHANGED vars
    BY <1>5 DEF vars, config, database
  <1> QED
    BY <1>1, <1>2, <1>3, <1>4, <1>5 DEF Next

\* A remembered key keeps its atom until it is purged.
THEOREM EntriesStandAlways == Spec => EntriesStand
  BY TypeInit, TypeStep, EntriesStep, PTL DEF Spec, EntriesStand
-----------------------------------------------------------------------------
(***************************************************************************)
(* The first put of a run with a key of its own.                           *)
(***************************************************************************)
\* A run has rows only of the puts it has begun.
Behind ==
    \A y \in rows : \/ y[2] < atom[y[1]]
                    \/ y[2] = atom[y[1]] /\ y[3] <= stage[y[1]]

\* What every action of a run does to rows, keys and acknowledgements.
LEMMA RunStep ==
    ASSUME TypeOK, NEW r \in Runs,
           Check(r) \/ Insert(r) \/ Remember(r) \/ PutSync(r) \/ Upsert(r) \/ Crash(r)
    PROVE  /\ rows' = rows \/ rows' = rows \cup {Id(r)}
           /\ key' = key
           /\ acked' = acked \/ acked' = acked \cup {Id(r)}
           /\ \A q \in Runs \ {r} : atom'[q] = atom[q] /\ stage'[q] = stage[q]
           /\ \/ atom'[r] > atom[r]
              \/ atom'[r] = atom[r] /\ stage'[r] >= stage[r]
  <1> DEFINE Moved == /\ acked' = acked \/ acked' = acked \cup {Id(r)}
                      /\ \A q \in Runs \ {r} : atom'[q] = atom[q] /\ stage'[q] = stage[q]
                      /\ \/ atom'[r] > atom[r]
                         \/ atom'[r] = atom[r] /\ stage'[r] >= stage[r]
  <1>1. ASSUME Succeeds(r) PROVE Moved
    BY <1>1, StoreAssumption DEF Succeeds, TypeOK, StoreAssumption
  <1>2. ASSUME \/ Fails(r) \/ Crash(r)
               \/ \E to \in {"insert", "remember"} : Goes(r, to)
        PROVE  Moved
    BY <1>2 DEF Fails, Goes, Crash, TypeOK
  <1>3. Moved
    BY <1>1, <1>2 DEF Check, Insert, Remember, PutSync, Upsert
  <1>4. (rows' = rows \/ rows' = rows \cup {Id(r)}) /\ key' = key
    BY DEF Check, Insert, Remember, PutSync, Upsert, Crash, InsertRow, database, config
  <1> QED
    BY <1>3, <1>4

\* Every step keeps it.
LEMMA BehindStep == TypeOK /\ Behind /\ [Next]_vars => Behind'
  <1> SUFFICES ASSUME TypeOK, Behind, [Next]_vars, NEW y \in rows'
               PROVE  \/ y[2] < atom'[y[1]]
                      \/ y[2] = atom'[y[1]] /\ y[3] <= stage'[y[1]]
    BY DEF Behind
  <1>1. ASSUME NEW r \in Runs,
               Check(r) \/ Insert(r) \/ Remember(r) \/ PutSync(r) \/ Upsert(r) \/ Crash(r)
        PROVE  \/ y[2] < atom'[y[1]]
               \/ y[2] = atom'[y[1]] /\ y[3] <= stage'[y[1]]
    <2>1. TypeOK' /\ y \in Ids /\ y[1] \in Runs
      BY TypeStep, IdFields DEF TypeOK
    <2>2. /\ atom[y[1]] \in Nat /\ stage[y[1]] \in Nat
          /\ atom'[y[1]] \in Nat /\ stage'[y[1]] \in Nat
          /\ y[2] \in Nat /\ y[3] \in Nat
      BY <2>1, IdFields, StoreAssumption DEF TypeOK, StoreAssumption
    <2>3. \/ y[2] < atom[y[1]]
          \/ y[2] = atom[y[1]] /\ y[3] <= stage[y[1]]
      <3>1. CASE y \in rows
        BY <3>1 DEF Behind
      <3>2. CASE y = Id(r)
        BY <2>2, <3>2, IdType
      <3> QED
        BY <1>1, <3>1, <3>2, RunStep
    <2>4. \/ atom'[y[1]] > atom[y[1]]
          \/ atom'[y[1]] = atom[y[1]] /\ stage'[y[1]] >= stage[y[1]]
      <3>1. CASE y[1] = r
        BY <1>1, <3>1, RunStep
      <3>2. CASE y[1] # r
        BY <1>1, <2>1, <2>2, <3>2, RunStep
      <3> QED
        BY <3>1, <3>2
    <2> QED
      BY <2>2, <2>3, <2>4
  <1>2. CASE Purge
    BY <1>2 DEF Purge, run, Behind
  <1>3. CASE UNCHANGED vars
    BY <1>3 DEF vars, config, database, run, Behind
  <1> QED
    BY <1>1, <1>2, <1>3 DEF Next

\* A put is acknowledged because of its own row or of a remembered one.
LEMMA AckedBecause ==
    ASSUME TypeOK, Kept, NEW r \in Runs, acked' # acked,
           Check(r) \/ Insert(r) \/ Remember(r) \/ PutSync(r) \/ Upsert(r) \/ Crash(r)
    PROVE  Id(r) \in rows' \/ Hit(r)
  <1>1. ASSUME \/ Fails(r) \/ Crash(r)
               \/ \E to \in {"insert", "remember"} : Goes(r, to)
        PROVE  FALSE
    BY <1>1 DEF Fails, Crash, Goes
  <1>2. CASE Check(r)
    BY <1>1, <1>2 DEF Check
  <1>3. CASE Insert(r)
    BY <1>1, <1>3 DEF Insert, InsertRow
  <1>4. CASE Remember(r)
    BY <1>4 DEF Remember, Kept, Written
  <1>5. CASE PutSync(r)
    BY <1>1, <1>5 DEF PutSync, InsertRow
  <1>6. CASE Upsert(r)
    BY <1>1, <1>6 DEF Upsert, InsertRow
  <1> QED
    BY <1>1, <1>2, <1>3, <1>4, <1>5, <1>6

\* Every step keeps FirstPutIsStored.
LEMMA FirstPutStep ==
    TypeOK /\ Kept /\ Behind /\ FirstPutIsStored /\ [Next]_vars => FirstPutIsStored'
  <1> SUFFICES ASSUME TypeOK, Kept, Behind, FirstPutIsStored, [Next]_vars,
                      NEW x \in acked', x[2] = 1, x[3] = 1,
                      \A q \in Runs \ {x[1]} : key'[q] # key'[x[1]]
               PROVE  \E y \in rows' : SamePut(x, y)
    BY DEF FirstPutIsStored
  <1>1. ASSUME NEW r \in Runs,
               Check(r) \/ Insert(r) \/ Remember(r) \/ PutSync(r) \/ Upsert(r) \/ Crash(r)
        PROVE  \E y \in rows' : SamePut(x, y)
    <2>1. rows \subseteq rows' /\ key' = key
      BY <1>1, RunStep
    <2>2. CASE x \in acked
      BY <2>1, <2>2 DEF FirstPutIsStored
    <2>3. CASE x \notin acked
      <3>1. x = Id(r) /\ x[1] = r
        BY <1>1, <2>3, RunStep, IdType
      <3>2. CASE Id(r) \in rows'
        BY <3>1, <3>2 DEF SamePut
      <3>3. CASE Hit(r)
        <4> DEFINE y == cache[key[r]]
        <4>1. y \in rows /\ KeyOf(y) = key[r] /\ y \in Ids
          BY <3>3 DEF Hit, Kept, CacheNamesRow, TypeOK
        <4>2. y[1] = r
          BY <2>1, <3>1, <4>1, IdFields DEF KeyOf
        <4>3. atom[r] = 1 /\ stage[r] = 1
          BY <3>1, IdType
        <4>4. y[2] = 1 /\ y[3] = 1
          <5> HIDE DEF y
          <5>1. y[2] \in 1..NAtoms /\ y[3] \in 1..NStages
            BY <4>1, IdFields
          <5>2. y[2] < 1 \/ (y[2] = 1 /\ y[3] <= 1)
            BY <4>1, <4>2, <4>3 DEF Behind
          <5> QED
            BY <5>1, <5>2, StoreAssumption DEF StoreAssumption
        <4> QED
          BY <2>1, <3>1, <4>1, <4>2, <4>4 DEF SamePut
      <3>4. acked' # acked
        BY <2>3
      <3> QED
        BY <1>1, <3>2, <3>3, <3>4, AckedBecause
    <2> QED
      BY <2>2, <2>3
  <1>2. CASE Purge
    BY <1>2 DEF Purge, config, FirstPutIsStored
  <1>3. CASE UNCHANGED vars
    BY <1>3 DEF vars, config, database, FirstPutIsStored
  <1> QED
    BY <1>1, <1>2, <1>3 DEF Next

\* The first put of a run with a key of its own is stored once acknowledged.
THEOREM FirstPutIsStoredAlways == Spec => []FirstPutIsStored
  <1>1. Init => Kept /\ Behind /\ FirstPutIsStored
    BY DEF Init, Kept, CacheNamesRow, Written, Behind, FirstPutIsStored
  <1> QED
    BY <1>1, KeptStep, BehindStep, FirstPutStep, TypeInit, TypeStep, PTL DEF Spec
-----------------------------------------------------------------------------
(***************************************************************************)
(* store-sqlite: one row per key, while the cache is not purged.           *)
(***************************************************************************)
\* No run of a store with a synchronous put stands inside it.
Whole == kind # "postgres" => \A r \in Runs : pc[r] \notin {"insert", "remember"}

\* Every row whose put did not break off is the one its key stands for.
Remembered ==
    kind = "sqlite" /\ purges = 0 => \A x \in rows : x \in broken \/ cache[KeyOf(x)] = x

\* Every step keeps Whole.
LEMMA WholeStep == TypeOK /\ Whole /\ [Next]_vars => Whole'
  <1> SUFFICES ASSUME TypeOK, Whole, [Next]_vars PROVE Whole'
    OBVIOUS
  <1>1. ASSUME NEW r \in Runs, Check(r) \/ Insert(r) PROVE Whole'
    BY <1>1 DEF Check, Insert, Whole, config
  <1>2. ASSUME NEW r \in Runs, Remember(r) \/ PutSync(r) \/ Upsert(r) PROVE Whole'
    <2>1. kind' = kind /\ (Succeeds(r) \/ Fails(r))
      BY <1>2 DEF Remember, PutSync, Upsert, config
    <2> QED
      BY <2>1, EndsElsewhere, OthersStay DEF Whole, Succeeds, Fails, TypeOK
  <1>3. ASSUME NEW r \in Runs, Crash(r) PROVE Whole'
    BY <1>3 DEF Crash, Whole, config, TypeOK
  <1>4. CASE Purge
    BY <1>4 DEF Purge, Whole, config, run
  <1>5. CASE UNCHANGED vars
    BY <1>5 DEF vars, config, run, Whole
  <1> QED
    BY <1>1, <1>2, <1>3, <1>4, <1>5 DEF Next

\* Every step keeps Remembered.
LEMMA RememberedStep ==
    TypeOK /\ CacheNamesRow /\ Whole /\ Remembered /\ [Next]_vars => Remembered'
  <1> SUFFICES ASSUME TypeOK, CacheNamesRow, Whole, Remembered, [Next]_vars,
                      kind' = "sqlite", purges' = 0,
                      NEW x \in rows', x \notin broken'
               PROVE  cache'[KeyOf(x)'] = x
    BY DEF Remembered
  <1>1. ASSUME NEW r \in Runs, PutSync(r) PROVE cache'[KeyOf(x)'] = x
    <2>1. /\ Id(r) \in Ids /\ KeyOf(Id(r)) = key[r] /\ key[r] \in Keys
          /\ kind = "sqlite" /\ purges = 0 /\ KeyOf(x)' = KeyOf(x)
      BY <1>1, IdType DEF PutSync, KeyOf, TypeOK, config
    <2>2. broken \subseteq broken'
      BY <1>1 DEF PutSync, Succeeds, Fails
    <2>3. CASE UNCHANGED database
      BY <2>1, <2>2, <2>3 DEF database, Remembered
    <2>4. CASE ~Hit(r) /\ InsertRow(r) /\ RememberKey(r) /\ Succeeds(r)
      <3>1. cache' = [cache EXCEPT ![key[r]] = Id(r)] /\ cache[key[r]] = None
        BY <2>4 DEF Hit, RememberKey
      <3>2. CASE x = Id(r)
        BY <2>1, <3>1, <3>2 DEF TypeOK
      <3>3. CASE x \in rows
        <4>1. cache[KeyOf(x)] = x /\ x # None /\ x \in Ids
          BY <2>1, <2>2, <3>3, StoreAssumption DEF Remembered, TypeOK, StoreAssumption
        <4>2. KeyOf(x) # key[r]
          BY <3>1, <4>1
        <4> QED
          BY <2>1, <3>1, <4>1, <4>2, IdFields DEF KeyOf, TypeOK
      <3> QED
        BY <2>4, <3>2, <3>3 DEF InsertRow
    <2>5. CASE ~Hit(r) /\ InsertRow(r) /\ UNCHANGED cache /\ Fails(r)
      <3>1. Id(r) \in broken'
        BY <2>5 DEF InsertRow, Fails
      <3> QED
        BY <2>1, <2>2, <2>5, <3>1 DEF InsertRow, Remembered
    <2> QED
      BY <1>1, <2>3, <2>4, <2>5 DEF PutSync
  <1>2. ASSUME NEW r \in Runs, Crash(r) PROVE cache'[KeyOf(x)'] = x
    BY <1>2 DEF Crash, database, config, Remembered, KeyOf
  <1>3. ASSUME NEW r \in Runs PROVE ~(Check(r) \/ Insert(r) \/ Remember(r) \/ Upsert(r))
    BY <1>3 DEF Check, Insert, Remember, Upsert, Whole, config
  <1>4. ~Purge
    BY DEF Purge, TypeOK
  <1>5. CASE UNCHANGED vars
    BY <1>5 DEF vars, database, config, Remembered, KeyOf
  <1> QED
    BY <1>1, <1>2, <1>3, <1>4, <1>5 DEF Next

\* A synchronous put leaves one completed put per key, until a purge.
THEOREM SyncOneRowPerKeyAlways == Spec => []SyncOneRowPerKey
  <1>1. Init => Kept /\ Whole /\ Remembered
    BY DEF Init, Remembered, Whole, Kept, CacheNamesRow, Written
  <1>2. TypeOK /\ Remembered => SyncOneRowPerKey
    BY DEF Remembered, SyncOneRowPerKey, OneRowPerKey
  <1>3. Kept => CacheNamesRow
    BY DEF Kept
  <1> QED
    BY <1>1, <1>2, <1>3, KeptStep, WholeStep, RememberedStep, TypeInit, TypeStep, PTL
       DEF Spec

(***************************************************************************)
(* store-pgvector: what is acknowledged is there.                          *)
(***************************************************************************)
\* What a store without a cache has acknowledged is in its table.
Stored == kind = "pgvector" => acked \subseteq rows

\* Every step keeps it.
LEMMA StoredStep == TypeOK /\ Whole /\ Stored /\ [Next]_vars => Stored'
  <1> SUFFICES ASSUME TypeOK, Whole, Stored, [Next]_vars, kind' = "pgvector"
               PROVE  acked' \subseteq rows'
    BY DEF Stored
  <1>1. ASSUME NEW r \in Runs, Upsert(r) PROVE acked' \subseteq rows'
    BY <1>1 DEF Upsert, InsertRow, Succeeds, Fails, Stored
  <1>2. ASSUME NEW r \in Runs, Crash(r) PROVE acked' \subseteq rows'
    BY <1>2 DEF Crash, database, config, Stored
  <1>3. ASSUME NEW r \in Runs PROVE ~(Check(r) \/ Insert(r) \/ Remember(r) \/ PutSync(r))
    BY DEF Check, Insert, Remember, PutSync, Whole, config
  <1>4. CASE Purge
    BY <1>4 DEF Purge, config, Stored
  <1>5. CASE UNCHANGED vars
    BY <1>5 DEF vars, database, config, Stored
  <1> QED
    BY <1>1, <1>2, <1>3, <1>4, <1>5 DEF Next

\* A plain insert acknowledges only rows that are there.
THEOREM UpsertIsReadableAlways == Spec => []UpsertIsReadable
  <1>1. Init => Whole /\ Stored
    BY DEF Init, Whole, Stored
  <1>2. Stored => UpsertIsReadable
    BY DEF Stored, UpsertIsReadable, AckedIsReadable, SamePut
  <1> QED
    BY <1>1, <1>2, WholeStep, StoredStep, TypeInit, TypeStep, PTL DEF Spec
-----------------------------------------------------------------------------
(***************************************************************************)
(* The pairs that the runs check.                                          *)
(***************************************************************************)
\* Until a purge, the key of what a store with a cache acknowledged is
\* remembered.
Answered == kind # "pgvector" /\ purges = 0 => \A x \in acked : cache[KeyOf(x)] # None

\* Every step keeps it.
LEMMA AnsweredStep == TypeOK /\ Answered /\ [Next]_vars => Answered'
  <1> SUFFICES ASSUME TypeOK, Answered, [Next]_vars,
                      kind' # "pgvector", purges' = 0, NEW x \in acked'
               PROVE  cache'[KeyOf(x)'] # None
    BY DEF Answered
  <1>1. ASSUME NEW r \in Runs, Check(r) \/ Insert(r) \/ Remember(r) \/ PutSync(r)
        PROVE  cache'[KeyOf(x)'] # None
    <2>1. /\ kind # "pgvector" /\ purges = 0 /\ KeyOf(x)' = KeyOf(x)
          /\ Id(r) \in Ids /\ Id(r) # None /\ KeyOf(Id(r)) = key[r] /\ key[r] \in Keys
      BY <1>1, IdType, StoreAssumption
         DEF Check, Insert, Remember, PutSync, KeyOf, config, TypeOK, StoreAssumption
    <2>2. \A k \in Keys : cache[k] # None => cache'[k] # None
      BY <1>1 DEF Check, Insert, Remember, PutSync, RememberKey, Hit, database, TypeOK
    <2>3. \/ acked' = acked
          \/ acked' = acked \cup {Id(r)} /\ cache'[key[r]] # None
      BY <1>1, <2>1
         DEF Check, Insert, Remember, PutSync, RememberKey, Hit, Succeeds, Fails, Goes, database,
             TypeOK
    <2> QED
      BY <2>1, <2>2, <2>3, IdFields DEF Answered, TypeOK, KeyOf
  <1>2. ASSUME NEW r \in Runs, Crash(r) PROVE cache'[KeyOf(x)'] # None
    BY <1>2 DEF Crash, database, config, Answered, KeyOf
  <1>3. ASSUME NEW r \in Runs PROVE ~Upsert(r)
    BY DEF Upsert, config
  <1>4. ~Purge
    BY DEF Purge, TypeOK
  <1>5. CASE UNCHANGED vars
    BY <1>5 DEF vars, database, config, Answered, KeyOf
  <1> QED
    BY <1>1, <1>2, <1>3, <1>4, <1>5 DEF Next

\* No step lets a put under an acknowledged key store anything.
LEMMA AnsweredPuts ==
  ASSUME TypeOK, Answered, [Next]_vars, kind # "pgvector", purges = 0,
         NEW r \in Runs, pc[r] = "put", NEW x \in acked, key[x[1]] = key[r]
  PROVE  pc'[r] # "insert" /\ Id(r) \notin rows' \ rows
  <1>1. Hit(r)
    BY DEF Answered, KeyOf, Hit
  <1>2. ASSUME NEW q \in Runs, q # r, Check(q) \/ Insert(q) \/ Remember(q) \/ PutSync(q)
        PROVE  pc'[r] # "insert" /\ Id(r) \notin rows' \ rows
    <2>1. pc'[r] = pc[r]
      BY <1>2 DEF Check, Insert, Remember, PutSync, Succeeds, Fails, Goes, TypeOK
    <2>2. rows' \subseteq rows \cup {Id(q)} /\ Id(q) # Id(r)
      BY <1>2 DEF Check, Insert, Remember, PutSync, InsertRow, database, Id
    <2> QED
      BY <2>1, <2>2
  <1>3. ASSUME Check(r) \/ PutSync(r)
        PROVE  pc'[r] # "insert" /\ Id(r) \notin rows' \ rows
    BY <1>1, <1>3 DEF Check, PutSync, Succeeds, Fails, database, TypeOK
  <1>4. ~Insert(r) /\ ~Remember(r)
    BY DEF Insert, Remember
  <1>5. ASSUME NEW q \in Runs, Crash(q)
        PROVE  pc'[r] # "insert" /\ Id(r) \notin rows' \ rows
    BY <1>5 DEF Crash, database, TypeOK
  <1>6. ASSUME NEW q \in Runs PROVE ~Upsert(q)
    BY DEF Upsert
  <1>7. CASE Purge
    BY <1>7 DEF Purge, run
  <1>8. CASE UNCHANGED vars
    BY <1>8 DEF vars, run, database
  <1> QED
    BY <1>2, <1>3, <1>4, <1>5, <1>6, <1>7, <1>8 DEF Next

\* A put begun under an acknowledged key never stores a second row.
THEOREM AckedPutsAreAnsweredAlways == Spec => AckedPutsAreAnswered
  <1>1. Init => Answered
    BY DEF Init, Answered
  <1>2. TypeOK /\ Answered /\ [Next]_vars =>
          [(kind # "pgvector" /\ purges = 0) =>
             \A r \in Runs : (pc[r] = "put" /\ \E x \in acked : key[x[1]] = key[r])
                => pc'[r] # "insert" /\ Id(r) \notin rows' \ rows]_vars
    BY AnsweredPuts
  <1> QED
    BY <1>1, <1>2, AnsweredStep, TypeInit, TypeStep, PTL DEF Spec, AckedPutsAreAnswered

\* What a key stands for never changes but by a purge, and what it answers
\* for is not stored again.
THEOREM KeysStandAlways == Spec => KeysStand
  BY EntriesStandAlways, AckedPutsAreAnsweredAlways DEF KeysStand

\* A remembered key names a row, in SQLite the only completed one.
THEOREM KeysNameRowsAlways == Spec => []KeysNameRows
  <1>1. CacheNamesRow /\ SyncOneRowPerKey => KeysNameRows
    BY DEF KeysNameRows
  <1> QED
    BY <1>1, CacheNamesRowAlways, SyncOneRowPerKeyAlways, PTL

\* The first atom of a run with a key of its own, and every atom of a store
\* without a cache, is stored once acknowledged.
THEOREM PutsAreStoredAlways == Spec => []PutsAreStored
  <1>1. FirstPutIsStored /\ UpsertIsReadable => PutsAreStored
    BY DEF PutsAreStored
  <1> QED
    BY <1>1, FirstPutIsStoredAlways, UpsertIsReadableAlways, PTL

-----------------------------------------------------------------------------
(***************************************************************************)
(* StoreReads.                                                             *)
(***************************************************************************)
LEMMA HasLeast ==
    ASSUME NEW S, S \subseteq Nat, S # {} PROVE \E x \in S : \A y \in S : x <= y
  <1>1. PICK x \in S : \A y \in S : ~(<<y, x>> \in OpToRel(<, Nat))
    BY NatLessThanWellFounded, WFMin
  <1>2. \A y \in S : ~(y < x)
    BY <1>1 DEF OpToRel
  <1> QED
    BY <1>2

LEMMA LeastOfTwo ==
    ASSUME NEW a \in Nat, NEW b \in Nat
    PROVE  Reads!Min({a, b}) = IF a <= b THEN a ELSE b
  BY DEF Reads!Min

\* An arrangement of a finite set is a sequence that has each element once.
LEMMA Arranged ==
    ASSUME NEW S, IsFiniteSet(S), NEW s \in Reads!SetToSeqs(S)
    PROVE  /\ s \in Seq(S) /\ Len(s) = Cardinality(S) /\ DOMAIN s = 1..Len(s) /\ Len(s) \in Nat
           /\ \A i, j \in DOMAIN s : i # j => s[i] # s[j]
           /\ \A x \in S : \E i \in DOMAIN s : s[i] = x
           /\ Reads!ToSet(s) = S
  <1> DEFINE n == Cardinality(S)
  <1>1. n \in Nat
    BY FS_CardinalityType
  <1>2. s \in [1..n -> S] /\ \A i, j \in 1..n : i # j => s[i] # s[j]
    <2>1. Reads!Cardinality(S) = n
      BY DEF Reads!Cardinality, Cardinality
    <2> QED
      BY <2>1 DEF Reads!SetToSeqs
  <1>3. Cardinality(1..n) = n
    <2> DEFINE a == 1
               b == n
    <2>0. a \in Int /\ b \in Int /\ (IF a > b THEN 0 ELSE b - a + 1) = n
      BY <1>1
    <2> HIDE DEF a, b
    <2>1. Cardinality(a..b) = n
      BY <2>0, FS_Interval
    <2> QED
      BY <2>1 DEF a, b
  <1>4. s \in Injection(1..n, S)
    BY <1>2 DEF Injection, IsInjective
  <1>5. s \in Surjection(1..n, S)
    BY <1>3, <1>4, FS_Injection
  <1>6. \A x \in S : \E i \in 1..n : s[i] = x
    BY <1>5 DEF Surjection
  <1> HIDE DEF n
  <1>7. s \in Seq(S) /\ Len(s) = n /\ DOMAIN s = 1..n
    BY <1>1, <1>2
  <1> QED
    BY <1>1, <1>2, <1>6, <1>7 DEF Reads!ToSet, n

\* Each row has the columns of the atom put last under its id.
RowsArePut ==
    /\ store \in Kinds /\ schema \in Schemas
    /\ put \in [Atoms -> Reads!Atom \cup {None}]
    /\ table = [a \in Atoms |-> IF put[a] = None THEN None ELSE Reads!atomToRow(put[a])]

AnyColumns == Reads!Columns({"text", "date", "number", "mismatch"})

LEMMA RowTypes ==
    ASSUME schema \in Schemas, NEW x \in Reads!Atom
    PROVE  /\ x \in AnyColumns /\ Reads!atomToRow(x) \in AnyColumns
           /\ x # None /\ Reads!atomToRow(x) # None
           /\ x.data = Reads!Typed[schema]
  <1>1. schema \in {"string", "date", "coerce", "transform"} /\ None \notin AnyColumns
    BY ReadsAssumption DEF ReadsAssumption, AnyColumns
  <1>2. x \in AnyColumns /\ x.data = Reads!Typed[schema]
    BY <1>1 DEF Reads!Atom, Reads!Columns, Reads!Typed, AnyColumns
  <1>3. Reads!atomToRow(x) \in AnyColumns
    BY <1>2 DEF Reads!Columns, AnyColumns, Reads!atomToRow, Reads!Json
  <1> QED
    BY <1>1, <1>2, <1>3

\* What is stored was put.
LEMMA StoredArePut ==
    ASSUME RowsArePut, NEW a \in Atoms
    PROVE  /\ a \in Reads!Stored <=> put[a] # None
           /\ put[a] # None => put[a] \in Reads!Atom /\ table[a] = Reads!atomToRow(put[a])
  BY RowTypes DEF RowsArePut, Reads!Stored

LEMMA ReadsSteps == [MCNext]_<<part, vars, readsVars>> => Reads!Next \/ UNCHANGED readsVars
  BY DEF MCNext, readsVars

LEMMA ReadsStart == MCInit => Reads!Init
  BY DEF MCInit, ReadsIdle

LEMMA RowsInit == Reads!Init => RowsArePut
  BY DEF Reads!Init, RowsArePut

LEMMA RowsStep == RowsArePut /\ (Reads!Next \/ UNCHANGED readsVars) => RowsArePut'
  <1> SUFFICES ASSUME RowsArePut, Reads!Next \/ UNCHANGED readsVars PROVE RowsArePut'
    OBVIOUS
  <1>1. ASSUME NEW a \in Atoms, Reads!Put(a) PROVE RowsArePut'
    <2>1. UNCHANGED <<store, schema>> /\ Reads!Atom' = Reads!Atom
      BY <1>1 DEF Reads!Put, Reads!Atom, Reads!Columns, Reads!Typed
    <2>2. CASE UNCHANGED <<table, put>>
      BY <2>1, <2>2 DEF RowsArePut, Reads!atomToRow
    <2>3. ASSUME NEW atom_ \in Reads!Atom, Reads!Upsert(a, Reads!atomToRow(atom_)),
                 put' = [put EXCEPT ![a] = atom_]
          PROVE  RowsArePut'
      <3>1. put' \in [Atoms -> Reads!Atom \cup {None}]
        BY <2>3 DEF RowsArePut
      <3>2. table' = [table EXCEPT ![a] = Reads!atomToRow(atom_)]
        <4>1. Reads!atomToRow(atom_) \in AnyColumns
          BY RowTypes DEF RowsArePut
        <4>2. table[a] = None \/ table[a] \in AnyColumns
          BY RowTypes DEF RowsArePut
        <4>3. CASE table[a] = None
          BY <2>3, <4>3 DEF Reads!Upsert, RowsArePut
        <4>4. ASSUME NEW old \in AnyColumns, NEW row \in AnyColumns
              PROVE  [old EXCEPT !.ms = row.ms, !.zone = row.zone, !.data = row.data,
                                 !.vector = row.vector] = row
          BY <4>4 DEF AnyColumns, Reads!Columns
        <4>5. CASE table[a] # None
          <5> DEFINE row == Reads!atomToRow(atom_)
                     next == [table[a] EXCEPT !.ms = row.ms, !.zone = row.zone,
                                 !.data = row.data, !.vector = row.vector]
          <5>1. next = row
            BY <4>1, <4>2, <4>4, <4>5
          <5>2. table' = [table EXCEPT ![a] = next]
            BY <2>3, <4>5 DEF Reads!Upsert, RowsArePut
          <5> QED
            BY <5>1, <5>2
        <4> QED
          BY <4>3, <4>5
      <3>3. atom_ # None
        BY RowTypes DEF RowsArePut
      <3>4. \A x : Reads!atomToRow(x)' = Reads!atomToRow(x)
        BY <2>1 DEF Reads!atomToRow
      <3>5. table' = [b \in Atoms |-> IF put'[b] = None THEN None ELSE Reads!atomToRow(put'[b])]
        BY <2>3, <3>2, <3>3 DEF RowsArePut
      <3> QED
        BY <2>1, <3>1, <3>4, <3>5 DEF RowsArePut, Reads!atomToRow
    <2> QED
      BY <1>1, <2>2, <2>3 DEF Reads!Put
  <1>2. ASSUME UNCHANGED <<store, schema, table, put>> PROVE RowsArePut'
    BY <1>2 DEF RowsArePut, Reads!Atom, Reads!Columns, Reads!Typed, Reads!atomToRow
  <1>3. ASSUME NEW a \in Atoms, Reads!Get(a) PROVE RowsArePut'
    BY <1>2, <1>3 DEF Reads!Get
  <1>4. CASE Reads!List
    BY <1>2, <1>4 DEF Reads!List
  <1>5. ASSUME NEW k \in 1..Reads!Cardinality(Atoms), Reads!Search(k) PROVE RowsArePut'
    BY <1>2, <1>5 DEF Reads!Search
  <1>6. CASE UNCHANGED readsVars
    BY <1>2, <1>6 DEF readsVars
  <1> QED
    BY <1>1, <1>3, <1>4, <1>5, <1>6 DEF Reads!Next

-----------------------------------------------------------------------------
\* get gives back what the row of the atom says.
LEMMA GetStep ==
    RowsArePut /\ Reads!GetIsTrue /\ (Reads!Next \/ UNCHANGED readsVars) => Reads!GetIsTrue'
  <1> SUFFICES ASSUME RowsArePut, Reads!GetIsTrue, Reads!Next \/ UNCHANGED readsVars,
                      answer'.op = "get"
               PROVE  LET a == answer'.id IN
                      \/ answer'.atom = None /\ put'[a] = None
                      \/ /\ answer'.atom # None /\ put'[a] # None
                         /\ answer'.atom.data =
                              IF schema' \in {"date", "transform"} THEN "mismatch" ELSE put'[a].data
                         /\ answer'.atom.ms = put'[a].ms
                         /\ answer'.atom.vector =
                              IF store' = "pgvector" THEN put'[a].vector ELSE None
    BY DEF Reads!GetIsTrue
  <1>1. ASSUME NEW a \in Atoms, Reads!Put(a) PROVE FALSE
    BY <1>1 DEF Reads!Put
  <1>2. ~Reads!List
    BY DEF Reads!List
  <1>3. ASSUME NEW k \in 1..Reads!Cardinality(Atoms), Reads!Search(k) PROVE FALSE
    BY <1>3 DEF Reads!Search
  <1>4. CASE UNCHANGED readsVars
    BY <1>4 DEF readsVars, Reads!GetIsTrue
  <1>5. ASSUME NEW a \in Atoms, Reads!Get(a), table[a] = None
        PROVE  answer'.id = a /\ answer'.atom = None /\ put'[a] = None
    BY <1>5, RowTypes DEF Reads!Get, RowsArePut
  <1>6. ASSUME NEW a \in Atoms, Reads!Get(a), table[a] # None
        PROVE  /\ answer'.id = a /\ answer'.atom # None /\ put'[a] # None
               /\ answer'.atom.data =
                    IF schema' \in {"date", "transform"} THEN "mismatch" ELSE put'[a].data
               /\ answer'.atom.ms = put'[a].ms
               /\ answer'.atom.vector = IF store' = "pgvector" THEN put'[a].vector ELSE None
    <2> DEFINE x == put[a]
    <2>1. UNCHANGED <<store, schema, put>> /\ answer'.id = a
          /\ answer'.atom = Reads!rowToAtom(table[a])
      BY <1>6 DEF Reads!Get
    <2>2. x \in Reads!Atom /\ x # None /\ table[a] = Reads!atomToRow(x)
      BY <1>6, StoredArePut DEF Reads!Stored
    <2>3. schema \in {"string", "date", "coerce", "transform"}
      BY ReadsAssumption DEF ReadsAssumption, RowsArePut
    <2>4. x.data = Reads!Typed[schema] /\ table[a] \in AnyColumns
      BY <2>2, RowTypes DEF RowsArePut
    <2> HIDE DEF x
    <2>5. /\ table[a].ms = x.ms /\ table[a].data = Reads!Json(x.data)
          /\ table[a].vector = IF store = "pgvector" THEN x.vector ELSE None
      BY <2>2 DEF Reads!atomToRow
    <2>6. /\ answer'.atom.ms = x.ms /\ answer'.atom.data = Reads!Parse(Reads!Json(x.data))
          /\ answer'.atom.vector = table[a].vector
          /\ answer'.atom \in AnyColumns
      <3>1. Reads!Parse(Reads!Json(x.data)) \in {"text", "date", "number", "mismatch"}
        BY <2>3, <2>4 DEF Reads!Parse, Reads!Json, Reads!Typed
      <3> QED
        BY <2>1, <2>4, <2>5, <3>1 DEF Reads!rowToAtom, AnyColumns, Reads!Columns
    <2>7. Reads!Parse(Reads!Json(x.data)) =
             IF schema \in {"date", "transform"} THEN "mismatch" ELSE x.data
      BY <2>3, <2>4 DEF Reads!Parse, Reads!Json, Reads!Typed
    <2>8. answer'.atom # None
      BY <2>6, ReadsAssumption DEF ReadsAssumption, AnyColumns
    <2> QED
      BY <2>1, <2>2, <2>5, <2>6, <2>7, <2>8 DEF x
  <1> QED
    BY <1>1, <1>2, <1>3, <1>4, <1>5, <1>6 DEF Reads!Next

\* The word of a refused connection comes before all but pgvector's own.
LEMMA RefusedClass ==
    ASSUME NEW m, "refused" \in m, "vector" \notin m
    PROVE  Reads!classifyDbError(m) = "transient"
  <1>1. /\ DOMAIN Reads!Words = 1..5 /\ Reads!Words[1] = "vector" /\ Reads!Words[2] = "refused"
    BY DEF Reads!Words
  <1>2. 2 \in Reads!Held(m) /\ 1 \notin Reads!Held(m) /\ Reads!Held(m) \subseteq 1..5
    BY <1>1 DEF Reads!Held
  <1>3. Reads!Min(Reads!Held(m)) = 2
    BY <1>2 DEF Reads!Min
  <1> QED
    BY <1>1, <1>2, <1>3 DEF Reads!classifyDbError, Reads!Class

LEMMA RefusedStep ==
    Reads!RefusedIsTransient /\ (Reads!Next \/ UNCHANGED readsVars) => Reads!RefusedIsTransient'
  <1> SUFFICES ASSUME Reads!RefusedIsTransient, Reads!Next \/ UNCHANGED readsVars,
                      answer'.op = "put", answer'.error # "none",
                      "refused" \in answer'.message, "vector" \notin answer'.message
               PROVE  answer'.error = "transient"
    BY DEF Reads!RefusedIsTransient
  <1>1. ASSUME NEW a \in Atoms, Reads!Put(a) PROVE answer'.error = "transient"
    <2>1. CASE answer' = [op |-> "put", error |-> "none"]
      BY <2>1
    <2>2. CASE answer' = [op |-> "put", error |-> "timeout", message |-> {"timeout"}]
      <3>1. answer'.message = {"timeout"} /\ "refused" # "timeout"
        BY <2>2
      <3> QED
        BY <3>1
    <2>3. ASSUME NEW m, answer' = [op |-> "put", error |-> Reads!classifyDbError(m), message |-> m]
          PROVE  answer'.error = "transient"
      <3>1. answer'.message = m /\ answer'.error = Reads!classifyDbError(m)
        BY <2>3
      <3> QED
        BY <3>1, RefusedClass
    <2> QED
      BY <1>1, <2>1, <2>2, <2>3 DEF Reads!Put
  <1>2. ASSUME NEW a \in Atoms PROVE ~Reads!Get(a)
    BY DEF Reads!Get
  <1>3. ~Reads!List
    BY DEF Reads!List
  <1>4. ASSUME NEW k \in 1..Reads!Cardinality(Atoms), Reads!Search(k) PROVE FALSE
    BY <1>4 DEF Reads!Search
  <1>5. CASE UNCHANGED readsVars
    BY <1>5 DEF readsVars, Reads!RefusedIsTransient
  <1> QED
    BY <1>1, <1>2, <1>3, <1>4, <1>5 DEF Reads!Next

\* The first rows by distance leave out none that is nearer.
LEMMA SearchStep ==
    RowsArePut /\ Reads!SearchIsNearest /\ (Reads!Next \/ UNCHANGED readsVars)
        => Reads!SearchIsNearest'
  <1> SUFFICES ASSUME RowsArePut, Reads!SearchIsNearest, Reads!Next \/ UNCHANGED readsVars,
                      answer'.op = "search", answer'.error = "none"
               PROVE  /\ Len(answer'.found)
                            = Reads!Min({answer'.k, Reads!Cardinality(Reads!Stored')})
                      /\ \A a \in Reads!Stored' \ Reads!ToSet(answer'.found),
                            b \in Reads!ToSet(answer'.found) :
                            put'[a].vector # None =>
                                put'[b].vector # None /\ put'[b].vector <= put'[a].vector
    BY DEF Reads!SearchIsNearest
  <1>1. ASSUME NEW a \in Atoms PROVE ~Reads!Put(a) /\ ~Reads!Get(a)
    BY DEF Reads!Put, Reads!Get
  <1>2. ~Reads!List
    BY DEF Reads!List
  <1>3. CASE UNCHANGED readsVars
    BY <1>3 DEF readsVars, Reads!SearchIsNearest, Reads!Stored
  <1>4. ASSUME NEW k \in 1..Reads!Cardinality(Atoms), Reads!Search(k)
        PROVE  /\ Len(answer'.found)
                      = Reads!Min({answer'.k, Reads!Cardinality(Reads!Stored')})
               /\ \A a \in Reads!Stored' \ Reads!ToSet(answer'.found),
                     b \in Reads!ToSet(answer'.found) :
                     put'[a].vector # None =>
                         put'[b].vector # None /\ put'[b].vector <= put'[a].vector
    <2>1. /\ store = "pgvector" /\ UNCHANGED put /\ Reads!Stored' = Reads!Stored
      BY <1>4 DEF Reads!Search, Reads!Stored
    <2>2. PICK s \in Reads!ByDistance :
             LET found == SubSeq(s, 1, Reads!Min({k, Len(s)})) IN
             answer' = [op |-> "search", k |-> k, found |->
                 IF \E i \in DOMAIN found : Reads!Mismatch(found[i]) THEN <<>> ELSE found,
                 error |-> IF \E i \in DOMAIN found : Reads!Mismatch(found[i])
                           THEN "validation" ELSE "none"]
      BY <1>4 DEF Reads!Search
    <2> DEFINE m == Reads!Min({k, Len(s)})
               found == SubSeq(s, 1, m)
    <2>3. answer'.k = k /\ answer'.found = found
      BY <2>2
    <2>4. IsFiniteSet(Reads!Stored)
      BY ReadsAssumption, FS_Subset DEF ReadsAssumption, Reads!Stored
    <2>5. /\ s \in Reads!SetToSeqs(Reads!Stored)
          /\ \A i, j \in DOMAIN s : Reads!Nearer(s[i], s[j]) => i < j
      BY DEF Reads!ByDistance
    <2>6. /\ s \in Seq(Reads!Stored) /\ Len(s) = Cardinality(Reads!Stored) /\ Len(s) \in Nat
          /\ DOMAIN s = 1..Len(s) /\ \A x \in Reads!Stored : \E i \in DOMAIN s : s[i] = x
      BY <2>4, <2>5, Arranged
    <2>7. k \in Nat
      <3>1. Reads!Cardinality(Atoms) = Cardinality(Atoms)
        BY DEF Reads!Cardinality, Cardinality
      <3>2. Cardinality(Atoms) \in Nat
        BY FS_CardinalityType, ReadsAssumption DEF ReadsAssumption
      <3> QED
        BY <3>1, <3>2
    <2>8. m = (IF k <= Len(s) THEN k ELSE Len(s)) /\ m \in Nat /\ m <= Len(s)
      BY <2>6, <2>7, LeastOfTwo
    <2>9. Len(found) = m /\ DOMAIN found = 1..m /\ \A i \in 1..m : found[i] = s[i]
      <3> DEFINE e == m
      <3>1. e \in Nat /\ e <= Len(s) /\ e \in Int /\ 1 \in Int
        BY <2>8
      <3> HIDE DEF e
      <3>2. \A i \in 1..e : s[i] \in Reads!Stored
        BY <2>6, <3>1
      <3>3. /\ SubSeq(s, 1, e) \in Seq(Reads!Stored)
            /\ Len(SubSeq(s, 1, e)) = IF 1 <= e THEN e - 1 + 1 ELSE 0
            /\ \A i \in 1 .. e - 1 + 1 : SubSeq(s, 1, e)[i] = s[1 + i - 1]
        BY <3>1, <3>2, SubSeqProperties
      <3>4. Len(SubSeq(s, 1, e)) = e /\ \A i \in 1..e : SubSeq(s, 1, e)[i] = s[i]
        BY <3>1, <3>3
      <3>5. DOMAIN SubSeq(s, 1, e) = 1..e
        BY <3>3, <3>4
      <3> QED
        BY <3>4, <3>5 DEF e
    <2> HIDE DEF found, m
    <2>10. Reads!Cardinality(Reads!Stored) = Len(s)
      <3>1. Reads!Cardinality(Reads!Stored) = Cardinality(Reads!Stored)
        BY DEF Reads!Cardinality, Cardinality
      <3> QED
        BY <3>1, <2>6
    <2>11. Len(answer'.found) = Reads!Min({answer'.k, Reads!Cardinality(Reads!Stored')})
      BY <2>1, <2>3, <2>9, <2>10 DEF m
    <2>12. ASSUME NEW a \in Reads!Stored \ Reads!ToSet(found), NEW b \in Reads!ToSet(found),
                  put[a].vector # None
           PROVE  put[b].vector # None /\ put[b].vector <= put[a].vector
      <3>1. PICK i \in 1..Len(s) : s[i] = a
        BY <2>6
      <3>2. PICK j \in 1..m : s[j] = b
        BY <2>9 DEF Reads!ToSet
      <3>3. ~(i <= m)
        BY <2>9, <3>1 DEF Reads!ToSet
      <3>4. i \in DOMAIN s /\ j \in DOMAIN s /\ ~(i < j)
        BY <2>6, <2>8, <3>3
      <3>5. ~Reads!Nearer(a, b)
        BY <2>5, <3>1, <3>2, <3>4
      <3>6. a \in Reads!Stored /\ b \in Reads!Stored /\ Reads!Stored \subseteq Atoms
        BY <2>6, <3>2, <3>4 DEF Reads!Stored
      <3>7. \A x \in Reads!Stored : /\ table[x].vector = put[x].vector
                                    /\ put[x].vector \in Distances \cup {None}
        <4> TAKE x \in Reads!Stored
        <4>1. put[x] \in Reads!Atom /\ table[x] = Reads!atomToRow(put[x])
          BY <3>6, StoredArePut
        <4> QED
          BY <2>1, <4>1 DEF Reads!atomToRow, Reads!Atom, Reads!Columns
      <3>8. Distances \subseteq Nat
        BY ReadsAssumption DEF ReadsAssumption
      <3> QED
        <4> DEFINE near == put[a].vector
                   far == put[b].vector
        <4>1. near \in Nat /\ near # None /\ (far = None \/ far \in Nat) /\ None \notin Nat
          BY <2>12, <3>6, <3>7, <3>8, ReadsAssumption DEF ReadsAssumption
        <4>2. ~(far = None) /\ ~(near < far)
          BY <3>5, <3>6, <3>7, <4>1 DEF Reads!Nearer
        <4> HIDE DEF near, far
        <4>3. far <= near
          BY <4>1, <4>2
        <4> QED
          BY <4>2, <4>3 DEF near, far
    <2> QED
      BY <2>1, <2>3, <2>11, <2>12
  <1> QED
    BY <1>1, <1>2, <1>3, <1>4 DEF Reads!Next

-----------------------------------------------------------------------------
(***************************************************************************)
(* Pages.  Where rows have instants apart, there is one sequence in the    *)
(* order of created_at, and what a client was given is a first part of it. *)
(***************************************************************************)
Apart == /\ \A a, b \in Reads!Stored : a # b => put[a].ms # put[b].ms
         /\ \A a, b \in Reads!Stored : put[a].zone = put[b].zone

PagedSoFar ==
    offset = None \/ /\ offset \in Nat
                     /\ Apart => \A s \in Reads!ByCreatedAt :
                            offset <= Len(s) /\ listed = SubSeq(s, 1, offset)
PagedToTheEnd ==
    (Apart /\ answer.op = "list" /\ answer.error = "none" /\ offset = None) =>
        \E s \in Reads!ByCreatedAt : listed = s

LEMMA StoredFinite == IsFiniteSet(Reads!Stored) /\ Reads!Stored \subseteq Atoms
  BY ReadsAssumption, FS_Subset DEF ReadsAssumption, Reads!Stored

LEMMA ByCreatedAtType ==
    ASSUME NEW s \in Reads!ByCreatedAt PROVE s \in Seq(Reads!Stored) /\ Len(s) \in Nat
  <1>1. s \in Reads!SetToSeqs(Reads!Stored)
    BY DEF Reads!ByCreatedAt
  <1> QED
    BY <1>1, StoredFinite, Arranged

\* Where instants are apart, the order of the keys is that of the instants.
LEMMA KeysAsInstants ==
    ASSUME RowsArePut, Apart, NEW a \in Reads!Stored, NEW b \in Reads!Stored
    PROVE  Reads!SortKey(table[a]) < Reads!SortKey(table[b]) <=> put[a].ms < put[b].ms
  <1>1. /\ put[a] \in Reads!Atom /\ table[a] = Reads!atomToRow(put[a])
        /\ put[b] \in Reads!Atom /\ table[b] = Reads!atomToRow(put[b])
    BY StoredFinite, StoredArePut
  <1> DEFINE ma == put[a].ms
             mb == put[b].ms
             za == put[a].zone
             zb == put[b].zone
  <1>2. ma \in Nat /\ mb \in Nat /\ za \in Nat /\ zb \in Nat /\ za = zb
    BY <1>1, ReadsAssumption DEF ReadsAssumption, Reads!Atom, Reads!Columns, Apart
  <1>3. /\ table[a].ms = ma /\ table[b].ms = mb
        /\ table[a].zone = IF store = "sqlite" THEN za ELSE 0
        /\ table[b].zone = IF store = "sqlite" THEN zb ELSE 0
    BY <1>1 DEF Reads!atomToRow
  <1> HIDE DEF ma, mb, za, zb
  <1>4. CASE store = "sqlite"
    <2>1. /\ Reads!SortKey(table[a]) = 2 * (ma + za) + (IF za = 0 THEN 1 ELSE 0)
          /\ Reads!SortKey(table[b]) = 2 * (mb + zb) + (IF zb = 0 THEN 1 ELSE 0)
      BY <1>3, <1>4 DEF Reads!SortKey
    <2>2. Reads!SortKey(table[a]) < Reads!SortKey(table[b]) <=> ma < mb
      BY <1>2, <2>1
    <2> QED
      BY <2>2 DEF ma, mb
  <1>5. CASE store # "sqlite"
    BY <1>3, <1>5 DEF Reads!SortKey, ma, mb
  <1> QED
    BY <1>4, <1>5

\* A sequence by created_at has every atom once, earlier instants first.
LEMMA ByInstant ==
    ASSUME RowsArePut, Apart, NEW s \in Reads!ByCreatedAt
    PROVE  /\ s \in Seq(Reads!Stored) /\ Len(s) = Cardinality(Reads!Stored) /\ Len(s) \in Nat
           /\ DOMAIN s = 1..Len(s) /\ Reads!ToSet(s) = Reads!Stored
           /\ \A x \in Reads!Stored : \E i \in 1..Len(s) : s[i] = x
           /\ \A i, j \in 1..Len(s) : i # j => s[i] # s[j]
           /\ \A i, j \in 1..Len(s) : i < j => put[s[i]].ms < put[s[j]].ms
  <1>1. /\ s \in Reads!SetToSeqs(Reads!Stored)
        /\ \A i, j \in DOMAIN s :
              Reads!SortKey(table[s[i]]) < Reads!SortKey(table[s[j]]) => i < j
    BY DEF Reads!ByCreatedAt
  <1>2. /\ s \in Seq(Reads!Stored) /\ Len(s) = Cardinality(Reads!Stored) /\ Len(s) \in Nat
        /\ DOMAIN s = 1..Len(s) /\ Reads!ToSet(s) = Reads!Stored
        /\ \A x \in Reads!Stored : \E i \in DOMAIN s : s[i] = x
        /\ \A i, j \in DOMAIN s : i # j => s[i] # s[j]
    BY <1>1, StoredFinite, Arranged
  <1>3. ASSUME NEW i \in 1..Len(s), NEW j \in 1..Len(s), i < j
        PROVE  put[s[i]].ms < put[s[j]].ms
    <2>1. /\ s[i] \in Reads!Stored /\ s[j] \in Reads!Stored /\ s[i] # s[j]
          /\ i \in DOMAIN s /\ j \in DOMAIN s /\ ~(j < i)
      BY <1>2, <1>3
    <2>2. ~(put[s[j]].ms < put[s[i]].ms)
      BY <1>1, <2>1, KeysAsInstants
    <2>3. put[s[i]].ms # put[s[j]].ms
      BY <2>1 DEF Apart
    <2>4. put[s[i]] \in Reads!Atom /\ put[s[j]] \in Reads!Atom
      BY <2>1, StoredFinite, StoredArePut
    <2>5. put[s[i]].ms \in Nat /\ put[s[j]].ms \in Nat
      BY <2>4, ReadsAssumption DEF ReadsAssumption, Reads!Atom, Reads!Columns
    <2> QED
      BY <2>2, <2>3, <2>5
  <1> QED
    BY <1>2, <1>3

\* There is no second one.
LEMMA OneOrder ==
    ASSUME RowsArePut, Apart, NEW s \in Reads!ByCreatedAt, NEW t \in Reads!ByCreatedAt
    PROVE  s = t
  <1>1. /\ s \in Seq(Reads!Stored) /\ t \in Seq(Reads!Stored) /\ Len(s) = Len(t) /\ Len(s) \in Nat
        /\ \A x \in Reads!Stored : \E i \in 1..Len(s) : s[i] = x
        /\ \A x \in Reads!Stored : \E i \in 1..Len(s) : t[i] = x
        /\ \A i, j \in 1..Len(s) : i # j => s[i] # s[j] /\ t[i] # t[j]
        /\ \A i, j \in 1..Len(s) : i < j => /\ put[s[i]].ms < put[s[j]].ms
                                            /\ put[t[i]].ms < put[t[j]].ms
    BY ByInstant
  <1> DEFINE D == {i \in 1..Len(s) : s[i] # t[i]}
  <1>2. ASSUME D # {} PROVE FALSE
    <2>1. D \subseteq Nat
      OBVIOUS
    <2> HIDE DEF D
    <2>2. PICK i \in D : \A j \in D : i <= j
      BY <1>2, <2>1, HasLeast
    <2>3. i \in 1..Len(s) /\ s[i] # t[i] /\ \A j \in 1..Len(s) : j < i => s[j] = t[j]
      <3>1. i \in 1..Len(s) /\ s[i] # t[i]
        BY DEF D
      <3>2. ASSUME NEW j \in 1..Len(s), j < i PROVE s[j] = t[j]
        <4>1. j \notin D
          BY <1>1, <2>2, <3>1, <3>2
        <4> QED
          BY <4>1 DEF D
      <3> QED
        BY <3>1, <3>2
    <2>4. s[i] \in Reads!Stored /\ t[i] \in Reads!Stored
      BY <1>1, <2>3
    <2>5. PICK j \in 1..Len(s) : t[j] = s[i]
      BY <1>1, <2>4
    <2>6. PICK k \in 1..Len(s) : s[k] = t[i]
      BY <1>1, <2>4
    <2>7. i < j
      <3>1. j # i
        BY <2>3, <2>5
      <3>2. ~(j < i)
        BY <1>1, <2>3, <2>5
      <3> QED
        BY <2>3, <3>1, <3>2
    <2>8. i < k
      <3>1. k # i
        BY <2>3, <2>6
      <3>2. ~(k < i)
        BY <1>1, <2>3, <2>6
      <3> QED
        BY <2>3, <3>1, <3>2
    <2>9. put[t[i]].ms < put[s[i]].ms /\ put[s[i]].ms < put[t[i]].ms
      BY <1>1, <2>3, <2>5, <2>6, <2>7, <2>8
    <2>10. put[s[i]].ms \in Nat /\ put[t[i]].ms \in Nat
      <3>1. put[s[i]] \in Reads!Atom /\ put[t[i]] \in Reads!Atom
        BY <2>4, StoredFinite, StoredArePut
      <3> QED
        BY <3>1, ReadsAssumption DEF ReadsAssumption, Reads!Atom, Reads!Columns
    <2> QED
      BY <2>9, <2>10
  <1>3. \A i \in 1..Len(s) : s[i] = t[i]
    BY <1>2
  <1>4. s \in Seq(Reads!Stored) /\ t \in Seq(Reads!Stored) /\ Len(s) = Len(t)
    BY <1>1
  <1> QED
    BY <1>3, <1>4

\* A page goes on where the last one ended, and the last goes to the end.
LEMMA PageEnd ==
    ASSUME NEW S, NEW s \in Seq(S), Len(s) \in Nat,
           offset \in Nat, offset <= Len(s)
    PROVE  LET page == Reads!Page(s)
               end == IF page.next = None THEN Len(s) ELSE page.next
           IN  /\ SubSeq(s, 1, offset) \o page.items = SubSeq(s, 1, end)
               /\ page.next # None => page.next \in Nat /\ page.next <= Len(s)
  <1> DEFINE page == Reads!Page(s)
             end == IF page.next = None THEN Len(s) ELSE page.next
             last == Reads!Min({offset + PageSize + 1, Len(s)})
             asked == SubSeq(s, offset + 1, last)
             count == Reads!Min({PageSize, Len(asked)})
  <1>0. PageSize \in Nat /\ None \notin Nat
    BY ReadsAssumption DEF ReadsAssumption
  <1>1. last = (IF offset + PageSize + 1 <= Len(s) THEN offset + PageSize + 1 ELSE Len(s))
        /\ last \in Nat /\ last <= Len(s) /\ offset <= last
    BY <1>0, LeastOfTwo
  <1>2. page.items = SubSeq(asked, 1, count)
        /\ page.next = IF Len(asked) > PageSize THEN offset + PageSize ELSE None
    BY DEF Reads!Page
  <1> HIDE DEF page, last
  <1>3. /\ asked \in Seq(S) /\ Len(asked) = last - offset
        /\ \A i \in 1..(last - offset) : asked[i] = s[offset + i]
    <2>1. offset + 1 \in Int /\ last \in Int /\ \A i \in (offset + 1)..last : s[i] \in S
      BY <1>1
    <2>2. /\ asked \in Seq(S)
          /\ Len(asked) = IF offset + 1 <= last THEN last - (offset + 1) + 1 ELSE 0
          /\ \A i \in 1 .. last - (offset + 1) + 1 : asked[i] = s[offset + 1 + i - 1]
      BY <2>1, SubSeqProperties
    <2>3. last - (offset + 1) + 1 = last - offset
      BY <1>1
    <2>4. \A i \in 1..(last - offset) : offset + 1 + i - 1 = offset + i
      BY <1>1
    <2> QED
      BY <1>1, <2>2, <2>3, <2>4
  <1> HIDE DEF asked
  <1>4. count = (IF PageSize <= Len(asked) THEN PageSize ELSE Len(asked)) /\ count \in Nat
        /\ count <= Len(asked)
    <2>1. Len(asked) \in Nat
      BY <1>1, <1>3
    <2> QED
      BY <1>0, <2>1, LeastOfTwo
  <1> HIDE DEF count
  <1>5. end = offset + count /\ end \in Nat /\ end <= Len(s)
        /\ (page.next # None => page.next \in Nat /\ page.next <= Len(s))
    BY <1>0, <1>1, <1>2, <1>3, <1>4
  <1>6. /\ page.items \in Seq(S) /\ Len(page.items) = count
        /\ \A i \in 1..count : page.items[i] = s[offset + i]
    <2>1. 1 \in Int /\ count \in Int /\ \A i \in 1..count : asked[i] \in S
      BY <1>3, <1>4
    <2>2. /\ SubSeq(asked, 1, count) \in Seq(S)
          /\ Len(SubSeq(asked, 1, count)) = IF 1 <= count THEN count - 1 + 1 ELSE 0
          /\ \A i \in 1 .. count - 1 + 1 : SubSeq(asked, 1, count)[i] = asked[1 + i - 1]
      BY <2>1, SubSeqProperties
    <2>3. \A i \in 1..count : SubSeq(asked, 1, count)[i] = asked[i]
      BY <1>4, <2>2
    <2> QED
      BY <1>1, <1>2, <1>3, <1>4, <2>2, <2>3
  <1> HIDE DEF end
  <1>7. \A e \in Nat : e <= Len(s) => /\ SubSeq(s, 1, e) \in Seq(S) /\ Len(SubSeq(s, 1, e)) = e
                                      /\ \A i \in 1..e : SubSeq(s, 1, e)[i] = s[i]
    <2> SUFFICES ASSUME NEW e \in Nat, e <= Len(s)
                 PROVE  /\ SubSeq(s, 1, e) \in Seq(S) /\ Len(SubSeq(s, 1, e)) = e
                        /\ \A i \in 1..e : SubSeq(s, 1, e)[i] = s[i]
      OBVIOUS
    <2>1. 1 \in Int /\ e \in Int /\ \A i \in 1..e : s[i] \in S
      OBVIOUS
    <2>2. /\ SubSeq(s, 1, e) \in Seq(S)
          /\ Len(SubSeq(s, 1, e)) = IF 1 <= e THEN e - 1 + 1 ELSE 0
          /\ \A i \in 1 .. e - 1 + 1 : SubSeq(s, 1, e)[i] = s[1 + i - 1]
      BY <2>1, SubSeqProperties
    <2> QED
      BY <2>2
  <1> DEFINE before == SubSeq(s, 1, offset)
             after == SubSeq(s, 1, end)
             both == before \o page.items
  <1>8. /\ before \in Seq(S) /\ Len(before) = offset /\ \A i \in 1..offset : before[i] = s[i]
        /\ after \in Seq(S) /\ Len(after) = end /\ \A i \in 1..end : after[i] = s[i]
    BY <1>5, <1>7
  <1> HIDE DEF before, after
  <1>9. /\ both \in Seq(S) /\ Len(both) = offset + count
        /\ \A i \in 1..(offset + count) : both[i] = IF i <= offset THEN before[i]
                                                    ELSE page.items[i - offset]
    <2> DEFINE items == page.items
    <2>1. before \in Seq(S) /\ items \in Seq(S)
      BY <1>6, <1>8
    <2>2. Len(before) = offset /\ Len(items) = count
      BY <1>6, <1>8
    <2> HIDE DEF items
    <2>3. /\ before \o items \in Seq(S) /\ Len(before \o items) = Len(before) + Len(items)
          /\ \A i \in 1 .. Len(before) + Len(items) :
                (before \o items)[i] = IF i <= Len(before) THEN before[i]
                                       ELSE items[i - Len(before)]
      BY <2>1, ConcatProperties
    <2>4. both = before \o items
      BY DEF items
    <2> HIDE DEF both
    <2>5. \A i \in 1..(offset + count) : both[i] = IF i <= offset THEN before[i]
                                                  ELSE items[i - offset]
      BY <2>2, <2>3, <2>4
    <2> QED
      BY <2>2, <2>3, <2>4, <2>5 DEF items
  <1> HIDE DEF both
  <1>10. ASSUME NEW i \in 1..end PROVE both[i] = after[i]
    <2>1. CASE i <= offset
      BY <1>5, <1>8, <1>9, <2>1
    <2>2. CASE ~(i <= offset)
      <3>1. i - offset \in 1..count /\ offset + (i - offset) = i
        BY <1>4, <1>5, <2>2
      <3>2. page.items[i - offset] = s[i]
        BY <1>6, <3>1
      <3> QED
        BY <1>5, <1>8, <1>9, <2>2, <3>2
    <2> QED
      BY <2>1, <2>2
  <1>11. both = after
    BY <1>5, <1>8, <1>9, <1>10
  <1> QED
    BY <1>5, <1>11 DEF page, both, before, after, end

LEMMA PagesStep ==
    RowsArePut /\ PagedSoFar /\ PagedToTheEnd /\ (Reads!Next \/ UNCHANGED readsVars)
        => PagedSoFar' /\ PagedToTheEnd'
  <1> SUFFICES ASSUME RowsArePut, PagedSoFar, PagedToTheEnd, Reads!Next \/ UNCHANGED readsVars
               PROVE  PagedSoFar' /\ PagedToTheEnd'
    OBVIOUS
  <1>0. None \notin Nat
    BY ReadsAssumption DEF ReadsAssumption
  <1>1. ASSUME NEW a \in Atoms, Reads!Put(a) PROVE PagedSoFar' /\ PagedToTheEnd'
    <2>1. offset' = 0 /\ listed' = <<>>
      BY <1>1 DEF Reads!Put
    <2>2. ASSUME Apart', NEW s \in Reads!ByCreatedAt' PROVE 0 <= Len(s) /\ <<>> = SubSeq(s, 1, 0)
      <3>1. s \in Seq(Reads!Stored') /\ Len(s) \in Nat
        <4>1. IsFiniteSet(Reads!Stored')
          BY ReadsAssumption, FS_Subset DEF ReadsAssumption, Reads!Stored
        <4>2. s \in Reads!SetToSeqs(Reads!Stored')
          BY <2>2 DEF Reads!ByCreatedAt
        <4> QED
          BY <4>1, <4>2, Arranged
      <3> QED
        BY <3>1, SubSeqEmpty
    <2> QED
      BY <1>0, <2>1, <2>2 DEF PagedSoFar, PagedToTheEnd
  <1>2. ASSUME UNCHANGED <<store, table, put, offset, listed>>,
               answer' = answer \/ answer'.op # "list"
        PROVE  PagedSoFar' /\ PagedToTheEnd'
    <2>1. /\ Apart' = Apart /\ Reads!ByCreatedAt' = Reads!ByCreatedAt
      BY <1>2 DEF Apart, Reads!ByCreatedAt, Reads!Stored, Reads!SortKey
    <2> QED
      BY <1>2, <2>1 DEF PagedSoFar, PagedToTheEnd
  <1>3. ASSUME NEW a \in Atoms, Reads!Get(a) PROVE PagedSoFar' /\ PagedToTheEnd'
    <2>1. answer'.op = "get"
      BY <1>3 DEF Reads!Get
    <2> QED
      BY <1>2, <1>3, <2>1 DEF Reads!Get
  <1>4. ASSUME NEW k \in 1..Reads!Cardinality(Atoms), Reads!Search(k)
        PROVE  PagedSoFar' /\ PagedToTheEnd'
    <2>1. answer'.op = "search"
      BY <1>4 DEF Reads!Search
    <2> QED
      BY <1>2, <1>4, <2>1 DEF Reads!Search
  <1>5. CASE UNCHANGED readsVars
    BY <1>2, <1>5 DEF readsVars
  <1>6. CASE Reads!List
    <2>1. /\ UNCHANGED <<store, table, put>> /\ offset # None /\ offset \in Nat
      BY <1>6 DEF Reads!List, PagedSoFar
    <2>2. Apart' = Apart /\ Reads!ByCreatedAt' = Reads!ByCreatedAt /\ RowsArePut'
      BY <1>6, <2>1, RowsStep
      DEF Apart, Reads!ByCreatedAt, Reads!Stored, Reads!SortKey, Reads!Next
    <2>3. PICK s \in Reads!ByCreatedAt :
             LET page == Reads!Page(s) IN
             \/ answer' = [op |-> "list", error |-> "validation"] /\ offset' = None
             \/ /\ answer' = [op |-> "list", error |-> "none", more |-> page.next # None]
                /\ offset' = page.next /\ listed' = listed \o page.items
      BY <1>6 DEF Reads!List
    <2> DEFINE page == Reads!Page(s)
    <2>4. CASE answer' = [op |-> "list", error |-> "validation"] /\ offset' = None
      <3>1. answer'.error = "validation"
        BY <2>4
      <3> QED
        BY <2>4, <3>1 DEF PagedSoFar, PagedToTheEnd
    <2>5. CASE offset' = page.next /\ listed' = listed \o page.items
      <3> DEFINE end == IF page.next = None THEN Len(s) ELSE page.next
      <3>1. s \in Seq(Reads!Stored) /\ Len(s) \in Nat
        BY ByCreatedAtType
      <3>2. Apart => /\ offset <= Len(s) /\ listed = SubSeq(s, 1, offset)
        BY <2>1 DEF PagedSoFar
      <3>3. page.next = None \/ page.next \in Nat
        <4>1. offset + PageSize \in Nat
          BY <2>1, ReadsAssumption DEF ReadsAssumption
        <4> QED
          BY <4>1 DEF Reads!Page
      <3>4. ASSUME Apart PROVE /\ listed' = SubSeq(s, 1, end)
                               /\ page.next # None => page.next <= Len(s)
        BY <2>1, <2>5, <3>1, <3>2, <3>4, PageEnd
      <3> HIDE DEF page
      <3>5. ASSUME Apart, page.next # None, NEW t \in Reads!ByCreatedAt
            PROVE  page.next <= Len(t) /\ listed' = SubSeq(t, 1, page.next)
        <4>1. t = s
          BY <3>5, OneOrder
        <4> QED
          BY <3>4, <3>5, <4>1
      <3>6. ASSUME Apart, page.next = None PROVE listed' = s
        <4>1. listed' = SubSeq(s, 1, Len(s))
          BY <3>4, <3>6
        <4>2. SubSeq(s, 1, Len(s)) = s
          BY <3>1
        <4> QED
          BY <4>1, <4>2
      <3>7. PagedSoFar'
        BY <2>2, <2>5, <3>3, <3>5 DEF PagedSoFar
      <3>8. PagedToTheEnd'
        BY <2>2, <2>5, <3>6 DEF PagedToTheEnd
      <3> QED
        BY <3>7, <3>8
    <2> QED
      BY <2>3, <2>4, <2>5
  <1> QED
    BY <1>1, <1>3, <1>4, <1>5, <1>6 DEF Reads!Next

\* A client that has come to the end has all in order.
LEMMA EndIsAll == RowsArePut /\ PagedToTheEnd => Reads!ListedInOrder
  <1> SUFFICES ASSUME RowsArePut, PagedToTheEnd, Apart,
                      answer.op = "list", answer.error = "none", offset = None
               PROVE  /\ Len(listed) = Reads!Cardinality(Reads!Stored)
                      /\ Reads!ToSet(listed) = Reads!Stored
                      /\ \A i, j \in DOMAIN listed :
                            i < j => put[listed[i]].ms < put[listed[j]].ms
    BY DEF Reads!ListedInOrder, Apart
  <1>1. listed \in Reads!ByCreatedAt
    BY DEF PagedToTheEnd
  <1>2. /\ Len(listed) = Cardinality(Reads!Stored) /\ DOMAIN listed = 1..Len(listed)
        /\ Reads!ToSet(listed) = Reads!Stored
        /\ \A i, j \in 1..Len(listed) : i < j => put[listed[i]].ms < put[listed[j]].ms
    BY <1>1, ByInstant
  <1>3. Reads!Cardinality(Reads!Stored) = Cardinality(Reads!Stored)
    BY DEF Reads!Cardinality, Cardinality
  <1> QED
    BY <1>2, <1>3

\* get gives back what was put, pages leave nothing out and are in order,
\* search gives the nearest, and a refused connection is transient, for any
\* atoms, instants, zones, distances and sizes of a page.
THEOREM ReadsAreTrueAlways == MCSpec => []ReadsAreTrue
  <1> DEFINE Inv == /\ RowsArePut /\ Reads!GetIsTrue /\ Reads!RefusedIsTransient
                    /\ Reads!SearchIsNearest /\ PagedSoFar /\ PagedToTheEnd
  <1>1. MCInit => Inv
    <2> SUFFICES ASSUME MCInit PROVE Inv
      OBVIOUS
    <2>1. Reads!Init /\ RowsArePut
      BY ReadsStart, RowsInit
    <2>2. offset = 0 /\ listed = <<>> /\ answer.op = "none"
      BY <2>1 DEF Reads!Init
    <2>3. \A s \in Reads!ByCreatedAt : 0 <= Len(s) /\ <<>> = SubSeq(s, 1, 0)
      BY ByCreatedAtType, SubSeqEmpty
    <2> QED
      BY <2>1, <2>2, <2>3
      DEF Reads!GetIsTrue, Reads!RefusedIsTransient, Reads!SearchIsNearest, PagedSoFar, PagedToTheEnd
  <1>2. Inv /\ [MCNext]_<<part, vars, readsVars>> => Inv'
    BY ReadsSteps, RowsStep, GetStep, RefusedStep, SearchStep, PagesStep
  <1>3. Inv => ReadsAreTrue
    BY EndIsAll DEF ReadsAreTrue, Reads!ReadsAreTrue
  <1> QED
    BY <1>1, <1>2, <1>3, PTL DEF MCSpec
=============================================================================
