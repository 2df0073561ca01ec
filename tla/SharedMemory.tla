---------------------------- MODULE SharedMemory -----------------------------
(***************************************************************************)
(* One key of the memory that pipelines share, through adapters for one or *)
(* more namespaces: memory-map, memory-sqlite (one file) and               *)
(* memory-orchestr8 (one backend).  memory-sqlite has one row per key,     *)
(* whatever the namespace.  The backend of memory-orchestr8 appends a row  *)
(* at each store() and retrieves the oldest ("silently first-write-wins",  *)
(* docs/research-notes-v1-cat-V.md 83), so write first retrieves the row   *)
(* and deletes it: three awaits.                                           *)
(***************************************************************************)
EXTENDS Naturals, Sequences, SequencesExt, FiniteSets

CONSTANTS
    Writers,    \* callers of write
    Spaces,     \* namespaces, with one adapter each
    Memories,   \* the adapters to consider: "map", "sqlite", "orchestr8"
    MaxWrites,  \* bound: calls of write
    None

VARIABLES
    memory,
    space,      \* the namespace each writer's adapter has
    rows,       \* what is stored under the key: [id, space], oldest first
    write,      \* where each writer's call is, its id, and the row it found
    closed,     \* the namespaces whose adapter was closed
    shut,       \* the backend was closed, by one of its adapters
    writes,     \* calls of write so far
    newest,     \* history: the id last acknowledged in each namespace
    older,      \* history: ids acknowledged before a later write began
    overlaps,   \* history: namespaces in which two writes have overlapped
    failed      \* history: namespaces in which a write has failed

vars == <<memory, space, rows, write, closed, shut, writes, newest, older, overlaps, failed>>

Ids == 1..MaxWrites
Idle == [at |-> "idle", id |-> None, found |-> None]

TypeOK ==
    /\ memory \in Memories /\ space \in [Writers -> Spaces]
    /\ rows \in Seq([id : Ids, space : Spaces])
    /\ write \in [Writers -> [at : {"idle", "retrieve", "delete", "store"},
                              id : Ids \cup {None}, found : Ids \cup {None}]]
    /\ closed \subseteq Spaces /\ shut \in BOOLEAN
    /\ writes \in 0..MaxWrites
    /\ newest \in [Spaces -> Ids \cup {None}] /\ older \subseteq Ids
    /\ overlaps \subseteq Spaces /\ failed \subseteq Spaces

Init ==
    /\ memory \in Memories /\ space \in [Writers -> Spaces]
    /\ rows = <<>> /\ write = [w \in Writers |-> Idle]
    /\ closed = {} /\ shut = FALSE /\ writes = 0
    /\ newest = [s \in Spaces |-> None] /\ older = {}
    /\ overlaps = {} /\ failed = {}

\* What read and retrieve find in a namespace: the oldest row.
Mine(s) == {n \in DOMAIN rows : rows[n].space = s}
Visible(s) ==
    IF Mine(s) = {} THEN None
    ELSE rows[CHOOSE n \in Mine(s) : \A m \in Mine(s) : n <= m].id

Writing(s) == \E w \in Writers : space[w] = s /\ write[w] # Idle

-----------------------------------------------------------------------------
\* History: a write begins.
Begins(s) ==
    /\ writes < MaxWrites /\ writes' = writes + 1
    /\ older' = older \cup ({newest[s]} \ {None})

\* History: write(id) returned ok.
Acknowledged(s, id) == newest' = [newest EXCEPT ![s] = id]

\* The rows without that one; no two have the same id.
Without(id) ==
    IF \E n \in DOMAIN rows : rows[n].id = id
    THEN RemoveAt(rows, CHOOSE n \in DOMAIN rows : rows[n].id = id)
    ELSE rows
\* Map.set: a namespace has one row at most.
KeepOthers(s) == Without(Visible(s))

\* write of memory-map (Map.set) and memory-sqlite (INSERT OR REPLACE by key).
WriteAtOnce(w) ==
    LET s == space[w]
        id == writes + 1
    IN  /\ memory \in {"map", "sqlite"} /\ write[w] = Idle /\ s \notin closed
        /\ Begins(s) /\ Acknowledged(s, id)
        /\ rows' = Append(IF memory = "sqlite" THEN <<>> ELSE KeepOthers(s),
                          [id |-> id, space |-> s])
        /\ UNCHANGED <<memory, space, write, closed, shut, overlaps, failed>>

\* write of memory-orchestr8, up to its first await.
BeginWrite(w) ==
    LET s == space[w]
    IN  /\ memory = "orchestr8" /\ write[w] = Idle /\ s \notin closed
        /\ Begins(s)
        /\ write' = [write EXCEPT ![w] = [at |-> "retrieve", id |-> writes + 1, found |-> None]]
        /\ overlaps' = IF Writing(s) THEN overlaps \cup {s} ELSE overlaps
        /\ UNCHANGED <<memory, space, rows, closed, shut, newest, failed>>

RetrieveForStore(w) ==                                                  \* mutant
    /\ write[w].at = "retrieve" /\ ~shut
    /\ write' = [write EXCEPT ![w].at = "store"]
    /\ UNCHANGED <<memory, space, rows, closed, shut, writes, newest, older, overlaps, failed>>
\* retrieve(): the row there is must be deleted first.
Retrieve(w) ==
    LET found == Visible(space[w])
    IN  /\ write[w].at = "retrieve" /\ ~shut
        /\ write' = [write EXCEPT ![w] = [at |-> IF found = None THEN "store" ELSE "delete",
                                          id |-> write[w].id, found |-> found]]
        /\ UNCHANGED <<memory, space, rows, closed, shut, writes, newest, older, overlaps, failed>>

\* delete(existing.id)
Delete(w) ==
    /\ write[w].at = "delete" /\ ~shut
    /\ rows' = Without(write[w].found)
    /\ write' = [write EXCEPT ![w].at = "store"]
    /\ UNCHANGED <<memory, space, closed, shut, writes, newest, older, overlaps, failed>>

\* store(entry), after which write returns ok.
Store(w) ==
    LET s == space[w]
    IN  /\ write[w].at = "store" /\ ~shut
        /\ rows' = Append(rows, [id |-> write[w].id, space |-> s])
        /\ Acknowledged(s, write[w].id)
        /\ write' = [write EXCEPT ![w] = Idle]
        /\ UNCHANGED <<memory, space, closed, shut, writes, older, overlaps, failed>>

\* A call of the backend throws, or the database is closed: write returns an
\* error, with what it has done so far done.
Fails(w) ==
    /\ write[w] # Idle
    /\ write' = [write EXCEPT ![w] = Idle]
    /\ failed' = failed \cup {space[w]}
    /\ UNCHANGED <<memory, space, rows, closed, shut, writes, newest, older, overlaps>>

\* close() of one adapter also closes the backend it was given.
Close(s) ==
    /\ memory # "map" /\ s \notin closed /\ closed' = closed \cup {s}
    /\ shut' = (shut \/ memory = "orchestr8")
    /\ UNCHANGED <<memory, space, rows, write, writes, newest, older, overlaps, failed>>

Next ==
    \/ \E w \in Writers : \/ WriteAtOnce(w) \/ BeginWrite(w) \/ Retrieve(w)
                          \/ Delete(w) \/ Store(w) \/ Fails(w)
    \/ \E s \in Spaces : Close(s)

Spec == Init /\ [][Next]_vars

-----------------------------------------------------------------------------
Quiet(s) == ~Writing(s) /\ s \notin failed

\* While the writes of a namespace follow each other and succeed, a read
\* between them finds the last one; in memory-sqlite, unless the key was
\* written in another namespace since.
LastWriteIsRead ==
    \A s \in Spaces \ overlaps :
        Quiet(s) => \/ Visible(s) = newest[s]
                    \/ /\ memory = "sqlite" /\ Visible(s) = None
                       /\ \E t \in Spaces \ {s} : newest[t] > newest[s]

\* What memory/src/types.ts 9-13 says: "concurrent writes to the same key
\* resolve to the latest write".  Once no write is under way, nothing is read
\* that was acknowledged before another write began.
LatestWriteWins == \A s \in Spaces : Quiet(s) => Visible(s) \notin older

\* What the README of memory-sqlite says of namespace: "used to scope
\* reads/writes".
NamespacesAreApart ==
    \A s \in Spaces \ overlaps : Quiet(s) => Visible(s) = newest[s]

------------------------------------------------------------------------------
(***************************************************************************)
(* The keys of a memory: what list(namespace) and read answer while        *)
(* writes are under way (packages/memory-sqlite, memory-orchestr8).        *)
(* Adapters share one database or backend, each with a namespace or, in    *)
(* memory-sqlite, without one.  The values of one key are above.           *)
(***************************************************************************)

CONSTANTS
    ListSpaces,     \* namespaces of the adapters; None for one without
    Keys,       \* numbers, for their order
    MaxPuts     \* bound: calls of write

VARIABLES
    listed,     \* "sqlite" or "orchestr8"
    table,      \* the rows: key, namespace and which write they are of
    puts,       \* calls of write so far
    writing,    \* memory-orchestr8: those between their awaits
    off,        \* adapters that are closed, and "backend" once that is
    list,       \* the last answer of list: for which namespace, and which keys
    stored,     \* history: keys and namespaces a write has acknowledged
    lost        \* history: those replaced in another namespace, or deleted by
                \* a write that failed afterwards

listVars == <<listed, table, puts, writing, off, list, stored, lost>>

ListInit ==
    /\ listed \in {"sqlite", "orchestr8"}
    /\ table = {} /\ puts = 0 /\ writing = {} /\ off = {} /\ list = None
    /\ stored = {} /\ lost = {}

\* close() of an adapter closes the database it has opened itself, or the
\* backend it was given.
Broken == listed = "orchestr8" /\ off # {}
Serves(s) == s \notin off /\ ~Broken

-----------------------------------------------------------------------------
Rows(k, s) == {r \in table : r.key = k /\ r.space = s}

\* read: memory-sqlite also finds a row without a namespace.
read(s, k) ==
    IF listed = "sqlite"
    THEN \E r \in table : r.key = k /\ r.space \in {s, None}
    ELSE Rows(k, s) # {}

\* The one sequence of keys in order.
InOrder(ks) == {q \in SetToSeqs(ks) : \A m, n \in DOMAIN q : m < n => q[m] < q[n]}
ListOfRows(s) ==                                                    \* mutant
    {[n \in DOMAIN q |-> q[n].key] : q \in SetToSeqs({r \in table : r.space = s})}
\* list: the keys of the namespace in order, each once, although the backend
\* may have it in several rows.
ListOf(s) == InOrder({r.key : r \in {q \in table : q.space = s}})

List(s) ==
    /\ Serves(s) /\ s # None
    /\ \E ks \in ListOf(s) : list' = [space |-> s, keys |-> ks]
    /\ UNCHANGED <<listed, table, puts, writing, off, stored, lost>>

\* memory-sqlite, where the key alone is the primary key.
WriteRow(k, s) ==
    /\ listed = "sqlite" /\ Serves(s) /\ puts < MaxPuts /\ puts' = puts + 1
    /\ table' = {r \in table : r.key # k} \cup {[key |-> k, space |-> s, put |-> puts']}
    /\ stored' = stored \cup {<<k, s>>}
    /\ lost' = (lost \cup {<<k, t>> : t \in ListSpaces \ {s}}) \ {<<k, s>>}
    /\ UNCHANGED <<listed, writing, off, list>>

ReplaceAnySpace(k, s) ==                                            \* mutant
    /\ listed = "orchestr8" /\ s # None /\ Serves(s) /\ puts < MaxPuts /\ puts' = puts + 1
    /\ table' = {r \in table : r.key # k}
    /\ writing' = writing \cup {[key |-> k, space |-> s, put |-> puts']}
    /\ UNCHANGED <<listed, off, list, stored, lost>>
\* memory-orchestr8: retrieve finds the oldest row, which is deleted.
Replace(k, s) ==
    /\ listed = "orchestr8" /\ s # None /\ Serves(s) /\ puts < MaxPuts /\ puts' = puts + 1
    /\ table' = table \ {r \in Rows(k, s) : \A q \in Rows(k, s) : r.put <= q.put}
    /\ writing' = writing \cup {[key |-> k, space |-> s, put |-> puts']}
    /\ UNCHANGED <<listed, off, list, stored, lost>>

\* The new row is stored, unless the backend fails or was closed.
StoreRow(w) ==
    /\ writing' = writing \ {w}
    /\ \/ /\ ~Broken /\ table' = table \cup {w}
          /\ stored' = stored \cup {<<w.key, w.space>>}
          /\ lost' = lost \ {<<w.key, w.space>>}
       \/ /\ lost' = lost \cup {<<w.key, w.space>>}
          /\ UNCHANGED <<table, stored>>
    /\ UNCHANGED <<listed, puts, off, list>>

CloseList(s) ==
    /\ s \notin off /\ off' = off \cup {s}
    /\ UNCHANGED <<listed, table, puts, writing, list, stored, lost>>

ListNext ==
    \/ \E s \in ListSpaces : List(s) \/ CloseList(s) \/ \E k \in Keys : WriteRow(k, s) \/ Replace(k, s)
    \/ \E w \in writing : StoreRow(w)

-----------------------------------------------------------------------------
(* A list has each key once, in order, and only keys that were written in    *)
(* its namespace; what it has now can be read there, and what was written    *)
(* there and neither replaced nor lost since is in it once no write is       *)
(* between its awaits (memory-orchestr8/src/adapter.ts 93-152,               *)
(* memory-sqlite/src/adapter.ts 56-108).                                     *)
KeysAreListed ==
    /\ list # None =>
        \A m, n \in DOMAIN list.keys :
            /\ m < n => list.keys[m] < list.keys[n]
            /\ <<list.keys[m], list.space>> \in stored
    /\ \A s \in ListSpaces \ {None} : \A ks \in ListOf(s) :
            /\ \A k \in ToSet(ks) : read(s, k)
            /\ \A k \in Keys : /\ <<k, s>> \in stored \ lost
                               /\ \A w \in writing : <<w.key, w.space>> # <<k, s>>
                               => k \in ToSet(ks)

(* Not so: what can be read in a namespace is listed there.  memory-sqlite   *)
(* reads rows without a namespace in every one (adapter.ts:61, 97).          *)
ReadableIsListed ==
    \A s \in ListSpaces \ {None}, k \in Keys :
        read(s, k) => \A ks \in ListOf(s) : k \in ToSet(ks)
(* Not so: an adapter serves until it is closed itself.  Those of            *)
(* memory-orchestr8 close the backend they share (adapter.ts:157).           *)
OwnCloseOnly == \A s \in ListSpaces : s \notin off => Serves(s)

------------------------------------------------------------------------------
(***************************************************************************)
(* The probe that memory outlives a process (research/spikes/              *)
(* memory-feedback/cross-run-persistence-and-verb-set): run-1 writes one   *)
(* value per atom into a file, run-2 reads them in a process of its own,   *)
(* by keys it knows (cell alpha, which then writes the first key again) or *)
(* by those list() names (cell beta).  A process may die at any step, and  *)
(* either run may be started again over the same file.                     *)
(***************************************************************************)

CONSTANTS MaxLaunches   \* bound: processes

VARIABLES
    cell,       \* "alpha" or "beta"
    disk,       \* the rows: [key, value], oldest first
    proc,       \* the process: its run, where it is, the atoms left, what it
                \* has read and its exit code so far
    launches,   \* processes so far
    known,      \* history: keys acknowledged before this process began
    acked,      \* history: keys whose write was acknowledged
    ended       \* the process that exited last, or None

crossVars == <<cell, disk, proc, launches, known, acked, ended>>

AtomIds == CHOOSE ks \in InOrder(Keys) : TRUE
NoProc == [run |-> None, at |-> "off", todo |-> <<>>, got |-> <<>>, exit |-> 0]

CrossInit ==
    /\ cell \in {"alpha", "beta"} /\ disk = <<>> /\ proc = NoProc /\ launches = 0
    /\ known = {} /\ acked = {} /\ ended = None

OnDisk == {disk[n].key : n \in DOMAIN disk}
\* read(): LIMIT 1 over the rows of the key, in no order that is asked for.
Found(k) == IF k \in OnDisk THEN {disk[n].value : n \in {m \in DOMAIN disk : disk[m].key = k}}
            ELSE {None}
KeysOfRows == {[n \in DOMAIN disk |-> disk[n].key]}                  \* mutant
\* list(): store() has appended a row at each write, so it removes repeats.
UniqueKeys == InOrder(OnDisk)

Moves(next) == proc' = next /\ UNCHANGED <<cell, launches, known, ended>>

Launch(run) ==
    /\ proc.at = "off" /\ launches < MaxLaunches /\ launches' = launches + 1
    /\ proc' = [NoProc EXCEPT !.run = run,
                              !.at = IF run = "run-2" /\ cell = "beta" THEN "list" ELSE "atom",
                              !.todo = IF run = "run-2" /\ cell = "beta" THEN <<>> ELSE AtomIds]
    /\ known' = acked /\ UNCHANGED <<cell, disk, acked, ended>>

\* processWrite: the row, then the secrets resolver that stands beside it.
WriteAtom ==
    /\ proc.run = "run-1" /\ proc.at = "atom"
    /\ disk' = Append(disk, [key |-> Head(proc.todo), value |-> "run-1"])
    /\ acked' = acked \cup {Head(proc.todo)}
    /\ Moves([proc EXCEPT !.at = "secret", !.todo = Tail(@)])

\* processEnumerateAndRead: an empty list leaves nothing to read.
ListKeys ==
    /\ proc.at = "list" /\ UNCHANGED <<disk, acked>>
    /\ \E ks \in UniqueKeys :
          Moves([proc EXCEPT !.at = IF ks = <<>> THEN "secret" ELSE "atom", !.todo = ks])

\* processRead asks for the secret after each key, the other after the last.
ReadAtom ==
    /\ proc.run = "run-2" /\ proc.at = "atom" /\ UNCHANGED <<disk, acked>>
    /\ \E v \in Found(Head(proc.todo)) :
          Moves([proc EXCEPT !.at = IF cell = "alpha" \/ Len(proc.todo) = 1 THEN "secret" ELSE "atom",
                             !.todo = Tail(@),
                             !.got = Append(@, [key |-> Head(proc.todo), value |-> v])])

ResolveSecret ==
    /\ proc.at = "secret" /\ UNCHANGED <<disk, acked>>
    /\ Moves([proc EXCEPT !.at = IF proc.todo # <<>> THEN "atom"
                                 ELSE IF proc.run = "run-2" /\ cell = "alpha" THEN "rewrite"
                                 ELSE "close"])

\* Once all is read, alpha writes the first key again, and looks whether it
\* reads that; neither a failure nor what it sees has consequences.
Rewrite ==
    /\ proc.at = "rewrite" /\ UNCHANGED acked
    /\ \/ disk' = Append(disk, [key |-> Head(AtomIds), value |-> "run-2"])
       \/ UNCHANGED disk
    /\ Moves([proc EXCEPT !.at = "close"])

\* A call of the store or of the resolver fails: the loops are left.
CallFails ==
    /\ proc.at \in {"atom", "list", "secret"} /\ UNCHANGED <<disk, acked>>
    /\ Moves([proc EXCEPT !.at = "close", !.exit = 1])

\* What run-2 checks at its end: alpha the values, beta how many there were.
Complete ==
    LET held == {n \in DOMAIN proc.got : cell = "beta" \/ proc.got[n].value = "run-1"}
    IN  proc.run = "run-1" \/ Cardinality(held) = Cardinality(Keys)
\* The finally block closes the store, whose error changes nothing.
Exit ==
    /\ proc.at = "close" /\ proc' = NoProc
    /\ ended' = [run |-> proc.run, got |-> proc.got,
                 exit |-> IF Complete THEN proc.exit ELSE 1]
    /\ UNCHANGED <<cell, disk, launches, known, acked>>
Crash ==
    /\ proc.at # "off" /\ proc' = NoProc /\ ended' = None
    /\ UNCHANGED <<cell, disk, launches, known, acked>>

CrossNext ==
    \/ \E run \in {"run-1", "run-2"} : Launch(run)
    \/ WriteAtom \/ ListKeys \/ ReadAtom \/ ResolveSecret \/ Rewrite \/ CallFails
    \/ Exit \/ Crash

-----------------------------------------------------------------------------
(* Memory crosses processes: whichever runs died or failed before, a run-1   *)
(* that exits 0 has left every key on disk, a run-2 that exits 0 has read    *)
(* each key once and found what a run-1 wrote there, and every run-2 comes   *)
(* upon all the keys acknowledged before it began.                           *)
RunsShareMemory ==
    LET readBy(p) == {p.got[n].key : n \in DOMAIN p.got}
    IN  /\ ended # None /\ ended.exit = 0 =>
            IF ended.run = "run-1" THEN Keys \subseteq OnDisk
            ELSE /\ readBy(ended) = Keys /\ Len(ended.got) = Cardinality(Keys)
                 /\ \A n \in DOMAIN ended.got : ended.got[n].value = "run-1"
        /\ \A n \in DOMAIN proc.got : proc.got[n].key \in known => proc.got[n].value # None
        /\ cell = "beta" /\ proc.run = "run-2" /\ proc.at \in {"atom", "secret"} =>
              known \subseteq readBy(proc) \cup ToSet(proc.todo)

(* Not so: a key that was written again reads as the new value (probe        *)
(* alpha.2, cell-alpha-minimum-verbs.ts:281-300).                            *)
RewriteIsRead ==
    \A n \in DOMAIN disk : disk[n].value = "run-2" => Found(disk[n].key) = {"run-2"}
==============================================================================
