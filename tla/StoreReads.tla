----------------------------- MODULE StoreReads -----------------------------
(***************************************************************************)
(* What the stores give back (store-postgres, store-sqlite and             *)
(* store-pgvector: put without a key, get, list, search).  put turns an    *)
(* atom into a row and upserts it column by column, get and list parse the *)
(* row's data with the schema again (rowToAtom), list pages by an offset   *)
(* and search orders by distance.  A statement may fail, and a put whose   *)
(* answer is lost has stored its row.  StorePut has the idempotency cache, *)
(* PagedSource a list that is read while rows are put.                     *)
(***************************************************************************)
EXTENDS Integers, FiniteSets, FiniteSetsExt, SequencesExt

CONSTANTS
    Kinds,      \* "postgres", "sqlite", "pgvector"
    Schemas,    \* "string", "date", "coerce", "transform"
    Atoms,      \* atom ids
    Clock,      \* instants of created_at
    Zones,      \* the offsets it may be written with; 0 is Z
    Distances,  \* of an embedding to the one searched for
    MaxPuts,    \* bound: calls of put
    PageSize,
    None

VARIABLES
    kind, schema,
    rows,       \* the table: atom id to its columns, or None
    put,        \* history: the atom put last under each id, or None
    offset,     \* of a client that lists page after page; None when it ended
    listed,     \* what it got; rows are put only before it begins
    answer,     \* of the last call
    puts

vars == <<kind, schema, rows, put, offset, listed, answer, puts>>

Stored == {a \in Atoms : rows[a] # None}

-----------------------------------------------------------------------------
(***************************************************************************)
(* Errors: the first of these words that a message holds decides, and only *)
(* store-pgvector looks for its extension, before anything else.           *)
(***************************************************************************)
Words == <<"vector", "refused", "timeout", "unique", "auth">>
Class == [vector |-> "validation", refused |-> "transient", timeout |-> "timeout",
          unique |-> "validation", auth |-> "auth"]
Messages == {m \in SUBSET ToSet(Words) : Cardinality(m) <= 2}

\* The words in the message that this store looks for, by their place.
Held(m) == {i \in DOMAIN Words : Words[i] \in m /\ (Words[i] = "vector" => kind = "pgvector")}
classifyDbErrorLate(m) ==                                           \* mutant
    IF Held(m) = {} THEN "unknown" ELSE Class[Words[Max(Held(m))]]
classifyDbError(m) ==
    IF Held(m) = {} THEN "unknown" ELSE Class[Words[Min(Held(m))]]

(***************************************************************************)
(* Data.  A schema has an output type; parsing takes the JSON of a value   *)
(* back to it, or does not: z.date() refuses the text a date became, and   *)
(* z.string().transform(Number) the number it made.                        *)
(***************************************************************************)
Typed == [string |-> "text", date |-> "date", coerce |-> "date", transform |-> "number"]
Json(d) == IF d = "date" THEN "text" ELSE d
Parse(d) ==
    IF \/ schema \in {"string", "transform"} /\ d = "text"
       \/ schema = "date" /\ d = "date"
       \/ schema = "coerce" /\ d \in {"text", "date"}
    THEN Typed[schema] ELSE "mismatch"
Columns(data) == [ms : Clock, zone : Zones \cup {0}, data : data, vector : Distances \cup {None}]
Atom == {a \in Columns({Typed[schema]}) : a.zone \in Zones}

\* timestamptz keeps the instant, the text column of SQLite the text.
atomToRow(a) ==
    [ms |-> a.ms, zone |-> IF kind = "sqlite" THEN a.zone ELSE 0, data |-> Json(a.data),
     vector |-> IF kind = "pgvector" THEN a.vector ELSE None]
rowToAtom(r) == [r EXCEPT !.data = Parse(r.data)]
Mismatch(a) == rowToAtom(rows[a]).data = "mismatch"

\* INSERT ... ON CONFLICT (id) DO UPDATE SET, every column but the key.
UpsertLosesVector(a, row) ==                                        \* mutant
    rows' = [rows EXCEPT ![a] =
        IF @ = None THEN row ELSE [@ EXCEPT !.ms = row.ms, !.zone = row.zone, !.data = row.data]]
Upsert(a, row) ==
    rows' = [rows EXCEPT ![a] =
        IF @ = None THEN row
        ELSE [@ EXCEPT !.ms = row.ms, !.zone = row.zone, !.data = row.data, !.vector = row.vector]]

-----------------------------------------------------------------------------
Init ==
    /\ kind \in Kinds /\ schema \in Schemas
    /\ rows = [a \in Atoms |-> None] /\ put = [a \in Atoms |-> None]
    /\ offset = 0 /\ listed = <<>> /\ answer = [op |-> "none"] /\ puts = 0

Put(a) ==
    /\ puts < MaxPuts /\ offset = 0 /\ listed = <<>>
    /\ puts' = puts + 1
    /\ \/ /\ \E atom \in Atom : Upsert(a, atomToRow(atom)) /\ put' = [put EXCEPT ![a] = atom]
          /\ \/ answer' = [op |-> "put", error |-> "none"]
             \/ answer' = [op |-> "put", error |-> "timeout", message |-> {"timeout"}]  \* lost
       \/ /\ UNCHANGED <<rows, put>>
          /\ \E m \in Messages :
                answer' = [op |-> "put", error |-> classifyDbError(m), message |-> m]
    /\ UNCHANGED <<kind, schema, offset, listed>>

Get(a) ==
    /\ \/ rows[a] = None /\ answer' = [op |-> "get", id |-> a, atom |-> None]
       \/ rows[a] # None /\ answer' = [op |-> "get", id |-> a, atom |-> rowToAtom(rows[a])]
    /\ UNCHANGED <<kind, schema, rows, put, offset, listed, puts>>

\* ORDER BY created_at: by the instant, or by its text, where +01:00 sorts
\* before Z; rows that are alike come in any order, in every query anew.
SortKey(r) == IF kind = "sqlite" THEN 2 * (r.ms + r.zone) + (IF r.zone = 0 THEN 1 ELSE 0)
              ELSE r.ms
ByCreatedAt == {s \in SetToSeqs(Stored) :
    \A i, j \in DOMAIN s : SortKey(rows[s[i]]) < SortKey(rows[s[j]]) => i < j}

\* limit + 1 rows are read; the page is refused for one row that does not
\* parse, and a client that is refused has no cursor to go on with.
PageForgetsHalf(s) ==                                               \* mutant
    LET asked == SubSeq(s, offset + 1, Min({offset + PageSize + 1, Len(s)}))
    IN  [items |-> SubSeq(asked, 1, Min({PageSize, Len(asked)})),
         next |-> IF Len(asked) > PageSize THEN offset + Len(asked) ELSE None]
Page(s) ==
    LET asked == SubSeq(s, offset + 1, Min({offset + PageSize + 1, Len(s)}))
    IN  [items |-> SubSeq(asked, 1, Min({PageSize, Len(asked)})),
         next |-> IF Len(asked) > PageSize THEN offset + PageSize ELSE None]

List ==
    /\ offset # None
    /\ \E s \in ByCreatedAt :
        LET page == Page(s) IN
        IF \E i \in DOMAIN page.items : Mismatch(page.items[i])
        THEN /\ answer' = [op |-> "list", error |-> "validation"] /\ offset' = None
             /\ UNCHANGED listed
        ELSE /\ answer' = [op |-> "list", error |-> "none", more |-> page.next # None]
             /\ offset' = page.next /\ listed' = listed \o page.items
    /\ UNCHANGED <<kind, schema, rows, put, puts>>

\* ORDER BY embedding <=> ... LIMIT k: a row without an embedding sorts last.
Nearer(a, b) == /\ rows[a].vector # None
                /\ rows[b].vector = None \/ rows[a].vector < rows[b].vector
ByDistance == {s \in SetToSeqs(Stored) :
    \A i, j \in DOMAIN s : Nearer(s[i], s[j]) => i < j}
Search(k) ==
    /\ kind = "pgvector"
    /\ \E s \in ByDistance :
        LET found == SubSeq(s, 1, Min({k, Len(s)})) IN
        answer' = [op |-> "search", k |-> k, found |->
            IF \E i \in DOMAIN found : Mismatch(found[i]) THEN <<>> ELSE found,
            error |-> IF \E i \in DOMAIN found : Mismatch(found[i])
                      THEN "validation" ELSE "none"]
    /\ UNCHANGED <<kind, schema, rows, put, offset, listed, puts>>

Next ==
    \/ \E a \in Atoms : Put(a) \/ Get(a)
    \/ List
    \/ \E k \in 1..Cardinality(Atoms) : Search(k)

-----------------------------------------------------------------------------
(* get gives back the instant, the data and the embedding that were put last *)
(* under the id, also when that put was answered with an error, or it says   *)
(* that the data no longer fits the schema: never a value between the two.   *)
GetIsTrue ==
    (answer.op = "get") =>
        LET a == answer.id IN
        \/ answer.atom = None /\ put[a] = None
        \/ /\ answer.atom # None /\ put[a] # None
           /\ answer.atom.data =
                IF schema \in {"date", "transform"} THEN "mismatch" ELSE put[a].data
           /\ answer.atom.ms = put[a].ms
           /\ answer.atom.vector = IF kind = "pgvector" THEN put[a].vector ELSE None

(* A client that takes the pages to their end has every atom once, in the    *)
(* order of created_at, if no two are of one instant and they are all        *)
(* written with one offset.                                                  *)
ListedInOrder ==
    LET apart == /\ \A a, b \in Stored : a # b => put[a].ms # put[b].ms
                 /\ \A a, b \in Stored : put[a].zone = put[b].zone
    IN  (apart /\ answer.op = "list" /\ answer.error = "none" /\ offset = None) =>
            /\ Len(listed) = Cardinality(Stored) /\ ToSet(listed) = Stored
            /\ \A i, j \in DOMAIN listed : i < j => put[listed[i]].ms < put[listed[j]].ms

(* search leaves out no atom that was put with an embedding nearer than one  *)
(* it returned, and finds as many as there are.                              *)
SearchIsNearest ==
    (answer.op = "search" /\ answer.error = "none") =>
        /\ Len(answer.found) = Min({answer.k, Cardinality(Stored)})
        /\ \A a \in Stored \ ToSet(answer.found), b \in ToSet(answer.found) :
              put[a].vector # None =>
                  put[b].vector # None /\ put[b].vector <= put[a].vector

(* A refused connection is transient, so that its put is tried again,        *)
(* whatever else the message says, unless pgvector's is about a vector.      *)
RefusedIsTransient ==
    (answer.op = "put" /\ answer.error # "none") =>
        ("refused" \in answer.message /\ "vector" \notin answer.message
            => answer.error = "transient")

ReadsAreTrue == GetIsTrue /\ ListedInOrder /\ SearchIsNearest /\ RefusedIsTransient

(* Not so: created_at orders a list of SQLite's atoms by instant whatever    *)
(* offset it is written with (store-sqlite/src/atom-table.ts:24).            *)
ListedByInstant ==
    (\A a, b \in Stored : a # b => put[a].ms # put[b].ms) =>
        \A i, j \in DOMAIN listed : i < j => put[listed[i]].ms < put[listed[j]].ms
(* Not so: every store takes a refused connection for transient.             *)
OutageIsTransient ==
    (answer.op = "put" /\ answer.error # "none" /\ "refused" \in answer.message)
        => answer.error = "transient"
=============================================================================
