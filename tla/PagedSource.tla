---------------------------- MODULE PagedSource ----------------------------
(***************************************************************************)
(* Reading a collection page by page: the API source                       *)
(* (source-api/src/api-source.ts, pagination.ts), the dataset of an Apify  *)
(* run (source-apify/src/dataset-paginate.ts, apify-source.ts), and the    *)
(* list operation of the stores, asked again with the cursor it returned   *)
(* (store-postgres, store-sqlite, store-pgvector).                         *)
(* The collection changes while it is read.  Its rows are numbers; they    *)
(* are in that order on the server, but a store orders rows by created_at  *)
(* alone, so that rows of one time come in any order, in every query anew. *)
(***************************************************************************)
EXTENDS Integers, FiniteSets, FiniteSetsExt, SequencesExt

CONSTANTS
    Rows,       \* the rows there may be, as numbers
    Bad,        \* those that the schema refuses
    PageSizes,  \* page sizes that a configuration may give
    Kinds,      \* "cursor", "offset", "page", "none": the API source;
                \* "dataset"; "store"
    CreatedAt,  \* created_at of each row, for "store"
    MaxChanges  \* bound: rows put in or deleted

VARIABLES
    kind, verb,     \* the verb is "iter" or "fetch"
    wrapped,        \* config.responseShape is "wrapped"
    size,           \* config.paginate.pageSize, or the limit of a list
    rows,           \* the collection
    stable,         \* history: rows that have been there all the time
    inserted,       \* history: a row was put in; deleted: one was deleted
    deleted,
    position,       \* offset or page of the next request, or the cursor's row
    atoms,          \* what has been yielded or collected
    pc,             \* "ask", "asked", "end"
    result,         \* of fetch or list: "none", "ok", "err"; iter has none
    refused,        \* history: a request failed
    aborted,
    changes

config == <<kind, verb, wrapped, size>>
vars == <<config, rows, stable, inserted, deleted, position, atoms, pc, result,
          refused, aborted, changes>>

-----------------------------------------------------------------------------
(***************************************************************************)
(* The server, external: the rows of a request.  A keyset cursor is the    *)
(* last row of the page before; the others count.                          *)
(***************************************************************************)
Before(k, l) == IF kind = "store" THEN CreatedAt[k] < CreatedAt[l] ELSE k < l
Nth(n) == CHOOSE r \in rows : Cardinality({q \in rows : q <= r}) = n
Orders ==
    IF kind # "store" THEN {[n \in 1 .. Cardinality(rows) |-> Nth(n)]}
    ELSE {s \in SetToSeqs(rows) : \A i, j \in DOMAIN s : Before(s[i], s[j]) => i < j}

Slice(s, from, n) == SubSeq(s, from + 1, Min({from + n, Len(s)}))

Page(s) ==
    CASE kind = "cursor" -> Slice(s, Cardinality({r \in rows : r <= position}), size)
      [] kind \in {"offset", "dataset", "store"} -> Slice(s, position, size)
      [] kind = "page" -> Slice(s, (position - 1) * size, size)
      [] kind = "none" -> s

\* Whether the server has more, as a wrapped response tells it: next_cursor.
\* A store asks for one row more than the page instead.
More(s, page) ==
    CASE kind = "cursor" -> page # <<>> /\ \E r \in ToSet(s) : r > Last(page)
      [] kind = "store" -> Len(s) > position + size
      [] OTHER -> FALSE

-----------------------------------------------------------------------------
\* ApiSourceConfigSchema wants a page size that is positive when the source is
\* created; a dataset is read by a thousand, and a server with cursors sends
\* pages that are not empty. Nothing looks at the limit of a store's list.
AnyConfig(k, n) == TRUE                                             \* mutant
ValidConfig(k, n) == k = "store" \/ n > 0

\* initialState
Init ==
    /\ kind \in Kinds /\ size \in {n \in PageSizes : ValidConfig(kind, n)}
    /\ verb \in {"iter", "fetch"} /\ wrapped \in BOOLEAN
    /\ wrapped => kind = "cursor"
    /\ kind = "store" => verb = "fetch"
    /\ rows \in SUBSET Rows /\ stable = rows
    /\ inserted = FALSE /\ deleted = FALSE
    /\ position = (IF kind = "page" THEN 1 ELSE IF kind = "cursor" THEN -1 ELSE 0)
    /\ atoms = <<>> /\ pc = "ask" /\ result = "none" /\ refused = FALSE
    /\ aborted = FALSE /\ changes = 0

Ends(r) == /\ pc' = "end" /\ result' = (IF verb = "fetch" THEN r ELSE "none")

\* The top of the loop: the API source looks at the signal before a request.
Ask ==
    /\ pc = "ask"
    /\ IF aborted /\ kind \in {"cursor", "offset", "page", "none"}
       THEN Ends("ok")
       ELSE pc' = "asked" /\ UNCHANGED result
    /\ UNCHANGED <<config, rows, stable, inserted, deleted, position,
                   atoms, refused, aborted, changes>>

\* Items that the schema refuses are passed over: what is left, in the page's
\* order, is the one sequence of this set.
Parsed(page) ==
    {t \in SetToSeqs(ToSet(page) \ Bad) :
        \A i, j \in DOMAIN t : i < j =>
            \E k, l \in DOMAIN page : k < l /\ page[k] = t[i] /\ page[l] = t[j]}
Takes(page) == \E good \in Parsed(page) : atoms' = atoms \o good

\* advanceState: where the next request begins, and whether there is one.
AdvancesByParsed(page, more) ==                                     \* mutant
    IF kind = "cursor" THEN [position |-> position, done |-> TRUE]
    ELSE [position |-> position + (IF kind = "page" THEN 1 ELSE Len(page)),
          done |-> Cardinality(ToSet(page) \ Bad) < size]
Advance(page, more) ==
    CASE kind = "cursor" ->
            IF wrapped /\ more THEN [position |-> Last(page), done |-> FALSE]
            ELSE [position |-> position, done |-> TRUE]
      [] kind = "store" -> [position |-> position + Len(page), done |-> ~more]
      [] kind \in {"offset", "dataset"} ->
            [position |-> position + Len(page), done |-> Len(page) < size]
      [] kind = "page" -> [position |-> position + 1, done |-> Len(page) < size]
      [] kind = "none" -> [position |-> position, done |-> TRUE]

(***************************************************************************)
(* A page arrives.  One bad row fails a store's list.  Only the reader of  *)
(* a dataset looks at the signal between items.                            *)
(***************************************************************************)
Answer ==
    /\ pc = "asked"
    /\ \E s \in Orders :
        LET page == Page(s)
            next == Advance(page, More(s, page))
        IN  CASE kind = "store" /\ ToSet(page) \cap Bad # {} ->
                    Ends("err") /\ UNCHANGED <<atoms, position>>
              [] kind = "dataset" /\ aborted /\ page # <<>> ->
                    /\ \E n \in 0 .. Len(page) - 1 : Takes(SubSeq(page, 1, n))
                    /\ Ends("ok") /\ UNCHANGED position
              [] OTHER ->
                    /\ Takes(page)
                    /\ position' = next.position
                    /\ IF next.done THEN Ends("ok") ELSE pc' = "ask" /\ UNCHANGED result
    /\ UNCHANGED <<config, rows, stable, inserted, deleted, refused,
                   aborted, changes>>

\* A request fails, by itself or because the signal that it was given fires:
\* iter of the API source returns as if there were no more.
Refuse ==
    /\ pc = "asked"
    /\ Ends("err") /\ refused' = TRUE
    /\ UNCHANGED <<config, rows, stable, inserted, deleted, position,
                   atoms, aborted, changes>>

Abort ==
    /\ ~aborted /\ aborted' = TRUE /\ kind # "store" /\ pc # "end"
    /\ UNCHANGED <<config, rows, stable, inserted, deleted, position,
                   atoms, pc, result, refused, changes>>

Insert ==
    /\ changes < MaxChanges /\ pc # "end" /\ changes' = changes + 1
    /\ \E r \in Rows \ rows : rows' = rows \cup {r}
    /\ inserted' = TRUE
    /\ UNCHANGED <<config, stable, deleted, position, atoms, pc,
                   result, refused, aborted>>

Delete ==
    /\ changes < MaxChanges /\ pc # "end" /\ changes' = changes + 1
    /\ \E r \in rows : rows' = rows \ {r} /\ stable' = stable \ {r}
    /\ deleted' = TRUE
    /\ UNCHANGED <<config, inserted, position, atoms, pc, result,
                   refused, aborted>>

Read == Ask \/ Answer
Next == Read \/ Refuse \/ Abort \/ Insert \/ Delete

\* The reader's own steps are taken, and requests are answered.
Spec == Init /\ [][Next]_vars /\ WF_vars(Read)

-----------------------------------------------------------------------------
Times(r) == Cardinality({k \in DOMAIN atoms : atoms[k] = r})

\* The cursors of a collection that is read without a wrapped response, or
\* created at one time, prove nothing: see OnePageOnly and TiesAreKept.
Walks == kind = "cursor" => wrapped
Ordered == kind = "store" => \A r, q \in Rows : r # q => CreatedAt[r] # CreatedAt[q]

(***************************************************************************)
(* A reading that ends well has read each good row that was there from     *)
(* beginning to end.  Where rows are counted, that needs that none was     *)
(* deleted; that none comes twice needs that none was put in.  Rows come   *)
(* in the server's order.                                                  *)
(***************************************************************************)
StableRowsAreRead ==
    pc = "end" /\ result # "err" /\ ~refused /\ ~aborted /\ Walks /\ Ordered =>
        \A r \in stable \ Bad :
            /\ Times(r) >= 1 \/ (deleted /\ kind # "cursor")
            /\ Times(r) <= 1 \/ (inserted /\ kind # "cursor")
NothingInvented ==
    /\ Ordered /\ (~inserted \/ kind = "cursor") =>
            \A j, k \in DOMAIN atoms : j < k => Before(atoms[j], atoms[k])
    /\ ToSet(atoms) \cap Bad = {}

\* fetch answers ok for a part of the rows only if it was aborted.
OkIsWhole ==
    result = "ok" /\ ~aborted /\ ~inserted /\ ~deleted /\ Walks /\ Ordered
        => ToSet(atoms) = rows \ Bad
PagesAreRead == StableRowsAreRead /\ NothingInvented /\ OkIsWhole

\* Once changes stop, a reading ends; not one of a store by pages of no rows,
\* see CursorMoves.
ReadingEnds == (kind = "store" => size > 0) => <>(pc = "end")

\* A list that has more says where to go on (docs/spec.md 978-980; false: with a
\* limit of 0 there is more, and the cursor is the one that was given).
CursorMoves == [][kind = "store" /\ pc = "asked" /\ pc' = "ask" => position' # position]_vars

\* README.md of source-api configures a cursor and no responseShape (false: the
\* default shape has no cursor, and one page is all that is read).
OnePageOnly ==
    pc = "end" /\ result = "ok" /\ ~aborted /\ ~inserted /\ ~deleted /\ Ordered
        => ToSet(atoms) = rows \ Bad
\* A reading by iter that ends has read everything (false: a failed request
\* ends it the same way).
IterTellsFailure ==
    pc = "end" /\ verb = "iter" /\ ~aborted /\ ~inserted /\ ~deleted /\ Walks
        => ToSet(atoms) = rows \ Bad
\* Rows created at one time are each listed once (false).
TiesAreKept ==
    pc = "end" /\ kind = "store" /\ result = "ok" /\ ~inserted /\ ~deleted
        => ToSet(atoms) = rows
=============================================================================
