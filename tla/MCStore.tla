------------------------------- MODULE MCStore -------------------------------
(***************************************************************************)
(* Instances of StorePut and StoreReads for TLC: a behaviour puts, under   *)
(* failures, or puts and reads.                                            *)
(***************************************************************************)
EXTENDS StorePut

CONSTANTS Schemas, Atoms, Clock, Zones, Distances, MaxPuts, PageSize

VARIABLES part, store, schema, table, put, offset, listed, answer, puts

Reads == INSTANCE StoreReads WITH kind <- store, rows <- table

ASSUME ReadsAssumption ==
    /\ IsFiniteSet(Atoms) /\ Clock \subseteq Nat /\ Zones \subseteq Nat /\ Distances \subseteq Nat
    /\ Schemas \subseteq {"string", "date", "coerce", "transform"}
    /\ PageSize \in Nat
    /\ None \notin Nat
    /\ None \notin Reads!Columns({"text", "date", "number", "mismatch"})

readsVars == <<store, schema, table, put, offset, listed, answer, puts>>

ReadsIdle == store = "sqlite" /\ schema = "date" /\ Reads!Init
PutsIdle  == kind = "sqlite" /\ key = [r \in Runs |-> CHOOSE k \in Keys : TRUE] /\ Init

MCInit ==
    /\ part \in {"puts", "reads"}
    /\ IF part = "puts" THEN Init ELSE PutsIdle
    /\ IF part = "reads" THEN Reads!Init ELSE ReadsIdle

MCNext ==
    /\ UNCHANGED part
    /\ \/ part = "puts" /\ Next /\ UNCHANGED readsVars
       \/ part = "reads" /\ Reads!Next /\ UNCHANGED vars

MCSpec == MCInit /\ [][MCNext]_<<part, vars, readsVars>>

\* StoreReads: get gives what was put, or an error; pages are in the store's
\* order and leave nothing out; search gives the nearest; refusals are told.
ReadsAreTrue == part = "reads" => Reads!ReadsAreTrue

ListedByInstant == part = "reads" => Reads!ListedByInstant
OutageIsTransient == part = "reads" => Reads!OutageIsTransient
=============================================================================
