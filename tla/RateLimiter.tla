---------------------------- MODULE RateLimiter ----------------------------
(***************************************************************************)
(* What a RateLimitStore promises (packages/core/src/trigger.ts 8-17): at  *)
(* most limit admissions in any window, a refusal only when the window is  *)
(* full, and a retryAfterMs after which the oldest admission has left it.  *)
(* A store of bounded size may forget the windows of other keys meanwhile. *)
(***************************************************************************)
EXTENDS Naturals, Sequences, FiniteSetsExt

CONSTANTS Keys, Limits, Window

VARIABLES
    limit,  \* of every call
    now,    \* the clock
    hits,   \* admissions of each key, in the order they were made
    answer  \* the answer of the last call

\* The places of those that are still in the window.
Recent(k) == {i \in 1..Len(hits[k]) : hits[k][i] + Window > now}
Allowed(left) == [allowed |-> TRUE, remaining |-> left, retryAfterMs |-> 0]
Refused(ms) == [allowed |-> FALSE, remaining |-> 0, retryAfterMs |-> ms]

Init == limit \in Limits /\ now = 0 /\ hits = [k \in Keys |-> <<>>] /\ answer = Allowed(0)

\* The admissions of k become s; other keys may be forgotten.
Records(k, s) ==
    \E F \in SUBSET (Keys \ {k}) :
        hits' = [x \in Keys |-> IF x = k THEN s ELSE IF x \in F THEN <<>> ELSE hits[x]]

Admit(k) ==
    /\ Cardinality(Recent(k)) < limit
    /\ Records(k, Append(hits[k], now))
    /\ answer' = Allowed(limit - Cardinality(Recent(k)) - 1)
    /\ UNCHANGED <<limit, now>>

Refuse(k) ==
    /\ Cardinality(Recent(k)) >= limit
    /\ Records(k, hits[k])
    /\ answer' = Refused(IF Recent(k) = {} THEN Window
                         ELSE hits[k][Min(Recent(k))] + Window - now)
    /\ UNCHANGED <<limit, now>>

Elapse == now' > now /\ UNCHANGED <<limit, hits, answer>>

Next == Elapse \/ \E k \in Keys : Admit(k) \/ Refuse(k)

Spec == Init /\ [][Next]_<<limit, now, hits, answer>>
=============================================================================
