---------------------------- MODULE RateLimitLog ----------------------------
(***************************************************************************)
(* The in-process rate-limit store (packages/core/src/rate-limit/          *)
(* in-process-store.ts): a log of admissions per key, and the order of a   *)
(* Map's keys as the order of their last use, the oldest of which is       *)
(* forgotten when a new key comes and MaxKeys are held.  consume has no    *)
(* await, so a call is one step.                                           *)
(***************************************************************************)
EXTENDS Naturals, FiniteSets, SequencesExt

CONSTANTS
    Keys,
    Limits,         \* the limits there may be
    Window,         \* of every call
    MaxKeys,        \* MAX_KEYS
    LastTime,       \* bound on the clock
    MaxHits         \* bound: admissions of a key

VARIABLES
    limit,  \* of every call
    now,    \* Date.now()
    log,    \* the timestamps held for each key
    order,  \* the keys held, the one used longest ago first
    answer, \* what the last call returned
    hits,   \* history: the admissions of each key since it was last forgotten
    others  \* history: keys used since each key was last used

vars == <<limit, now, log, order, answer, hits, others>>

Times == 0..LastTime

TypeOK ==
    /\ limit \in Limits /\ now \in Times
    /\ log \in [Keys -> Seq(Times)] /\ \A k \in Keys : Len(log[k]) <= limit
    /\ order \in Seq(Keys) /\ Len(order) <= MaxKeys /\ IsInjective(order)
    /\ \A k \in Keys : log[k] # <<>> => Contains(order, k)
    /\ answer \in [allowed : BOOLEAN, remaining : 0..limit, retryAfterMs : 0..Window]
    /\ hits \in [Keys -> Seq(Times)]
    /\ others \in [Keys -> SUBSET Keys]

Init ==
    /\ limit \in Limits /\ now = 0 /\ log = [k \in Keys |-> <<>>] /\ order = <<>>
    /\ answer = [allowed |-> TRUE, remaining |-> 0, retryAfterMs |-> 0]
    /\ hits = [k \in Keys |-> <<>>] /\ others = [k \in Keys |-> {}]

-----------------------------------------------------------------------------
\* The timestamps without the expired ones in front.
StartKeepsEdge(s) ==                                                \* mutant
    Min({i \in 1..(Len(s) + 1) : i <= Len(s) => s[i] + Window >= now})
Start(s) == Min({i \in 1..(Len(s) + 1) : i <= Len(s) => s[i] + Window > now})
Pruned(s) == SubSeq(s, Start(s), Len(s))

\* A key that is new takes the place of the oldest when the map is full; one
\* that is held moves to the end.
TouchInPlace(k) ==                                                  \* mutant
    IF Contains(order, k) THEN order
    ELSE Append(IF Len(order) >= MaxKeys THEN Tail(order) ELSE order, k)
Touch(k) ==
    IF Contains(order, k)
    THEN Append(RemoveAt(order, CHOOSE i \in 1..Len(order) : order[i] = k), k)
    ELSE Append(IF Len(order) >= MaxKeys THEN Tail(order) ELSE order, k)

\* The logs once k is touched.
Kept(k) ==
    [x \in Keys |-> IF x = k THEN Pruned(log[x])
                    ELSE IF Contains(Touch(k), x) THEN log[x] ELSE <<>>]

\* What is left of the admissions once k is touched.
Forgets(k) == [x \in Keys |-> IF Contains(Touch(k), x) THEN hits[x] ELSE <<>>]

\* The window is full.
Refuse(k) ==
    LET ts == Kept(k)[k]
        ms == IF ts = <<>> THEN Window ELSE Head(ts) + Window - now
    IN  /\ Len(ts) >= limit
        /\ log' = Kept(k) /\ hits' = Forgets(k)
        /\ answer' = [allowed |-> FALSE, remaining |-> 0, retryAfterMs |-> ms]

\* There is room: the time is recorded.
Admit(k) ==
    LET ts == Append(Kept(k)[k], now)
    IN  /\ Len(Kept(k)[k]) < limit
        /\ log' = [Kept(k) EXCEPT ![k] = ts]
        /\ hits' = [Forgets(k) EXCEPT ![k] = Append(@, now)]
        /\ answer' = [allowed |-> TRUE, remaining |-> limit - Len(ts), retryAfterMs |-> 0]

Consume(k) ==
    /\ Admit(k) \/ Refuse(k)
    /\ Len(hits'[k]) <= MaxHits
    /\ order' = Touch(k)
    /\ others' = [x \in Keys |-> IF x = k THEN {} ELSE others[x] \cup {k}]
    /\ UNCHANGED <<limit, now>>

Elapse ==
    /\ now < LastTime /\ now' = now + 1
    /\ UNCHANGED <<limit, log, order, answer, hits, others>>

Next == Elapse \/ \E k \in Keys : Consume(k)

Spec == Init /\ [][Next]_vars

-----------------------------------------------------------------------------
(***************************************************************************)
(* Properties.                                                             *)
(***************************************************************************)
\* Every answer is that of RateLimiter: at most limit admissions in a window,
\* refusals only when it is full, and remaining and retryAfterMs as trigger.ts
\* 8-13 describes them, for every key that was not forgotten.
Limiter == INSTANCE RateLimiter
ImplementsLimiter == Limiter!Spec

\* A key is forgotten, and its window with it, only after MaxKeys other keys
\* were used since: a key in steady use keeps its limit however many keys
\* pass by, refused calls included (in-process-store.ts 49-70).
ForgetsOnlyUnused ==
    [][\A k \in Keys :
         Contains(order, k) /\ ~Contains(order', k) => Cardinality(others'[k]) >= MaxKeys]_vars
=============================================================================
