--------------------------- MODULE RateLimitRedis ---------------------------
(***************************************************************************)
(* The Redis rate-limit store (packages/rate-limit-redis/src/store.ts and  *)
(* lua.ts): calls for one key, each suspended at its Redis commands.  The  *)
(* script runs atomically, but with the time its caller read before the    *)
(* first command was sent.                                                 *)
(***************************************************************************)
EXTENDS Naturals, FiniteSets, FiniteSetsExt

CONSTANTS
    Callers,        \* one call may be under way per caller
    Limits,         \* the limits there may be
    Window,         \* of every call
    Latency,        \* bound: from a call's time to the end of its script
    LastTime,       \* bound on the clock
    MaxHits,        \* bound: admissions
    MaxFaults       \* bound: script flushes, and commands that fail

ASSUME RedisAssumption ==
    /\ IsFiniteSet(Callers)
    /\ Limits \subseteq Nat /\ Window \in Nat \ {0}
    /\ {Latency, LastTime, MaxHits, MaxFaults} \subseteq Nat

Times == 0..LastTime

VARIABLES
    limit,      \* of every call for the key
    clock,      \* the one clock of callers and Redis
    zset,       \* the members: a number each, and its score
    ttl,        \* when the key expires
    loaded,     \* Redis holds the script
    sha,        \* scriptSha is not null
    call,       \* the command each caller awaits, its `now`, and its result
    flushes, failures,
    hits,       \* history: the time of the call and of the script, per admission
    promise     \* history: when a refused call may be repeated, if none was admitted since

vars == <<limit, clock, zset, ttl, loaded, sha, call, flushes, failures, hits, promise>>

Pcs == {"idle", "load", "evalsha", "eval", "reload"}
Answers == {"none", "allowed", "refused", "error"}
NoPromise == LastTime + 2 * Window + 1

TypeOK ==
    /\ limit \in Limits /\ clock \in Times
    /\ zset \subseteq [n : 1..MaxHits, score : Times] /\ Cardinality(zset) <= limit
    /\ ttl \in 0..(LastTime + Window)
    /\ loaded \in BOOLEAN /\ sha \in BOOLEAN
    /\ call \in [Callers -> [pc : Pcs, now : Times, answer : Answers]]
    /\ flushes \in 0..MaxFaults /\ failures \in 0..MaxFaults
    /\ Cardinality(hits) <= MaxHits
    /\ hits \subseteq [n : 1..MaxHits, asked : Times, ran : Times]
    /\ promise \in Nat

Init ==
    /\ limit \in Limits
    /\ clock = 0 /\ zset = {} /\ ttl = 0
    /\ loaded = FALSE /\ sha = FALSE
    /\ call = [c \in Callers |-> [pc |-> "idle", now |-> 0, answer |-> "none"]]
    /\ flushes = 0 /\ failures = 0
    /\ hits = {} /\ promise = NoPromise

-----------------------------------------------------------------------------
\* The caller awaits another command, or has its answer.
Awaits(c, pc) == call' = [call EXCEPT ![c].pc = pc]
Returns(c, a) == call' = [call EXCEPT ![c] = [@ EXCEPT !.pc = "idle", !.answer = a]]

\* consume: the time is read once, before anything is sent.
Consume(c) ==
    /\ call[c].pc = "idle"
    /\ call' = [call EXCEPT ![c] = [pc |-> IF sha THEN "evalsha" ELSE "load",
                                    now |-> clock, answer |-> "none"]]
    /\ UNCHANGED <<limit, clock, zset, ttl, loaded, sha, flushes, failures, hits, promise>>

\* The first scriptLoad of the store is answered.
Load(c) ==
    /\ call[c].pc = "load" /\ Awaits(c, "evalsha")
    /\ loaded' = TRUE /\ sha' = TRUE
    /\ UNCHANGED <<limit, clock, zset, ttl, flushes, failures, hits, promise>>

LiveKeepsEdge(now) ==                                               \* mutant
    IF clock >= ttl THEN {} ELSE {e \in zset : e.score + Window >= now}
LiveDropsEarly(now) ==                                              \* mutant
    IF clock >= ttl THEN {} ELSE {e \in zset : e.score + Window > now + 1}
\* The members left by the key's expiry and by ZREMRANGEBYSCORE.
Live(now) ==
    IF clock >= ttl THEN {} ELSE {e \in zset : e.score + Window > now}

\* A log that is full and has no oldest member, which a limit of 0 makes of it,
\* breaks the script: nil + window.
Verdict(c) ==
    IF Cardinality(Live(call[c].now)) < limit THEN "allowed"
    ELSE IF Live(call[c].now) = {} THEN "error" ELSE "refused"

\* SLIDING_WINDOW_SCRIPT.
Script(c) ==
    LET n == Cardinality(hits) + 1
        now == call[c].now
    IN  IF Verdict(c) = "allowed"
        THEN /\ n <= MaxHits
             /\ zset' = Live(now) \cup {[n |-> n, score |-> now]}
             /\ ttl' = clock + Window
             /\ hits' = hits \cup {[n |-> n, asked |-> now, ran |-> clock]}
             /\ promise' = NoPromise
        ELSE /\ zset' = Live(now)
             /\ promise' = IF zset' = {} THEN promise
                           ELSE Min({e.score : e \in zset'}) + Window
             /\ UNCHANGED <<ttl, hits>>

EvalShaOnly(c) ==                                                   \* mutant
    /\ call[c].pc = "evalsha"
    /\ IF loaded
       THEN Script(c) /\ Returns(c, Verdict(c))
       ELSE Returns(c, "error") /\ UNCHANGED <<zset, ttl, hits, promise>>
    /\ UNCHANGED <<limit, clock, loaded, sha, flushes, failures>>
\* evalSha is answered, with NOSCRIPT if Redis does not hold the script.
EvalSha(c) ==
    /\ call[c].pc = "evalsha"
    /\ IF loaded
       THEN Script(c) /\ Returns(c, Verdict(c))
       ELSE Awaits(c, "eval") /\ UNCHANGED <<zset, ttl, hits, promise>>
    /\ UNCHANGED <<limit, clock, loaded, sha, flushes, failures>>

\* eval runs the script, which Redis keeps; the result waits for scriptLoad, an
\* error for nothing.
Eval(c) ==
    /\ call[c].pc = "eval"
    /\ Script(c)
    /\ call' = [call EXCEPT ![c] =
                    [@ EXCEPT !.pc = IF Verdict(c) = "error" THEN "idle" ELSE "reload",
                              !.answer = Verdict(c)]]
    /\ loaded' = TRUE
    /\ UNCHANGED <<limit, clock, sha, flushes, failures>>

Reload(c) ==
    /\ call[c].pc = "reload" /\ Awaits(c, "idle")
    /\ loaded' = TRUE /\ sha' = TRUE
    /\ UNCHANGED <<limit, clock, zset, ttl, flushes, failures, hits, promise>>

\* A command fails: the error is thrown, also by the scriptLoad that follows
\* a script that has run.
Fails(c) ==
    /\ call[c].pc # "idle" /\ Returns(c, "error")
    /\ failures < MaxFaults /\ failures' = failures + 1
    /\ UNCHANGED <<limit, clock, zset, ttl, loaded, sha, flushes, hits, promise>>

\* The script runs and its result is lost.
LosesResult(c) ==
    /\ call[c].pc = "eval" \/ (call[c].pc = "evalsha" /\ loaded)
    /\ Script(c) /\ Returns(c, "error")
    /\ failures < MaxFaults /\ failures' = failures + 1
    /\ loaded' = TRUE
    /\ UNCHANGED <<limit, clock, sha, flushes>>

\* SCRIPT FLUSH.
Flush ==
    /\ loaded /\ loaded' = FALSE
    /\ flushes < MaxFaults /\ flushes' = flushes + 1
    /\ UNCHANGED <<limit, clock, zset, ttl, sha, call, failures, hits, promise>>

Elapse ==
    /\ clock < LastTime /\ clock' = clock + 1
    /\ \A c \in Callers : call[c].pc \in {"idle", "reload"} \/ clock < call[c].now + Latency
    /\ UNCHANGED <<limit, zset, ttl, loaded, sha, call, flushes, failures, hits, promise>>

Next ==
    \/ \E c \in Callers :
          \/ Consume(c) \/ Load(c) \/ EvalSha(c) \/ Eval(c) \/ Reload(c)
          \/ Fails(c) \/ LosesResult(c)
    \/ Flush \/ Elapse

Spec == Init /\ [][Next]_vars

-----------------------------------------------------------------------------
(***************************************************************************)
(* Properties.                                                             *)
(***************************************************************************)
\* However calls overtake each other, at most limit are admitted in any span
\* that is shorter than the window by the latency of a call: what the limiter
\* guarantees the resource behind it.
LimitHoldsInShorterSpan ==
    \A h \in hits :
        Cardinality({g \in hits : g.ran <= h.ran /\ g.ran + Window > h.ran + Latency}) <= limit

\* A refused call that is repeated after retryAfterMs is admitted, if none
\* was admitted in between (rate-limit-redis/README.md:56: "ms until next
\* allowed request").
HintIsKept ==
    [][\A c \in Callers :
         call[c].pc \in {"evalsha", "eval"} /\ call'[c].answer = "refused"
            => call[c].now < promise]_vars

\* A flushed script is not seen by the caller: consume fails only if a
\* command fails (README.md: "falls back to EVAL"), but for a limit of 0.
FlushIsTransparent ==
    failures = 0 /\ limit # 0 => \A c \in Callers : call[c].answer # "error"

\* Neither calls that overtake each other nor a flush break the limit or
\* the answer of consume (store.ts 59-91, lua.ts 20-39).
RedisIsSound == LimitHoldsInShorterSpan /\ FlushIsTransparent

\* A limit of 0 refuses whoever comes, as the store in process does (in-process-
\* store.ts 71-74). False: the script fails, and consume throws (lua.ts 36-37).
ZeroIsRefused == failures = 0 => \A c \in Callers : call[c].answer # "error"

\* At most limit calls made within a window are admitted (rate-limit-redis/
\* src/store.ts:56: "Maximum allowed requests within `windowMs`").
LimitHolds ==
    \A h \in hits :
        Cardinality({g \in hits : g.asked <= h.asked /\ g.asked + Window > h.asked}) <= limit
=============================================================================
