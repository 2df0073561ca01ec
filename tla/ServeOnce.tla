------------------------------ MODULE ServeOnce ------------------------------
(***************************************************************************)
(* What reaches a receiver: the serve adapters for Slack, webhooks, email  *)
(* and MCP tools, called by runs that retry, crash and are run again.      *)
(*                                                                         *)
(* An emit looks up the idempotency cache (Slack only), sends, and writes  *)
(* the cache.  The request may be refused, its answer may be lost after it *)
(* was carried out, and the cache may fail; the error's class decides      *)
(* whether withRetry emits again.  The key is scoped to run, serve and     *)
(* atom in a streaming run; in a sequential one it is the run's own.       *)
(***************************************************************************)
EXTENDS Naturals, FiniteSets

CONSTANTS
    Runs,        \* runs of the pipeline, at once or one after the other
    Keys,        \* idempotency keys a caller may give a sequential run
    NServes,     \* serve stages of the pipeline
    Providers,   \* the adapters considered, one of AllProviders
    MaxAttempts, \* of each emit
    MaxFaults    \* bound on what goes wrong beside refusals

AllProviders == {"slack", "webhook", "smtp", "postal", "resend", "mcp"}
Serves == 1..NServes

VARIABLES
    provider,   \* the adapter of every serve
    streaming,  \* the run has a source: runFanOut, else runSequential
    shared,     \* the serves have one cache and one receiver, else one each
    cached,     \* an idempotencyCache is configured
    dedups,     \* the receiver drops a request whose key it has seen
    runKey,     \* the key given with a sequential run
    serve, attempt, pc,   \* of each run
    cache, seen,   \* <<place, key>> remembered by a cache, by a receiver
    acked,      \* <<run, serve>> whose emit returned ok
    posted,     \* how often the message of a run's serve was carried out
    \* history: what a repetition can be blamed on
    faults,     \* of <<run, serve>>: lost answers and failures of the cache
    races       \* lookups that missed while another run was sending

config == <<provider, streaming, shared, cached, dedups, runKey>>
vars == <<config, serve, attempt, pc, cache, seen, acked, posted, faults, races>>

KeyPerAttempt(r, s) == <<r, s, attempt[r]>>                          \* mutant
\* The step hands the emit a scoped key only for an atom of a streaming run.
Key(r, s) == IF streaming THEN <<r, s>> ELSE <<runKey[r]>>
Place(r, s) == <<IF shared THEN 0 ELSE s, Key(r, s)>>
Here(r) == Place(r, serve[r])

\* Each request carries the key: as a header, a Message-ID, a client_msg_id.
KeySentWith == AllProviders \ {"mcp"}
Remembers == provider = "slack" /\ cached
Active == {"sending", "accepted", "caching"}

TypeOK ==
    /\ provider \in AllProviders /\ {streaming, shared, cached, dedups} \subseteq BOOLEAN
    /\ runKey \in [Runs -> Keys]
    /\ serve \in [Runs -> Serves] /\ attempt \in [Runs -> 1..MaxAttempts]
    /\ pc \in [Runs -> {"emit", "ok", "failed"} \cup Active]
    /\ acked \subseteq Runs \X Serves
    /\ {posted, faults} \subseteq [Runs \X Serves -> Nat] /\ races \in Nat

Init ==
    /\ provider \in Providers
    /\ streaming \in BOOLEAN /\ shared \in BOOLEAN
    /\ cached \in (IF provider = "slack" THEN BOOLEAN ELSE {FALSE})
    /\ dedups \in (IF provider \in KeySentWith THEN BOOLEAN ELSE {FALSE})
    /\ runKey \in [Runs -> Keys]
    /\ streaming => \A q, r \in Runs : runKey[q] = runKey[r]    \* it is not used
    /\ serve = [r \in Runs |-> 1] /\ attempt = [r \in Runs |-> 1]
    /\ pc = [r \in Runs |-> "emit"]
    /\ cache = {} /\ seen = {} /\ acked = {} /\ races = 0
    /\ posted = [x \in Runs \X Serves |-> 0] /\ faults = posted

-----------------------------------------------------------------------------
\* The sum of f over S.
Total(f, S) == Cardinality(UNION {{x} \X (1..f[x]) : x \in S})
Count(f, r) == [f EXCEPT ![<<r, serve[r]>>] = @ + 1]
Fault(r) == Total(faults, DOMAIN faults) < MaxFaults /\ faults' = Count(faults, r)

\* The emit returned ok: the run goes on to its next serve.
Succeeds(r) ==
    /\ acked' = acked \cup {<<r, serve[r]>>}
    /\ attempt' = [attempt EXCEPT ![r] = 1]
    /\ IF serve[r] < NServes
       THEN /\ serve' = [serve EXCEPT ![r] = @ + 1]
            /\ pc' = [pc EXCEPT ![r] = "emit"]
       ELSE UNCHANGED serve /\ pc' = [pc EXCEPT ![r] = "ok"]

FailsForGood(r) ==
    /\ pc' = [pc EXCEPT ![r] = "failed"] /\ UNCHANGED <<serve, attempt, acked>>

\* rate_limited, transient or network: withRetry calls emit again.
FailsTransiently(r) ==
    IF attempt[r] < MaxAttempts
    THEN /\ attempt' = [attempt EXCEPT ![r] = @ + 1]
         /\ pc' = [pc EXCEPT ![r] = "emit"] /\ UNCHANGED <<serve, acked>>
    ELSE FailsForGood(r)

Hit(r) ==
    /\ pc[r] = "emit" /\ Remembers /\ Here(r) \in cache
    /\ Succeeds(r)
    /\ UNCHANGED <<config, cache, seen, posted, faults, races>>

MissRemembers(r) ==                                                 \* mutant
    /\ pc[r] = "emit" /\ (~Remembers \/ Here(r) \notin cache)
    /\ pc' = [pc EXCEPT ![r] = "sending"]
    /\ cache' = IF Remembers THEN cache \cup {Here(r)} ELSE cache
    /\ UNCHANGED <<config, serve, attempt, seen, acked, posted, faults, races>>
\* A miss, or an error of the cache, which is taken for one.
Miss(r) ==
    /\ pc[r] = "emit"
    /\ \/ (~Remembers \/ Here(r) \notin cache) /\ UNCHANGED faults
       \/ Remembers /\ Fault(r)
    /\ races' = IF \E q \in Runs \ {r} : pc[q] \in Active /\ Here(q) = Here(r)
                THEN races + 1 ELSE races
    /\ pc' = [pc EXCEPT ![r] = "sending"]
    /\ UNCHANGED <<config, serve, attempt, cache, seen, acked, posted>>

\* Bad input, bad credentials, or an error of unknown class.
Refused(r) ==
    /\ pc[r] \in {"emit", "sending"}
    /\ FailsForGood(r)
    /\ UNCHANGED <<config, cache, seen, posted, faults, races>>

\* 429, 5xx, no connection.  What goes wrong in an MCP tool's pipeline is
\* of type unknown, which is never retried.
TurnedAway(r) ==
    /\ pc[r] = "sending" /\ provider # "mcp"
    /\ FailsTransiently(r)
    /\ UNCHANGED <<config, cache, seen, posted, faults, races>>

\* The request is carried out, unless the receiver knows its key.
Arrives(r) ==
    /\ pc[r] = "sending"
    /\ pc' = [pc EXCEPT ![r] = "accepted"]
    /\ seen' = seen \cup {Here(r)}
    /\ posted' = IF dedups /\ Here(r) \in seen THEN posted ELSE Count(posted, r)
    /\ UNCHANGED <<config, serve, attempt, cache, acked, faults, races>>

Answered(r) ==
    /\ pc[r] = "accepted"
    /\ IF Remembers
       THEN pc' = [pc EXCEPT ![r] = "caching"] /\ UNCHANGED <<serve, attempt, acked>>
       ELSE Succeeds(r)
    /\ UNCHANGED <<config, cache, seen, posted, faults, races>>

\* Carried out, and then no answer or a 5xx.  What the SDK of Resend throws
\* and what a tool's pipeline reports is of type unknown and not retried.
AnswerLost(r) ==
    /\ pc[r] = "accepted"
    /\ \/ provider \in {"resend", "mcp"} /\ FailsForGood(r)
       \/ provider # "mcp" /\ FailsTransiently(r)
    /\ Fault(r)
    /\ UNCHANGED <<config, cache, seen, posted, races>>

CacheWrittenById(r) ==                                              \* mutant
    /\ pc[r] = "caching"
    /\ cache' = cache \cup {<<serve[r], <<r>>>>}
    /\ Succeeds(r)
    /\ UNCHANGED <<config, seen, posted, faults, races>>
CacheWritten(r) ==
    /\ pc[r] = "caching"
    /\ cache' = cache \cup {Here(r)}
    /\ Succeeds(r)
    /\ UNCHANGED <<config, seen, posted, faults, races>>

\* An error the cache returns is dropped; one it throws is caught with those
\* of the call, and reported as a transient failure to send.
CacheFails(r) ==
    /\ pc[r] = "caching"
    /\ cache' \in {cache, cache \cup {Here(r)}}
    /\ Succeeds(r) \/ FailsTransiently(r)
    /\ Fault(r)
    /\ UNCHANGED <<config, seen, posted, races>>

\* The process dies, or the run is aborted between two attempts.
Dies(r) ==
    /\ pc[r] \in {"emit"} \cup Active
    /\ FailsForGood(r)
    /\ IF pc[r] \in {"accepted", "caching"} THEN Fault(r) ELSE UNCHANGED faults
    /\ UNCHANGED <<config, cache, seen, posted, races>>

Next ==
    \E r \in Runs :
        \/ Hit(r) \/ Miss(r) \/ Refused(r) \/ TurnedAway(r) \/ Arrives(r) \/ Answered(r)
        \/ AnswerLost(r) \/ CacheWritten(r) \/ CacheFails(r) \/ Dies(r)

Spec == Init /\ [][Next]_vars

-----------------------------------------------------------------------------
(***************************************************************************)
(* Properties.                                                             *)
(***************************************************************************)
Delivered(r, s) == \E q \in Runs : Key(q, s) = Key(r, s) /\ posted[<<q, s>>] > 0

\* docs/spec.md:514: "per-Serve scope = <runId>:<serveAdapterId>:<atomId>".
\* Whatever a cache or a receiver answers for, an emit that returned ok has
\* been carried out at its own serve.
OkIsDelivered == \A x \in acked : Delivered(x[1], x[2])

\* So it is where the key has that scope, and where each serve has a cache
\* and a receiver to itself, whatever failed on the way.
OkIsDeliveredApart == streaming \/ ~shared => OkIsDelivered

\* The messages that share an entry of the cache with that of x.
Sharing(x) == {y \in Runs \X Serves : Place(y[1], y[2]) = Place(x[1], x[2])}

\* A message is repeated only for a reason the adapter cannot know: each
\* answer lost, failure of the cache and lookup that overtook a rival's send
\* costs one repetition at most, and a receiver that knows the keys carries
\* out none (slack-serve.ts 119-157).
DuplicatesHaveCause ==
    \A x \in Runs \X Serves :
        /\ posted[x] <= 1 + faults[x]
        /\ dedups => Total(posted, Sharing(x)) <= 1
        /\ Remembers => Total(posted, Sharing(x)) <= 1 + Total(faults, Sharing(x)) + races
=============================================================================
