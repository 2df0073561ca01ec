----------------------------- MODULE RemoteReads -----------------------------
(***************************************************************************)
(* One reading through an MCP tool (source-mcp/src/mcp-source.ts): a       *)
(* client is connected, the tool is called, its items are yielded one by   *)
(* one to a consumer who may stop, and the client is closed.               *)
(***************************************************************************)
EXTENDS Integers, SequencesExt

CONSTANT
    Contents    \* what a tool may return: sequences of items, each "good",
                \* "bad" (refused by the schema), "image" (no text), or
                \* "list", a JSON array of one good and one bad element

VARIABLES
    verb,           \* "iter" or "fetch"
    expectArray,
    schema,         \* "given" by the user, or "unknown", which takes all
    pc,             \* "start", "connect", "schema", "answer", "items", "yielded", "close", "end"
    open,           \* the client is connected
    calls,          \* tool calls begun
    rest,           \* elements not yielded yet
    yielded,
    error,          \* "none", or the type of the SourceError
    aborted

vars == <<verb, expectArray, schema, pc, open, calls, rest, yielded, error, aborted>>
config == <<verb, expectArray>>

-----------------------------------------------------------------------------
\* createMcpToolSource puts z.unknown() for a schema that is not given.
Init ==
    /\ verb \in {"iter", "fetch"} /\ expectArray \in BOOLEAN /\ schema \in {"given", "unknown"}
    /\ pc = "start" /\ open = FALSE /\ calls = 0 /\ rest = <<>> /\ yielded = 0
    /\ error = "none" /\ aborted = FALSE

Begin ==
    /\ pc = "start" /\ pc' = IF aborted THEN "end" ELSE "connect"
    /\ UNCHANGED <<config, schema, open, calls, rest, yielded, error, aborted>>

\* connectClient: what fails here is thrown before the try block.
Connect ==
    /\ pc = "connect"
    /\ \/ open' = TRUE /\ pc' = "schema" /\ UNCHANGED error
       \/ open' = FALSE /\ pc' = "end" /\ error' \in {"timeout", "transient"}
    /\ UNCHANGED <<config, schema, calls, rest, yielded, aborted>>

\* resolveSchema always finds a schema in the configuration, so that it never
\* asks the server for one; then the signal; then callTool.
ResolveReturns ==                                                   \* mutant
    /\ pc = "schema"
    /\ IF aborted THEN pc' = "end" /\ UNCHANGED calls
       ELSE pc' = "answer" /\ calls' = calls + 1
    /\ UNCHANGED <<config, schema, open, rest, yielded, error, aborted>>
ResolveSchema ==
    /\ pc = "schema"
    /\ IF aborted THEN pc' = "close" /\ UNCHANGED calls
       ELSE pc' = "answer" /\ calls' = calls + 1
    /\ UNCHANGED <<config, schema, open, rest, yielded, error, aborted>>

\* extractContent: the items that are text; a text that is no JSON is an item
\* too.  With expectArray, a first item that is an array stands for all.
Elements(content) ==
    LET items == SelectSeq(content, LAMBDA c : c # "image")
        unpack(c) == IF c = "list" THEN <<"good", "bad">> ELSE <<c>>
    IN  IF ~expectArray THEN SubSeq(items, 1, IF items = <<>> THEN 0 ELSE 1)
        ELSE IF items # <<>> /\ items[1] = "list" THEN unpack("list") ELSE items

Answer ==
    /\ pc = "answer"
    /\ \/ \E c \in Contents : rest' = Elements(c) /\ pc' = "items" /\ UNCHANGED error
       \/ /\ error' \in {"timeout", "transient", "validation"}
          /\ pc' = "close" /\ UNCHANGED rest
    /\ UNCHANGED <<config, schema, open, calls, yielded, aborted>>

\* The signal is looked at before an element of an array, not for a single one.
NextItem ==
    /\ pc = "items"
    /\ IF rest = <<>> \/ (expectArray /\ aborted) THEN pc' = "close" /\ UNCHANGED <<rest, yielded>>
       ELSE /\ rest' = Tail(rest)
            /\ IF Head(rest) = "good" \/ schema = "unknown"
               THEN yielded' = yielded + 1 /\ pc' = "yielded"
               ELSE UNCHANGED <<yielded, pc>>
    /\ UNCHANGED <<config, schema, open, calls, error, aborted>>

\* The consumer asks for more, or leaves; fetch collects them all.
Resume ==
    /\ pc = "yielded" /\ pc' = "items"
    /\ UNCHANGED <<config, schema, open, calls, rest, yielded, error, aborted>>
Leave ==
    /\ pc = "yielded" /\ verb = "iter" /\ pc' = "close"
    /\ UNCHANGED <<config, schema, open, calls, rest, yielded, error, aborted>>

\* finally: what close throws is dropped.
Close ==
    /\ pc = "close" /\ open' = FALSE /\ pc' = "end"
    /\ UNCHANGED <<config, schema, calls, rest, yielded, error, aborted>>

Abort ==
    /\ ~aborted /\ pc # "end" /\ aborted' = TRUE
    /\ UNCHANGED <<config, schema, pc, open, calls, rest, yielded, error>>

Own == Begin \/ Connect \/ ResolveSchema \/ Answer \/ NextItem \/ Resume \/ Close
Next == Own \/ Leave \/ Abort

-----------------------------------------------------------------------------
\* Whichever way a reading ends, also when its consumer leaves it, its client
\* is closed, the tool was called once at most, and what was yielded before an
\* error is all that came before it: nothing.
ClientIsClosed ==
    /\ pc = "end" => ~open
    /\ calls <= 1
    /\ error # "none" => yielded = 0

\* resolveSchema says that it derives the schema from the one the server
\* declares for the tool, if none is given (false: what that schema would
\* refuse, a "bad" item, is yielded).
DeclaredSchemaRefuses ==
    [][pc = "items" /\ rest # <<>> /\ Head(rest) = "bad" => yielded' = yielded]_vars

------------------------------------------------------------------------------
(***************************************************************************)
(* Starting an actor and waiting for its run (source-apify/src/            *)
(* apify-source.ts): the platform's run proceeds by itself; the poll       *)
(* sleeps between requests, and the deadline and the signal race it.  The  *)
(* dataset that follows is the kind "dataset" of PagedSource.              *)
(***************************************************************************)

CONSTANTS
    Poll,       \* pollIntervalMs
    MaxWait,    \* maxWaitMs
    Latency,    \* a request is answered within
    LastTime    \* bound: when everything external stops

VARIABLES
    now,
    status,     \* of the run on the platform
    endedAt,    \* history: when it ended
    how,       \* "iter" or "fetch"
    at,         \* "start", "check", "asked", "asleep", "end"
    since,      \* when the request was sent, or the sleep began
    read,       \* what the platform answered to it, "none" before
    deadline,
    cancelled, cancelledAt,
    outcome     \* "none"; "dataset"; an error's code; "throws"

apifyVars == <<now, status, endedAt, how, at, since, read, deadline, cancelled,
          cancelledAt, outcome>>

Finals == {"SUCCEEDED", "FAILED", "TIMED-OUT", "ABORTED"}
Ended == status \in Finals

-----------------------------------------------------------------------------
ApifyInit ==
    /\ now = 0 /\ status = "none" /\ endedAt = 0 /\ how \in {"iter", "fetch"}
    /\ at = "start" /\ since = 0 /\ read = "none" /\ deadline = 0
    /\ cancelled \in BOOLEAN /\ cancelledAt = 0 /\ outcome = "none"

\* The platform: a run is READY, RUNNING, perhaps ABORTING, and then it ends;
\* its record may be missing.
Platform ==
    /\ \/ status = "READY" /\ status' \in {"RUNNING", "missing", "ABORTED"}
       \/ status = "RUNNING" /\ status' \in {"SUCCEEDED", "FAILED", "TIMED-OUT", "ABORTING"}
       \/ status = "ABORTING" /\ status' = "ABORTED"
    /\ endedAt' = IF status' \in Finals THEN now ELSE endedAt
    /\ UNCHANGED <<now, how, at, since, read, deadline, cancelled, cancelledAt, outcome>>

\* collectAtoms, collectAtomsToResult: start the actor, whatever the signal.
Start ==
    /\ at = "start"
    /\ \/ /\ status' = "READY" /\ at' = "check" /\ deadline' = now + MaxWait
          /\ UNCHANGED outcome
       \/ /\ outcome' = "apify_start_failed" /\ at' = "end" /\ UNCHANGED <<status, deadline>>
    /\ UNCHANGED <<now, endedAt, how, since, read, cancelled, cancelledAt>>

End(o) == at' = "end" /\ outcome' = o

\* waitForRun: the signal is looked at before each request.
Check ==
    /\ at = "check"
    /\ IF cancelled THEN End("cancelled") /\ UNCHANGED <<since, read>>
       ELSE at' = "asked" /\ since' = now /\ read' = "none" /\ UNCHANGED outcome
    /\ UNCHANGED <<now, status, endedAt, how, deadline, cancelled, cancelledAt>>

\* The platform reads the run's record; the answer is still on its way.
Looks ==
    /\ at = "asked" /\ read = "none"
    /\ read' = status
    /\ UNCHANGED <<now, status, endedAt, how, at, since, deadline, cancelled, cancelledAt, outcome>>

\* The answer, which only a run that has not ended lets the deadline decide.
ReplyDeadlineFirst ==                                               \* mutant
    /\ at = "asked" /\ read # "none"
    /\ IF now >= deadline THEN End("apify_poll_timeout") /\ UNCHANGED since
       ELSE IF read = "SUCCEEDED" THEN End("dataset") /\ UNCHANGED since
       ELSE IF read = "missing" THEN End("apify_run_missing") /\ UNCHANGED since
       ELSE IF read \in Finals THEN End(read) /\ UNCHANGED since
       ELSE at' = "asleep" /\ since' = now /\ UNCHANGED outcome
    /\ UNCHANGED <<now, status, endedAt, how, read, deadline, cancelled, cancelledAt>>
Reply ==
    /\ at = "asked" /\ read # "none"
    /\ CASE read = "missing" -> End("apify_run_missing") /\ UNCHANGED since
         [] read = "SUCCEEDED" -> End("dataset") /\ UNCHANGED since
         [] read \in Finals \ {"SUCCEEDED"} -> End(read) /\ UNCHANGED since
         [] read \notin Finals \cup {"missing"} /\ now >= deadline ->
                End("apify_poll_timeout") /\ UNCHANGED since
         [] OTHER -> at' = "asleep" /\ since' = now /\ UNCHANGED outcome
    /\ UNCHANGED <<now, status, endedAt, how, read, deadline, cancelled, cancelledAt>>

\* A request that fails is caught by nobody in this file.
Throw ==
    /\ at = "asked" /\ End("throws")
    /\ UNCHANGED <<now, status, endedAt, how, since, read, deadline, cancelled, cancelledAt>>

\* sleep: the timer, or the abort that clears it.
SleptOut ==                                                         \* mutant
    now >= since + Poll
Rested ==
    now >= since + Poll \/ cancelled
Wake ==
    /\ at = "asleep" /\ Rested
    /\ at' = "check"
    /\ UNCHANGED <<now, status, endedAt, how, since, read, deadline, cancelled, cancelledAt, outcome>>

ApifyAbort ==
    /\ ~cancelled /\ at # "end" /\ cancelled' = TRUE /\ cancelledAt' = now
    /\ UNCHANGED <<now, status, endedAt, how, at, since, read, deadline, outcome>>

\* Time passes while nothing of this code is due.
Due ==
    \/ at \in {"start", "check"}
    \/ at = "asked" /\ now >= since + Latency
    \/ at = "asleep" /\ Rested
Tick ==
    /\ now < LastTime /\ ~Due /\ now' = now + 1
    /\ UNCHANGED <<status, endedAt, how, at, since, read, deadline, cancelled, cancelledAt, outcome>>

ApifyOwn == Start \/ Check \/ Looks \/ Reply \/ Wake
ApifyNext == ApifyOwn \/ Platform \/ Throw \/ ApifyAbort \/ Tick
Spec == ApifyInit /\ [][ApifyNext]_vars

-----------------------------------------------------------------------------
\* A run that has ended a latency before the deadline is never reported as
\* timed out, however the poll slept; nor is one that is known to have ended.
InTimeIsRead ==
    outcome = "apify_poll_timeout" =>
        /\ Ended => endedAt + Latency >= deadline
        /\ now >= deadline

\* The wait ends within a poll and two requests after the deadline, and
\* within the request in flight after an abort.
EndsInTime ==
    /\ at # "end" /\ at # "start" => now <= deadline + Poll + Latency
    /\ at # "end" /\ cancelled /\ at # "start" => now <= cancelledAt + Latency

\* An outcome is what the platform said, or what happened here.
OutcomeIsTold ==
    /\ outcome = "dataset" => status = "SUCCEEDED"
    /\ outcome \in Finals => status = outcome
    /\ outcome = "cancelled" => cancelled
PollIsDecided == InTimeIsRead /\ EndsInTime /\ OutcomeIsTold

------------------------------------------------------------------------------
(***************************************************************************)
(* What the sources make of what the other side says: of the failures of   *)
(* an API (source-api/src/errors.ts), of an actor's run (source-apify/src/ *)
(* apify-source.ts) and of an MCP server (source-mcp/src/mcp-source.ts),   *)
(* and of the schema a tool declares (source-mcp/src/schema-derive.ts).    *)
(***************************************************************************)

CONSTANT Second   \* clock units to a second

VARIABLES
    heard,   \* what the other side said, or declared
    said     \* what the source made of it; [type |-> "none"] before

Silent == [kind |-> "absent", n |-> 0]
\* Retry-After: a number of seconds, a date from now, or no such thing.
Headers == [kind : {"seconds", "date"}, n : {-1, 0, 1, 2}]
               \cup {Silent, [kind |-> "junk", n |-> 0]}

\* The statuses an API answers with, by their cause; 0 if there is no answer,
\* and 200 if the body of one is not JSON.
Statuses(cause) ==
    CASE cause = "denied" -> {401, 403}
      [] cause = "busy" -> {429}
      [] cause = "outage" -> {500, 502, 503}
      [] cause = "wrong" -> {400, 404, 422}
      [] cause = "unreachable" -> {0}
      [] cause = "garbled" -> {200}

-----------------------------------------------------------------------------
httpStatusByHundreds(code) ==                                     \* mutant
    CASE code \in 400..499 -> "validation"
      [] code >= 500 -> "transient"
      [] OTHER -> "network"
httpStatusToSourceError(code) ==
    CASE code \in {401, 403} -> "auth"
      [] code = 429 -> "rate_limited"
      [] code >= 500 -> "transient"
      [] OTHER -> "validation"

\* In clock units, or -1000 for undefined.
NoWait == -1000
parseRetryAfterInMs(header) ==                                      \* mutant
    IF header.kind = "seconds" THEN header.n ELSE NoWait
parseRetryAfter(header) ==
    CASE header.kind = "seconds" -> header.n * Second
      [] header.kind = "date" -> IF header.n > 0 THEN header.n ELSE 0
      [] OTHER -> NoWait

\* fetchPage: no answer and a body that is not JSON are errors of the network.
ApiError(h) ==
    [type |-> IF h.status \in {0, 200} THEN "network" ELSE httpStatusToSourceError(h.status),
     wait |-> IF h.status = 429 THEN parseRetryAfter(h.after) ELSE NoWait]

\* waitForRun: how it ended, or what prevented it.
runStatusToSourceError(code) ==
    CASE code \in {"FAILED", "TIMED-OUT"} -> "transient"
      [] code = "ABORTED" -> "unavailable"
      [] OTHER -> "unknown"
ApifyError(h) ==
    [type |-> CASE h.status = "not started" -> "network"
                [] h.status = "missing" -> "transient"
                [] h.status = "late" -> "timeout"
                [] h.status = "cancelled" -> "unavailable"
                [] OTHER -> runStatusToSourceError(h.status),
     wait |-> NoWait]

\* connectClient and callTool look for two phrases in the message of what was
\* thrown; a tool that says it failed, or says nothing, is no use asking again.
McpError(h) ==
    [type |-> CASE h.status \in {"timeout", "timed out"} -> "timeout"
                [] h.status \in {"isError", "no content"} -> "validation"
                [] OTHER -> "transient",
     wait |-> NoWait]

-----------------------------------------------------------------------------
(***************************************************************************)
(* A declared schema is a type, with the schemas of two properties if it   *)
(* is an object's, and what of JSON Schema it uses besides.                *)
(***************************************************************************)
Types == {"string", "number", "boolean", "integer", "array", "null", "object"}
Absent == [is |-> "absent"]
Leaves == {[is |-> x] : x \in {"s", "1", "1.5", "true", "null", "array"}}
Objects == [is : {"obj"}, a : Leaves \cup {Absent}, b : Leaves \cup {Absent}]

Declared == [type : Types \ {"object"}]
    \cup [type : {"object"}, a : Types, b : Types, ref : BOOLEAN, required : SUBSET {"a", "b"}]

\* What a type takes: as JSON Schema has it, and the derived schema, in which
\* "unknown" takes all.
TakesType(type, v) ==
    CASE type = "string" -> v.is = "s"
      [] type = "number" -> v.is \in {"1", "1.5"}
      [] type = "integer" -> v.is = "1"
      [] type = "boolean" -> v.is = "true"
      [] type = "null" -> v.is = "null"
      [] type = "array" -> v.is = "array"
      [] type = "object" -> v.is = "obj"
      [] type = "unknown" -> TRUE
Takes(s, v) ==
    /\ TakesType(s.type, v)
    /\ s.type = "object" =>
           \A k \in {"a", "b"} :
               IF v[k].is = "absent" THEN k \notin s.required
               ELSE TakesType(s[k], v[k])

DeriveLoosely(type) ==                                              \* mutant
    CASE type = "integer" -> "number"
      [] type \in {"string", "number", "boolean"} -> type
      [] OTHER -> "unknown"
DeriveType(type) ==
    IF type \in {"string", "number", "boolean", "integer"} THEN type ELSE "unknown"
\* An object in an object makes all of it unknown; all properties of others
\* are required, but zod takes a missing one whose type is unknown.
deriveZodFromJsonSchema(s) ==
    IF s.type # "object" THEN [type |-> DeriveType(s.type)]
    ELSE IF s.ref \/ "object" \in {s.a, s.b} THEN [type |-> "unknown"]
    ELSE [type |-> "object", a |-> DeriveType(s.a), b |-> DeriveType(s.b),
          required |-> {k \in {"a", "b"} : DeriveType(s[k]) # "unknown"}]

-----------------------------------------------------------------------------
AnswerInit ==
    /\ \/ \E c \in {"denied", "outage", "wrong", "unreachable", "garbled", "busy"} :
            \E s \in Statuses(c), after \in Headers :
                heard = [source |-> "api", cause |-> c, status |-> s, after |-> after]
       \/ \E s \in {"not started", "missing", "late", "cancelled", "FAILED", "TIMED-OUT", "ABORTED"} :
            heard = [source |-> "apify", status |-> s]
       \/ \E s \in {"timeout", "timed out", "refused", "denied", "isError", "no content"} :
            heard = [source |-> "mcp", status |-> s]
       \/ \E d \in Declared : heard = [source |-> "schema", declared |-> d]
    /\ said = [type |-> "none"]

AnswerNext ==
    /\ said.type = "none"
    /\ said' = CASE heard.source = "api" -> ApiError(heard)
                 [] heard.source = "apify" -> ApifyError(heard)
                 [] heard.source = "mcp" -> McpError(heard)
                 [] heard.source = "schema" -> deriveZodFromJsonSchema(heard.declared)
    /\ UNCHANGED heard

-----------------------------------------------------------------------------
\* RETRYABLE_ERROR_TYPES of core/src/errors/base.ts.
Retryable == {"rate_limited", "transient", "network", "timeout", "unavailable"}
Heard(source) == said.type # "none" /\ heard.source = source

\* A failure that asking again may heal is of a type that is retried, and one
\* of the request itself is not; where the API says when to ask again, that is
\* what the error says (errors.ts, apify-source.ts, mcp-source.ts).
FailuresAreClassed ==
    /\ Heard("api") =>
        /\ heard.cause \in {"busy", "outage", "unreachable"} => said.type \in Retryable
        /\ heard.cause \in {"denied", "wrong"} => said.type \notin Retryable
        /\ heard.cause = "busy" /\ heard.after.kind \in {"seconds", "date"} /\ heard.after.n >= 0 =>
               said.wait = heard.after.n * (IF heard.after.kind = "seconds" THEN Second ELSE 1)
    /\ Heard("apify") /\ heard.status # "cancelled" => said.type \in Retryable
    /\ Heard("mcp") => (said.type \in Retryable <=> heard.status \notin {"isError", "no content"})

\* The derived schema refuses no value that the declared one takes, if all
\* properties are required, and where it knows the type it takes no other
\* (deriveZodFromJsonSchema).
DerivedIsDeclared ==
    Heard("schema") =>
        LET d == heard.declared
            flat == d.type = "object" => ~d.ref /\ {d.a, d.b} \cap {"object", "array", "null"} = {}
        IN  \A v \in Leaves \cup Objects :
                /\ Takes(d, v) /\ (d.type = "object" => d.required = {"a", "b"}) => Takes(said, v)
                /\ Takes(said, v) /\ flat /\ said.type # "unknown" => Takes(d, v)

\* Not so: also if properties are optional, as they are in JSON Schema unless
\* "required" names them.
OptionalMayBeMissing ==
    Heard("schema") => \A v \in Leaves \cup Objects : Takes(heard.declared, v) => Takes(said, v)
\* Not so: an MCP server that refuses the credentials is not asked again.
DeniedIsFinal == Heard("mcp") /\ heard.status = "denied" => said.type \notin Retryable
==============================================================================
