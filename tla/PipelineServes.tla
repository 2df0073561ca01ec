--------------------------- MODULE PipelineServes ----------------------------
(***************************************************************************)
(* From one pipeline into another: emits of serve-webhook/src/             *)
(* webhook-serve.ts, tried again by withRetry, arrive at the route of      *)
(* source-webhook/src/webhook-source.ts, which verifies them and puts them *)
(* into its queue.  Requests and answers take time and may be lost.        *)
(***************************************************************************)
EXTENDS Naturals, Sequences, FiniteSets

CONSTANTS
    Emits,        \* each has an idempotency key of its own
    MaxAttempts,  \* of the retry policy
    Backoff,      \* before the next try
    Tolerance,    \* of the source, for the time of a signature
    Latency,      \* what a request takes, at most
    LastTime      \* bound: clock

VARIABLES
    setup,    \* how serve and source are configured against each other
    now,
    stage,    \* of an emit: "emit", "sent", "answered", "backoff", "done"
    since,    \* when it came to that
    tries,
    request,  \* the request on its way, or the answer to it
    queue,    \* items of the source
    result,   \* of an emit: "none" before, "ok", or the type of the error
    lost      \* history: answers that did not arrive

vars == <<setup, now, stage, since, tries, request, queue, result, lost>>

\* The source takes signatures only, in the header it is told and with the
\* one secret it has; the key is read from a header only if one is named.
Setups == [auth : {"hmac", "bearer", "none"}, sameSecret : BOOLEAN, sameHeader : BOOLEAN,
           keyHeader : {"same", "other", "unset"}]
Verifiable == setup.auth = "hmac" /\ setup.sameSecret /\ setup.sameHeader

Init ==
    /\ setup \in {s \in Setups : s.auth # "hmac" => ~s.sameSecret /\ ~s.sameHeader}
    /\ now = 0 /\ stage = [e \in Emits |-> "emit"] /\ since = [e \in Emits |-> 0]
    /\ tries = [e \in Emits |-> 0] /\ request = [e \in Emits |-> <<>>]
    /\ queue = <<>> /\ result = [e \in Emits |-> "none"] /\ lost = [e \in Emits |-> 0]

Goes(e, to) == stage' = [stage EXCEPT ![e] = to] /\ since' = [since EXCEPT ![e] = now]

SignedAtFirst(e) == 0                                               \* mutant
\* Each try signs the body anew.
SignedAt(e) == now
Emit(e) ==
    /\ stage[e] = "emit"
    /\ tries' = [tries EXCEPT ![e] = @ + 1]
    /\ request' = [request EXCEPT ![e] = <<[key |-> e, t |-> SignedAt(e)]>>]
    /\ Goes(e, "sent")
    /\ UNCHANGED <<setup, now, queue, result, lost>>

\* A signature is looked for in the named header only, and in time only.
Status(r) ==
    IF Verifiable /\ now - r.t <= Tolerance THEN 200 ELSE 400
ItemWithoutKey(r) == [emit |-> r.key, key |-> "none"]               \* mutant
Item(r) == [emit |-> r.key, key |-> IF setup.keyHeader = "same" THEN r.key ELSE "none"]
\* The answer says 200 only when the item is in the queue.
Receive(e) ==
    /\ stage[e] = "sent"
    /\ LET r == request[e][1]  s == Status(r)
       IN  /\ queue' = IF s = 200 THEN Append(queue, Item(r)) ELSE queue
           /\ request' = [request EXCEPT ![e] = <<s>>]
    /\ Goes(e, "answered")
    /\ UNCHANGED <<setup, now, tries, result, lost>>

\* 4xx is a validation error, which is final.
Answer(e) ==
    /\ stage[e] = "answered"
    /\ result' = [result EXCEPT ![e] = IF request[e] = <<200>> THEN "ok" ELSE "validation"]
    /\ Goes(e, "done")
    /\ UNCHANGED <<setup, now, tries, request, queue, lost>>

\* fetch throws: a network error, which is tried again.
Lose(e) ==
    /\ stage[e] \in {"sent", "answered"}
    /\ lost' = [lost EXCEPT ![e] = IF stage[e] = "answered" THEN @ + 1 ELSE @]
    /\ IF tries[e] < MaxAttempts THEN Goes(e, "backoff") /\ UNCHANGED result
       ELSE Goes(e, "done") /\ result' = [result EXCEPT ![e] = "network"]
    /\ UNCHANGED <<setup, now, tries, request, queue>>

BackoffEnds(e) ==
    /\ stage[e] = "backoff" /\ now >= since[e] + Backoff
    /\ Goes(e, "emit")
    /\ UNCHANGED <<setup, now, tries, request, queue, result, lost>>

\* Time passes while nothing is due.
Due(e) == stage[e] = "emit" \/ (stage[e] = "sent" /\ now >= since[e] + Latency)
Tick ==
    /\ now < LastTime /\ ~\E e \in Emits : Due(e)
    /\ now' = now + 1
    /\ UNCHANGED <<setup, stage, since, tries, request, queue, result, lost>>

Next ==
    \/ \E e \in Emits : Emit(e) \/ Receive(e) \/ Answer(e) \/ Lose(e) \/ BackoffEnds(e)
    \/ Tick
Spec == Init /\ [][Next]_vars

-----------------------------------------------------------------------------
Copies(e) == {n \in DOMAIN queue : queue[n].emit = e}

\* An emit that returned ok has put an item into the source; each lost answer
\* has put at most one more; the copies of one emit, and no other items, have
\* one key if both ends name one header; and a try is never refused as too
\* old, however late it is made (webhook-serve.ts, webhook-source.ts).
RelayIsSound ==
    /\ \A e \in Emits :
        /\ result[e] = "ok" => Copies(e) # {}
        /\ Cardinality(Copies(e)) <= (IF result[e] = "ok" \/ stage[e] = "answered" THEN 1 ELSE 0)
                                     + lost[e]
        /\ Verifiable => result[e] # "validation"
    /\ setup.keyHeader = "same" =>
        \A m, n \in DOMAIN queue : queue[m].key = queue[n].key <=> queue[m].emit = queue[n].emit

\* Not so: an emit is one item of the source, as its key is not looked at.
EmitIsOneItem == \A e \in Emits : Cardinality(Copies(e)) <= 1

------------------------------------------------------------------------------
(***************************************************************************)
(* A pipeline served as an MCP tool (serve-mcp/src/mcp-tool-serve.ts): the *)
(* tool's handler, called by a client, and its emit, called by the run of  *)
(* another pipeline, each run the inner pipeline and answer for it.        *)
(***************************************************************************)

CONSTANT MaxSteps   \* steps of the inner pipeline

VARIABLES
    by,         \* "handler" or "emit"
    argument,   \* "valid", or "invalid" to the input schema
    phase,      \* "called", "running", "done"
    steps,      \* steps of the inner run begun
    inner,      \* how the inner run ended: "none" before
    left,       \* the caller's signal fired, or the client went away
    late,       \* history: steps begun after that
    reply       \* what the call returned: [kind |-> "none"] before

toolVars == <<by, argument, phase, steps, inner, left, late, reply>>

\* How a run ends well: with data that JSON has, that it has not (a BigInt),
\* or that the tool's output schema would refuse.
Goods == {"json", "odd", "unlike"}
\* How it fails: with a message, or an empty one.
Bads == {"says", "silent", "cancelled"}

ToolInit ==
    /\ by \in {"handler", "emit"} /\ argument \in {"valid", "invalid"}
    /\ phase = "called" /\ steps = 0 /\ inner = "none" /\ left = FALSE /\ late = 0
    /\ reply = [kind |-> "none"]

SignalNone == FALSE                                                 \* mutant
\* The inner run has the signal of an emit's caller; a handler makes one of
\* its own, which nobody fires.
Signal == by = "emit" /\ left

\* What the composer of the inner run does with the signal: no step begins
\* after it, and the run is cancelled.
Step ==
    /\ phase = "running" /\ steps < MaxSteps /\ ~Signal
    /\ steps' = steps + 1 /\ late' = IF left THEN late + 1 ELSE late
    /\ UNCHANGED <<by, argument, phase, inner, left, reply>>

AnswerHides(outcome) ==                                             \* mutant
    IF by = "emit" /\ outcome \in Goods THEN [kind |-> "ok"]
    ELSE [kind |-> "content", isError |-> outcome = "invalid",
          text |-> IF outcome \in Bads \cup {"invalid"} THEN "message" ELSE outcome]
\* emit answers a Result, whose errors are of type unknown unless the input
\* is invalid; the handler content, which is String(data) if JSON has no text
\* for it.
ToolAnswer(outcome) ==
    IF by = "emit"
    THEN CASE outcome \in Goods -> [kind |-> "ok"]
           [] outcome = "invalid" -> [kind |-> "error", type |-> "validation"]
           [] outcome \in Bads -> [kind |-> "error", type |-> "unknown"]
    ELSE [kind |-> "content", isError |-> outcome \notin Goods,
          text |-> CASE outcome \in {"json", "unlike"} -> outcome
                     [] outcome = "odd" -> "String(data)"
                     [] OTHER -> "message"]

Call ==
    /\ phase = "called"
    /\ IF argument = "invalid" THEN phase' = "done" /\ reply' = ToolAnswer("invalid")
       ELSE phase' = "running" /\ UNCHANGED reply
    /\ UNCHANGED <<by, argument, steps, inner, left, late>>

RunEnds ==
    /\ phase = "running"
    /\ inner' \in (Bads \ {"cancelled"}) \cup (IF Signal THEN {"cancelled"} ELSE {})
                  \cup (IF steps = MaxSteps THEN Goods ELSE {})
    /\ phase' = "done" /\ reply' = ToolAnswer(inner')
    /\ UNCHANGED <<by, argument, steps, left, late>>

Leave ==
    /\ ~left /\ phase = "running" /\ left' = TRUE
    /\ UNCHANGED <<by, argument, phase, steps, inner, late, reply>>

ToolNext == Call \/ Step \/ RunEnds \/ Leave
ToolSpec == ToolInit /\ [][ToolNext]_vars

-----------------------------------------------------------------------------
\* A call reports success exactly when the inner run ended well, runs nothing
\* for invalid input, and an emit whose caller was aborted begins no further
\* step of the inner pipeline (handler, emit).
ToolIsTrue ==
    /\ argument = "invalid" => steps = 0 /\ inner = "none"
    /\ phase = "done" =>
        (inner \in Goods <=> reply.kind = "ok" \/ (reply.kind = "content" /\ ~reply.isError))
    /\ by = "emit" => late = 0

\* Not so: a client that goes away stops the run it began.
LeavingStops == late = 0
\* Not so: an aborted emit says that it was cancelled.
CancelledIsSaid ==
    inner = "cancelled" /\ by = "emit" /\ phase = "done" => reply.type # "unknown"
\* Not so: what a tool answers is as its output schema has it.
AnswersAreOfSchema ==
    reply.kind = "content" /\ ~reply.isError => reply.text = "json"
==============================================================================
