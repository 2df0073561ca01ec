--------------------------- MODULE TriggerAdapters ---------------------------
(***************************************************************************)
(* The cron side of the local trigger adapter (packages/core/src/triggers/ *)
(* local-trigger-adapter.ts).  An interval starts a tick every second; a   *)
(* tick walks through the registrations, fires those that match its minute *)
(* and have not fired in it, and awaits each handler before it goes on.    *)
(* Nothing keeps the next tick from starting while a handler is awaited,   *)
(* and a tick keeps the minute it was started in.                          *)
(***************************************************************************)
EXTENDS Naturals, FiniteSets, FiniteSetsExt, Integers, Sequences, SequencesExt

CONSTANTS
    NRegs,      \* registrations, in the order they are made
    Matches,    \* [1..NRegs -> SUBSET Minutes]: the minutes that match
    LastMinute, \* bound on time
    Ticks,      \* bound: ticks that may be suspended at a time
    MaxStops    \* bound: calls of stop()

Minutes == 0..LastMinute
Regs == 1..NRegs

Never == LastMinute + 1

VARIABLES
    prompt,     \* handlers settle within the minute they were fired in
    minute,     \* the wall clock
    nregs,      \* _cronRegs.length
    lastFired,  \* lastFiredKey of each registration
    started,    \* _started
    running,    \* _schedulerInterval is set
    tick,       \* the suspended ticks: the minute of `now` and the handler awaited
    ticked,     \* a tick was started in this minute
    fired,      \* history: how often each registration fired for each minute
    watched,    \* history: registrations scheduled since the minute began
    stops

vars == <<prompt, minute, nregs, lastFired, started, running, tick, ticked, fired, watched, stops>>

Idle == [key |-> Never, at |-> 0]

TypeOK ==
    /\ prompt \in BOOLEAN
    /\ minute \in Minutes
    /\ nregs \in 0..NRegs
    /\ lastFired \in [Regs -> Minutes \cup {Never}]
    /\ started \in BOOLEAN /\ running \in BOOLEAN /\ (running => started)
    /\ tick \in [Ticks -> [key : Minutes, at : Regs] \cup {Idle}]
    /\ \A t \in Ticks : tick[t].at <= nregs
    /\ ticked \in BOOLEAN
    /\ fired \in [Regs \X Minutes -> Nat]
    /\ watched \subseteq 1..nregs
    /\ stops \in 0..MaxStops

Init ==
    /\ prompt \in BOOLEAN
    /\ minute = 0 /\ nregs = 0
    /\ lastFired = [r \in Regs |-> Never]
    /\ started = FALSE /\ running = FALSE
    /\ tick = [t \in Ticks |-> Idle] /\ ticked = FALSE
    /\ fired = [x \in Regs \X Minutes |-> 0]
    /\ watched = {} /\ stops = 0

-----------------------------------------------------------------------------
\* register, kind "cron".
Register ==
    /\ nregs < NRegs /\ nregs' = nregs + 1
    /\ running' = started
    /\ UNCHANGED <<prompt, minute, lastFired, started, tick, ticked, fired, watched, stops>>

Start ==
    /\ ~started /\ started' = TRUE
    /\ running' = (nregs > 0)
    /\ UNCHANGED <<prompt, minute, nregs, lastFired, tick, ticked, fired, watched, stops>>

StopLeavesInterval ==                                               \* mutant
    /\ started /\ started' = FALSE
    /\ stops < MaxStops /\ stops' = stops + 1
    /\ UNCHANGED <<prompt, minute, nregs, lastFired, running, tick, ticked, fired, watched>>
\* stop() clears the interval; ticks that are suspended are not told.
Stop ==
    /\ started /\ started' = FALSE /\ running' = FALSE
    /\ stops < MaxStops /\ stops' = stops + 1
    /\ watched' = {}
    /\ UNCHANGED <<prompt, minute, nregs, lastFired, tick, ticked, fired>>

DueUnmarked(k, from) == {r \in from..nregs : k \in Matches[r]}      \* mutant
\* The registrations a tick of minute k would fire, from one onwards.
Due(k, from) == {r \in from..nregs : lastFired[r] # k /\ k \in Matches[r]}

FireOnly(t, k, from) ==                                             \* mutant
    IF Due(k, from) = {} \/ from > 1
    THEN tick' = [tick EXCEPT ![t] = Idle] /\ UNCHANGED <<lastFired, fired>>
    ELSE LET r == Min(Due(k, from))
         IN  /\ tick' = [tick EXCEPT ![t] = [key |-> k, at |-> r]]
             /\ lastFired' = [lastFired EXCEPT ![r] = k]
             /\ fired' = [fired EXCEPT ![<<r, k>>] = @ + 1]
\* The loop runs on without an await up to the next handler it fires.
Proceed(t, k, from) ==
    IF Due(k, from) = {}
    THEN tick' = [tick EXCEPT ![t] = Idle] /\ UNCHANGED <<lastFired, fired>>
    ELSE LET r == Min(Due(k, from))
         IN  /\ tick' = [tick EXCEPT ![t] = [key |-> k, at |-> r]]
             /\ lastFired' = [lastFired EXCEPT ![r] = k]
             /\ fired' = [fired EXCEPT ![<<r, k>>] = @ + 1]

\* The interval fires: _schedulerTick starts.
Tick ==
    /\ running
    /\ ticked' = TRUE
    /\ \E t \in Ticks : tick[t] = Idle /\ Proceed(t, minute, 1)
    /\ UNCHANGED <<prompt, minute, nregs, started, running, watched, stops>>

\* An awaited handler settles; what it throws is swallowed.
HandlerSettles ==
    /\ \E t \in Ticks : tick[t] # Idle /\ Proceed(t, tick[t].key, tick[t].at + 1)
    /\ UNCHANGED <<prompt, minute, nregs, started, running, ticked, watched, stops>>

\* A minute passes; an interval of a second has ticked in it by then.
MinutePasses ==
    /\ minute < LastMinute /\ minute' = minute + 1
    /\ running => ticked
    /\ prompt => \A t \in Ticks : tick[t] = Idle
    /\ ticked' = FALSE
    /\ watched' = IF running THEN 1..nregs ELSE {}
    /\ UNCHANGED <<prompt, nregs, lastFired, started, running, tick, fired, stops>>

Next == Register \/ Start \/ Stop \/ Tick \/ HandlerSettles \/ MinutePasses

Spec == Init /\ [][Next]_vars

\* The interval fires, the clock runs and handlers settle.
FirstTick == ~ticked /\ Tick
FairSpec ==
    Spec /\ WF_vars(FirstTick) /\ WF_vars(HandlerSettles) /\ WF_vars(MinutePasses)

-----------------------------------------------------------------------------
(***************************************************************************)
(* Properties.                                                             *)
(***************************************************************************)
\* A handler fires at most once for a minute, however many ticks of the
\* minute overlap while handlers are awaited (local-trigger-adapter.ts
\* 349-351; local-trigger-adapter.test.ts:330: "At most one additional fire
\* per minute boundary").
AtMostOncePerMinute == \A r \in Regs, m \in Minutes : fired[r, m] <= 1

\* It is so as long as handlers settle within their minute, and always for the
\* first registration, which never waits for another one's handler.
PromptFiresAtMostOnce ==
    \A r \in Regs, m \in Minutes : prompt \/ r = 1 => fired[r, m] <= 1

\* A registration that was scheduled when a matching minute began fires for
\* that minute, however long the handlers before it take, unless the adapter
\* is stopped.
MinutesAreNotMissed ==
    \A r \in Regs, m \in Minutes :
        (minute = m /\ r \in watched /\ m \in Matches[r])
            ~> (fired[r, m] > 0 \/ ~started)

------------------------------------------------------------------------------
(***************************************************************************)
(* What the local trigger adapter lets through to handlers (packages/core/ *)
(* src/triggers/local-trigger-adapter.ts): which numbers a field of a cron *)
(* expression stands for, which registration a request of the webhook      *)
(* server reaches and how it is answered, and whom fire() calls.           *)
(* LocalTrigger has the server's life, the scheduler above the ticks.      *)
(***************************************************************************)

CONSTANTS
    Low, High,    \* the range of a field, 0-59 for minutes, 1-31 for days
    MaxStep,
    MaxParts,     \* bound: parts of a field, apart by commas
    Targets,      \* what triggers are registered for: <<kind, name>>
    MaxRegs,      \* bound: registrations
    MaxCalls      \* bound: requests and calls of fire

VARIABLES
    raw,       \* a field: its parts
    regs,      \* the registrations, in the order they are made
    up,        \* the process lives
    reached,   \* the registrations whose handler the last call reached
    answer,    \* what it was answered, what it was, and the registrations made by then
    calls

dispatchVars == <<raw, regs, up, reached, answer, calls>>

-----------------------------------------------------------------------------
(***************************************************************************)
(* Fields.  A part is one of three forms or something else: steps over the *)
(* whole range or over a part of it, a range, a number.                    *)
(***************************************************************************)
Numbers == (Low - 1)..(High + 1)
Parts ==
    [form : {"step"}, over : Numbers \X Numbers, by : 0..MaxStep]    \* */n is over <<Low, High>>
    \cup [form : {"range"}, over : Numbers \X Numbers]
    \cup [form : {"number"}, at : Numbers]
    \cup [form : {"other"}]

Wildcard == <<>>    \* the field "*"

Bad(p) ==
    \/ p.form = "other"
    \/ p.form = "step" /\ p.by = 0
    \/ p.form = "range" /\ p.over[1] > p.over[2]
    \/ p.form = "number" /\ p.at \notin Low..High

ValuesFromZero(p) ==                                                \* mutant
    IF p.form = "step" THEN {v \in p.over[1]..p.over[2] : v % p.by = 0}
    ELSE IF p.form = "range" THEN p.over[1]..p.over[2] ELSE {p.at}
Values(p) ==
    IF p.form = "step" THEN {v \in p.over[1]..p.over[2] : (v - p.over[1]) % p.by = 0}
    ELSE IF p.form = "range" THEN p.over[1]..p.over[2] ELSE {p.at}

\* null stands for any value.
parseField(field) ==
    IF field = Wildcard THEN [is |-> "null", values |-> {}]
    ELSE IF \E i \in DOMAIN field : Bad(field[i]) THEN [is |-> "thrown", values |-> {}]
    ELSE [is |-> "set", values |-> UNION {Values(field[i]) : i \in DOMAIN field}]
fieldMatches(field, v) == field.is = "null" \/ v \in field.values

-----------------------------------------------------------------------------
DispatchInit ==
    /\ raw \in BoundedSeq(Parts, MaxParts)
    /\ regs = <<>> /\ up = TRUE /\ reached = <<>>
    /\ answer = [op |-> "none"] /\ calls = 0

RegisterTrigger(target) ==
    /\ up /\ Len(regs) < MaxRegs
    /\ regs' = Append(regs, target)
    /\ UNCHANGED <<raw, up, reached, answer, calls>>

For(target) == {i \in DOMAIN regs : regs[i] = target}
\* In the order of their registration, each once.
InOrder(S) == {q \in SetToSeqs(S) : \A m, n \in DOMAIN q : m < n => q[m] < q[n]}

Called(a, handlers) ==
    /\ up /\ calls < MaxCalls /\ calls' = calls + 1
    /\ reached' = handlers /\ answer' = a
    /\ UNCHANGED <<raw, regs>>

Reply(path, method, json, s) ==
    [op |-> "request", path |-> path, method |-> method, json |-> json, status |-> s,
     made |-> Len(regs)]
RequestToAll(path, method, json) ==                                 \* mutant
    LET found == For(<<"webhook", path>>)
        A(s) == Reply(path, method, json, s)
    IN  /\ IF found = {} THEN Called(A(404), <<>>)
           ELSE IF method # "POST" THEN Called(A(405), <<>>)
           ELSE IF ~json THEN Called(A(400), <<>>)
           ELSE \E status \in {200, 500}, all \in InOrder(found) : Called(A(status), all)
        /\ UNCHANGED up
\* _handleRequest: the first registration of the path; its handler settles
\* or throws before the request is answered.
Request(path, method, json) ==
    LET found == For(<<"webhook", path>>)
        A(s) == Reply(path, method, json, s)
    IN  /\ IF found = {} THEN Called(A(404), <<>>)
           ELSE IF method # "POST" THEN Called(A(405), <<>>)
           ELSE IF ~json THEN Called(A(400), <<>>)
           ELSE \E status \in {200, 500} : Called(A(status), <<Min(found)>>)
        /\ UNCHANGED up

\* fire(): the emitter calls every listener and awaits none.  What one
\* rejects with is nobody's, and ends a Node process.
Fire(target) ==
    /\ target[1] # "webhook"
    /\ \E all \in InOrder(For(target)) :
           Called([op |-> "fire", target |-> target, made |-> Len(regs)], all)
    /\ \/ UNCHANGED up
       \/ For(target) # {} /\ up' = FALSE

DispatchNext ==
    \/ \E t \in Targets : RegisterTrigger(t) \/ Fire(t)
    \/ \E t \in Targets, method \in {"GET", "POST"}, json \in BOOLEAN :
           t[1] = "webhook" /\ Request(t[2], method, json)

-----------------------------------------------------------------------------
(* A field that is accepted matches a value of its range just when one of    *)
(* its parts covers it: as a number, between the ends of a range, or a whole *)
(* number of steps above the lower end; the order of the parts and what      *)
(* other parts say do not matter.                                            *)
Covers(p, v) ==
    \/ p.form = "number" /\ v = p.at
    \/ p.form = "range" /\ p.over[1] <= v /\ v <= p.over[2]
    \/ /\ p.form = "step"
       /\ \E n \in 0..(High + 1) : v = p.over[1] + n * p.by /\ v <= p.over[2]
FieldsAreMeant ==
    LET field == parseField(raw) IN
    field.is # "thrown" =>
        \A v \in Low..High : fieldMatches(field, v) <=>
            (raw = Wildcard \/ \E i \in DOMAIN raw : Covers(raw[i], v))

(* A request reaches a handler just when it is answered 200 or 500, and then *)
(* that of the registration of its path made first, and is answered 404 just *)
(* when there was none; an event reaches all that were registered by then    *)
(* for its kind and name, once each and in their order.                      *)
EachReachesItsOwn ==
    /\ (answer.op = "request") =>
           /\ (reached = <<>>) <=> (answer.status \in {400, 404, 405})
           /\ (answer.status = 404) <=>
                  (\A i \in 1..answer.made : regs[i] # <<"webhook", answer.path>>)
           /\ reached # <<>> => /\ Len(reached) = 1
                                /\ regs[reached[1]] = <<"webhook", answer.path>>
                                /\ \A i \in 1..(reached[1] - 1) : regs[i] # regs[reached[1]]
           /\ (answer.method = "POST" /\ answer.json /\ reached = <<>>) =>
                  answer.status = 404
    /\ (answer.op = "fire") =>
           /\ ToSet(reached) = {i \in 1..answer.made : regs[i] = answer.target}
           /\ \A i, j \in DOMAIN reached : i < j => reached[i] < reached[j]

DispatchIsTrue == FieldsAreMeant /\ EachReachesItsOwn

(* Not so: what parseField accepts can match (local-trigger-adapter.ts:54    *)
(* and 67 check no bounds, and a stepped range no order).                    *)
AcceptedCanMatch ==
    LET field == parseField(raw) IN
    field.is # "thrown" => \E v \in Low..High : fieldMatches(field, v)
(* Not so: what a handler throws is swallowed in dev mode (362), or answered.*)
HandlersCannotKill == up
==============================================================================
