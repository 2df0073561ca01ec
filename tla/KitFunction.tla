---------------------------- MODULE KitFunction ----------------------------
(***************************************************************************)
(* Which events start a function made with the Inngest adapter, when, and  *)
(* which of its runs overlap (packages/adapter-inngest/src/                *)
(* create-kit-function.ts, context-mapping.ts and inngest-trigger-         *)
(* adapter.ts).  The function is made by createKitFunction with a RunGuard *)
(* or by InngestTriggerAdapter.register.  Inngest itself is modelled from  *)
(* the configuration the adapter gives it: for Window after an event it    *)
(* drops those with its idempotency expression, it skips one whose         *)
(* singleton key is taken, and it queues the rest; a throttle delays their *)
(* begin, and concurrency counts the calls that execute, not the runs that *)
(* sleep or wait for an event.                                             *)
(***************************************************************************)
EXTENDS Naturals, Sequences, FiniteSets

CONSTANTS
    Makers,      \* "createKitFunction", "InngestTriggerAdapter"
    Guards,      \* RunGuards: limit (0 for none), overflow, dedup period (0 for none)
    Registered,  \* TriggerConfigs of functions: <<kind, name>>
    Triggers,    \* and those that events are sent for
    Keys,        \* dedupKeys of events, None among them
    Pipelines,   \* pipelineIds of events, None among them
    Window,      \* how long Inngest remembers an idempotency expression: 24 hours
    MaxEvents,   \* bound
    MaxCalls,    \* bound: calls of the function for one run
    MaxTime,     \* bound
    None

VARIABLES
    maker, guard, trigger,   \* of the function
    now,
    events,   \* those sent: what for, with which keys, and when
    state,    \* of each: "dropped", "queued", "running", "paused", "done"
    calls,    \* of each: how often the function was called for it
    began, ended    \* when its run did, if it did

vars == <<maker, guard, trigger, now, events, state, calls, began, ended>>

-----------------------------------------------------------------------------
mapTriggerConfig(t) ==
    CASE t[1] = "cron" -> <<"cron", t[2]>>
      [] t[1] = "webhook" -> <<"event", "webhook", t[2]>>
      [] t[1] = "event" -> <<"event">> \o t[2]        \* a name may have parts
      [] t[1] = "manual" -> <<"event", "manual", "trigger">>
      [] t[1] = "mcp" -> <<"event", "mcp", t[2]>>

FnConfig(singleton, concurrency, idempotency, throttle) ==
    [singleton |-> singleton, concurrency |-> concurrency,
     idempotency |-> idempotency, throttle |-> throttle]
buildConfigQueues(g) == FnConfig(FALSE, g.limit, TRUE, g.period)       \* mutant
buildConfigOnDedup(g) ==                                            \* mutant
    IF g.overflow = "reject" /\ g.limit # 0 THEN FnConfig(TRUE, 0, g.period # 0, g.period)
    ELSE FnConfig(FALSE, g.limit, g.period # 0, g.period)
buildConfigSkips(g) == FnConfig(g.limit = 1, g.limit, TRUE, g.period)  \* mutant
buildConfigUnthrottled(g) ==                                        \* mutant
    IF g.overflow = "reject" /\ g.limit # 0 THEN FnConfig(TRUE, 0, TRUE, 0)
    ELSE FnConfig(FALSE, g.limit, TRUE, 0)
\* Dedup becomes a throttle, which only delays; idempotency is always on, and
\* rateLimit is not looked at.
buildFunctionConfig(g) ==
    IF g.overflow = "reject" /\ g.limit # 0 THEN FnConfig(TRUE, 0, TRUE, g.period)
    ELSE FnConfig(FALSE, g.limit, TRUE, g.period)
Config ==
    IF maker = "createKitFunction" THEN buildFunctionConfig(guard)
    ELSE FnConfig(FALSE, 0, FALSE, 0)

-----------------------------------------------------------------------------
Init ==
    /\ maker \in Makers /\ guard \in Guards /\ trigger \in Registered
    /\ now = 0 /\ events = <<>> /\ state = <<>> /\ calls = <<>>
    /\ began = <<>> /\ ended = <<>>

InState(s) == {i \in DOMAIN events : state[i] = s}
UnderWay == InState("queued") \cup InState("running") \cup InState("paused")
Seen(key) == \E i \in DOMAIN events :
    state[i] # "dropped" /\ events[i].key = key /\ now < events[i].at + Window
Taken(p) == \E i \in UnderWay : events[i].pipeline = p

Send(for, key, pipeline) ==
    /\ Len(events) < MaxEvents
    /\ events' = Append(events, [for |-> for, key |-> key, pipeline |-> pipeline, at |-> now])
    /\ calls' = Append(calls, 0) /\ began' = Append(began, now) /\ ended' = Append(ended, now)
    /\ state' = Append(state,
         IF \/ mapTriggerConfig(for) # mapTriggerConfig(trigger)
            \/ Config.idempotency /\ key # None /\ Seen(key)
            \/ Config.singleton /\ Taken(pipeline)
         THEN "dropped" ELSE "queued")
    /\ UNCHANGED <<maker, guard, trigger, now>>

\* A call may execute.
Slot == Config.concurrency # 0 => Cardinality(InState("running")) < Config.concurrency
Begun == {i \in DOMAIN events : calls[i] # 0}
Throttled(key) == \E i \in Begun : events[i].key = key /\ now < began[i] + Config.throttle

Begin(i) ==
    /\ state[i] = "queued" /\ Slot
    /\ events[i].key # None => ~Throttled(events[i].key)
    /\ state' = [state EXCEPT ![i] = "running"]
    /\ calls' = [calls EXCEPT ![i] = 1] /\ began' = [began EXCEPT ![i] = now]
    /\ UNCHANGED <<maker, guard, trigger, now, events, ended>>

\* A call has ended and the run has not: it sleeps, waits for an event, a child
\* or its next attempt, or for its next step's turn.
Pause(i) ==
    /\ state[i] = "running" /\ calls[i] < MaxCalls
    /\ state' = [state EXCEPT ![i] = "paused"]
    /\ UNCHANGED <<maker, guard, trigger, now, events, calls, began, ended>>

\* The function is called again, from its start.
Resume(i) ==
    /\ state[i] = "paused" /\ Slot
    /\ state' = [state EXCEPT ![i] = "running"] /\ calls' = [calls EXCEPT ![i] = @ + 1]
    /\ UNCHANGED <<maker, guard, trigger, now, events, began, ended>>

End(i) ==
    /\ state[i] = "running" /\ state' = [state EXCEPT ![i] = "done"]
    /\ ended' = [ended EXCEPT ![i] = now]
    /\ UNCHANGED <<maker, guard, trigger, now, events, calls, began>>

Tick ==
    /\ now < MaxTime /\ now' = now + 1
    /\ UNCHANGED <<maker, guard, trigger, events, state, calls, began, ended>>

Next ==
    \/ \E t \in Triggers, k \in Keys, p \in Pipelines : Send(t, k, p)
    \/ \E i \in DOMAIN events : Begin(i) \/ Pause(i) \/ Resume(i) \/ End(i)
    \/ Tick

-----------------------------------------------------------------------------
\* What a call is told: a runId made on the spot, or an envelope with the event's id.
RunId(i, call) == IF maker = "createKitFunction" THEN <<i, call>> ELSE <<i, 0>>

\* kitFanOut's children, event.data.traceparent, or neither.
Carriers == {"envelope", "flat", "none"}
\* mapInngestContext takes the trace from the envelope, or from the event's
\* own traceparent; the payload it unwraps is not what the handler gets.
mapInngestContext(by) ==
    [trace |-> CASE by = "envelope" -> "parent" [] by = "flat" -> "flat" [] OTHER -> "root",
     data |-> IF by = "envelope" THEN "wrapped" ELSE "event"]

-----------------------------------------------------------------------------
Kit == maker = "createKitFunction"
Rejects == Kit /\ guard.limit # 0 /\ guard.overflow = "reject"
Kept == {i \in DOMAIN events : state[i] # "dropped"}

(* Runs of one dedupKey come from events a Window apart and, where the guard *)
(* has a dedup period, begin a period apart (create-kit-function.ts 142-151).*)
KeyIsSpaced ==
    Kit => \A i, j \in Kept :
        (i < j /\ events[i].key = events[j].key /\ events[i].key # None) =>
            /\ events[i].at + Window <= events[j].at
            /\ (calls[i] # 0 /\ calls[j] # 0) =>
                  \/ began[i] + guard.period <= began[j]
                  \/ began[j] + guard.period <= began[i]

(* Where the guard rejects, whatever its limit, the runs of one pipelineId   *)
(* do not overlap, from the event of the later to the end of the earlier:    *)
(* not while they wait for a slot, sleep or are tried again (133-136).       *)
PipelineIsAlone ==
    Rejects => \A i, j \in Kept :
        (i < j /\ events[i].pipeline = events[j].pipeline) =>
            state[i] = "done" /\ ended[i] <= events[j].at

(* An event is dropped for a reason: it is for another trigger, or one with  *)
(* its dedupKey was kept within the Window before it or, where the guard     *)
(* rejects, one with its pipelineId had not ended; no limit and no period    *)
(* drops any, nor does the trigger adapter (spec-v1-runtime.md:231).         *)
DroppedForAReason ==
    \A i \in InState("dropped") :
        \/ events[i].for # trigger
        \/ Kit /\ events[i].key # None
           /\ \E j \in Kept : /\ j < i /\ events[j].key = events[i].key
                              /\ events[i].at < events[j].at + Window
        \/ Rejects
           /\ \E j \in Kept : /\ j < i /\ events[j].pipeline = events[i].pipeline
                              /\ state[j] = "done" => events[i].at <= ended[j]

FunctionIsGuarded == KeyIsSpaced /\ PipelineIsAlone /\ DroppedForAReason

(* Not so: "true singleton, skip overlapping" (create-kit-function.ts:114).  *)
(* The key is the event's, and events of one function may differ in it.      *)
SingletonIsSingle == Rejects => Cardinality(InState("running")) <= 1
(* Not so: "Sequential singleton -- never skips. Second trigger waits."      *)
(* (adapter-inngest/README.md:127).  It waits for a call, not for the run.   *)
RunsAreSequential ==
    (Kit /\ guard.limit = 1 /\ guard.overflow = "queue") =>
        Cardinality(InState("running") \cup InState("paused")) <= 1
(* Not so: "Dedup window. Period is forwarded." (README.md:129).  Events are *)
(* dropped for Inngest's Window, with a shorter period too...                *)
PeriodIsWindow ==
    (Kit /\ guard.period # 0 /\ ~Rejects) => \A i \in InState("dropped") :
        \/ events[i].for # trigger
        \/ \E j \in Kept : /\ j < i /\ events[j].key = events[i].key
                           /\ events[i].at < events[j].at + guard.period
(* ... and not beyond it, with a longer: the throttle delays the second run. *)
DedupHoldsForPeriod ==
    Kit => \A i, j \in Kept :
        (i < j /\ events[i].key = events[j].key /\ events[i].key # None) =>
            events[i].at + guard.period <= events[j].at
(* Not so: "child handlers see the original item shape" (context-mapping     *)
(* 56-57).                                                                   *)
ChildSeesItem == \A by \in Carriers : mapInngestContext(by).data # "wrapped"
(* Not so: a run keeps its runId when it is called again.                    *)
RunKeepsItsId == \A i \in Begun : RunId(i, calls[i]) = RunId(i, 1)
(* Not so: an event only starts the functions of its own trigger.            *)
EventsAreApart == \A i \in Begun : events[i].for = trigger
=============================================================================
