--------------------------- MODULE MCLocalTrigger ---------------------------
(***************************************************************************)
(* Instances of LocalTrigger and TriggerAdapters for TLC.                  *)
(* The parts of the adapter are explored one at a time: a behaviour is one *)
(* of the lifecycle, of the scheduler or of what is dispatched to whom.    *)
(***************************************************************************)
EXTENDS LocalTrigger

CONSTANTS
    NRegs, Matches, LastMinute, Ticks, MaxStops,
    Low, High, MaxStep, MaxParts, Targets, RegsOfAll, MaxCalls  \* TriggerAdapters

VARIABLES
    part,   \* which of them the behaviour is about
    prompt, minute, nregs, lastFired, scheduled, running, tick, ticked, fired, watched, stops,
    raw, regs, up, reached, answer, calls

ASSUME SchedulerAssumption == NRegs \in Nat /\ LastMinute \in Nat /\ MaxStops \in Nat
ASSUME FieldAssumption == Low \in Nat /\ High \in Nat /\ MaxStep \in Nat

Adapters == INSTANCE TriggerAdapters WITH started <- scheduled, MaxRegs <- RegsOfAll

cronVars == <<prompt, minute, nregs, lastFired, scheduled, running, tick, ticked,
              fired, watched, stops>>

SecondSkipsOne == [r \in 1..3 |-> IF r = 2 THEN {0, 2} ELSE 0..2]
EveryMinute == [r \in 1..2 |-> 0..1]

dispatchVars == <<raw, regs, up, reached, answer, calls>>
HooksAndEvents == {<<"webhook", "/a">>, <<"webhook", "/b">>, <<"event", "e">>, <<"mcp", "e">>}

MCInit ==
    /\ part \in {"lifecycle", "scheduler", "fields", "dispatch"}
    /\ Init
    /\ IF part = "scheduler" THEN TRUE ELSE prompt = TRUE
    /\ Adapters!Init
    /\ IF part = "fields" THEN TRUE ELSE raw = Adapters!Wildcard
    /\ Adapters!DispatchInit

MCNext ==
    /\ \/ part = "lifecycle" /\ Next /\ UNCHANGED <<cronVars, dispatchVars>>
       \/ part = "scheduler" /\ Adapters!Next /\ UNCHANGED <<vars, dispatchVars>>
       \/ part = "dispatch" /\ Adapters!DispatchNext /\ UNCHANGED <<vars, cronVars>>
    /\ UNCHANGED part

\* The scheduler's fairness is asked of the behaviours that are about it.
Scheduler(A) == part = "scheduler" /\ A /\ UNCHANGED <<part, vars, dispatchVars>>
MCSpec ==
    /\ MCInit /\ [][MCNext]_<<part, vars, cronVars, dispatchVars>>
    /\ Fairness
    /\ WF_cronVars(Scheduler(Adapters!FirstTick))
    /\ WF_cronVars(Scheduler(Adapters!HandlerSettles))
    /\ WF_cronVars(Scheduler(Adapters!MinutePasses))

\* What is registered is served, what is stopped leaves nothing behind, and a
\* handler that settles within its minute fires once in it.
AdapterIsSound ==
    /\ TypeOK /\ Adapters!TypeOK
    /\ StoppedIsClean /\ StartedServes /\ Adapters!PromptFiresAtMostOnce

\* TriggerAdapters: a cron field means what it says, and a request and an event
\* reach the registrations that are theirs.
TriggersFireAsMeant == Adapters!DispatchIsTrue

\* stop() returns, and no matching minute is missed.
StopsAndFires == StopReturns /\ (part = "scheduler" => Adapters!MinutesAreNotMissed)

AtMostOncePerMinute == Adapters!AtMostOncePerMinute
AcceptedCanMatch == Adapters!AcceptedCanMatch
HandlersCannotKill == Adapters!HandlersCannotKill
=============================================================================
