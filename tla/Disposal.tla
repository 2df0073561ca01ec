------------------------------ MODULE Disposal -------------------------------
(***************************************************************************)
(* createDisposableRegistry (core/src/disposable.ts): teardowns are        *)
(* registered, and disposeAll runs them one after the other, the last      *)
(* registered first, each against a timeout.  A teardown may settle in     *)
(* time, late or never; one that missed its timeout goes on beside those   *)
(* that follow it.                                                         *)
(***************************************************************************)
EXTENDS Naturals, Sequences, SequencesExt

CONSTANTS
    MaxEntries,  \* bound: calls of register
    None

VARIABLES
    entries,     \* how many teardowns are registered
    phase,       \* of disposeAll: "before", "next", "race", "returned"
    at,          \* i, the entry disposeAll is at
    torn,        \* the state of each teardown: None, "running", "ok", "failed"
    timedOut,    \* of the entry at hand
    report,      \* what each entry was reported as: None, "error", "timeout"
    from         \* history: how many were registered when disposeAll began

vars == <<entries, phase, at, torn, timedOut, report, from>>

Entries == 1..MaxEntries

TypeOK ==
    /\ entries \in 0..MaxEntries
    /\ phase \in {"before", "next", "race", "returned"}
    /\ at \in 0..MaxEntries
    /\ torn \in [Entries -> {None, "running", "ok", "failed"}]
    /\ timedOut \in BOOLEAN
    /\ report \in [Entries -> {None, "error", "timeout"}]
    /\ from \in 0..MaxEntries

Init ==
    /\ entries = 0 /\ from = 0 /\ phase = "before" /\ at = 0
    /\ torn = [e \in Entries |-> None]
    /\ timedOut = FALSE
    /\ report = [e \in Entries |-> None]

\* register, before disposeAll or while it runs.
register ==
    /\ entries < MaxEntries /\ entries' = entries + 1
    /\ UNCHANGED <<phase, at, torn, timedOut, report, from>>

disposeAll ==
    /\ phase = "before" /\ phase' = "next" /\ at' = entries /\ from' = entries
    /\ UNCHANGED <<entries, torn, timedOut, report>>

BeginFirst ==                                                           \* mutant
    /\ phase = "next" /\ at > 0
    /\ timedOut' = FALSE
    /\ \/ /\ torn' = [torn EXCEPT ![from + 1 - at] = "running"] /\ phase' = "race"
          /\ UNCHANGED <<at, report>>
       \/ /\ torn' = [torn EXCEPT ![from + 1 - at] = "failed"]
          /\ report' = [report EXCEPT ![from + 1 - at] = "error"]
          /\ at' = at - 1 /\ UNCHANGED phase
    /\ UNCHANGED <<entries, from>>
\* The loop's next turn calls a teardown, which may throw at once.
Begin ==
    /\ phase = "next" /\ at > 0
    /\ timedOut' = FALSE
    /\ \/ /\ torn' = [torn EXCEPT ![at] = "running"] /\ phase' = "race"
          /\ UNCHANGED <<at, report>>
       \/ /\ torn' = [torn EXCEPT ![at] = "failed"]
          /\ report' = [report EXCEPT ![at] = "error"]
          /\ at' = at - 1 /\ UNCHANGED phase
    /\ UNCHANGED <<entries, from>>

\* A teardown settles, whether disposeAll still waits for it or not.
Settle(e) ==
    /\ torn[e] = "running"
    /\ \E res \in {"ok", "failed"} : torn' = [torn EXCEPT ![e] = res]
    /\ UNCHANGED <<entries, phase, at, timedOut, report, from>>

Timeout ==
    /\ phase = "race" /\ torn[at] = "running" /\ timedOut' = TRUE
    /\ UNCHANGED <<entries, phase, at, torn, report, from>>

AwaitTeardown ==                                                        \* mutant
    /\ phase = "race" /\ torn[at] # "running"
    /\ report' = [report EXCEPT ![at] = IF timedOut THEN "timeout"
                                        ELSE IF torn[at] = "failed" THEN "error" ELSE None]
    /\ phase' = "next" /\ at' = at - 1
    /\ UNCHANGED <<entries, torn, timedOut, from>>
RaceStopsAtError ==                                                     \* mutant
    /\ phase = "race" /\ (timedOut \/ torn[at] # "running")
    /\ report' = [report EXCEPT ![at] = IF timedOut THEN "timeout"
                                        ELSE IF torn[at] = "failed" THEN "error" ELSE None]
    /\ phase' = IF report'[at] = "error" THEN "returned" ELSE "next"
    /\ at' = at - 1
    /\ UNCHANGED <<entries, torn, timedOut, from>>
\* Promise.race is decided; what failed is reported and the loop goes on.
RaceEnds ==
    /\ phase = "race" /\ (timedOut \/ torn[at] # "running")
    /\ report' = [report EXCEPT ![at] = IF timedOut THEN "timeout"
                                        ELSE IF torn[at] = "failed" THEN "error" ELSE None]
    /\ phase' = "next" /\ at' = at - 1
    /\ UNCHANGED <<entries, torn, timedOut, from>>

Return ==
    /\ phase = "next" /\ at = 0 /\ phase' = "returned"
    /\ UNCHANGED <<entries, at, torn, timedOut, report, from>>

Next ==
    \/ register \/ disposeAll \/ Begin \/ Timeout \/ RaceEnds \/ Return
    \/ \E e \in Entries : Settle(e)

\* Timers fire and disposeAll goes on; a teardown need not settle.
Fairness == WF_vars(Begin) /\ WF_vars(Timeout) /\ WF_vars(RaceEnds) /\ WF_vars(Return)

-----------------------------------------------------------------------------
\* A teardown begins after everything registered after it has been torn down,
\* or has been given up and reported as timed out.
DisposedInReverse ==
    \A e \in 1..from : torn[e] # None =>
        \A f \in (e + 1)..from : torn[f] \in {"ok", "failed"} \/ report[f] = "timeout"

\* When disposeAll has returned, nothing that was registered before it began
\* was passed over, and what is not torn down was reported.
NothingIsPassedOver ==
    phase = "returned" => \A e \in 1..from : torn[e] = "ok" \/ report[e] # None

\* disposeAll returns, whatever the teardowns do.
DisposeReturns == phase = "next" ~> phase = "returned"

------------------------------------------------------------------------------
(***************************************************************************)
(* Who closes what a run has opened: the designs that the probes under     *)
(* research/spikes compare, of which core/src/disposable.ts (Disposal) is  *)
(* the one chosen.                                                         *)
(*   alpha     close on every adapter's contract                           *)
(*   beta      adapters that have a close are found among the deps         *)
(*   gamma     factories register a teardown with a registry               *)
(*   registry  as gamma, with a timeout (option A)                         *)
(*   timed     as registry, in the probe of aborts during the cleanup      *)
(*   deps      as beta, with a timeout (option B)                          *)
(*   self      the user's own finally (option C)                           *)
(*   heeding   a cleanup that heeds the run's signal (rejected)            *)
(***************************************************************************)

CONSTANT MaxTicks   \* bound: times the trigger fires

VARIABLES
    design,
    pc,         \* of the run: "build", "begin", "writing", "secret", "working",
                \* then of its cleanup: "finally", "closing", then "returned"
    signal,     \* the run's signal was fired
    write,      \* of the memory: "none", "running", "settled"
    errorCode,  \* what the run ended with: "none", "aborted", "unavailable", "failed"
    turns,      \* the closes that are still to be made, in order
    state,      \* of an adapter: "open", "closing", "closed", "failed"
    errors,     \* the adapters whose close is reported to have failed
    disposed,   \* those it is reported to have closed
    warned,     \* those onTimeout was called for
    timers,     \* timers of onTimeout that are still set
    ticks,      \* times the trigger fired
    calls,      \* history: the closes made, in order
    stale,      \* history: a tick came when the memory was closed
    cut         \* history: the memory was closed under a running write

run == <<design, signal, write, errorCode>>
cleanup == <<turns, errors, disposed, warned, timers, calls>>
designVars == <<pc, run, cleanup, state, ticks, stale, cut>>

Cells   == {"alpha", "beta", "gamma"}
Options == {"registry", "deps", "self"}
Probes  == {"timed", "heeding"}
Adapters == {"memory", "secrets", "trigger"}
\* A close that hangs is given up after timeoutMs.
Timed == {"registry", "timed", "deps"}

\* isDisposable: only these have a close; alpha has every adapter stub one.
Disposables == {"memory", "trigger"}
isDisposableAny(a) == a \in Adapters                                \* mutant
isDisposable(a) == a \in Disposables

WalksDeps == design \in {"beta", "deps"}
\* What each design walks, in its order.  alpha: the two, by hand.
CloseAlpha == <<"memory", "secrets">>
\* beta: the deps, of which those without a close are passed over.
CloseBeta == <<"memory", "secrets">>
\* gamma: what the factories registered, from the last to the first.
RegisteredGamma == <<"memory">>
CloseGamma == Reverse(RegisteredGamma)
CloseFifo == <<"memory", "trigger">>                                \* mutant
CloseRegistry == Reverse(<<"memory", "trigger">>)
CloseDeps == <<"memory", "secrets", "trigger">>
CloseSelf == <<"memory", "trigger">>
\* The scenarios of the probe register the two in either order.
CloseTimed == {Reverse(<<"memory", "trigger">>), Reverse(<<"trigger", "memory">>)}
CloseHeeding == <<"trigger", "memory">>
Turns ==
    CASE design = "alpha" -> {CloseAlpha}       [] design = "beta" -> {CloseBeta}
      [] design = "gamma" -> {CloseGamma}       [] design = "registry" -> {CloseRegistry}
      [] design = "deps" -> {CloseDeps}         [] design = "self" -> {CloseSelf}
      [] design = "timed" -> CloseTimed         [] design = "heeding" -> {CloseHeeding}

DesignInit ==
    /\ design \in Cells \cup Options \cup Probes
    /\ pc = "build" /\ signal = FALSE /\ write = "none" /\ errorCode = "none"
    /\ turns = <<>> /\ state = [a \in Adapters |-> "open"] /\ errors = {} /\ disposed = {}
    /\ warned = {} /\ timers = {} /\ ticks = 0 /\ calls = <<>> /\ stale = FALSE /\ cut = FALSE

-----------------------------------------------------------------------------
Cleanup(code) ==
    /\ pc' = "finally" /\ errorCode' = code /\ turns' \in Turns
    /\ UNCHANGED <<design, signal, errors, disposed, warned, timers, calls>>

\* The cells' factory answers memory_unavailable, before the try; the mocks
\* of the options cannot fail.
Build ==
    /\ pc = "build"
    /\ \/ pc' = "begin" /\ UNCHANGED errorCode
       \/ design \in Cells /\ pc' = "returned" /\ errorCode' = "unavailable"
    /\ UNCHANGED <<design, signal, write, cleanup, state, ticks, stale, cut>>

\* processApply of the cells: an aborted signal is seen before the write,
\* and while it runs.
DesignBegin ==
    /\ pc = "begin"
    /\ \/ design \in Cells /\ signal /\ Cleanup("aborted") /\ UNCHANGED write
       \/ design \in Cells /\ ~signal /\ pc' = "writing" /\ write' = "running"
          /\ UNCHANGED <<design, signal, errorCode, cleanup>>
       \/ design \notin Cells /\ pc' = "working" /\ UNCHANGED <<run, cleanup>>
    /\ UNCHANGED <<state, ticks, stale, cut>>
WriteSettles ==
    /\ write = "running" /\ write' = "settled"
    /\ UNCHANGED <<pc, design, signal, errorCode, cleanup, state, ticks, stale, cut>>
DesignRaceEnds ==
    /\ pc = "writing"
    /\ \/ signal /\ Cleanup("aborted")
       \/ write = "settled" /\ Cleanup("failed")
       \/ write = "settled" /\ pc' = "secret" /\ UNCHANGED <<design, signal, errorCode, cleanup>>
    /\ UNCHANGED <<write, state, ticks, stale, cut>>
\* The secret, the read and the serve do not ask for the signal.
ReadAndServe ==
    /\ pc = "secret" /\ (Cleanup("none") \/ Cleanup("failed"))
    /\ UNCHANGED <<write, state, ticks, stale, cut>>

\* runPipeline of the options writes, reads and waits; simulatePipeline waits
\* and rejects when the signal is fired.
WorkEnds ==
    /\ pc = "working"
    /\ \/ Cleanup("none")
       \/ design = "timed" /\ signal /\ Cleanup("aborted")
    /\ UNCHANGED <<write, state, ticks, stale, cut>>

\* The trigger's interval is cleared by its close only.
Ticking == state["trigger"] # "closed" /\ design \in Options /\ pc \notin {"build", "begin"}
Fires ==
    /\ Ticking /\ ticks < MaxTicks /\ ticks' = ticks + 1
    /\ stale' = (stale \/ state["memory"] = "closed")
    /\ UNCHANGED <<pc, run, cleanup, state, cut>>

Abort ==
    /\ ~signal /\ pc # "returned" /\ signal' = TRUE
    /\ UNCHANGED <<pc, design, write, errorCode, cleanup, state, ticks, stale, cut>>

-----------------------------------------------------------------------------
CallsNext == calls' = Append(calls, Head(turns)) /\ turns' = Tail(turns)

PassOver ==
    /\ pc = "finally" /\ turns # <<>> /\ WalksDeps /\ ~isDisposable(Head(turns))
    /\ turns' = Tail(turns)
    /\ UNCHANGED <<pc, run, errors, disposed, warned, timers, calls, state, ticks, stale, cut>>

Close ==
    /\ pc = "finally" /\ turns # <<>> /\ design # "heeding"
    /\ WalksDeps => isDisposable(Head(turns))
    /\ CallsNext
    /\ state' = [state EXCEPT ![Head(turns)] = "closing"]
    /\ cut' = (cut \/ (Head(turns) = "memory" /\ write = "running"))
    \* The timer that calls onTimeout is not cleared.
    /\ timers' = IF design = "timed" THEN timers \cup {Head(turns)} ELSE timers
    /\ pc' = "closing"
    /\ UNCHANGED <<run, errors, disposed, warned, ticks, stale>>

\* The pattern rejected: nothing is closed once the signal is fired.
Skip ==
    /\ pc = "finally" /\ turns # <<>> /\ design = "heeding"
    /\ turns' = Tail(turns)
    /\ IF signal THEN errors' = errors \cup {Head(turns)} /\ UNCHANGED <<disposed, state, calls>>
       ELSE /\ disposed' = disposed \cup {Head(turns)} /\ calls' = Append(calls, Head(turns))
            /\ state' = [state EXCEPT ![Head(turns)] = "closed"] /\ UNCHANGED errors
    /\ UNCHANGED <<pc, run, warned, timers, ticks, stale, cut>>

\* A close settles, in its turn or after it was given up.
CurrentClose == Last(calls)
FailuresStop(a) == pc' = "returned"                                 \* mutant
\* A failing close is caught, and the next is made.
Failures(a) == pc' = "finally"
Settles(a) ==
    /\ state[a] = "closing"
    /\ \E ok \in (IF a = "secrets" THEN {TRUE} ELSE BOOLEAN) :
        /\ state' = [state EXCEPT ![a] = IF ok THEN "closed" ELSE "failed"]
        /\ IF pc = "closing" /\ a = CurrentClose
           THEN /\ IF ok THEN pc' = "finally" ELSE Failures(a)
                /\ errors' = IF ok THEN errors ELSE errors \cup {a}
                /\ disposed' = IF ok THEN disposed \cup {a} ELSE disposed
           ELSE UNCHANGED <<pc, errors, disposed>>
    /\ UNCHANGED <<run, turns, warned, timers, calls, ticks, stale, cut>>
GivesUp ==
    /\ pc = "closing" /\ design \in Timed /\ state[CurrentClose] = "closing"
    /\ pc' = "finally" /\ errors' = errors \cup {CurrentClose}
    /\ warned' = IF design = "deps" THEN warned ELSE warned \cup {CurrentClose}
    /\ timers' = timers \ {CurrentClose}
    /\ UNCHANGED <<run, turns, disposed, calls, state, ticks, stale, cut>>
\* Of a close that was in time, too.
TimerFires(a) ==
    /\ a \in timers /\ state[a] # "closing"
    /\ warned' = warned \cup {a} /\ timers' = timers \ {a}
    /\ UNCHANGED <<pc, run, turns, errors, disposed, calls, state, ticks, stale, cut>>
DesignReturn ==
    /\ pc = "finally" /\ turns = <<>> /\ pc' = "returned"
    /\ UNCHANGED <<run, cleanup, state, ticks, stale, cut>>

DesignNext ==
    \/ Build \/ DesignBegin \/ WriteSettles \/ DesignRaceEnds \/ ReadAndServe \/ WorkEnds \/ Fires \/ Abort
    \/ PassOver \/ Close \/ Skip \/ GivesUp \/ DesignReturn
    \/ \E a \in Adapters : Settles(a) \/ TimerFires(a)
DesignSpec == DesignInit /\ [][DesignNext]_vars

-----------------------------------------------------------------------------
Kept == Cells \cup Options \cup {"timed"}
\* In every design but the one rejected, whatever the run came to, a cleanup
\* that returns has closed each adapter that has a close, once, whichever of
\* the others failed, hung or was given up, and whenever the signal was
\* fired; it reports as closed those that were, as failed those that threw or
\* were given up.  Registered before the trigger, the memory is closed after
\* it, so a trigger that closes in time never fires upon a closed memory
\* (runScenario, disposeAll, composerDisposeAll).
AllAreClosed ==
    /\ pc = "returned" /\ errorCode # "unavailable" /\ design \in Kept =>
        /\ \A a \in Disposables : design \notin Cells \/ a = "memory" =>
            \E n \in DOMAIN calls : \A m \in DOMAIN calls : calls[m] = a <=> m = n
        /\ disposed \cap errors = {} /\ disposed \cup errors = ToSet(calls)
        /\ \A a \in disposed : state[a] = "closed"
        /\ design \notin Timed => \A a \in errors : state[a] = "failed"
    /\ design = "registry" /\ "trigger" \in disposed => ~stale
    /\ design # "alpha" => "secrets" \notin ToSet(calls)

\* Not so: the designs that walk the deps, or the user, may close the memory
\* while the trigger still fires.
NeverStale == ~stale
\* Not so: the memory is not closed under a write that lost to the signal.
WritesAreDone == ~cut
\* Not so: who was closed in time is not warned of.
WarnedIfLate == \A a \in warned : a \in errors
\* Not so: what is given up is not closed afterwards.
GivenUpStays == \A a \in errors : state[a] # "closed"
\* Not so, of the pattern rejected.
HeedingCloses == pc = "returned" /\ design = "heeding" => {"memory", "trigger"} = ToSet(calls)
==============================================================================
