------------------------------ MODULE Composer ------------------------------
(***************************************************************************)
(* One call of runComposer (packages/core/src/composer/composer.ts): the   *)
(* sequential run and the fan-out run over a source, in its streaming form *)
(* and with the buffer window "all".  The run interleaves with the host,   *)
(* which may fire the AbortSignal at any moment, with the source, with the *)
(* stages' asynchronous results, with the timers of the retry wrapper      *)
(* (composer/retry.ts) and with the refill of the token buckets            *)
(* (composer/rate-limit.ts).                                               *)
(*                                                                         *)
(* An action is what the code does between two awaits.  A unit of work is  *)
(* one pass over the steps: an atom of a streaming run, the whole run in   *)
(* the two other modes.                                                    *)
(***************************************************************************)
EXTENDS Integers, Sequences, FiniteSets

-----------------------------------------------------------------------------
(***************************************************************************)
(* The budget arithmetic: the per-metric cost budgets of a run (budget.ts, *)
(* usage.ts) and the four-axis spend ceiling (budget-accumulate.ts,        *)
(* budget-ceiling.ts).  Dollars and tokens are natural numbers;            *)
(* warnAtFraction is the fraction warnNum / warnDen.                       *)
(***************************************************************************)
Metrics == {"tokens", "compute"}
Actions == {"abort", "review", "warn"}

\* A CostBudget: { metric, limit, action }.
CostBudget == [metric : Metrics, limit : Nat, action : Actions]

\* ctx.usage.record(key, delta): a missing key counts as 0.
Record(spent, metric, delta) == [spent EXCEPT ![metric] = @ + delta]

Met(b, spent) == spent[b.metric] >= b.limit

(***************************************************************************)
(* evaluateBudgets: the verdict is the action of the first budget of the   *)
(* list whose usage reached its limit, "ok" when there is none.            *)
(***************************************************************************)
EvaluateBudgets(spent, budgets) ==
    LET met == {i \in DOMAIN budgets : Met(budgets[i], spent)}
    IN  IF met = {} THEN "ok"
        ELSE budgets[CHOOSE i \in met : \A j \in met : i <= j].action

(***************************************************************************)
(* The ceiling.  A step's cost event is a record of the three spend axes,  *)
(* all 0 for a step without one; a ceiling maps the four axes to a limit   *)
(* or to Unset.                                                            *)
(***************************************************************************)
SpendAxes == {"dollars", "input", "output"}
AxisOrder == <<"dollars", "input", "output", "requests">>
Axes == SpendAxes \cup {"requests"}
Unset == -1

\* recomputeAccumulation(steps.slice(0, n)): what the first n steps cost.
RecomputeAccumulation(cost, n) ==
    LET total[axis \in SpendAxes, k \in 0..n] ==
            IF k = 0 THEN 0 ELSE total[axis, k - 1] + cost[k][axis]
    IN  [axis \in Axes |-> IF axis = "requests" THEN n ELSE total[axis, n]]

Exceeded(acc, ceiling, axis) ==
    ceiling[axis] # Unset /\ acc[axis] >= ceiling[axis]

\* acc/limit >= WarnNum/WarnDen, without division.
Warns(acc, ceiling, axis, warnNum, warnDen) ==
    /\ ceiling[axis] \notin {Unset, 0}
    /\ acc[axis] * warnDen >= ceiling[axis] * warnNum

\* The axis with the largest fraction; the earlier one wins a tie.
Hottest(acc, ceiling, S) ==
    CHOOSE i \in S : \A j \in S \ {i} :
        LET x == acc[AxisOrder[i]] * ceiling[AxisOrder[j]]
            y == acc[AxisOrder[j]] * ceiling[AxisOrder[i]]
        IN  x > y \/ (x = y /\ i < j)

EvaluateBudgetCeiling(acc, ceiling, warnNum, warnDen) ==
    LET over == {i \in 1..4 : Exceeded(acc, ceiling, AxisOrder[i])}
        hot  == {i \in 1..4 : Warns(acc, ceiling, AxisOrder[i], warnNum, warnDen)}
    IN  IF over # {}
        THEN [status |-> "exceeded",
              axis |-> AxisOrder[CHOOSE i \in over : \A j \in over : i <= j]]
        ELSE IF hot # {}
        THEN [status |-> "warn", axis |-> AxisOrder[Hottest(acc, ceiling, hot)]]
        ELSE [status |-> "ok", axis |-> "none"]

\* applyBudgetCeiling: only an exceeded axis ends the run.
CeilingExceeded(cost, n, ceiling) ==
    EvaluateBudgetCeiling(RecomputeAccumulation(cost, n), ceiling, 4, 5).status
        = "exceeded"

-----------------------------------------------------------------------------

CONSTANTS
    Modes,        \* the forms of run to consider, see AllModes
    NSteps,       \* number of steps of the pipeline
    MaxAttempts,  \* [1..NSteps -> Nat \ {0}]: policy.maxAttempts per step
    Limited,      \* the steps that have a token bucket
    Capacity,     \* capacity of a bucket
    RetryBudget,  \* globalRetryBudget, shared by the whole run
    MaxAtoms,     \* bound: atoms the source yields
    Outcomes,     \* what a step may do, see AllOutcomes
    Deltas,       \* bound: what one attempt may add to a usage metric
    CostBudgets,  \* options.costBudget
    CostEvents,   \* the cost events an adapter may leave on its step
    Ceiling       \* options.budgetCeiling

AllModes == {"sequential", "stream", "all", "window"}
AllOutcomes == {"ok", "transient", "fatal", "threw", "typeError"}
Steps == 1..NSteps

ASSUME ComposerAssumption ==
    /\ Modes \subseteq AllModes
    /\ NSteps \in Nat \ {0}
    /\ MaxAttempts \in [Steps -> Nat \ {0}]
    /\ Limited \subseteq Steps
    /\ Capacity \in Nat
    /\ RetryBudget \in Nat
    /\ MaxAtoms \in Nat
    /\ Outcomes \subseteq AllOutcomes
    /\ Deltas \subseteq Nat
    /\ CostBudgets \in Seq(CostBudget)
    /\ CostEvents \subseteq [SpendAxes -> Nat] /\ CostEvents # {}
    /\ Ceiling \in [Axes -> Nat \cup {Unset}]

VARIABLES
    mode,       \* which form of run this is
    pc,         \* where the run is suspended
    iterator,   \* the source's iterator: "unopened", "open" or "closed"
    pulled,     \* atoms the source has yielded
    step,       \* the step of the current unit
    attempt,    \* 1-based attempt of that step
    last,       \* withRetry's `last`: the latest outcome fn returned
    used,       \* retries charged to the shared budget
    tokens,     \* tokens left in each bucket
    usage,      \* ctx.usage
    costEvent,  \* step.costEvent: what its latest call cost
    aborted,    \* ctx.signal.aborted
    completed,  \* units finished
    result,     \* what the run will return
    disposals,  \* calls of registry.disposeAll
    \* history, read only by properties
    calls,      \* invocations of step.run
    lateCalls,  \* those made after the signal fired
    recalls,    \* those that are not the first attempt of their step
    throws,     \* attempts that ended in an exception
    abortedAt,  \* the pc at which the signal fired
    succeeded,  \* the <<unit, step>> pairs that returned ok
    spent       \* what all calls of the run cost together

control == <<mode, pc, iterator, pulled, step, attempt, last>>
history == <<calls, lateCalls, recalls, throws, abortedAt, succeeded, spent>>
vars == <<control, used, tokens, usage, costEvent, aborted, completed, result, disposals, history>>

PCs == {"start", "pull", "attempt", "waiting", "acquired", "running", "backoff",
        "closing", "disposing", "done"}

Tags == {"pending", "ok", "cancelled", "stage_failed", "source_failed",
         "no_atoms", "budget_exceeded", "budget_review", "unsupported"}

\* A RunError of a streaming run carries atoms_attempted and atoms_completed
\* when it comes from a stage; a ComposerResult carries atomCount.
Results == [tag : Tags, attempted : Nat, count : Nat]
Outcome(tag, att, n) == [tag |-> tag, attempted |-> att, count |-> n]
Plain(tag) == Outcome(tag, 0, 0)
Pending == Plain("pending")

Unit == IF mode = "stream" THEN pulled ELSE 1

TypeOK ==
    /\ mode \in Modes
    /\ pc \in PCs
    /\ iterator \in {"unopened", "open", "closed"}
    /\ pulled \in 0..MaxAtoms
    /\ step \in Steps
    /\ attempt \in Nat \ {0} /\ attempt <= MaxAttempts[step]
    /\ last \in {"none", "transient", "fatal", "cancelled"}
    /\ used \in 0..RetryBudget
    /\ tokens \in [Limited -> 0..Capacity]
    /\ usage \in [Metrics -> Nat]
    /\ costEvent \in [Steps -> CostEvents]
    /\ aborted \in BOOLEAN
    /\ completed \in Nat
    /\ result \in Results
    /\ disposals \in Nat
    /\ calls \in Nat /\ lateCalls \in 0..calls /\ recalls \in Nat /\ throws \in Nat
    /\ abortedAt \in PCs \cup {"never"}
    /\ succeeded \subseteq (Nat \X Steps)
    /\ spent \in [SpendAxes -> Nat]

-----------------------------------------------------------------------------
Init ==
    /\ mode \in Modes
    /\ pc = "start"
    /\ iterator = "unopened"
    /\ pulled = 0 /\ step = 1 /\ attempt = 1 /\ last = "none"
    /\ used = 0
    /\ tokens = [s \in Limited |-> Capacity]
    /\ usage = [m \in Metrics |-> 0]
    /\ costEvent \in [Steps -> CostEvents]   \* an earlier run may have left some
    /\ aborted \in BOOLEAN          \* a run may be handed a fired signal
    /\ completed = 0
    /\ result = Pending
    /\ disposals = 0
    /\ calls = 0 /\ lateCalls = 0 /\ recalls = 0 /\ throws = 0
    /\ abortedAt = IF aborted THEN "start" ELSE "never"
    /\ succeeded = {}
    /\ spent = [axis \in SpendAxes |-> 0]

\* isCancelled(ctx.signal).
CancelledAtFirstAttempt == aborted /\ attempt = 1                   \* mutant
isCancelled == aborted

(***************************************************************************)
(* Leaving the loops.  `return` inside for-await calls iterator.return()   *)
(* first; the finally block then disposes the registry.                    *)
(***************************************************************************)
FinishLeavingIterator(res) == result' = res /\ pc' = "disposing"     \* mutant
Finish(res) ==
    /\ result' = res
    /\ pc' = IF iterator' = "open" THEN "closing" ELSE "disposing"

\* The error of a stage, as toRunError reports it: cause.type "cancelled"
\* keeps its name, anything else becomes `${step.kind}_failed`.
StageFailsUncounted(cause) ==                                       \* mutant
    Finish(Outcome(IF cause = "cancelled" THEN "cancelled" ELSE "stage_failed",
                   completed, completed))
StageFails(cause) ==
    Finish(Outcome(IF cause = "cancelled" THEN "cancelled" ELSE "stage_failed",
                   IF mode = "stream" THEN completed + 1 ELSE 0,
                   IF mode = "stream" THEN completed ELSE 0))

\* pRetry rejected: withRetry returns the last result fn produced, or a
\* synthetic "cancelled" error when fn never returned one.
RejectedAsCancelled(seen) == "cancelled"                            \* mutant
Rejected(seen) == IF seen = "none" THEN "cancelled" ELSE seen

(***************************************************************************)
(* runComposer, and runFanOut up to its loop.                              *)
(***************************************************************************)
StartRejected ==
    /\ pc = "start" /\ mode = "window"
    /\ pc' = "done" /\ result' = Plain("unsupported")
    /\ UNCHANGED <<mode, iterator, pulled, step, attempt, last, used, tokens,
                   usage, costEvent, aborted, completed, disposals, history>>

StartSequential ==
    /\ pc = "start" /\ mode = "sequential"
    /\ pc' = "attempt"
    /\ UNCHANGED <<mode, iterator, pulled, step, attempt, last, used, tokens,
                   usage, costEvent, aborted, completed, result, disposals, history>>

OpenSource ==
    /\ pc = "start" /\ mode \in {"stream", "all"}
    /\ \/ iterator' = "open" /\ pc' = "pull" /\ UNCHANGED result
       \/ iterator' = "closed" /\ Finish(Plain("source_failed"))
    /\ UNCHANGED <<mode, pulled, step, attempt, last, used, tokens, usage, costEvent,
                   aborted, completed, disposals, history>>

\* A new unit enters the steps loop.
StartUnitAtLastStep == step' = step /\ attempt' = 1 /\ last' = "none" \* mutant
StartUnit == step' = 1 /\ attempt' = 1 /\ last' = "none"

(***************************************************************************)
(* The source's asynchronous iterator answers next().  Only the streaming  *)
(* loop looks at the signal between atoms.                                 *)
(***************************************************************************)
SourceYields ==
    /\ pc = "pull" /\ pulled < MaxAtoms
    /\ pulled' = pulled + 1
    /\ StartUnit
    /\ UNCHANGED iterator
    /\ \/ mode = "all" /\ UNCHANGED <<pc, result>>
       \/ mode = "stream" /\ isCancelled /\ Finish(Plain("cancelled"))
       \/ mode = "stream" /\ ~isCancelled /\ pc' = "attempt" /\ UNCHANGED result
    /\ UNCHANGED <<mode, used, tokens, usage, costEvent, aborted, completed, disposals, history>>

SourceEnds ==
    /\ pc = "pull"
    /\ iterator' = "closed"
    /\ \/ pulled = 0 /\ Finish(Plain("no_atoms"))
       \/ mode = "stream" /\ pulled > 0 /\ Finish(Outcome("ok", 0, completed))
       \/ mode = "all" /\ pulled > 0 /\ isCancelled /\ Finish(Plain("cancelled"))
       \/ mode = "all" /\ pulled > 0 /\ ~isCancelled /\ pc' = "attempt" /\ UNCHANGED result
    /\ UNCHANGED <<mode, pulled, step, attempt, last, used, tokens, usage, costEvent,
                   aborted, completed, disposals, history>>

SourceThrows ==
    /\ pc = "pull"
    /\ iterator' = "closed"
    /\ Finish(Plain("source_failed"))
    /\ UNCHANGED <<mode, pulled, step, attempt, last, used, tokens, usage, costEvent,
                   aborted, completed, disposals, history>>

(***************************************************************************)
(* runStage.  The loop's isCancelled check, withRetry's, wrapped's and     *)
(* fn's run without an await between them: one look at the signal.  Seen   *)
(* before the first attempt it ends the run as cancelled; before a later   *)
(* one it rejects pRetry, and withRetry returns `last`.  A step without a  *)
(* bucket is entered at once.  acquire is asynchronous even when a token   *)
(* is there, and what follows it does not look at the signal again.        *)
(***************************************************************************)
Call ==
    /\ pc' = "running"
    /\ calls' = calls + 1
    /\ lateCalls' = IF aborted THEN lateCalls + 1 ELSE lateCalls
    /\ recalls' = IF attempt > 1 THEN recalls + 1 ELSE recalls
    /\ UNCHANGED <<result, throws, abortedAt, succeeded, spent>>

TakeToken(s) ==
    /\ tokens[s] > 0 /\ tokens' = [tokens EXCEPT ![s] = @ - 1]
    /\ pc' = "acquired"
    /\ UNCHANGED <<result, history>>

BeginAttempt ==
    /\ pc = "attempt"
    /\ UNCHANGED iterator
    /\ \/ /\ isCancelled
          /\ IF attempt = 1 THEN Finish(Plain("cancelled"))
                            ELSE StageFails(Rejected(last))
          /\ UNCHANGED <<tokens, history>>
       \/ ~isCancelled /\ step \notin Limited /\ Call /\ UNCHANGED tokens
       \/ ~isCancelled /\ step \in Limited /\ TakeToken(step)
       \/ /\ ~isCancelled /\ step \in Limited /\ tokens[step] = 0
          /\ pc' = "waiting"
          /\ UNCHANGED <<tokens, result, history>>
    /\ UNCHANGED <<mode, pulled, step, attempt, last, used, usage, costEvent, aborted,
                   completed, disposals>>

\* TokenBucket.acquire: the sleep ends and a token is there.  A sleep that
\* ends without a token starts over.  The abort listener clears the timer;
\* a signal between the timer and the take counts as one after the take.
TokenArrives ==
    /\ pc = "waiting" /\ ~aborted
    /\ TakeToken(step)
    /\ UNCHANGED <<mode, iterator, pulled, step, attempt, last, used, usage, costEvent,
                   aborted, completed, disposals>>

\* The await of acquire resumes with true: step.run, whatever the signal
\* did in the meantime.
EnterStep ==
    /\ pc = "acquired"
    /\ Call
    /\ UNCHANGED <<mode, iterator, pulled, step, attempt, last, used, tokens,
                   usage, costEvent, aborted, completed, disposals>>

WaitAborted ==
    /\ pc = "waiting" /\ aborted
    /\ UNCHANGED iterator
    /\ last' = "cancelled" /\ StageFails("cancelled")
    /\ UNCHANGED <<mode, pulled, step, attempt, used, tokens, usage, costEvent, aborted,
                   completed, disposals, history>>

RefillUncapped ==                                                   \* mutant
    /\ pc # "done"
    /\ \E s \in Limited : tokens' = [tokens EXCEPT ![s] = @ + 1]
    /\ UNCHANGED <<control, used, usage, costEvent, aborted, completed, result, disposals, history>>
RefillProportional ==                                               \* mutant
    /\ pc # "done"
    /\ \E s \in Limited :
        /\ tokens[s] \in 1..(Capacity - 1)
        /\ tokens' = [tokens EXCEPT ![s] = @ + 1]
    /\ UNCHANGED <<control, used, usage, costEvent, aborted, completed, result, disposals, history>>
\* Time passes and refill() finds a token more, up to the capacity.
Refill ==
    /\ pc # "done"
    /\ \E s \in Limited :
        tokens[s] < Capacity /\ tokens' = [tokens EXCEPT ![s] = @ + 1]
    /\ UNCHANGED <<control, used, usage, costEvent, aborted, completed, result, disposals, history>>

(***************************************************************************)
(* step.run settles.  Whatever it returns, the attempt may have recorded   *)
(* usage, and its adapter may have left a cost event in place of the last. *)
(***************************************************************************)
Settle ==
    /\ pc = "running"
    /\ \E m \in Metrics, d \in Deltas : usage' = Record(usage, m, d)
    /\ \E e \in CostEvents :
        /\ costEvent' = [costEvent EXCEPT ![step] = e]
        /\ spent' = [axis \in SpendAxes |-> spent[axis] + e[axis]]

NextStepOf == \/ step < NSteps /\ step' = step + 1 /\ attempt' = 1 /\ last' = "none"
              \/ step = NSteps /\ UNCHANGED <<step, attempt, last>>

\* The checks after a stage: isCancelled, applyBudgets, applyBudgetCeiling.
MayContinueIfWithinBudget(verdict, over) ==                         \* mutant
    verdict \in {"ok", "warn"} /\ ~over
MayContinueToReview(verdict, over) ==                               \* mutant
    ~isCancelled /\ verdict # "abort" /\ ~over
MayContinueOverCeiling(verdict, over) ==                            \* mutant
    ~isCancelled /\ verdict \in {"ok", "warn"}
MayContinue(verdict, over) ==
    ~isCancelled /\ verdict \in {"ok", "warn"} /\ ~over

\* atomCount of the result once the last step of a single-unit run is done.
AtomCountOfUnits == IF mode = "all" THEN 1 ELSE NSteps              \* mutant
AtomCount == IF mode = "all" THEN pulled ELSE NSteps

\* What follows a successful stage, in the code's order: the signal, the
\* cost budgets, the ceiling, then the next step or the end of the unit.
StepSucceeds ==
    /\ "ok" \in Outcomes /\ Settle
    /\ succeeded' = succeeded \cup {<<Unit, step>>}
    /\ UNCHANGED iterator
    /\ LET verdict == EvaluateBudgets(usage', CostBudgets)
           over    == CeilingExceeded(costEvent', step, Ceiling)
           goOn    == MayContinue(verdict, over)
       IN \/ /\ ~goOn
             /\ Finish(Plain(IF isCancelled THEN "cancelled"
                             ELSE IF verdict = "review" THEN "budget_review"
                             ELSE "budget_exceeded"))
             /\ UNCHANGED <<step, attempt, last, completed>>
          \/ /\ goOn /\ step < NSteps
             /\ pc' = "attempt" /\ NextStepOf
             /\ UNCHANGED <<completed, result>>
          \/ /\ goOn /\ step = NSteps
             /\ completed' = completed + 1
             /\ NextStepOf
             /\ IF mode = "stream"
                THEN pc' = "pull" /\ UNCHANGED result
                ELSE Finish(Outcome("ok", 0, AtomCount))
    /\ UNCHANGED <<mode, pulled, used, tokens, aborted, disposals,
                   calls, lateCalls, recalls, throws, abortedAt>>

\* RetryBudget.attempt().
Unmetered == used < RetryBudget /\ used' = used                     \* mutant
Charge == used < RetryBudget /\ used' = used + 1

\* A retryable error: charged to the shared budget, on the last attempt too,
\* then retried after a backoff if the step has attempts left.
StepFailsTransiently ==
    /\ "transient" \in Outcomes /\ Settle
    /\ last' = "transient"
    /\ UNCHANGED iterator
    /\ \/ used >= RetryBudget /\ StageFails("transient") /\ UNCHANGED used
       \/ /\ Charge
          /\ IF attempt < MaxAttempts[step] THEN pc' = "backoff" /\ UNCHANGED result
                                            ELSE StageFails("transient")
    /\ UNCHANGED <<mode, pulled, step, attempt, tokens, aborted, completed, disposals,
                   calls, lateCalls, recalls, throws, abortedAt, succeeded>>

\* An error classified "abort".  A stage that watches the signal answers a
\* fired one with an error of type cancelled.
StepFailsForGood ==
    /\ Settle
    /\ \/ "fatal" \in Outcomes /\ last' = "fatal"
       \/ aborted /\ last' = "cancelled"
    /\ UNCHANGED iterator
    /\ StageFails(last')
    /\ UNCHANGED <<mode, pulled, step, attempt, used, tokens, aborted, completed,
                   disposals, calls, lateCalls, recalls, throws, abortedAt, succeeded>>

\* An exception passes the wrapper's bookkeeping by: pRetry retries it, but
\* not a TypeError, without touching `last` or the shared budget.
StepThrows ==
    /\ Settle
    /\ throws' = throws + 1
    /\ UNCHANGED iterator
    /\ \/ /\ "threw" \in Outcomes /\ attempt < MaxAttempts[step]
          /\ pc' = "backoff" /\ UNCHANGED result
       \/ /\ \/ "threw" \in Outcomes /\ attempt = MaxAttempts[step]
             \/ "typeError" \in Outcomes
          /\ StageFails(Rejected(last))
    /\ UNCHANGED <<mode, pulled, step, attempt, last, used, tokens, aborted,
                   completed, disposals, calls, lateCalls, recalls, abortedAt,
                   succeeded>>

\* retry_after_ms and pRetry's own delay; neither looks at the signal.
BackoffEnds ==
    /\ pc = "backoff"
    /\ pc' = "attempt" /\ attempt' = attempt + 1
    /\ UNCHANGED <<mode, iterator, pulled, step, last, used, tokens, usage, costEvent,
                   aborted, completed, result, disposals, history>>

(***************************************************************************)
(* The end of the run.  If the iterator's return() rejects, its error      *)
(* replaces the result the loop was about to return.                       *)
(***************************************************************************)
CloseIterator ==
    /\ pc = "closing"
    /\ iterator' = "closed" /\ pc' = "disposing"
    /\ \/ UNCHANGED result
       \/ result' = Plain("source_failed")
    /\ UNCHANGED <<mode, pulled, step, attempt, last, used, tokens, usage, costEvent,
                   aborted, completed, disposals, history>>

DisposeOnSuccess ==                                                 \* mutant
    /\ pc = "disposing"
    /\ disposals' = (IF result.tag = "ok" THEN 1 ELSE 0) /\ pc' = "done"
    /\ UNCHANGED <<mode, iterator, pulled, step, attempt, last, used, tokens,
                   usage, costEvent, aborted, completed, result, history>>
Dispose ==
    /\ pc = "disposing"
    /\ disposals' = disposals + 1 /\ pc' = "done"
    /\ UNCHANGED <<mode, iterator, pulled, step, attempt, last, used, tokens,
                   usage, costEvent, aborted, completed, result, history>>

\* The host fires the AbortSignal.
Abort ==
    /\ ~aborted /\ pc # "done"
    /\ aborted' = TRUE /\ abortedAt' = pc
    /\ UNCHANGED <<control, used, tokens, usage, costEvent, completed, result, disposals,
                   calls, lateCalls, recalls, throws, succeeded, spent>>

Returned == pc = "done" /\ UNCHANGED vars

Run == \/ StartRejected \/ StartSequential \/ OpenSource
       \/ SourceYields \/ SourceEnds \/ SourceThrows
       \/ BeginAttempt \/ TokenArrives \/ EnterStep \/ WaitAborted
       \/ StepSucceeds \/ StepFailsTransiently \/ StepFailsForGood \/ StepThrows
       \/ BackoffEnds \/ CloseIterator \/ Dispose

Next == Run \/ Refill \/ Abort \/ Returned

Spec == Init /\ [][Next]_vars

\* Promises settle, timers fire and buckets refill; the host owes nothing.
FairSpec == Spec /\ WF_vars(Run) /\ WF_vars(Refill)
-----------------------------------------------------------------------------
(***************************************************************************)
(* Properties.                                                             *)
(***************************************************************************)
StagePCs == {"attempt", "waiting", "acquired", "running", "backoff"}
InStage == pc \in StagePCs

\* Every call beyond the first of a step was paid for: by a unit of the
\* run's one retry budget, or by an exception, which the budget never sees
\* (retry.ts 84-106).  The budget spans all steps and atoms of the run.
RetriesAreCharged == used <= RetryBudget /\ recalls <= used + throws

\* While a step is being worked on, exactly the earlier units have been
\* through every step and this unit through the earlier steps: no step is
\* skipped, repeated after success or run ahead (composer.ts 184-218,
\* 232-283, 325-360).
WorkIsInOrder ==
    InStage => /\ Unit = completed + 1
               /\ succeeded = ((1..completed) \X Steps) \cup ({Unit} \X (1..(step - 1)))

\* A run that reports success took every atom the source yielded through
\* every step, and says so: atomCount is the number of atoms (of steps, for
\* a sequential run).
OkMeansAllWorkDone ==
    result.tag = "ok" =>
        /\ completed = Unit
        /\ succeeded = (1..completed) \X Steps
        /\ result.count = IF mode = "sequential" THEN NSteps ELSE pulled

\* atoms_attempted and atoms_completed of a stage error of a streaming run
\* agree with what was pulled and with what really went through all steps.
StageErrorCountsAtoms ==
    (mode = "stream" /\ result.tag = "stage_failed") =>
        /\ result.attempted = pulled
        /\ result.count = Cardinality({u \in 1..pulled : {u} \X Steps \subseteq succeeded})

\* "cancelled" is reported only if the signal fired, or if every attempt of
\* the failing step threw (retry.ts 117-127 has nothing else to report).
CancelledHasCause ==
    result.tag = "cancelled" => aborted \/ (last = "none" /\ throws >= attempt)

\* A signal that fires while a step is worked on is never lost: the run does
\* not report success, however the step in flight ends.
AbortInStageIsNotOk == abortedAt \in StagePCs => result.tag # "ok"

\* What a run says of itself is what happened, whichever way it ended.
ResultIsTruthful ==
    OkMeansAllWorkDone /\ StageErrorCountsAtoms /\ CancelledHasCause /\ AbortInStageIsNotOk

\* A fired signal stops the run within one stage boundary: no step.run is
\* entered after it, not after a wait for a token, not after a backoff, not
\* for the next step or atom - except one, whose token was already taken
\* when the signal fired (composer.ts 397-413, retry.ts 60-84).
AbortStopsCalls == lateCalls = 0 \/ (lateCalls = 1 /\ abortedAt = "acquired")

\* The registry is disposed exactly once by the time the run returns,
\* whatever the outcome, and not before the source's iterator is closed
\* and the last stage has settled; a run refused for its buffer window
\* returns before the try block and never disposes it (composer.ts 123-132).
ReleasedOnce ==
    /\ disposals = (IF pc = "done" /\ mode # "window" THEN 1 ELSE 0)
    /\ pc \in {"disposing", "done"} => iterator # "open" /\ result # Pending

\* How many steps were done at the last boundary: a new atom follows one
\* that went through all of them.
DoneAtBoundary == IF step = 1 THEN NSteps ELSE step - 1

\* A stage begins only if, at the boundary before it, the verdict of the
\* cost budgets was ok or warn and the latest cost events of the steps this
\* pass has done - for a new atom, of all steps - were below the ceiling
\* (composer.ts 203-217, 264-278, 345-359).  The budgets add up the whole
\* run; the ceiling is measured per pass: see CeilingIsCumulative.
StageBeginsWithinBudget ==
    [][(calls' # calls /\ calls > 0 /\ attempt = 1)
          => /\ EvaluateBudgets(usage, CostBudgets) \in {"ok", "warn"}
             /\ ~CeilingExceeded(costEvent, DoneAtBoundary, Ceiling)]_vars

\* Every run returns, if its source is finite and its steps settle.
Terminates == <>(pc = "done")

(***************************************************************************)
(* The run as its caller sees it.                                          *)
(***************************************************************************)
Contract == INSTANCE RunContract WITH
    phase     <- IF pc = "done" THEN "returned"
                 ELSE IF pc \in {"closing", "disposing"} THEN "ending" ELSE "running",
    finished  <- completed,
    cancelled <- aborted,
    outcome   <- IF result.tag \in {"pending", "ok"} THEN result.tag ELSE "error",
    releases  <- disposals

\* runComposer implements the contract.
ImplementsContract == Contract!CSpec
(***************************************************************************)
(* Statements of the repository that the code does not keep.               *)
(***************************************************************************)
\* docs/spec.md:780: "Composer enforces aggregate retry count".
AggregateRetriesBounded == recalls <= RetryBudget

\* The only text of a cancelled error is that the run was aborted
\* (composer/cancellation.ts:7, composer/retry.ts:124), and the AbortSignal
\* is "the only cancellation primitive" (docs/spec.md:1355).
CancelledOnlyIfAborted == result.tag = "cancelled" => aborted

\* tests/composer/cancellation.property.test.ts:5-6: "abort yields
\* error.type === cancelled", "aborting at any stage index".
AbortInBackoffReportsCancelled ==
    (pc = "done" /\ abortedAt = "backoff") => result.tag = "cancelled"

\* docs/spec-v1-core.md:111: the pipeline's AbortSignal means "stop processing
\* new work".
NoCallAfterAbort == lateCalls = 0

\* docs/spec-v1-core.md VI-7 rule 1: "Disposal ALWAYS runs".
DisposalAlwaysRuns == pc = "done" => disposals > 0

\* docs/spec-v1-cross-cutting.md X-3: all budgets are checked between every
\* stage transition, and "abort" ends the run.
AbortBudgetEndsRun ==
    [][(calls' # calls /\ calls > 0 /\ attempt = 1)
          => \A i \in DOMAIN CostBudgets :
                CostBudgets[i].action = "abort" => ~Met(CostBudgets[i], usage)]_vars

\* budget.ts:28 "4-axis ceilings on cumulative spend across a Composer run" and
\* composer.ts:70 "4-axis ceilings on cumulative spend": what the calls of
\* earlier atoms and of earlier attempts cost is not counted.
CeilingIsCumulative ==
    [][(calls' # calls /\ calls > 0 /\ attempt = 1)
          => \A axis \in SpendAxes : ~Exceeded(spent, Ceiling, axis)]_vars

\* budget.ts:45: maxRequests is the "maximum number of stage steps executed
\* (including retried steps)".
MaxRequestsCountsRetries == calls <= Ceiling["requests"]

-----------------------------------------------------------------------------
(***************************************************************************)
(* Values of the constants in the two configurations for TLC.              *)
(***************************************************************************)
Attempts22 == <<2, 2>>
Attempts222 == <<2, 2, 2>>
NoCostEvent == {[axis \in SpendAxes |-> 0]}
DollarEvents == {[axis \in SpendAxes |-> IF axis = "dollars" THEN d ELSE 0] : d \in {0, 2, 3}}
NoCeiling == [axis \in Axes |-> Unset]
DollarCeiling == [NoCeiling EXCEPT !["dollars"] = 4]
NoBudgets == <<>>
AbortAtTwo == <<[metric |-> "tokens", limit |-> 2, action |-> "abort"],
                [metric |-> "compute", limit |-> 1, action |-> "review"]>>
=============================================================================
