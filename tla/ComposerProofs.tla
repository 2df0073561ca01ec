--------------------------- MODULE ComposerProofs ---------------------------
(***************************************************************************)
(* Theorems about Composer, for every pipeline, retry policy, budget and   *)
(* source: the run's safety properties and the refinement of RunContract.  *)
(***************************************************************************)
EXTENDS Composer, FiniteSetTheorems, TLAPS

Running == {"start", "pull", "attempt", "waiting", "acquired", "running", "backoff"}

\* The retry that is decided on but not yet made.
Owed == IF pc = "backoff" \/ (pc \in {"attempt", "waiting", "acquired"} /\ attempt > 1) THEN 1 ELSE 0

\* Where the run is, and what it has done so far.
Progress ==
    /\ pc = "start" => /\ completed = 0 /\ pulled = 0 /\ succeeded = {}
                       /\ step = 1 /\ attempt = 1 /\ iterator = "unopened"
    /\ pc = "pull"  => /\ mode \in {"stream", "all"} /\ iterator = "open"
                       /\ completed = (IF mode = "stream" THEN pulled ELSE 0)
                       /\ mode = "all" => step = 1 /\ attempt = 1
                       /\ succeeded = (1..completed) \X Steps
    /\ InStage      => /\ mode \in {"stream", "all", "sequential"}
                       /\ iterator = (CASE mode = "stream" -> "open"
                                        [] mode = "all" -> "closed"
                                        [] OTHER -> "unopened")
    /\ pc = "closing" => iterator = "open"
    /\ pc = "disposing" => iterator # "open"
    /\ pc = "done" => iterator # "open"

\* The type invariant, with what makes `attempt + 1` and `tokens[step]`
\* well typed.
Typed ==
    /\ TypeOK
    /\ pc = "backoff" => attempt < MaxAttempts[step]
    /\ pc = "waiting" => step \in Limited

-----------------------------------------------------------------------------
\* Results built from a known tag and natural counts are well typed.
LEMMA ResultType ==
    ASSUME NEW t \in Tags, NEW a \in Nat, NEW n \in Nat
    PROVE  /\ Outcome(t, a, n) \in Results /\ Outcome(t, a, n).tag = t
           /\ Outcome(t, a, n).attempted = a /\ Outcome(t, a, n).count = n
  BY DEF Outcome, Results

\* A result without atom counts is well typed.
LEMMA PlainType ==
    ASSUME NEW t \in Tags
    PROVE  Plain(t) \in Results /\ Plain(t).tag = t
  BY ResultType DEF Plain

\* Leaving the loop sets a well-typed result and goes on to clean up.
LEMMA FinishType ==
    ASSUME NEW r \in Results, Finish(r)
    PROVE  result' \in Results /\ pc' \in {"closing", "disposing"} /\ result' = r
  BY DEF Finish

\* A failing stage ends the run with one of two error tags.
LEMMA StageFailsType ==
    ASSUME NEW cause, completed \in Nat, StageFails(cause)
    PROVE  /\ result' \in Results /\ pc' \in {"closing", "disposing"}
           /\ result'.tag \in {"cancelled", "stage_failed"}
  <1> DEFINE t == IF cause = "cancelled" THEN "cancelled" ELSE "stage_failed"
             a == IF mode = "stream" THEN completed + 1 ELSE 0
             n == IF mode = "stream" THEN completed ELSE 0
  <1>1. t \in Tags /\ a \in Nat /\ n \in Nat
    BY DEF Tags
  <1>2. Outcome(t, a, n) \in Results /\ Outcome(t, a, n).tag = t
    BY <1>1, ResultType
  <1>3. Finish(Outcome(t, a, n))
    BY DEF StageFails
  <1> QED
    BY <1>2, <1>3, FinishType

\* Recording usage and cost keeps the accumulators well typed.
LEMMA UsageType ==
    ASSUME usage \in [Metrics -> Nat], costEvent \in [Steps -> CostEvents],
           spent \in [SpendAxes -> Nat], Settle
    PROVE  /\ usage' \in [Metrics -> Nat] /\ pc = "running"
           /\ costEvent' \in [Steps -> CostEvents] /\ spent' \in [SpendAxes -> Nat]
  <1>1. usage' \in [Metrics -> Nat] /\ pc = "running"
    BY ComposerAssumption DEF Settle, Record
  <1>2. PICK e \in CostEvents :
            /\ costEvent' = [costEvent EXCEPT ![step] = e]
            /\ spent' = [axis \in SpendAxes |-> spent[axis] + e[axis]]
    BY DEF Settle
  <1>3. e \in [SpendAxes -> Nat]
    BY ComposerAssumption
  <1>4. \A axis \in SpendAxes : spent[axis] \in Nat /\ e[axis] \in Nat
    BY <1>3
  <1>5. \A axis \in SpendAxes : spent[axis] + e[axis] \in Nat
    BY <1>4
  <1>6. spent' \in [SpendAxes -> Nat]
    BY <1>2, <1>5
  <1>7. costEvent' \in [Steps -> CostEvents]
    BY <1>2
  <1> QED
    BY <1>1, <1>6, <1>7

\* Taking a token and refilling keep every bucket within its capacity.
LEMMA TokensType ==
    ASSUME tokens \in [Limited -> 0..Capacity]
    PROVE  /\ \A s \in Limited : TakeToken(s) => tokens' \in [Limited -> 0..Capacity]
           /\ Refill => tokens' \in [Limited -> 0..Capacity]
  <1>1. ASSUME NEW s \in Limited, TakeToken(s)
        PROVE  tokens' \in [Limited -> 0..Capacity]
    BY <1>1, ComposerAssumption DEF TakeToken
  <1>2. ASSUME Refill PROVE tokens' \in [Limited -> 0..Capacity]
    <2>1. PICK s \in Limited : tokens[s] < Capacity /\ tokens' = [tokens EXCEPT ![s] = @ + 1]
      BY <1>2 DEF Refill
    <2> QED
      BY <2>1, ComposerAssumption
  <1> QED
    BY <1>1, <1>2

\* The initial states are well typed.
LEMMA TypedInit == Init => Typed
  BY ComposerAssumption, ResultType
  DEF Init, Typed, TypeOK, Steps, Pending, Plain, Tags, PCs

\* Every step keeps the state well typed.
LEMMA TypedStep == Typed /\ [Next]_vars => Typed'
  <1> SUFFICES ASSUME Typed, [Next]_vars PROVE Typed'
    OBVIOUS
  <1>0. /\ 1 \in Steps /\ Steps \subseteq Nat
        /\ \A s \in Steps : MaxAttempts[s] \in Nat /\ 1 <= MaxAttempts[s]
        /\ Limited \subseteq Steps /\ RetryBudget \in Nat /\ MaxAtoms \in Nat
        /\ step < NSteps => step + 1 \in Steps
    BY ComposerAssumption DEF Steps, Typed, TypeOK
  <1>t. \A t \in Tags : Plain(t) \in Results /\ Plain(t).tag = t
    BY PlainType
  <1>r. \A t \in Tags, a, n \in Nat : Outcome(t, a, n) \in Results /\ Outcome(t, a, n).tag = t
    BY ResultType
  <1> USE <1>0 DEF Typed, TypeOK, PCs, history, control
  <1>1. CASE StartRejected
    BY <1>1, <1>t DEF StartRejected, Tags
  <1>2. CASE StartSequential
    BY <1>2 DEF StartSequential
  <1>3. CASE OpenSource
    BY <1>3, <1>t, FinishType DEF OpenSource, Tags
  <1>4. CASE SourceYields
    BY <1>4, <1>t, FinishType DEF SourceYields, StartUnit, Tags
  <1>5. CASE SourceEnds
    BY <1>5, <1>t, <1>r, FinishType DEF SourceEnds, Tags
  <1>6. CASE SourceThrows
    BY <1>6, <1>t, FinishType DEF SourceThrows, Tags
  <1>7. CASE BeginAttempt
    BY <1>7, <1>t, FinishType, StageFailsType, TokensType DEF BeginAttempt, Call, TakeToken, Tags
  <1>8. CASE TokenArrives
    BY <1>8, TokensType DEF TokenArrives, TakeToken
  <1>20. CASE EnterStep
    BY <1>20 DEF EnterStep, Call
  <1>9. CASE WaitAborted
    BY <1>9, StageFailsType DEF WaitAborted
  <1>10. CASE StepSucceeds
    <2> USE <1>10 DEF StepSucceeds, NextStepOf
    <2>1. /\ usage' \in [Metrics -> Nat] /\ pc = "running"
          /\ costEvent' \in [Steps -> CostEvents] /\ spent' \in [SpendAxes -> Nat]
      BY UsageType
    <2>2. succeeded' \subseteq (Nat \X Steps)
      BY DEF Unit
    <2>3. /\ step' \in Steps /\ completed' \in Nat
          /\ (step' = step /\ attempt' = attempt) \/ attempt' = 1
          /\ last' \in {"none", "transient", "fatal", "cancelled"}
      OBVIOUS
    <2>4. AtomCount \in Nat
      BY ComposerAssumption DEF AtomCount
    <2>5. result' \in Results /\ pc' \in {"closing", "disposing", "attempt", "pull"}
      BY <2>4, <1>t, <1>r, FinishType DEF Tags
    <2> QED
      BY <2>1, <2>2, <2>3, <2>5
  <1>11. CASE StepFailsTransiently
    BY <1>11, UsageType, StageFailsType DEF StepFailsTransiently, Charge
  <1>12. CASE StepFailsForGood
    BY <1>12, UsageType, StageFailsType DEF StepFailsForGood
  <1>13. CASE StepThrows
    BY <1>13, UsageType, StageFailsType DEF StepThrows
  <1>14. CASE BackoffEnds
    BY <1>14 DEF BackoffEnds
  <1>15. CASE CloseIterator
    BY <1>15, <1>t DEF CloseIterator, Tags
  <1>16. CASE Dispose
    BY <1>16 DEF Dispose
  <1>17. CASE Refill
    <2>1. tokens' \in [Limited -> 0..Capacity]
      BY <1>17, TokensType
    <2> QED
      BY <1>17, <2>1 DEF Refill
  <1>18. CASE Abort
    BY <1>18 DEF Abort
  <1>19. CASE UNCHANGED vars
    BY <1>19 DEF vars
  <1> QED
    BY <1>1, <1>2, <1>3, <1>4, <1>5, <1>6, <1>7, <1>8, <1>9, <1>10, <1>11, <1>12, <1>13, <1>14, <1>15, <1>16, <1>17, <1>18, <1>19, <1>20 DEF Next, Run, Returned

\* TypeOK is an invariant of every run.
THEOREM TypeCorrect == Spec => []TypeOK
  <1>1. Typed => TypeOK
    BY DEF Typed
  <1> QED
    BY TypedInit, TypedStep, <1>1, PTL DEF Spec

\* The strengthened type invariant holds throughout.
LEMMA TypedAlways == Spec => []Typed
  BY TypedInit, TypedStep, PTL DEF Spec

-----------------------------------------------------------------------------
\* The retry budget: whatever the pipeline, the attempts beyond the first of
\* their step never outnumber the charges to the one budget of the run plus
\* the exceptions thrown.
Charged ==
    /\ recalls + Owed <= used + throws
    /\ (pc = "start" \/ (pc = "pull" /\ mode = "all")) => step = 1 /\ attempt = 1

\* Every step keeps the account of retries.
LEMMA ChargedStep == Typed /\ Charged /\ [Next]_vars => Charged'
  <1> SUFFICES ASSUME Typed, Charged, [Next]_vars PROVE Charged'
    OBVIOUS
  <1>0. /\ recalls \in Nat /\ used \in Nat /\ throws \in Nat /\ attempt \in Nat \ {0}
        /\ NSteps \in Nat /\ step \in Nat
    BY ComposerAssumption DEF Typed, TypeOK, Steps
  <1> USE <1>0 DEF Charged, Owed, history, control
  <1>1. CASE StartRejected
    BY <1>1 DEF StartRejected
  <1>2. CASE StartSequential
    BY <1>2 DEF StartSequential
  <1>3. CASE OpenSource
    BY <1>3 DEF Finish, OpenSource
  <1>4. CASE SourceYields
    BY <1>4 DEF StartUnit, Finish, SourceYields
  <1>5. CASE SourceEnds
    BY <1>5 DEF Finish, SourceEnds
  <1>6. CASE SourceThrows
    BY <1>6 DEF Finish, SourceThrows
  <1>7. CASE BeginAttempt
    BY <1>7 DEF Call, TakeToken, Finish, StageFails, BeginAttempt
  <1>8. CASE TokenArrives
    BY <1>8 DEF TakeToken, TokenArrives
  <1>20. CASE EnterStep
    BY <1>20 DEF EnterStep, Call
  <1>9. CASE WaitAborted
    BY <1>9 DEF Finish, StageFails, WaitAborted
  <1>10. CASE StepSucceeds
    BY <1>10 DEF Settle, NextStepOf, Finish, StepSucceeds
  <1>11. CASE StepFailsTransiently
    BY <1>11 DEF Settle, Charge, Finish, StageFails, StepFailsTransiently
  <1>12. CASE StepFailsForGood
    BY <1>12 DEF Settle, Finish, StageFails, StepFailsForGood
  <1>13. CASE StepThrows
    BY <1>13 DEF Settle, Finish, StageFails, StepThrows
  <1>14. CASE BackoffEnds
    BY <1>14 DEF BackoffEnds
  <1>15. CASE CloseIterator
    BY <1>15 DEF CloseIterator
  <1>16. CASE Dispose
    BY <1>16 DEF Dispose
  <1>17. CASE Refill
    BY <1>17 DEF Refill
  <1>18. CASE Abort
    BY <1>18 DEF Abort
  <1>19. CASE UNCHANGED vars
    BY <1>19 DEF vars
  <1> QED
    BY <1>1, <1>2, <1>3, <1>4, <1>5, <1>6, <1>7, <1>8, <1>9, <1>10, <1>11, <1>12, <1>13, <1>14, <1>15, <1>16, <1>17, <1>18, <1>19, <1>20 DEF Next, Run, Returned

\* The shared retry budget bounds the returned failures that are retried.
THEOREM RetriesAreChargedAlways == Spec => []RetriesAreCharged
  <1>1. Init => Charged
    BY DEF Init, Charged, Owed
  <1>2. Typed /\ Charged => RetriesAreCharged
    BY ComposerAssumption DEF Typed, TypeOK, Charged, Owed, RetriesAreCharged
  <1> QED
    BY TypedAlways, ChargedStep, <1>1, <1>2, PTL DEF Spec

-----------------------------------------------------------------------------
\* Cancellation.  A token is only taken while the signal has not fired, so
\* that a call after it has one taken before, and it is the last.
CallInHand ==
    /\ lateCalls > 0 => aborted
    /\ aborted /\ pc = "acquired" => lateCalls = 0 /\ abortedAt = "acquired"
    /\ AbortStopsCalls

\* Every step keeps it.
LEMMA CallInHandStep == Typed /\ CallInHand /\ [Next]_vars => CallInHand'
  <1> SUFFICES ASSUME Typed, CallInHand, [Next]_vars PROVE CallInHand'
    OBVIOUS
  <1>0. lateCalls \in Nat
    BY DEF Typed, TypeOK
  <1> USE <1>0 DEF CallInHand, AbortStopsCalls
  <1>f. ASSUME NEW r, Finish(r) PROVE pc' # "acquired"
    BY <1>f DEF Finish
  <1>s. ASSUME NEW cause, StageFails(cause) PROVE pc' # "acquired"
    BY <1>s, <1>f DEF StageFails
  <1>k. ASSUME UNCHANGED <<aborted, abortedAt, lateCalls>>, pc' # "acquired" PROVE CallInHand'
    BY <1>k
  <1>1. CASE BeginAttempt
    <2>1. CASE isCancelled
      BY <1>1, <2>1, <1>f, <1>s, <1>k DEF BeginAttempt, history
    <2>2. CASE ~isCancelled
      BY <1>1, <2>2 DEF BeginAttempt, isCancelled, Call, TakeToken, history
    <2> QED
      BY <2>1, <2>2
  <1>2. CASE TokenArrives
    BY <1>2 DEF TokenArrives, TakeToken, history
  <1>3. CASE EnterStep
    BY <1>3 DEF EnterStep, Call
  <1>4. CASE StepSucceeds
    BY <1>4, <1>f, <1>k DEF StepSucceeds
  <1>5. CASE StepThrows \/ StepFailsTransiently \/ StepFailsForGood
    BY <1>5, <1>s, <1>k DEF StepThrows, StepFailsTransiently, StepFailsForGood
  <1>6. CASE \/ StartRejected \/ StartSequential \/ OpenSource \/ SourceYields
             \/ SourceEnds \/ SourceThrows
    BY <1>6, <1>f, <1>k DEF StartRejected, StartSequential, OpenSource, SourceYields,
       SourceEnds, SourceThrows, history
  <1>7. CASE WaitAborted \/ BackoffEnds \/ CloseIterator \/ Dispose
    BY <1>7, <1>s, <1>k DEF WaitAborted, BackoffEnds, CloseIterator, Dispose, history
  <1>8. CASE Refill \/ Returned \/ UNCHANGED vars
    BY <1>8 DEF Refill, Returned, vars, control, history
  <1>9. CASE Abort
    BY <1>9 DEF Abort, control
  <1> QED
    BY <1>1, <1>2, <1>3, <1>4, <1>5, <1>6, <1>7, <1>8, <1>9 DEF Next, Run

\* After the signal at most one step.run is entered, and only with a token
\* taken before it fired (composer.ts 397-413).
THEOREM AbortStopsCallsAlways == Spec => []AbortStopsCalls
  <1>1. Init => CallInHand
    BY DEF Init, CallInHand, AbortStopsCalls
  <1>2. CallInHand => AbortStopsCalls
    BY DEF CallInHand
  <1> QED
    BY TypedAlways, CallInHandStep, <1>1, <1>2, PTL DEF Spec

-----------------------------------------------------------------------------
\* An abort while a step is worked on is remembered until a result other
\* than ok is chosen.
AbortKept ==
    /\ abortedAt # "never" => aborted
    /\ pc \in Running <=> result.tag = "pending"
    /\ abortedAt \in StagePCs =>
          InStage \/ (pc \notin Running /\ result.tag # "ok")

\* Every step keeps the memory of an abort.
LEMMA AbortKeptStep == Typed /\ AbortKept /\ [Next]_vars => AbortKept'
  <1> SUFFICES ASSUME Typed, AbortKept, [Next]_vars PROVE AbortKept'
    OBVIOUS
  <1> USE DEF AbortKept, Running, InStage, StagePCs, Outcome, Plain, history, control
  <1>1. CASE StartRejected
    BY <1>1 DEF StartRejected
  <1>2. CASE StartSequential
    BY <1>2 DEF StartSequential
  <1>3. CASE OpenSource
    BY <1>3 DEF OpenSource, Finish
  <1>4. CASE SourceYields
    BY <1>4 DEF SourceYields, Finish, StartUnit, isCancelled
  <1>5. CASE SourceEnds
    BY <1>5 DEF SourceEnds, Finish, isCancelled
  <1>6. CASE SourceThrows
    BY <1>6 DEF SourceThrows, Finish
  <1>7. CASE BeginAttempt
    BY <1>7 DEF BeginAttempt, Finish, StageFails, Call, TakeToken, Rejected, isCancelled
  <1>8. CASE TokenArrives
    BY <1>8 DEF TokenArrives, TakeToken
  <1>20. CASE EnterStep
    BY <1>20 DEF EnterStep, Call
  <1>9. CASE WaitAborted
    BY <1>9 DEF WaitAborted, Finish, StageFails
  <1>10. CASE StepSucceeds
    BY <1>10 DEF StepSucceeds, Finish, Settle, NextStepOf, MayContinue, isCancelled
  <1>11. CASE StepFailsTransiently
    BY <1>11 DEF StepFailsTransiently, Finish, StageFails, Settle, Charge
  <1>12. CASE StepFailsForGood
    BY <1>12 DEF StepFailsForGood, Finish, StageFails, Settle
  <1>13. CASE StepThrows
    BY <1>13 DEF StepThrows, Finish, StageFails, Settle, Rejected
  <1>14. CASE BackoffEnds
    BY <1>14 DEF BackoffEnds
  <1>15. CASE CloseIterator
    BY <1>15 DEF CloseIterator
  <1>16. CASE Dispose
    BY <1>16 DEF Dispose
  <1>17. CASE Refill
    BY <1>17 DEF Refill
  <1>18. CASE Abort
    BY <1>18 DEF Abort
  <1>19. CASE UNCHANGED vars
    BY <1>19 DEF vars
  <1> QED
    BY <1>1, <1>2, <1>3, <1>4, <1>5, <1>6, <1>7, <1>8, <1>9, <1>10, <1>11, <1>12, <1>13, <1>14, <1>15, <1>16, <1>17, <1>18, <1>19, <1>20 DEF Next, Run, Returned

\* An abort while a step is worked on is never answered with ok.
THEOREM AbortInStageIsNotOkAlways == Spec => []AbortInStageIsNotOk
  <1>1. Init => AbortKept
    BY DEF Init, AbortKept, InStage, StagePCs, Running, Pending, Plain, Outcome
  <1>2. AbortKept => AbortInStageIsNotOk
    BY DEF AbortKept, AbortInStageIsNotOk, InStage, StagePCs, Running
  <1> QED
    BY TypedAlways, AbortKeptStep, <1>1, <1>2, PTL DEF Spec

-----------------------------------------------------------------------------
\* While `last` is empty every earlier attempt of the step has thrown, and a
\* cancelled `last` means that the signal fired.
CauseKept ==
    /\ last = "none" /\ InStage => throws + 1 >= attempt
    /\ last = "none" /\ pc = "backoff" => throws >= attempt
    /\ last = "cancelled" => aborted
    /\ pc \in Running <=> result.tag = "pending"
    /\ (pc = "start" \/ (pc = "pull" /\ mode = "all")) => step = 1 /\ attempt = 1
    /\ CancelledHasCause

\* Every step keeps the cause of a cancelled result.
LEMMA CauseKeptStep == Typed /\ CauseKept /\ [Next]_vars => CauseKept'
  <1> SUFFICES ASSUME Typed, CauseKept, [Next]_vars PROVE CauseKept'
    OBVIOUS
  <1>0. throws \in Nat /\ attempt \in Nat \ {0} /\ NSteps \in Nat /\ step \in Nat
    BY ComposerAssumption DEF Typed, TypeOK, Steps
  <1> USE <1>0 DEF CauseKept, CancelledHasCause, Running, InStage, StagePCs, Outcome, Plain,
      history, control
  <1>1. CASE StartRejected
    BY <1>1 DEF StartRejected
  <1>2. CASE StartSequential
    BY <1>2 DEF StartSequential
  <1>3. CASE OpenSource
    BY <1>3 DEF OpenSource, Finish
  <1>4. CASE SourceYields
    BY <1>4 DEF SourceYields, Finish, StartUnit, isCancelled
  <1>5. CASE SourceEnds
    BY <1>5 DEF SourceEnds, Finish, isCancelled
  <1>6. CASE SourceThrows
    BY <1>6 DEF SourceThrows, Finish
  <1>7. CASE BeginAttempt
    BY <1>7 DEF BeginAttempt, Finish, StageFails, Call, TakeToken, Rejected, isCancelled
  <1>8. CASE TokenArrives
    BY <1>8 DEF TokenArrives, TakeToken
  <1>20. CASE EnterStep
    BY <1>20 DEF EnterStep, Call
  <1>9. CASE WaitAborted
    BY <1>9 DEF WaitAborted, Finish, StageFails
  <1>10. CASE StepSucceeds
    BY <1>10 DEF StepSucceeds, Finish, Settle, NextStepOf, MayContinue, isCancelled
  <1>11. CASE StepFailsTransiently
    BY <1>11 DEF StepFailsTransiently, Finish, StageFails, Settle, Charge
  <1>12. CASE StepFailsForGood
    BY <1>12 DEF StepFailsForGood, Finish, StageFails, Settle
  <1>13. CASE StepThrows
    BY <1>13 DEF StepThrows, Finish, StageFails, Settle, Rejected
  <1>14. CASE BackoffEnds
    BY <1>14 DEF BackoffEnds
  <1>15. CASE CloseIterator
    BY <1>15 DEF CloseIterator
  <1>16. CASE Dispose
    BY <1>16 DEF Dispose
  <1>17. CASE Refill
    BY <1>17 DEF Refill
  <1>18. CASE Abort
    BY <1>18 DEF Abort
  <1>19. CASE UNCHANGED vars
    BY <1>19 DEF vars
  <1> QED
    BY <1>1, <1>2, <1>3, <1>4, <1>5, <1>6, <1>7, <1>8, <1>9, <1>10, <1>11, <1>12, <1>13, <1>14, <1>15, <1>16, <1>17, <1>18, <1>19, <1>20 DEF Next, Run, Returned

\* A cancelled result needs the signal, or a step all of whose attempts threw.
THEOREM CancelledHasCauseAlways == Spec => []CancelledHasCause
  <1>1. Init => CauseKept
    BY DEF Init, CauseKept, CancelledHasCause, InStage, StagePCs, Running, Pending, Plain, Outcome
  <1>2. CauseKept => CancelledHasCause
    BY DEF CauseKept
  <1> QED
    BY TypedAlways, CauseKeptStep, <1>1, <1>2, PTL DEF Spec

-----------------------------------------------------------------------------
\* The rectangle of finished work, and how a success extends it.
LEMMA RowGrows ==
    ASSUME NEW c \in Nat, NEW k \in Steps
    PROVE  ((1..c) \X Steps) \cup ({c + 1} \X (1..(k - 1))) \cup {<<c + 1, k>>}
             = ((1..c) \X Steps) \cup ({c + 1} \X (1..((k + 1) - 1)))
  <1>1. 1..((k + 1) - 1) = (1..(k - 1)) \cup {k}
    BY DEF Steps
  <1> QED
    BY <1>1

\* The last step of a unit completes its row of the rectangle.
LEMMA RowComplete ==
    ASSUME NEW c \in Nat
    PROVE  ((1..c) \X Steps) \cup ({c + 1} \X (1..((NSteps + 1) - 1)))
             = (1..(c + 1)) \X Steps
  <1>1. 1..(c + 1) = (1..c) \cup {c + 1}
    OBVIOUS
  <1>2. 1..((NSteps + 1) - 1) = Steps
    BY ComposerAssumption DEF Steps
  <1> QED
    BY <1>1, <1>2

\* A unit that has not passed a step adds nothing to the rectangle.
LEMMA RowEmpty ==
    ASSUME NEW c \in Nat
    PROVE  (1..c) \X Steps = ((1..c) \X Steps) \cup ({c + 1} \X (1..(1 - 1)))
           /\ (1..0) \X Steps = {}
  <1>1. 1..(1 - 1) = {} /\ 1..0 = {}
    OBVIOUS
  <1> QED
    BY <1>1

Work ==
    /\ Progress
    /\ WorkIsInOrder
    /\ OkMeansAllWorkDone
    /\ pc \in Running <=> result.tag = "pending"
    /\ disposals = (IF pc = "done" /\ mode # "window" THEN 1 ELSE 0)
    /\ mode = "window" => pc \in {"start", "done"}

\* No work is done initially.
LEMMA WorkInit == Init => Work
  <1> SUFFICES ASSUME Init PROVE Work
    OBVIOUS
  <1>1. result.tag = "pending"
    BY DEF Init, Pending, Plain, Outcome
  <1> QED
    BY <1>1, ComposerAssumption, RowEmpty
    DEF Init, Work, Progress, WorkIsInOrder, OkMeansAllWorkDone, InStage, StagePCs, Running

\* Every step keeps the account of work.
LEMMA WorkStep == Typed /\ Work /\ [Next]_vars => Work'
  <1> SUFFICES ASSUME Typed, Work, [Next]_vars PROVE Work'
    OBVIOUS
  <1>0. /\ completed \in Nat /\ pulled \in Nat /\ step \in Nat /\ NSteps \in Nat
        /\ NSteps >= 1 /\ step \in Steps /\ mode \in AllModes
    BY ComposerAssumption DEF Typed, TypeOK, Steps
  <1> USE <1>0 DEF Work, Progress, WorkIsInOrder, OkMeansAllWorkDone, InStage, StagePCs, Running,
      Outcome, Plain, history, control, Unit, AllModes
  <1>1. CASE StartRejected
    BY <1>1, RowEmpty DEF StartRejected
  <1>2. CASE StartSequential
    BY <1>2, RowEmpty DEF StartSequential
  <1>3. CASE OpenSource
    BY <1>3, RowEmpty DEF OpenSource, Finish
  <1>4. CASE SourceYields
    BY <1>4, RowEmpty DEF SourceYields, Finish, StartUnit, isCancelled
  <1>5. CASE SourceEnds
    BY <1>5, RowEmpty DEF SourceEnds, Finish, isCancelled
  <1>6. CASE SourceThrows
    BY <1>6 DEF SourceThrows, Finish
  <1>7. CASE BeginAttempt
    BY <1>7 DEF BeginAttempt, Finish, StageFails, Call, TakeToken, Rejected, isCancelled
  <1>8. CASE TokenArrives
    BY <1>8 DEF TokenArrives, TakeToken
  <1>20. CASE EnterStep
    BY <1>20 DEF EnterStep, Call
  <1>9. CASE WaitAborted
    BY <1>9 DEF WaitAborted, Finish, StageFails
  <1>10. CASE StepSucceeds
    <2>1. succeeded' = ((1..completed) \X Steps)
                         \cup ({completed + 1} \X (1..((step + 1) - 1)))
      BY <1>10, RowGrows DEF StepSucceeds, Settle
    <2>2. CASE step = NSteps
      <3>1. succeeded' = (1..(completed + 1)) \X Steps
        BY <2>1, <2>2, RowComplete
      <3> QED
        BY <1>10, <2>2, <3>1 DEF StepSucceeds, Finish, Settle, NextStepOf, MayContinue, isCancelled, AtomCount
    <2>3. CASE step < NSteps
      BY <1>10, <2>1, <2>3 DEF StepSucceeds, Finish, Settle, NextStepOf, MayContinue, isCancelled, AtomCount
    <2> QED
      BY <2>2, <2>3 DEF Steps
  <1>11. CASE StepFailsTransiently
    BY <1>11 DEF StepFailsTransiently, Finish, StageFails, Settle, Charge
  <1>12. CASE StepFailsForGood
    BY <1>12 DEF StepFailsForGood, Finish, StageFails, Settle
  <1>13. CASE StepThrows
    BY <1>13 DEF StepThrows, Finish, StageFails, Settle, Rejected
  <1>14. CASE BackoffEnds
    BY <1>14 DEF BackoffEnds
  <1>15. CASE CloseIterator
    BY <1>15 DEF CloseIterator
  <1>16. CASE Dispose
    BY <1>16 DEF Dispose
  <1>17. CASE Refill
    BY <1>17 DEF Refill
  <1>18. CASE Abort
    BY <1>18 DEF Abort
  <1>19. CASE UNCHANGED vars
    BY <1>19 DEF vars
  <1> QED
    BY <1>1, <1>2, <1>3, <1>4, <1>5, <1>6, <1>7, <1>8, <1>9, <1>10, <1>11, <1>12, <1>13, <1>14, <1>15, <1>16, <1>17, <1>18, <1>19, <1>20 DEF Next, Run, Returned

\* The account of work holds throughout.
LEMMA WorkAlways == Spec => []Work
  BY TypedAlways, WorkInit, WorkStep, PTL DEF Spec

\* No step is skipped, repeated after success or run ahead.
THEOREM WorkIsInOrderAlways == Spec => []WorkIsInOrder
  <1>1. Work => WorkIsInOrder
    BY DEF Work
  <1> QED
    BY WorkAlways, <1>1, PTL

\* A run that reports success did all of its work.
THEOREM OkMeansAllWorkDoneAlways == Spec => []OkMeansAllWorkDone
  <1>1. Work => OkMeansAllWorkDone
    BY DEF Work
  <1> QED
    BY WorkAlways, <1>1, PTL

\* The registry is disposed once, after the iterator was closed.
THEOREM ReleasedOnceAlways == Spec => []ReleasedOnce
  <1>1. Work => ReleasedOnce
    BY DEF Work, Progress, ReleasedOnce, Running, Pending, Plain, Outcome
  <1> QED
    BY WorkAlways, <1>1, PTL

-----------------------------------------------------------------------------
\* What a stage error of a streaming run says about the atoms.
Counted ==
    (mode = "stream" /\ result.tag = "stage_failed") =>
        /\ result.attempted = pulled /\ result.count = completed
        /\ pulled = completed + 1 /\ pc \notin Running
        /\ succeeded = ((1..completed) \X Steps) \cup ({pulled} \X (1..(step - 1)))

\* Every step keeps the atom counts of a stage error.
LEMMA CountedStep == Typed /\ Work /\ Counted /\ [Next]_vars => Counted'
  <1> SUFFICES ASSUME Typed, Work, Counted, [Next]_vars PROVE Counted'
    OBVIOUS
  <1>0. completed \in Nat /\ (pc \in Running <=> result.tag = "pending")
    BY DEF Typed, TypeOK, Work
  <1>00. WorkIsInOrder
    BY DEF Work
  <1> USE <1>0, <1>00 DEF WorkIsInOrder, Counted, InStage, StagePCs, Running, Outcome, Plain,
      history, control, Unit
  <1>1. CASE StartRejected
    BY <1>1 DEF StartRejected
  <1>2. CASE StartSequential
    BY <1>2 DEF StartSequential
  <1>3. CASE OpenSource
    BY <1>3 DEF OpenSource, Finish
  <1>4. CASE SourceYields
    BY <1>4 DEF SourceYields, Finish, StartUnit, isCancelled
  <1>5. CASE SourceEnds
    BY <1>5 DEF SourceEnds, Finish, isCancelled
  <1>6. CASE SourceThrows
    BY <1>6 DEF SourceThrows, Finish
  <1>7. CASE BeginAttempt
    BY <1>7 DEF BeginAttempt, Finish, StageFails, Call, TakeToken, Rejected, isCancelled
  <1>8. CASE TokenArrives
    BY <1>8 DEF TokenArrives, TakeToken
  <1>20. CASE EnterStep
    BY <1>20 DEF EnterStep, Call
  <1>9. CASE WaitAborted
    BY <1>9 DEF WaitAborted, Finish, StageFails
  <1>10. CASE StepSucceeds
    BY <1>10 DEF StepSucceeds, Finish, Settle, NextStepOf, MayContinue, isCancelled, AtomCount
  <1>11. CASE StepFailsTransiently
    BY <1>11 DEF StepFailsTransiently, Finish, StageFails, Settle, Charge
  <1>12. CASE StepFailsForGood
    BY <1>12 DEF StepFailsForGood, Finish, StageFails, Settle
  <1>13. CASE StepThrows
    BY <1>13 DEF StepThrows, Finish, StageFails, Settle, Rejected
  <1>14. CASE BackoffEnds
    BY <1>14 DEF BackoffEnds
  <1>15. CASE CloseIterator
    BY <1>15 DEF CloseIterator
  <1>16. CASE Dispose
    BY <1>16 DEF Dispose
  <1>17. CASE Refill
    BY <1>17 DEF Refill
  <1>18. CASE Abort
    BY <1>18 DEF Abort
  <1>19. CASE UNCHANGED vars
    BY <1>19 DEF vars
  <1> QED
    BY <1>1, <1>2, <1>3, <1>4, <1>5, <1>6, <1>7, <1>8, <1>9, <1>10, <1>11, <1>12, <1>13, <1>14, <1>15, <1>16, <1>17, <1>18, <1>19, <1>20 DEF Next, Run, Returned

\* Those counts are the number of atoms that passed every step.
LEMMA CountedCardinality ==
    Typed /\ Work /\ Counted => StageErrorCountsAtoms
  <1> SUFFICES ASSUME Typed, Counted, mode = "stream", result.tag = "stage_failed"
               PROVE  /\ result.attempted = pulled
                      /\ result.count = Cardinality({u \in 1..pulled : {u} \X Steps \subseteq succeeded})
    BY DEF StageErrorCountsAtoms
  <1>1. /\ completed \in Nat /\ step \in 1..NSteps /\ NSteps \in Nat \ {0}
        /\ pulled = completed + 1 /\ result.count = completed /\ result.attempted = pulled
        /\ succeeded = ((1..completed) \X Steps) \cup ({pulled} \X (1..(step - 1)))
    BY ComposerAssumption DEF Typed, TypeOK, Counted, Steps
  <1>2. <<pulled, NSteps>> \notin succeeded /\ NSteps \in Steps
    BY <1>1 DEF Steps
  <1>3. {u \in 1..pulled : {u} \X Steps \subseteq succeeded} = 1..completed
    <2>1. ASSUME NEW u \in 1..completed PROVE u \in 1..pulled /\ {u} \X Steps \subseteq succeeded
      BY <1>1
    <2>2. ASSUME NEW u \in 1..pulled, {u} \X Steps \subseteq succeeded PROVE u \in 1..completed
      <3>1. <<u, NSteps>> \in succeeded
        BY <2>2, <1>2
      <3> QED
        BY <3>1, <1>1, <1>2
    <2> QED
      BY <2>1, <2>2
  <1>4. Cardinality(1..completed) = completed
    BY <1>1, FS_Interval
  <1> QED
    BY <1>1, <1>3, <1>4

\* atoms_attempted and atoms_completed of a stage error are right.
THEOREM StageErrorCountsAtomsAlways == Spec => []StageErrorCountsAtoms
  <1>1. Init => Counted
    BY DEF Init, Counted, Pending, Plain, Outcome
  <1> QED
    BY TypedAlways, WorkAlways, CountedStep, CountedCardinality, <1>1, PTL DEF Spec

\* What a run says of itself is what happened.
THEOREM ResultIsTruthfulAlways == Spec => []ResultIsTruthful
  BY OkMeansAllWorkDoneAlways, StageErrorCountsAtomsAlways, CancelledHasCauseAlways,
     AbortInStageIsNotOkAlways, PTL DEF ResultIsTruthful

-----------------------------------------------------------------------------
(***************************************************************************)
(* Refinement: every step of the run is a step of the contract or leaves   *)
(* what the caller sees alone.                                             *)
(***************************************************************************)
\* The initial states are initial states of the contract.
LEMMA ContractInit == Init => Contract!CInit
  BY DEF Init, Contract!CInit, Pending, Plain, Outcome

\* Every step is a step of the contract or invisible to the caller.
LEMMA ContractStep == Typed /\ Work /\ [Next]_vars => [Contract!CNext]_(Contract!contract)
  <1> SUFFICES ASSUME Typed, Work, [Next]_vars
               PROVE  [Contract!CNext]_(Contract!contract)
    OBVIOUS
  <1>0. /\ completed \in Nat /\ pulled \in Nat /\ disposals \in Nat /\ NSteps \in Nat
        /\ pc \in Running <=> result.tag = "pending"
        /\ disposals = (IF pc = "done" /\ mode # "window" THEN 1 ELSE 0)
        /\ Progress /\ (mode = "window" => pc \in {"start", "done"})
    BY ComposerAssumption DEF Typed, TypeOK, Work
  <1> USE <1>0 DEF Progress, InStage, StagePCs, Running, Outcome, Plain, history, control,
      Contract!contract, Contract!CNext
  <1>1. CASE StartRejected
    BY <1>1 DEF StartRejected, Contract!Refuse
  <1>2. CASE StartSequential
    BY <1>2 DEF StartSequential
  <1>3. CASE OpenSource
    BY <1>3 DEF OpenSource, Finish, Contract!Fail
  <1>4. CASE SourceYields
    BY <1>4 DEF SourceYields, Finish, StartUnit, isCancelled, Contract!Fail
  <1>5. CASE SourceEnds
    BY <1>5 DEF SourceEnds, Finish, isCancelled, Contract!Fail, Contract!Succeed
  <1>6. CASE SourceThrows
    BY <1>6 DEF SourceThrows, Finish, Contract!Fail
  <1>7. CASE BeginAttempt
    BY <1>7 DEF BeginAttempt, Finish, StageFails, Call, TakeToken, Rejected, isCancelled, Contract!Fail
  <1>8. CASE TokenArrives
    BY <1>8 DEF TokenArrives, TakeToken
  <1>20. CASE EnterStep
    BY <1>20 DEF EnterStep, Call
  <1>9. CASE WaitAborted
    BY <1>9 DEF WaitAborted, Finish, StageFails, Contract!Fail
  <1>10. CASE StepSucceeds
    BY <1>10 DEF StepSucceeds, Finish, Settle, NextStepOf, MayContinue, isCancelled, AtomCount, Contract!Fail, Contract!Succeed, Contract!FinishUnit
  <1>11. CASE StepFailsTransiently
    BY <1>11 DEF StepFailsTransiently, Finish, StageFails, Settle, Charge, Contract!Fail
  <1>12. CASE StepFailsForGood
    BY <1>12 DEF StepFailsForGood, Finish, StageFails, Settle, Contract!Fail
  <1>13. CASE StepThrows
    BY <1>13 DEF StepThrows, Finish, StageFails, Settle, Rejected, Contract!Fail
  <1>14. CASE BackoffEnds
    BY <1>14 DEF BackoffEnds
  <1>15. CASE CloseIterator
    BY <1>15 DEF CloseIterator, Contract!EndBadly
  <1>16. CASE Dispose
    BY <1>16 DEF Dispose, Contract!Release
  <1>17. CASE Refill
    BY <1>17 DEF Refill
  <1>18. CASE Abort
    BY <1>18 DEF Abort, Contract!Cancel
  <1>19. CASE UNCHANGED vars
    BY <1>19 DEF vars
  <1> QED
    BY <1>1, <1>2, <1>3, <1>4, <1>5, <1>6, <1>7, <1>8, <1>9, <1>10, <1>11, <1>12, <1>13, <1>14, <1>15, <1>16, <1>17, <1>18, <1>19, <1>20 DEF Next, Run, Returned

\* runComposer implements RunContract: one outcome, units finished in order
\* and none after the abort, resources released once and last.
THEOREM ImplementsContractAlways == Spec => ImplementsContract
  BY TypedAlways, WorkAlways, ContractInit, ContractStep, PTL
  DEF Spec, Contract!CSpec, ImplementsContract

-----------------------------------------------------------------------------
(***************************************************************************)
(* The budgets.  What the last boundary found still holds when the next    *)
(* stage begins, because usage is recorded in stages only: through the     *)
(* pull of the next atom, the wait for a token and an abort.               *)
(***************************************************************************)
Passed(done) ==
    /\ EvaluateBudgets(usage, CostBudgets) \in {"ok", "warn"}
    /\ ~CeilingExceeded(costEvent, done, Ceiling)

WithinBudget ==
    /\ pc = "start" \/ (pc = "pull" /\ mode = "all") => calls = 0
    /\ pc = "pull" /\ calls > 0 => Passed(NSteps)
    /\ pc \in {"attempt", "waiting", "acquired"} /\ attempt = 1 /\ calls > 0 => Passed(DoneAtBoundary)

LEMMA WithinBudgetInit == Init => WithinBudget
  BY DEF Init, WithinBudget

\* Leaving the loop is the end of all boundaries.
LEMMA EndsWithinBudget ==
    ASSUME pc' \in {"closing", "disposing", "done"} PROVE WithinBudget'
  BY DEF WithinBudget

LEMMA WithinBudgetStep == Typed /\ WithinBudget /\ [Next]_vars => WithinBudget'
  <1> SUFFICES ASSUME Typed, WithinBudget, [Next]_vars PROVE WithinBudget'
    OBVIOUS
  <1>0. /\ calls \in Nat /\ attempt \in Nat /\ attempt >= 1
        /\ step \in Nat /\ step >= 1 /\ NSteps \in Nat
    BY ComposerAssumption DEF Typed, TypeOK, Steps
  <1>f. ASSUME NEW r, Finish(r) PROVE WithinBudget'
    BY <1>f, EndsWithinBudget DEF Finish
  <1>s. ASSUME NEW cause, StageFails(cause) PROVE WithinBudget'
    BY <1>s, <1>f DEF StageFails
  <1>1. CASE StartRejected
    BY <1>1, EndsWithinBudget DEF StartRejected
  <1>2. CASE StartSequential
    BY <1>2 DEF StartSequential, WithinBudget, history
  <1>3. CASE OpenSource
    <2>1. CASE pc' = "pull" /\ UNCHANGED calls
      BY <1>3, <2>1 DEF OpenSource, WithinBudget
    <2> QED
      BY <1>3, <2>1, <1>f DEF OpenSource, history
  <1>4. CASE SourceYields
    <2>1. UNCHANGED <<mode, usage, costEvent, calls>> /\ step' = 1 /\ attempt' = 1 /\ pc = "pull"
      BY <1>4 DEF SourceYields, StartUnit, history
    <2>2. CASE mode = "all" /\ UNCHANGED pc
      BY <2>1, <2>2, <1>0 DEF WithinBudget
    <2>3. CASE mode = "stream" /\ pc' = "attempt"
      BY <2>1, <2>3, <1>0 DEF WithinBudget, Passed, DoneAtBoundary
    <2> QED
      BY <1>4, <2>2, <2>3, <1>f DEF SourceYields
  <1>5. CASE SourceEnds
    <2>1. UNCHANGED <<mode, usage, costEvent, calls, step, attempt>> /\ pc = "pull"
      BY <1>5 DEF SourceEnds, history
    <2>2. CASE mode = "all" /\ pc' = "attempt"
      BY <2>1, <2>2, <1>0 DEF WithinBudget
    <2> QED
      BY <1>5, <2>2, <1>f DEF SourceEnds
  <1>6. CASE SourceThrows
    BY <1>6, <1>f DEF SourceThrows
  <1>7. CASE BeginAttempt
    <2>1. CASE pc' = "running"
      BY <2>1 DEF WithinBudget
    <2>2. CASE pc' \in {"waiting", "acquired"} /\ UNCHANGED calls
      BY <1>7, <2>2 DEF BeginAttempt, WithinBudget, Passed, DoneAtBoundary
    <2> QED
      BY <1>7, <2>1, <2>2, <1>f, <1>s DEF BeginAttempt, Call, TakeToken, history
  <1>8. CASE TokenArrives
    BY <1>8 DEF TokenArrives, TakeToken, WithinBudget, Passed, DoneAtBoundary, history
  <1>17. CASE EnterStep
    BY <1>17 DEF EnterStep, Call, WithinBudget
  <1>9. CASE WaitAborted
    BY <1>9, <1>s DEF WaitAborted
  <1>10. CASE StepSucceeds
    <2> DEFINE verdict == EvaluateBudgets(usage', CostBudgets)
               over == CeilingExceeded(costEvent', step, Ceiling)
    <2>1. ASSUME NEW r, Finish(r) PROVE WithinBudget'
      BY <2>1, <1>f
    <2>2. ASSUME MayContinue(verdict, over), step < NSteps, pc' = "attempt", NextStepOf
          PROVE  WithinBudget'
      <3>1. step' = step + 1 /\ step' # 1 /\ step' - 1 = step
        BY <2>2, <1>0 DEF NextStepOf
      <3>2. Passed(DoneAtBoundary)'
        BY <2>2, <3>1 DEF Passed, DoneAtBoundary, MayContinue
      <3> QED
        BY <2>2, <3>2 DEF WithinBudget
    <2>3. ASSUME MayContinue(verdict, over), step = NSteps, pc' = "pull", mode = "stream",
                 UNCHANGED mode
          PROVE  WithinBudget'
      BY <2>3 DEF WithinBudget, Passed, MayContinue
    <2>4. \/ ~MayContinue(verdict, over) /\ \E r : Finish(r)
          \/ MayContinue(verdict, over) /\ step < NSteps /\ pc' = "attempt" /\ NextStepOf
          \/ MayContinue(verdict, over) /\ step = NSteps
                /\ \/ mode = "stream" /\ pc' = "pull" /\ UNCHANGED mode
                   \/ \E r : Finish(r)
      BY <1>10 DEF StepSucceeds
    <2> QED
      BY <2>1, <2>2, <2>3, <2>4
  <1>11. CASE StepFailsTransiently
    <2>1. CASE pc' = "backoff"
      BY <2>1 DEF WithinBudget
    <2> QED
      BY <1>11, <2>1, <1>s DEF StepFailsTransiently
  <1>12. CASE StepFailsForGood
    BY <1>12, <1>s DEF StepFailsForGood
  <1>13. CASE StepThrows
    <2>1. CASE pc' = "backoff"
      BY <2>1 DEF WithinBudget
    <2> QED
      BY <1>13, <2>1, <1>s DEF StepThrows
  <1>14. CASE BackoffEnds
    BY <1>14, <1>0 DEF BackoffEnds, WithinBudget
  <1>15. CASE CloseIterator \/ Dispose
    BY <1>15, EndsWithinBudget DEF CloseIterator, Dispose
  <1>16. CASE Refill \/ Abort \/ Returned \/ UNCHANGED vars
    BY <1>16 DEF Refill, Abort, Returned, vars, control, history, WithinBudget, Passed,
                 DoneAtBoundary
  <1> QED
    BY <1>1, <1>2, <1>3, <1>4, <1>5, <1>6, <1>7, <1>8, <1>9, <1>10, <1>11, <1>12, <1>13,
       <1>14, <1>15, <1>16, <1>17 DEF Next, Run

\* A step.run is entered from two places, with usage and step as they are.
LEMMA CallsAreMadeThere ==
    ASSUME [Next]_vars, calls' # calls
    PROVE  pc \in {"attempt", "acquired"}
  BY DEF Next, Run, StartRejected, StartSequential, OpenSource, SourceYields, SourceEnds,
         SourceThrows, BeginAttempt, TakeToken, TokenArrives, EnterStep, WaitAborted, StepSucceeds,
         StepFailsTransiently, StepFailsForGood, StepThrows, BackoffEnds, CloseIterator,
         Dispose, Refill, Abort, Returned, vars, control, history

\* No stage of any pipeline begins past a boundary at which a cost budget
\* said abort or review, or at which the latest cost events of the steps done
\* in this pass (of all steps, for a new atom) had reached the ceiling
\* (composer.ts 203-217).  The ceiling is per pass: CeilingIsCumulative, what
\* budget.ts says of it, is not kept.
THEOREM StageBeginsWithinBudgetAlways == Spec => StageBeginsWithinBudget
  <1>1. WithinBudget /\ [Next]_vars
           => [(calls' # calls /\ calls > 0 /\ attempt = 1)
                  => /\ EvaluateBudgets(usage, CostBudgets) \in {"ok", "warn"}
                     /\ ~CeilingExceeded(costEvent, DoneAtBoundary, Ceiling)]_vars
    BY CallsAreMadeThere DEF WithinBudget, Passed
  <1> QED
    BY <1>1, TypedInit, TypedStep, WithinBudgetInit, WithinBudgetStep, PTL
    DEF Spec, StageBeginsWithinBudget
=============================================================================
