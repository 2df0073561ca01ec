----------------------------- MODULE InngestRun -----------------------------
(***************************************************************************)
(* One run of a function made with the Inngest adapter (packages/          *)
(* adapter-inngest/src): kitSteps one after the other, then a fan-out,     *)
(* then a review checkpoint.  Inngest calls the function again and again;  *)
(* what a step has returned it remembers, and what the function throws it  *)
(* answers with another attempt, unless it is a NonRetriableError.         *)
(***************************************************************************)
EXTENDS Naturals, FiniteSets

CONSTANTS
    NSteps,         \* kitSteps
    NItems,         \* items of the fan-out
    Retries,        \* retries of a function or of a step that throws
    Policy,         \* timeoutPolicy: "continue" or "error"
    Injected        \* the review request carries the data.runId of the trigger event,
                    \* not the runId of the context

Steps == 1..NSteps
Items == 1..NItems

ASSUME InngestAssumption ==
    /\ {NSteps, NItems, Retries} \subseteq Nat
    /\ Policy \in {"continue", "error"} /\ Injected \in BOOLEAN

\* What a stage returns: "retry" stands for an error whose code isRetryable
\* does not rule out, "declared" for one of those that says retryable: false,
\* "final" for one whose code it rules out.
Returned == {"ok", "retry", "declared", "final"}

VARIABLES
    status,     \* "waiting" between its calls, "called", or how the run ended
    attempt,    \* attempts of what is being tried that have failed
    memo,       \* what Inngest remembers of each kitStep
    source,     \* it remembers the items
    child,      \* and what it remembers of each child function
    request,    \* the review request: "unsent", "sent", or "none" to send
    review,     \* and how waitForEvent ended
    runs,       \* history: how often each kitStep's function has returned
    answered    \* history: when the reviewer answered the request, if it did

vars == <<status, attempt, memo, source, child, request, review, runs, answered>>
host == <<memo, source, child, request, review>>

Ends == {"done", "failed"}
None == "none"

TypeOK ==
    /\ status \in {"waiting", "called"} \cup Ends
    /\ attempt \in 0..(Retries + 1)
    /\ memo \in [Steps -> Returned \cup {None}]
    /\ source \in BOOLEAN
    /\ child \in [Items -> {None, "ok", "err"}]
    /\ request \in {"none", "unsent", "sent"}
    /\ review \in {None, "waiting", "approved", "rejected", "timeout"}
    /\ runs \in [Steps -> 0..(Retries + 1)] /\ answered \in {None, "early", "waited for"}

Init ==
    /\ status = "waiting" /\ attempt = 0
    /\ memo = [i \in Steps |-> None]
    /\ source = FALSE /\ child = [k \in Items |-> None]
    /\ request \in {"none", "unsent"} /\ review = None
    /\ runs = [i \in Steps |-> 0] /\ answered = None

-----------------------------------------------------------------------------
\* The function is called from its start, with a context of its own.
Call ==
    /\ status = "waiting" /\ status' = "called"
    /\ review # "waiting"
    /\ UNCHANGED <<attempt, memo, source, child, request, review, runs, answered>>

\* The function, or a step, has thrown.
Throws ==
    /\ attempt' = attempt + 1
    /\ status' = IF attempt < Retries THEN "waiting" ELSE "failed"
\* What has returned is remembered, and the function is called again.
Remembered == status' = "waiting" /\ attempt' = 0

PassedAnyway(i) == \A j \in 1..(i - 1) : memo[j] # None             \* mutant
\* kitStep goes on only from what is ok.
Passed(i) == \A j \in 1..(i - 1) : memo[j] = "ok"

RunStepAgain(i) ==                                                  \* mutant
    /\ status = "called" /\ Passed(i) /\ memo[i] \in {None, "retry"}
    /\ runs' = [runs EXCEPT ![i] = @ + 1]
    /\ \E r \in Returned : memo' = [memo EXCEPT ![i] = r] /\ Remembered
    /\ UNCHANGED <<source, child, request, review, answered>>
\* The function of a kitStep returns, an error as well as a value; or the
\* result does not reach Inngest.
RunStep(i) ==
    /\ status = "called" /\ Passed(i) /\ memo[i] = None
    /\ runs' = [runs EXCEPT ![i] = @ + 1]
    /\ \/ \E r \in Returned : memo' = [memo EXCEPT ![i] = r] /\ Remembered
       \/ Throws /\ UNCHANGED memo
    /\ UNCHANGED <<source, child, request, review, answered>>

RethrowAll(i) ==                                                    \* mutant
    /\ status = "called" /\ Passed(i) /\ memo[i] \notin {None, "ok"}
    /\ Throws
    /\ UNCHANGED <<runs, answered>> /\ UNCHANGED host
RethrowUncounted(i) ==                                              \* mutant
    /\ status = "called" /\ Passed(i) /\ memo[i] \notin {None, "ok"}
    /\ IF memo[i] = "final" THEN status' = "failed" ELSE status' = "waiting"
    /\ UNCHANGED <<attempt, runs, answered>> /\ UNCHANGED host
\* kitStep throws what is remembered as an error.
Rethrow(i) ==
    /\ status = "called" /\ Passed(i) /\ memo[i] \notin {None, "ok"}
    /\ IF memo[i] = "final"
       THEN status' = "failed" /\ UNCHANGED attempt
       ELSE Throws
    /\ UNCHANGED <<runs, answered>> /\ UNCHANGED host

\* kitFanOut: the items are remembered first.
FanOut ==
    /\ status = "called" /\ Passed(NSteps + 1)
    /\ ~source /\ source' = TRUE /\ Remembered
    /\ UNCHANGED <<memo, child, request, review, runs, answered>>

\* A child function ends; kitFanOut turns what it throws into a result.
ChildSettles(k) ==
    /\ status = "called" /\ source /\ child[k] = None
    /\ \E r \in {"ok", "err"} : child' = [child EXCEPT ![k] = r] /\ Remembered
    /\ UNCHANGED <<memo, source, request, review, runs, answered>>

Children == source /\ \A k \in Items : child[k] # None

\* createHrpCheckpoint sends the request in a step, which may throw; without
\* a sendReviewRequest there is no such step.
AskForReview ==
    /\ status = "called" /\ Children /\ request = "unsent"
    /\ \/ request' = "sent" /\ Remembered
       \/ Throws /\ UNCHANGED request
    /\ UNCHANGED <<memo, source, child, review, runs, answered>>

WaitForReview ==
    /\ status = "called" /\ Children /\ request # "unsent"
    /\ review = None /\ review' = "waiting" /\ Remembered
    /\ UNCHANGED <<memo, source, child, request, runs, answered>>

\* The reviewer answers the request it was sent, or what it hears of elsewhere:
\* Inngest resumes the run that waits, if its trigger event has the same
\* data.runId.
ReviewerAnswers ==
    /\ request # "unsent" /\ answered = None
    /\ \/ /\ review = None /\ answered' = "early" /\ UNCHANGED review
       \/ /\ review = "waiting" /\ answered' = "waited for"
          /\ review' \in IF Injected THEN {"approved", "rejected"} ELSE {"waiting"}
    /\ UNCHANGED <<status, attempt, memo, source, child, request, runs>>

TimesOut ==
    /\ review = "waiting" /\ review' = "timeout"
    /\ UNCHANGED <<status, attempt, memo, source, child, request, runs, answered>>

\* The checkpoint returns, or throws a NonRetriableError.
EndRun ==
    /\ status = "called" /\ review \in {"approved", "rejected", "timeout"}
    /\ status' = IF review = "timeout" /\ Policy = "error" THEN "failed" ELSE "done"
    /\ UNCHANGED <<attempt, runs, answered>> /\ UNCHANGED host

Stopped == status \in Ends /\ UNCHANGED vars

Next ==
    \/ Call \/ FanOut \/ AskForReview \/ WaitForReview \/ ReviewerAnswers \/ TimesOut
    \/ EndRun \/ Stopped
    \/ \E i \in Steps : RunStep(i) \/ Rethrow(i)
    \/ \E k \in Items : ChildSettles(k)

Spec == Init /\ [][Next]_vars
FairSpec == Spec /\ WF_vars(Next) /\ WF_vars(TimesOut)

-----------------------------------------------------------------------------
(***************************************************************************)
(* Properties.                                                             *)
(***************************************************************************)
\* A run that is done has taken every step to ok, heard of every child, and
\* ended its checkpoint; an error never lets the run go on (kit-step.ts 11-17;
\* research-notes-v1-cat-I.md:155, "silently advance the pipeline").
DoneMeansAllOk ==
    status = "done" =>
        /\ \A i \in Steps : memo[i] = "ok"
        /\ \A k \in Items : child[k] # None
        /\ review \in {"approved", "rejected", "timeout"}
        /\ Policy = "error" => review # "timeout"

\* No step begins before the one before it is ok, and none is run again once
\* its result is remembered.
StepsInOrder ==
    [][\A i \in Steps : runs'[i] # runs[i] =>
          /\ memo[i] = None /\ \A j \in 1..(i - 1) : memo[j] = "ok"]_vars

\* An error whose code is not retryable takes no further attempt (kit-step.ts 13-15).
FinalIsNotRetried ==
    [][\A i \in Steps : memo[i] = "final" => attempt' = attempt]_vars

\* The run ends, whatever its steps, children and reviewer do.
RunEnds == <>(status \in Ends)

\* A transient failure is tried again (research-notes-v1-cat-I.md:148: "a
\* transient failure at atom N retries atom N only").
TransientIsRetried ==
    status = "failed" => \A i \in Steps : memo[i] = "retry" => runs[i] > Retries

\* An error that says retryable: false takes no further attempt
\* (research-notes-v1-cat-I.md:205).
DeclaredIsNotRetried ==
    [][\A i \in Steps : memo[i] = "declared" => attempt' = attempt]_vars

\* A run that waits for a review is resumed by the answer to its request
\* (adapter-inngest/README.md:58: "pauses until a hrp/review.completed event
\* matching data.runId arrives").
AnswerResumes == review = "timeout" => answered # "waited for"

\* A review that was answered in time does not time out (README.md:58).
AnswerIsReceived == review = "timeout" => answered = None
=============================================================================
