---------------------------- MODULE InngestProofs ----------------------------
(***************************************************************************)
(* Proofs about the Inngest host: what is inside a run (InngestRun), and   *)
(* which runs there are (KitFunction).                                     *)
(***************************************************************************)
EXTENDS MCInngest, SequenceTheorems, TLAPS

-----------------------------------------------------------------------------
(***************************************************************************)
(* Inside a run: what is remembered of a step is remembered only after the *)
(* steps before it are ok, the items only after all steps are, the request *)
(* is sent only after every child was heard, and the wait comes after it.  *)
(***************************************************************************)
AllOk == \A i \in Steps : memo[i] = "ok"

Remembers ==
    /\ \A i \in Steps : memo[i] # None => Passed(i)
    /\ source => AllOk
    /\ request = "sent" \/ review # None => Children

\* An attempt that failed is one of the step at hand.
Tried ==
    /\ status # "failed" => attempt <= Retries
    /\ \A i \in Steps : memo[i] = None => runs[i] = 0 \/ (Passed(i) /\ runs[i] <= attempt)

Ended == status = "done" => /\ review \in {"approved", "rejected", "timeout"}
                            /\ Policy = "error" => review # "timeout"

Flags == source \in BOOLEAN
Kinds ==
    /\ status \in {"waiting", "called"} \cup Ends
    /\ attempt \in 0..(Retries + 1)
    /\ memo \in [Steps -> Returned \cup {None}]
    /\ child \in [Items -> {None, "ok", "err"}]
    /\ request \in {"none", "unsent", "sent"}
    /\ review \in {None, "waiting", "approved", "rejected", "timeout"}
    /\ runs \in [Steps -> 0..(Retries + 1)]
    /\ answered \in {None, "early", "waited for"}

Answered == Injected /\ answered = "waited for" => review \in {"approved", "rejected"}

RunInv == Flags /\ Kinds /\ Remembers /\ Tried /\ Ended /\ Answered

LEMMA RunInitially == Init => RunInv
  <1>0. NSteps \in Nat /\ NItems \in Nat /\ Retries \in Nat
    BY InngestAssumption DEF InngestAssumption
  <1> USE <1>0
  <1> SUFFICES ASSUME Init PROVE RunInv
    OBVIOUS
  <1>1. Flags
    BY Zenon DEF Init, Flags
  <1>4. Kinds
    BY DEF Init, Kinds, Ends, None, Steps, Items
  <1>2. Remembers
    BY DEF Init, Remembers, None
  <1>3. Tried /\ Ended /\ Answered
    BY DEF Init, Tried, Ended, Answered, None
  <1> QED BY <1>1, <1>2, <1>3, <1>4 DEF RunInv

LEMMA FlagSteps == Flags /\ [Next]_vars => Flags'
  <1> SUFFICES ASSUME Flags, [Next]_vars PROVE Flags'
    OBVIOUS
  <1>1. source' = source \/ source' = TRUE
    BY Zenon DEF Next, vars, host, Call, FanOut, AskForReview, WaitForReview, ReviewerAnswers,
       TimesOut, EndRun, Stopped, RunStep, Rethrow, ChildSettles
  <1> QED BY Zenon, <1>1 DEF Flags

\* What is remembered as it should be stays so in every step.
LEMMA RunSteps == RunInv /\ [Next]_vars => RunInv'
  <1>0. NSteps \in Nat /\ NItems \in Nat /\ Retries \in Nat
    BY InngestAssumption DEF InngestAssumption
  <1>10. /\ 0 \in 0..(Retries + 1) /\ 0 <= Retries
         /\ \A a \in 0..(Retries + 1) : a <= Retries => a + 1 \in 0..(Retries + 1)
    BY <1>0
  <1> USE <1>0, <1>10
  <1> SUFFICES ASSUME RunInv, [Next]_vars PROVE (Kinds /\ Remembers /\ Tried /\ Ended /\ Answered)'
    BY FlagSteps DEF RunInv
  <1> USE DEF RunInv
  <1> USE DEF None, Steps, Items
  <1>1. CASE Call
    BY <1>1 DEF Call, Kinds, Remembers, Tried, Ended, Answered, AllOk, Children, Passed, Ends
  <1>2. CASE FanOut
    <2>1. Kinds'
      BY <1>2 DEF FanOut, Remembered, Kinds
    <2>2. AllOk
      BY <1>2 DEF FanOut, Passed, AllOk
    <2>3. Remembers'
      BY <1>2, <2>2 DEF FanOut, Remembers, AllOk, Children, Passed
    <2>4. Tried' /\ Ended' /\ Answered'
      BY <1>2, <2>2 DEF FanOut, Remembered, Tried, Ended, Answered, AllOk, Passed
    <2> QED BY <2>1, <2>3, <2>4
  <1>3. CASE AskForReview \/ WaitForReview
    <2>1. Kinds'
      BY <1>3 DEF AskForReview, WaitForReview, Remembered, Throws, Kinds, Tried, Ends
    <2>2. AllOk /\ Children
      BY <1>3 DEF AskForReview, WaitForReview, Children, Remembers
    <2>3. Remembers'
      BY <1>3, <2>2 DEF AskForReview, WaitForReview, Remembers, AllOk, Children, Passed
    <2>4. Tried'
      <3>1. \A i \in Steps : memo'[i] # None
        BY <1>3, <2>2 DEF AskForReview, WaitForReview, AllOk
      <3>2. (status # "failed" => attempt <= Retries)'
        <4>0. attempt \in 0..(Retries + 1)
          BY DEF Kinds
        <4>1. attempt \in Nat
          BY ONLY <4>0, Retries \in Nat
        <4>2. \/ attempt' = 0
              \/ attempt' = attempt + 1 /\ (attempt < Retries \/ status' = "failed")
          BY <1>3 DEF AskForReview, WaitForReview, Remembered, Throws
        <4> QED BY ONLY <4>1, <4>2, Retries \in Nat
      <3> QED BY <3>1, <3>2 DEF Tried
    <2>5. Ended' /\ Answered'
      BY <1>3 DEF AskForReview, WaitForReview, Remembered, Throws, Ended, Answered, Kinds
    <2> QED BY <2>1, <2>3, <2>4, <2>5
  <1>4. CASE ReviewerAnswers \/ TimesOut \/ EndRun
    <2>1. Kinds'
      BY <1>4 DEF ReviewerAnswers, TimesOut, EndRun, host, Kinds, Ends
    <2>2. Remembers'
      <3>1. /\ UNCHANGED <<memo, source, child, request>>
            /\ review' # None => review # None
        BY <1>4 DEF ReviewerAnswers, TimesOut, EndRun, host
      <3>2. Remembers
        OBVIOUS
      <3> QED BY ONLY <3>1, <3>2 DEF Remembers, AllOk, Children, Passed
    <2>3. Tried'
      BY <1>4 DEF ReviewerAnswers, TimesOut, EndRun, host, Tried, Passed
    <2>4. Ended'
      BY <1>4 DEF ReviewerAnswers, TimesOut, EndRun, host, Ended, Kinds
    <2>5. Answered'
      BY <1>4 DEF ReviewerAnswers, TimesOut, EndRun, host, Answered, Kinds
    <2> QED BY <2>1, <2>2, <2>3, <2>4, <2>5
  <1>5. ASSUME NEW i \in Steps, RunStep(i) PROVE (Kinds /\ Remembers /\ Tried /\ Ended /\ Answered)'
    <2>0. /\ Passed(i) /\ memo[i] = None /\ status = "called"
          /\ attempt \in 0..(Retries + 1) /\ runs[i] \in 0..(Retries + 1)
          /\ runs[i] = 0 \/ runs[i] <= attempt
      BY <1>5 DEF RunStep, Tried, Kinds
    <2>1. /\ Passed(i) /\ memo[i] = None /\ runs[i] <= attempt /\ attempt <= Retries
          /\ runs[i] \in 0..Retries /\ attempt \in 0..Retries
          /\ attempt + 1 \in 0..(Retries + 1) /\ runs[i] + 1 \in 0..(Retries + 1)
      BY <2>0 DEF Tried
    <2>2. Kinds'
      <3>1. runs' \in [Steps -> 0..(Retries + 1)]
        BY <1>5, <2>1 DEF RunStep, Kinds
      <3>2. memo' \in [Steps -> Returned \cup {None}]
        BY <1>5 DEF RunStep, Kinds
      <3>3. attempt' \in 0..(Retries + 1) /\ status' \in {"waiting", "failed"}
        BY <1>5, <2>1 DEF RunStep, Remembered, Throws
      <3> QED BY <1>5, <3>1, <3>2, <3>3 DEF RunStep, Kinds, Ends
    <2>3. ~source /\ ~Children /\ request # "sent" /\ review = None
      BY <2>1 DEF Remembers, AllOk, Children
    <2>4. \A j \in Steps : j # i => memo'[j] = memo[j] /\ runs'[j] = runs[j]
      BY <1>5 DEF RunStep, Kinds
    <2>5. \A j \in Steps : j > i => memo[j] = None /\ runs[j] = 0
      BY <2>1 DEF Remembers, Tried, Passed
    <2>6. \A j \in Steps : j <= i => Passed(j)'
      BY <2>1, <2>4 DEF Passed
    <2>7. \A j \in Steps : memo'[j] # None => Passed(j)'
      BY <2>4, <2>5, <2>6
    <2>8. Remembers'
      BY <1>5, <2>3, <2>7 DEF RunStep, Remembers, Kinds
    <2>9. Tried'
      <3>1. (status # "failed" => attempt <= Retries)'
        BY <1>5, <2>1 DEF RunStep, Remembered, Throws
      <3>2. ASSUME NEW j \in Steps, memo'[j] = None
            PROVE runs'[j] = 0 \/ (Passed(j)' /\ runs'[j] <= attempt')
        <4>1. CASE j > i
          BY <4>1, <2>4, <2>5
        <4>2. CASE j < i
          BY <4>2, <3>2, <2>1, <2>4 DEF Passed
        <4>3. CASE j = i
          <5>1. memo[i]' = None /\ runs'[i] = runs[i] + 1
            BY <4>3, <3>2, <1>5 DEF RunStep, Kinds
          <5>2. attempt' = attempt + 1
            BY <5>1, <1>5 DEF RunStep, Throws, Returned, Kinds
          <5> QED BY <4>3, <5>1, <5>2, <2>1, <2>6
        <4> QED BY <4>1, <4>2, <4>3
      <3> QED BY <3>1, <3>2 DEF Tried
    <2>10. Ended' /\ Answered'
      BY <1>5, <2>3 DEF RunStep, Remembered, Throws, Ended, Answered
    <2> QED BY <2>2, <2>8, <2>9, <2>10
  <1>6. ASSUME NEW i \in Steps, Rethrow(i) PROVE (Kinds /\ Remembers /\ Tried /\ Ended /\ Answered)'
    <2>1. ~source /\ ~Children /\ request # "sent" /\ review = None
      BY <1>6 DEF Rethrow, Remembers, AllOk, Children
    <2>2. status = "called" /\ attempt \in 0..(Retries + 1) /\ attempt <= Retries
      BY <1>6 DEF Rethrow, Tried, Kinds
    <2>7. /\ attempt' \in 0..(Retries + 1) /\ status' \in {"waiting", "failed"}
          /\ attempt' >= attempt /\ (status' # "failed" => attempt' <= Retries)
      BY <1>6, <2>2 DEF Rethrow, Throws
    <2>3. Kinds'
      BY <1>6, <2>7 DEF Rethrow, host, Kinds, Ends
    <2>4. Remembers'
      BY <1>6 DEF Rethrow, host, Remembers, AllOk, Children, Passed
    <2>5. Tried'
      <3>1. \A j \in Steps : runs[j] \in Nat
        <4>1. runs \in [Steps -> 0..(Retries + 1)]
          BY DEF Kinds
        <4>2. \A a \in 0..(Retries + 1) : a \in Nat
          BY ONLY Retries \in Nat
        <4> QED BY ONLY <4>1, <4>2
      <3> QED BY <1>6, <2>2, <2>7, <3>1 DEF Rethrow, host, Tried, Passed
    <2>6. Ended' /\ Answered'
      BY <1>6, <2>1 DEF Rethrow, Throws, host, Ended, Answered
    <2> QED BY <2>3, <2>4, <2>5, <2>6
  <1>7. ASSUME NEW k \in Items, ChildSettles(k) PROVE (Kinds /\ Remembers /\ Tried /\ Ended /\ Answered)'
    <2>1. AllOk /\ ~Children /\ request # "sent" /\ review = None
      BY <1>7 DEF ChildSettles, Remembers, Children
    <2>2. Kinds'
      BY <1>7 DEF ChildSettles, Remembered, Kinds
    <2>3. Remembers'
      BY <1>7, <2>1 DEF ChildSettles, Remembers, AllOk, Passed
    <2>4. Tried' /\ Ended' /\ Answered'
      BY <1>7, <2>1 DEF ChildSettles, Remembered, Tried, Ended, Answered, AllOk
    <2> QED BY <2>2, <2>3, <2>4
  <1>8. CASE UNCHANGED vars
    BY <1>8 DEF vars, Kinds, Remembers, Tried, Ended, Answered, AllOk, Children, Passed, Ends
  <1> QED BY <1>1, <1>2, <1>3, <1>4, <1>5, <1>6, <1>7, <1>8 DEF Next, Stopped

LEMMA RunIsSoundInside ==
    ASSUME RunInv PROVE DoneMeansAllOk /\ (Injected => AnswerResumes)
  BY DEF RunInv, Kinds, Remembers, Ended, Answered, DoneMeansAllOk, AnswerResumes, AllOk,
         Children, None

\* StepsInOrder and FinalIsNotRetried of one step: a step is run only when all
\* before it are ok and none of it is remembered, and what is final fails the
\* run without another attempt.
LEMMA StepIsInOrder ==
    ASSUME RunInv, [Next]_vars, NEW i \in Steps, runs'[i] # runs[i]
    PROVE  memo[i] = None /\ \A j \in 1..(i - 1) : memo[j] = "ok"
  <1>1. PICK k \in Steps : RunStep(k)
    BY DEF Next, vars, host, Call, FanOut, AskForReview, WaitForReview, ReviewerAnswers, TimesOut,
           EndRun, Stopped, Rethrow, ChildSettles
  <1>2. i = k
    BY <1>1 DEF RunStep, RunInv, Kinds
  <1> QED BY <1>1, <1>2 DEF RunStep, Passed

LEMMA FinalTakesNoAttempt ==
    ASSUME RunInv, [Next]_vars, NEW i \in Steps, memo[i] = "final"
    PROVE  attempt' = attempt
  <1>0. NSteps \in Nat /\ NItems \in Nat /\ Retries \in Nat
    BY InngestAssumption DEF InngestAssumption
  <1> USE <1>0
  <1>1. ~source /\ ~Children /\ request # "sent" /\ review = None
    BY DEF RunInv, Remembers, AllOk, Children
  <1>2. \A k \in Steps : Passed(k) /\ k # i => memo[k] = "ok"
    <2> SUFFICES ASSUME NEW k \in Steps, Passed(k), k # i PROVE memo[k] = "ok"
      OBVIOUS
    <2>1. k < i
      BY DEF Passed, Steps
    <2> QED BY <2>1 DEF RunInv, Remembers, Passed, None, Steps
  <1>3. ~Passed(NSteps + 1)
    BY DEF Passed, Steps
  <1> QED
    BY <1>1, <1>2, <1>3 DEF Next, vars, Call, FanOut, AskForReview, WaitForReview,
       ReviewerAnswers, TimesOut, EndRun, Stopped, RunStep, Rethrow, ChildSettles, Children, None

-----------------------------------------------------------------------------
(***************************************************************************)
(* Which runs there are: an event that was not dropped is a Window after   *)
(* the last one with its dedupKey, its run begins a period from the others *)
(* of that key and, where the guard rejects, it was sent when the earlier  *)
(* ones with its pipelineId had ended.                                     *)
(***************************************************************************)
Events == [for : Triggers, key : Keys, pipeline : Pipelines, at : Nat]
Sent == 1..Len(events)
States == {"dropped", "queued", "running", "paused", "done"}
Rejects == Function!Rejects

FTyped ==
    /\ guard \in Guards /\ now \in Nat
    /\ events \in Seq(Events)
    /\ state \in Seq(States) /\ Len(state) = Len(events)
    /\ calls \in Seq(Nat) /\ Len(calls) = Len(events)
    /\ began \in Seq(Nat) /\ Len(began) = Len(events)
    /\ ended \in Seq(Nat) /\ Len(ended) = Len(events)

\* Nothing has happened later than now, and a run that is under way was called.
Times == \A i \in Sent : events[i].at <= now /\ began[i] <= now /\ ended[i] <= now
Called == \A i \in Sent : state[i] \in {"running", "paused"} => calls[i] # 0

PipelineAlone ==
    Rejects => \A i, j \in Sent :
        /\ i < j /\ state[i] # "dropped" /\ state[j] # "dropped"
        /\ events[i].pipeline = events[j].pipeline
        => state[i] = "done" /\ ended[i] <= events[j].at
SameKey(i, j) ==
    /\ i < j /\ state[i] # "dropped" /\ state[j] # "dropped"
    /\ events[i].key = events[j].key /\ events[i].key # Null
WindowApart ==
    Function!Kit => \A i, j \in Sent :
        SameKey(i, j) => events[i].at + Window <= events[j].at
PeriodApart ==
    Function!Kit => \A i, j \in Sent :
        (SameKey(i, j) /\ calls[i] # 0 /\ calls[j] # 0) =>
            \/ began[i] + guard.period <= began[j]
            \/ began[j] + guard.period <= began[i]

ByKey(i) ==
    /\ Function!Kit /\ events[i].key # Null
    /\ \E j \in Sent : /\ state[j] # "dropped" /\ j < i /\ events[j].key = events[i].key
                       /\ events[i].at < events[j].at + Window
ByPipeline(i) ==
    /\ Rejects
    /\ \E j \in Sent : /\ state[j] # "dropped" /\ j < i
                       /\ events[j].pipeline = events[i].pipeline
                       /\ state[j] = "done" => events[i].at <= ended[j]
Reasons ==
    \A i \in Sent : state[i] = "dropped" =>
        events[i].for # trigger \/ ByKey(i) \/ ByPipeline(i)

FInv == /\ FTyped /\ Times /\ Called
        /\ PipelineAlone /\ WindowApart /\ PeriodApart /\ Reasons

LEMMA FunctionInitially == Function!Init => FInv
  <1> SUFFICES ASSUME Function!Init PROVE FInv
    OBVIOUS
  <1>1. /\ events = <<>> /\ state = <<>> /\ calls = <<>> /\ began = <<>> /\ ended = <<>>
        /\ guard \in Guards /\ now = 0 /\ Len(events) = 0
    BY DEF Function!Init
  <1>2. FTyped
    BY <1>1 DEF FTyped
  <1>3. Sent = {}
    BY <1>1 DEF Sent
  <1>4. Times /\ Called /\ PipelineAlone /\ WindowApart /\ PeriodApart /\ Reasons
    BY <1>3 DEF Times, Called, PipelineAlone, WindowApart, PeriodApart, Reasons
  <1> QED BY <1>2, <1>4 DEF FInv

\* The invariant has all parts of the property.
LEMMA FunctionIsGuardedThen == ASSUME FInv PROVE FunctionIsGuarded
  <1> USE DEF FInv
  <1>1. /\ Function!Kept = {i \in Sent : state[i] # "dropped"}
        /\ Function!InState("dropped") = {i \in Sent : state[i] = "dropped"}
    BY DEF FTyped, Sent, Function!Kept, Function!InState
  <1>2. Function!KeyIsSpaced
    BY <1>1 DEF WindowApart, PeriodApart, SameKey, Function!KeyIsSpaced
  <1>3. Function!PipelineIsAlone
    BY <1>1 DEF PipelineAlone, Rejects, Function!PipelineIsAlone
  <1>4. Function!DroppedForAReason
    BY <1>1 DEF Reasons, ByKey, ByPipeline, Rejects, Function!DroppedForAReason
  <1> QED BY <1>2, <1>3, <1>4 DEF FunctionIsGuarded, Function!FunctionIsGuarded

\* What the code makes of a RunGuard.
LEMMA ConfigIs ==
    /\ Function!Kit => /\ Function!Config.idempotency
                       /\ Function!Config.throttle = guard.period
    /\ ~Function!Kit => ~Function!Config.idempotency
    /\ Rejects <=> Function!Config.singleton
  BY DEF Function!Kit, Function!Config, Function!buildFunctionConfig, Function!FnConfig,
         Rejects, Function!Rejects

\* What Send appends: nothing changes for the events before.
LEMMA SendAppends ==
    ASSUME FInv, NEW t \in Triggers, NEW k \in Keys, NEW p \in Pipelines,
           NEW n, n = Len(events) + 1, Function!Send(t, k, p)
    PROVE  /\ FTyped'
           /\ n \in Nat /\ n \notin Sent /\ Sent' = Sent \cup {n} /\ Sent = 1..(n - 1)
           /\ \A i \in Sent : /\ events'[i] = events[i] /\ state'[i] = state[i]
                              /\ calls'[i] = calls[i] /\ began'[i] = began[i]
                              /\ ended'[i] = ended[i]
           /\ events'[n] = [for |-> t, key |-> k, pipeline |-> p, at |-> now]
           /\ calls'[n] = 0 /\ began'[n] = now /\ ended'[n] = now
           /\ state'[n] \in {"dropped", "queued"}
           /\ UNCHANGED <<maker, guard, trigger, now>>
  <1> DEFINE e == [for |-> t, key |-> k, pipeline |-> p, at |-> now]
  <1>1. PICK s \in {"dropped", "queued"} : state' = Append(state, s)
    BY DEF Function!Send
  <1>2. /\ events' = Append(events, e) /\ calls' = Append(calls, 0)
        /\ began' = Append(began, now) /\ ended' = Append(ended, now)
        /\ UNCHANGED <<maker, guard, trigger, now>>
    BY DEF Function!Send
  <1>3. e \in Events /\ now \in Nat
    BY DEF Events, FInv, FTyped
  <1>4. /\ Len(events) \in Nat /\ Len(events') = n /\ Len(state') = n
        /\ Len(calls') = n /\ Len(began') = n /\ Len(ended') = n
    BY <1>1, <1>2 DEF FInv, FTyped
  <1>5. events' \in Seq(Events) /\ state' \in Seq(States)
    BY <1>1, <1>2, <1>3, AppendProperties DEF FInv, FTyped, States
  <1>6. calls' \in Seq(Nat) /\ began' \in Seq(Nat) /\ ended' \in Seq(Nat)
    BY <1>2, <1>3, AppendProperties DEF FInv, FTyped
  <1>7. FTyped'
    BY <1>2, <1>4, <1>5, <1>6 DEF FInv, FTyped
  <1>8. n \in Nat /\ n \notin Sent /\ Sent' = Sent \cup {n} /\ Sent = 1..(n - 1)
    BY <1>4 DEF Sent
  <1>9. \A i \in Sent : /\ events'[i] = events[i] /\ state'[i] = state[i]
                        /\ calls'[i] = calls[i] /\ began'[i] = began[i] /\ ended'[i] = ended[i]
    <2> SUFFICES ASSUME NEW i \in Sent
                 PROVE  /\ events'[i] = events[i] /\ state'[i] = state[i]
                        /\ calls'[i] = calls[i] /\ began'[i] = began[i] /\ ended'[i] = ended[i]
      OBVIOUS
    <2>1. events'[i] = events[i]
      BY <1>2 DEF FInv, FTyped, Sent
    <2>2. state'[i] = state[i]
      BY <1>1 DEF FInv, FTyped, Sent
    <2>3. calls'[i] = calls[i]
      BY <1>2 DEF FInv, FTyped, Sent
    <2>4. began'[i] = began[i] /\ ended'[i] = ended[i]
      BY <1>2 DEF FInv, FTyped, Sent
    <2> QED BY <2>1, <2>2, <2>3, <2>4
  <1>10. /\ events'[n] = e /\ calls'[n] = 0 /\ began'[n] = now /\ ended'[n] = now
         /\ state'[n] = s
    <2>1. events'[n] = e
      <3>1. events \in Seq(Events) /\ n = Len(events) + 1 /\ events' = Append(events, e)
        BY <1>2 DEF FInv, FTyped
      <3> HIDE DEF e
      <3> QED BY <1>3, <3>1, AppendProperties
    <2>2. calls'[n] = 0
      BY <1>2, <1>3, AppendProperties DEF FInv, FTyped
    <2>3. began'[n] = now /\ ended'[n] = now
      BY <1>2 DEF FInv, FTyped, Sent
    <2>4. state'[n] = s
      BY <1>1 DEF FInv, FTyped, Sent
    <2> QED BY <2>1, <2>2, <2>3, <2>4
  <1> QED BY <1>1, <1>2, <1>7, <1>8, <1>9, <1>10

LEMMA SendKeeps ==
    ASSUME FInv, NEW t \in Triggers, NEW k \in Keys, NEW p \in Pipelines, Function!Send(t, k, p)
    PROVE  FInv'
  <1>0. PICK n : n = Len(events) + 1
    OBVIOUS
  <1>1. /\ FTyped'
        /\ n \in Nat /\ n \notin Sent /\ Sent' = Sent \cup {n} /\ Sent = 1..(n - 1)
        /\ \A i \in Sent : /\ events'[i] = events[i] /\ state'[i] = state[i]
                           /\ calls'[i] = calls[i] /\ began'[i] = began[i] /\ ended'[i] = ended[i]
        /\ events'[n] = [for |-> t, key |-> k, pipeline |-> p, at |-> now]
        /\ calls'[n] = 0 /\ began'[n] = now /\ ended'[n] = now
        /\ state'[n] \in {"dropped", "queued"}
        /\ UNCHANGED <<maker, guard, trigger, now>>
    BY <1>0, SendAppends
  <1>2. /\ events'[n].for = t /\ events'[n].key = k /\ events'[n].pipeline = p
        /\ events'[n].at = now
    BY <1>1
  <1>3. \A i \in Sent : i < n /\ i \in Nat
    BY <1>1
  <1>4. DOMAIN events = Sent
    BY DEF FInv, FTyped, Sent
  <1>5. state'[n] = "dropped" <=>
          \/ Function!mapTriggerConfig(t) # Function!mapTriggerConfig(trigger)
          \/ Function!Config.idempotency /\ k # Null /\ Function!Seen(k)
          \/ Function!Config.singleton /\ Function!Taken(p)
    BY <1>0 DEF Function!Send, FInv, FTyped
  <1>6. /\ Function!Seen(k) <=> \E j \in Sent : /\ state[j] # "dropped" /\ events[j].key = k
                                                /\ now < events[j].at + Window
        /\ Function!Taken(p) <=> \E j \in Sent : /\ state[j] \in {"queued", "running", "paused"}
                                                 /\ events[j].pipeline = p
    BY <1>4 DEF Function!Seen, Function!Taken, Function!UnderWay, Function!InState
  <1>7. (Function!Kit <=> Function!Kit') /\ (Rejects <=> Rejects')
    BY <1>1 DEF Function!Kit, Rejects, Function!Rejects
  <1>8. /\ now \in Nat /\ Window \in Nat /\ \A i \in Sent : state[i] \in States
        /\ \A i \in Sent : events[i].at \in Nat /\ ended[i] \in Nat
    <2>1. \A i \in Sent : events[i] \in Events
      BY DEF FInv, FTyped, Sent
    <2>2. \A i \in Sent : events[i].at \in Nat
      BY <2>1 DEF Events
    <2> QED BY <2>2, GuardsAssumption DEF GuardsAssumption, FInv, FTyped, Sent
  <1>9. Times'
    BY <1>1, <1>2, <1>8 DEF FInv, Times
  <1>10. Called'
    BY <1>1 DEF FInv, Called
  <1>11. PipelineAlone'
    <2> SUFFICES ASSUME Rejects, NEW i \in Sent', NEW j \in Sent', i < j,
                        state'[i] # "dropped", state'[j] # "dropped",
                        events'[i].pipeline = events'[j].pipeline
                 PROVE  state'[i] = "done" /\ ended'[i] <= events'[j].at
      BY <1>7 DEF PipelineAlone
    <2>1. i \in Sent
      BY <1>1, <1>3
    <2>2. CASE j \in Sent
      BY <2>1, <2>2, <1>1 DEF FInv, PipelineAlone
    <2>3. CASE j = n
      <3>1. ~Function!Taken(p)
        BY <2>3, <1>5, ConfigIs
      <3>2. state[i] = "done"
        BY <2>1, <2>3, <3>1, <1>1, <1>2, <1>6, <1>8 DEF States
      <3> QED BY <2>1, <2>3, <3>2, <1>1, <1>2 DEF FInv, Times
    <2> QED BY <2>2, <2>3, <1>1
  <1>12. WindowApart' /\ PeriodApart'
    <2> SUFFICES ASSUME Function!Kit, NEW i \in Sent', NEW j \in Sent', i < j,
                        state'[i] # "dropped", state'[j] # "dropped",
                        events'[i].key = events'[j].key, events'[i].key # Null
                 PROVE  /\ events'[i].at + Window <= events'[j].at
                        /\ (calls'[i] # 0 /\ calls'[j] # 0) =>
                              \/ began'[i] + guard.period <= began'[j]
                              \/ began'[j] + guard.period <= began'[i]
      BY <1>1, <1>7 DEF WindowApart, PeriodApart, SameKey
    <2>1. i \in Sent
      BY <1>1, <1>3
    <2>2. CASE j \in Sent
      BY <2>1, <2>2, <1>1 DEF FInv, WindowApart, PeriodApart, SameKey
    <2>3. CASE j = n
      <3>1. ~Function!Seen(k)
        BY <2>3, <1>1, <1>2, <1>5, ConfigIs
      <3> QED BY <2>1, <2>3, <3>1, <1>1, <1>2, <1>6, <1>8
    <2> QED BY <2>2, <2>3, <1>1
  <1>13. Reasons'
    <2> SUFFICES ASSUME NEW i \in Sent', state'[i] = "dropped"
                 PROVE  (events[i].for # trigger \/ ByKey(i) \/ ByPipeline(i))'
      BY DEF Reasons
    <2>1. CASE i = n
      <3>1. CASE t # trigger
        BY <2>1, <3>1, <1>1, <1>2
      <3>2. CASE Function!Kit /\ k # Null /\ Function!Seen(k)
        <4>1. PICK j \in Sent : /\ state[j] # "dropped" /\ events[j].key = k
                                /\ now < events[j].at + Window
          BY <3>2, <1>6
        <4>2. /\ state'[j] # "dropped" /\ j < i /\ events'[j].key = events'[i].key
              /\ events'[i].at < events'[j].at + Window /\ events'[i].key # Null /\ j \in Sent'
          BY <2>1, <3>2, <4>1, <1>1, <1>2, <1>3
        <4> QED BY <3>2, <4>2, <1>7 DEF ByKey
      <3>3. CASE Rejects /\ Function!Taken(p)
        <4>1. PICK j \in Sent : /\ state[j] \in {"queued", "running", "paused"}
                                /\ events[j].pipeline = p
          BY <3>3, <1>6
        <4>2. /\ state'[j] # "dropped" /\ state'[j] # "done" /\ j < i /\ j \in Sent'
              /\ events'[j].pipeline = events'[i].pipeline
          BY <2>1, <4>1, <1>1, <1>2, <1>3
        <4> QED BY <3>3, <4>2, <1>7 DEF ByPipeline
      <3> QED BY <2>1, <3>1, <3>2, <3>3, <1>5, ConfigIs
    <2>2. CASE i \in Sent
      <3>1. events[i].for # trigger \/ ByKey(i) \/ ByPipeline(i)
        BY <2>2, <1>1 DEF FInv, Reasons
      <3>2. CASE events[i].for # trigger
        BY <2>2, <3>2, <1>1
      <3>3. ByKey(i) => ByKey(i)'
        BY <2>2, <1>1, <1>7 DEF ByKey
      <3>4. ByPipeline(i) => ByPipeline(i)'
        BY <2>2, <1>1, <1>7 DEF ByPipeline
      <3> QED BY <3>1, <3>2, <3>3, <3>4
    <2> QED BY <2>1, <2>2, <1>1
  <1> QED BY <1>1, <1>9, <1>10, <1>11, <1>12, <1>13 DEF FInv

\* The moves of a run that was kept: what is done stays done, and an end is
\* not before any event was sent.
Moves(i) ==
    /\ state[i] # "dropped" /\ state[i] # "done"
    /\ \E s \in {"running", "paused", "done"} :
          /\ state' = [state EXCEPT ![i] = s]
          /\ ended' = IF s = "done" THEN [ended EXCEPT ![i] = now] ELSE ended
          /\ s \in {"running", "paused"} => calls'[i] # 0
    /\ \E c \in Nat : c # 0 /\ calls' = [calls EXCEPT ![i] = c]
    /\ IF state[i] = "queued"
       THEN began' = [began EXCEPT ![i] = now]
            /\ (events[i].key # Null => ~Function!Throttled(events[i].key))
       ELSE began' = began /\ calls[i] # 0
    /\ UNCHANGED <<maker, guard, trigger, now, events>>

LEMMA MovesOnly ==
    ASSUME FInv, NEW i \in DOMAIN events,
           Function!Begin(i) \/ Function!Pause(i) \/ Function!Resume(i) \/ Function!End(i)
    PROVE  Moves(i)
  <1>1. /\ i \in Sent /\ DOMAIN calls = Sent /\ calls[i] \in Nat
        /\ calls = [calls EXCEPT ![i] = calls[i]]
        /\ state[i] \in {"running", "paused"} => calls[i] # 0
    BY DEF FInv, FTyped, Sent, Called
  <1>2. CASE Function!Begin(i)
    <2>1. /\ state[i] = "queued" /\ state' = [state EXCEPT ![i] = "running"]
          /\ calls' = [calls EXCEPT ![i] = 1] /\ began' = [began EXCEPT ![i] = now]
          /\ events[i].key # Null => ~Function!Throttled(events[i].key)
          /\ UNCHANGED <<maker, guard, trigger, now, events, ended>>
      BY <1>2 DEF Function!Begin
    <2>2. calls'[i] = 1 /\ 1 \in Nat /\ 1 # 0
      BY <1>1, <2>1
    <2> QED BY <2>1, <2>2 DEF Moves
  <1>3. CASE Function!Pause(i)
    <2>1. state[i] = "running" /\ calls' = [calls EXCEPT ![i] = calls[i]]
      BY <1>1, <1>3 DEF Function!Pause
    <2> QED BY <2>1, <1>1, <1>3 DEF Function!Pause, Moves
  <1>4. CASE Function!Resume(i)
    <2>1. calls[i] + 1 \in Nat /\ calls[i] + 1 # 0 /\ calls' = [calls EXCEPT ![i] = calls[i] + 1]
      BY <1>1, <1>4 DEF Function!Resume
    <2> QED BY <2>1, <1>1, <1>4 DEF Function!Resume, Moves
  <1>5. CASE Function!End(i)
    <2>1. state[i] = "running" /\ calls' = [calls EXCEPT ![i] = calls[i]]
      BY <1>1, <1>5 DEF Function!End
    <2> QED BY <2>1, <1>1, <1>5 DEF Function!End, Moves
  <1> QED BY <1>2, <1>3, <1>4, <1>5

LEMMA MoveKeeps == ASSUME FInv, NEW i \in Sent, Moves(i) PROVE FInv'
  <1> USE DEF FInv
  <1>1. PICK s \in {"running", "paused", "done"} :
            /\ state' = [state EXCEPT ![i] = s]
            /\ ended' = IF s = "done" THEN [ended EXCEPT ![i] = now] ELSE ended
    BY DEF Moves
  <1>2. PICK c \in Nat : c # 0 /\ calls' = [calls EXCEPT ![i] = c]
    BY DEF Moves
  <1>3. /\ UNCHANGED <<maker, guard, trigger, now, events>> /\ Sent' = Sent
        /\ state[i] # "dropped" /\ state[i] # "done"
        /\ began' = [began EXCEPT ![i] = now] \/ began' = began
    BY DEF Moves, Sent
  <1>0. /\ DOMAIN state = Sent /\ DOMAIN calls = Sent /\ DOMAIN began = Sent
        /\ DOMAIN ended = Sent /\ now \in Nat
    BY DEF FTyped, Sent
  <1>4. FTyped'
    <2>1. state' \in Seq(States) /\ Len(state') = Len(state)
      BY <1>1, ExceptSeq DEF FTyped, States, Sent
    <2>2. calls' \in Seq(Nat) /\ Len(calls') = Len(calls)
      BY <1>2, ExceptSeq DEF FTyped, Sent
    <2>3. began' \in Seq(Nat) /\ Len(began') = Len(began)
      <3>1. i \in 1..Len(began) /\ began \in Seq(Nat)
        BY DEF FTyped, Sent
      <3>2. [began EXCEPT ![i] = now] \in Seq(Nat) /\ Len([began EXCEPT ![i] = now]) = Len(began)
        BY <3>1, <1>0, ExceptSeq
      <3> QED BY <3>1, <3>2, <1>3
    <2>4. ended' \in Seq(Nat) /\ Len(ended') = Len(ended)
      BY <1>0, <1>1, ExceptSeq DEF FTyped, Sent
    <2> QED BY <2>1, <2>2, <2>3, <2>4, <1>3 DEF FTyped
  <1>5. \A j \in Sent : /\ state'[j] = IF j = i THEN s ELSE state[j]
                        /\ state'[j] # "dropped" <=> state[j] # "dropped"
                        /\ state[j] = "done" => state'[j] = "done" /\ ended'[j] = ended[j]
                        /\ state'[j] = "done" => ended'[j] = now \/ (ended'[j] = ended[j] /\ state[j] = "done")
                        /\ ended'[j] = now \/ ended'[j] = ended[j]
                        /\ calls'[j] = IF j = i THEN c ELSE calls[j]
                        /\ began'[j] = now \/ began'[j] = began[j]
                        /\ j # i => began'[j] = began[j]
    BY <1>0, <1>1, <1>2, <1>3
  <1>6. (Function!Kit <=> Function!Kit') /\ (Rejects <=> Rejects')
    BY <1>3 DEF Function!Kit, Rejects, Function!Rejects
  <1>7. now \in Nat /\ guard.period \in Nat /\ \A j \in Sent : began[j] \in Nat
    <2>1. guard \in Guards /\ began \in Seq(Nat) /\ Len(began) = Len(events)
      BY DEF FTyped
    <2>2. guard.period \in Nat
      BY <2>1, GuardsAssumption DEF GuardsAssumption
    <2> QED BY <2>1, <2>2, <1>0 DEF Sent
  <1>8. Times'
    BY <1>3, <1>5, <1>7 DEF Times
  <1>9. Called'
    BY <1>2, <1>3, <1>5 DEF Called
  <1>10. PipelineAlone'
    BY <1>3, <1>5, <1>6 DEF PipelineAlone
  <1>11. \A j, l \in Sent : SameKey(j, l)' <=> SameKey(j, l)
    BY <1>3, <1>5 DEF SameKey
  <1>12. WindowApart'
    BY <1>3, <1>6, <1>11 DEF WindowApart
  <1>13. PeriodApart'
    <2> SUFFICES ASSUME Function!Kit, NEW j \in Sent, NEW l \in Sent, SameKey(j, l),
                        calls'[j] # 0, calls'[l] # 0
                 PROVE  \/ began'[j] + guard.period <= began'[l]
                        \/ began'[l] + guard.period <= began'[j]
      BY <1>3, <1>6, <1>11 DEF PeriodApart
    <2>0. j # l /\ events[j].key = events[l].key /\ events[j].key # Null
      BY DEF SameKey, Sent
    <2>1. CASE state[i] # "queued" \/ (i # j /\ i # l)
      <3>1. began'[j] = began[j] /\ began'[l] = began[l] /\ calls[j] # 0 /\ calls[l] # 0
        BY <2>1, <1>5 DEF Moves
      <3> QED BY <3>1 DEF PeriodApart
    <2>2. ASSUME NEW m \in Sent, i # m, calls[m] # 0, events[m].key = events[i].key,
                 events[i].key # Null, state[i] = "queued"
          PROVE  began[m] + guard.period <= began'[i]
      <3>1. ~Function!Throttled(events[i].key) /\ began' = [began EXCEPT ![i] = now]
        BY <2>2 DEF Moves
      <3>2. m \in Function!Begun
        BY <2>2 DEF Function!Begun, FTyped, Sent
      <3>3. ~(now < began[m] + guard.period)
        BY <3>1, <3>2, <2>2, ConfigIs DEF Function!Throttled
      <3>4. began'[i] = now
        BY <3>1 DEF FTyped, Sent
      <3> QED BY <3>3, <3>4, <1>7
    <2>3. CASE state[i] = "queued" /\ i = j
      BY <2>0, <2>2, <2>3, <1>5
    <2>4. CASE state[i] = "queued" /\ i = l
      BY <2>0, <2>2, <2>4, <1>5
    <2> QED BY <2>1, <2>3, <2>4
  <1>14. Reasons'
    <2> SUFFICES ASSUME NEW j \in Sent, state'[j] = "dropped"
                 PROVE  (events[j].for # trigger \/ ByKey(j) \/ ByPipeline(j))'
      BY <1>3 DEF Reasons
    <2>1. events[j].for # trigger \/ ByKey(j) \/ ByPipeline(j)
      BY <1>5 DEF Reasons
    <2>2. ByKey(j) => ByKey(j)'
      BY <1>3, <1>5, <1>6 DEF ByKey
    <2>3. ByPipeline(j) => ByPipeline(j)'
      BY <1>3, <1>5, <1>6 DEF ByPipeline, Times
    <2> QED BY <2>1, <2>2, <2>3, <1>3
  <1> QED BY <1>4, <1>8, <1>9, <1>10, <1>12, <1>13, <1>14

LEMMA TickKeeps == ASSUME FInv, Function!Tick PROVE FInv'
  <1>1. /\ now' = now + 1 /\ UNCHANGED <<maker, guard, trigger, events, state, calls, began, ended>>
        /\ now \in Nat
    BY DEF Function!Tick, FInv, FTyped
  <1>2. FTyped'
    BY <1>1 DEF FInv, FTyped
  <1>3. Times'
    <2>1. \A i \in Sent : events[i] \in Events
      BY DEF FInv, FTyped, Sent
    <2>2. \A i \in Sent : events[i].at \in Nat /\ began[i] \in Nat /\ ended[i] \in Nat
      BY <2>1 DEF FInv, FTyped, Sent, Events
    <2> QED BY <2>2, <1>1 DEF FInv, Times, Sent
  <1>4. (Called /\ PipelineAlone /\ WindowApart /\ PeriodApart /\ Reasons)'
    BY <1>1 DEF FInv, Called, PipelineAlone, WindowApart, PeriodApart, Reasons, ByKey, ByPipeline,
                SameKey, Sent, Rejects, Function!Rejects, Function!Kit
  <1> QED BY <1>2, <1>3, <1>4 DEF FInv

LEMMA FunctionSteps == FInv /\ [Function!Next]_functionVars => FInv'
  <1> SUFFICES ASSUME FInv, [Function!Next]_functionVars PROVE FInv'
    OBVIOUS
  <1>1. CASE \E t \in Triggers, k \in Keys, p \in Pipelines : Function!Send(t, k, p)
    BY <1>1, SendKeeps
  <1>2. ASSUME NEW i \in DOMAIN events,
               Function!Begin(i) \/ Function!Pause(i) \/ Function!Resume(i) \/ Function!End(i)
        PROVE  FInv'
    <2>1. i \in Sent
      BY DEF FInv, FTyped, Sent
    <2> QED BY <2>1, <1>2, MovesOnly, MoveKeeps
  <1>3. CASE UNCHANGED functionVars
    <2>1. UNCHANGED <<maker, guard, trigger, now, events, state, calls, began, ended>>
      BY <1>3 DEF functionVars
    <2>2. FTyped' /\ Times' /\ Called'
      BY <2>1 DEF FInv, FTyped, Times, Called, Sent
    <2>3. PipelineAlone' /\ WindowApart' /\ PeriodApart'
      BY <2>1 DEF FInv, PipelineAlone, WindowApart, PeriodApart, SameKey, Sent, Rejects,
                  Function!Rejects, Function!Kit
    <2>4. Reasons'
      BY <2>1 DEF FInv, Reasons, ByKey, ByPipeline, Sent, Rejects, Function!Rejects, Function!Kit
    <2> QED BY <2>2, <2>3, <2>4 DEF FInv
  <1> QED BY <1>1, <1>2, <1>3, TickKeeps DEF Function!Next

-----------------------------------------------------------------------------
\* Both parts at once: whichever part takes steps, the other keeps its state.
Inv == RunInv /\ FInv

LEMMA InvAlways == MCSpec => []Inv
  <1>1. MCInit => Inv
    BY RunInitially, FunctionInitially DEF MCInit, Inv
  <1>2. Inv /\ [MCNext]_<<part, vars, functionVars>> => Inv'
    <2> SUFFICES ASSUME Inv, [MCNext]_<<part, vars, functionVars>> PROVE Inv'
      OBVIOUS
    <2>1. [Next]_vars
      BY DEF MCNext
    <2>2. [Function!Next]_functionVars
      BY DEF MCNext
    <2> QED BY <2>1, <2>2, RunSteps, FunctionSteps DEF Inv
  <1> QED BY <1>1, <1>2, PTL DEF MCSpec

\* Every variable of a run keeps its type; no step runs more than Retries + 1
\* times (create-kit-function.ts 126-128).
THEOREM TypeCorrect == MCSpec => []TypeOK
  <1>1. Inv => TypeOK
    BY Zenon DEF Inv, RunInv, Flags, Kinds, TypeOK
  <1> QED BY <1>1, InvAlways, PTL

\* A run that is done has every step ok, every child heard and its checkpoint
\* ended, and, with the data.runId injected, a review that is answered while it
\* is waited for resumes the run (kit-step.ts 11-17, hrp-bridge.ts).
THEOREM RunIsSoundAlways == ASSUME Injected PROVE MCSpec => []RunIsSound
  <1>1. Inv => RunIsSound
    BY RunIsSoundInside DEF Inv, RunIsSound
  <1> QED BY <1>1, InvAlways, PTL

\* The same without the injected runId, but for the resumption.
THEOREM DoneMeansAllOkAlways == MCSpec => []DoneMeansAllOk
  <1>1. Inv => DoneMeansAllOk
    BY RunIsSoundInside DEF Inv
  <1> QED BY <1>1, InvAlways, PTL

\* Kept events of one dedupKey are a Window apart and their runs begin a dedup
\* period apart, a rejecting guard keeps a pipelineId to itself from the event
\* to the end of the run, and what is dropped is dropped for a reason
\* (create-kit-function.ts 105-154).
THEOREM FunctionIsGuardedAlways == MCSpec => []FunctionIsGuarded
  <1>1. Inv => FunctionIsGuarded
    BY FunctionIsGuardedThen DEF Inv
  <1> QED BY <1>1, InvAlways, PTL

\* The two action properties of ReplayIsSafe: a replay runs no step again that
\* is remembered and none before the steps it follows, and an error that is
\* final takes no further attempt (kit-step.ts 11-17).
THEOREM ReplayIsInOrder == MCSpec => StepsInOrder
  <1>1. Inv /\ [MCNext]_<<part, vars, functionVars>> =>
          [\A i \in Steps : runs'[i] # runs[i] =>
              /\ memo[i] = None /\ \A j \in 1..(i - 1) : memo[j] = "ok"]_vars
    <2> SUFFICES ASSUME Inv, [MCNext]_<<part, vars, functionVars>>, NEW i \in Steps,
                        runs'[i] # runs[i]
                 PROVE  memo[i] = None /\ \A j \in 1..(i - 1) : memo[j] = "ok"
      OBVIOUS
    <2>1. [Next]_vars
      BY DEF MCNext
    <2> QED BY <2>1, StepIsInOrder DEF Inv
  <1> QED BY <1>1, InvAlways, PTL DEF MCSpec, StepsInOrder

THEOREM FinalTakesNoAttemptAlways == MCSpec => FinalIsNotRetried
  <1>1. Inv /\ [MCNext]_<<part, vars, functionVars>> =>
          [\A i \in Steps : memo[i] = "final" => attempt' = attempt]_vars
    <2> SUFFICES ASSUME Inv, [MCNext]_<<part, vars, functionVars>>, NEW i \in Steps,
                        memo[i] = "final"
                 PROVE  attempt' = attempt
      OBVIOUS
    <2>1. [Next]_vars
      BY DEF MCNext
    <2> QED BY <2>1, FinalTakesNoAttempt DEF Inv
  <1> QED BY <1>1, InvAlways, PTL DEF MCSpec, FinalIsNotRetried
=============================================================================
