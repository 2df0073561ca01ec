------------------------------- MODULE Reviews -------------------------------
(***************************************************************************)
(* A review as a process stage: reviewableToProcess over                   *)
(* GatewerkReviewable, called by withRetry.                                *)
(*                                                                         *)
(* An attempt creates a review, then polls it until a decision is read,    *)
(* the deadline has passed or the signal is seen; only a decision "retry"  *)
(* and an exception of the client make withRetry call again.  Time is      *)
(* discrete; a request takes at most Latency and is not awaited longer,    *)
(* and a timer fires when it is due.                                       *)
(***************************************************************************)
EXTENDS Integers, Naturals, Sequences

CONSTANTS
    MaxAttempts, \* of the stage
    Interval,    \* pollIntervalMs
    Timeout,     \* timeoutMs
    Latency,     \* of a request to Gatewerk
    LastTime     \* bound on time

Reviews == 1..MaxAttempts
\* "edited" is an approval with an edited_payload; an unknown decision is
\* mapped to ignored.
Decisions == {"approved", "edited", "rejected", "retry", "ignored"}
Outcomes == Decisions \cup {"timeout", "cancelled", "transport"}

VARIABLES
    now,
    review,     \* number of the attempt, and of the review it creates
    pc, sentAt, wake, deadline,
    read,       \* what the request in flight has read
    deaf,       \* the sleep began after the signal: its listener never fires
    last,       \* outcome of the last attempt that returned one
    outcome,
    decision, decidedAt,   \* at Gatewerk, of each review
    abortedAt,  \* when the signal fired, -1 before
    thrown      \* reviews whose attempt ended in an exception

stage == <<review, pc, sentAt, wake, deadline, read, deaf, last, outcome, thrown>>
vars == <<now, stage, decision, decidedAt, abortedAt>>

aborted == abortedAt >= 0

TypeOK ==
    /\ now \in 0..LastTime /\ review \in Reviews
    /\ pc \in {"begin", "create", "created", "check", "get", "got", "sleep", "done"}
    /\ {sentAt, wake, deadline} \subseteq Nat
    /\ read \in Decisions \cup {"none"} /\ deaf \in BOOLEAN
    /\ last \in Outcomes \cup {"none"} /\ outcome \in Outcomes \cup {"pending"}
    /\ decision \in [Reviews -> Decisions \cup {"absent", "none"}]
    /\ decidedAt \in [Reviews -> Nat] /\ abortedAt \in -1..LastTime
    /\ thrown \subseteq Reviews

Init ==
    /\ now = 0 /\ review = 1 /\ pc = "begin"
    /\ sentAt = 0 /\ wake = 0 /\ deadline = 0
    /\ read = "none" /\ deaf = FALSE /\ last = "none" /\ outcome = "pending"
    /\ decision = [k \in Reviews |-> "absent"] /\ decidedAt = [k \in Reviews |-> 0]
    /\ abortedAt = -1 /\ thrown = {}

-----------------------------------------------------------------------------
External == <<now, decision, decidedAt, abortedAt>>

Returns(o) == pc' = "done" /\ outcome' = o /\ last' = o /\ UNCHANGED review

\* withRetry calls again, after a backoff that no signal cuts short.
AgainOr(o) ==
    IF review < MaxAttempts
    THEN review' = review + 1 /\ pc' = "begin" /\ UNCHANGED outcome
    ELSE pc' = "done" /\ outcome' = o /\ UNCHANGED review

\* The signal is tested before each attempt; what an earlier one returned
\* then stands.
Begin ==
    /\ pc = "begin"
    /\ IF aborted
       THEN Returns(IF last = "none" THEN "cancelled" ELSE last) /\ UNCHANGED sentAt
       ELSE pc' = "create" /\ sentAt' = now /\ UNCHANGED <<review, last, outcome>>
    /\ UNCHANGED <<External, wake, deadline, read, deaf, thrown>>

\* Gatewerk opens the review.
Opens ==
    /\ pc = "create" /\ decision[review] = "absent"
    /\ pc' = "created" /\ decision' = [decision EXCEPT ![review] = "none"]
    /\ UNCHANGED <<now, review, sentAt, wake, deadline, read, deaf, last, outcome,
                   thrown, decidedAt, abortedAt>>

Created ==
    /\ pc = "created"
    /\ pc' = "check" /\ deadline' = now + Timeout
    /\ UNCHANGED <<External, review, sentAt, wake, read, deaf, last, outcome, thrown>>

RequestIsRetried ==                                                 \* mutant
    /\ pc \in {"create", "created", "get", "got"}
    /\ AgainOr("transport")
    /\ UNCHANGED <<External, sentAt, wake, deadline, read, deaf, last, thrown>>
\* An error of create or get, or no id: of type process for withRetry.
RequestFails ==
    /\ pc \in {"create", "created", "get", "got"}
    /\ Returns("transport")
    /\ UNCHANGED <<External, sentAt, wake, deadline, read, deaf, thrown>>

\* The client rejects instead: nothing catches it but withRetry.
RequestThrows ==
    /\ pc \in {"create", "created", "get", "got"}
    /\ thrown' = thrown \cup {review}
    /\ AgainOr(IF last = "none" THEN "cancelled" ELSE last)
    /\ UNCHANGED <<External, sentAt, wake, deadline, read, deaf, last>>

CheckNextRound ==                                                   \* mutant
    /\ pc = "check"
    /\ IF now + Interval >= deadline THEN Returns("timeout") /\ UNCHANGED sentAt
       ELSE IF aborted THEN Returns("cancelled") /\ UNCHANGED sentAt
       ELSE pc' = "get" /\ sentAt' = now /\ UNCHANGED <<review, last, outcome>>
    /\ UNCHANGED <<External, wake, deadline, read, deaf, thrown>>
CheckUnaborted ==                                                   \* mutant
    /\ pc = "check"
    /\ IF now >= deadline THEN Returns("timeout") /\ UNCHANGED sentAt
       ELSE pc' = "get" /\ sentAt' = now /\ UNCHANGED <<review, last, outcome>>
    /\ UNCHANGED <<External, wake, deadline, read, deaf, thrown>>
Check ==
    /\ pc = "check"
    /\ IF now >= deadline THEN Returns("timeout") /\ UNCHANGED sentAt
       ELSE IF aborted THEN Returns("cancelled") /\ UNCHANGED sentAt
       ELSE pc' = "get" /\ sentAt' = now /\ UNCHANGED <<review, last, outcome>>
    /\ UNCHANGED <<External, wake, deadline, read, deaf, thrown>>

GatewerkReads ==
    /\ pc = "get"
    /\ pc' = "got" /\ read' = decision[review]
    /\ UNCHANGED <<External, review, sentAt, wake, deadline, deaf, last, outcome, thrown>>

Undecided ==
    /\ pc = "got" /\ read = "none"
    /\ pc' = "sleep" /\ wake' = now + Interval /\ deaf' = aborted
    /\ UNCHANGED <<External, review, sentAt, deadline, read, last, outcome, thrown>>

Decided ==
    /\ pc = "got" /\ read # "none"
    /\ IF read = "retry" THEN last' = "retry" /\ AgainOr("retry") ELSE Returns(read)
    /\ UNCHANGED <<External, sentAt, wake, deadline, read, deaf, thrown>>

Wakes ==
    /\ pc = "sleep" /\ (now >= wake \/ (aborted /\ ~deaf))
    /\ pc' = "check"
    /\ UNCHANGED <<External, review, sentAt, wake, deadline, read, deaf, last, outcome, thrown>>

\* The reviewer decides any review that is open, also one nobody polls.
Decide ==
    \E k \in Reviews, d \in Decisions :
        /\ decision[k] = "none" /\ pc # "done"
        /\ decision' = [decision EXCEPT ![k] = d]
        /\ decidedAt' = [decidedAt EXCEPT ![k] = now]
        /\ UNCHANGED <<now, stage, abortedAt>>

Abort ==
    /\ ~aborted /\ pc # "done" /\ abortedAt' = now
    /\ UNCHANGED <<now, stage, decision, decidedAt>>

\* Time passes while the stage waits for an answer, a timer or a backoff.
Tick ==
    /\ now < LastTime
    /\ CASE pc \in {"create", "created", "get", "got"} -> now < sentAt + Latency
         [] pc = "sleep" -> now < wake /\ (deaf \/ ~aborted)
         [] pc = "begin" -> review > 1
         [] OTHER -> FALSE
    /\ now' = now + 1
    /\ UNCHANGED <<stage, decision, decidedAt, abortedAt>>

Next ==
    \/ Begin \/ Opens \/ Created \/ RequestFails \/ RequestThrows \/ Check
    \/ GatewerkReads \/ Undecided \/ Decided \/ Wakes \/ Decide \/ Abort \/ Tick

Spec == Init /\ [][Next]_vars

-----------------------------------------------------------------------------
(***************************************************************************)
(* Properties.                                                             *)
(***************************************************************************)
\* The stage passes on the decision of the review it created last, and
\* created another only because the one before was decided "retry" or an
\* exception hid its answer.
DecisionIsPassedOn ==
    /\ outcome \in Decisions \ {"retry"} => decision[review] = outcome
    /\ \A k \in 1..(review - 1) : decision[k] = "retry" \/ k \in thrown

\* A decision taken one round of polling before the deadline is never
\* answered with a timeout: an interval and a request remain to read it.
DecidedInTimeIsRead ==
    outcome = "timeout" =>
        ~ /\ decision[review] \in Decisions
          /\ decidedAt[review] + Latency + Interval < deadline

\* Neither the request in flight nor the sleep that follows keeps a signal
\* from ending the review within one round, although a sleep begun after
\* the signal cannot be woken by it.
AbortEndsReview ==
    aborted /\ pc \notin {"begin", "done"} => now <= abortedAt + Latency + Interval

\* The message of a timeout: "gatewerk review did not decide within
\* ${timeoutMs}ms" (gatewerk-reviewable.ts:128).
TimeoutMeansUndecided ==
    outcome = "timeout" => ~(decision[review] \in Decisions /\ decidedAt[review] < deadline)

------------------------------------------------------------------------------
(***************************************************************************)
(* Reviews at one terminal: reviewableToProcess over ConsoleReviewable     *)
(* (packages/process-reviewable/src/console-reviewable.ts), called by      *)
(* withRetry, in runs that share the process.  Each open question has a    *)
(* listener on stdin; a line goes to all that listen when it is read, and  *)
(* once stdin flows it is read although nobody listens.                    *)
(***************************************************************************)

CONSTANTS
    Stages,         \* that ask, each for one input
    Allowed,        \* config: the decisions it allows
    MaxTries,       \* of a stage
    MaxLines,       \* bound: lines the reviewer types
    None

VARIABLES
    tty,        \* process.stdin.isTTY
    ask,        \* of each stage: "begin", "open", "done", and the tries it has begun
    result,     \* what it returned last
    terminal,   \* the lines typed and not read: an answer, who it is for, and its number
    flowing,    \* stdin has been listened to
    lines,      \* typed so far
    stopped,    \* the signal of the runs has fired
    heard,      \* history: the line each stage has read
    crossed     \* history: stages whose question was not the only one

consoleVars == <<tty, ask, result, terminal, flowing, lines, stopped, heard, crossed>>

Words == {"a", "r", "e", "q", "i"}

ConsoleInit ==
    /\ tty \in BOOLEAN
    /\ ask = [s \in Stages |-> [at |-> "begin", tries |-> 0]]
    /\ result = [s \in Stages |-> None]
    /\ terminal = <<>> /\ flowing = FALSE /\ lines = 0 /\ stopped = FALSE
    /\ heard = [s \in Stages |-> None] /\ crossed = {}

Open == {s \in Stages : ask[s].at = "open"}

-----------------------------------------------------------------------------
parseLeniently(word) ==                                             \* mutant
    CASE word = "r" -> "rejected" [] word = "q" -> "retry"
      [] word = "i" -> "ignored" [] OTHER -> "approved"
\* parseAnswer: what the prompt calls edit is unknown to it, and the config
\* is not looked at.
parseAnswer(word) ==
    CASE word = "a" -> "approved" [] word = "r" -> "rejected" [] word = "q" -> "retry"
      [] OTHER -> "ignored"

\* withRetry tests the signal first; the review does not.
BeginAsking(s) ==
    /\ ask[s].at = "begin"
    /\ CASE stopped ->
              /\ ask' = [ask EXCEPT ![s].at = "done"]
              /\ result' = [result EXCEPT ![s] = IF @ = None THEN "cancelled" ELSE @]
              /\ UNCHANGED <<flowing, crossed>>
         [] ~stopped /\ ~tty ->
              /\ ask' = [ask EXCEPT ![s].at = "done"]
              /\ result' = [result EXCEPT ![s] = "unsupported"]
              /\ UNCHANGED <<flowing, crossed>>
         [] OTHER ->
              /\ ask' = [ask EXCEPT ![s] = [at |-> "open", tries |-> @.tries + 1]]
              /\ flowing' = TRUE
              /\ crossed' = IF Open = {} THEN crossed ELSE crossed \cup Open \cup {s}
              /\ UNCHANGED result
    /\ UNCHANGED <<tty, terminal, lines, stopped, heard>>

\* The reviewer answers a question that is open, or one to come.
Types(s, word) ==
    /\ lines < MaxLines /\ lines' = lines + 1
    /\ terminal' = Append(terminal, [for |-> s, word |-> word, no |-> lines'])
    /\ UNCHANGED <<tty, ask, result, flowing, stopped, heard, crossed>>

ReadStays ==                                                        \* mutant
    /\ flowing /\ terminal # <<>> /\ Open # {}
    /\ heard' = [s \in Stages |-> IF s \in Open THEN Head(terminal) ELSE heard[s]]
    /\ result' = [s \in Stages |->
                     IF s \in Open THEN parseAnswer(Head(terminal).word) ELSE result[s]]
    /\ ask' = [s \in Stages |->
                  IF s \in Open THEN [ask[s] EXCEPT !.at = "done"] ELSE ask[s]]
    /\ UNCHANGED <<tty, terminal, flowing, lines, stopped, crossed>>
\* stdin emits a line: whoever listens decides by it, and asks again after
\* "retry", while it has tries.
Read ==
    /\ flowing /\ terminal # <<>> /\ terminal' = Tail(terminal)
    /\ heard' = [s \in Stages |-> IF s \in Open THEN Head(terminal) ELSE heard[s]]
    /\ result' = [s \in Stages |->
                     IF s \in Open THEN parseAnswer(Head(terminal).word) ELSE result[s]]
    /\ ask' = [s \in Stages |->
                  IF s \notin Open THEN ask[s]
                  ELSE [ask[s] EXCEPT !.at =
                          IF parseAnswer(Head(terminal).word) = "retry"
                             /\ ask[s].tries < MaxTries THEN "begin" ELSE "done"]]
    /\ UNCHANGED <<tty, flowing, lines, stopped, crossed>>

Stop ==
    /\ ~stopped /\ stopped' = TRUE
    /\ UNCHANGED <<tty, ask, result, terminal, flowing, lines, heard, crossed>>

ConsoleNext ==
    \/ Read \/ Stop
    \/ \E s \in Stages : BeginAsking(s) \/ \E w \in Words : Types(s, w)

-----------------------------------------------------------------------------
(* A stage passes its input on only after a line that approves; one line     *)
(* decides two stages only where both questions were open at once, and one   *)
(* stage is not decided by a line that decided another before (console-      *)
(* reviewable.ts 90-98: the listener is removed as the line is read).        *)
LinesDecide ==
    /\ \A s \in Stages : result[s] = "approved" => heard[s] # None /\ heard[s].word = "a"
    /\ \A s \in Stages, t \in Stages \ crossed :
           (s # t /\ heard[s] # None /\ heard[t] # None) => heard[s].no # heard[t].no

(* Not so: a line answers the question it was typed for.                     *)
LinesAreTheirOwn ==
    \A s \in Stages : heard[s] # None => heard[s].for = s
(* Not so: the signal ends a review, as it does in GatewerkReviewable (104). *)
StopIsHeeded == stopped => Open = {}
(* Not so: a decision is one of those ReviewableConfig allows                *)
(* (research-notes-cat-IV.md:250, "permissions").                            *)
OnlyAllowed == \A s \in Stages : result[s] \in {"approved", "rejected", "retry"} => result[s] \in Allowed
==============================================================================
