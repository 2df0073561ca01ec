----------------------------- MODULE MCOutbound -----------------------------
(***************************************************************************)
(* Instances of ServeOnce, ServeAnswers, PipelineServes and Reviews for    *)
(* TLC: a behaviour is one of the stage that part names.                   *)
(***************************************************************************)
EXTENDS ServeOnce

CONSTANTS
    Interval, Timeout, Latency, LastTime,   \* Reviews
    Adapters, Attempts, MayAbort, None,     \* ServeAnswers
    Stages, MaxTries, MaxLines,             \* Reviews
    Emits, Backoff, Tolerance, MaxSteps     \* PipelineServes

VARIABLES
    part,
    now, review, at, sentAt, wake, deadline, read, deaf, last, outcome, decision,
    decidedAt, abortedAt, thrown,
    adapter, input, step, causes, keys, aborted, result,
    tty, ask, decided, terminal, flowing, lines, stopped, heard, crossed,
    setup, clock, stage, since, tries, request, queue, returned, lost,
    by, argument, phase, steps, inner, left, late, reply

Answers == INSTANCE ServeAnswers WITH at <- step
Review == INSTANCE Reviews WITH pc <- at, Allowed <- {"approved"}, result <- decided
Relay == INSTANCE PipelineServes WITH now <- clock, result <- returned

\* A request arrives before its signature is too old, which by default takes
\* five minutes; None is what nothing else is.
ASSUME OutboundAssumption ==
    /\ IsFiniteSet(Runs) /\ {NServes, MaxAttempts, Attempts} \subseteq Nat \ {0}
    /\ Adapters \subseteq {"webhook", "slack", "smtp", "resend", "postal", "mcp"}
    /\ {Interval, Timeout, Latency, Tolerance} \subseteq Nat /\ Latency <= Tolerance
    /\ None # "approved" /\ None \notin [for : Stages, word : Review!Words, no : Nat]

reviewVars == <<now, review, at, sentAt, wake, deadline, read, deaf, last, outcome,
                decision, decidedAt, abortedAt, thrown>>

answerVars == <<adapter, input, step, causes, keys, aborted, result>>
consoleVars == <<tty, ask, decided, terminal, flowing, lines, stopped, heard, crossed>>
relayVars == <<setup, clock, stage, since, tries, request, queue, returned, lost>>
toolVars == <<by, argument, phase, steps, inner, left, late, reply>>

\* The stages that a behaviour is not about stay in one state.
MCInit ==
    /\ part \in {"serve", "answers", "relay", "tool", "review", "console"}
    /\ IF part = "serve" THEN TRUE
       ELSE /\ provider = "mcp" /\ streaming = TRUE /\ shared = TRUE
            /\ runKey = CHOOSE f \in [Runs -> Keys] : \A q, r \in Runs : f[q] = f[r]
    /\ IF part = "answers" THEN TRUE ELSE adapter = "mcp" /\ input = "valid"
    /\ IF part = "console" THEN TRUE ELSE tty = FALSE
    /\ IF part = "relay" THEN TRUE
       ELSE setup = [auth |-> "none", sameSecret |-> FALSE, sameHeader |-> FALSE,
                     keyHeader |-> "unset"]
    /\ IF part = "tool" THEN TRUE ELSE by = "emit" /\ argument = "valid"
    /\ Init /\ Review!Init /\ Answers!Init /\ Review!ConsoleInit /\ Relay!Init /\ Relay!ToolInit

reviews == <<reviewVars, consoleVars>>
MCNext ==
    /\ \/ part = "serve" /\ Next /\ UNCHANGED <<reviews, answerVars, relayVars, toolVars>>
       \/ part = "answers" /\ Answers!Next /\ UNCHANGED <<vars, reviews, relayVars, toolVars>>
       \/ part = "relay" /\ Relay!Next /\ UNCHANGED <<vars, reviews, answerVars, toolVars>>
       \/ part = "tool" /\ Relay!ToolNext /\ UNCHANGED <<vars, reviews, answerVars, relayVars>>
       \/ part = "review" /\ Review!Next
          /\ UNCHANGED <<vars, answerVars, consoleVars, relayVars, toolVars>>
       \/ part = "console" /\ Review!ConsoleNext
          /\ UNCHANGED <<vars, answerVars, reviewVars, relayVars, toolVars>>
    /\ UNCHANGED part

outboundVars == <<part, vars, reviews, answerVars, relayVars, toolVars>>
MCSpec == MCInit /\ [][MCNext]_outboundVars

\* ServeOnce: an emit that returned ok was carried out, and what was carried
\* out twice has a cause no adapter can know; so it is from a webhook's emit
\* to the queue of the source that hears it (PipelineServes).
DeliveredWithCause == OkIsDeliveredApart /\ DuplicatesHaveCause /\ Relay!RelayIsSound

\* ServeAnswers: what the other side says is retried, or not, as it means.
\* PipelineServes: what a tool says is what became of its pipeline's run.
AnswersAreUnderstood == Answers!AnswersAreUnderstood /\ Relay!ToolIsTrue

EmitIsOneItem == Relay!EmitIsOneItem
LeavingStops == Relay!LeavingStops
CancelledIsSaid == Relay!CancelledIsSaid
AnswersAreOfSchema == Relay!AnswersAreOfSchema

\* Reviews: the decision reaches the stage as it was taken, is read
\* unless it comes in the last round, and an abort ends the waiting; a line
\* at the terminal decides who asked, once.
ReviewIsHeeded ==
    /\ Review!DecisionIsPassedOn /\ Review!DecidedInTimeIsRead /\ Review!AbortEndsReview
    /\ Review!LinesDecide

LinesAreTheirOwn == Review!LinesAreTheirOwn
StopIsHeeded == Review!StopIsHeeded
OnlyAllowed == Review!OnlyAllowed
TimeoutMeansUndecided == Review!TimeoutMeansUndecided
RefusalsAreFinalEverywhere == Answers!RefusalsAreFinalEverywhere
RequiredKeyIsSent == Answers!RequiredKeyIsSent
=============================================================================
