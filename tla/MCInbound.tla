----------------------------- MODULE MCInbound -----------------------------
(***************************************************************************)
(* Instances for TLC of what brings items into a pipeline: AsyncQueue,     *)
(* PagedSource, RemoteReads and SignedDelivery.  They do not interact: a   *)
(* behaviour is one of the source that part names.                         *)
(***************************************************************************)
EXTENDS AsyncQueue

CONSTANTS Rows, Bad, PageSizes, MaxChanges, Poll, MaxWait, Latency, LastTime,
          Secrets, Second, Tolerance, Skew

\* Rows and secrets are numbers (0 is no secret), and so are the times.
ASSUME InboundAssumption ==
    /\ IsFiniteSet(Rows) /\ Rows \subseteq Nat /\ PageSizes \subseteq Nat
    /\ Second \in Nat \ {0} /\ {Tolerance, Skew, Poll, MaxWait, Latency} \subseteq Nat
    /\ Secrets \subseteq Nat \ {0}

VARIABLES
    part,
    kind, verb, wrapped, size, rows, stable, inserted, deleted, position, atoms, pc,
    result, refused, stopped, changes,
    now, status, endedAt, how, at, since, read, deadline, cancelled, cancelledAt, outcome,
    mode, expectArray, schema, step, open, calls, rest, yielded, error, left,
    time, ahead, secret, held, wire, answer,
    heard, said

MCKinds == {"cursor", "offset", "page", "none", "dataset", "store"}
MCCreatedAt == [r \in Rows |-> r]
MCContents == {<<>>, <<"good">>, <<"list">>, <<"image", "list", "good">>,
               <<"bad", "good">>, <<"good", "good">>}

Pages == INSTANCE PagedSource WITH Kinds <- MCKinds, CreatedAt <- MCCreatedAt, aborted <- stopped
Remote == INSTANCE RemoteReads WITH Contents <- MCContents, verb <- mode, pc <- step, aborted <- left
Signed == INSTANCE SignedDelivery WITH now <- time, LastTime <- Tolerance + Second

pageVars == <<kind, verb, wrapped, size, rows, stable, inserted, deleted, position, atoms, pc,
              result, refused, stopped, changes>>
actorVars == <<now, status, endedAt, how, at, since, read, deadline, cancelled,
               cancelledAt, outcome>>
toolVars == <<mode, expectArray, schema, step, open, calls, rest, yielded, error, left>>
signedVars == <<time, ahead, secret, held, wire, answer>>
answerVars == <<heard, said>>
allVars == <<part, vars, pageVars, actorVars, toolVars, signedVars, answerVars>>

\* What the other parts do does not matter: they start in one state.
MCInit ==
    /\ part \in {"queue", "pages", "actor", "tool", "signed", "answers"}
    /\ IF part = "answers" THEN TRUE ELSE heard = [source |-> "mcp", status |-> "timeout"]
    /\ IF part = "pages" THEN TRUE ELSE kind = "none" /\ verb = "iter" /\ rows = {}
    /\ IF part = "actor" THEN TRUE ELSE how = "iter" /\ cancelled = FALSE
    /\ IF part = "tool" THEN TRUE
       ELSE mode = "iter" /\ expectArray = FALSE /\ schema = "unknown"
    /\ IF part = "signed" THEN TRUE ELSE ahead = 0
    /\ Init /\ Remote!AnswerInit /\ Pages!Init /\ Remote!ApifyInit /\ Remote!Init /\ Signed!Init

MCNext ==
    /\ \/ part = "queue" /\ Next
          /\ UNCHANGED <<pageVars, actorVars, toolVars, signedVars, answerVars>>
       \/ part = "pages" /\ Pages!Next
          /\ UNCHANGED <<vars, actorVars, toolVars, signedVars, answerVars>>
       \/ part = "actor" /\ Remote!ApifyNext
          /\ UNCHANGED <<vars, pageVars, toolVars, signedVars, answerVars>>
       \/ part = "tool" /\ Remote!Next
          /\ UNCHANGED <<vars, pageVars, actorVars, signedVars, answerVars>>
       \/ part = "signed" /\ Signed!Next
          /\ UNCHANGED <<vars, pageVars, actorVars, toolVars, answerVars>>
       \/ part = "answers" /\ Remote!AnswerNext
          /\ UNCHANGED <<vars, pageVars, actorVars, toolVars, signedVars>>
    /\ UNCHANGED part

\* The runs keep pulling, a reader goes on, and its requests are answered.
MCSpec ==
    /\ MCInit /\ [][MCNext]_allVars
    /\ \A i \in Iterators :
        WF_allVars(/\ part = "queue" /\ Generator(i)
                   /\ UNCHANGED <<part, pageVars, actorVars, toolVars, signedVars, answerVars>>)
    /\ WF_allVars(/\ part = "pages" /\ Pages!Read
                  /\ UNCHANGED <<part, vars, actorVars, toolVars, signedVars, answerVars>>)

\* PagedSource: each item is read once, in order. RemoteReads: every
\* wait is decided, every client closed, failures are classed, and a derived
\* schema is the declared one. SignedDelivery: what was signed is accepted, and
\* nothing else is.
SourcesAreSound ==
    /\ part = "pages" => Pages!PagesAreRead
    /\ part = "actor" => Remote!PollIsDecided
    /\ part = "tool" => Remote!ClientIsClosed
    /\ part = "signed" => Signed!SignedIsAccepted /\ Signed!VerifiersAgree
    /\ part = "answers" => Remote!FailuresAreClassed /\ Remote!DerivedIsDeclared

\* AsyncQueue: an item is handed over to a consumer that waits. PagedSource:
\* reading ends.
HandedOverAndRead == EventuallyHandedOver /\ (part = "pages" => Pages!ReadingEnds)

OptionalMayBeMissing == part = "answers" => Remote!OptionalMayBeMissing
DeniedIsFinal == part = "answers" => Remote!DeniedIsFinal
DeclaredSchemaRefuses == Remote!DeclaredSchemaRefuses
OnePageOnly == part = "pages" => Pages!OnePageOnly
IterTellsFailure == part = "pages" => Pages!IterTellsFailure
=============================================================================
