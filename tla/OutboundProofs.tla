--------------------------- MODULE OutboundProofs ---------------------------
(***************************************************************************)
(* Theorems about what a run sends out and asks: reviews at Gatewerk and   *)
(* at a terminal; the emits of serves, and a webhook serve heard by a      *)
(* webhook source.                                                         *)
(***************************************************************************)
EXTENDS MCOutbound, FiniteSetTheorems, SequenceTheorems, TLAPS

LEMMA PartSteps ==
    [MCNext]_outboundVars =>
        /\ Next \/ UNCHANGED vars
        /\ Review!Next \/ UNCHANGED reviewVars
        /\ Review!ConsoleNext \/ UNCHANGED consoleVars
        /\ Relay!Next \/ UNCHANGED relayVars
        /\ Answers!Next \/ UNCHANGED answerVars
        /\ Relay!ToolNext \/ UNCHANGED toolVars
  BY DEF MCNext, outboundVars, reviews

LEMMA PartInit ==
    MCInit => Init /\ Review!Init /\ Review!ConsoleInit /\ Relay!Init /\ Answers!Init /\ Relay!ToolInit
  BY DEF MCInit

ConstantTypes ==
    /\ MaxAttempts \in Nat \ {0} /\ Interval \in Nat /\ Timeout \in Nat /\ Latency \in Nat
    /\ Tolerance \in Nat /\ Latency <= Tolerance

LEMMA Constants == ConstantTypes
  BY OutboundAssumption DEF OutboundAssumption, ConstantTypes

-----------------------------------------------------------------------------
(* A review at Gatewerk (process-reviewable/src/gatewerk-reviewable.ts).     *)
ReviewTyped ==
    /\ now \in Nat /\ review \in 1..MaxAttempts
    /\ at \in {"begin", "create", "created", "check", "get", "got", "sleep", "done"}
    /\ sentAt \in Nat /\ wake \in Nat /\ deadline \in Nat
    /\ decision \in [1..MaxAttempts -> Review!Decisions \cup {"absent", "none"}]
    /\ decidedAt \in [1..MaxAttempts -> Nat]
    /\ abortedAt \in Int /\ abortedAt <= now

\* Nothing is returned before the end; a review is open while it is waited
\* for, and what was read of it is its decision.
Waiting ==
    /\ at # "done" => outcome = "pending" /\ last \in {"none", "retry"}
    /\ at \in {"created", "check", "get", "got", "sleep"} => decision[review] # "absent"
    /\ at = "got" => read \in {"none", decision[review]}

\* Time stands still for what is due.
OnTime ==
    /\ at \in {"create", "created", "get", "got"} => sentAt <= now /\ now <= sentAt + Latency
    /\ at = "sleep" => now <= wake /\ wake <= now + Interval

\* A decision is at most one round older than the request that has missed it.
Round(t) ==
    /\ at = "created" \/ (at = "got" /\ read = "none") => sentAt <= t
    /\ at = "sleep" => wake <= t + Latency + Interval
    /\ at = "check" => now <= t + Latency + Interval
ReadInTime == decision[review] \in Review!Decisions => Round(decidedAt[review])

\* Nor is the signal older than that.
SignalInTime ==
    Review!aborted =>
        /\ at \in {"create", "created", "get", "got"} => sentAt <= abortedAt
        /\ at = "sleep" => IF deaf THEN wake <= abortedAt + Latency + Interval
                           ELSE now = abortedAt
        /\ at = "check" => now <= abortedAt + Latency + Interval

ReviewInv ==
    /\ ReviewTyped /\ Waiting /\ OnTime /\ ReadInTime /\ SignalInTime
    /\ Review!DecisionIsPassedOn /\ Review!DecidedInTimeIsRead

LEMMA ReviewInit == Review!Init => ReviewInv
  <1>1. ConstantTypes
    BY Constants
  <1> QED
    BY <1>1
    DEF Review!Init, ConstantTypes, ReviewInv, ReviewTyped, Waiting, OnTime, ReadInTime,
        Review!Decisions, Review!Reviews, Review!aborted, SignalInTime,
        Review!DecisionIsPassedOn, Review!DecidedInTimeIsRead

LEMMA ReviewStep == ReviewInv /\ (Review!Next \/ UNCHANGED reviewVars) => ReviewInv'
  <1>0. ConstantTypes
    BY Constants
  <1> SUFFICES ASSUME ReviewInv, Review!Next \/ UNCHANGED reviewVars PROVE ReviewInv'
    OBVIOUS
  <1> USE <1>0 DEF ConstantTypes, ReviewInv, ReviewTyped, Review!aborted, Review!External
  <1> DEFINE Same == UNCHANGED <<now, decision, decidedAt, abortedAt>>
  \* What ends in a return, or in another attempt.
  <1>a. ASSUME NEW o, Review!Returns(o), Same, UNCHANGED <<sentAt, wake, deadline, read, deaf>>,
               o \in Review!Decisions \ {"retry"} => decision[review] = o,
               o = "timeout" => deadline <= now /\ ReadInTime /\ at = "check",
               at # "done", thrown' = thrown
        PROVE  ReviewInv'
    BY <1>a
    DEF Review!Returns, Waiting, OnTime, ReadInTime, Round, SignalInTime,
        Review!DecisionIsPassedOn, Review!DecidedInTimeIsRead, Review!Decisions
  <1>b. ASSUME NEW o, Review!AgainOr(o), Same, UNCHANGED <<sentAt, wake, deadline, read, deaf>>,
               o \in {"retry", "cancelled", "transport"}, at # "done",
               last' \in {"none", "retry"}, thrown \subseteq thrown',
               decision[review] = "retry" \/ review \in thrown'
        PROVE  ReviewInv'
    BY <1>b
    DEF Review!AgainOr, Waiting, OnTime, ReadInTime, Round, SignalInTime,
        Review!DecisionIsPassedOn, Review!DecidedInTimeIsRead, Review!Decisions
  <1>1. CASE Review!Begin
    <2>1. CASE Review!aborted
      BY <2>1, <1>1, <1>a DEF Review!Begin, Waiting, Review!Decisions
    <2>2. CASE ~Review!aborted
      BY <2>2, <1>1
      DEF Review!Begin, Waiting, OnTime, ReadInTime, Round, SignalInTime,
          Review!DecisionIsPassedOn, Review!DecidedInTimeIsRead, Review!Decisions
    <2> QED
      BY <2>1, <2>2
  <1>2. CASE Review!Opens
    BY <1>2
    DEF Review!Opens, Waiting, OnTime, ReadInTime, Round, SignalInTime,
        Review!DecisionIsPassedOn, Review!DecidedInTimeIsRead, Review!Decisions
  <1>3. CASE Review!Created
    BY <1>3
    DEF Review!Created, Waiting, OnTime, ReadInTime, Round, SignalInTime,
        Review!DecisionIsPassedOn, Review!DecidedInTimeIsRead, Review!Decisions
  <1>4. CASE Review!RequestFails
    BY <1>4, <1>a DEF Review!RequestFails, Review!Decisions
  <1>5. CASE Review!RequestThrows
    BY <1>5, <1>b DEF Review!RequestThrows, Waiting
  <1>6. CASE Review!Check
    <2>1. CASE now >= deadline
      BY <2>1, <1>6, <1>a DEF Review!Check, Review!Decisions
    <2>2. CASE ~(now >= deadline) /\ Review!aborted
      BY <2>2, <1>6, <1>a DEF Review!Check, Review!Decisions
    <2>3. CASE ~(now >= deadline) /\ ~Review!aborted
      BY <2>3, <1>6
      DEF Review!Check, Waiting, OnTime, ReadInTime, Round, SignalInTime,
          Review!DecisionIsPassedOn, Review!DecidedInTimeIsRead, Review!Decisions
    <2> QED
      BY <2>1, <2>2, <2>3
  <1>7. CASE Review!GatewerkReads
    BY <1>7
    DEF Review!GatewerkReads, Waiting, OnTime, ReadInTime, Round, SignalInTime,
        Review!DecisionIsPassedOn, Review!DecidedInTimeIsRead, Review!Decisions
  <1>8. CASE Review!Undecided
    <2>1. /\ at = "got" /\ read = "none" /\ at' = "sleep" /\ wake' = now + Interval
          /\ (deaf' <=> abortedAt >= 0)
          /\ UNCHANGED <<now, decision, decidedAt, abortedAt, review, sentAt, deadline, read,
                         last, outcome, thrown>>
      BY <1>8 DEF Review!Undecided
    <2>2. now <= sentAt + Latency
      BY <2>1 DEF OnTime
    <2>3. SignalInTime'
      BY <2>1, <2>2 DEF SignalInTime
    <2> QED
      BY <2>1, <2>2, <2>3
      DEF Waiting, OnTime, ReadInTime, Round, Review!DecisionIsPassedOn,
          Review!DecidedInTimeIsRead, Review!Decisions
  <1>9. CASE Review!Decided
    <2>1. decision[review] = read
      BY <1>9 DEF Review!Decided, Waiting
    <2>2. CASE read = "retry"
      BY <2>1, <2>2, <1>9, <1>b DEF Review!Decided
    <2>3. CASE read # "retry"
      BY <2>1, <2>3, <1>9, <1>a DEF Review!Decided, Review!Decisions
    <2> QED
      BY <2>2, <2>3
  <1>10. CASE Review!Wakes
    BY <1>10
    DEF Review!Wakes, Waiting, OnTime, ReadInTime, Round, SignalInTime,
        Review!DecisionIsPassedOn, Review!DecidedInTimeIsRead, Review!Decisions
  <1>11. CASE Review!Decide
    BY <1>11
    DEF Review!Decide, Review!stage, Waiting, OnTime, ReadInTime, Round, SignalInTime,
        Review!DecisionIsPassedOn, Review!DecidedInTimeIsRead, Review!Decisions,
        Review!Reviews
  <1>12. CASE Review!Abort
    BY <1>12
    DEF Review!Abort, Review!stage, Waiting, OnTime, ReadInTime, Round, SignalInTime,
        Review!DecisionIsPassedOn, Review!DecidedInTimeIsRead, Review!Decisions
  <1>13. CASE Review!Tick
    <2>1. /\ now' = now + 1
          /\ UNCHANGED <<decision, decidedAt, abortedAt, review, at, sentAt, wake, deadline,
                         read, deaf, last, outcome, thrown>>
      BY <1>13 DEF Review!Tick, Review!stage
    <2>2. at \in {"create", "created", "get", "got"} => now < sentAt + Latency
      BY <1>13 DEF Review!Tick
    <2>3. at = "sleep" => now < wake /\ (deaf \/ ~(abortedAt >= 0))
      BY <1>13 DEF Review!Tick
    <2>4. at \notin {"check", "done"}
      BY <1>13 DEF Review!Tick
    <2> QED
      BY <2>1, <2>2, <2>3, <2>4
      DEF Waiting, OnTime, ReadInTime, Round, SignalInTime, Review!DecisionIsPassedOn,
          Review!DecidedInTimeIsRead, Review!Decisions
  <1>14. CASE UNCHANGED reviewVars
    BY <1>14
    DEF reviewVars, Waiting, OnTime, ReadInTime, Round, SignalInTime,
        Review!DecisionIsPassedOn, Review!DecidedInTimeIsRead, Review!Decisions
  <1> QED
    BY <1>1, <1>2, <1>3, <1>4, <1>5, <1>6, <1>7, <1>8, <1>9, <1>10, <1>11, <1>12, <1>13, <1>14
    DEF Review!Next

LEMMA ReviewFollows == ReviewInv => Review!AbortEndsReview
  <1>1. ConstantTypes
    BY Constants
  <1> QED
    BY <1>1
    DEF ConstantTypes, ReviewInv, ReviewTyped, OnTime, SignalInTime, Review!aborted,
        Review!AbortEndsReview

-----------------------------------------------------------------------------
(* Reviews at a terminal (process-reviewable/src/console-reviewable.ts).     *)
TypedLines == [for : Stages, word : Review!Words, no : Nat]

ConsoleTyped ==
    /\ ask \in [Stages -> [at : {"begin", "open", "done"}, tries : Nat]]
    /\ DOMAIN decided = Stages /\ lines \in Nat
    /\ terminal \in Seq(TypedLines) /\ heard \in [Stages -> TypedLines \cup {None}]

\* Lines are numbered as they are typed, and read in that order.
InOrder ==
    /\ \A i \in 1..Len(terminal) : terminal[i].no <= lines
    /\ \A i, j \in 1..Len(terminal) : i < j => terminal[i].no < terminal[j].no
Behind(line) ==
    line # None =>
        /\ line.no <= lines
        /\ \A i \in 1..Len(terminal) : line.no < terminal[i].no
HeardInOrder == \A s \in Stages : Behind(heard[s])

\* Questions that are open at once are known to be.
OpenIsCrossed ==
    \A s, t \in Review!Open : s # t => s \in crossed /\ t \in crossed

ConsoleInv ==
    ConsoleTyped /\ InOrder /\ HeardInOrder /\ OpenIsCrossed /\ Review!LinesDecide

ConsoleConstants == None # "approved" /\ None \notin TypedLines
LEMMA ConsoleFacts == ConsoleConstants
  BY OutboundAssumption DEF OutboundAssumption, ConsoleConstants, TypedLines

LEMMA ConsoleInitial == Review!ConsoleInit => ConsoleInv
  BY ConsoleFacts
  DEF ConsoleConstants, Review!ConsoleInit, ConsoleInv, ConsoleTyped, InOrder, HeardInOrder,
      Behind, OpenIsCrossed, Review!Open, Review!LinesDecide

LEMMA ReadStep == ConsoleInv /\ Review!Read => ConsoleInv'
  <1> SUFFICES ASSUME ConsoleInv, Review!Read PROVE ConsoleInv'
    OBVIOUS
  <1>0. ConsoleConstants
    BY ConsoleFacts
  <1> USE DEF ConsoleInv, ConsoleTyped
  <1> DEFINE line == Head(terminal)
  <1>1. /\ terminal # <<>> /\ line \in TypedLines /\ line = terminal[1]
        /\ terminal' \in Seq(TypedLines) /\ Len(terminal') = Len(terminal) - 1
        /\ \A i \in 1..Len(terminal') : terminal'[i] = terminal[i + 1]
    BY DEF Review!Read
  <1>12. \A i \in 1..Len(terminal) : terminal[i].no \in Nat
    <2>1. \A i \in 1..Len(terminal) : terminal[i] \in TypedLines
      OBVIOUS
    <2> QED
      BY <2>1 DEF TypedLines
  <1>2. /\ heard' = [s \in Stages |-> IF s \in Review!Open THEN line ELSE heard[s]]
        /\ decided' = [s \in Stages |-> IF s \in Review!Open THEN Review!parseAnswer(line.word)
                                        ELSE decided[s]]
        /\ UNCHANGED <<lines, crossed>>
    BY DEF Review!Read
  <1>3. ask' \in [Stages -> [at : {"begin", "open", "done"}, tries : Nat]] /\ Review!Open' = {}
    BY DEF Review!Read, Review!Open
  <1> HIDE DEF line
  <1>4. line.word \in Review!Words /\ line.no \in Nat /\ line # None
    BY <1>0, <1>1 DEF TypedLines, ConsoleConstants
  <1>5. ConsoleTyped'
    BY <1>1, <1>2, <1>3
  <1>6. InOrder'
    <2>1. \A i \in 1..Len(terminal') : terminal'[i].no <= lines
      BY <1>1 DEF InOrder
    <2>2. ASSUME NEW i \in 1..Len(terminal'), NEW j \in 1..Len(terminal'), i < j
          PROVE  terminal'[i].no < terminal'[j].no
      <3>1. i + 1 \in 1..Len(terminal) /\ j + 1 \in 1..Len(terminal) /\ i + 1 < j + 1
        BY <2>2, <1>1
      <3> QED
        BY <3>1, <1>1 DEF InOrder
    <2> QED
      BY <2>1, <2>2, <1>2 DEF InOrder
  <1>7. \A i \in 1..Len(terminal') : line.no < terminal'[i].no
    <2> SUFFICES ASSUME NEW i \in 1..Len(terminal') PROVE line.no < terminal'[i].no
      OBVIOUS
    <2>1. i + 1 \in 1..Len(terminal) /\ 1 \in 1..Len(terminal) /\ 1 < i + 1
      BY <1>1
    <2> QED
      BY <2>1, <1>1 DEF InOrder
  <1>8. ASSUME NEW s \in Stages PROVE Behind(heard[s])'
    <2>1. CASE s \in Review!Open
      BY <2>1, <1>1, <1>2, <1>7 DEF Behind, InOrder
    <2>2. CASE s \notin Review!Open
      BY <2>2, <1>1, <1>2 DEF Behind, HeardInOrder
    <2> QED
      BY <2>1, <2>2
  <1>9. OpenIsCrossed'
    BY <1>3 DEF OpenIsCrossed
  <1>10. ASSUME NEW s \in Stages, decided'[s] = "approved"
         PROVE  heard'[s] # None /\ heard'[s].word = "a"
    BY <1>2, <1>4, <1>10 DEF Review!LinesDecide, Review!parseAnswer, Review!Words
  <1>11. ASSUME NEW s \in Stages, NEW t \in Stages \ crossed', s # t, heard'[s] # None,
                heard'[t] # None
         PROVE  heard'[s].no # heard'[t].no
    <2>1. CASE s \in Review!Open /\ t \in Review!Open
      BY <2>1, <1>2, <1>11 DEF OpenIsCrossed
    <2>2. ASSUME NEW u \in Stages, u \notin Review!Open, heard[u] # None
          PROVE  heard[u].no < line.no /\ heard[u].no \in Nat
      BY <2>2, <1>1, <1>0 DEF HeardInOrder, Behind, TypedLines
    <2>3. CASE s \notin Review!Open /\ t \notin Review!Open
      BY <2>3, <1>2, <1>11 DEF Review!LinesDecide
    <2> QED
      BY <2>1, <2>2, <2>3, <1>2, <1>4, <1>11
  <1> QED
    BY <1>5, <1>6, <1>8, <1>9, <1>10, <1>11 DEF HeardInOrder, Review!LinesDecide

LEMMA ConsoleStep == ConsoleInv /\ (Review!ConsoleNext \/ UNCHANGED consoleVars) => ConsoleInv'
  <1> SUFFICES ASSUME ConsoleInv, Review!ConsoleNext \/ UNCHANGED consoleVars PROVE ConsoleInv'
    OBVIOUS
  <1>0. ConsoleConstants
    BY ConsoleFacts
  <1> USE DEF ConsoleInv, ConsoleTyped
  <1>1. ASSUME NEW s \in Stages, Review!BeginAsking(s) PROVE ConsoleInv'
    <2>1. UNCHANGED <<terminal, lines, heard>>
      BY <1>1 DEF Review!BeginAsking
    <2>7. \/ /\ ask' = [ask EXCEPT ![s].at = "done"]
             /\ decided' \in {[decided EXCEPT ![s] = "unsupported"],
                               [decided EXCEPT ![s] = IF @ = None THEN "cancelled" ELSE @]}
             /\ UNCHANGED crossed
          \/ /\ ask' = [ask EXCEPT ![s] = [at |-> "open", tries |-> @.tries + 1]]
             /\ crossed' = IF Review!Open = {} THEN crossed ELSE crossed \cup Review!Open \cup {s}
             /\ UNCHANGED decided
      BY <1>1, Zenon DEF Review!BeginAsking
    <2>8. [at |-> "open", tries |-> ask[s].tries + 1] \in
             [at : {"begin", "open", "done"}, tries : Nat]
      OBVIOUS
    <2>9. /\ ask' \in [Stages -> [at : {"begin", "open", "done"}, tries : Nat]]
          /\ \A t \in Stages : t # s => ask'[t] = ask[t]
          /\ ask'[s].at = "done" \/ ask'[s].at = "open"
          /\ ask'[s].at = "done" => UNCHANGED crossed
          /\ ask'[s].at = "open" =>
                crossed' = IF Review!Open = {} THEN crossed ELSE crossed \cup Review!Open \cup {s}
      BY <2>7, <2>8
    <2>2. DOMAIN decided' = Stages
      BY <2>7
    <2>3. InOrder' /\ HeardInOrder'
      BY <2>1 DEF InOrder, HeardInOrder, Behind
    <2>4. OpenIsCrossed' /\ crossed \subseteq crossed'
      <3>1. Review!Open' \subseteq Review!Open \cup {s}
        BY <2>9 DEF Review!Open
      <3>2. CASE ask'[s].at = "done"
        <4>1. Review!Open' \subseteq Review!Open
          BY <3>1, <3>2 DEF Review!Open
        <4> QED
          BY <4>1, <3>2, <2>9 DEF OpenIsCrossed
      <3>3. CASE ask'[s].at = "open"
        BY <3>1, <3>3, <2>9 DEF OpenIsCrossed
      <3> QED
        BY <3>2, <3>3, <2>9
    <2>5. \A t \in Stages : decided'[t] = "approved" => decided[t] = "approved"
      BY <2>7
    <2>6. (Review!LinesDecide)'
      BY <2>1, <2>4, <2>5 DEF Review!LinesDecide
    <2> QED
      BY <2>1, <2>2, <2>3, <2>4, <2>6, <2>9
  <1>2. ASSUME NEW s \in Stages, NEW word \in Review!Words, Review!Types(s, word)
        PROVE  ConsoleInv'
    <2> DEFINE new == [for |-> s, word |-> word, no |-> lines']
    <2>1. /\ lines' = lines + 1 /\ terminal' = Append(terminal, new)
          /\ UNCHANGED <<ask, decided, heard, crossed>>
      BY <1>2 DEF Review!Types
    <2>2. new \in TypedLines /\ new.no = lines + 1
      BY <2>1 DEF TypedLines
    <2> HIDE DEF new
    <2>3. /\ terminal' \in Seq(TypedLines) /\ Len(terminal') = Len(terminal) + 1
          /\ \A i \in 1..Len(terminal) : terminal'[i] = terminal[i] /\ terminal[i] \in TypedLines
          /\ terminal'[Len(terminal) + 1] = new
      BY <2>1, <2>2
    <2>4. InOrder'
      <3>1. ASSUME NEW i \in 1..Len(terminal') PROVE terminal'[i].no <= lines'
        BY <2>1, <2>2, <2>3 DEF InOrder, TypedLines
      <3>2. ASSUME NEW i \in 1..Len(terminal'), NEW j \in 1..Len(terminal'), i < j
            PROVE  terminal'[i].no < terminal'[j].no
        <4>1. i \in 1..Len(terminal)
          BY <3>2, <2>3
        <4>2. terminal'[i].no \in Nat /\ terminal'[i].no <= lines
          BY <4>1, <2>3 DEF InOrder, TypedLines
        <4>3. CASE j \in 1..Len(terminal)
          BY <4>1, <4>3, <3>2, <2>3 DEF InOrder
        <4>4. CASE j = Len(terminal) + 1
          BY <4>2, <4>4, <2>2, <2>3
        <4> QED
          BY <4>3, <4>4, <2>3
      <3> QED
        BY <3>1, <3>2 DEF InOrder
    <2>5. HeardInOrder'
      BY <2>1, <2>2, <2>3, <1>0 DEF HeardInOrder, Behind, TypedLines
    <2>6. OpenIsCrossed' /\ (Review!LinesDecide)'
      BY <2>1 DEF OpenIsCrossed, Review!Open, Review!LinesDecide
    <2> QED
      BY <2>1, <2>3, <2>4, <2>5, <2>6
  <1>3. CASE Review!Stop \/ UNCHANGED consoleVars
    BY <1>3
    DEF Review!Stop, consoleVars, InOrder, HeardInOrder, Behind, OpenIsCrossed, Review!Open,
        Review!LinesDecide
  <1> QED
    BY <1>1, <1>2, <1>3, ReadStep DEF Review!ConsoleNext

\* A stage passes on the decision of the review it created last, one taken a
\* round before the deadline is never answered with a timeout, a signal ends
\* the waiting within a round, and a line at the terminal decides who asked,
\* once (gatewerk-reviewable.ts, console-reviewable.ts under retry.ts).
THEOREM ReviewIsHeededAlways == MCSpec => []ReviewIsHeeded
  <1>1. MCInit => ReviewInv /\ ConsoleInv
    BY PartInit, ReviewInit, ConsoleInitial
  <1>2. ReviewInv /\ ConsoleInv /\ [MCNext]_outboundVars => (ReviewInv /\ ConsoleInv)'
    BY PartSteps, ReviewStep, ConsoleStep
  <1>3. ReviewInv /\ ConsoleInv => ReviewIsHeeded
    BY ReviewFollows DEF ReviewInv, ConsoleInv, ReviewIsHeeded
  <1> QED
    BY <1>1, <1>2, <1>3, PTL DEF MCSpec

-----------------------------------------------------------------------------
(* A webhook serve heard by a webhook source (serve-webhook/src/             *)
(* webhook-serve.ts, source-webhook/src/webhook-source.ts).                  *)
Items == [emit : Emits, key : Emits \cup {"none"}]

RelayTyped ==
    /\ clock \in Nat /\ lost \in [Emits -> Nat] /\ since \in [Emits -> Nat]
    /\ stage \in [Emits -> {"emit", "sent", "answered", "backoff", "done"}]
    /\ DOMAIN request = Emits /\ DOMAIN returned = Emits
    /\ queue \in Seq(Items)

\* A request is signed when it is sent, and on its way no longer than it takes.
Signed(e) ==
    stage[e] = "sent" =>
        request[e] = <<[key |-> e, t |-> since[e]]>> /\ clock <= since[e] + Latency

\* The answer says what became of the request, and is what is returned.
Told(e) ==
    /\ stage[e] = "answered" =>
          /\ request[e] \in {<<200>>, <<400>>}
          /\ request[e] = <<200>> => Relay!Copies(e) # {}
          /\ Relay!Verifiable => request[e] = <<200>>
    /\ returned[e] = "ok" => Relay!Copies(e) # {}
    /\ stage[e] # "done" => returned[e] = "none"
    /\ Relay!Verifiable => returned[e] # "validation"

\* One copy is owed to an answer that is known, or that may still be lost.
Owed(e) == returned[e] = "ok" \/ (stage[e] = "answered" /\ request[e] = <<200>>)
Excused(e) ==
    /\ IsFiniteSet(Relay!Copies(e)) /\ Cardinality(Relay!Copies(e)) <= 1 + lost[e]
    /\ Owed(e) \/ Cardinality(Relay!Copies(e)) <= lost[e]

KeysAreOfEmits ==
    setup.keyHeader = "same" => \A n \in 1..Len(queue) : queue[n].key = queue[n].emit

RelayInv ==
    RelayTyped /\ KeysAreOfEmits /\ \A e \in Emits : Signed(e) /\ Told(e) /\ Excused(e)

LEMMA SameCardinality == ASSUME NEW S PROVE Relay!Cardinality(S) = Cardinality(S)
  BY DEF Relay!Cardinality, Cardinality

LEMMA RelayInitial == Relay!Init => RelayInv
  <1> SUFFICES ASSUME Relay!Init PROVE RelayInv
    OBVIOUS
  <1>1. \A e \in Emits : Relay!Copies(e) = {}
    BY DEF Relay!Init, Relay!Copies
  <1> QED
    <2>1. RelayTyped /\ KeysAreOfEmits
      BY DEF Relay!Init, RelayTyped, KeysAreOfEmits
    <2>2. ASSUME NEW e \in Emits PROVE Signed(e) /\ Told(e) /\ Excused(e)
      <3>1. stage[e] = "emit" /\ returned[e] = "none" /\ lost[e] = 0
        BY DEF Relay!Init
      <3> QED
        BY <1>1, <3>1, FS_EmptySet DEF Signed, Told, Excused
    <2> QED
      BY <2>1, <2>2 DEF RelayInv

\* What an emit does leaves the others as they are.
LEMMA OthersKeep ==
    ASSUME NEW e \in Emits, NEW d \in Emits \ {e}, Signed(d), Told(d), Excused(d),
           stage'[d] = stage[d], since'[d] = since[d], request'[d] = request[d],
           returned'[d] = returned[d], lost'[d] = lost[d],
           Relay!Copies(d)' = Relay!Copies(d), UNCHANGED <<setup, clock>>
    PROVE  (Signed(d) /\ Told(d) /\ Excused(d))'
  BY DEF Signed, Told, Excused, Owed, Relay!Verifiable

LEMMA RelayStep == RelayInv /\ (Relay!Next \/ UNCHANGED relayVars) => RelayInv'
  <1> SUFFICES ASSUME RelayInv, Relay!Next \/ UNCHANGED relayVars PROVE RelayInv'
    OBVIOUS
  <1>0. ConstantTypes
    BY Constants
  <1> USE <1>0 DEF ConstantTypes, RelayInv, RelayTyped
  <1>a. ASSUME UNCHANGED queue PROVE \A e \in Emits : Relay!Copies(e)' = Relay!Copies(e)
    BY <1>a DEF Relay!Copies
  <1>1. ASSUME NEW e \in Emits, Relay!Emit(e) PROVE RelayInv'
    <2>1. /\ stage' = [stage EXCEPT ![e] = "sent"] /\ since' = [since EXCEPT ![e] = clock]
          /\ request' = [request EXCEPT ![e] = <<[key |-> e, t |-> clock]>>]
          /\ stage[e] = "emit" /\ UNCHANGED <<setup, clock, queue, returned, lost>>
      BY <1>1 DEF Relay!Emit, Relay!Goes, Relay!SignedAt
    <2>2. RelayTyped' /\ KeysAreOfEmits'
      BY <2>1 DEF KeysAreOfEmits
    <2>3. (Signed(e) /\ Told(e) /\ Excused(e))'
      BY <2>1, <1>a DEF Signed, Told, Excused, Owed, Relay!Verifiable
    <2> QED
      BY <2>1, <2>2, <2>3, <1>a, OthersKeep
  <1>2. ASSUME NEW e \in Emits, Relay!Receive(e) PROVE RelayInv'
    <2> DEFINE r == request[e][1]
               item == Relay!Item(r)
    <2>1. /\ stage' = [stage EXCEPT ![e] = "answered"] /\ since' = [since EXCEPT ![e] = clock]
          /\ queue' = IF Relay!Status(r) = 200 THEN Append(queue, item) ELSE queue
          /\ request' = [request EXCEPT ![e] = <<Relay!Status(r)>>]
          /\ stage[e] = "sent" /\ UNCHANGED <<setup, clock, returned, lost>>
      BY <1>2 DEF Relay!Receive, Relay!Goes
    <2>2. r = [key |-> e, t |-> since[e]] /\ returned[e] = "none"
      BY <2>1 DEF Signed, Told
    <2>3. /\ Relay!Status(r) \in {200, 400} /\ (Relay!Verifiable => Relay!Status(r) = 200)
          /\ ~Relay!Verifiable => Relay!Status(r) = 400
      BY <2>1, <2>2 DEF Signed, Relay!Status
    <2>4. item \in Items /\ item.emit = e /\ (setup.keyHeader = "same" => item.key = e)
      BY <2>2 DEF Items, Relay!Item
    <2> HIDE DEF r, item
    <2>5. CASE Relay!Status(r) = 200
      <3>1. /\ queue' \in Seq(Items) /\ Len(queue') = Len(queue) + 1
            /\ \A n \in 1..Len(queue) : queue'[n] = queue[n]
            /\ queue'[Len(queue) + 1] = item
        BY <2>1, <2>4, <2>5
      <3>2. /\ Relay!Copies(e)' = Relay!Copies(e) \cup {Len(queue) + 1}
            /\ Len(queue) + 1 \notin Relay!Copies(e)
            /\ \A d \in Emits \ {e} : Relay!Copies(d)' = Relay!Copies(d)
        <4>1. DOMAIN queue = 1..Len(queue) /\ DOMAIN queue' = 1..(Len(queue) + 1)
          BY <3>1
        <4> QED
          BY <4>1, <3>1, <2>4 DEF Relay!Copies
      <3>3. /\ IsFiniteSet(Relay!Copies(e))' /\ Cardinality(Relay!Copies(e)) \in Nat
            /\ Cardinality(Relay!Copies(e)') = Cardinality(Relay!Copies(e)) + 1
        BY <3>2, FS_AddElement, FS_CardinalityType DEF Excused
      <3>4. RelayTyped' /\ KeysAreOfEmits'
        BY <2>1, <2>4, <3>1 DEF KeysAreOfEmits
      <3>5. Signed(e)' /\ Told(e)'
        BY <2>1, <2>2, <2>5, <3>2 DEF Signed, Told, Relay!Verifiable
      <3>6. Excused(e)'
        <4>1. Cardinality(Relay!Copies(e)) <= lost[e]
          BY <2>1, <2>2 DEF Excused, Owed
        <4>2. /\ stage'[e] = "answered" /\ lost'[e] = lost[e] /\ lost[e] \in Nat
              /\ request'[e] = <<200>>
          BY <2>1, <2>5
        <4> QED
          BY <4>1, <4>2, <3>3 DEF Excused, Owed
      <3> QED
        BY <2>1, <3>2, <3>4, <3>5, <3>6, OthersKeep
    <2>6. CASE Relay!Status(r) = 400
      <3>1. UNCHANGED queue
        BY <2>1, <2>6
      <3>2. RelayTyped' /\ KeysAreOfEmits'
        BY <2>1, <3>1 DEF KeysAreOfEmits
      <3>3. <<400>> # <<200>>
        OBVIOUS
      <3>4. Relay!Copies(e)' = Relay!Copies(e) /\ ~Relay!Verifiable /\ request'[e] = <<400>>
        BY <2>1, <2>3, <2>6, <3>1, <1>a
      <3>5. (Signed(e) /\ Told(e))'
        BY <2>1, <2>2, <3>3, <3>4 DEF Signed, Told, Relay!Verifiable
      <3>6. Excused(e)'
        <4>1. Excused(e) /\ ~Owed(e)
          BY <2>1, <2>2 DEF Owed
        <4> QED
          BY <2>1, <3>4, <4>1 DEF Excused
      <3> QED
        BY <2>1, <3>1, <3>2, <3>5, <3>6, <1>a, OthersKeep
    <2> QED
      BY <2>3, <2>5, <2>6
  <1>3. ASSUME NEW e \in Emits, Relay!Answer(e) PROVE RelayInv'
    <2>1. /\ stage' = [stage EXCEPT ![e] = "done"] /\ since' = [since EXCEPT ![e] = clock]
          /\ returned' = [returned EXCEPT ![e] = IF request[e] = <<200>> THEN "ok"
                                                ELSE "validation"]
          /\ stage[e] = "answered" /\ UNCHANGED <<setup, clock, queue, request, lost>>
      BY <1>3 DEF Relay!Answer, Relay!Goes
    <2>2. RelayTyped' /\ KeysAreOfEmits'
      BY <2>1 DEF KeysAreOfEmits
    <2>3. (Signed(e) /\ Told(e))'
      <3>1. Relay!Copies(e)' = Relay!Copies(e)
        BY <2>1, <1>a
      <3>2. stage'[e] = "done" /\ returned'[e] \in {"ok", "validation"}
            /\ (returned'[e] = "ok" <=> request[e] = <<200>>)
        BY <2>1
      <3>3. request[e] = <<200>> => Relay!Copies(e) # {}
        BY <2>1 DEF Told
      <3>4. Relay!Verifiable' => request[e] = <<200>>
        BY <2>1 DEF Told, Relay!Verifiable
      <3>5. Signed(e)'
        BY <3>2 DEF Signed
      <3>6. Told(e)'
        BY <3>1, <3>2, <3>3, <3>4 DEF Told
      <3> QED
        BY <3>5, <3>6
    <2>4. Excused(e)'
      <3>1. Relay!Copies(e)' = Relay!Copies(e)
        BY <2>1, <1>a
      <3>2. Owed(e)' <=> Owed(e)
        BY <2>1 DEF Owed, Told
      <3> QED
        BY <2>1, <3>1, <3>2 DEF Excused
    <2> QED
      BY <2>1, <2>2, <2>3, <2>4, <1>a, OthersKeep
  <1>4. ASSUME NEW e \in Emits, Relay!Lose(e) PROVE RelayInv'
    <2>1. /\ \/ stage' = [stage EXCEPT ![e] = "backoff"] /\ UNCHANGED returned
             \/ /\ stage' = [stage EXCEPT ![e] = "done"]
                /\ returned' = [returned EXCEPT ![e] = "network"]
          /\ since' = [since EXCEPT ![e] = clock]
          /\ lost' = [lost EXCEPT ![e] = IF stage[e] = "answered" THEN @ + 1 ELSE @]
          /\ stage[e] \in {"sent", "answered"} /\ UNCHANGED <<setup, clock, queue, request>>
      BY <1>4 DEF Relay!Lose, Relay!Goes
    <2>2. RelayTyped' /\ KeysAreOfEmits'
      <3>1. lost' \in [Emits -> Nat] /\ since' \in [Emits -> Nat]
        BY <2>1
      <3>2. stage' \in [Emits -> {"emit", "sent", "answered", "backoff", "done"}]
        BY <2>1
      <3>3. DOMAIN returned' = Emits
        BY <2>1
      <3> QED
        BY <2>1, <3>1, <3>2, <3>3 DEF KeysAreOfEmits
    <2>3. (Signed(e) /\ Told(e))'
      BY <2>1, <1>a DEF Signed, Told, Relay!Verifiable
    <2>4. Excused(e)'
      <3>1. Relay!Copies(e)' = Relay!Copies(e) /\ Excused(e) /\ returned[e] = "none"
        BY <2>1, <1>a DEF Told
      <3>2. Cardinality(Relay!Copies(e)) \in Nat /\ lost[e] \in Nat /\ lost'[e] \in Nat
        BY <2>1, <3>1, FS_CardinalityType DEF Excused
      <3>3. CASE stage[e] = "answered"
        BY <2>1, <3>1, <3>2, <3>3 DEF Excused
      <3>4. CASE stage[e] = "sent"
        BY <2>1, <3>1, <3>2, <3>4 DEF Excused, Owed
      <3> QED
        BY <2>1, <3>3, <3>4
    <2> QED
      BY <2>1, <2>2, <2>3, <2>4, <1>a, OthersKeep
  <1>5. ASSUME NEW e \in Emits, Relay!BackoffEnds(e) PROVE RelayInv'
    <2>1. /\ stage' = [stage EXCEPT ![e] = "emit"] /\ since' = [since EXCEPT ![e] = clock]
          /\ stage[e] = "backoff" /\ UNCHANGED <<setup, clock, queue, request, returned, lost>>
      BY <1>5 DEF Relay!BackoffEnds, Relay!Goes
    <2>2. RelayTyped' /\ KeysAreOfEmits'
      BY <2>1 DEF KeysAreOfEmits
    <2>3. (Signed(e) /\ Told(e) /\ Excused(e))'
      BY <2>1, <1>a DEF Signed, Told, Excused, Owed, Relay!Verifiable
    <2> QED
      BY <2>1, <2>2, <2>3, <1>a, OthersKeep
  <1>6. CASE Relay!Tick
    <2>1. /\ clock' = clock + 1
          /\ UNCHANGED <<setup, stage, since, request, queue, returned, lost>>
          /\ \A e \in Emits : stage[e] = "sent" => ~(clock >= since[e] + Latency)
      BY <1>6 DEF Relay!Tick, Relay!Due
    <2>2. RelayTyped' /\ KeysAreOfEmits'
      BY <2>1 DEF KeysAreOfEmits
    <2> QED
      BY <2>1, <2>2, <1>a DEF Signed, Told, Excused, Owed, Relay!Verifiable
  <1>7. CASE UNCHANGED relayVars
    <2>1. UNCHANGED <<setup, clock, stage, since, request, queue, returned, lost>>
      BY <1>7 DEF relayVars
    <2>2. RelayTyped' /\ KeysAreOfEmits'
      BY <2>1 DEF KeysAreOfEmits
    <2>3. ASSUME NEW e \in Emits PROVE (Signed(e) /\ Told(e) /\ Excused(e))'
      BY <2>1, <1>a DEF Signed, Told, Excused, Owed, Relay!Verifiable
    <2> QED
      BY <2>2, <2>3
  <1> QED
    BY <1>1, <1>2, <1>3, <1>4, <1>5, <1>6, <1>7 DEF Relay!Next

LEMMA RelayFollows == RelayInv => Relay!RelayIsSound
  <1> SUFFICES ASSUME RelayInv PROVE Relay!RelayIsSound
    OBVIOUS
  <1>1. DOMAIN queue = 1..Len(queue)
    BY DEF RelayInv, RelayTyped
  <1>2. ASSUME NEW e \in Emits
        PROVE  /\ returned[e] = "ok" => Relay!Copies(e) # {}
               /\ Cardinality(Relay!Copies(e))
                     <= (IF returned[e] = "ok" \/ stage[e] = "answered" THEN 1 ELSE 0) + lost[e]
               /\ Relay!Verifiable => returned[e] # "validation"
    <2>1. Cardinality(Relay!Copies(e)) \in Nat /\ lost[e] \in Nat
      BY FS_CardinalityType DEF RelayInv, RelayTyped, Excused
    <2> QED
      BY <2>1 DEF RelayInv, Told, Excused, Owed
  <1>3. ASSUME setup.keyHeader = "same", NEW m \in DOMAIN queue, NEW n \in DOMAIN queue
        PROVE  queue[m].key = queue[n].key <=> queue[m].emit = queue[n].emit
    BY <1>1, <1>3 DEF RelayInv, KeysAreOfEmits
  <1> QED
    BY <1>2, <1>3, SameCardinality DEF Relay!RelayIsSound

-----------------------------------------------------------------------------
(* The emits of serves (ServeOnce).                                          *)

\* Total counts these.
Tokens(f, S) == UNION {{x} \X (1..f[x]) : x \in S}
LEMMA TotalIsCount == \A f, S : Total(f, S) = Cardinality(Tokens(f, S))
  BY DEF Total, Tokens

Summable(f, S) == IsFiniteSet(Tokens(f, S)) /\ Total(f, S) \in Nat

\* g is f, with one more at x.
Adds(X, f, g, x) == f \in [X -> Nat] /\ x \in X /\ g = [f EXCEPT ![x] = @ + 1]

\* Counting at x adds one to the sums over the sets that x is in.
LEMMA TotalAdds ==
    ASSUME NEW X, NEW f, NEW g, NEW x, Adds(X, f, g, x), NEW S \in SUBSET X, Summable(f, S)
    PROVE  /\ Summable(g, S)
           /\ x \in S => Total(g, S) = Total(f, S) + 1
           /\ x \notin S => Total(g, S) = Total(f, S)
  <1>0. f \in [X -> Nat] /\ x \in X /\ g = [f EXCEPT ![x] = @ + 1] /\ g \in [X -> Nat]
    BY DEF Adds
  <1>1. CASE x \in S
    <2> DEFINE new == <<x, f[x] + 1>>
    <2>1. Tokens(g, S) \subseteq Tokens(f, S) \cup {new}
      <3> SUFFICES ASSUME NEW t \in Tokens(g, S) PROVE t \in Tokens(f, S) \cup {new}
        OBVIOUS
      <3>1. PICK y \in S : t \in {y} \X (1..g[y])
        BY DEF Tokens
      <3>2. y \in X /\ f[y] \in Nat
        BY <1>0
      <3>3. CASE y = x
        BY <1>0, <3>1, <3>2, <3>3 DEF Tokens
      <3>4. CASE y # x
        BY <1>0, <3>1, <3>2, <3>4 DEF Tokens
      <3> QED
        BY <3>3, <3>4
    <2>2. Tokens(f, S) \cup {new} \subseteq Tokens(g, S)
      <3>1. ASSUME NEW t \in Tokens(f, S) PROVE t \in Tokens(g, S)
        <4>1. PICK y \in S : t \in {y} \X (1..f[y])
          BY DEF Tokens
        <4>2. f[y] \in Nat /\ g[y] \in Nat /\ f[y] <= g[y]
          BY <1>0
        <4>3. t \in {y} \X (1..g[y])
          BY <4>1, <4>2
        <4> QED
          BY <4>3 DEF Tokens
      <3>2. new \in {x} \X (1..g[x])
        BY <1>0
      <3>3. new \in Tokens(g, S)
        BY <3>2, <1>1 DEF Tokens
      <3> QED
        BY <3>1, <3>3
    <2>3. new \notin Tokens(f, S)
      <3> SUFFICES ASSUME NEW y \in S, new \in {y} \X (1..f[y]) PROVE FALSE
        BY DEF Tokens
      <3> QED
        BY <1>0
    <2> QED
      BY <1>1, <2>1, <2>2, <2>3, FS_AddElement, TotalIsCount DEF Summable
  <1>2. CASE x \notin S
    <2>1. \A y \in S : g[y] = f[y]
      BY <1>0, <1>2
    <2>2. Tokens(g, S) = Tokens(f, S)
      BY <2>1 DEF Tokens
    <2> QED
      BY <1>2, <2>2, TotalIsCount DEF Summable
  <1> QED
    BY <1>1, <1>2

LEMMA TotalZero ==
    ASSUME NEW f, NEW S, \A x \in S : f[x] = 0
    PROVE  Summable(f, S) /\ Total(f, S) = 0
  <1>1. Tokens(f, S) = {}
    BY DEF Tokens
  <1> QED
    BY <1>1, FS_EmptySet, TotalIsCount DEF Summable

Emitted == Runs \X Serves
PlaceOf(x) == Place(x[1], x[2])
Current(r) == <<r, serve[r]>>
Pcs == {"emit", "ok", "failed", "sending", "accepted", "caching"}

ServeTyped ==
    /\ serve \in [Runs -> Serves] /\ pc \in [Runs -> Pcs]
    /\ acked \subseteq Emitted
    /\ posted \in [Emitted -> Nat] /\ faults \in [Emitted -> Nat] /\ races \in Nat

\* What a cache or a receiver answers for, and what is acknowledged, has been
\* carried out for one who shares its place.
Done == {PlaceOf(y) : y \in {z \in Emitted : posted[z] > 0}}
Answerable ==
    /\ cache \cup seen \subseteq Done
    /\ \A r \in Runs : pc[r] \in {"accepted", "caching"} => Here(r) \in Done
    /\ \A x \in acked : PlaceOf(x) \in Done

\* What is to be carried out next has been once for each fault.
Ahead(x) ==
    \/ x[2] > serve[x[1]]
    \/ x[2] = serve[x[1]] /\ pc[x[1]] \in {"emit", "sending"}
Faulted ==
    \A x \in Emitted :
        posted[x] <= 1 + faults[x] /\ (Ahead(x) => posted[x] <= faults[x])

Sums == \A x \in Emitted : Summable(posted, Sharing(x)) /\ Summable(faults, Sharing(x))

\* A receiver has not carried out what it has not seen.
SeenOnce ==
    \A x \in Emitted :
        /\ PlaceOf(x) \notin seen => Total(posted, Sharing(x)) = 0
        /\ dedups => Total(posted, Sharing(x)) <= 1

\* What is carried out at a place, and what is on its way there, has been
\* once, and once more for each fault and race; the one is owed to what the
\* cache knows, or to a run that has passed it.
SendingTo(x) == {r \in Runs : pc[r] = "sending" /\ Here(r) = PlaceOf(x)}
ActiveAt(x) == {r \in Runs : pc[r] \in Active /\ Here(r) = PlaceOf(x)}
Known(x) == PlaceOf(x) \in cache \/ ActiveAt(x) # {}
Paid ==
    Remembers => \A x \in Emitted :
        Total(posted, Sharing(x)) + Cardinality(SendingTo(x))
            <= Total(faults, Sharing(x)) + races + (IF Known(x) THEN 1 ELSE 0)

ServeInv == ServeTyped /\ Answerable /\ Faulted /\ Sums /\ SeenOnce /\ Paid

LEMMA ServeConstants == IsFiniteSet(Runs) /\ NServes \in Nat \ {0}
  BY OutboundAssumption DEF OutboundAssumption

LEMMA ServeInitial == Init => ServeInv
  <1> SUFFICES ASSUME Init PROVE ServeInv
    OBVIOUS
  <1>1. ServeTyped
    BY ServeConstants DEF Init, ServeTyped, Pcs, Emitted, Serves
  <1>2. /\ cache = {} /\ seen = {} /\ acked = {}
        /\ \A r \in Runs : pc[r] = "emit"
        /\ \A x \in Emitted : posted[x] = 0 /\ faults[x] = 0
    BY DEF Init, Emitted
  <1>3. Answerable /\ Faulted
    BY <1>1, <1>2 DEF Answerable, Faulted
  <1>4. ASSUME NEW x \in Emitted
        PROVE  /\ Summable(posted, Sharing(x)) /\ Total(posted, Sharing(x)) = 0
               /\ Summable(faults, Sharing(x)) /\ Total(faults, Sharing(x)) = 0
    <2>1. \A y \in Sharing(x) : posted[y] = 0 /\ faults[y] = 0
      BY <1>2 DEF Sharing, Emitted
    <2> QED
      BY <2>1, TotalZero
  <1>5. Sums /\ SeenOnce
    BY <1>4 DEF Sums, SeenOnce
  <1>6. \A x \in Emitted : SendingTo(x) = {} /\ ActiveAt(x) = {}
    BY <1>2 DEF SendingTo, ActiveAt, Active
  <1>7. Paid
    BY <1>1, <1>2, <1>4, <1>6, FS_EmptySet DEF Paid, Known, ServeTyped
  <1> QED
    BY <1>1, <1>3, <1>5, <1>7 DEF ServeInv

(* What the actions have in common.                                          *)
Fixed == UNCHANGED config
Posts(r) == Adds(Emitted, posted, posted', Current(r))
Blames(r) == Adds(Emitted, faults, faults', Current(r))
Turns(r, p) == pc' = [pc EXCEPT ![r] = p] /\ UNCHANGED <<serve, acked>>
Stops(r) == Turns(r, "emit") \/ Turns(r, "failed")
Passes(r) ==
    /\ acked' = acked \cup {Current(r)}
    /\ \/ /\ serve[r] + 1 \in Serves /\ serve' = [serve EXCEPT ![r] = serve[r] + 1]
          /\ pc' = [pc EXCEPT ![r] = "emit"]
       \/ pc' = [pc EXCEPT ![r] = "ok"] /\ UNCHANGED serve

LEMMA Endings ==
    ASSUME NEW r \in Runs, ServeTyped
    PROVE  /\ FailsForGood(r) => Stops(r)
           /\ FailsTransiently(r) => Stops(r)
           /\ Succeeds(r) => Passes(r)
           /\ Fault(r) => Blames(r)
           /\ posted' = Count(posted, r) => Posts(r)
  <1>0. Current(r) \in Emitted
    BY DEF ServeTyped, Current, Emitted
  <1>1. FailsForGood(r) => Stops(r)
    BY DEF FailsForGood, Stops, Turns
  <1>2. FailsTransiently(r) => Stops(r)
    BY DEF FailsForGood, FailsTransiently, Stops, Turns
  <1>3. Succeeds(r) => Passes(r)
    BY ServeConstants DEF Succeeds, Passes, Current, Serves, ServeTyped
  <1>4. Fault(r) => Blames(r)
    BY <1>0 DEF Fault, Count, Blames, Adds, Current, ServeTyped
  <1>5. posted' = Count(posted, r) => Posts(r)
    BY <1>0 DEF Count, Posts, Adds, Current, ServeTyped
  <1> QED
    BY <1>1, <1>2, <1>3, <1>4, <1>5

\* What a step of a run comes to.
Hits(r) ==
    /\ pc[r] = "emit" /\ Here(r) \in cache /\ Passes(r)
    /\ UNCHANGED <<cache, seen, posted, faults, races>>
Rival(r) == \E q \in Runs \ {r} : pc[q] \in Active /\ Here(q) = Here(r)
Misses(r) ==
    /\ pc[r] = "emit" /\ Turns(r, "sending") /\ UNCHANGED <<cache, seen, posted>>
    /\ races' \in {races, races + 1}
    /\ \/ Blames(r)
       \/ /\ UNCHANGED faults
          /\ Remembers => Here(r) \notin cache /\ (Rival(r) => races' = races + 1)
Drops(r) ==
    /\ pc[r] \in {"emit", "sending"} /\ Stops(r)
    /\ UNCHANGED <<cache, seen, posted, faults, races>>
Lands(r) ==
    /\ pc[r] = "sending" /\ Turns(r, "accepted") /\ seen' = seen \cup {Here(r)}
    /\ \/ dedups /\ Here(r) \in seen /\ UNCHANGED posted
       \/ ~(dedups /\ Here(r) \in seen) /\ Posts(r)
    /\ UNCHANGED <<cache, faults, races>>
Waits(r) ==
    /\ pc[r] = "accepted" /\ Turns(r, "caching")
    /\ UNCHANGED <<cache, seen, posted, faults, races>>
Finishes(r) ==
    /\ pc[r] = "accepted" /\ ~Remembers /\ Passes(r)
    /\ UNCHANGED <<cache, seen, posted, faults, races>>
Loses(r) ==
    /\ pc[r] \in {"accepted", "caching"} /\ (Stops(r) \/ Passes(r)) /\ Blames(r)
    /\ cache' \in {cache, cache \cup {Here(r)}} /\ UNCHANGED <<seen, posted, races>>
Writes(r) ==
    /\ pc[r] = "caching" /\ Passes(r) /\ cache' = cache \cup {Here(r)}
    /\ UNCHANGED <<seen, posted, faults, races>>

Kinds(r) ==
    \/ Hits(r) \/ Misses(r) \/ Drops(r) \/ Lands(r) \/ Waits(r) \/ Finishes(r)
    \/ Loses(r) \/ Writes(r)

LEMMA StepsAreKinds == ServeTyped /\ Next => \E r \in Runs : Fixed /\ Kinds(r)
  <1> SUFFICES ASSUME ServeTyped, NEW r \in Runs,
                      \/ Hit(r) \/ Miss(r) \/ Refused(r) \/ TurnedAway(r) \/ Arrives(r)
                      \/ Answered(r) \/ AnswerLost(r) \/ CacheWritten(r) \/ CacheFails(r)
                      \/ Dies(r)
               PROVE  Fixed /\ Kinds(r)
    BY DEF Next
  <1>0. /\ FailsForGood(r) => Stops(r)
        /\ FailsTransiently(r) => Stops(r)
        /\ Succeeds(r) => Passes(r)
        /\ Fault(r) => Blames(r)
        /\ posted' = Count(posted, r) => Posts(r)
    BY Endings
  <1>1. CASE Hit(r)
    BY <1>0, <1>1 DEF Hit, Fixed, Kinds, Hits
  <1>2. CASE Miss(r)
    <2>1. /\ pc[r] = "emit" /\ Turns(r, "sending") /\ UNCHANGED <<cache, seen, posted>>
          /\ races' = IF Rival(r) THEN races + 1 ELSE races
          /\ \/ (~Remembers \/ Here(r) \notin cache) /\ UNCHANGED faults
             \/ Blames(r)
          /\ Fixed
      BY <1>0, <1>2 DEF Miss, Fixed, Turns, Rival
    <2> QED
      BY <2>1 DEF Kinds, Misses
  <1>3. CASE Refused(r) \/ TurnedAway(r)
    BY <1>0, <1>3 DEF Refused, TurnedAway, Fixed, Kinds, Drops
  <1>4. CASE Arrives(r)
    BY <1>0, <1>4 DEF Arrives, Fixed, Kinds, Lands, Turns
  <1>5. CASE Answered(r)
    BY <1>0, <1>5 DEF Answered, Fixed, Kinds, Waits, Finishes, Turns
  <1>6. CASE AnswerLost(r)
    BY <1>0, <1>6 DEF AnswerLost, Fixed, Kinds, Loses
  <1>7. CASE CacheWritten(r)
    BY <1>0, <1>7 DEF CacheWritten, Fixed, Kinds, Writes
  <1>8. CASE CacheFails(r)
    BY <1>0, <1>8 DEF CacheFails, Fixed, Kinds, Loses
  <1>9. CASE Dies(r)
    BY <1>0, <1>9 DEF Dies, Fixed, Kinds, Loses, Drops, Active
  <1> QED
    BY <1>1, <1>2, <1>3, <1>4, <1>5, <1>6, <1>7, <1>8, <1>9

\* Places are as they were.
LEMMA FixedPlaces ==
    Fixed => /\ \A r, s : Place(r, s)' = Place(r, s)
             /\ \A x : PlaceOf(x)' = PlaceOf(x) /\ Sharing(x)' = Sharing(x)
             /\ Remembers' <=> Remembers
             /\ dedups' = dedups
  BY DEF Fixed, config, Place, Key, PlaceOf, Sharing, Remembers

LEMMA ServeTypedStep ==
    ASSUME NEW r \in Runs, ServeTyped, Kinds(r)
    PROVE  ServeTyped'
  <1>0. Current(r) \in Emitted
    BY DEF ServeTyped, Current, Emitted
  <1>1. Passes(r) => serve' \in [Runs -> Serves] /\ pc' \in [Runs -> Pcs] /\ acked' \subseteq Emitted
    BY <1>0 DEF Passes, ServeTyped, Pcs
  <1>2. \A p \in Pcs :
          Turns(r, p) => serve' \in [Runs -> Serves] /\ pc' \in [Runs -> Pcs] /\ acked' \subseteq Emitted
    BY DEF Turns, ServeTyped
  <1>3. Stops(r) => serve' \in [Runs -> Serves] /\ pc' \in [Runs -> Pcs] /\ acked' \subseteq Emitted
    BY <1>2 DEF Stops, Pcs
  <1>4. Blames(r) => faults' \in [Emitted -> Nat]
    BY DEF Blames, Adds
  <1>5. Posts(r) => posted' \in [Emitted -> Nat]
    BY DEF Posts, Adds
  <1>6. /\ serve' \in [Runs -> Serves] /\ pc' \in [Runs -> Pcs] /\ acked' \subseteq Emitted
    BY <1>1, <1>2, <1>3
    DEF Kinds, Hits, Misses, Drops, Lands, Waits, Finishes, Loses, Writes, Pcs
  <1>7. posted' \in [Emitted -> Nat] /\ faults' \in [Emitted -> Nat] /\ races' \in Nat
    BY <1>4, <1>5
    DEF Kinds, Hits, Misses, Drops, Lands, Waits, Finishes, Loses, Writes, ServeTyped
  <1> QED
    BY <1>6, <1>7 DEF ServeTyped

\* The runs that take no step are where they were, and what has been posted
\* stays posted.
LEMMA OthersStay ==
    ASSUME NEW r \in Runs, ServeTyped, Fixed, Kinds(r)
    PROVE  /\ \A q \in Runs \ {r} :
                 pc'[q] = pc[q] /\ serve'[q] = serve[q] /\ Here(q)' = Here(q)
           /\ \A x \in Emitted : posted'[x] >= posted[x] /\ faults'[x] >= faults[x]
           /\ races' >= races
           /\ Done \subseteq Done'
  <1>1. \A p : Turns(r, p) => \A q \in Runs \ {r} : pc'[q] = pc[q] /\ serve'[q] = serve[q]
    BY DEF Turns, ServeTyped
  <1>2. Passes(r) => \A q \in Runs \ {r} : pc'[q] = pc[q] /\ serve'[q] = serve[q]
    BY DEF Passes, ServeTyped
  <1>3. \A q \in Runs \ {r} : pc'[q] = pc[q] /\ serve'[q] = serve[q]
    BY <1>1, <1>2
    DEF Kinds, Hits, Misses, Drops, Lands, Waits, Finishes, Loses, Writes, Stops
  <1>4. \A q \in Runs \ {r} : Here(q)' = Here(q)
    BY <1>3, FixedPlaces DEF Here
  <1>5. \A x \in Emitted : posted'[x] >= posted[x] /\ faults'[x] >= faults[x]
    <2>1. Posts(r) => \A x \in Emitted : posted'[x] >= posted[x]
      BY DEF Posts, Adds
    <2>2. Blames(r) => \A x \in Emitted : faults'[x] >= faults[x]
      BY DEF Blames, Adds
    <2>3. \A x \in Emitted : posted[x] >= posted[x] /\ faults[x] >= faults[x]
      BY DEF ServeTyped
    <2> QED
      BY <2>1, <2>2, <2>3
      DEF Kinds, Hits, Misses, Drops, Lands, Waits, Finishes, Loses, Writes
  <1>6. races' >= races
    BY DEF Kinds, Hits, Misses, Drops, Lands, Waits, Finishes, Loses, Writes, ServeTyped
  <1>7. ASSUME NEW k \in Done PROVE k \in Done'
    <2>1. PICK y \in Emitted : PlaceOf(y) = k /\ posted[y] > 0
      BY DEF Done
    <2>2. posted'[y] > 0 /\ PlaceOf(y)' = k
      BY <2>1, <1>5, FixedPlaces, ServeTypedStep DEF ServeTyped
    <2> QED
      BY <2>2 DEF Done, Emitted
  <1> QED
    BY <1>3, <1>4, <1>5, <1>6, <1>7

LEMMA AnswerableStep ==
    ASSUME NEW r \in Runs, ServeTyped, Answerable, Fixed, Kinds(r)
    PROVE  Answerable'
  <1>0. Current(r) \in Emitted /\ PlaceOf(Current(r)) = Here(r)
    BY DEF ServeTyped, Current, Emitted, PlaceOf, Here
  <1>1. Done \subseteq Done'
    BY OthersStay
  <1>2. /\ cache \cup seen \subseteq Done'
        /\ \A q \in Runs \ {r} : pc'[q] \in {"accepted", "caching"} => Here(q)' \in Done'
        /\ \A x \in acked : PlaceOf(x)' \in Done'
    BY <1>1, OthersStay, FixedPlaces DEF Answerable
  <1>3. Passes(r) \/ (\E p : Turns(r, p)) => acked' \subseteq acked \cup {Current(r)}
    BY DEF Passes, Turns
  <1>4. ASSUME Here(r) \in Done
        PROVE  Answerable'
    <2>1. cache' \cup seen' \subseteq cache \cup seen \cup {Here(r)}
      BY DEF Kinds, Hits, Misses, Drops, Lands, Waits, Finishes, Loses, Writes
    <2>2. acked' \subseteq acked \cup {Current(r)}
      BY <1>3 DEF Kinds, Hits, Misses, Drops, Lands, Waits, Finishes, Loses, Writes, Stops
    <2>3. pc'[r] \in {"accepted", "caching"} => Here(r)' = Here(r)
      BY FixedPlaces
      DEF Kinds, Hits, Misses, Drops, Lands, Waits, Finishes, Loses, Writes, Stops, Passes,
          Turns, Here, ServeTyped
    <2> QED
      BY <1>0, <1>1, <1>2, <1>4, <2>1, <2>2, <2>3, FixedPlaces DEF Answerable
  <1>5. CASE Misses(r) \/ Drops(r)
    <2>1. UNCHANGED <<cache, seen, acked>> /\ pc'[r] \notin {"accepted", "caching"}
      BY <1>5 DEF Misses, Drops, Stops, Turns, ServeTyped
    <2> QED
      BY <1>2, <2>1 DEF Answerable
  <1>6. CASE Lands(r)
    <2>1. /\ UNCHANGED <<cache, acked>> /\ seen' = seen \cup {Here(r)}
          /\ Here(r)' = Here(r)
      BY <1>6, FixedPlaces DEF Lands, Turns, Here
    <2>2. Here(r)' \in Done'
      <3>1. CASE Here(r) \in seen
        BY <3>1, <1>1, <2>1 DEF Answerable
      <3>2. CASE Posts(r)
        <4>1. posted'[Current(r)] > 0
          BY <3>2 DEF Posts, Adds
        <4> QED
          BY <4>1, <1>0, <2>1, FixedPlaces DEF Done, Emitted
      <3> QED
        BY <3>1, <3>2, <1>6 DEF Lands
    <2> QED
      BY <1>2, <2>1, <2>2 DEF Answerable
  <1>7. CASE Hits(r) \/ Waits(r) \/ Finishes(r) \/ Loses(r) \/ Writes(r)
    <2>1. Here(r) \in Done
      BY <1>7 DEF Hits, Waits, Finishes, Loses, Writes, Answerable
    <2> QED
      BY <1>4, <2>1
  <1> QED
    BY <1>5, <1>6, <1>7 DEF Kinds

LEMMA FaultedStep ==
    ASSUME NEW r \in Runs, ServeTyped, Faulted, Fixed, Kinds(r)
    PROVE  Faulted'
  <1>0. Current(r) \in Emitted /\ serve[r] \in Nat
    BY ServeConstants DEF ServeTyped, Current, Emitted, Serves
  <1>1. ServeTyped'
    BY ServeTypedStep
  <1>2. ASSUME NEW x \in Emitted, x # Current(r)
        PROVE  posted'[x] = posted[x] /\ faults'[x] = faults[x] /\ (Ahead(x)' => Ahead(x))
    <2>1. x[1] \in Runs /\ x[2] \in Nat /\ x = <<x[1], x[2]>>
      BY ServeConstants DEF Emitted, Serves
    <2>2. posted'[x] = posted[x] /\ faults'[x] = faults[x]
      BY <1>2
      DEF Kinds, Hits, Misses, Drops, Lands, Waits, Finishes, Loses, Writes, Posts, Blames, Adds
    <2>3. CASE x[1] # r
      BY <2>1, <2>2, <2>3, OthersStay DEF Ahead
    <2>4. CASE x[1] = r
      <3>1. x[2] # serve[r]
        BY <2>1, <2>4, <1>2 DEF Current
      <3>2. serve'[r] = serve[r] \/ (serve'[r] = serve[r] + 1 /\ pc'[r] = "emit")
        BY DEF Kinds, Hits, Misses, Drops, Lands, Waits, Finishes, Loses, Writes, Stops,
               Turns, Passes, ServeTyped
      <3> QED
        BY <1>0, <2>1, <2>2, <2>4, <3>1, <3>2 DEF Ahead
    <2> QED
      BY <2>3, <2>4
  <1>3. ASSUME NEW x \in Emitted, x = Current(r)
        PROVE  posted'[x] <= 1 + faults'[x] /\ (Ahead(x)' => posted'[x] <= faults'[x])
    <2>1. x[1] = r /\ x[2] = serve[r]
      BY <1>3 DEF Current
    <2>2. /\ posted[x] \in Nat /\ faults[x] \in Nat /\ posted'[x] \in Nat /\ faults'[x] \in Nat
          /\ posted[x] <= 1 + faults[x] /\ (Ahead(x) => posted[x] <= faults[x])
      BY <1>1 DEF ServeTyped, Faulted
    <2>3. pc[r] \in {"emit", "sending"} => Ahead(x)
      BY <2>1 DEF Ahead
    <2>4. Passes(r) => ~Ahead(x)'
      BY <1>0, <2>1 DEF Passes, Ahead, ServeTyped
    <2>5. Posts(r) => posted'[x] = posted[x] + 1
      BY <1>3 DEF Posts, Adds
    <2>6. Blames(r) => faults'[x] = faults[x] + 1
      BY <1>3 DEF Blames, Adds
    <2>7. CASE Hits(r) \/ Finishes(r) \/ Writes(r)
      BY <2>2, <2>4, <2>7 DEF Hits, Finishes, Writes
    <2>8. CASE Misses(r)
      BY <2>2, <2>3, <2>6, <2>8 DEF Misses
    <2>9. CASE Drops(r)
      BY <2>2, <2>3, <2>9 DEF Drops
    <2>10. CASE Lands(r) \/ Waits(r)
      <3>1. ~Ahead(x)'
        BY <1>0, <2>1, <2>10 DEF Lands, Waits, Turns, Ahead, ServeTyped
      <3>2. UNCHANGED faults /\ (UNCHANGED posted \/ (Posts(r) /\ pc[r] = "sending"))
        BY <2>10 DEF Lands, Waits
      <3> QED
        BY <2>2, <2>3, <2>5, <3>1, <3>2
    <2>11. CASE Loses(r)
      BY <2>2, <2>6, <2>11 DEF Loses
    <2> QED
      BY <2>7, <2>8, <2>9, <2>10, <2>11 DEF Kinds
  <1> QED
    BY <1>2, <1>3 DEF Faulted, Emitted

\* What a step of r adds to the sums over the messages that share x's place.
More(r, x) == IF Here(r) = PlaceOf(x) THEN 1 ELSE 0
LEMMA SumsStep ==
    ASSUME NEW r \in Runs, ServeTyped, Sums, Kinds(r), NEW x \in Emitted
    PROVE  /\ Summable(posted', Sharing(x)) /\ Summable(faults', Sharing(x))
           /\ Posts(r) => Total(posted', Sharing(x)) = Total(posted, Sharing(x)) + More(r, x)
           /\ Blames(r) => Total(faults', Sharing(x)) = Total(faults, Sharing(x)) + More(r, x)
  <1>1. Current(r) \in Emitted /\ Sharing(x) \in SUBSET Emitted
    BY DEF Current, Emitted, ServeTyped, Sharing
  <1>2. Current(r) \in Sharing(x) <=> Here(r) = PlaceOf(x)
    BY <1>1 DEF Sharing, Here, PlaceOf, Current, Emitted
  <1>3. Summable(posted, Sharing(x)) /\ Summable(faults, Sharing(x))
    BY DEF Sums
  <1>4. ASSUME Posts(r)
        PROVE  /\ Summable(posted', Sharing(x))
               /\ Total(posted', Sharing(x)) = Total(posted, Sharing(x)) + More(r, x)
    BY <1>1, <1>2, <1>3, <1>4, TotalAdds DEF Posts, More, Summable
  <1>5. ASSUME Blames(r)
        PROVE  /\ Summable(faults', Sharing(x))
               /\ Total(faults', Sharing(x)) = Total(faults, Sharing(x)) + More(r, x)
    BY <1>1, <1>2, <1>3, <1>5, TotalAdds DEF Blames, More, Summable
  <1>6. Posts(r) \/ UNCHANGED posted
    BY DEF Kinds, Hits, Misses, Drops, Lands, Waits, Finishes, Loses, Writes
  <1>7. Blames(r) \/ UNCHANGED faults
    BY DEF Kinds, Hits, Misses, Drops, Lands, Waits, Finishes, Loses, Writes
  <1> QED
    BY <1>3, <1>4, <1>5, <1>6, <1>7

LEMMA SeenOnceStep ==
    ASSUME NEW r \in Runs, ServeTyped, Sums, SeenOnce, Fixed, Kinds(r)
    PROVE  Sums' /\ SeenOnce'
  <1>1. Sums'
    BY SumsStep, FixedPlaces DEF Sums, Emitted
  <1>2. ASSUME NEW x \in Emitted
        PROVE  /\ PlaceOf(x) \notin seen' => Total(posted', Sharing(x)) = 0
               /\ dedups => Total(posted', Sharing(x)) <= 1
    <2>1. CASE UNCHANGED posted
      <3>1. seen \subseteq seen'
        BY DEF Kinds, Hits, Misses, Drops, Lands, Waits, Finishes, Loses, Writes
      <3> QED
        BY <2>1, <3>1 DEF SeenOnce
    <2>2. CASE Posts(r) /\ Lands(r) /\ ~(dedups /\ Here(r) \in seen)
      <3>1. Total(posted', Sharing(x)) = Total(posted, Sharing(x)) + More(r, x)
        BY <2>2, SumsStep
      <3>2. Total(posted, Sharing(x)) \in Nat
        BY DEF Sums, Summable
      <3>3. seen' = seen \cup {Here(r)}
        BY <2>2 DEF Lands
      <3>4. CASE Here(r) = PlaceOf(x)
        BY <2>2, <3>1, <3>2, <3>3, <3>4 DEF SeenOnce, More
      <3>5. CASE Here(r) # PlaceOf(x)
        BY <3>1, <3>2, <3>3, <3>5 DEF SeenOnce, More
      <3> QED
        BY <3>4, <3>5
    <2> QED
      BY <2>1, <2>2
      DEF Kinds, Hits, Misses, Drops, Lands, Waits, Finishes, Loses, Writes
  <1>3. SeenOnce'
    BY <1>2, FixedPlaces DEF SeenOnce, Emitted
  <1> QED
    BY <1>1, <1>3

\* How a step of r changes who is on the way to x's place, and who has passed
\* the cache there.
LEMMA SendersStep ==
    ASSUME NEW r \in Runs, ServeTyped, Fixed, Kinds(r), NEW x \in Emitted
    PROVE  /\ SendingTo(x)' \ {r} = SendingTo(x) \ {r}
           /\ ActiveAt(x)' \ {r} = ActiveAt(x) \ {r}
           /\ r \in SendingTo(x) <=> pc[r] = "sending" /\ Here(r) = PlaceOf(x)
           /\ r \in ActiveAt(x) <=> pc[r] \in Active /\ Here(r) = PlaceOf(x)
           /\ r \in SendingTo(x)' <=> pc'[r] = "sending" /\ Here(r) = PlaceOf(x)
           /\ r \in ActiveAt(x)' <=> pc'[r] \in Active /\ Here(r) = PlaceOf(x)
  <1>1. PlaceOf(x)' = PlaceOf(x)
    BY FixedPlaces
  <1>2. pc'[r] \in Active => Here(r)' = Here(r)
    <2>1. pc'[r] \in Active => serve'[r] = serve[r]
      BY DEF Kinds, Hits, Misses, Drops, Lands, Waits, Finishes, Loses, Writes, Stops, Turns,
             Passes, Active, ServeTyped
    <2> QED
      BY <2>1, FixedPlaces DEF Here
  <1>3. \A q \in Runs \ {r} : pc'[q] = pc[q] /\ Here(q)' = Here(q)
    BY OthersStay
  <1> QED
    BY <1>1, <1>2, <1>3 DEF SendingTo, ActiveAt, Active

LEMMA PaidStep ==
    ASSUME NEW r \in Runs, ServeTyped, Sums, Paid, Fixed, Kinds(r)
    PROVE  Paid'
  <1> SUFFICES ASSUME Remembers, NEW x \in Emitted
               PROVE  Total(posted', Sharing(x)) + Cardinality(SendingTo(x)')
                        <= Total(faults', Sharing(x)) + races' + (IF Known(x)' THEN 1 ELSE 0)
    BY FixedPlaces DEF Paid, Emitted
  <1> DEFINE P == Total(posted, Sharing(x))
             F == Total(faults, Sharing(x))
             P2 == Total(posted', Sharing(x))
             F2 == Total(faults', Sharing(x))
             C == Cardinality(SendingTo(x))
             C2 == Cardinality(SendingTo(x)')
             here == Here(r) = PlaceOf(x)
  <1>1. /\ P \in Nat /\ F \in Nat /\ P2 \in Nat /\ F2 \in Nat /\ races \in Nat /\ races' \in Nat
        /\ P + C <= F + races + (IF Known(x) THEN 1 ELSE 0)
    BY SumsStep, ServeTypedStep DEF Sums, Summable, Paid, ServeTyped
  <1>2. /\ IsFiniteSet(SendingTo(x)) /\ C \in Nat
        /\ IsFiniteSet(SendingTo(x)') /\ C2 \in Nat
    <2>1. SendingTo(x) \in SUBSET Runs /\ SendingTo(x)' \in SUBSET Runs
      BY DEF SendingTo
    <2> QED
      BY <2>1, ServeConstants, FS_Subset, FS_CardinalityType
  <1>3. /\ SendingTo(x)' \ {r} = SendingTo(x) \ {r}
        /\ ActiveAt(x)' \ {r} = ActiveAt(x) \ {r}
        /\ r \in SendingTo(x) <=> pc[r] = "sending" /\ here
        /\ r \in ActiveAt(x) <=> pc[r] \in Active /\ here
        /\ r \in SendingTo(x)' <=> pc'[r] = "sending" /\ here
        /\ r \in ActiveAt(x)' <=> pc'[r] \in Active /\ here
    BY SendersStep
  <1>4. C2 = C - (IF r \in SendingTo(x) THEN 1 ELSE 0) + (IF r \in SendingTo(x)' THEN 1 ELSE 0)
    <2>1. Cardinality(SendingTo(x) \ {r}) = IF r \in SendingTo(x) THEN C - 1 ELSE C
      BY <1>2, FS_RemoveElement
    <2>2. Cardinality(SendingTo(x)' \ {r}) = IF r \in SendingTo(x)' THEN C2 - 1 ELSE C2
      BY <1>2, FS_RemoveElement
    <2>3. Cardinality(SendingTo(x)' \ {r}) = Cardinality(SendingTo(x) \ {r})
      BY <1>3
    <2>4. C \in Nat /\ C2 \in Nat
      BY <1>2
    <2> HIDE DEF C, C2
    <2> QED
      BY <2>1, <2>2, <2>3, <2>4
  <1>5. P2 = IF Posts(r) THEN P + More(r, x) ELSE P
    BY SumsStep
    DEF Kinds, Hits, Misses, Drops, Lands, Waits, Finishes, Loses, Writes
  <1>6. F2 = IF Blames(r) THEN F + More(r, x) ELSE F
    BY SumsStep
    DEF Kinds, Hits, Misses, Drops, Lands, Waits, Finishes, Loses, Writes
  <1>7. More(r, x) = IF here THEN 1 ELSE 0
    BY DEF More
  <1>8. /\ Known(x)' <=> PlaceOf(x) \in cache' \/ ActiveAt(x)' # {}
        /\ Known(x) <=> PlaceOf(x) \in cache \/ ActiveAt(x) # {}
    BY FixedPlaces DEF Known
  <1>9. (pc'[r] \in Active <=> pc[r] \in Active) => ActiveAt(x)' = ActiveAt(x)
    BY <1>3
  <1> HIDE DEF P, F, P2, F2, C, C2, here
  <1>10. CASE Hits(r)
    <2>1. pc[r] = "emit" /\ pc'[r] \in {"emit", "ok"} /\ UNCHANGED <<cache, posted, faults, races>>
      BY <1>10 DEF Hits, Passes, ServeTyped
    <2>2. C2 = C /\ (Known(x)' <=> Known(x))
      BY <2>1, <1>2, <1>3, <1>4, <1>8, <1>9 DEF Active
    <2>3. P2 = P /\ F2 = F
      BY <2>1 DEF P2, P, F2, F
    <2> QED
      BY <1>1, <2>1, <2>2, <2>3 DEF P2, F2, C2
  <1>11. CASE Misses(r)
    <2>1. /\ pc[r] = "emit" /\ pc'[r] = "sending" /\ UNCHANGED <<cache, posted>>
          /\ races' \in {races, races + 1}
      BY <1>11 DEF Misses, Turns, ServeTyped
    <2>2. /\ C2 = C + (IF here THEN 1 ELSE 0) /\ (Known(x) => Known(x)')
          /\ here => Known(x)'
      BY <2>1, <1>2, <1>3, <1>4, <1>8 DEF Active
    <2>3. P2 = P
      BY <2>1 DEF P2, P
    <2>4. CASE Blames(r)
      BY <1>1, <1>2, <1>6, <1>7, <2>1, <2>2, <2>3, <2>4 DEF P2, F2, C2
    <2>5. CASE ~Blames(r) /\ ~here
      <3>1. C2 = C /\ F2 = F
        BY <1>2, <1>6, <2>2, <2>5
      <3> DEFINE K == IF Known(x) THEN 1 ELSE 0
                 K2 == IF Known(x)' THEN 1 ELSE 0
      <3>2. K \in Int /\ K2 \in Int /\ K <= K2
        BY <2>2
      <3>3. P + C <= F + races + K
        BY <1>1
      <3> HIDE DEF K, K2
      <3>4. P + C <= F + races' + K2
        <4>1. races <= races'
          BY <1>1, <2>1
        <4> DEFINE q == races
                   q2 == races'
        <4>2. P \in Int /\ F \in Int /\ C \in Int /\ q \in Int /\ q2 \in Int
          BY <1>1, <1>2
        <4>3. P + C <= F + q + K /\ q <= q2
          BY <3>3, <4>1
        <4> HIDE DEF q, q2
        <4>4. P + C <= F + q2 + K2
          BY <4>2, <4>3, <3>2
        <4> QED
          BY <4>4 DEF q2
      <3>5. P2 + C2 <= F2 + races' + K2
        BY <3>4, <2>3, <3>1
      <3> QED
        BY <3>5 DEF P2, F2, C2, K2
    <2>6. CASE ~Blames(r) /\ here
      <3>1. Here(r) \notin cache /\ (Rival(r) => races' = races + 1)
        BY <1>11, <2>6 DEF Misses
      <3>2. ~Rival(r) => ~Known(x)
        BY <2>1, <2>6, <3>1, <1>8 DEF Rival, ActiveAt, Active, here
      <3> DEFINE K == IF Known(x) THEN 1 ELSE 0
                 K2 == IF Known(x)' THEN 1 ELSE 0
                 L == IF Rival(r) THEN 1 ELSE 0
                 q == races
                 q2 == races'
      <3>3. K \in Int /\ K2 = 1 /\ L \in Int /\ K <= L
        BY <2>2, <2>6, <3>2
      <3>4. /\ q \in Int /\ q2 \in Int /\ q + L <= q2
            /\ P \in Int /\ F \in Int /\ C \in Int
        BY <1>1, <1>2, <2>1, <3>1
      <3>5. P + C <= F + q + K /\ C2 = C + 1 /\ F2 = F
        BY <1>1, <1>6, <2>2, <2>6
      <3> HIDE DEF K, K2, L, q, q2
      <3>6. P + C2 <= F + q2 + K2
        BY <3>3, <3>4, <3>5
      <3> QED
        BY <2>3, <3>5, <3>6 DEF P2, F2, C2, K2, q2
    <2> QED
      BY <2>4, <2>5, <2>6
  <1>12. CASE Drops(r)
    <2>1. /\ pc[r] \in {"emit", "sending"} /\ pc'[r] \in {"emit", "failed"}
          /\ UNCHANGED <<cache, posted, faults, races>>
      BY <1>12 DEF Drops, Stops, Turns, ServeTyped
    <2>2. P2 = P /\ F2 = F
      BY <2>1 DEF P2, P, F2, F
    <2>3. CASE pc[r] = "sending" /\ here
      <3>1. C2 = C - 1
        BY <2>1, <2>3, <1>2, <1>3, <1>4
      <3>2. Known(x)
        BY <2>3, <1>3, <1>8 DEF Active
      <3> QED
        BY <1>1, <1>2, <2>1, <2>2, <3>1, <3>2 DEF P2, F2, C2
    <2>4. CASE pc[r] = "emit" \/ ~here
      <3>1. C2 = C /\ ActiveAt(x)' = ActiveAt(x)
        <4>1. r \notin SendingTo(x) /\ r \notin SendingTo(x)'
          BY <2>1, <2>4, <1>3
        <4>2. r \notin ActiveAt(x) /\ r \notin ActiveAt(x)'
          BY <2>1, <2>4, <1>3 DEF Active
        <4> QED
          BY <4>1, <4>2, <1>2, <1>3, <1>4
      <3>2. Known(x)' <=> Known(x)
        BY <2>1, <3>1, <1>8
      <3> QED
        BY <1>1, <2>1, <2>2, <3>1, <3>2 DEF P2, F2, C2
    <2> QED
      BY <2>1, <2>3, <2>4
  <1>13. CASE Lands(r)
    <2>1. pc[r] = "sending" /\ pc'[r] = "accepted" /\ UNCHANGED <<cache, faults, races>>
      BY <1>13 DEF Lands, Turns, ServeTyped
    <2>2. C2 = C - (IF here THEN 1 ELSE 0) /\ (Known(x)' <=> Known(x))
      BY <2>1, <1>2, <1>3, <1>4, <1>8, <1>9 DEF Active
    <2>3. F2 = F /\ P2 <= P + (IF here THEN 1 ELSE 0)
      BY <2>1, <1>1, <1>5, <1>7 DEF F2, F
    <2> QED
      BY <1>1, <1>2, <2>1, <2>2, <2>3 DEF P2, F2, C2
  <1>14. CASE Waits(r)
    <2>1. /\ pc[r] = "accepted" /\ pc'[r] = "caching"
          /\ UNCHANGED <<cache, posted, faults, races>>
      BY <1>14 DEF Waits, Turns, ServeTyped
    <2>2. C2 = C /\ (Known(x)' <=> Known(x))
      BY <2>1, <1>2, <1>3, <1>4, <1>8, <1>9 DEF Active
    <2>3. P2 = P /\ F2 = F
      BY <2>1 DEF P2, P, F2, F
    <2> QED
      BY <1>1, <2>1, <2>2, <2>3 DEF P2, F2, C2
  <1>15. CASE Finishes(r)
    BY <1>15 DEF Finishes
  <1>16. CASE Loses(r)
    <2>1. /\ pc[r] \in {"accepted", "caching"} /\ pc'[r] \in {"emit", "failed", "ok"}
          /\ cache \subseteq cache' /\ Blames(r) /\ UNCHANGED <<posted, races>>
      BY <1>16 DEF Loses, Stops, Turns, Passes, ServeTyped
    <2>2. C2 = C
      BY <2>1, <1>2, <1>3, <1>4
    <2>3. P2 = P /\ F2 = F + (IF here THEN 1 ELSE 0)
      BY <2>1, <1>6, <1>7 DEF P2, P
    <2>4. ~here /\ Known(x) => Known(x)'
      BY <2>1, <1>3, <1>8
    <2> QED
      BY <1>1, <1>2, <2>1, <2>2, <2>3, <2>4 DEF P2, F2, C2
  <1>17. CASE Writes(r)
    <2>1. /\ pc[r] = "caching" /\ pc'[r] \in {"emit", "ok"} /\ cache' = cache \cup {Here(r)}
          /\ UNCHANGED <<posted, faults, races>>
      BY <1>17 DEF Writes, Passes, ServeTyped
    <2>2. C2 = C
      BY <2>1, <1>2, <1>3, <1>4
    <2>3. P2 = P /\ F2 = F
      BY <2>1 DEF P2, P, F2, F
    <2>4. Known(x) => Known(x)'
      BY <2>1, <1>3, <1>8 DEF here
    <2> QED
      BY <1>1, <1>2, <2>1, <2>2, <2>3, <2>4 DEF P2, F2, C2
  <1> QED
    BY <1>10, <1>11, <1>12, <1>13, <1>14, <1>15, <1>16, <1>17 DEF Kinds

LEMMA ServeStep == ServeInv /\ (Next \/ UNCHANGED vars) => ServeInv'
  <1>1. ASSUME ServeInv, Next PROVE ServeInv'
    <2>1. PICK r \in Runs : Fixed /\ Kinds(r)
      BY <1>1, StepsAreKinds DEF ServeInv
    <2> QED
      BY <1>1, <2>1, ServeTypedStep, AnswerableStep, FaultedStep, SeenOnceStep, PaidStep
      DEF ServeInv
  <1>2. ASSUME ServeInv, UNCHANGED vars PROVE ServeInv'
    <2>1. Fixed /\ UNCHANGED <<serve, attempt, pc, cache, seen, acked, posted, faults, races>>
      BY <1>2 DEF vars, Fixed
    <2>2. \A r \in Runs : Here(r)' = Here(r)
      BY <2>1, FixedPlaces DEF Here
    <2>3. Done' = Done
      BY <2>1, FixedPlaces DEF Done, Emitted
    <2>4. ServeTyped' /\ Answerable' /\ Faulted' /\ Sums' /\ SeenOnce'
      BY <1>2, <2>1, <2>2, <2>3, FixedPlaces
      DEF ServeInv, ServeTyped, Answerable, Faulted, Ahead, Sums, SeenOnce, Emitted
    <2>5. \A x \in Emitted : SendingTo(x)' = SendingTo(x) /\ (Known(x)' <=> Known(x))
      BY <2>1, <2>2, FixedPlaces DEF SendingTo, Known, ActiveAt
    <2>6. Paid'
      BY <1>2, <2>1, <2>5, FixedPlaces DEF ServeInv, Paid, Emitted
    <2> QED
      BY <2>4, <2>6 DEF ServeInv
  <1> QED
    BY <1>1, <1>2

LEMMA ServeFollows == ServeInv => OkIsDeliveredApart /\ DuplicatesHaveCause
  <1> SUFFICES ASSUME ServeInv PROVE OkIsDeliveredApart /\ DuplicatesHaveCause
    OBVIOUS
  <1>1. ASSUME streaming \/ ~shared, NEW x \in acked PROVE Delivered(x[1], x[2])
    <2>1. PICK y \in Emitted : PlaceOf(y) = PlaceOf(x) /\ posted[y] > 0
      BY DEF ServeInv, Answerable, Done
    <2>2. x \in Emitted /\ y = <<y[1], y[2]>> /\ y[1] \in Runs
      BY <2>1 DEF ServeInv, ServeTyped, Emitted
    <2>3. Key(y[1], y[2]) = Key(x[1], x[2]) /\ (shared \/ y[2] = x[2])
      BY <2>1 DEF PlaceOf, Place
    <2>4. y[2] = x[2]
      BY <1>1, <2>3 DEF Key
    <2> QED
      BY <2>1, <2>2, <2>3, <2>4 DEF Delivered
  <1>2. ASSUME NEW x \in Emitted
        PROVE  /\ posted[x] <= 1 + faults[x]
               /\ dedups => Total(posted, Sharing(x)) <= 1
               /\ Remembers =>
                     Total(posted, Sharing(x)) <= 1 + Total(faults, Sharing(x)) + races
    <2>1. /\ Total(posted, Sharing(x)) \in Nat /\ Total(faults, Sharing(x)) \in Nat
          /\ races \in Nat
      BY DEF ServeInv, Sums, Summable, ServeTyped
    <2>2. Cardinality(SendingTo(x)) \in Nat
      <3>1. SendingTo(x) \in SUBSET Runs
        BY DEF SendingTo
      <3> QED
        BY <3>1, ServeConstants, FS_Subset, FS_CardinalityType
    <2> QED
      BY <2>1, <2>2 DEF ServeInv, Faulted, SeenOnce, Paid
  <1> QED
    BY <1>1, <1>2 DEF OkIsDeliveredApart, OkIsDelivered, DuplicatesHaveCause, Emitted

\* An emit that returned ok was carried out at its own serve, where keys or
\* places are apart; whatever was carried out twice was so for a lost answer,
\* a failure of the cache or a race; and a webhook source has an item for
\* each emit that returned ok, and further ones for lost answers only
\* (slack-serve.ts, webhook-serve.ts under retry.ts; webhook-source.ts).
THEOREM DeliveredWithCauseAlways == MCSpec => []DeliveredWithCause
  <1>1. MCInit => ServeInv /\ RelayInv
    BY PartInit, ServeInitial, RelayInitial
  <1>2. ServeInv /\ RelayInv /\ [MCNext]_outboundVars => (ServeInv /\ RelayInv)'
    BY PartSteps, ServeStep, RelayStep
  <1>3. ServeInv /\ RelayInv => DeliveredWithCause
    BY ServeFollows, RelayFollows DEF DeliveredWithCause
  <1> QED
    BY <1>1, <1>2, <1>3, PTL DEF MCSpec


-----------------------------------------------------------------------------
(* What is made of an answer (serve adapters under core/src/composer's       *)
(* withRetry), and what a pipeline served as a tool says of its run          *)
(* (serve-mcp/src/mcp-tool-serve.ts).                                        *)
Named == {"webhook", "slack", "smtp", "resend", "postal", "mcp"}
LEMMA AnswerConstants == Attempts \in Nat \ {0} /\ Adapters \subseteq Named
  BY OutboundAssumption DEF OutboundAssumption, Named

Failures == Answers!Causes \ {"done"}
\* The request that this was the answer to may be made again.
MayPass(cause) ==
    /\ cause \in Failures /\ adapter # "mcp"
    /\ cause = "credentials" => adapter = "slack"
    /\ cause = "malformed" => adapter \in {"slack", "smtp"}
\* A class of error that fits its cause.
Fits(type, cause) ==
    /\ type \notin {"none", "cancelled"}
    /\ type = "auth" => cause = "credentials"
    /\ type = "rate_limited" => cause = "busy"
    /\ type \in Answers!Retryable => MayPass(cause)
    /\ adapter # "mcp" /\ (cause \in {"busy", "outage"}
                           \/ (cause = "unreachable" /\ adapter # "resend"))
            => type \in Answers!Retryable
    /\ adapter = "resend" /\ cause \in {"moved", "unreachable"} => type = "unknown"

\* Every adapter makes of a cause a class that fits it.
LEMMA TypesFit ==
    adapter \in Named => \A cause \in Failures : \A type \in Answers!Types(cause) : Fits(type, cause)
  <1> SUFFICES ASSUME adapter \in Named, NEW cause \in Failures, NEW type \in Answers!Types(cause)
               PROVE  Fits(type, cause)
    OBVIOUS
  <1> USE DEF Fits, MayPass, Failures, Answers!Causes, Answers!Retryable
  <1>1. CASE adapter = "webhook"
    BY <1>1 DEF Answers!Types, Answers!Statuses, Answers!webhookError
  <1>2. CASE adapter = "postal"
    BY <1>2 DEF Answers!Types, Answers!Statuses, Answers!classifyPostalStatus
  <1>3. CASE adapter = "slack"
    BY <1>3 DEF Answers!Types, Answers!Words, Answers!classifySlackError
  <1>4. CASE adapter = "smtp"
    BY <1>4 DEF Answers!Types, Answers!Words, Answers!classifySmtpError
  <1>5. CASE adapter = "resend"
    BY <1>5 DEF Answers!Types, Answers!Statuses, Answers!ResendName, Answers!classifyResendError
  <1>6. CASE adapter = "mcp"
    BY <1>6 DEF Answers!Types
  <1> QED
    BY <1>1, <1>2, <1>3, <1>4, <1>5, <1>6 DEF Named

AnswersTyped ==
    /\ adapter \in Adapters /\ input \in {"valid", "schema", "key", "host"}
    /\ step \in {"start", "emit", "sent", "wait", "done"}
    /\ causes \in Seq(Answers!Causes \cup {"thrown"}) /\ keys \in Seq({"none", "given"})
    /\ aborted \in BOOLEAN

\* A refused input sends nothing; every request has the key of the emit.
Keyed ==
    /\ Answers!Refuses => keys = <<>> /\ causes = <<>> /\ step # "sent"
    /\ \A i \in 1..Len(keys) : keys[i] = Answers!Key

\* Attempts are left to whoever is to make one, and all before may pass.
Retried ==
    /\ Len(causes) <= Attempts
    /\ step \in {"emit", "sent", "wait"} => Len(causes) < Attempts
    /\ step = "start" => Len(causes) = 0
    /\ \A i \in 1..Len(causes) :
            i < Len(causes) \/ step \in {"emit", "sent", "wait"} => MayPass(causes[i])

\* What is returned, or would be if the run were aborted, is of the last cause.
Final == causes[Len(causes)]
Unsent == result = [error |-> "validation"] \/ (aborted /\ result = [error |-> "cancelled"])
Failed(type) == Final \in Failures /\ Fits(type, Final) /\ result = [error |-> type]
Replied ==
    /\ step = "wait" => Len(causes) # 0 /\ \E type \in Answers!Retryable : Failed(type)
    /\ step = "done" =>
        \/ Len(causes) = 0 /\ Unsent
        \/ Len(causes) # 0 /\ Final = "done" /\ \E id : result = [error |-> "none", id |-> id]
        \/ Len(causes) # 0 /\ Final = "thrown" /\ result = [error |-> "unknown"]
        \/ /\ Len(causes) # 0
           /\ \E type : /\ Failed(type)
                        /\ type \in Answers!Retryable => aborted \/ Len(causes) = Attempts

AnswersInv == AnswersTyped /\ Keyed /\ Retried /\ Replied

LEMMA AnswersInitial == Answers!Init => AnswersInv
  <1>1. Attempts \in Nat \ {0}
    BY AnswerConstants
  <1> SUFFICES ASSUME Answers!Init PROVE AnswersInv
    OBVIOUS
  <1>2. AnswersTyped
    <2>1. input \in {"valid", "schema", "key", "host"}
      BY DEF Answers!Init
    <2>2. <<>> \in Seq(Answers!Causes \cup {"thrown"}) /\ <<>> \in Seq({"none", "given"})
      OBVIOUS
    <2> QED
      BY <2>1, <2>2 DEF Answers!Init, AnswersTyped
  <1>3. Keyed /\ Retried /\ Replied
    BY <1>1 DEF Answers!Init, Keyed, Retried, Replied
  <1> QED
    BY <1>2, <1>3 DEF AnswersInv

\* The causes with one more.
LEMMA OneMore ==
    ASSUME AnswersTyped, NEW c \in Answers!Causes \cup {"thrown"}, causes' = Append(causes, c)
    PROVE  /\ causes' \in Seq(Answers!Causes \cup {"thrown"}) /\ Len(causes') = Len(causes) + 1
           /\ Len(causes) \in Nat /\ Final' = c
           /\ \A i \in 1..Len(causes) : causes'[i] = causes[i]
  BY DEF AnswersTyped, Final

\* An answer, or none, to a request that was sent.
LEMMA FailsStep ==
    ASSUME AnswersInv, step = "sent", UNCHANGED <<adapter, input, keys, aborted>>,
           NEW type, NEW c \in Failures \cup {"thrown"},
           causes' = Append(causes, c), Answers!Fails(type),
           IF c = "thrown" THEN type = "unknown" ELSE Fits(type, c)
    PROVE  AnswersInv'
  <1>0. Attempts \in Nat \ {0}
    BY AnswerConstants
  <1> DEFINE n == Len(causes)
             n2 == Len(causes')
  <1>1. /\ causes' \in Seq(Answers!Causes \cup {"thrown"}) /\ n2 = n + 1
        /\ n \in Nat /\ Final' = c
        /\ \A i \in 1..n : causes'[i] = causes[i]
    BY OneMore DEF AnswersInv, Failures
  <1>2. /\ n < Attempts /\ \A i \in 1..n : MayPass(causes[i])
        /\ ~Answers!Refuses
    BY DEF AnswersInv, Retried, Keyed
  <1>3. \A i : MayPass(causes[i])' <=> MayPass(causes'[i])
    BY DEF MayPass, Failures
  <1>4. causes'[n2] = c
    BY <1>1 DEF Final
  <1>5. /\ type \in Answers!Retryable /\ n + 1 < Attempts => step' = "wait"
        /\ ~(type \in Answers!Retryable /\ n + 1 < Attempts) => step' = "done"
        /\ result' = [error |-> type]
    BY DEF Answers!Fails, Answers!Returns
  <1>6. AnswersTyped'
    BY <1>1, <1>5 DEF AnswersInv, AnswersTyped
  <1>7. Keyed'
    BY <1>2 DEF AnswersInv, Keyed, Answers!Refuses, Answers!Key
  <1>8. type \in Answers!Retryable => MayPass(c)
    BY DEF Fits, Answers!Retryable
  <1>9. Retried'
    <2>1. n2 <= Attempts /\ (step' \in {"emit", "sent", "wait"} => n2 < Attempts) /\ step' # "start"
      BY <1>0, <1>1, <1>2, <1>5
    <2>2. ASSUME NEW i \in 1..n2, i < n2 \/ step' \in {"emit", "sent", "wait"}
          PROVE  MayPass(causes'[i])
      <3>1. CASE i < n2
        BY <3>1, <1>1, <1>2
      <3>2. CASE i = n2
        BY <3>2, <2>2, <1>1, <1>4, <1>5, <1>8
      <3> QED
        BY <3>1, <3>2, <1>1
    <2>3. \A i \in 1..n2 :
            i < n2 \/ step' \in {"emit", "sent", "wait"} => MayPass(causes[i])'
      BY <2>2, <1>3
    <2> QED
      BY <2>1, <2>3 DEF Retried
  <1>10. Replied'
    <2>1. c # "thrown" => Failed(type)'
      BY <1>1, <1>5 DEF Failed, Fits, MayPass
    <2>2. c = "thrown" => step' = "done" /\ Final' = "thrown" /\ result' = [error |-> "unknown"]
      BY <1>1, <1>5 DEF Answers!Retryable
    <2>3. n2 # 0 /\ (step' = "done" /\ type \in Answers!Retryable => n2 = Attempts)
      BY <1>0, <1>1, <1>2, <1>5
    <2> QED
      BY <2>1, <2>2, <2>3, <1>5 DEF Replied
  <1> QED
    BY <1>6, <1>7, <1>9, <1>10 DEF AnswersInv

LEMMA AnswersStep == AnswersInv /\ (Answers!Next \/ UNCHANGED answerVars) => AnswersInv'
  <1> SUFFICES ASSUME AnswersInv, Answers!Next \/ UNCHANGED answerVars PROVE AnswersInv'
    OBVIOUS
  <1>0. Len(causes) \in Nat /\ Attempts \in Nat \ {0} /\ adapter \in Named
    BY AnswerConstants DEF AnswersInv, AnswersTyped
  <1>1. CASE Answers!Attempt
    <2>1. step \in {"start", "wait"} /\ UNCHANGED <<adapter, input, causes, keys, aborted>>
      BY <1>1 DEF Answers!Attempt
    <2>2. CASE aborted
      <3>1. step' = "done" /\ result' = IF causes = <<>> THEN [error |-> "cancelled"] ELSE result
        BY <1>1, <2>2 DEF Answers!Attempt, Answers!Returns
      <3>2. AnswersTyped' /\ Keyed' /\ Retried'
        BY <2>1, <3>1, <1>0
        DEF AnswersInv, AnswersTyped, Keyed, Retried, MayPass, Answers!Refuses, Answers!Key
      <3>3. Replied'
        <4>1. CASE Len(causes) = 0
          BY <4>1, <2>1, <2>2, <3>1 DEF AnswersInv, AnswersTyped, Replied, Unsent
        <4>2. CASE Len(causes) # 0
          <5>1. step = "wait" /\ UNCHANGED result
            BY <4>2, <2>1, <3>1 DEF AnswersInv, Retried
          <5>2. PICK type \in Answers!Retryable : Failed(type)
            BY <5>1 DEF AnswersInv, Replied
          <5>3. Failed(type)'
            BY <5>1, <5>2, <2>1 DEF Failed, Final, Fits, MayPass
          <5> QED
            BY <5>3, <4>2, <2>1, <2>2, <3>1 DEF Replied
        <4> QED
          BY <4>1, <4>2
      <3> QED
        BY <3>2, <3>3 DEF AnswersInv
    <2>3. CASE ~aborted
      <3>1. step' = "emit" /\ UNCHANGED result
        BY <1>1, <2>3 DEF Answers!Attempt
      <3> QED
        BY <2>1, <3>1, <1>0
        DEF AnswersInv, AnswersTyped, Keyed, Retried, Replied, MayPass, Answers!Refuses, Answers!Key
    <2> QED
      BY <2>2, <2>3
  <1>2. CASE Answers!Emit
    <2>1. step = "emit" /\ UNCHANGED <<adapter, input, causes, aborted>>
      BY <1>2 DEF Answers!Emit
    <2>2. CASE Answers!Refuses
      <3>1. step' = "done" /\ result' = [error |-> "validation"] /\ UNCHANGED keys
        BY <1>2, <2>2 DEF Answers!Emit, Answers!Returns
      <3>2. Len(causes) = 0 /\ causes = <<>> /\ keys = <<>>
        BY <2>2 DEF AnswersInv, Keyed
      <3> QED
        BY <2>1, <3>1, <3>2, <1>0
        DEF AnswersInv, AnswersTyped, Keyed, Retried, Replied, Unsent, Answers!Refuses, Answers!Key
    <2>3. CASE ~Answers!Refuses
      <3>1. step' = "sent" /\ keys' = Append(keys, Answers!Key) /\ UNCHANGED result
        BY <1>2, <2>3 DEF Answers!Emit
      <3>2. AnswersTyped' /\ Len(keys') = Len(keys) + 1 /\ Len(keys) \in Nat
        BY <2>1, <3>1 DEF AnswersInv, AnswersTyped, Answers!Key
      <3>3. \A i \in 1..Len(keys') : keys'[i] = Answers!Key
        BY <3>1, <3>2 DEF AnswersInv, AnswersTyped, Keyed, Answers!Key
      <3>4. Keyed' /\ Retried' /\ Replied'
        BY <2>1, <2>3, <3>1, <3>3, <1>0
        DEF AnswersInv, Keyed, Retried, Replied, MayPass, Answers!Refuses, Answers!Key
      <3> QED
        BY <3>2, <3>4 DEF AnswersInv
    <2> QED
      BY <2>2, <2>3
  <1>3. CASE Answers!Answer
    <2>1. step = "sent"
      BY <1>3 DEF Answers!Answer
    <2>2. CASE Answers!Ok
      <3>1. /\ causes' = Append(causes, "done") /\ step' = "done"
            /\ \E id : result' = [error |-> "none", id |-> id]
            /\ UNCHANGED <<adapter, input, keys, aborted>>
        BY <2>2 DEF Answers!Ok, Answers!Returns
      <3>2. /\ causes' \in Seq(Answers!Causes \cup {"thrown"})
            /\ Len(causes') = Len(causes) + 1 /\ Final' = "done"
            /\ \A i \in 1..Len(causes) : causes'[i] = causes[i]
        BY <3>1, OneMore DEF AnswersInv, Answers!Causes
      <3>3. AnswersTyped' /\ Keyed' /\ Replied'
        <4>1. AnswersTyped'
          BY <3>1, <3>2 DEF AnswersInv, AnswersTyped
        <4>2. Keyed'
          BY <2>1, <3>1 DEF AnswersInv, Keyed, Answers!Refuses, Answers!Key
        <4>3. Replied'
          <5>1. Len(causes') # 0
            BY <3>2, <1>0
          <5>2. (Len(causes) # 0 /\ Final = "done" /\ \E id : result = [error |-> "none", id |-> id])'
            BY <3>1, <3>2, <5>1
          <5> QED
            BY <5>2, <3>1 DEF Replied
        <4> QED
          BY <4>1, <4>2, <4>3
      <3>4. Retried'
        <4>1. \A i \in 1..Len(causes) : MayPass(causes'[i])
          BY <2>1, <3>2 DEF AnswersInv, Retried
        <4>2. \A i : MayPass(causes[i])' <=> MayPass(causes'[i])
          BY <3>1 DEF MayPass, Failures
        <4>3. \A i \in 1..Len(causes') : i < Len(causes') => MayPass(causes[i])'
          BY <4>1, <4>2, <3>2, <1>0
        <4>4. Len(causes) < Attempts
          BY <2>1 DEF AnswersInv, Retried
        <4> QED
          BY <4>3, <4>4, <3>1, <3>2, <1>0 DEF Retried
      <3> QED
        BY <3>3, <3>4 DEF AnswersInv
    <2>3. ASSUME NEW cause \in Answers!Causes \ {"done"}, causes' = Append(causes, cause),
                 NEW type \in Answers!Types(cause), Answers!Fails(type),
                 UNCHANGED <<adapter, input, keys, aborted>>
          PROVE  AnswersInv'
      <3>1. Fits(type, cause) /\ cause \in Failures /\ cause # "thrown"
        BY <1>0, TypesFit DEF Failures, Answers!Causes
      <3> QED
        BY <2>1, <2>3, <3>1, FailsStep
    <2> QED
      BY <1>3, <2>2, <2>3 DEF Answers!Answer
  <1>4. CASE Answers!Throws
    <2>1. /\ step = "sent" /\ causes' = Append(causes, "thrown") /\ Answers!Fails("unknown")
          /\ UNCHANGED <<adapter, input, keys, aborted>>
      BY <1>4 DEF Answers!Throws
    <2> QED
      BY <2>1, FailsStep
  <1>5. CASE Answers!Abort
    BY <1>5
    DEF Answers!Abort, AnswersInv, AnswersTyped, Keyed, Retried, Replied, MayPass, Unsent,
        Failed, Final, Fits, Answers!Refuses, Answers!Key
  <1>6. CASE UNCHANGED answerVars
    BY <1>6
    DEF answerVars, AnswersInv, AnswersTyped, Keyed, Retried, Replied, MayPass, Unsent,
        Failed, Final, Fits, Answers!Refuses, Answers!Key
  <1> QED
    BY <1>1, <1>2, <1>3, <1>4, <1>5, <1>6 DEF Answers!Next

LEMMA AnswersFollow == AnswersInv => Answers!AnswersAreUnderstood
  <1> SUFFICES ASSUME AnswersInv PROVE Answers!AnswersAreUnderstood
    OBVIOUS
  <1>0. Len(causes) \in Nat /\ DOMAIN causes = 1..Len(causes) /\ DOMAIN keys = 1..Len(keys)
    BY DEF AnswersInv, AnswersTyped
  <1>1. Answers!OneKeyPerEmit
    BY <1>0 DEF AnswersInv, Keyed, Answers!OneKeyPerEmit, Answers!Refuses
  <1>2. Answers!RefusalsAreFinal
    BY <1>0
    DEF AnswersInv, Retried, Answers!RefusalsAreFinal, MayPass, Failures, Answers!Causes
  <1>3. Answers!Last(causes) = Final /\ (causes = <<>> <=> Len(causes) = 0)
    BY DEF AnswersInv, AnswersTyped, Answers!Last, Final
  <1>4. Answers!OutagesAreRetried
    BY <1>3 DEF AnswersInv, Replied, Failed, Fits, Answers!OutagesAreRetried
  <1>5. Answers!ResultIsOfTheLast
    BY <1>3
    DEF AnswersInv, Replied, Unsent, Failed, Fits, Failures, Answers!ResultIsOfTheLast
  <1> QED
    BY <1>1, <1>2, <1>4, <1>5 DEF Answers!AnswersAreUnderstood

-----------------------------------------------------------------------------
\* What the call of a tool answers is what the code makes of its run's end.
ToolInv ==
    /\ by \in {"handler", "emit"} /\ argument \in {"valid", "invalid"}
    /\ phase \in {"called", "running", "done"} /\ left \in BOOLEAN
    /\ phase = "called" => steps = 0 /\ inner = "none" /\ ~left
    /\ argument = "invalid" => phase # "running" /\ steps = 0 /\ inner = "none"
    /\ phase = "done" =>
        IF argument = "invalid" THEN reply = Relay!ToolAnswer("invalid")
        ELSE inner \in Relay!Goods \cup Relay!Bads /\ reply = Relay!ToolAnswer(inner)
    /\ by = "emit" => late = 0

LEMMA ToolInitial == Relay!ToolInit => ToolInv
  BY DEF Relay!ToolInit, ToolInv

LEMMA ToolStep == ToolInv /\ (Relay!ToolNext \/ UNCHANGED toolVars) => ToolInv'
  <1> SUFFICES ASSUME ToolInv, Relay!ToolNext \/ UNCHANGED toolVars PROVE ToolInv'
    OBVIOUS
  <1> USE DEF ToolInv
  <1>0. by' = by => \A o : Relay!ToolAnswer(o)' = Relay!ToolAnswer(o)
    BY DEF Relay!ToolAnswer
  <1>1. CASE Relay!Call
    BY <1>0, <1>1 DEF Relay!Call, Relay!ToolAnswer
  <1>2. CASE Relay!Step
    BY <1>2 DEF Relay!Step, Relay!Signal
  <1>3. CASE Relay!RunEnds
    BY <1>3 DEF Relay!RunEnds, Relay!ToolAnswer, Relay!Goods, Relay!Bads
  <1>4. CASE Relay!Leave
    BY <1>4 DEF Relay!Leave
  <1>5. CASE UNCHANGED toolVars
    BY <1>5 DEF toolVars, Relay!ToolAnswer
  <1> QED
    BY <1>1, <1>2, <1>3, <1>4, <1>5 DEF Relay!ToolNext

LEMMA ToolFollows == ToolInv => Relay!ToolIsTrue
  <1>1. \A o \in Relay!Goods \cup Relay!Bads \cup {"invalid"} :
            o \in Relay!Goods <=>
                \/ Relay!ToolAnswer(o).kind = "ok"
                \/ Relay!ToolAnswer(o).kind = "content" /\ ~Relay!ToolAnswer(o).isError
    BY DEF Relay!ToolAnswer, Relay!Goods, Relay!Bads
  <1> QED
    BY <1>1 DEF ToolInv, Relay!ToolIsTrue, Relay!Goods, Relay!Bads

(* What the other side says is retried, or not, as it means, with one key,   *)
(* and the result is of the last request; a call of a tool reports success   *)
(* exactly when the run behind it ended well, and an aborted emit's run      *)
(* begins no further step: for every adapter, any number of attempts and     *)
(* whether or not the caller aborts.                                         *)
THEOREM AnswersAreUnderstoodAlways == MCSpec => []AnswersAreUnderstood
  <1>1. MCInit => AnswersInv /\ ToolInv
    BY PartInit, AnswersInitial, ToolInitial
  <1>2. AnswersInv /\ ToolInv /\ [MCNext]_outboundVars => (AnswersInv /\ ToolInv)'
    BY PartSteps, AnswersStep, ToolStep
  <1>3. AnswersInv /\ ToolInv => AnswersAreUnderstood
    BY AnswersFollow, ToolFollows DEF AnswersAreUnderstood
  <1> QED
    BY <1>1, <1>2, <1>3, PTL DEF MCSpec

=============================================================================
