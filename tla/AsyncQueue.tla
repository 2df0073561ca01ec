----------------------------- MODULE AsyncQueue -----------------------------
(***************************************************************************)
(* The buffer of the webhook source (packages/source-webhook): requests    *)
(* are verified and pushed by the HTTP handler (webhook-source.ts) into an *)
(* AsyncQueue (async-queue.ts), from which the runs of a pipeline pull     *)
(* through asynchronous iterators, one per run, each with the AbortSignal  *)
(* of its run.  fetch() drains the buffer without waiting.                 *)
(***************************************************************************)
EXTENDS Naturals, Sequences, FiniteSets, SequencesExt

CONSTANTS
    Items,      \* the requests that may arrive, one atom each
    Iterators,  \* one per run of a pipeline over this source
    Closable,   \* whether close() may be called; the webhook source never does
    MaxDrains   \* bound: calls of fetch()

ASSUME QueueAssumption ==
    /\ IsFiniteSet(Items) /\ IsFiniteSet(Iterators)
    /\ Closable \in BOOLEAN /\ MaxDrains \in Nat

VARIABLES
    items,      \* AsyncQueue.items
    resolvers,  \* AsyncQueue.resolvers: whose promise each one resolves
    closed,     \* AsyncQueue.closed
    phase,      \* where each iterator's generator is suspended
    inbox,      \* the item a woken iterator was resolved with, as a sequence
    aborted,    \* the signal of each iterator's run
    acked,      \* the items answered with 200, in that order
    rejected,   \* the requests answered with 400
    delivered,  \* what each iterator has yielded
    drained,    \* what fetch() has returned
    drains,
    abandoned   \* history: the iterators aborted while they waited

queue == <<items, resolvers, closed>>
consumers == <<phase, inbox, aborted, delivered, abandoned>>
vars == <<queue, consumers, acked, rejected, drained, drains>>

Phases == {"new",     \* the generator has not been started
           "loop",    \* at the top of the loop
           "waiting", \* awaiting the promise whose resolver was pushed
           "woken",   \* the promise is resolved with an item
           "yielded", \* suspended at a yield, the consumer has the item
           "done"}

TypeOK ==
    /\ items \in Seq(Items) /\ resolvers \in Seq(Iterators) /\ closed \in BOOLEAN
    /\ phase \in [Iterators -> Phases]
    /\ inbox \in [Iterators -> Seq(Items)]
    /\ \A i \in Iterators : Len(inbox[i]) = IF phase[i] = "woken" THEN 1 ELSE 0
    /\ aborted \in [Iterators -> BOOLEAN]
    /\ acked \in Seq(Items) /\ rejected \subseteq Items
    /\ delivered \in [Iterators -> Seq(Items)]
    /\ drained \in Seq(Items) /\ drains \in 0..MaxDrains
    /\ abandoned \subseteq Iterators

Init ==
    /\ items = <<>> /\ resolvers = <<>> /\ closed = FALSE
    /\ phase = [i \in Iterators |-> "new"]
    /\ inbox = [i \in Iterators |-> <<>>]
    /\ aborted = [i \in Iterators |-> FALSE]
    /\ acked = <<>> /\ rejected = {}
    /\ delivered = [i \in Iterators |-> <<>>]
    /\ drained = <<>> /\ drains = 0 /\ abandoned = {}

-----------------------------------------------------------------------------
(***************************************************************************)
(* AsyncQueue.push.  The first resolver is taken whoever it belongs to:    *)
(* resolving a promise that is settled already has no effect.              *)
(***************************************************************************)
PushBuffersFirst(m) ==                                              \* mutant
    /\ items' = Append(items, m)
    /\ UNCHANGED <<resolvers, phase, inbox>>
PushUnshifts(m) ==                                                  \* mutant
    IF resolvers = <<>> THEN items' = <<m>> \o items /\ UNCHANGED <<resolvers, phase, inbox>>
    ELSE LET i == Head(resolvers)
         IN  /\ resolvers' = Tail(resolvers) /\ UNCHANGED items
             /\ phase' = [phase EXCEPT ![i] = IF @ = "waiting" THEN "woken" ELSE @]
             /\ inbox' = [inbox EXCEPT ![i] = IF phase[i] = "waiting" THEN <<m>> ELSE @]
push(m) ==
    \/ closed /\ UNCHANGED <<items, resolvers, phase, inbox>>
    \/ /\ ~closed /\ resolvers = <<>>
       /\ items' = Append(items, m)
       /\ UNCHANGED <<resolvers, phase, inbox>>
    \/ /\ ~closed /\ resolvers # <<>>
       /\ resolvers' = Tail(resolvers)
       /\ LET i == Head(resolvers)
          IN IF phase[i] = "waiting"
             THEN phase' = [phase EXCEPT ![i] = "woken"] /\ inbox' = [inbox EXCEPT ![i] = <<m>>]
             ELSE UNCHANGED <<phase, inbox>>
       /\ UNCHANGED items

Unanswered(m) == m \notin ToSet(acked) \cup rejected

\* The POST handler: a request that fails a check is answered 400 ...
Reject(m) ==
    /\ Unanswered(m)
    /\ rejected' = rejected \cup {m}
    /\ UNCHANGED <<queue, consumers, acked, drained, drains>>

\* ... and one that passes them all is pushed and answered 200.
Accept(m) ==
    /\ Unanswered(m)
    /\ push(m)
    /\ acked' = Append(acked, m)
    /\ UNCHANGED <<closed, aborted, delivered, abandoned, rejected, drained, drains>>

\* AsyncQueue.close.
Close ==
    /\ Closable /\ ~closed
    /\ closed' = TRUE /\ resolvers' = <<>>
    /\ phase' = [i \in Iterators |-> IF phase[i] = "waiting" THEN "done" ELSE phase[i]]
    /\ UNCHANGED <<items, inbox, aborted, delivered, abandoned, acked, rejected, drained, drains>>

\* fetchImpl: AsyncQueue.drain.
DrainCopies ==                                                      \* mutant
    /\ drains < MaxDrains /\ drains' = drains + 1
    /\ drained' = drained \o items
    /\ UNCHANGED <<queue, consumers, acked, rejected>>
Drain ==
    /\ drains < MaxDrains /\ drains' = drains + 1
    /\ drained' = drained \o items /\ items' = <<>>
    /\ UNCHANGED <<resolvers, closed, consumers, acked, rejected>>

(***************************************************************************)
(* The generator.                                                          *)
(***************************************************************************)
Start(i) ==
    /\ phase[i] = "new"
    /\ phase' = [phase EXCEPT ![i] = "loop"]
    /\ UNCHANGED <<queue, inbox, aborted, delivered, abandoned, acked, rejected, drained, drains>>

Yield(i, m) ==
    /\ phase' = [phase EXCEPT ![i] = "yielded"]
    /\ delivered' = [delivered EXCEPT ![i] = Append(@, m)]

\* One turn of the loop, up to a yield, an await or a return.
Turn(i) ==
    /\ phase[i] = "loop"
    /\ \/ /\ aborted[i] \/ (items = <<>> /\ closed)
          /\ phase' = [phase EXCEPT ![i] = "done"]
          /\ UNCHANGED <<items, resolvers, delivered>>
       \/ /\ ~aborted[i] /\ items # <<>>
          /\ Yield(i, Head(items)) /\ items' = Tail(items)
          /\ UNCHANGED resolvers
       \/ /\ ~aborted[i] /\ items = <<>> /\ ~closed
          /\ phase' = [phase EXCEPT ![i] = "waiting"]
          /\ resolvers' = Append(resolvers, i)
          /\ UNCHANGED <<items, delivered>>
    /\ UNCHANGED <<closed, inbox, aborted, abandoned, acked, rejected, drained, drains>>

\* The awaited promise was resolved with an item.
Wake(i) ==
    /\ phase[i] = "woken"
    /\ Yield(i, Head(inbox[i]))
    /\ inbox' = [inbox EXCEPT ![i] = <<>>]
    /\ UNCHANGED <<queue, aborted, abandoned, acked, rejected, drained, drains>>

\* The consumer asks for the next item, or stops iterating.
Resume(i) ==
    /\ phase[i] = "yielded"
    /\ phase' = [phase EXCEPT ![i] = "loop"]
    /\ UNCHANGED <<queue, inbox, aborted, delivered, abandoned, acked, rejected, drained, drains>>

Leave(i) ==
    /\ phase[i] = "yielded"
    /\ phase' = [phase EXCEPT ![i] = "done"]
    /\ UNCHANGED <<queue, inbox, aborted, delivered, abandoned, acked, rejected, drained, drains>>

(***************************************************************************)
(* The run's signal fires.  abortHandler looks its promise's `resolve` up  *)
(* among the resolvers, where only the wrapper around it was ever pushed:  *)
(* the promise is settled, and the wrapper stays.                          *)
(***************************************************************************)
AbortDropsAll(i) ==                                                 \* mutant
    /\ ~aborted[i] /\ aborted' = [aborted EXCEPT ![i] = TRUE]
    /\ phase' = [phase EXCEPT ![i] = IF @ \in {"waiting", "woken"} THEN "done" ELSE @]
    /\ inbox' = [inbox EXCEPT ![i] = <<>>]
    /\ abandoned' = IF phase[i] = "waiting" THEN abandoned \cup {i} ELSE abandoned
    /\ UNCHANGED <<queue, delivered, acked, rejected, drained, drains>>
Abort(i) ==
    /\ ~aborted[i] /\ aborted' = [aborted EXCEPT ![i] = TRUE]
    /\ IF phase[i] = "waiting"
       THEN phase' = [phase EXCEPT ![i] = "done"] /\ abandoned' = abandoned \cup {i}
       ELSE UNCHANGED <<phase, abandoned>>
    /\ UNCHANGED <<queue, inbox, delivered, acked, rejected, drained, drains>>

Generator(i) == Start(i) \/ Turn(i) \/ Wake(i) \/ Resume(i)

Next ==
    \/ \E m \in Items : Accept(m) \/ Reject(m)
    \/ \E i \in Iterators : Generator(i) \/ Leave(i) \/ Abort(i)
    \/ Close \/ Drain

Spec == Init /\ [][Next]_vars

\* The runs keep pulling; nobody owes a request, an abort or a fetch().
FairSpec == Spec /\ \A i \in Iterators : WF_vars(Generator(i))

-----------------------------------------------------------------------------
(***************************************************************************)
(* Properties.                                                             *)
(***************************************************************************)
\* The places where an accepted item can be.
Holders(m) ==
    {<<"delivered", i>> : i \in {j \in Iterators : m \in ToSet(delivered[j])}}
      \cup {<<"inbox", i>> : i \in {j \in Iterators : m \in ToSet(inbox[j])}}
      \cup (IF m \in ToSet(items) THEN {<<"items">>} ELSE {})
      \cup (IF m \in ToSet(drained) THEN {<<"drained">>} ELSE {})

Lost == {m \in ToSet(acked) : Holders(m) = {}}

\* No accepted item is ever handed out twice or to two consumers, across
\* iterators, buffered items and fetch() (async-queue.ts 11-37).
AtMostOnce ==
    /\ \A m \in Items : Cardinality(Holders(m)) <= 1
    /\ IsInjective(items) /\ IsInjective(drained)
    /\ \A i \in Iterators : IsInjective(delivered[i])

\* Each consumer sees the items it gets in the order they were accepted, and
\* what is still buffered comes after everything it has been given.
Order(m) == CHOOSE n \in DOMAIN acked : acked[n] = m
Increasing(s) == \A j, k \in DOMAIN s : j < k => Order(s[j]) < Order(s[k])
DeliveredInOrder ==
    \A i \in Iterators : Increasing(delivered[i] \o inbox[i] \o items)

\* No lost wake-up: while anyone waits there is nothing buffered, and a
\* waiting iterator can be reached through its resolver.
WaitersAreReachable ==
    /\ resolvers # <<>> => items = <<>>
    /\ \A i \in Iterators : phase[i] = "waiting" =>
            Cardinality({n \in DOMAIN resolvers : resolvers[n] = i}) = 1

\* An accepted item disappears only because an iterator was aborted while it
\* waited, and each such abort costs one item at most (async-queue.ts 56-66);
\* on a closed queue everything pushed disappears.
LossIsBounded ==
    ~closed =>
        Cardinality(Lost)
          + Cardinality({n \in DOMAIN resolvers : phase[resolvers[n]] # "waiting"})
          <= Cardinality(abandoned)

\* The queue between any two callbacks.
QueueIsSound ==
    TypeOK /\ AtMostOnce /\ DeliveredInOrder /\ WaitersAreReachable /\ LossIsBounded

\* An accepted item that is not lost to an abandoned waiter reaches a
\* consumer, as long as one run is left that pulls (async-queue.ts 11-19,
\* 39-72): nobody sleeps beside a buffered item.
EventuallyHandedOver ==
    \A m \in Items :
        m \in ToSet(acked) ~>
            \/ \E i \in Iterators : m \in ToSet(delivered[i])
            \/ m \in ToSet(drained) \cup Lost
            \/ \A i \in Iterators : phase[i] = "done" \/ aborted[i]

\* async-queue.ts:3: "Items pushed before iteration starts are held and
\* yielded in order."
ItemsAreHeld == ~closed => Lost = {}
=============================================================================
