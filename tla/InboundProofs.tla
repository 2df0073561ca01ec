--------------------------- MODULE InboundProofs ---------------------------
(***************************************************************************)
(* Theorems about what brings items into a pipeline: AsyncQueue, for any   *)
(* requests, any number of iterators and calls of fetch(), with and        *)
(* without close(); then SignedDelivery, RemoteReads and PagedSource as    *)
(* MCInbound puts them together, for any rows, secrets and times.          *)
(*                                                                         *)
(* The argument about the queue speaks of the places of an item by name    *)
(* where the model collects them in a set (Holders), and of resolvers by   *)
(* the iterators they wake where the model counts positions.  That about   *)
(* the pages counts the rows up to one (Place), whichever way they are     *)
(* numbered: by a cursor, an offset or a page.                             *)
(***************************************************************************)
EXTENDS MCInbound, SequenceTheorems, FiniteSetTheorems, TLAPS

\* Iterator i has been given m; somebody holds m.
Has(i, m) == m \in ToSet(delivered[i]) \cup ToSet(inbox[i])
Held(m) == (\E i \in Iterators : Has(i, m)) \/ m \in ToSet(items) \cup ToSet(drained)

\* The places of an item exclude each other, and none holds an item twice.
Apart ==
    /\ IsInjective(acked) /\ IsInjective(items) /\ IsInjective(drained)
    /\ \A i \in Iterators : IsInjective(delivered[i])
    /\ \A i \in Iterators : ToSet(delivered[i]) \cap ToSet(inbox[i]) = {}
    /\ \A i, j \in Iterators, m \in Items : Has(i, m) /\ Has(j, m) => i = j
    /\ \A i \in Iterators, m \in Items : Has(i, m) => m \notin ToSet(items) \cup ToSet(drained)
    /\ ToSet(items) \cap ToSet(drained) = {}
    /\ \A m \in Items : Held(m) => m \in ToSet(acked)

\* The order of acceptance, as a function of what was accepted.
Rank(a, m) == CHOOSE n \in DOMAIN a : a[n] = m
Rising(a, s) == \A j, k \in DOMAIN s : j < k => Rank(a, s[j]) < Rank(a, s[k])
Before(a, S, T) == \A x \in S, y \in T : Rank(a, x) < Rank(a, y)

Sorted ==
    /\ Rising(acked, items)
    /\ \A i \in Iterators :
        /\ Rising(acked, delivered[i])
        /\ Before(acked, ToSet(delivered[i]), ToSet(inbox[i]))
        /\ Before(acked, ToSet(delivered[i]) \cup ToSet(inbox[i]), ToSet(items))

\* A resolver belongs to an iterator that waits, or to one that was aborted
\* while it waited, and to none other's; nothing is buffered beside it.
Reachable ==
    /\ IsInjective(resolvers)
    /\ \A i \in ToSet(resolvers) : phase[i] \in {"waiting", "done"}
    /\ \A i \in Iterators : phase[i] = "waiting" => i \in ToSet(resolvers)
    /\ resolvers # <<>> => items = <<>>

\* The iterators whose resolver was left behind, and the items lost to one:
\* each such iterator takes one item along.
Stale == {i \in ToSet(resolvers) : phase[i] # "waiting"}
Unheld == {m \in ToSet(acked) : ~Held(m)}

Paid ==
    /\ \A i \in abandoned : aborted[i]
    /\ Stale \subseteq abandoned
    /\ ~closed => Cardinality(Unheld) <= Cardinality(abandoned \ Stale)

Inv == TypeOK /\ Apart /\ Sorted /\ Reachable /\ Paid

-----------------------------------------------------------------------------
(***************************************************************************)
(* What the operations on sequences do to the set of the elements, and to  *)
(* their order of acceptance.                                              *)
(***************************************************************************)
\* No element, and one.
LEMMA FewElements ==
    /\ ToSet(<<>>) = {} /\ IsInjective(<<>>)
    /\ \A x : ToSet(<<x>>) = {x}
  BY DEF ToSet, IsInjective

\* Append adds one element.
LEMMA AppendElement ==
    ASSUME NEW S, NEW s \in Seq(S), NEW x \in S
    PROVE  /\ Append(s, x) \in Seq(S) /\ Append(s, x) # <<>>
           /\ Len(Append(s, x)) = Len(s) + 1 /\ Append(s, x)[Len(s) + 1] = x
           /\ \A n \in 1..Len(s) : Append(s, x)[n] = s[n]
           /\ ToSet(Append(s, x)) = ToSet(s) \cup {x}
           /\ IsInjective(s) /\ x \notin ToSet(s) => IsInjective(Append(s, x))
  <1>1. /\ Append(s, x) \in Seq(S) /\ Append(s, x) # <<>>
        /\ Len(Append(s, x)) = Len(s) + 1 /\ Len(s) \in Nat
        /\ \A n \in 1..Len(s) : Append(s, x)[n] = s[n]
        /\ Append(s, x)[Len(s) + 1] = x
        /\ DOMAIN s = 1..Len(s) /\ DOMAIN Append(s, x) = 1..(Len(s) + 1)
    BY AppendProperties, LenProperties
  <1>2. ToSet(Append(s, x)) = ToSet(s) \cup {x}
    <2>1. \A n \in 1..(Len(s) + 1) : n \in 1..Len(s) \/ n = Len(s) + 1
      BY <1>1
    <2>2. Len(s) + 1 \in 1..(Len(s) + 1) /\ \A n \in 1..Len(s) : n \in 1..(Len(s) + 1)
      BY <1>1
    <2> QED
      BY <1>1, <2>1, <2>2 DEF ToSet
  <1>3. ASSUME IsInjective(s), x \notin ToSet(s) PROVE IsInjective(Append(s, x))
    BY <1>1, <1>3 DEF ToSet, IsInjective
  <1> QED
    BY <1>1, <1>2, <1>3

\* The head and the tail share the elements.
LEMMA TailElements ==
    ASSUME NEW S, NEW s \in Seq(S), s # <<>>
    PROVE  /\ Head(s) \in S /\ Tail(s) \in Seq(S) /\ Head(s) = s[1]
           /\ Len(s) \in Nat /\ Len(Tail(s)) = Len(s) - 1 /\ Len(s) >= 1
           /\ \A n \in 1..Len(Tail(s)) : Tail(s)[n] = s[n + 1]
           /\ ToSet(s) = {Head(s)} \cup ToSet(Tail(s))
           /\ IsInjective(s) => Head(s) \notin ToSet(Tail(s)) /\ IsInjective(Tail(s))
  <1>1. /\ Head(s) \in S /\ Tail(s) \in Seq(S) /\ Len(Tail(s)) = Len(s) - 1
        /\ \A n \in 1..Len(Tail(s)) : Tail(s)[n] = s[n + 1]
        /\ Len(s) \in Nat /\ Len(s) >= 1 /\ Head(s) = s[1]
        /\ DOMAIN s = 1..Len(s) /\ DOMAIN Tail(s) = 1..(Len(s) - 1)
    BY HeadTailProperties, LenProperties, EmptySeq
  <1>2. /\ \A n \in 1..Len(s) : n = 1 \/ n - 1 \in 1..(Len(s) - 1)
        /\ \A n \in 1..(Len(s) - 1) : n + 1 \in 1..Len(s) /\ n + 1 # 1
        /\ 1 \in 1..Len(s)
    BY <1>1
  <1>3. ToSet(s) = {Head(s)} \cup ToSet(Tail(s))
    <2>1. ASSUME NEW n \in DOMAIN s, n # 1 PROVE s[n] \in ToSet(Tail(s))
      <3>1. n - 1 \in DOMAIN Tail(s) /\ s[n] = Tail(s)[n - 1]
        BY <1>1, <1>2, <2>1
      <3> QED
        BY <3>1 DEF ToSet
    <2>2. ASSUME NEW n \in DOMAIN Tail(s) PROVE Tail(s)[n] \in ToSet(s)
      BY <1>1, <1>2 DEF ToSet
    <2>3. Head(s) \in ToSet(s)
      BY <1>1, <1>2 DEF ToSet
    <2> QED
      BY <1>1, <2>1, <2>2, <2>3 DEF ToSet
  <1>4. IsInjective(s) => Head(s) \notin ToSet(Tail(s)) /\ IsInjective(Tail(s))
    BY <1>1, <1>2 DEF ToSet, IsInjective
  <1> QED
    BY <1>1, <1>3, <1>4

\* Concatenation joins the elements.
LEMMA ConcatElements ==
    ASSUME NEW S, NEW s \in Seq(S), NEW t \in Seq(S)
    PROVE  /\ s \o t \in Seq(S)
           /\ ToSet(s \o t) = ToSet(s) \cup ToSet(t)
           /\ IsInjective(s) /\ IsInjective(t) /\ ToSet(s) \cap ToSet(t) = {}
                => IsInjective(s \o t)
  <1>1. /\ s \o t \in Seq(S) /\ Len(s) \in Nat /\ Len(t) \in Nat
        /\ DOMAIN s = 1..Len(s) /\ DOMAIN t = 1..Len(t)
        /\ DOMAIN (s \o t) = 1..(Len(s) + Len(t))
        /\ \A n \in 1..(Len(s) + Len(t)) :
              (s \o t)[n] = IF n <= Len(s) THEN s[n] ELSE t[n - Len(s)]
    BY ConcatProperties, LenProperties
  <1>2. /\ \A n \in 1..(Len(s) + Len(t)) :
              (n <= Len(s) /\ n \in 1..Len(s)) \/ (~(n <= Len(s)) /\ n - Len(s) \in 1..Len(t))
        /\ \A n \in 1..Len(s) : n \in 1..(Len(s) + Len(t)) /\ n <= Len(s)
        /\ \A n \in 1..Len(t) : /\ n + Len(s) \in 1..(Len(s) + Len(t)) /\ ~(n + Len(s) <= Len(s))
                                /\ (n + Len(s)) - Len(s) = n
    BY <1>1
  <1>3. ToSet(s \o t) = ToSet(s) \cup ToSet(t)
    <2>1. ASSUME NEW n \in DOMAIN (s \o t)
          PROVE  (s \o t)[n] \in ToSet(s) \cup ToSet(t)
      <3>1. CASE n <= Len(s)
        BY <1>1, <1>2, <3>1 DEF ToSet
      <3>2. CASE ~(n <= Len(s))
        BY <1>1, <1>2, <3>2 DEF ToSet
      <3> QED
        BY <3>1, <3>2
    <2>2. ToSet(s) \subseteq ToSet(s \o t)
      BY <1>1, <1>2 DEF ToSet
    <2>3. ASSUME NEW n \in 1..Len(t) PROVE t[n] \in ToSet(s \o t)
      <3>1. (s \o t)[n + Len(s)] = t[n]
        BY <1>1, <1>2
      <3> QED
        BY <1>1, <1>2, <3>1 DEF ToSet
    <2> QED
      BY <1>1, <2>1, <2>2, <2>3 DEF ToSet
  <1>4. ASSUME IsInjective(s), IsInjective(t), ToSet(s) \cap ToSet(t) = {},
               NEW a \in DOMAIN (s \o t), NEW b \in DOMAIN (s \o t), (s \o t)[a] = (s \o t)[b]
        PROVE  a = b
    <2>1. CASE a <= Len(s) /\ b <= Len(s)
      BY <1>1, <1>2, <1>4, <2>1 DEF IsInjective
    <2>2. CASE ~(a <= Len(s)) /\ ~(b <= Len(s))
      <3>1. a - Len(s) = b - Len(s)
        BY <1>1, <1>2, <1>4, <2>2 DEF IsInjective
      <3> QED
        BY <1>1, <3>1
    <2>3. ASSUME NEW c \in DOMAIN s, NEW d \in DOMAIN t, s[c] = t[d] PROVE FALSE
      BY <1>4, <2>3 DEF ToSet
    <2> QED
      BY <1>1, <1>2, <1>4, <2>1, <2>2, <2>3
  <1> QED
    BY <1>1, <1>3, <1>4 DEF IsInjective

\* Each accepted item has one rank, which later ones do not change.
LEMMA RankOf ==
    ASSUME NEW S, NEW a \in Seq(S), IsInjective(a), NEW n \in DOMAIN a
    PROVE  Rank(a, a[n]) = n
  BY DEF Rank, IsInjective

LEMMA RankAppend ==
    ASSUME NEW S, NEW a \in Seq(S), IsInjective(a), NEW m \in S, m \notin ToSet(a)
    PROVE  \A x \in ToSet(a) : /\ Rank(Append(a, m), x) = Rank(a, x)
                               /\ Rank(a, x) < Rank(Append(a, m), m)
  <1> DEFINE b == Append(a, m)
  <1>1. /\ b \in Seq(S) /\ IsInjective(b) /\ Len(b) = Len(a) + 1 /\ b[Len(a) + 1] = m
        /\ \A n \in 1..Len(a) : b[n] = a[n]
    BY AppendElement
  <1>2. DOMAIN a = 1..Len(a) /\ DOMAIN b = 1..(Len(a) + 1) /\ Len(a) \in Nat
    BY <1>1, LenProperties
  <1> HIDE DEF b
  <1>3. Rank(b, m) = Len(a) + 1
    BY <1>1, <1>2, RankOf
  <1>4. ASSUME NEW n \in DOMAIN a PROVE Rank(b, a[n]) = n /\ Rank(a, a[n]) = n
    <2>1. n \in DOMAIN b /\ b[n] = a[n]
      BY <1>1, <1>2
    <2> QED
      BY <1>1, <2>1, RankOf
  <1>5. \A x \in ToSet(a) : Rank(b, x) = Rank(a, x) /\ Rank(a, x) < Rank(b, m)
    BY <1>2, <1>3, <1>4 DEF ToSet
  <1> QED
    BY <1>5 DEF b

\* What rises still does once more is accepted.
LEMMA RisingStays ==
    ASSUME NEW a, NEW b, NEW s, \A x \in ToSet(s) : Rank(b, x) = Rank(a, x), Rising(a, s)
    PROVE  Rising(b, s)
  BY DEF Rising, ToSet

LEMMA RisingAppend ==
    ASSUME NEW S, NEW s \in Seq(S), NEW x \in S, NEW a, Rising(a, s), Before(a, ToSet(s), {x})
    PROVE  Rising(a, Append(s, x))
  <1>1. /\ DOMAIN s = 1..Len(s) /\ DOMAIN Append(s, x) = 1..(Len(s) + 1) /\ Len(s) \in Nat
        /\ \A n \in 1..Len(s) : Append(s, x)[n] = s[n]
        /\ Append(s, x)[Len(s) + 1] = x
    BY AppendElement, LenProperties
  <1>2. ASSUME NEW j \in 1..(Len(s) + 1), NEW k \in 1..(Len(s) + 1), j < k
        PROVE  j \in 1..Len(s) /\ (k \in 1..Len(s) \/ k = Len(s) + 1)
    BY <1>1, <1>2
  <1> QED
    BY <1>1, <1>2 DEF Rising, Before, ToSet

LEMMA RisingTail ==
    ASSUME NEW S, NEW s \in Seq(S), s # <<>>, NEW a, Rising(a, s)
    PROVE  Rising(a, Tail(s)) /\ Before(a, {Head(s)}, ToSet(Tail(s)))
  <1>1. /\ Tail(s) \in Seq(S) /\ Len(Tail(s)) = Len(s) - 1 /\ Head(s) = s[1] /\ Len(s) \in Nat
        /\ \A n \in 1..Len(Tail(s)) : Tail(s)[n] = s[n + 1]
        /\ DOMAIN s = 1..Len(s)
    BY TailElements, LenProperties
  <1>2. DOMAIN Tail(s) = 1..(Len(s) - 1)
    BY <1>1, LenProperties
  <1> QED
    BY <1>1, <1>2 DEF Rising, Before, ToSet

LEMMA RisingConcat ==
    ASSUME NEW S, NEW s \in Seq(S), NEW t \in Seq(S), NEW a,
           Rising(a, s), Rising(a, t), Before(a, ToSet(s), ToSet(t))
    PROVE  Rising(a, s \o t)
  <1>1. /\ Len(s) \in Nat /\ Len(t) \in Nat
        /\ DOMAIN s = 1..Len(s) /\ DOMAIN t = 1..Len(t)
        /\ DOMAIN (s \o t) = 1..(Len(s) + Len(t))
        /\ \A n \in 1..(Len(s) + Len(t)) :
              (s \o t)[n] = IF n <= Len(s) THEN s[n] ELSE t[n - Len(s)]
    BY ConcatProperties, LenProperties
  <1>2. ASSUME NEW j \in 1..(Len(s) + Len(t)), NEW k \in 1..(Len(s) + Len(t)), j < k
        PROVE  Rank(a, (s \o t)[j]) < Rank(a, (s \o t)[k])
    <2>1. CASE k <= Len(s)
      BY <1>1, <1>2, <2>1 DEF Rising
    <2>2. CASE ~(j <= Len(s))
      <3>1. j - Len(s) \in 1..Len(t) /\ k - Len(s) \in 1..Len(t) /\ j - Len(s) < k - Len(s)
            /\ ~(k <= Len(s))
        BY <1>1, <1>2, <2>2
      <3> QED
        BY <1>1, <2>2, <3>1 DEF Rising
    <2>3. CASE j <= Len(s) /\ ~(k <= Len(s))
      <3>1. j \in 1..Len(s) /\ k - Len(s) \in 1..Len(t)
        BY <1>1, <1>2, <2>3
      <3> QED
        BY <1>1, <2>3, <3>1 DEF Before, ToSet
    <2> QED
      BY <2>1, <2>2, <2>3
  <1> QED
    BY <1>1, <1>2 DEF Rising
-----------------------------------------------------------------------------
(***************************************************************************)
(* Types.                                                                  *)
(***************************************************************************)
LEMMA Constants == IsFiniteSet(Items) /\ IsFiniteSet(Iterators) /\ MaxDrains \in Nat
  BY QueueAssumption DEF QueueAssumption

\* An inbox is empty, or holds the item its iterator was woken with.
LEMMA InboxOf ==
    ASSUME TypeOK, NEW i \in Iterators
    PROVE  /\ phase[i] # "woken" => inbox[i] = <<>>
           /\ phase[i] = "woken" => Head(inbox[i]) \in Items /\ inbox[i] = <<Head(inbox[i])>>
  <1>1. inbox[i] \in Seq(Items) /\ Len(inbox[i]) = IF phase[i] = "woken" THEN 1 ELSE 0
    BY DEF TypeOK
  <1>2. CASE phase[i] # "woken"
    BY <1>1, <1>2, EmptySeq
  <1>3. CASE phase[i] = "woken"
    <2>1. inbox[i] # <<>> /\ Len(inbox[i]) = 1
      BY <1>1, <1>3, EmptySeq
    <2>2. Head(inbox[i]) \in Items /\ Head(inbox[i]) = inbox[i][1]
      BY <1>1, <2>1, TailElements
    <2>3. <<Head(inbox[i])>> \in Seq(Items) /\ Len(<<Head(inbox[i])>>) = 1
          /\ <<Head(inbox[i])>>[1] = Head(inbox[i])
      BY <2>2
    <2>4. \A n \in 1..Len(inbox[i]) : inbox[i][n] = <<Head(inbox[i])>>[n]
      BY <2>1, <2>2, <2>3
    <2> QED
      BY <1>1, <1>3, <2>1, <2>2, <2>3, <2>4, SeqEqual
  <1> QED
    BY <1>2, <1>3

\* The resolvers of a queue that has any.
LEMMA FirstResolver ==
    ASSUME TypeOK, resolvers # <<>>
    PROVE  /\ Head(resolvers) \in Iterators /\ Tail(resolvers) \in Seq(Iterators)
           /\ ToSet(resolvers) = {Head(resolvers)} \cup ToSet(Tail(resolvers))
           /\ IsInjective(resolvers) => /\ Head(resolvers) \notin ToSet(Tail(resolvers))
                                        /\ IsInjective(Tail(resolvers))
  BY TailElements DEF TypeOK

LEMMA TypeInit == Init => TypeOK
  <1>1. <<>> \in Seq(Items) /\ <<>> \in Seq(Iterators) /\ Len(<<>>) = 0
    BY EmptySeq
  <1> QED
    <2>1. ASSUME Init PROVE \A i \in Iterators : /\ inbox[i] \in Seq(Items)
                                                  /\ Len(inbox[i]) = 0 /\ phase[i] = "new"
      BY <1>1, <2>1 DEF Init
    <2>2. Init => /\ items \in Seq(Items) /\ resolvers \in Seq(Iterators)
                  /\ acked \in Seq(Items) /\ drained \in Seq(Items)
      BY <1>1 DEF Init
    <2>4. Init => /\ drains \in 0..MaxDrains
                  /\ rejected \subseteq Items /\ abandoned \subseteq Iterators
      BY Constants DEF Init
    <2>5. Init => closed \in BOOLEAN
      BY Zenon DEF Init
    <2>3. Init => /\ phase \in [Iterators -> Phases] /\ aborted \in [Iterators -> BOOLEAN]
                  /\ delivered \in [Iterators -> Seq(Items)]
                  /\ inbox \in [Iterators -> Seq(Items)]
      BY <1>1 DEF Init, Phases
    <2> QED
      BY <2>1, <2>2, <2>3, <2>4, <2>5 DEF TypeOK

\* An iterator that gets its next item.
LEMMA YieldType ==
    ASSUME TypeOK, NEW i \in Iterators, NEW m \in Items, Yield(i, m)
    PROVE  /\ phase' \in [Iterators -> Phases] /\ delivered' \in [Iterators -> Seq(Items)]
           /\ phase' = [phase EXCEPT ![i] = "yielded"]
  <1>1. Append(delivered[i], m) \in Seq(Items)
    BY AppendElement DEF TypeOK
  <1> QED
    BY <1>1 DEF TypeOK, Yield, Phases

LEMMA TypeStep == TypeOK /\ [Next]_vars => TypeOK'
  <1> SUFFICES ASSUME TypeOK, [Next]_vars PROVE TypeOK'
    OBVIOUS
  <1>1. ASSUME NEW m \in Items, Accept(m) PROVE TypeOK'
    <2>1. Append(acked, m) \in Seq(Items) /\ Append(items, m) \in Seq(Items)
      BY AppendElement DEF TypeOK
    <2>2. CASE UNCHANGED <<resolvers, phase, inbox>>
      BY <1>1, <2>1, <2>2 DEF Accept, push, TypeOK
    <2>3. CASE /\ resolvers # <<>> /\ resolvers' = Tail(resolvers)
               /\ IF phase[Head(resolvers)] = "waiting"
                  THEN /\ phase' = [phase EXCEPT ![Head(resolvers)] = "woken"]
                       /\ inbox' = [inbox EXCEPT ![Head(resolvers)] = <<m>>]
                  ELSE UNCHANGED <<phase, inbox>>
               /\ UNCHANGED items
      <3>1. <<m>> \in Seq(Items) /\ Len(<<m>>) = 1
        OBVIOUS
      <3>2. /\ phase' \in [Iterators -> Phases] /\ inbox' \in [Iterators -> Seq(Items)]
            /\ \A i \in Iterators : Len(inbox'[i]) = IF phase'[i] = "woken" THEN 1 ELSE 0
        BY <2>3, <3>1, FirstResolver DEF TypeOK, Phases
      <3> QED
        BY <1>1, <2>1, <2>3, <3>2, FirstResolver DEF Accept, TypeOK
    <2> QED
      BY <1>1, <2>2, <2>3 DEF Accept, push
  <1>2. ASSUME NEW m \in Items, Reject(m) PROVE TypeOK'
    BY <1>2 DEF Reject, queue, consumers, TypeOK
  <1>3. CASE Close
    BY <1>3, EmptySeq DEF Close, TypeOK, Phases
  <1>4. CASE Drain
    <2>1. drained \o items \in Seq(Items) /\ <<>> \in Seq(Items)
      BY ConcatElements, EmptySeq DEF TypeOK
    <2> QED
      BY <1>4, <2>1, Constants DEF Drain, consumers, TypeOK
  <1>5. ASSUME NEW i \in Iterators, Start(i) \/ Resume(i) \/ Leave(i) PROVE TypeOK'
    BY <1>5 DEF Start, Resume, Leave, queue, TypeOK, Phases
  <1>6. ASSUME NEW i \in Iterators, Turn(i) PROVE TypeOK'
    <2>1. CASE items # <<>> /\ Yield(i, Head(items)) /\ items' = Tail(items)
               /\ UNCHANGED resolvers
      <3>1. Head(items) \in Items /\ Tail(items) \in Seq(Items)
        BY <2>1, TailElements DEF TypeOK
      <3> QED
        BY <1>6, <2>1, <3>1, YieldType DEF Turn, TypeOK
    <2>2. CASE phase' = [phase EXCEPT ![i] = "done"] /\ UNCHANGED <<items, resolvers, delivered>>
      BY <1>6, <2>2 DEF Turn, TypeOK, Phases
    <2>3. CASE /\ phase' = [phase EXCEPT ![i] = "waiting"]
               /\ resolvers' = Append(resolvers, i) /\ UNCHANGED <<items, delivered>>
      <3>1. Append(resolvers, i) \in Seq(Iterators)
        BY AppendElement DEF TypeOK
      <3> QED
        BY <1>6, <2>3, <3>1 DEF Turn, TypeOK, Phases
    <2> QED
      BY <1>6, <2>1, <2>2, <2>3 DEF Turn
  <1>7. ASSUME NEW i \in Iterators, Wake(i) PROVE TypeOK'
    <2>1. Yield(i, Head(inbox[i])) /\ Head(inbox[i]) \in Items
      BY <1>7, InboxOf DEF Wake
    <2>2. /\ phase' \in [Iterators -> Phases] /\ delivered' \in [Iterators -> Seq(Items)]
          /\ phase' = [phase EXCEPT ![i] = "yielded"]
      BY <2>1, YieldType
    <2>3. <<>> \in Seq(Items) /\ Len(<<>>) = 0
      BY EmptySeq
    <2> QED
      <3>1. /\ inbox' \in [Iterators -> Seq(Items)]
            /\ \A j \in Iterators : Len(inbox'[j]) = IF phase'[j] = "woken" THEN 1 ELSE 0
        <4>1. inbox' = [inbox EXCEPT ![i] = <<>>] /\ phase'[i] = "yielded"
          BY <1>7, <2>2 DEF Wake, TypeOK
        <4>2. \A j \in Iterators : j # i => inbox'[j] = inbox[j] /\ phase'[j] = phase[j]
          BY <2>2, <4>1 DEF TypeOK
        <4>3. inbox' \in [Iterators -> Seq(Items)] /\ Len(inbox'[i]) = 0
          BY <2>3, <4>1 DEF TypeOK
        <4>4. \A j \in Iterators : Len(inbox[j]) = IF phase[j] = "woken" THEN 1 ELSE 0
          BY DEF TypeOK
        <4>5. ASSUME NEW j \in Iterators
              PROVE  Len(inbox'[j]) = IF phase'[j] = "woken" THEN 1 ELSE 0
          <5>1. CASE j = i
            BY <4>1, <4>3, <5>1
          <5>2. CASE j # i
            <6>1. inbox'[j] = inbox[j] /\ phase'[j] = phase[j]
              BY <4>2, <5>2
            <6> QED
              BY <4>4, <6>1
          <5> QED
            BY <5>1, <5>2
        <4> QED
          BY <4>3, <4>5
      <3> QED
        BY <1>7, <2>2, <3>1 DEF Wake, queue, TypeOK
  <1>8. ASSUME NEW i \in Iterators, Abort(i) PROVE TypeOK'
    BY <1>8 DEF Abort, queue, TypeOK, Phases
  <1>9. CASE UNCHANGED vars
    BY <1>9 DEF vars, queue, consumers, TypeOK
  <1> QED
    BY <1>1, <1>2, <1>3, <1>4, <1>5, <1>6, <1>7, <1>8, <1>9 DEF Next, Generator

-----------------------------------------------------------------------------
(***************************************************************************)
(* What a step may do to the items.                                        *)
(***************************************************************************)
AcceptsNew(m) == m \in Items \ ToSet(acked) /\ acked' = Append(acked, m)

Buffers(m) ==
    AcceptsNew(m) /\ items' = Append(items, m) /\ UNCHANGED <<inbox, delivered, drained>>
Hands(m, i) ==
    /\ AcceptsNew(m) /\ resolvers # <<>> /\ inbox[i] = <<>>
    /\ inbox' = [inbox EXCEPT ![i] = <<m>>] /\ UNCHANGED <<items, delivered, drained>>
Drops(m) ==
    /\ AcceptsNew(m) /\ UNCHANGED <<items, inbox, delivered, drained>>
    /\ \/ closed'
       \/ /\ resolvers # <<>> /\ phase[Head(resolvers)] # "waiting"
          /\ resolvers' = Tail(resolvers) /\ UNCHANGED <<phase, abandoned>>
Empties ==
    drained' = drained \o items /\ items' = <<>> /\ UNCHANGED <<acked, inbox, delivered>>
Takes(i) ==
    /\ items # <<>> /\ inbox[i] = <<>> /\ items' = Tail(items)
    /\ delivered' = [delivered EXCEPT ![i] = Append(@, Head(items))]
    /\ UNCHANGED <<acked, inbox, drained>>
Receives(i, m) ==
    /\ inbox[i] = <<m>> /\ inbox' = [inbox EXCEPT ![i] = <<>>]
    /\ delivered' = [delivered EXCEPT ![i] = Append(@, m)]
    /\ UNCHANGED <<acked, items, drained>>
Stays == UNCHANGED <<acked, items, inbox, delivered, drained>>

LEMMA Moves ==
    ASSUME TypeOK, [Next]_vars
    PROVE  \/ \E m \in Items : Buffers(m) \/ Drops(m)
           \/ \E m \in Items, i \in Iterators : Hands(m, i) \/ Receives(i, m)
           \/ \E i \in Iterators : Takes(i)
           \/ Empties \/ Stays
  <1>1. ASSUME NEW m \in Items, Accept(m)
        PROVE  Buffers(m) \/ Drops(m) \/ \E i \in Iterators : Hands(m, i)
    <2>1. AcceptsNew(m) /\ UNCHANGED <<delivered, drained>>
      BY <1>1 DEF Accept, Unanswered, AcceptsNew
    <2>2. CASE items' = Append(items, m) /\ UNCHANGED inbox
      BY <2>1, <2>2 DEF Buffers
    <2>4. CASE closed /\ UNCHANGED <<items, inbox>>
      BY <1>1, <2>1, <2>4 DEF Accept, Drops
    <2>5. CASE /\ resolvers # <<>> /\ UNCHANGED <<items, phase, inbox>>
               /\ phase[Head(resolvers)] # "waiting" /\ resolvers' = Tail(resolvers)
      BY <1>1, <2>1, <2>5 DEF Accept, Drops
    <2>3. CASE /\ resolvers # <<>> /\ UNCHANGED items
               /\ phase[Head(resolvers)] = "waiting"
               /\ inbox' = [inbox EXCEPT ![Head(resolvers)] = <<m>>]
      BY <2>1, <2>3, FirstResolver, InboxOf DEF Hands
    <2> QED
      BY <1>1, <2>2, <2>3, <2>4, <2>5 DEF Accept, push
  <1>2. ASSUME NEW i \in Iterators, Turn(i) PROVE Takes(i) \/ Stays
    BY <1>2, InboxOf DEF Turn, Yield, Takes, Stays
  <1>3. ASSUME NEW i \in Iterators, Wake(i) PROVE \E m \in Items : Receives(i, m)
    <2>1. Head(inbox[i]) \in Items /\ inbox[i] = <<Head(inbox[i])>>
      BY <1>3, InboxOf DEF Wake
    <2>2. Receives(i, Head(inbox[i]))
      BY <1>3, <2>1 DEF Wake, Yield, Receives, queue
    <2> QED
      BY <2>1, <2>2
  <1>4. ASSUME NEW i \in Iterators, Start(i) \/ Resume(i) \/ Leave(i) \/ Abort(i) PROVE Stays
    BY <1>4 DEF Start, Resume, Leave, Abort, queue, Stays
  <1>5. ASSUME NEW m \in Items, Reject(m) PROVE Stays
    BY <1>5 DEF Reject, queue, consumers, Stays
  <1>6. CASE Drain
    BY <1>6 DEF Drain, consumers, Empties
  <1>7. CASE Close \/ UNCHANGED vars
    BY <1>7 DEF Close, vars, queue, consumers, Stays
  <1> QED
    BY <1>1, <1>2, <1>3, <1>4, <1>5, <1>6, <1>7 DEF Next, Generator
-----------------------------------------------------------------------------
(***************************************************************************)
(* Each item is in one place.                                              *)
(***************************************************************************)
\* What is accepted is new to every place.
LEMMA NewElement ==
    ASSUME TypeOK, Apart, NEW m \in Items, AcceptsNew(m)
    PROVE  /\ ToSet(acked') = ToSet(acked) \cup {m} /\ IsInjective(acked')
           /\ m \notin ToSet(acked) /\ ~Held(m)
           /\ acked \in Seq(Items) /\ acked' \in Seq(Items)
  BY AppendElement DEF TypeOK, Apart, AcceptsNew

LEMMA ApartInit == Init => Apart
  <1> SUFFICES ASSUME Init PROVE Apart
    OBVIOUS
  <1>1. \A i \in Iterators : delivered[i] = <<>> /\ inbox[i] = <<>>
    BY DEF Init
  <1> QED
    BY <1>1, FewElements DEF Init, Apart, Has, Held

LEMMA ApartStep == TypeOK /\ Apart /\ [Next]_vars => Apart'
  <1> SUFFICES ASSUME TypeOK, Apart, [Next]_vars PROVE Apart'
    OBVIOUS
  <1>1. ASSUME NEW m \in Items, Buffers(m) PROVE Apart'
    <2>1. /\ ToSet(acked') = ToSet(acked) \cup {m} /\ IsInjective(acked')
          /\ m \notin ToSet(acked) /\ ~Held(m)
      BY <1>1, NewElement DEF Buffers
    <2>2. ToSet(items') = ToSet(items) \cup {m} /\ IsInjective(items')
      BY <1>1, <2>1, AppendElement DEF Buffers, TypeOK, Apart, Held
    <2>3. UNCHANGED <<inbox, delivered, drained>>
      BY <1>1 DEF Buffers
    <2> QED
      BY <2>1, <2>2, <2>3 DEF Apart, Has, Held
  <1>2. ASSUME NEW m \in Items, Drops(m) PROVE Apart'
    <2>1. /\ ToSet(acked') = ToSet(acked) \cup {m} /\ IsInjective(acked')
      BY <1>2, NewElement DEF Drops
    <2> QED
      BY <1>2, <2>1 DEF Drops, Apart, Has, Held
  <1>3. ASSUME NEW m \in Items, NEW i \in Iterators, Hands(m, i) PROVE Apart'
    <2>1. /\ ToSet(acked') = ToSet(acked) \cup {m} /\ IsInjective(acked')
          /\ m \notin ToSet(acked) /\ ~Held(m)
      BY <1>3, NewElement DEF Hands
    <2>2. ToSet(inbox'[i]) = {m} /\ ToSet(inbox[i]) = {}
      BY <1>3, FewElements DEF Hands, TypeOK
    <2>3. \A j \in Iterators : j # i => inbox'[j] = inbox[j]
      BY <1>3 DEF Hands, TypeOK
    <2>4. UNCHANGED <<items, delivered, drained>>
      BY <1>3 DEF Hands
    <2>5. \A j \in Iterators, x \in Items :
             Has(j, x)' <=> Has(j, x) \/ (j = i /\ x = m)
      BY <2>2, <2>3, <2>4 DEF Has
    <2>6. \A x \in Items : Held(x)' <=> Held(x) \/ x = m
      BY <2>4, <2>5 DEF Held
    <2>7. \A j \in Iterators : ToSet(delivered'[j]) \cap ToSet(inbox'[j]) = {}
      BY <2>1, <2>2, <2>3, <2>4 DEF Apart, Held, Has
    <2>8. \A j, k \in Iterators, x \in Items : Has(j, x)' /\ Has(k, x)' => j = k
      BY <2>1, <2>5 DEF Apart, Held
    <2>9. \A j \in Iterators, x \in Items :
             Has(j, x)' => x \notin ToSet(items) \cup ToSet(drained)
      BY <2>1, <2>5 DEF Apart, Held
    <2> QED
      BY <2>1, <2>4, <2>6, <2>7, <2>8, <2>9 DEF Apart
  <1>4. CASE Empties
    <2>1. /\ ToSet(drained') = ToSet(drained) \cup ToSet(items) /\ IsInjective(drained')
          /\ ToSet(items') = {} /\ IsInjective(items')
      BY <1>4, ConcatElements, FewElements DEF Empties, TypeOK, Apart
    <2> QED
      BY <1>4, <2>1 DEF Empties, Apart, Has, Held
  <1>5. ASSUME NEW i \in Iterators, Takes(i) PROVE Apart'
    <2> DEFINE m == Head(items)
    <2>1. /\ m \in Items /\ ToSet(items) = {m} \cup ToSet(items') /\ m \notin ToSet(items')
          /\ IsInjective(items')
      BY <1>5, TailElements DEF Takes, TypeOK, Apart
    <2>2. /\ delivered[i] \in Seq(Items) /\ delivered'[i] = Append(delivered[i], m)
          /\ \A j \in Iterators : j # i => delivered'[j] = delivered[j]
      BY <1>5 DEF Takes, TypeOK
    <2> HIDE DEF m
    <2>3. m \notin ToSet(delivered[i]) /\ ToSet(inbox[i]) = {}
      BY <1>5, <2>1, FewElements DEF Takes, Apart, Has
    <2>4. ToSet(delivered'[i]) = ToSet(delivered[i]) \cup {m} /\ IsInjective(delivered'[i])
      BY <2>1, <2>2, <2>3, AppendElement DEF Apart
    <2>5. UNCHANGED <<acked, inbox, drained>>
      BY <1>5 DEF Takes
    <2>6. \A j \in Iterators, x \in Items :
             Has(j, x)' <=> Has(j, x) \/ (j = i /\ x = m)
      BY <2>2, <2>4, <2>5 DEF Has
    <2>7. \A x \in Items : Held(x)' => Held(x)
      BY <2>1, <2>5, <2>6 DEF Held
    <2>8. \A j \in Iterators : /\ ToSet(delivered'[j]) \cap ToSet(inbox'[j]) = {}
                               /\ IsInjective(delivered'[j])
      BY <2>2, <2>3, <2>4, <2>5 DEF Apart
    <2>9. \A j, k \in Iterators, x \in Items : Has(j, x)' /\ Has(k, x)' => j = k
      BY <2>1, <2>6 DEF Apart
    <2>10. \A j \in Iterators, x \in Items :
              Has(j, x)' => x \notin ToSet(items') \cup ToSet(drained)
      BY <2>1, <2>6 DEF Apart
    <2> QED
      BY <2>1, <2>5, <2>7, <2>8, <2>9, <2>10 DEF Apart
  <1>6. ASSUME NEW m \in Items, NEW i \in Iterators, Receives(i, m) PROVE Apart'
    <2>1. /\ ToSet(inbox[i]) = {m} /\ ToSet(inbox'[i]) = {}
          /\ \A j \in Iterators : j # i => inbox'[j] = inbox[j]
      BY <1>6, FewElements DEF Receives, TypeOK
    <2>2. /\ delivered[i] \in Seq(Items) /\ delivered'[i] = Append(delivered[i], m)
          /\ \A j \in Iterators : j # i => delivered'[j] = delivered[j]
      BY <1>6 DEF Receives, TypeOK
    <2>3. m \notin ToSet(delivered[i])
      BY <2>1 DEF Apart
    <2>4. ToSet(delivered'[i]) = ToSet(delivered[i]) \cup {m} /\ IsInjective(delivered'[i])
      BY <2>2, <2>3, AppendElement DEF Apart
    <2>5. UNCHANGED <<acked, items, drained>>
      BY <1>6 DEF Receives
    <2>6. \A j \in Iterators, x \in Items : Has(j, x)' <=> Has(j, x)
      BY <2>1, <2>2, <2>4 DEF Has
    <2>7. \A x \in Items : Held(x)' <=> Held(x)
      BY <2>5, <2>6 DEF Held
    <2>8. \A j \in Iterators : /\ ToSet(delivered'[j]) \cap ToSet(inbox'[j]) = {}
                               /\ IsInjective(delivered'[j])
      BY <2>1, <2>2, <2>4 DEF Apart
    <2> QED
      BY <2>5, <2>6, <2>7, <2>8 DEF Apart
  <1>7. CASE Stays
    BY <1>7 DEF Stays, Apart, Has, Held
  <1> QED
    BY <1>1, <1>2, <1>3, <1>4, <1>5, <1>6, <1>7, Moves

-----------------------------------------------------------------------------
(***************************************************************************)
(* The order of acceptance.                                                *)
(***************************************************************************)
\* Accepting one more leaves the ranks as they were, and ranks it last.
LEMMA NewIsLast ==
    ASSUME TypeOK, Apart, NEW m \in Items, AcceptsNew(m)
    PROVE  \A x \in Items : Held(x) => /\ Rank(acked', x) = Rank(acked, x)
                                       /\ Rank(acked', x) < Rank(acked', m)
  <1>1. /\ m \notin ToSet(acked) /\ acked \in Seq(Items) /\ IsInjective(acked)
        /\ acked' = Append(acked, m)
    BY NewElement DEF AcceptsNew, Apart
  <1>2. \A x \in ToSet(acked) : /\ Rank(acked', x) = Rank(acked, x)
                                /\ Rank(acked, x) < Rank(acked', m)
    BY <1>1, RankAppend
  <1> QED
    BY <1>2 DEF Apart

\* What is held is named by the places that hold it.
LEMMA HeldElements ==
    ASSUME TypeOK
    PROVE  /\ \A x \in ToSet(items) : x \in Items /\ Held(x)
           /\ \A i \in Iterators : \A x \in ToSet(delivered[i]) \cup ToSet(inbox[i]) :
                 x \in Items /\ Held(x)
  <1>1. ASSUME NEW s \in Seq(Items), NEW x \in ToSet(s) PROVE x \in Items
    BY <1>1, LenProperties, ElementOfSeq DEF ToSet
  <1> QED
    BY <1>1 DEF TypeOK, Held, Has

LEMMA SortedInit == Init => Sorted
  <1> SUFFICES ASSUME Init PROVE Sorted
    OBVIOUS
  <1>1. items = <<>> /\ \A i \in Iterators : delivered[i] = <<>> /\ inbox[i] = <<>>
    BY DEF Init
  <1>2. Rising(acked, <<>>)
    BY DEF Rising
  <1> QED
    BY <1>1, <1>2, FewElements DEF Sorted, Before

\* What was sorted by the old ranks is sorted by the new ones.
LEMMA SortedStays ==
    ASSUME TypeOK, Apart, Sorted, NEW m \in Items, AcceptsNew(m)
    PROVE  /\ Rising(acked', items)
           /\ \A i \in Iterators :
                /\ Rising(acked', delivered[i])
                /\ Before(acked', ToSet(delivered[i]), ToSet(inbox[i]))
                /\ Before(acked', ToSet(delivered[i]) \cup ToSet(inbox[i]), ToSet(items))
                /\ Before(acked', ToSet(delivered[i]) \cup ToSet(inbox[i]), {m})
           /\ Before(acked', ToSet(items), {m})
  <1>1. \A x \in ToSet(items) : /\ Rank(acked', x) = Rank(acked, x)
                                /\ Rank(acked', x) < Rank(acked', m)
    BY NewIsLast, HeldElements
  <1>2. \A i \in Iterators : \A x \in ToSet(delivered[i]) \cup ToSet(inbox[i]) :
            /\ Rank(acked', x) = Rank(acked, x)
            /\ Rank(acked', x) < Rank(acked', m)
    BY NewIsLast, HeldElements
  <1>3. Rising(acked', items) /\ \A i \in Iterators : Rising(acked', delivered[i])
    BY <1>1, <1>2, RisingStays DEF Sorted
  <1> QED
    BY <1>1, <1>2, <1>3 DEF Sorted, Before
LEMMA SortedStep == TypeOK /\ Apart /\ Sorted /\ Reachable /\ [Next]_vars => Sorted'
  <1> SUFFICES ASSUME TypeOK, Apart, Sorted, Reachable, [Next]_vars PROVE Sorted'
    OBVIOUS
  <1>1. ASSUME NEW m \in Items, Buffers(m) PROVE Sorted'
    <2>1. /\ ToSet(items') = ToSet(items) \cup {m} /\ UNCHANGED <<inbox, delivered>>
          /\ items' = Append(items, m) /\ AcceptsNew(m) /\ items \in Seq(Items)
      BY <1>1, AppendElement DEF Buffers, TypeOK
    <2>2. Rising(acked', items')
      BY <2>1, SortedStays, RisingAppend
    <2> QED
      BY <2>1, <2>2, SortedStays DEF Sorted, Before
  <1>2. ASSUME NEW m \in Items, Drops(m) PROVE Sorted'
    BY <1>2, SortedStays DEF Drops, Sorted
  <1>3. ASSUME NEW m \in Items, NEW i \in Iterators, Hands(m, i) PROVE Sorted'
    <2>1. /\ AcceptsNew(m) /\ UNCHANGED <<items, delivered>> /\ ToSet(items) = {}
          /\ ToSet(inbox'[i]) = {m}
          /\ \A j \in Iterators : j # i => inbox'[j] = inbox[j]
      BY <1>3, FewElements DEF Hands, TypeOK, Reachable
    <2>2. ASSUME NEW j \in Iterators
          PROVE  /\ Rising(acked', delivered'[j])
                 /\ Before(acked', ToSet(delivered'[j]), ToSet(inbox'[j]))
                 /\ Before(acked', ToSet(delivered'[j]) \cup ToSet(inbox'[j]), ToSet(items'))
      <3>1. CASE j = i
        BY <2>1, <3>1, SortedStays DEF Before
      <3>2. CASE j # i
        BY <2>1, <3>2, SortedStays
      <3> QED
        BY <3>1, <3>2
    <2> QED
      BY <2>1, <2>2, SortedStays DEF Sorted
  <1>4. CASE Empties
    <2>1. ToSet(items') = {} /\ Rising(acked', items') /\ UNCHANGED <<acked, inbox, delivered>>
      BY <1>4, FewElements DEF Empties, Rising
    <2> QED
      BY <2>1 DEF Sorted, Before
  <1>5. ASSUME NEW i \in Iterators, Takes(i) PROVE Sorted'
    <2> DEFINE m == Head(items)
    <2>1. /\ m \in Items /\ ToSet(items) = {m} \cup ToSet(items')
          /\ Rising(acked, items') /\ Before(acked, {m}, ToSet(items'))
      BY <1>5, TailElements, RisingTail DEF Takes, TypeOK, Sorted
    <2>2. /\ delivered[i] \in Seq(Items) /\ delivered'[i] = Append(delivered[i], m)
          /\ \A j \in Iterators : j # i => delivered'[j] = delivered[j]
          /\ UNCHANGED <<acked, inbox>>
      BY <1>5 DEF Takes, TypeOK
    <2> HIDE DEF m
    <2>3. ToSet(delivered'[i]) = ToSet(delivered[i]) \cup {m} /\ ToSet(inbox[i]) = {}
      BY <1>5, <2>1, <2>2, AppendElement, FewElements DEF Takes
    <2>4. Before(acked, ToSet(delivered[i]), {m})
      BY <2>1 DEF Sorted, Before
    <2>5. Rising(acked, delivered'[i])
      BY <2>1, <2>2, <2>4, RisingAppend DEF Sorted
    <2>6. ASSUME NEW j \in Iterators
          PROVE  /\ Rising(acked, delivered'[j])
                 /\ Before(acked, ToSet(delivered'[j]), ToSet(inbox[j]))
                 /\ Before(acked, ToSet(delivered'[j]) \cup ToSet(inbox[j]), ToSet(items'))
      <3>1. CASE j = i
        BY <2>1, <2>3, <2>5, <3>1 DEF Sorted, Before
      <3>2. CASE j # i
        BY <2>1, <2>2, <3>2 DEF Sorted, Before
      <3> QED
        BY <3>1, <3>2
    <2> QED
      BY <2>1, <2>2, <2>6 DEF Sorted
  <1>6. ASSUME NEW m \in Items, NEW i \in Iterators, Receives(i, m) PROVE Sorted'
    <2>1. /\ ToSet(inbox[i]) = {m} /\ ToSet(inbox'[i]) = {}
          /\ \A j \in Iterators : j # i => inbox'[j] = inbox[j]
      BY <1>6, FewElements DEF Receives, TypeOK
    <2>2. /\ delivered[i] \in Seq(Items) /\ delivered'[i] = Append(delivered[i], m)
          /\ \A j \in Iterators : j # i => delivered'[j] = delivered[j]
          /\ UNCHANGED <<acked, items>>
      BY <1>6 DEF Receives, TypeOK
    <2>3. ToSet(delivered'[i]) = ToSet(delivered[i]) \cup {m}
      BY <2>2, AppendElement
    <2>4. Rising(acked, delivered'[i])
      <3>1. Rising(acked, delivered[i]) /\ Before(acked, ToSet(delivered[i]), {m})
        BY <2>1 DEF Sorted
      <3> QED
        BY <2>2, <3>1, RisingAppend
    <2>5. ASSUME NEW j \in Iterators
          PROVE  /\ Rising(acked, delivered'[j])
                 /\ Before(acked, ToSet(delivered'[j]), ToSet(inbox'[j]))
                 /\ Before(acked, ToSet(delivered'[j]) \cup ToSet(inbox'[j]), ToSet(items))
      <3>1. CASE j = i
        BY <2>1, <2>3, <2>4, <3>1 DEF Sorted, Before
      <3>2. CASE j # i
        BY <2>1, <2>2, <3>2 DEF Sorted
      <3> QED
        BY <3>1, <3>2
    <2> QED
      BY <2>2, <2>5 DEF Sorted
  <1>7. CASE Stays
    BY <1>7 DEF Stays, Sorted
  <1> QED
    BY <1>1, <1>2, <1>3, <1>4, <1>5, <1>6, <1>7, Moves

-----------------------------------------------------------------------------
(***************************************************************************)
(* Who can be woken.                                                       *)
(***************************************************************************)
LEMMA ReachableInit == Init => Reachable
  <1> SUFFICES ASSUME Init PROVE Reachable
    OBVIOUS
  <1>1. resolvers = <<>> /\ \A i \in Iterators : phase[i] = "new"
    BY DEF Init
  <1> QED
    BY <1>1, FewElements DEF Reachable

\* An iterator that neither waits nor begins to has no resolver, and may do
\* as it likes.
LEMMA OthersDoNotMatter ==
    ASSUME TypeOK, Reachable, NEW i \in Iterators, phase[i] \notin {"waiting", "done"},
           NEW to \in Phases \ {"waiting"}, phase' = [phase EXCEPT ![i] = to],
           UNCHANGED resolvers
    PROVE  /\ i \notin ToSet(resolvers)
           /\ \A j \in ToSet(resolvers) : phase'[j] = phase[j]
           /\ items' = <<>> \/ items' = items \/ resolvers = <<>> => Reachable'
  <1>1. i \notin ToSet(resolvers)
    BY DEF Reachable
  <1>2. ToSet(resolvers) \subseteq Iterators
    BY LenProperties, ElementOfSeq DEF TypeOK, ToSet
  <1>3. \A j \in Iterators : phase'[j] = IF j = i THEN to ELSE phase[j]
    BY DEF TypeOK
  <1> QED
    BY <1>1, <1>2, <1>3 DEF Reachable

LEMMA ReachableStep == TypeOK /\ Reachable /\ [Next]_vars => Reachable'
  <1> SUFFICES ASSUME TypeOK, Reachable, [Next]_vars PROVE Reachable'
    OBVIOUS
  <1>0. ToSet(resolvers) \subseteq Iterators
    BY LenProperties, ElementOfSeq DEF TypeOK, ToSet
  <1>1. ASSUME NEW m \in Items, Accept(m) PROVE Reachable'
    <2>1. CASE UNCHANGED <<resolvers, phase>> /\ (items' = items \/ resolvers = <<>>)
      BY <2>1 DEF Reachable
    <2>2. CASE resolvers # <<>> /\ resolvers' = Tail(resolvers) /\ UNCHANGED <<items, phase>>
               /\ phase[Head(resolvers)] # "waiting"
      BY <2>2, FirstResolver DEF Reachable
    <2>3. CASE resolvers # <<>> /\ resolvers' = Tail(resolvers) /\ UNCHANGED items
               /\ phase' = [phase EXCEPT ![Head(resolvers)] = "woken"]
      <3>1. /\ Head(resolvers) \in Iterators /\ Head(resolvers) \notin ToSet(resolvers')
            /\ ToSet(resolvers) = {Head(resolvers)} \cup ToSet(resolvers')
            /\ IsInjective(resolvers')
        BY <2>3, FirstResolver DEF Reachable
      <3>2. \A j \in Iterators :
               phase'[j] = IF j = Head(resolvers) THEN "woken" ELSE phase[j]
        BY <2>3 DEF TypeOK
      <3> QED
        BY <1>0, <2>3, <3>1, <3>2 DEF Reachable
    <2> QED
      BY <1>1, <2>1, <2>2, <2>3 DEF Accept, push
  <1>2. CASE Close
    <2>1. resolvers' = <<>> /\ \A i \in Iterators : phase'[i] # "waiting"
      BY <1>2 DEF Close, TypeOK
    <2> QED
      BY <2>1, FewElements DEF Reachable
  <1>3. CASE Drain
    BY <1>3 DEF Drain, consumers, Reachable
  <1>4. ASSUME NEW i \in Iterators, Start(i) \/ Resume(i) \/ Leave(i) \/ Wake(i)
        PROVE  Reachable'
    BY <1>4, OthersDoNotMatter DEF Start, Resume, Leave, Wake, Yield, queue, Phases
  <1>5. ASSUME NEW i \in Iterators, Turn(i) PROVE Reachable'
    <2>1. CASE phase' = [phase EXCEPT ![i] = "done"] /\ UNCHANGED <<items, resolvers>>
      BY <1>5, <2>1, OthersDoNotMatter DEF Turn, Phases
    <2>2. CASE items # <<>> /\ phase' = [phase EXCEPT ![i] = "yielded"] /\ UNCHANGED resolvers
      <3>1. resolvers = <<>>
        BY <2>2 DEF Reachable
      <3> QED
        BY <1>5, <2>2, <3>1, OthersDoNotMatter DEF Turn, Phases
    <2>3. CASE /\ items = <<>> /\ UNCHANGED items /\ phase' = [phase EXCEPT ![i] = "waiting"]
               /\ resolvers' = Append(resolvers, i)
      <3>1. i \notin ToSet(resolvers)
        BY <1>5 DEF Turn, Reachable
      <3>2. ToSet(resolvers') = ToSet(resolvers) \cup {i} /\ IsInjective(resolvers')
        BY <2>3, <3>1, AppendElement DEF TypeOK, Reachable
      <3>3. \A j \in Iterators : phase'[j] = IF j = i THEN "waiting" ELSE phase[j]
        BY <2>3 DEF TypeOK
      <3> QED
        BY <1>0, <2>3, <3>2, <3>3 DEF Reachable
    <2> QED
      BY <1>5, <2>1, <2>2, <2>3 DEF Turn, Yield
  <1>6. ASSUME NEW i \in Iterators, Abort(i) PROVE Reachable'
    <2>1. CASE phase[i] = "waiting" /\ phase' = [phase EXCEPT ![i] = "done"]
      <3>1. \A j \in Iterators : phase'[j] = IF j = i THEN "done" ELSE phase[j]
        BY <2>1 DEF TypeOK
      <3> QED
        BY <1>0, <1>6, <3>1 DEF Abort, queue, Reachable
    <2>2. CASE UNCHANGED phase
      BY <1>6, <2>2 DEF Abort, queue, Reachable
    <2> QED
      BY <1>6, <2>1, <2>2 DEF Abort
  <1>7. ASSUME NEW m \in Items, Reject(m) PROVE Reachable'
    BY <1>7 DEF Reject, queue, consumers, Reachable
  <1>8. CASE UNCHANGED vars
    BY <1>8 DEF vars, queue, consumers, Reachable
  <1> QED
    BY <1>1, <1>2, <1>3, <1>4, <1>5, <1>6, <1>7, <1>8 DEF Next, Generator
-----------------------------------------------------------------------------
(***************************************************************************)
(* What is lost, and who paid for it.                                      *)
(***************************************************************************)
\* An item once held stays held, and one accepted is held unless dropped.
LEMMA LostOnlyWhenDropped ==
    ASSUME TypeOK, Apart, [Next]_vars
    PROVE  \/ Unheld' \subseteq Unheld
           \/ \E m \in Items : Drops(m) /\ Unheld' \subseteq Unheld \cup {m}
  <1>0. \A x \in ToSet(acked) : x \in Items
    BY LenProperties, ElementOfSeq DEF TypeOK, ToSet
  <1>1. ASSUME NEW m \in Items, Buffers(m) PROVE Unheld' \subseteq Unheld
    <2>1. ToSet(acked') = ToSet(acked) \cup {m} /\ ToSet(items') = ToSet(items) \cup {m}
      BY <1>1, NewElement, AppendElement DEF Buffers, TypeOK
    <2> QED
      BY <1>1, <2>1 DEF Buffers, Unheld, Held, Has
  <1>2. ASSUME NEW m \in Items, Drops(m) PROVE Unheld' \subseteq Unheld \cup {m}
    <2>1. ToSet(acked') = ToSet(acked) \cup {m}
      BY <1>2, NewElement DEF Drops
    <2> QED
      BY <1>2, <2>1 DEF Drops, Unheld, Held, Has
  <1>3. ASSUME NEW m \in Items, NEW i \in Iterators, Hands(m, i) PROVE Unheld' \subseteq Unheld
    <2>1. /\ ToSet(acked') = ToSet(acked) \cup {m}
          /\ ToSet(inbox'[i]) = {m} /\ ToSet(inbox[i]) = {}
          /\ \A j \in Iterators : j # i => inbox'[j] = inbox[j]
          /\ UNCHANGED <<items, delivered, drained>>
      BY <1>3, NewElement, FewElements DEF Hands, TypeOK
    <2>2. \A j \in Iterators, x \in Items : Has(j, x) => Has(j, x)'
      BY <2>1 DEF Has
    <2>3. Has(i, m)'
      BY <2>1 DEF Has
    <2>4. Held(m)' /\ \A x \in Items : Held(x) => Held(x)'
      BY <2>1, <2>2, <2>3 DEF Held
    <2> QED
      BY <1>0, <2>1, <2>4 DEF Unheld
  <1>4. CASE Empties
    <2>1. /\ ToSet(drained') = ToSet(drained) \cup ToSet(items) /\ ToSet(items') = {}
      BY <1>4, ConcatElements, FewElements DEF Empties, TypeOK
    <2> QED
      BY <1>4, <2>1 DEF Empties, Unheld, Held, Has
  <1>5. ASSUME NEW i \in Iterators, Takes(i) PROVE Unheld' \subseteq Unheld
    <2>1. PICK m \in Items : m = Head(items)
      BY <1>5, TailElements DEF Takes, TypeOK
    <2>2. ToSet(items) = {m} \cup ToSet(items') /\ UNCHANGED <<acked, inbox, drained>>
      BY <1>5, <2>1, TailElements DEF Takes, TypeOK
    <2>3. /\ ToSet(delivered'[i]) = ToSet(delivered[i]) \cup {m}
          /\ \A j \in Iterators : j # i => delivered'[j] = delivered[j]
      BY <1>5, <2>1, AppendElement DEF Takes, TypeOK
    <2>4. \A j \in Iterators, x \in Items : Has(j, x) => Has(j, x)'
      BY <2>2, <2>3 DEF Has
    <2>5. Has(i, m)'
      BY <2>3 DEF Has
    <2>6. \A x \in Items : Held(x) => Held(x)'
      BY <2>2, <2>4, <2>5 DEF Held
    <2> QED
      BY <1>0, <2>2, <2>6 DEF Unheld
  <1>6. ASSUME NEW m \in Items, NEW i \in Iterators, Receives(i, m)
        PROVE  Unheld' \subseteq Unheld
    <2>1. /\ ToSet(inbox[i]) = {m} /\ UNCHANGED <<acked, items, drained>>
          /\ \A j \in Iterators : j # i => inbox'[j] = inbox[j]
      BY <1>6, FewElements DEF Receives, TypeOK
    <2>2. /\ ToSet(delivered'[i]) = ToSet(delivered[i]) \cup {m}
          /\ \A j \in Iterators : j # i => delivered'[j] = delivered[j]
      BY <1>6, AppendElement DEF Receives, TypeOK
    <2>3. \A j \in Iterators, x \in Items : Has(j, x) => Has(j, x)'
      BY <2>1, <2>2 DEF Has
    <2>4. \A x \in Items : Held(x) => Held(x)'
      BY <2>1, <2>3 DEF Held
    <2> QED
      BY <1>0, <2>1, <2>4 DEF Unheld
  <1>7. CASE Stays
    BY <1>7 DEF Stays, Unheld, Held, Has
  <1> QED
    BY <1>1, <1>2, <1>3, <1>4, <1>5, <1>6, <1>7, Moves

\* A resolver is left behind by an abort only, and an iterator is aborted
\* once: those that took an item along already are not abandoned again.
LEMMA StaleStep ==
    ASSUME TypeOK, Reachable, Paid, [Next]_vars
    PROVE  /\ \A i \in abandoned' : aborted'[i]
           /\ Stale' \subseteq abandoned' /\ abandoned \ Stale \subseteq abandoned' \ Stale'
  <1>0. ToSet(resolvers) \subseteq Iterators /\ abandoned \subseteq Iterators
    BY LenProperties, ElementOfSeq DEF TypeOK, ToSet
  <1>s. ASSUME UNCHANGED <<abandoned, aborted>>, ToSet(resolvers') \subseteq ToSet(resolvers),
               \A i \in ToSet(resolvers') : phase'[i] = phase[i]
        PROVE  /\ \A i \in abandoned' : aborted'[i]
               /\ Stale' \subseteq abandoned' /\ abandoned \ Stale \subseteq abandoned' \ Stale'
    BY <1>s DEF Stale, Paid
  <1>1. ASSUME NEW m \in Items, Accept(m)
        PROVE  /\ UNCHANGED <<abandoned, aborted>> /\ ToSet(resolvers') \subseteq ToSet(resolvers)
               /\ \A i \in ToSet(resolvers') : phase'[i] = phase[i]
    <2>1. CASE UNCHANGED <<resolvers, phase>>
      BY <1>1, <2>1 DEF Accept
    <2>2. CASE resolvers # <<>> /\ resolvers' = Tail(resolvers)
               /\ UNCHANGED phase
      BY <1>1, <2>2, FirstResolver DEF Accept
    <2>3. CASE resolvers # <<>> /\ resolvers' = Tail(resolvers)
               /\ phase' = [phase EXCEPT ![Head(resolvers)] = "woken"]
      <3>1. /\ ToSet(resolvers') \subseteq ToSet(resolvers)
            /\ Head(resolvers) \notin ToSet(resolvers')
        BY <2>3, FirstResolver DEF Reachable
      <3>2. \A j \in Iterators : j # Head(resolvers) => phase'[j] = phase[j]
        BY <2>3 DEF TypeOK
      <3> QED
        BY <1>0, <1>1, <3>1, <3>2 DEF Accept
    <2> QED
      BY <1>1, <2>1, <2>2, <2>3 DEF Accept, push
  <1>2. CASE Close
    BY <1>2, <1>s, FewElements DEF Close
  <1>3. CASE Drain
    BY <1>3, <1>s DEF Drain, consumers
  <1>4. ASSUME NEW i \in Iterators, Start(i) \/ Resume(i) \/ Leave(i) \/ Wake(i)
        PROVE  /\ UNCHANGED <<abandoned, aborted, resolvers>>
               /\ \A j \in ToSet(resolvers) : phase'[j] = phase[j]
    BY <1>4, OthersDoNotMatter DEF Start, Resume, Leave, Wake, Yield, queue, Phases
  <1>5. ASSUME NEW i \in Iterators, Turn(i)
        PROVE  /\ \A j \in abandoned' : aborted'[j]
               /\ Stale' \subseteq abandoned' /\ abandoned \ Stale \subseteq abandoned' \ Stale'
    <2>1. CASE /\ UNCHANGED resolvers
               /\ \E to \in {"done", "yielded"} : phase' = [phase EXCEPT ![i] = to]
      BY <1>5, <2>1, <1>s, OthersDoNotMatter DEF Turn, Phases
    <2>2. CASE phase' = [phase EXCEPT ![i] = "waiting"] /\ resolvers' = Append(resolvers, i)
      <3>1. ToSet(resolvers') = ToSet(resolvers) \cup {i}
        BY <2>2, AppendElement DEF TypeOK
      <3>2. \A j \in Iterators : phase'[j] = IF j = i THEN "waiting" ELSE phase[j]
        BY <2>2 DEF TypeOK
      <3>3. Stale' \subseteq Stale /\ UNCHANGED <<abandoned, aborted>>
        BY <1>0, <1>5, <3>1, <3>2 DEF Stale, Turn
      <3> QED
        BY <3>3 DEF Paid
    <2> QED
      BY <1>5, <2>1, <2>2 DEF Turn, Yield
  <1>6. ASSUME NEW i \in Iterators, Abort(i)
        PROVE  /\ \A j \in abandoned' : aborted'[j]
               /\ Stale' \subseteq abandoned' /\ abandoned \ Stale \subseteq abandoned' \ Stale'
    <2>1. /\ UNCHANGED resolvers /\ ~aborted[i] /\ i \notin abandoned
          /\ \A j \in Iterators : aborted'[j] = IF j = i THEN TRUE ELSE aborted[j]
      BY <1>6 DEF Abort, queue, TypeOK, Paid
    <2>2. CASE phase' = [phase EXCEPT ![i] = "done"] /\ abandoned' = abandoned \cup {i}
      <3>1. \A j \in Iterators : j # i => phase'[j] = phase[j]
        BY <2>2 DEF TypeOK
      <3>2. Stale' \subseteq Stale \cup {i}
        BY <1>0, <2>1, <3>1 DEF Stale
      <3> QED
        BY <1>0, <2>1, <2>2, <3>2 DEF Paid
    <2>3. CASE UNCHANGED <<phase, abandoned>>
      BY <1>0, <2>1, <2>3 DEF Stale, Paid
    <2> QED
      BY <1>6, <2>2, <2>3 DEF Abort
  <1>7. ASSUME NEW m \in Items, Reject(m)
        PROVE  UNCHANGED <<abandoned, aborted, resolvers, phase>>
    BY <1>7 DEF Reject, queue, consumers
  <1>8. CASE UNCHANGED vars
    BY <1>8, <1>s DEF vars, queue, consumers
  <1> QED
    BY <1>s, <1>1, <1>2, <1>3, <1>4, <1>5, <1>6, <1>7, <1>8 DEF Next, Generator

\* The sets that are counted are finite.
LEMMA Countable ==
    ASSUME NEW S, S \subseteq Items \/ S \subseteq Iterators
    PROVE  IsFiniteSet(S) /\ Cardinality(S) \in Nat
  BY Constants, FS_Subset, FS_CardinalityType

LEMMA Counted == TypeOK => Unheld \subseteq Items /\ abandoned \subseteq Iterators
  BY LenProperties, ElementOfSeq DEF TypeOK, ToSet, Unheld

LEMMA PaidInit == Init => Paid
  <1> SUFFICES ASSUME Init PROVE Paid
    OBVIOUS
  <1>1. Unheld = {} /\ Stale = {} /\ abandoned = {}
    BY FewElements DEF Init, Unheld, Stale
  <1> QED
    BY <1>1, FS_EmptySet DEF Paid

LEMMA PaidStep == TypeOK /\ Apart /\ Reachable /\ Paid /\ [Next]_vars => Paid'
  <1> SUFFICES ASSUME TypeOK, Apart, Reachable, Paid, [Next]_vars, ~closed'
               PROVE  Cardinality(Unheld') <= Cardinality(abandoned' \ Stale')
    BY StaleStep DEF Paid
  <1> DEFINE before == abandoned \ Stale
             after == abandoned' \ Stale'
  <1>1. ~closed /\ Cardinality(Unheld) <= Cardinality(before)
    <2>1. closed => closed'
      BY DEF Next, Generator, Accept, Reject, Close, Drain, Start, Turn, Wake, Resume, Leave,
             Abort, queue, vars
    <2> QED
      BY <2>1 DEF Paid
  <1>2. /\ IsFiniteSet(Unheld) /\ Cardinality(Unheld) \in Nat
        /\ IsFiniteSet(before) /\ Cardinality(before) \in Nat
    BY Countable, Counted
  <1>3. /\ IsFiniteSet(Unheld') /\ Cardinality(Unheld') \in Nat
        /\ IsFiniteSet(after) /\ Cardinality(after) \in Nat
    <2>1. TypeOK'
      BY TypeStep
    <2>2. Unheld' \subseteq Items /\ abandoned' \subseteq Iterators
      BY <2>1, LenProperties, ElementOfSeq DEF TypeOK, ToSet, Unheld
    <2> QED
      BY <2>2, Countable
  <1>4. before \subseteq after
    BY StaleStep
  <1>5. CASE Unheld' \subseteq Unheld
    <2>1. Cardinality(Unheld') <= Cardinality(Unheld) /\ Cardinality(before) <= Cardinality(after)
      BY <1>2, <1>3, <1>4, <1>5, FS_Subset
    <2> QED
      BY <1>1, <1>2, <1>3, <2>1
  <1>6. ASSUME NEW m \in Items, Drops(m), Unheld' \subseteq Unheld \cup {m}
        PROVE  Cardinality(Unheld') <= Cardinality(after)
    <2> DEFINE i == Head(resolvers)
    <2>1. /\ resolvers # <<>> /\ phase[i] # "waiting"
          /\ resolvers' = Tail(resolvers) /\ UNCHANGED <<phase, abandoned>>
      BY <1>6 DEF Drops
    <2>2. i \in Stale /\ i \notin Stale' /\ i \in abandoned'
      BY <2>1, FirstResolver DEF Stale, Reachable, Paid
    <2> HIDE DEF i
    <2>3. before \cup {i} \subseteq after /\ i \notin before
      BY <1>4, <2>2
    <2>4. IsFiniteSet(before \cup {i}) /\ Cardinality(before \cup {i}) = Cardinality(before) + 1
      BY <1>2, <2>3, FS_AddElement
    <2>5. Cardinality(before) + 1 <= Cardinality(after)
      BY <1>3, <2>3, <2>4, FS_Subset
    <2>6. IsFiniteSet(Unheld \cup {m})
          /\ \/ Cardinality(Unheld \cup {m}) = Cardinality(Unheld)
             \/ Cardinality(Unheld \cup {m}) = Cardinality(Unheld) + 1
      BY <1>2, FS_AddElement
    <2>7. Cardinality(Unheld') <= Cardinality(Unheld \cup {m})
      BY <1>6, <2>6, FS_Subset
    <2> QED
      BY <1>1, <1>2, <1>3, <2>5, <2>6, <2>7
  <1> QED
    BY <1>5, <1>6, LostOnlyWhenDropped
-----------------------------------------------------------------------------
(***************************************************************************)
(* The properties.                                                         *)
(***************************************************************************)
LEMMA InvInit == Init => Inv
  BY TypeInit, ApartInit, SortedInit, ReachableInit, PaidInit DEF Inv

LEMMA InvStep == Inv /\ [Next]_vars => Inv'
  BY TypeStep, ApartStep, SortedStep, ReachableStep, PaidStep DEF Inv

\* A set without two members has at most one.
LEMMA AtMostOneMember ==
    ASSUME NEW S, \A x, y \in S : x = y
    PROVE  Cardinality(S) <= 1
  <1>1. CASE S = {}
    BY <1>1, FS_EmptySet
  <1>2. CASE S # {}
    <2>1. PICK x : S = {x}
      BY <1>2
    <2> QED
      BY <2>1, FS_Singleton
  <1> QED
    BY <1>1, <1>2

LEMMA OncePlaced == Inv => AtMostOnce
  <1> SUFFICES ASSUME Inv PROVE AtMostOnce
    OBVIOUS
  <1>1. ASSUME NEW m \in Items, NEW x \in Holders(m), NEW y \in Holders(m) PROVE x = y
    BY <1>1 DEF Holders, Inv, Apart, Has
  <1>2. \A m \in Items : Cardinality(Holders(m)) <= 1
    BY <1>1, AtMostOneMember
  <1> QED
    BY <1>2 DEF AtMostOnce, Inv, Apart

LEMMA InOrder == Inv => DeliveredInOrder
  <1> SUFFICES ASSUME Inv, NEW i \in Iterators
               PROVE  Increasing(delivered[i] \o inbox[i] \o items)
    BY DEF DeliveredInOrder
  <1>1. /\ delivered[i] \in Seq(Items) /\ inbox[i] \in Seq(Items) /\ items \in Seq(Items)
    BY DEF Inv, TypeOK
  <1>2. Rising(acked, inbox[i])
    <2>1. CASE inbox[i] = <<>>
      BY <2>1 DEF Rising
    <2>2. CASE inbox[i] = <<Head(inbox[i])>>
      <3>1. DOMAIN inbox[i] = {1}
        BY <2>2
      <3> QED
        BY <3>1 DEF Rising
    <2> QED
      BY <2>1, <2>2, InboxOf DEF Inv
  <1>3. /\ delivered[i] \o inbox[i] \in Seq(Items)
        /\ ToSet(delivered[i] \o inbox[i]) = ToSet(delivered[i]) \cup ToSet(inbox[i])
    BY <1>1, ConcatElements
  <1>4. Rising(acked, delivered[i] \o inbox[i])
    BY <1>1, <1>2, RisingConcat DEF Inv, Sorted
  <1>5. Rising(acked, (delivered[i] \o inbox[i]) \o items)
    BY <1>1, <1>3, <1>4, RisingConcat DEF Inv, Sorted
  <1> QED
    BY <1>5 DEF Increasing, Order, Rising, Rank

LEMMA Wakeable == Inv => WaitersAreReachable
  <1> SUFFICES ASSUME Inv PROVE WaitersAreReachable
    OBVIOUS
  <1>1. ASSUME NEW i \in Iterators, phase[i] = "waiting"
        PROVE  Cardinality({n \in DOMAIN resolvers : resolvers[n] = i}) = 1
    <2>1. PICK n \in DOMAIN resolvers : resolvers[n] = i
      BY <1>1 DEF Inv, Reachable, ToSet
    <2>2. {k \in DOMAIN resolvers : resolvers[k] = i} = {n}
      BY <2>1 DEF Inv, Reachable, IsInjective
    <2> QED
      BY <2>2, FS_Singleton
  <1> QED
    BY <1>1 DEF WaitersAreReachable, Inv, Reachable

LEMMA Bounded == Inv => LossIsBounded
  <1> SUFFICES ASSUME Inv, ~closed
               PROVE  Cardinality(Lost)
                        + Cardinality({n \in DOMAIN resolvers : phase[resolvers[n]] # "waiting"})
                        <= Cardinality(abandoned)
    BY DEF LossIsBounded
  <1> DEFINE unpaid == {n \in DOMAIN resolvers : phase[resolvers[n]] # "waiting"}
  <1>1. Lost = Unheld
    <2>1. ASSUME NEW m PROVE Holders(m) = {} <=> ~Held(m)
      BY DEF Holders, Held, Has
    <2> QED
      BY <2>1 DEF Lost, Unheld
  <1>2. /\ IsFiniteSet(abandoned) /\ Cardinality(abandoned) \in Nat /\ Stale \subseteq abandoned
        /\ IsFiniteSet(Stale) /\ Cardinality(Stale) \in Nat
        /\ Cardinality(abandoned \ Stale) \in Nat /\ Cardinality(Unheld) \in Nat
    BY Countable, Counted DEF Inv, Paid
  <1>3. Cardinality(unpaid) \in Nat /\ Cardinality(unpaid) <= Cardinality(Stale)
    <2> DEFINE f == [n \in unpaid |-> resolvers[n]]
    <2>1. f \in Injection(unpaid, Stale)
      <3>1. \A n \in unpaid : resolvers[n] \in Stale
        BY DEF Stale, ToSet
      <3>2. \A n, k \in unpaid : resolvers[n] = resolvers[k] => n = k
        BY DEF Inv, Reachable, IsInjective
      <3> QED
        BY <3>1, <3>2 DEF Injection, IsInjective
    <2> HIDE DEF f, unpaid
    <2> QED
      BY <1>2, <2>1, FS_Injection, FS_CardinalityType
  <1>4. Cardinality(abandoned \ Stale) = Cardinality(abandoned) - Cardinality(Stale)
    <2>1. abandoned \cap Stale = Stale
      BY <1>2
    <2> QED
      BY <1>2, <2>1, FS_Difference
  <1>5. Cardinality(Unheld) <= Cardinality(abandoned \ Stale)
    BY DEF Inv, Paid
  <1> HIDE DEF unpaid
  <1>6. Cardinality(Unheld) + Cardinality(unpaid) <= Cardinality(abandoned)
    BY <1>2, <1>3, <1>4, <1>5
  <1> QED
    BY <1>1, <1>6 DEF unpaid

\* For any requests, runs, aborts and calls of fetch(): an accepted item is
\* handed out at most once and in order, whoever waits can be woken, and each
\* abort of a waiting iterator costs one item at most (async-queue.ts 11-72).
THEOREM QueueIsSoundAlways == Spec => []QueueIsSound
  <1>1. Inv => QueueIsSound
    BY OncePlaced, InOrder, Wakeable, Bounded DEF QueueIsSound, Inv
  <1> QED
    BY InvInit, InvStep, <1>1, PTL DEF Spec

-----------------------------------------------------------------------------
(***************************************************************************)
(* Constants, and clocks that count whole seconds.                         *)
(***************************************************************************)
LEMMA Bounds ==
    /\ Second \in Nat \ {0} /\ Tolerance \in Nat /\ Skew \in Nat
    /\ Poll \in Nat /\ MaxWait \in Nat /\ Latency \in Nat
  BY InboundAssumption

\* Whole seconds, for clocks that are not below zero.
LEMMA Seconds ==
    ASSUME NEW s \in Nat \ {0}, NEW x \in Nat
    PROVE  x \div s \in Nat /\ s * (x \div s) <= x /\ x < s * (x \div s) + s
  OBVIOUS

\* Two clocks in whole seconds are apart by the time between, but for one.
LEMMA DriftIsAge ==
    ASSUME NEW s \in Nat \ {0}, NEW x \in Nat, NEW y \in Nat, y <= x, NEW tol \in Nat
    PROVE  /\ x - y <= tol - s => Signed!Abs((x \div s - y \div s) * s) <= tol
           /\ Signed!Abs((x \div s - y \div s) * s) <= tol => x - y < tol + s
  <1>1. /\ x \div s \in Nat /\ s * (x \div s) <= x /\ x < s * (x \div s) + s
        /\ y \div s \in Nat /\ s * (y \div s) <= y /\ y < s * (y \div s) + s
    BY Seconds
  <1> DEFINE a == x \div s
             b == y \div s
             p == s * a
             q == s * b
             d == (a - b) * s
  <1>2. d = p - q /\ p \in Int /\ q \in Int /\ d \in Int
    BY <1>1
  <1>3. p <= x /\ x < p + s /\ q <= y /\ y < q + s
    BY <1>1
  <1>4. Signed!Abs(d) = IF d < 0 THEN -d ELSE d
    BY DEF Signed!Abs
  <1> HIDE DEF p, q, d
  <1>5. /\ x - y <= tol - s => Signed!Abs(d) <= tol
        /\ Signed!Abs(d) <= tol => x - y < tol + s
    BY <1>2, <1>3, <1>4
  <1> QED
    BY <1>5 DEF d

-----------------------------------------------------------------------------
(***************************************************************************)
(* A signed request between two pipelines (core/src/webhooks).             *)
(***************************************************************************)
Forms == {"good", "malformed", "missing"}
Bodies == {"event", "item", "mismatch", "garbage"}

\* A request carries one signature, made when it was sent with a secret that
\* was used then, of the body it had then.
SignedOnce(m) ==
    /\ DOMAIN m = {"body", "t", "sigs", "at", "by", "form"}
    /\ m.form \in Forms /\ m.body \in Bodies /\ m.by \in Nat \ {0}
    /\ m.at \in Nat /\ m.at <= time /\ m.t = m.at \div Second
    /\ \E b \in Bodies, alg \in {"v1", "v2"} :
            m.sigs = {[alg |-> alg, hex |-> Signed!Hmac(m.by, m.t, b)]}

Answered ==
    answer # <<>> =>
        /\ wire # <<>> /\ Signed!SignedIsAccepted /\ Signed!VerifiersAgree

SignedInv ==
    /\ time \in Nat /\ ahead \in Nat /\ secret \in Nat \ {0}
    /\ held \in Seq(Nat \ {0}) /\ held # <<>>
    /\ wire # <<>> => wire = <<wire[1]>> /\ SignedOnce(wire[1])
    /\ Answered

\* What the receiver makes of a request, in the terms of the property.
LEMMA WhatIsAccepted ==
    ASSUME SignedInv, wire # <<>>, NEW algs \in {{"v1"}, {"v1", "v2"}},
           NEW s \in Nat
    PROVE  LET m == wire[1]
               age == time + ahead - m.at
           IN  /\ Signed!Drift(m) <= Tolerance => age < Tolerance + Second
               /\ age <= Tolerance - Second => Signed!Drift(m) <= Tolerance
               /\ Signed!Matches(m, s, algs) => Signed!Intact(m) \/ m.form # "good"
               /\ Signed!Matches(m, s, algs) => s = m.by
               /\ Signed!Intact(m) /\ (\E sig \in m.sigs : sig.alg \in algs)
                    => Signed!Matches(m, m.by, algs)
  <1> DEFINE m == wire[1]
  <1>1. /\ m.at \in Nat /\ m.at <= time + ahead /\ time \in Nat /\ ahead \in Nat
        /\ m.t = m.at \div Second
    BY DEF SignedInv, SignedOnce
  <1>2. Second \in Nat \ {0} /\ Tolerance \in Nat
    BY Bounds
  <1>3. Signed!Drift(m) =
            Signed!Abs(((time + ahead) \div Second - m.at \div Second) * Second)
    BY <1>1 DEF Signed!Drift
  <1>4. /\ Signed!Drift(m) <= Tolerance => time + ahead - m.at < Tolerance + Second
        /\ time + ahead - m.at <= Tolerance - Second => Signed!Drift(m) <= Tolerance
    <2> DEFINE x == time + ahead
               y == m.at
    <2>0. x = time + ahead /\ y = m.at
      OBVIOUS
    <2>1. x \in Nat /\ y \in Nat /\ y <= x
      BY <1>1
    <2>2. Signed!Drift(m) = Signed!Abs((x \div Second - y \div Second) * Second)
      BY <1>3
    <2> HIDE DEF x, y
    <2>3. /\ x - y <= Tolerance - Second
                => Signed!Abs((x \div Second - y \div Second) * Second) <= Tolerance
          /\ Signed!Abs((x \div Second - y \div Second) * Second) <= Tolerance
                => x - y < Tolerance + Second
      BY <2>1, <1>2, DriftIsAge
    <2>4. /\ Signed!Drift(m) <= Tolerance => x - y < Tolerance + Second
          /\ x - y <= Tolerance - Second => Signed!Drift(m) <= Tolerance
      BY <2>2, <2>3
    <2>5. x - y = time + ahead - m.at
      BY <1>1, <2>0
    <2> QED
      BY <2>4, <2>5
  <1>5. PICK b \in Bodies, alg \in {"v1", "v2"} :
            m.sigs = {[alg |-> alg, hex |-> Signed!Hmac(m.by, m.t, b)]}
    BY DEF SignedInv, SignedOnce
  <1>6. /\ Signed!Matches(m, s, algs) => Signed!Intact(m) \/ m.form # "good"
        /\ Signed!Matches(m, s, algs) => s = m.by
        /\ Signed!Intact(m) /\ (\E sig \in m.sigs : sig.alg \in algs)
                => Signed!Matches(m, m.by, algs)
    BY <1>5 DEF Signed!Matches, Signed!Intact, Signed!Hmac
  <1> QED
    BY <1>4, <1>6

\* The verifiers take their guards one after the other.
LEMMA WebhookIsOk ==
    ASSUME NEW m, NEW ss
    PROVE  Signed!VerifyWebhook(m, ss) = "ok"
             <=> /\ m.form = "good" /\ ~(Signed!Drift(m) > Tolerance)
                 /\ ~(\A sig \in m.sigs : sig.alg # "v1")
                 /\ \E k \in DOMAIN ss : Signed!Matches(m, ss[k], {"v1"})
  BY DEF Signed!VerifyWebhook

Accepted == {"ok", "invalid_payload"}
Refused == {"missing_secret", "malformed_header", "expired_timestamp", "invalid_signature"}
LEMMA VerifyIsOk ==
    ASSUME NEW m, NEW s, NEW algs
    PROVE  /\ Signed!Verify(m, s, algs) \in Accepted
                <=> /\ s # 0 /\ m.form = "good" /\ ~(Signed!Drift(m) > Tolerance)
                    /\ Signed!Matches(m, s, algs)
           /\ Signed!Verify(m, s, algs) = "ok" => m.body = "event" /\ m.form = "good"
           /\ Signed!Verify(m, s, algs) \in Accepted \cup Refused
  BY DEF Signed!Verify, Accepted, Refused

LEMMA SignedInit == Signed!Init => SignedInv
  BY Bounds DEF Signed!Init, SignedInv, Answered

LEMMA ReceiveStep == SignedInv /\ Signed!Receive => SignedInv'
  <1> SUFFICES ASSUME SignedInv, Signed!Receive PROVE SignedInv'
    OBVIOUS
  <1> DEFINE m == wire[1]
             age == time + ahead - m.at
  <1>1. PICK algs \in {{"v1"}, {"v1", "v2"}}, configured \in {TRUE, FALSE} :
            LET one == IF configured THEN held[1] ELSE 0
            IN  answer' = <<[algs |-> algs, configured |-> configured, at |-> time, tried |-> held,
                             verify |-> Signed!Verify(m, one, algs),
                             webhook |-> Signed!VerifyWebhook(m, held),
                             status |-> Signed!Handle(m, one, algs),
                             posted |-> Signed!HandlePost(m, one, algs)]>>
    BY DEF Signed!Receive
  <1>2. wire # <<>> /\ UNCHANGED <<time, ahead, secret, held, wire>>
    BY DEF Signed!Receive
  <1> DEFINE one == IF configured THEN held[1] ELSE 0
             a == answer'[1]
  <1>3. /\ a.algs = algs /\ a.configured = configured /\ a.at = time /\ a.tried = held
        /\ a.verify = Signed!Verify(m, one, algs)
        /\ a.webhook = Signed!VerifyWebhook(m, held)
        /\ a.status = Signed!Handle(m, one, algs)
        /\ a.posted = Signed!HandlePost(m, one, algs)
    BY <1>1
  <1>4. /\ held \in Seq(Nat \ {0}) /\ held # <<>> /\ held[1] \in Nat \ {0}
        /\ 1 \in DOMAIN held /\ \A k \in DOMAIN held : held[k] \in Nat
    BY DEF SignedInv
  <1>5. m.form \in Forms /\ m.body \in Bodies /\ m.by \in Nat \ {0} /\ one \in Nat
    BY <1>2, <1>4 DEF SignedInv, SignedOnce
  <1> HIDE DEF m, one, a
  <1>6. ASSUME NEW s \in Nat, NEW as \in {{"v1"}, {"v1", "v2"}}
        PROVE  /\ Signed!Drift(m) <= Tolerance => age < Tolerance + Second
               /\ age <= Tolerance - Second => Signed!Drift(m) <= Tolerance
               /\ Signed!Matches(m, s, as) => Signed!Intact(m) \/ m.form # "good"
               /\ Signed!Matches(m, s, as) => s = m.by
               /\ Signed!Intact(m) /\ (\E sig \in m.sigs : sig.alg \in as)
                    => Signed!Matches(m, m.by, as)
    BY <1>2, WhatIsAccepted DEF m
  <1>7a. Signed!Drift(m) \in Int /\ Tolerance \in Nat
    <2>1. m.t \in Int /\ (time + ahead) \div Second \in Int /\ Second \in Int
      BY <1>2, Bounds DEF SignedInv, SignedOnce, m
    <2>2. ((time + ahead) \div Second - m.t) * Second \in Int
      BY <2>1
    <2> QED
      BY <2>2, Bounds DEF Signed!Drift, Signed!Abs
  <1>7. /\ a.webhook = "ok" => Signed!Intact(m) /\ m.by \in ToSet(held) /\ age < Tolerance + Second
        /\ (/\ Signed!Intact(m) /\ (\E sig \in m.sigs : sig.alg = "v1") /\ m.by \in ToSet(held)
            /\ age <= Tolerance - Second) => a.webhook = "ok"
    <2>1. ASSUME a.webhook = "ok"
          PROVE  Signed!Intact(m) /\ m.by \in ToSet(held) /\ age < Tolerance + Second
      <3>1. /\ m.form = "good" /\ Signed!Drift(m) <= Tolerance
            /\ \E k \in DOMAIN held : Signed!Matches(m, held[k], {"v1"})
        BY <2>1, <1>3, <1>7a, WebhookIsOk
      <3> QED
        BY <3>1, <1>4, <1>6 DEF ToSet
    <2>2. ASSUME Signed!Intact(m), \E sig \in m.sigs : sig.alg = "v1", m.by \in ToSet(held),
                 age <= Tolerance - Second
          PROVE  a.webhook = "ok"
      <3>1. Signed!Matches(m, m.by, {"v1"}) /\ Signed!Drift(m) <= Tolerance
        BY <2>2, <1>5, <1>6
      <3>2. \E k \in DOMAIN held : Signed!Matches(m, held[k], {"v1"})
        BY <2>2, <3>1 DEF ToSet
      <3> QED
        BY <2>2, <3>1, <3>2, <1>3, <1>7a, WebhookIsOk DEF Signed!Intact
    <2> QED
      BY <2>1, <2>2
  <1>8. a.status = 200 => Signed!Intact(m) /\ configured /\ age < Tolerance + Second
    <2> SUFFICES ASSUME a.status = 200
                 PROVE  Signed!Intact(m) /\ configured /\ age < Tolerance + Second
      OBVIOUS
    <2>1. Signed!Verify(m, one, algs) \in {"ok", "invalid_payload"}
      BY <1>3 DEF Signed!Handle
    <2>2. one # 0 /\ m.form = "good" /\ Signed!Drift(m) <= Tolerance /\ Signed!Matches(m, one, algs)
      BY <2>1, <1>7a, VerifyIsOk DEF Accepted
    <2> QED
      BY <2>2, <1>5, <1>6 DEF one
  <1>9. /\ a.verify = "ok" => a.status = 200
        /\ a.posted = a.status
    <2>1. a.verify = "ok" => m.form = "good" /\ m.body = "event"
      BY <1>3, VerifyIsOk
    <2>2. a.verify \in Accepted \cup Refused
      BY <1>3, VerifyIsOk
    <2> QED
      BY <2>1, <2>2, <1>3 DEF Signed!Handle, Signed!HandlePost, Accepted, Refused
  <1>10. ASSUME configured, Len(held) = 1, algs = {"v1"}
         PROVE  a.webhook = "ok" <=> a.verify \in {"ok", "invalid_payload"}
    <2>1. one = held[1] /\ one # 0 /\ DOMAIN held = {1}
      BY <1>4, <1>10 DEF one
    <2>2. Signed!Matches(m, one, {"v1"}) => \E sig \in m.sigs : sig.alg = "v1"
      BY DEF Signed!Matches
    <2>3. a.webhook = "ok" <=> /\ m.form = "good" /\ ~(Signed!Drift(m) > Tolerance)
                               /\ Signed!Matches(m, one, {"v1"})
      <3>1. (\E k \in DOMAIN held : Signed!Matches(m, held[k], {"v1"}))
                <=> Signed!Matches(m, one, {"v1"})
        BY <2>1
      <3> QED
        BY <3>1, <2>2, <1>3, WebhookIsOk
    <2>4. a.verify \in {"ok", "invalid_payload"}
            <=> /\ m.form = "good" /\ ~(Signed!Drift(m) > Tolerance)
                /\ Signed!Matches(m, one, {"v1"})
      BY <2>1, <1>3, <1>10, VerifyIsOk DEF Accepted
    <2> QED
      BY <2>3, <2>4
  <1>11. answer' = <<a>> /\ wire'[1] = m /\ ahead' = ahead
    BY <1>1, <1>2 DEF a, m
  <1>12. Signed!SignedIsAccepted'
    BY <1>3, <1>7, <1>8, <1>11
    DEF Signed!SignedIsAccepted, Signed!Age, Signed!Intact, Signed!ToSet, ToSet
  <1>13. Signed!VerifiersAgree'
    BY <1>3, <1>9, <1>10, <1>11 DEF Signed!VerifiersAgree
  <1> QED
    BY <1>2, <1>12, <1>13 DEF SignedInv, Answered, SignedOnce

LEMMA SignedStep == SignedInv /\ (Signed!Next \/ UNCHANGED signedVars) => SignedInv'
  <1> SUFFICES ASSUME SignedInv, Signed!Next \/ UNCHANGED signedVars PROVE SignedInv'
    OBVIOUS
  <1>k. ASSUME UNCHANGED answer, answer = <<>> PROVE Answered'
    BY <1>k DEF Answered
  <1>u. ASSUME UNCHANGED <<ahead, wire, answer>> PROVE Answered'
    BY <1>u DEF SignedInv, Answered, Signed!SignedIsAccepted, Signed!VerifiersAgree, Signed!Age,
        Signed!Intact
  <1>1. CASE Signed!Send
    <2>1. PICK body \in Bodies, alg \in {"v1", "v2"} :
              wire' = <<Signed!Sign(body, secret, alg)>>
      BY <1>1 DEF Signed!Send, Bodies
    <2>2. answer = <<>> /\ UNCHANGED <<time, ahead, secret, held, answer>>
      BY <1>1 DEF Signed!Send, SignedInv, Answered
    <2>3. SignedOnce(wire[1])'
      BY <2>1, <2>2 DEF Signed!Sign, SignedOnce, SignedInv, Forms
    <2> QED
      BY <1>k, <2>1, <2>2, <2>3 DEF SignedInv
  <1>2. CASE Signed!Damage
    <2> DEFINE m == wire[1]
    <2>1. /\ answer = <<>> /\ wire # <<>> /\ UNCHANGED <<time, ahead, secret, held, answer>>
          /\ \/ \E body \in Bodies : wire' = <<[m EXCEPT !.body = body]>>
             \/ \E form \in Forms : wire' = <<[m EXCEPT !.form = form]>>
      BY <1>2 DEF Signed!Damage, Bodies, Forms
    <2>2. SignedOnce(m)
      BY <2>1 DEF SignedInv
    <2> HIDE DEF m
    <2>3. ASSUME NEW body \in Bodies PROVE SignedOnce([m EXCEPT !.body = body])
      BY <2>2 DEF SignedOnce
    <2>4. ASSUME NEW form \in Forms PROVE SignedOnce([m EXCEPT !.form = form])
      BY <2>2 DEF SignedOnce
    <2>5. SignedOnce(wire'[1]) /\ wire' = <<wire'[1]>>
      BY <2>1, <2>3, <2>4
    <2>7. wire' # <<>>
      BY <2>5
    <2> QED
      BY <1>k, <2>1, <2>5, <2>7 DEF SignedInv, SignedOnce
  <1>3. CASE Signed!Receive
    BY <1>3, ReceiveStep
  <1>4. CASE Signed!Rotates
    <2>1. UNCHANGED <<time, ahead, wire, answer>>
      BY <1>4 DEF Signed!Rotates
    <2>2. secret' \in Nat \ {0} /\ held' \in Seq(Nat \ {0}) /\ held' # <<>>
      <3>1. held[1] \in Nat \ {0} /\ Head(held) = held[1] /\ held \in Seq(Nat \ {0})
        BY DEF SignedInv
      <3>2. <<Head(held)>> \in Seq(Nat \ {0}) /\ <<Head(held) + 1>> \in Seq(Nat \ {0})
        BY <3>1
      <3>3. /\ <<Head(held) + 1>> \o held \in Seq(Nat \ {0})
            /\ <<Head(held) + 1>> \o held # <<>> /\ <<Head(held)>> # <<>>
        BY <3>1, <3>2
      <3> QED
        BY <1>4, <3>1, <3>2, <3>3 DEF Signed!Rotates, Signed!Rotate, SignedInv
    <2> QED
      BY <1>u, <2>1, <2>2 DEF SignedInv, SignedOnce
  <1>5. CASE Signed!Tick
    <2>1. time' = time + 1 /\ UNCHANGED <<ahead, secret, held, wire, answer>>
      BY <1>5 DEF Signed!Tick
    <2>2. wire # <<>> => SignedOnce(wire[1])'
      BY <2>1 DEF SignedInv, SignedOnce
    <2> QED
      BY <1>u, <2>1, <2>2 DEF SignedInv
  <1>6. CASE UNCHANGED signedVars
    BY <1>u, <1>6 DEF signedVars, SignedInv, SignedOnce
  <1> QED
    BY <1>1, <1>2, <1>3, <1>4, <1>5, <1>6 DEF Signed!Next

-----------------------------------------------------------------------------
(***************************************************************************)
(* Waiting for an actor's run (source-apify/src/apify-source.ts).          *)
(***************************************************************************)
Statuses == {"none", "READY", "RUNNING", "ABORTING", "missing"} \cup Remote!Finals

ActorTyped ==
    /\ now \in Nat /\ since \in Nat /\ deadline \in Nat
    /\ cancelledAt \in Nat /\ endedAt \in Nat /\ cancelled \in BOOLEAN
    /\ since <= now /\ cancelledAt <= now
    /\ at \in {"start", "check", "asked", "asleep", "end"}
    /\ status \in Statuses /\ read \in Statuses
    /\ at = "start" => status = "none" /\ now = 0
    /\ at # "end" => outcome = "none"

\* A round begins by a poll after the deadline, a sleep before it.
Rounds ==
    /\ at = "check" => now <= deadline + Poll
    /\ at = "asked" => since <= deadline + Poll /\ now <= since + Latency
    /\ at = "asleep" => since <= deadline /\ now <= since + Poll

\* Whoever asks is not cancelled yet; a sleep is not begun, and a check ends.
CancelledInTime ==
    cancelled => /\ at = "asked" => since <= cancelledAt
                 /\ at \in {"check", "asleep"} => now <= cancelledAt + Latency

\* What was read is so, or was when the request was under way.
ReadIsTrue ==
    at = "asked" /\ read # "none" =>
        /\ read \in Remote!Finals => status = read
        /\ read \notin Remote!Finals /\ Remote!Ended => endedAt >= since

ActorInv ==
    /\ ActorTyped /\ Rounds /\ CancelledInTime /\ ReadIsTrue
    /\ Remote!InTimeIsRead /\ Remote!OutcomeIsTold

LEMMA ActorInit == Remote!ApifyInit => ActorInv
  BY Bounds
  DEF Remote!ApifyInit, ActorInv, ActorTyped, Rounds, CancelledInTime, ReadIsTrue, Statuses,
      Remote!Finals, Remote!Ended, Remote!InTimeIsRead, Remote!OutcomeIsTold

LEMMA ActorStep == ActorInv /\ (Remote!ApifyNext \/ UNCHANGED actorVars) => ActorInv'
  <1> SUFFICES ASSUME ActorInv, Remote!ApifyNext \/ UNCHANGED actorVars PROVE ActorInv'
    OBVIOUS
  <1> USE Bounds DEF ActorInv, Remote!Finals, Remote!Ended
  <1>1. CASE Remote!Platform
    <2>1. ActorTyped' /\ Rounds' /\ CancelledInTime'
      BY <1>1 DEF Remote!Platform, ActorTyped, Rounds, CancelledInTime, Statuses
    <2>2. ReadIsTrue' /\ Remote!InTimeIsRead' /\ Remote!OutcomeIsTold'
      BY <1>1 DEF Remote!Platform, ActorTyped, ReadIsTrue, Remote!InTimeIsRead,
         Remote!OutcomeIsTold
    <2> QED
      BY <2>1, <2>2
  <1>2. CASE Remote!Start
    BY <1>2 DEF Remote!Start, ActorTyped, Rounds, CancelledInTime, ReadIsTrue, Statuses,
        Remote!InTimeIsRead, Remote!OutcomeIsTold
  <1>3. CASE Remote!Check
    BY <1>3 DEF Remote!Check, Remote!End, ActorTyped, Rounds, CancelledInTime, ReadIsTrue, Statuses,
        Remote!InTimeIsRead, Remote!OutcomeIsTold
  <1>4. CASE Remote!Looks
    BY <1>4 DEF Remote!Looks, ActorTyped, Rounds, CancelledInTime, ReadIsTrue, Statuses,
        Remote!InTimeIsRead, Remote!OutcomeIsTold
  <1>5. CASE Remote!Reply
    BY <1>5 DEF Remote!Reply, Remote!End, ActorTyped, Rounds, CancelledInTime, ReadIsTrue, Statuses,
        Remote!InTimeIsRead, Remote!OutcomeIsTold
  <1>6. CASE Remote!Throw
    BY <1>6 DEF Remote!Throw, Remote!End, ActorTyped, Rounds, CancelledInTime, ReadIsTrue, Statuses,
        Remote!InTimeIsRead, Remote!OutcomeIsTold
  <1>7. CASE Remote!Wake
    BY <1>7 DEF Remote!Wake, Remote!Rested, ActorTyped, Rounds, CancelledInTime, ReadIsTrue, Statuses,
        Remote!InTimeIsRead, Remote!OutcomeIsTold
  <1>8. CASE Remote!ApifyAbort
    BY <1>8 DEF Remote!ApifyAbort, ActorTyped, Rounds, CancelledInTime, ReadIsTrue, Statuses,
        Remote!InTimeIsRead, Remote!OutcomeIsTold
  <1>9. CASE Remote!Tick
    <2>1. now' = now + 1 /\ ~Remote!Due
          /\ UNCHANGED <<status, endedAt, how, at, since, read, deadline, cancelled, cancelledAt, outcome>>
      BY <1>9 DEF Remote!Tick
    <2> QED
      BY <2>1 DEF Remote!Due, Remote!Rested, ActorTyped, Rounds, CancelledInTime, ReadIsTrue,
         Statuses, Remote!InTimeIsRead, Remote!OutcomeIsTold
  <1>10. CASE UNCHANGED actorVars
    BY <1>10 DEF actorVars, ActorTyped, Rounds, CancelledInTime, ReadIsTrue, Statuses,
        Remote!InTimeIsRead, Remote!OutcomeIsTold
  <1> QED
    BY <1>1, <1>2, <1>3, <1>4, <1>5, <1>6, <1>7, <1>8, <1>9, <1>10
    DEF Remote!ApifyNext, Remote!ApifyOwn

LEMMA ActorIsDecided == ActorInv => Remote!PollIsDecided
  BY Bounds
  DEF ActorInv, ActorTyped, Rounds, CancelledInTime, Remote!PollIsDecided, Remote!EndsInTime

-----------------------------------------------------------------------------
(***************************************************************************)
(* Reading through an MCP tool (source-mcp/src/mcp-source.ts).             *)
(***************************************************************************)
\* The client is open from the connection to its close; one call is made in
\* between, and an error is an answer's that was never one of items.
ToolInv ==
    /\ step \in {"start", "connect", "schema", "answer", "items", "yielded", "close", "end"}
    /\ step \in {"start", "connect", "end"} => ~open
    /\ calls \in {0, 1} /\ (step \in {"start", "connect", "schema"} => calls = 0)
    /\ step \in {"start", "connect", "schema", "answer"} => yielded = 0
    /\ error # "none" => yielded = 0 /\ step \in {"close", "end"}

LEMMA ToolInitial == Remote!Init => ToolInv
  BY DEF Remote!Init, ToolInv

LEMMA ToolStep == ToolInv /\ (Remote!Next \/ UNCHANGED toolVars) => ToolInv'
  <1> SUFFICES ASSUME ToolInv, Remote!Next \/ UNCHANGED toolVars PROVE ToolInv'
    OBVIOUS
  <1>1. CASE Remote!Begin
    BY <1>1 DEF Remote!Begin, ToolInv
  <1>2. CASE Remote!Connect
    BY <1>2 DEF Remote!Connect, ToolInv
  <1>3. CASE Remote!ResolveSchema
    BY <1>3 DEF Remote!ResolveSchema, ToolInv
  <1>4. CASE Remote!Answer
    BY <1>4 DEF Remote!Answer, ToolInv
  <1>5. CASE Remote!NextItem
    BY <1>5 DEF Remote!NextItem, ToolInv
  <1>6. CASE Remote!Resume
    BY <1>6 DEF Remote!Resume, ToolInv
  <1>7. CASE Remote!Leave
    BY <1>7 DEF Remote!Leave, ToolInv
  <1>8. CASE Remote!Close
    BY <1>8 DEF Remote!Close, ToolInv
  <1>9. CASE Remote!Abort
    BY <1>9 DEF Remote!Abort, ToolInv
  <1>10. CASE UNCHANGED toolVars
    BY <1>10 DEF toolVars, ToolInv
  <1> QED
    BY <1>1, <1>2, <1>3, <1>4, <1>5, <1>6, <1>7, <1>8, <1>9, <1>10 DEF Remote!Next, Remote!Own

LEMMA ToolIsClosed == ToolInv => Remote!ClientIsClosed
  BY DEF ToolInv, Remote!ClientIsClosed

-----------------------------------------------------------------------------
(***************************************************************************)
(* What the sources make of what the other side says (source-api/src/      *)
(* errors.ts, source-apify/src/apify-source.ts, source-mcp/src).           *)
(***************************************************************************)
Causes == {"denied", "outage", "wrong", "unreachable", "garbled", "busy"}
Endings == {"not started", "missing", "late", "cancelled", "FAILED", "TIMED-OUT", "ABORTED"}
Replies == {"timeout", "timed out", "refused", "denied", "isError", "no content"}

HeardWell ==
    \/ \E c \in Causes : \E s \in Remote!Statuses(c), after \in Remote!Headers :
            heard = [source |-> "api", cause |-> c, status |-> s, after |-> after]
    \/ \E s \in Endings : heard = [source |-> "apify", status |-> s]
    \/ \E s \in Replies : heard = [source |-> "mcp", status |-> s]
    \/ \E d \in Remote!Declared : heard = [source |-> "schema", declared |-> d]

AnswersInv == HeardWell /\ Remote!FailuresAreClassed /\ Remote!DerivedIsDeclared

LEMMA StatusesAreClassed ==
    ASSUME NEW c \in Causes, NEW s \in Remote!Statuses(c)
    PROVE  LET type == IF s \in {0, 200} THEN "network" ELSE Remote!httpStatusToSourceError(s)
           IN  /\ c \in {"busy", "outage", "unreachable"} => type \in Remote!Retryable
               /\ c \in {"denied", "wrong"} => type \notin Remote!Retryable
               /\ c = "busy" => s = 429
  <1>1. CASE c = "denied"
    BY <1>1 DEF Remote!Statuses, Remote!httpStatusToSourceError, Remote!Retryable
  <1>2. CASE c = "outage"
    BY <1>2 DEF Remote!Statuses, Remote!httpStatusToSourceError, Remote!Retryable
  <1>3. CASE c = "wrong"
    BY <1>3 DEF Remote!Statuses, Remote!httpStatusToSourceError, Remote!Retryable
  <1>4. CASE c = "unreachable"
    BY <1>4 DEF Remote!Statuses, Remote!httpStatusToSourceError, Remote!Retryable
  <1>5. CASE c = "garbled"
    BY <1>5
  <1>6. CASE c = "busy"
    BY <1>6 DEF Remote!Statuses, Remote!httpStatusToSourceError, Remote!Retryable
  <1> QED
    BY <1>1, <1>2, <1>3, <1>4, <1>5, <1>6 DEF Causes

LEMMA WaitsAreTold ==
    ASSUME NEW h \in Remote!Headers, h.kind \in {"seconds", "date"}, h.n >= 0
    PROVE  Remote!parseRetryAfter(h) = h.n * (IF h.kind = "seconds" THEN Second ELSE 1)
  <1>1. h.n \in {-1, 0, 1, 2} /\ Second \in Nat
    BY Bounds DEF Remote!Headers, Remote!Silent
  <1>2. CASE h.kind = "seconds"
    BY <1>1, <1>2 DEF Remote!parseRetryAfter
  <1>3. CASE h.kind = "date"
    BY <1>1, <1>3 DEF Remote!parseRetryAfter
  <1> QED
    BY <1>2, <1>3

\* A derived type is the declared one, or takes everything.
LEMMA TypesAreDerived ==
    ASSUME NEW type \in Remote!Types, NEW v
    PROVE  /\ Remote!DeriveType(type) = IF type \in {"array", "null", "object"} THEN "unknown" ELSE type
           /\ Remote!TakesType(type, v) => Remote!TakesType(Remote!DeriveType(type), v)
  <1>1. Remote!DeriveType(type) = IF type \in {"array", "null", "object"} THEN "unknown" ELSE type
    BY DEF Remote!DeriveType, Remote!Types
  <1>2. Remote!TakesType("unknown", v)
    BY DEF Remote!TakesType
  <1> QED
    BY <1>1, <1>2

LEMMA SchemasAreDerived ==
    ASSUME NEW d \in Remote!Declared, NEW v \in Remote!Leaves \cup Remote!Objects
    PROVE  LET s == Remote!deriveZodFromJsonSchema(d)
               flat == d.type = "object"
                           => ~d.ref /\ {d.a, d.b} \cap {"object", "array", "null"} = {}
           IN  /\ Remote!Takes(d, v) /\ (d.type = "object" => d.required = {"a", "b"})
                    => Remote!Takes(s, v)
               /\ Remote!Takes(s, v) /\ flat /\ s.type # "unknown" => Remote!Takes(d, v)
  <1> DEFINE s == Remote!deriveZodFromJsonSchema(d)
  <1>1. Remote!TakesType("unknown", v)
    BY DEF Remote!TakesType
  <1>2. CASE d.type # "object"
    <2>1. s = [type |-> Remote!DeriveType(d.type)] /\ d.type \in Remote!Types
      BY <1>2 DEF Remote!deriveZodFromJsonSchema, Remote!Declared
    <2>2. s.type # "object" /\ s.type \in {d.type, "unknown"}
      BY <1>2, <2>1, TypesAreDerived
    <2> QED
      BY <1>1, <1>2, <2>2 DEF Remote!Takes
  <1>3. CASE d.type = "object" /\ (d.ref \/ "object" \in {d.a, d.b})
    <2>1. s = [type |-> "unknown"]
      BY <1>3 DEF Remote!deriveZodFromJsonSchema
    <2> QED
      BY <1>1, <2>1 DEF Remote!Takes
  <1>4. CASE d.type = "object" /\ ~(d.ref \/ "object" \in {d.a, d.b})
    <2>1. d \in [type : {"object"}, a : Remote!Types, b : Remote!Types, ref : BOOLEAN,
                 required : SUBSET {"a", "b"}]
      BY <1>4 DEF Remote!Declared
    <2>2. /\ s.type = "object" /\ s["a"] = Remote!DeriveType(d["a"])
          /\ s["b"] = Remote!DeriveType(d["b"])
          /\ s.required = {k \in {"a", "b"} : Remote!DeriveType(d[k]) # "unknown"}
      BY <1>4 DEF Remote!deriveZodFromJsonSchema
    <2>3. ASSUME NEW k \in {"a", "b"}
          PROVE  /\ d[k] \in Remote!Types /\ s[k] = Remote!DeriveType(d[k])
                 /\ s[k] = IF d[k] \in {"array", "null", "object"} THEN "unknown" ELSE d[k]
                 /\ Remote!TakesType(d[k], v[k]) => Remote!TakesType(s[k], v[k])
                 /\ k \in s.required <=> s[k] # "unknown"
      BY <2>1, <2>2, TypesAreDerived
    <2> HIDE DEF s
    <2>4. ASSUME Remote!Takes(d, v), d.required = {"a", "b"} PROVE Remote!Takes(s, v)
      BY <1>4, <2>2, <2>3, <2>4 DEF Remote!Takes
    <2>5. ASSUME Remote!Takes(s, v), {d.a, d.b} \cap {"object", "array", "null"} = {}
          PROVE  Remote!Takes(d, v)
      <3>1. \A k \in {"a", "b"} : s[k] = d[k] /\ s[k] # "unknown"
        BY <2>1, <2>3, <2>5 DEF Remote!Types
      <3> QED
        BY <1>4, <2>2, <2>3, <2>5, <3>1 DEF Remote!Takes
    <2> QED
      BY <1>4, <2>4, <2>5 DEF s
  <1> QED
    BY <1>2, <1>3, <1>4

LEMMA AnswersInitial == Remote!AnswerInit => AnswersInv
  <1> SUFFICES ASSUME Remote!AnswerInit PROVE AnswersInv
    OBVIOUS
  <1>1. HeardWell
    BY Zenon DEF Remote!AnswerInit, HeardWell, Causes, Endings, Replies
  <1>2. \A source : ~Remote!Heard(source)
    BY DEF Remote!AnswerInit, Remote!Heard
  <1> QED
    BY <1>1, <1>2 DEF AnswersInv, Remote!FailuresAreClassed, Remote!DerivedIsDeclared

LEMMA AnswersStep == AnswersInv /\ (Remote!AnswerNext \/ UNCHANGED answerVars) => AnswersInv'
  <1> SUFFICES ASSUME AnswersInv, Remote!AnswerNext \/ UNCHANGED answerVars PROVE AnswersInv'
    OBVIOUS
  <1>1. CASE Remote!AnswerNext
    <2>1. UNCHANGED heard /\ HeardWell'
      BY <1>1 DEF Remote!AnswerNext, AnswersInv, HeardWell
    <2>2. CASE heard.source = "api"
      <3>1. PICK c \in Causes : \E s \in Remote!Statuses(c), after \in Remote!Headers :
                heard = [source |-> "api", cause |-> c, status |-> s, after |-> after]
        BY <2>2 DEF AnswersInv, HeardWell
      <3>2. said' = Remote!ApiError(heard)
        BY <1>1, <2>2 DEF Remote!AnswerNext
      <3>3. heard.cause = c /\ heard.status \in Remote!Statuses(c) /\ heard.after \in Remote!Headers
        BY <3>1
      <3> QED
        BY <2>1, <2>2, <3>2, <3>3, StatusesAreClassed, WaitsAreTold
        DEF AnswersInv, Remote!FailuresAreClassed, Remote!DerivedIsDeclared, Remote!Heard, Remote!ApiError
    <2>3. CASE heard.source = "apify"
      <3>1. said' = Remote!ApifyError(heard) /\ heard.status \in Endings
        BY <1>1, <2>3 DEF Remote!AnswerNext, AnswersInv, HeardWell
      <3> QED
        BY <2>1, <2>3, <3>1
        DEF AnswersInv, Remote!FailuresAreClassed, Remote!DerivedIsDeclared, Remote!Heard, Remote!ApifyError,
            Remote!runStatusToSourceError, Endings, Remote!Retryable
    <2>4. CASE heard.source = "mcp"
      <3>1. said' = Remote!McpError(heard) /\ heard.status \in Replies
        BY <1>1, <2>4 DEF Remote!AnswerNext, AnswersInv, HeardWell
      <3> QED
        BY <2>1, <2>4, <3>1
        DEF AnswersInv, Remote!FailuresAreClassed, Remote!DerivedIsDeclared, Remote!Heard, Remote!McpError,
            Replies, Remote!Retryable
    <2>5. CASE heard.source = "schema"
      <3>1. said' = Remote!deriveZodFromJsonSchema(heard.declared) /\ heard.declared \in Remote!Declared
        BY <1>1, <2>5 DEF Remote!AnswerNext, AnswersInv, HeardWell
      <3> QED
        BY <2>1, <2>5, <3>1, SchemasAreDerived
        DEF AnswersInv, Remote!FailuresAreClassed, Remote!DerivedIsDeclared, Remote!Heard
    <2> QED
      BY <2>2, <2>3, <2>4, <2>5 DEF AnswersInv, HeardWell
  <1>2. CASE UNCHANGED answerVars
    BY <1>2 DEF answerVars, AnswersInv, HeardWell, Remote!FailuresAreClassed, Remote!DerivedIsDeclared,
       Remote!Heard
  <1> QED
    BY <1>1, <1>2

-----------------------------------------------------------------------------
(***************************************************************************)
(* A collection that is read page by page.                                 *)
(***************************************************************************)

\* How many rows of S there are up to r.
Place(S, r) == Cardinality({q \in S : q <= r})

LEMMA Places ==
    ASSUME NEW S \in SUBSET Nat, IsFiniteSet(S)
    PROVE  /\ \A r \in Int : Place(S, r) \in Nat /\ Place(S, r) <= Cardinality(S)
           /\ \A r, q \in Int : r <= q => Place(S, r) <= Place(S, q)
           /\ \A r \in Int, q \in S : r < q => Place(S, r) < Place(S, q)
           /\ \A r \in S : Place(S, r) > 0
  <1>0. \A x \in S : x \in Int
    OBVIOUS
  <1>1. ASSUME NEW r \in Int
        PROVE  /\ IsFiniteSet({q \in S : q <= r}) /\ Place(S, r) \in Nat
               /\ Place(S, r) <= Cardinality(S)
    <2>1. {q \in S : q <= r} \in SUBSET S
      OBVIOUS
    <2>2. IsFiniteSet({q \in S : q <= r}) /\ Cardinality({q \in S : q <= r}) <= Cardinality(S)
      BY <2>1, FS_Subset
    <2> QED
      BY <2>2, FS_CardinalityType DEF Place
  <1>2. ASSUME NEW r \in Int, NEW q \in Int, r <= q
        PROVE  /\ Place(S, r) <= Place(S, q)
               /\ q \in S /\ r < q => Place(S, r) # Place(S, q)
    <2>0. \A x \in S : x <= r => x <= q
      BY <1>0, <1>2
    <2>1. {x \in S : x <= r} \in SUBSET {x \in S : x <= q}
      BY <2>0, Zenon
    <2>2. /\ Place(S, r) <= Place(S, q)
          /\ Place(S, q) = Place(S, r) => {x \in S : x <= q} = {x \in S : x <= r}
      BY <2>1, <1>1, FS_Subset DEF Place
    <2> QED
      BY <2>2
  <1>3. ASSUME NEW r \in S PROVE Place(S, r) > 0
    <2>1. r \in Int /\ r \in {q \in S : q <= r}
      BY <1>0
    <2>2. Place(S, r) \in Nat /\ IsFiniteSet({q \in S : q <= r})
      BY <2>1, <1>1
    <2>3. Place(S, r) # 0
      BY <2>1, <2>2, FS_EmptySet DEF Place
    <2> QED
      BY <2>2, <2>3
  <1>4. \A r \in Int : Place(S, r) \in Nat /\ Place(S, r) <= Cardinality(S)
    BY <1>1
  <1>5. \A r, q \in Int : r <= q => Place(S, r) <= Place(S, q)
    BY <1>2
  <1>6. \A r \in Int, q \in S : r < q => Place(S, r) < Place(S, q)
    <2> TAKE r \in Int, q \in S
    <2> HAVE r < q
    <2>1. q \in Int /\ r <= q
      BY <1>0
    <2>2. Place(S, r) <= Place(S, q) /\ Place(S, r) # Place(S, q)
      BY <1>2, <2>1
    <2>3. Place(S, r) \in Nat /\ Place(S, q) \in Nat
      BY <2>1, <1>1
    <2> QED
      BY <2>2, <2>3
  <1> QED
    BY <1>3, <1>4, <1>5, <1>6

\* Rows that come move a row on, rows that go move it back.
LEMMA PlacesMove ==
    ASSUME NEW T \in SUBSET Nat, IsFiniteSet(T), NEW S \in SUBSET T, NEW r \in Int
    PROVE  Place(S, r) \in Nat /\ Place(T, r) \in Nat /\ Place(S, r) <= Place(T, r)
  <1>1. IsFiniteSet(S) /\ S \in SUBSET Nat
    BY FS_Subset
  <1>2. {q \in S : q <= r} \in SUBSET {q \in T : q <= r}
    OBVIOUS
  <1>3. {q \in T : q <= r} \in SUBSET T
    OBVIOUS
  <1>4. IsFiniteSet({q \in T : q <= r})
    BY <1>3, FS_Subset
  <1>5. Cardinality({q \in S : q <= r}) <= Cardinality({q \in T : q <= r})
    BY <1>2, <1>4, FS_Subset
  <1> QED
    BY <1>1, <1>5, Places DEF Place

\* A set of numbers in order: each stands at its place.
InPlace(S, s) ==
    /\ s \in Seq(S) /\ Len(s) = Cardinality(S)
    /\ \A k \in 1 .. Len(s) : Place(S, s[k]) = k

\* There are as many places as rows, and no two rows share one.
LEMMA EveryPlaceIsTaken ==
    ASSUME NEW S \in SUBSET Nat, IsFiniteSet(S), NEW n \in 1 .. Cardinality(S)
    PROVE  \E r \in S : Place(S, r) = n
  <1> DEFINE f == [r \in S |-> Place(S, r)]
             D == 1 .. Cardinality(S)
  <1>1. Cardinality(S) \in Nat
    BY FS_CardinalityType
  <1>2. IsFiniteSet(D) /\ Cardinality(D) = Cardinality(S)
    BY <1>1, FS_Interval
  <1>3. ASSUME NEW r \in S PROVE f[r] \in D
    <2>1. Place(S, r) \in Nat /\ Place(S, r) <= Cardinality(S) /\ Place(S, r) > 0
      BY Places
    <2> QED
      BY <2>1, <1>1
  <1>4. ASSUME NEW r \in S, NEW q \in S, f[r] = f[q] PROVE r = q
    <2>1. r \in Int /\ q \in Int /\ Place(S, r) = Place(S, q)
      BY <1>4
    <2>2. (r < q => Place(S, r) < Place(S, q)) /\ (q < r => Place(S, q) < Place(S, r))
      BY <2>1, Places
    <2>3. Place(S, r) \in Nat /\ Place(S, q) \in Nat
      BY <2>1, Places
    <2> QED
      BY <2>1, <2>2, <2>3
  <1>5. f \in Injection(S, D)
    <2>1. f \in [S -> D]
      BY <1>3
    <2> HIDE DEF f
    <2> QED
      BY <2>1, <1>4 DEF Injection, IsInjective
  <1>6. f \in Surjection(S, D)
    BY <1>5, <1>2, FS_Injection
  <1> HIDE DEF D
  <1>7. \A y \in D : \E r \in S : f[r] = y
    BY <1>6 DEF Surjection
  <1> QED
    BY <1>7 DEF D

LEMMA OneInPlace ==
    ASSUME NEW S \in SUBSET Nat, IsFiniteSet(S), NEW s, InPlace(S, s)
    PROVE  \A r \in S : Place(S, r) \in 1 .. Len(s) /\ s[Place(S, r)] = r
  <1>0. \A x \in S : x \in Int
    OBVIOUS
  <1> TAKE r \in S
  <1> DEFINE p == Place(S, r)
  <1>1. Cardinality(S) \in Nat
    BY FS_CardinalityType
  <1>2. p \in Nat /\ p > 0 /\ p <= Cardinality(S)
    BY Places
  <1>3. p \in 1 .. Len(s) /\ s[p] \in S /\ Place(S, s[p]) = p
    BY <1>1, <1>2 DEF InPlace
  <1> DEFINE q == s[p]
  <1>4. q \in S /\ Place(S, q) = p /\ q \in Int /\ r \in Int
    <2>1. q \in S /\ Place(S, q) = p
      BY <1>3
    <2> QED
      BY <2>1, <1>0
  <1> HIDE DEF q
  <1>5. (r < q => Place(S, r) < Place(S, q)) /\ (q < r => Place(S, q) < Place(S, r))
    BY <1>4, Places
  <1>6. q = r
    BY <1>2, <1>4, <1>5
  <1> QED
    BY <1>3, <1>6 DEF q

LEMMA SameCount == \A S : Pages!Cardinality(S) = Cardinality(S)
  BY DEF Pages!Cardinality, Cardinality

LEMMA RowsAreFinite ==
    ASSUME NEW S \in SUBSET Rows
    PROVE  S \in SUBSET Nat /\ IsFiniteSet(S) /\ \A x \in S : x \in Int
  <1>1. IsFiniteSet(Rows) /\ \A x \in Rows : x \in Nat
    BY InboundAssumption
  <1>2. IsFiniteSet(S)
    BY <1>1, FS_Subset
  <1> QED
    BY <1>1, <1>2

\* What the server answers from is in place.
LEMMA OrdersAreInPlace ==
    ASSUME rows \in SUBSET Rows, NEW s \in Pages!Orders
    PROVE  InPlace(rows, s)
  <1>1. rows \in SUBSET Nat /\ IsFiniteSet(rows) /\ \A x \in rows : x \in Int
    BY RowsAreFinite
  <1>2. Cardinality(rows) \in Nat
    BY <1>1, FS_CardinalityType
  <1> DEFINE D == 1 .. Cardinality(rows)
  <1>3. CASE kind # "store"
    <2>1. s = [n \in D |-> Pages!Nth(n)]
      BY <1>3, SameCount DEF Pages!Orders
    <2>2. ASSUME NEW n \in D PROVE s[n] \in rows /\ Place(rows, s[n]) = n
      <3>1. \E r \in rows : Place(rows, r) = n
        BY <1>1, EveryPlaceIsTaken
      <3>2. Pages!Nth(n) = CHOOSE r \in rows : Place(rows, r) = n
        BY SameCount DEF Pages!Nth, Place
      <3> QED
        BY <2>1, <3>1, <3>2
    <2>3. s \in Seq(rows) /\ Len(s) = Cardinality(rows)
      BY <1>2, <2>1, <2>2
    <2> QED
      BY <2>2, <2>3 DEF InPlace
  <1>4. CASE kind = "store"
    <2>1. /\ s \in [D -> rows] /\ \A i, j \in D : i # j => s[i] # s[j]
          /\ \A i, j \in D : Pages!Before(s[i], s[j]) => i < j
      BY <1>4, SameCount DEF Pages!Orders, Pages!SetToSeqs
    <2>2. \A i, j \in D : s[i] < s[j] => i < j
      <3> SUFFICES ASSUME NEW i \in D, NEW j \in D, s[i] < s[j] PROVE i < j
        OBVIOUS
      <3>1. s[i] \in Rows /\ s[j] \in Rows
        BY <2>1
      <3>2. Pages!Before(s[i], s[j])
        BY <1>4, <3>1 DEF Pages!Before, MCCreatedAt
      <3> QED
        BY <2>1, <3>2
    <2>3. \A i \in D : s[i] \in Int /\ s[i] \in rows
      BY <1>1, <2>1
    <2>4. \A i, j \in D : i <= j <=> s[i] <= s[j]
      <3> SUFFICES ASSUME NEW i \in D, NEW j \in D PROVE i <= j <=> s[i] <= s[j]
        OBVIOUS
      <3>1. /\ s[i] < s[j] => i < j
            /\ s[j] < s[i] => j < i
            /\ i # j => s[i] # s[j]
        BY <2>1, <2>2
      <3>2. s[i] \in Int /\ s[j] \in Int /\ i \in Int /\ j \in Int
        BY <2>3
      <3> QED
        BY <3>1, <3>2
    <2>5. IsFiniteSet(D) /\ Cardinality(D) = Cardinality(rows)
      BY <1>2, FS_Interval
    <2>6. \A r \in rows : \E i \in D : s[i] = r
      <3>1. s \in Injection(D, rows)
        BY <2>1 DEF Injection, IsInjective
      <3>2. s \in Surjection(D, rows)
        BY <3>1, <2>5, <1>1, FS_Injection
      <3> QED
        BY <3>2 DEF Surjection
    <2>7. ASSUME NEW n \in D PROVE Place(rows, s[n]) = n
      <3> DEFINE I == 1 .. n
                 Q == {q \in rows : q <= s[n]}
                 g == [j \in I |-> s[j]]
      <3>1. \A j \in I : j \in D /\ s[j] \in Q
        BY <2>3, <2>4, <1>2
      <3>2. \A q \in Q : \E j \in I : s[j] = q
        <4> TAKE q \in Q
        <4>1. PICK j \in D : s[j] = q
          BY <2>6
        <4>2. j <= n
          BY <4>1, <2>4
        <4> QED
          BY <4>1, <4>2
      <3>3. g \in [I -> Q]
        BY <3>1
      <3>4. \A i, j \in I : g[i] = g[j] => i = j
        BY <3>1, <2>1
      <3>5. \A q \in Q : \E j \in I : g[j] = q
        BY <3>2
      <3>6. IsFiniteSet(I) /\ Cardinality(I) = n
        BY <1>2, FS_Interval
      <3> HIDE DEF I, g, Q
      <3>7. ExistsBijection(I, Q)
        <4>1. g \in Injection(I, Q)
          BY <3>3, <3>4 DEF Injection, IsInjective
        <4>2. g \in Surjection(I, Q)
          BY <3>3, <3>5 DEF Surjection
        <4> QED
          BY <4>1, <4>2 DEF ExistsBijection, Bijection
      <3>8. Cardinality(Q) = n
        BY <3>6, <3>7, FS_Bijection
      <3> QED
        BY <3>8 DEF Q, Place
    <2>8. s \in Seq(rows) /\ Len(s) = Cardinality(rows)
      BY <1>2, <2>1
    <2> QED
      BY <2>7, <2>8 DEF InPlace
  <1> QED
    BY <1>3, <1>4

-----------------------------------------------------------------------------
\* A page of at most n rows, those after the first from.
IsPage(S, page, from, n) ==
    /\ page \in Seq(S) /\ Len(page) <= n
    /\ \A k \in 1 .. Len(page) : Place(S, page[k]) = from + k
    /\ \A r \in S : from < Place(S, r) /\ Place(S, r) <= from + Len(page)
            => \E k \in 1 .. Len(page) : page[k] = r
    /\ Len(page) < n => \A r \in S : Place(S, r) <= from + Len(page)

LEMMA SmallerOfTwo ==
    ASSUME NEW a \in Int, NEW b \in Int
    PROVE  Pages!Min({a, b}) = IF a <= b THEN a ELSE b
  <1>1. \E x \in {a, b} : \A y \in {a, b} : x =< y
    OBVIOUS
  <1>2. /\ Pages!Min({a, b}) \in {a, b}
        /\ \A y \in {a, b} : Pages!Min({a, b}) =< y
    BY <1>1 DEF Pages!Min
  <1> QED
    BY <1>2

LEMMA SliceIsPage ==
    ASSUME NEW S \in SUBSET Nat, IsFiniteSet(S), NEW s, InPlace(S, s),
           NEW from \in Nat, NEW n \in Nat
    PROVE  IsPage(S, Pages!Slice(s, from, n), from, n)
  <1> DEFINE last == IF from + n <= Len(s) THEN from + n ELSE Len(s)
             page == SubSeq(s, from + 1, last)
             len == IF from <= last THEN last - from ELSE 0
  <1>1. s \in Seq(S) /\ Len(s) \in Nat /\ Len(s) = Cardinality(S)
    BY DEF InPlace
  <1>2. last \in Nat /\ len \in Nat /\ len <= n /\ from + len <= from + n
        /\ (len > 0 => from + len <= Len(s))
        /\ (len < n => from + len >= Len(s))
    BY <1>1
  <1>3. Pages!Slice(s, from, n) = page
    <2>1. Pages!Min({from + n, Len(s)}) = last
      BY <1>1, SmallerOfTwo
    <2> QED
      BY <2>1 DEF Pages!Slice
  <1>4. page = [k \in 1 .. len |-> s[from + k]]
    <2>1. page = [k \in 1 .. (1 + last - (from + 1)) |-> s[k + (from + 1) - 1]]
      BY DEF SubSeq
    <2>2. 1 .. (1 + last - (from + 1)) = 1 .. len
      BY <1>2
    <2>3. \A k \in 1 .. len : k + (from + 1) - 1 = from + k
      BY <1>2
    <2> HIDE DEF len, last, page
    <2> QED
      BY <2>1, <2>2, <2>3
  <1> HIDE DEF last, page, len
  <1>5. \A k \in 1 .. len : from + k \in 1 .. Len(s) /\ page[k] = s[from + k]
    BY <1>1, <1>2, <1>4
  <1>6. page \in Seq(S) /\ Len(page) = len
    BY <1>1, <1>2, <1>4, <1>5
  <1>7. \A k \in 1 .. Len(page) : Place(S, page[k]) = from + k
    BY <1>5, <1>6 DEF InPlace
  <1>8. ASSUME NEW r \in S
        PROVE  /\ Place(S, r) \in Nat /\ Place(S, r) <= Len(s)
               /\ from < Place(S, r) /\ Place(S, r) <= from + len
                    => \E k \in 1 .. len : page[k] = r
    <2>1. Place(S, r) \in 1 .. Len(s) /\ s[Place(S, r)] = r
      BY OneInPlace
    <2>2. ASSUME from < Place(S, r), Place(S, r) <= from + len
          PROVE  \E k \in 1 .. len : page[k] = r
      <3>1. Place(S, r) - from \in 1 .. len /\ from + (Place(S, r) - from) = Place(S, r)
        BY <2>1, <2>2, <1>1, <1>2
      <3>2. page[Place(S, r) - from] = r
        BY <3>1, <2>1, <1>5
      <3> QED
        BY <3>1, <3>2
    <2> QED
      BY <2>1, <2>2, <1>1
  <1>9. len < n => \A r \in S : Place(S, r) <= from + len
    BY <1>1, <1>2, <1>8
  <1> QED
    BY <1>2, <1>3, <1>6, <1>7, <1>8, <1>9 DEF IsPage

\* Rows of a page are in order, and none of them was on an earlier page.
LEMMA PageAscends ==
    ASSUME NEW S \in SUBSET Nat, IsFiniteSet(S), NEW page, NEW from \in Nat, NEW n \in Nat,
           IsPage(S, page, from, n)
    PROVE  /\ \A k \in 1 .. Len(page) : page[k] \in S
           /\ \A j, k \in 1 .. Len(page) : j < k => page[j] < page[k]
           /\ \A k \in 1 .. Len(page), q \in Int :
                    Place(S, q) <= from => q < page[k]
           /\ \A k \in 1 .. Len(page), q \in S :
                    Place(S, q) > from + Len(page) => page[k] < q
  <1>1. \A k \in 1 .. Len(page) : page[k] \in S /\ Place(S, page[k]) = from + k
    BY DEF IsPage
  <1>2. Len(page) \in Nat /\ \A x \in S : x \in Int
    BY DEF IsPage
  <1>3. ASSUME NEW p \in Int, NEW q \in Int, Place(S, p) < Place(S, q)
        PROVE  p < q
    <2>1. q <= p => Place(S, q) <= Place(S, p)
      BY Places
    <2>2. Place(S, p) \in Nat /\ Place(S, q) \in Nat
      BY Places
    <2> QED
      BY <1>3, <2>1, <2>2
  <1>4. ASSUME NEW j \in 1 .. Len(page), NEW k \in 1 .. Len(page), j < k
        PROVE  page[j] < page[k]
    <2>1. Place(S, page[j]) < Place(S, page[k])
      BY <1>1, <1>2, <1>4
    <2>2. page[j] \in Int /\ page[k] \in Int
      BY <1>1, <1>2
    <2> QED
      BY <2>1, <2>2, <1>3
  <1>5. ASSUME NEW k \in 1 .. Len(page), NEW q \in Int, Place(S, q) <= from
        PROVE  q < page[k]
    <2>1. page[k] \in Int /\ Place(S, page[k]) = from + k
      BY <1>1, <1>2
    <2>2. Place(S, q) \in Nat
      BY Places
    <2>3. Place(S, q) < Place(S, page[k])
      BY <1>2, <1>5, <2>1, <2>2
    <2> QED
      BY <2>1, <2>3, <1>3
  <1>6. ASSUME NEW k \in 1 .. Len(page), NEW q \in S, Place(S, q) > from + Len(page)
        PROVE  page[k] < q
    <2>1. page[k] \in Int /\ Place(S, page[k]) = from + k /\ q \in Int
      BY <1>1, <1>2
    <2>2. Place(S, q) \in Nat
      BY <2>1, Places
    <2>3. Place(S, page[k]) < Place(S, q)
      BY <1>2, <1>6, <2>1, <2>2
    <2> QED
      BY <2>1, <2>3, <1>3
  <1> QED
    BY <1>1, <1>4, <1>5, <1>6

-----------------------------------------------------------------------------
Ascends(s) == \A j, k \in 1 .. Len(s) : j < k => s[j] < s[k]

\* What is taken of a page: the rows that the schema lets pass, in its order.
LEMMA ParsedIsThePage ==
    ASSUME NEW S, IsFiniteSet(S), NEW page \in Seq(S), Ascends(page),
           NEW good \in Pages!Parsed(page)
    PROVE  /\ good \in Seq(S) /\ Ascends(good)
           /\ \A x : x \in ToSet(good) <=> x \in ToSet(page) /\ x \notin Bad
  <1> DEFINE G == ToSet(page) \ Bad
             D == 1 .. Cardinality(G)
  <1>1. G \in SUBSET S
    BY DEF ToSet
  <1>2. IsFiniteSet(G) /\ Cardinality(G) \in Nat
    BY <1>1, FS_Subset, FS_CardinalityType
  <1>3. Pages!ToSet(page) = ToSet(page)
    BY DEF Pages!ToSet, ToSet
  <1>4. good \in Pages!SetToSeqs(G)
    BY <1>3 DEF Pages!Parsed
  <1>5. /\ good \in [D -> G] /\ \A i, j \in D : i # j => good[i] # good[j]
        /\ \A i, j \in D : i < j =>
                \E k, l \in DOMAIN page : k < l /\ page[k] = good[i] /\ page[l] = good[j]
    <2>1. good \in [D -> G] /\ \A i, j \in D : i # j => good[i] # good[j]
      BY <1>4, SameCount DEF Pages!SetToSeqs
    <2>2. \A i, j \in DOMAIN good : i < j =>
                \E k, l \in DOMAIN page : k < l /\ page[k] = good[i] /\ page[l] = good[j]
      BY DEF Pages!Parsed
    <2>3. DOMAIN good = D
      BY <2>1
    <2> HIDE DEF D, G
    <2> QED
      BY <2>1, <2>2, <2>3
  <1>6. IsFiniteSet(D) /\ Cardinality(D) = Cardinality(G)
    BY <1>2, FS_Interval
  <1>7. \A x \in G : \E i \in D : good[i] = x
    <2> HIDE DEF D, G
    <2>1. good \in Injection(D, G)
      BY <1>5 DEF Injection, IsInjective
    <2>2. good \in Surjection(D, G)
      BY <2>1, <1>6, <1>2, FS_Injection
    <2> QED
      BY <2>2 DEF Surjection
  <1>8. good \in Seq(G) /\ Len(good) = Cardinality(G) /\ DOMAIN good = D
    <2>1. good \in [1 .. Cardinality(G) -> G] /\ Cardinality(G) \in Nat
      BY <1>2, <1>5
    <2> HIDE DEF G
    <2> QED
      BY <2>1
  <1>9. good \in Seq(S)
    BY <1>1, <1>8
  <1>10. \A x : x \in ToSet(good) <=> x \in G
    <2> HIDE DEF D, G
    <2>1. \A x \in G : \E i \in DOMAIN good : good[i] = x
      BY <1>7, <1>8
    <2>2. \A i \in DOMAIN good : good[i] \in G
      BY <1>5, <1>8
    <2> QED
      BY <2>1, <2>2 DEF ToSet
  <1>11. Ascends(good)
    <2> SUFFICES ASSUME NEW i \in D, NEW j \in D, i < j PROVE good[i] < good[j]
      BY <1>8 DEF Ascends
    <2>1. PICK k \in DOMAIN page, l \in DOMAIN page :
                k < l /\ page[k] = good[i] /\ page[l] = good[j]
      BY <1>5
    <2> QED
      BY <2>1 DEF Ascends
  <1> QED
    BY <1>9, <1>10, <1>11

LEMMA TakenIsAppended ==
    ASSUME NEW S \in SUBSET Rows, NEW old \in Seq(Rows), NEW page \in Seq(S), Ascends(page),
           NEW good \in Pages!Parsed(page)
    PROVE  /\ old \o good \in Seq(Rows)
           /\ \A x : x \in ToSet(old \o good)
                    <=> x \in ToSet(old) \/ (x \in ToSet(page) /\ x \notin Bad)
           /\ Ascends(old) /\ (\A x \in ToSet(old), y \in ToSet(page) : x < y)
                    => Ascends(old \o good)
  <1>1. /\ good \in Seq(S) /\ Ascends(good)
        /\ \A x : x \in ToSet(good) <=> x \in ToSet(page) /\ x \notin Bad
    <2>1. IsFiniteSet(S)
      BY RowsAreFinite
    <2> QED
      BY <2>1, ParsedIsThePage
  <1>2. good \in Seq(Rows)
    BY <1>1
  <1> DEFINE new == old \o good
  <1>3. /\ new \in Seq(Rows) /\ Len(new) = Len(old) + Len(good)
        /\ \A k \in 1 .. Len(new) : new[k] = IF k <= Len(old) THEN old[k]
                                            ELSE good[k - Len(old)]
    BY <1>2
  <1>4. Len(old) \in Nat /\ Len(good) \in Nat /\ DOMAIN new = 1 .. Len(new)
    BY <1>2, <1>3
  <1> HIDE DEF new
  <1>5. \A x : x \in ToSet(new) <=> x \in ToSet(old) \/ x \in ToSet(good)
    <2>1. ASSUME NEW x \in ToSet(new) PROVE x \in ToSet(old) \/ x \in ToSet(good)
      <3>1. PICK k \in 1 .. Len(new) : new[k] = x
        BY <1>3 DEF ToSet
      <3>2. CASE k <= Len(old)
        BY <3>1, <3>2, <1>3, <1>4 DEF ToSet
      <3>3. CASE ~(k <= Len(old))
        <4>1. k - Len(old) \in 1 .. Len(good)
          BY <3>1, <3>3, <1>3, <1>4
        <4>2. good[k - Len(old)] = x
          BY <3>1, <3>3, <1>3
        <4> QED
          BY <4>1, <4>2, <1>2 DEF ToSet
      <3> QED
        BY <3>2, <3>3
    <2>2. ASSUME NEW x \in ToSet(old) PROVE x \in ToSet(new)
      <3>1. PICK k \in 1 .. Len(old) : old[k] = x
        BY DEF ToSet
      <3>2. k \in 1 .. Len(new) /\ new[k] = x
        BY <3>1, <1>3, <1>4
      <3> QED
        BY <3>2, <1>4 DEF ToSet
    <2>3. ASSUME NEW x \in ToSet(good) PROVE x \in ToSet(new)
      <3>1. PICK k \in 1 .. Len(good) : good[k] = x
        BY <1>2 DEF ToSet
      <3>2. Len(old) + k \in 1 .. Len(new) /\ new[Len(old) + k] = x
        <4>1. Len(old) + k \in 1 .. Len(new) /\ ~(Len(old) + k <= Len(old))
              /\ (Len(old) + k) - Len(old) = k
          BY <1>3, <1>4
        <4> QED
          BY <4>1, <3>1, <1>3
      <3> QED
        BY <3>2, <1>4 DEF ToSet
    <2> QED
      BY <2>1, <2>2, <2>3
  <1>6. ASSUME Ascends(old), \A x \in ToSet(old), y \in ToSet(page) : x < y
        PROVE  Ascends(new)
    <2> SUFFICES ASSUME NEW j \in 1 .. Len(new), NEW k \in 1 .. Len(new), j < k
                 PROVE  new[j] < new[k]
      BY DEF Ascends
    <2>1. CASE k <= Len(old)
      <3>1. j \in 1 .. Len(old) /\ k \in 1 .. Len(old)
        BY <2>1, <1>4
      <3> QED
        BY <3>1, <2>1, <1>3, <1>6 DEF Ascends
    <2>2. CASE ~(j <= Len(old))
      <3>1. j - Len(old) \in 1 .. Len(good) /\ k - Len(old) \in 1 .. Len(good)
            /\ j - Len(old) < k - Len(old) /\ ~(k <= Len(old))
        BY <2>2, <1>3, <1>4
      <3> QED
        BY <3>1, <2>2, <1>1, <1>3 DEF Ascends
    <2>3. CASE j <= Len(old) /\ ~(k <= Len(old))
      <3>1. j \in 1 .. Len(old) /\ k - Len(old) \in 1 .. Len(good)
        BY <2>3, <1>3, <1>4
      <3>2. old[j] \in ToSet(old) /\ good[k - Len(old)] \in ToSet(good)
        BY <3>1, <1>2 DEF ToSet
      <3>3. old[j] < good[k - Len(old)]
        BY <3>2, <1>1, <1>6
      <3> QED
        BY <3>3, <2>3, <1>3
    <2> QED
      BY <2>1, <2>2, <2>3
  <1> QED
    BY <1>1, <1>3, <1>5, <1>6 DEF new

-----------------------------------------------------------------------------
\* How many rows the pages before have counted, and how many the next may have.
Offset == CASE kind = "page" -> (position - 1) * size
            [] kind = "none" -> 0
            [] kind \notin {"page", "none"} -> position
Behind == IF kind = "cursor" THEN Place(rows, position) ELSE Offset
Limit == IF kind = "none" THEN Cardinality(rows) ELSE size

PagesTyped ==
    /\ kind \in MCKinds /\ (wrapped => kind = "cursor") /\ (kind = "store" => verb = "fetch")
    /\ size \in Nat /\ (kind # "store" => size # 0) /\ rows \in SUBSET Rows /\ stable \in SUBSET rows
    /\ position \in Int /\ (kind # "cursor" => position \in Nat)
    /\ kind = "page" => position > 0
    /\ atoms \in Seq(Rows) /\ pc \in {"ask", "asked", "end"}
    /\ pc # "end" => result = "none" /\ ~refused
    /\ refused => result # "ok"

\* What has been read.
Yielded ==
    /\ ~inserted => stable = rows
    /\ \A x \in ToSet(atoms) : x \notin Bad /\ (~deleted => x \in rows)
    /\ ~inserted \/ kind = "cursor" => Ascends(atoms)

\* While the reading lasts: what is behind has been read, what has been read is
\* before what is to come.
Ongoing ==
    /\ kind = "cursor" =>
        /\ \A x \in ToSet(atoms) : x <= position
        /\ \A r \in stable \ Bad : r <= position => r \in ToSet(atoms)
    /\ kind # "cursor" /\ ~inserted =>
        \A x \in ToSet(atoms), r \in rows : Place(rows, r) > Offset => x < r
    /\ kind # "cursor" /\ ~deleted =>
        \A r \in stable \ Bad : Place(rows, r) <= Offset => r \in ToSet(atoms)

ReadThrough ==
    result # "err" /\ ~refused /\ ~stopped /\ (kind = "cursor" => wrapped)
        /\ (deleted => kind = "cursor")
        => \A r \in stable \ Bad : r \in ToSet(atoms)

PagesInv ==
    /\ PagesTyped /\ Yielded
    /\ pc # "end" => Ongoing
    /\ pc = "end" => ReadThrough

LEMMA OffsetIsNat == PagesTyped /\ kind # "cursor" => Offset \in Nat
  BY DEF PagesTyped, Offset, MCKinds

LEMMA PagesInit == Pages!Init => PagesInv
  <1> SUFFICES ASSUME Pages!Init PROVE PagesInv
    OBVIOUS
  <1>1. ToSet(atoms) = {} /\ atoms = <<>>
    BY DEF Pages!Init, ToSet
  <1>2. size \in Nat /\ (kind # "store" => size # 0)
    BY InboundAssumption DEF Pages!Init, Pages!ValidConfig
  <1>3. PagesTyped
    BY <1>2 DEF Pages!Init, PagesTyped
  <1>4. Yielded
    BY <1>1 DEF Pages!Init, Yielded, Ascends
  <1>5. kind # "cursor" => Offset = 0
    BY <1>2 DEF Pages!Init, Offset, MCKinds
  <1>6. \A r \in rows : r \in Int /\ r >= 0 /\ Place(rows, r) \in Nat /\ Place(rows, r) > 0
    <2>1. rows \in SUBSET Nat /\ IsFiniteSet(rows) /\ \A x \in rows : x \in Int
      BY <1>3, RowsAreFinite DEF PagesTyped
    <2> QED
      BY <2>1, Places
  <1>7. kind = "cursor" => position = -1
    BY DEF Pages!Init
  <1>8. Ongoing
    BY <1>1, <1>3, <1>5, <1>6, <1>7 DEF Ongoing, PagesTyped
  <1> QED
    BY <1>3, <1>4, <1>8 DEF PagesInv, Pages!Init

\* The answer to a request is the page behind which nothing is passed over.
LEMMA AnswerIsPage ==
    ASSUME PagesInv, NEW s \in Pages!Orders
    PROVE  /\ rows \in SUBSET Nat /\ IsFiniteSet(rows) /\ \A x \in rows : x \in Int
           /\ Behind \in Nat /\ Limit \in Nat /\ InPlace(rows, s)
           /\ IsPage(rows, Pages!Page(s), Behind, Limit)
  <1>1. PagesTyped
    BY DEF PagesInv
  <1>2. rows \in SUBSET Nat /\ IsFiniteSet(rows) /\ \A x \in rows : x \in Int
    BY <1>1, RowsAreFinite DEF PagesTyped
  <1>3. InPlace(rows, s)
    BY <1>1, OrdersAreInPlace DEF PagesTyped
  <1>4. Behind \in Nat
    <2>1. kind = "cursor" => Place(rows, position) \in Nat
      BY <1>1, <1>2, Places DEF PagesTyped
    <2> QED
      BY <2>1, <1>1, OffsetIsNat DEF Behind
  <1>5. Limit \in Nat
    BY <1>1, <1>2, FS_CardinalityType DEF Limit, PagesTyped
  <1>6. CASE kind # "none"
    <2>1. Pages!Page(s) = Pages!Slice(s, Behind, size)
      <3>1. kind = "cursor" =>
                Pages!Page(s) = Pages!Slice(s, Pages!Cardinality({r \in rows : r <= position}), size)
        BY DEF Pages!Page
      <3>2. kind = "page" => Pages!Page(s) = Pages!Slice(s, (position - 1) * size, size)
        BY DEF Pages!Page
      <3>3. kind \in {"offset", "dataset", "store"} => Pages!Page(s) = Pages!Slice(s, position, size)
        BY DEF Pages!Page
      <3>4. kind \in {"cursor", "page", "offset", "dataset", "store"}
        BY <1>1, <1>6 DEF PagesTyped, MCKinds
      <3>5. Pages!Cardinality({r \in rows : r <= position}) = Place(rows, position)
        BY SameCount DEF Place
      <3> QED
        BY <3>1, <3>2, <3>3, <3>4, <3>5 DEF Behind, Offset
    <2>2. Limit = size /\ size \in Nat
      BY <1>1, <1>6 DEF Limit, PagesTyped
    <2> QED
      BY <2>1, <2>2, <1>2, <1>3, <1>4, <1>5, SliceIsPage
  <1>7. CASE kind = "none"
    <2>1. Pages!Page(s) = s /\ Behind = 0 /\ Limit = Cardinality(rows)
      BY <1>7 DEF Pages!Page, Behind, Offset, Limit
    <2>2. s \in Seq(rows) /\ Len(s) = Cardinality(rows)
          /\ \A k \in 1 .. Len(s) : Place(rows, s[k]) = k
      BY <1>3 DEF InPlace
    <2>3. \A r \in rows : Place(rows, r) \in 1 .. Len(s) /\ s[Place(rows, r)] = r
      BY <1>2, <1>3, OneInPlace
    <2>4. Len(s) \in Nat
      BY <2>2
    <2>5. IsPage(rows, s, 0, Cardinality(rows))
      BY <2>2, <2>3, <2>4 DEF IsPage
    <2> QED
      BY <2>1, <2>5, <1>2, <1>3, <1>4, <1>5
  <1> QED
    BY <1>6, <1>7

\* The last page has the last row.
LEMMA LastPageIsLast ==
    ASSUME PagesInv, NEW s \in Pages!Orders, kind = "cursor" => wrapped,
           Pages!Advance(Pages!Page(s), Pages!More(s, Pages!Page(s))).done
    PROVE  \A r \in rows : Place(rows, r) <= Behind + Len(Pages!Page(s))
  <1> DEFINE page == Pages!Page(s)
  <1>1. /\ rows \in SUBSET Nat /\ IsFiniteSet(rows) /\ \A x \in rows : x \in Int
        /\ Behind \in Nat /\ Limit \in Nat /\ InPlace(rows, s)
        /\ IsPage(rows, page, Behind, Limit)
    BY AnswerIsPage
  <1>2. /\ page \in Seq(rows) /\ Len(page) \in Nat
        /\ \A k \in 1 .. Len(page) : page[k] \in rows /\ Place(rows, page[k]) = Behind + k
        /\ Len(page) < Limit => \A r \in rows : Place(rows, r) <= Behind + Len(page)
        /\ Len(page) <= Limit
    BY <1>1 DEF IsPage
  <1>3. PagesTyped
    BY DEF PagesInv
  <1>4. \A r \in rows : Place(rows, r) \in Nat /\ Place(rows, r) <= Cardinality(rows)
    BY <1>1, Places
  <1>5. Cardinality(rows) \in Nat /\ size \in Nat /\ (kind # "store" => size # 0)
    BY <1>1, <1>3, FS_CardinalityType DEF PagesTyped
  <1>6. Len(s) = Cardinality(rows) /\ s \in Seq(rows)
    BY <1>1 DEF InPlace
  <1>7. CASE kind = "cursor"
    <2>1. ~Pages!More(s, page)
      BY <1>7 DEF Pages!Advance
    <2>2. page = <<>> \/ \A r \in Pages!ToSet(s) : ~(r > Pages!Last(page))
      BY <1>7, <2>1 DEF Pages!More
    <2>3. CASE page = <<>>
      <3>1. Len(page) = 0 /\ Limit = size /\ size \in Nat /\ size # 0
        BY <2>3, <1>5, <1>7 DEF Limit
      <3> QED
        BY <3>1, <1>2
    <2>4. CASE page # <<>> /\ \A r \in Pages!ToSet(s) : ~(r > Pages!Last(page))
      <3> DEFINE l == page[Len(page)]
      <3>1. Len(page) \in 1 .. Len(page)
        BY <2>4, <1>2
      <3>2. l \in rows /\ Place(rows, l) = Behind + Len(page) /\ l = Pages!Last(page)
        BY <3>1, <1>2 DEF Pages!Last
      <3>3. \A r \in rows : r \in Pages!ToSet(s)
        <4>1. \A r \in rows : Place(rows, r) \in 1 .. Len(s) /\ s[Place(rows, r)] = r
          BY <1>1, OneInPlace
        <4>2. DOMAIN s = 1 .. Len(s)
          BY <1>6
        <4> QED
          BY <4>1, <4>2 DEF Pages!ToSet
      <3> HIDE DEF l, page
      <3>4. ASSUME NEW r \in rows PROVE Place(rows, r) <= Place(rows, l)
        <4>1. r \in Int /\ l \in Int /\ ~(r > l)
          BY <3>2, <3>3, <2>4, <1>1
        <4>2. r <= l
          BY <4>1
        <4> QED
          BY <4>1, <4>2, <1>1, Places
      <3>5. \A r \in rows : Place(rows, r) <= Behind + Len(page)
        BY <3>2, <3>4
      <3> QED
        BY <3>5 DEF page
    <2> QED
      BY <2>2, <2>3, <2>4
  <1>8. CASE kind = "none"
    <2>1. page = s /\ Behind = 0
      BY <1>8 DEF Pages!Page, Behind, Offset
    <2> QED
      BY <2>1, <1>4, <1>5, <1>6
  <1>9. CASE kind = "store"
    <2>1. ~(Len(s) > position + size)
      BY <1>9 DEF Pages!Advance, Pages!More
    <2>2. Behind = position /\ Limit = size
      BY <1>9 DEF Behind, Offset, Limit
    <2>3. CASE Len(page) < size
      BY <2>2, <2>3, <1>2
    <2>4. CASE ~(Len(page) < size)
      <3>1. Cardinality(rows) <= Behind + Len(page)
        BY <2>1, <2>2, <2>4, <1>1, <1>2, <1>5, <1>6
      <3> QED
        BY <3>1, <1>1, <1>2, <1>4, <1>5
    <2> QED
      BY <2>3, <2>4
  <1>10. CASE kind \in {"offset", "dataset", "page"}
    <2>1. Len(page) < size /\ Limit = size
      BY <1>10 DEF Pages!Advance, Limit
    <2> QED
      BY <2>1, <1>2
  <1> QED
    BY <1>3, <1>7, <1>8, <1>9, <1>10 DEF PagesTyped, MCKinds

\* A page that is not the last one moves the reading on by what it has.
LEMMA PageMovesOn ==
    ASSUME PagesInv, NEW s \in Pages!Orders,
           ~Pages!Advance(Pages!Page(s), Pages!More(s, Pages!Page(s))).done,
           UNCHANGED <<kind, size>>,
           position' = Pages!Advance(Pages!Page(s), Pages!More(s, Pages!Page(s))).position
    PROVE  /\ kind = "cursor" => /\ Len(Pages!Page(s)) > 0
                                 /\ position' = Pages!Page(s)[Len(Pages!Page(s))]
           /\ kind # "cursor" => Offset' = Behind + Len(Pages!Page(s)) /\ position' \in Nat
           /\ kind = "page" => position' > 0
           /\ kind # "none"
  <1> DEFINE page == Pages!Page(s)
  <1>1. Len(page) \in Nat /\ Len(page) <= Limit /\ page \in Seq(rows)
    BY AnswerIsPage DEF IsPage
  <1>2. PagesTyped
    BY DEF PagesInv
  <1>3. CASE kind = "cursor"
    <2>1. Pages!More(s, page) /\ position' = Pages!Last(page)
      BY <1>3 DEF Pages!Advance
    <2>2. page # <<>>
      BY <1>3, <2>1 DEF Pages!More
    <2> HIDE DEF page
    <2>3. Len(page) > 0
      BY <2>2, <1>1
    <2>4. position' = page[Len(page)]
      BY <2>1 DEF Pages!Last
    <2> QED
      BY <1>3, <2>3, <2>4 DEF page
  <1>4. kind # "none"
    BY DEF Pages!Advance
  <1>5. CASE kind = "page"
    <2>1. ~(Len(page) < size) /\ position' = position + 1 /\ Limit = size
      BY <1>5 DEF Pages!Advance, Limit
    <2>2. size \in Nat /\ position \in Nat /\ position > 0
      BY <1>2, <1>5 DEF PagesTyped
    <2>3. Len(page) = size
      BY <2>1, <2>2, <1>1
    <2>4. Offset' = (position' - 1) * size /\ Behind = (position - 1) * size
      BY <1>5 DEF Offset, Behind
    <2>5. (position' - 1) * size = (position - 1) * size + size
      BY <2>1, <2>2
    <2> QED
      BY <2>1, <2>2, <2>3, <2>4, <2>5, <1>5
  <1>6. CASE kind \in {"offset", "dataset", "store"}
    <2>1. position' = position + Len(page)
      BY <1>6 DEF Pages!Advance
    <2>2. Offset' = position' /\ Behind = position
      BY <1>6 DEF Offset, Behind
    <2>3. position \in Nat
      BY <1>2, <1>6 DEF PagesTyped
    <2> QED
      BY <2>1, <2>2, <2>3, <1>1, <1>6
  <1> QED
    BY <1>2, <1>3, <1>4, <1>5, <1>6 DEF PagesTyped, MCKinds

LEMMA AnswerStep == PagesInv /\ Pages!Answer => PagesInv'
  <1> SUFFICES ASSUME PagesInv, Pages!Answer PROVE PagesInv'
    OBVIOUS
  <1>1. /\ pc = "asked" /\ result = "none" /\ ~refused /\ Ongoing /\ Yielded /\ PagesTyped
        /\ UNCHANGED <<kind, verb, wrapped, size, rows, stable, inserted, deleted, refused, stopped>>
    BY DEF Pages!Answer, Pages!config, PagesInv, PagesTyped
  <1>2. PICK s \in Pages!Orders :
            LET page == Pages!Page(s)
                next == Pages!Advance(page, Pages!More(s, page))
            IN  CASE kind = "store" /\ Pages!ToSet(page) \cap Bad # {} ->
                        Pages!Ends("err") /\ UNCHANGED <<atoms, position>>
                  [] kind = "dataset" /\ stopped /\ page # <<>> ->
                        /\ \E n \in 0 .. Len(page) - 1 : Pages!Takes(SubSeq(page, 1, n))
                        /\ Pages!Ends("ok") /\ UNCHANGED position
                  [] OTHER ->
                        /\ Pages!Takes(page)
                        /\ position' = next.position
                        /\ IF next.done THEN Pages!Ends("ok") ELSE pc' = "ask" /\ UNCHANGED result
    BY DEF Pages!Answer
  <1> DEFINE page == Pages!Page(s)
             next == Pages!Advance(page, Pages!More(s, page))
  <1>3. /\ rows \in SUBSET Nat /\ IsFiniteSet(rows) /\ \A x \in rows : x \in Int
        /\ Behind \in Nat /\ Limit \in Nat /\ InPlace(rows, s)
        /\ IsPage(rows, page, Behind, Limit)
    BY AnswerIsPage
  <1>4. /\ page \in Seq(rows) /\ Len(page) \in Nat /\ DOMAIN page = 1 .. Len(page)
        /\ \A r \in rows : Behind < Place(rows, r) /\ Place(rows, r) <= Behind + Len(page)
                => r \in ToSet(page)
        /\ \A k \in 1 .. Len(page) : page[k] \in rows /\ Place(rows, page[k]) = Behind + k
    BY <1>3 DEF IsPage, ToSet
  <1>5. /\ \A j, k \in 1 .. Len(page) : j < k => page[j] < page[k]
        /\ \A k \in 1 .. Len(page), q \in Int : Place(rows, q) <= Behind => q < page[k]
        /\ \A k \in 1 .. Len(page), q \in rows :
                Place(rows, q) > Behind + Len(page) => page[k] < q
    BY <1>3, PageAscends
  <1>6. Ascends(page)
    BY <1>5 DEF Ascends
  <1>7. \A x \in ToSet(atoms) : x \in Int
    <2>1. \A x \in ToSet(atoms) : x \in Rows
      BY <1>1 DEF PagesTyped, ToSet
    <2>2. \A x \in Rows : x \in Int
      BY RowsAreFinite
    <2> QED
      BY <2>1, <2>2
  <1>8. ASSUME ~inserted \/ kind = "cursor", NEW x \in ToSet(atoms), NEW y \in ToSet(page)
        PROVE  x < y
    <2>1. PICK k \in 1 .. Len(page) : page[k] = y
      BY <1>4 DEF ToSet
    <2>2. y \in rows /\ Place(rows, y) = Behind + k /\ y \in Int /\ x \in Int
      BY <2>1, <1>3, <1>4, <1>7
    <2>3. CASE kind = "cursor"
      <3>1. x <= position /\ position \in Int /\ Place(rows, position) = Behind
        BY <2>3, <1>1 DEF Ongoing, Behind, PagesTyped
      <3>2. position < y
        <4>1. Place(rows, position) <= Behind
          BY <3>1, <1>3
        <4> QED
          BY <4>1, <2>1, <3>1, <1>5
      <3> QED
        BY <3>1, <3>2, <2>2
    <2>4. CASE kind # "cursor"
      <3>1. Offset = Behind
        BY <2>4 DEF Behind
      <3>2. Place(rows, y) > Offset
        BY <3>1, <2>1, <2>2, <1>3, <1>4
      <3> QED
        BY <3>2, <2>2, <2>4, <1>1, <1>8 DEF Ongoing
    <2> QED
      BY <2>3, <2>4
  \* A page, or a part of it, is taken.
  <1>9. ASSUME NEW piece \in Seq(rows), Ascends(piece), ToSet(piece) \subseteq ToSet(page),
               Pages!Takes(piece)
        PROVE  /\ atoms' \in Seq(Rows) /\ Yielded'
               /\ \A x : x \in ToSet(atoms)'
                    <=> x \in ToSet(atoms) \/ (x \in ToSet(piece) /\ x \notin Bad)
    <2>1. PICK good \in Pages!Parsed(piece) : atoms' = atoms \o good
      BY <1>9 DEF Pages!Takes
    <2>2. atoms \in Seq(Rows) /\ rows \in SUBSET Rows
      BY <1>1 DEF PagesTyped
    <2>3. /\ atoms \o good \in Seq(Rows)
          /\ \A x : x \in ToSet(atoms \o good)
                    <=> x \in ToSet(atoms) \/ (x \in ToSet(piece) /\ x \notin Bad)
          /\ Ascends(atoms) /\ (\A x \in ToSet(atoms), y \in ToSet(piece) : x < y)
                    => Ascends(atoms \o good)
      BY <2>2, <1>9, TakenIsAppended
    <2>4. ToSet(atoms)' = ToSet(atoms \o good) /\ Ascends(atoms)' = Ascends(atoms \o good)
      BY <2>1 DEF ToSet, Ascends
    <2>5. \A x : x \in ToSet(atoms)'
                <=> x \in ToSet(atoms) \/ (x \in ToSet(piece) /\ x \notin Bad)
      BY <2>3, <2>4
    <2>6. (~inserted \/ kind = "cursor" => Ascends(atoms))'
      <3>1. ASSUME ~inserted \/ kind = "cursor" PROVE Ascends(atoms \o good)
        <4>1. \A x \in ToSet(atoms), y \in ToSet(piece) : x < y
          BY <3>1, <1>8, <1>9
        <4> QED
          BY <4>1, <3>1, <2>3, <1>1 DEF Yielded
      <3> QED
        BY <3>1, <2>4, <1>1
    <2>7. \A x \in ToSet(piece) : x \in rows
      BY <1>9 DEF ToSet
    <2>8. \A x \in ToSet(atoms)' : x \notin Bad /\ (~deleted => x \in rows)
      BY <2>5, <2>7, <1>1 DEF Yielded
    <2> QED
      BY <2>1, <2>3, <2>5, <2>6, <2>8, <1>1 DEF Yielded
  <1>10. CASE kind = "store" /\ Pages!ToSet(page) \cap Bad # {}
    <2>1. Pages!Ends("err") /\ UNCHANGED <<atoms, position>>
      BY <1>2, <1>10
    <2>2. pc' = "end" /\ result' = "err"
      BY <1>1, <1>10, <2>1 DEF Pages!Ends, PagesTyped
    <2>3. PagesTyped'
      BY <1>1, <2>1, <2>2 DEF PagesTyped
    <2>4. Yielded'
      BY <1>1, <2>1 DEF Yielded
    <2> QED
      BY <2>2, <2>3, <2>4 DEF PagesInv, ReadThrough
  <1>11. CASE kind = "dataset" /\ stopped /\ page # <<>>
    <2>1. PICK n \in 0 .. Len(page) - 1 : Pages!Takes(SubSeq(page, 1, n))
      BY <1>2, <1>11
    <2>2. Pages!Ends("ok") /\ UNCHANGED position
      BY <1>2, <1>11
    <2> DEFINE begun == SubSeq(page, 1, n)
    <2>3. /\ begun \in Seq(rows) /\ Len(begun) = n
          /\ \A k \in 1 .. n : begun[k] = page[k] /\ k \in 1 .. Len(page)
      BY <1>4
    <2> HIDE DEF begun
    <2>4. Ascends(begun)
      BY <2>3, <1>6 DEF Ascends
    <2>5. ToSet(begun) \subseteq ToSet(page)
      <3>1. \A k \in DOMAIN begun : k \in DOMAIN page /\ begun[k] = page[k]
        BY <2>3, <1>4
      <3> QED
        BY <3>1 DEF ToSet
    <2>6. atoms' \in Seq(Rows) /\ Yielded'
      BY <2>1, <2>3, <2>4, <2>5, <1>9 DEF begun
    <2>7. pc' = "end" /\ result' \in {"ok", "none"}
      BY <2>2 DEF Pages!Ends
    <2>8. PagesTyped'
      BY <1>1, <2>2, <2>6, <2>7 DEF PagesTyped
    <2> QED
      BY <1>1, <1>11, <2>6, <2>7, <2>8 DEF PagesInv, ReadThrough
  <1>12. CASE /\ ~(kind = "store" /\ Pages!ToSet(page) \cap Bad # {})
              /\ ~(kind = "dataset" /\ stopped /\ page # <<>>)
    <2>1. /\ Pages!Takes(page) /\ position' = next.position
          /\ IF next.done THEN Pages!Ends("ok") ELSE pc' = "ask" /\ UNCHANGED result
      BY <1>2, <1>12
    <2>2. /\ atoms' \in Seq(Rows) /\ Yielded'
          /\ \A x : x \in ToSet(atoms)'
                <=> x \in ToSet(atoms) \/ (x \in ToSet(page) /\ x \notin Bad)
      BY <2>1, <1>4, <1>6, <1>9
    <2>3. \A r \in rows : Place(rows, r) \in Nat
      BY <1>3, Places
    <2>4. ASSUME NEW r \in stable \ Bad, Place(rows, r) <= Behind + Len(page),
                 deleted => kind = "cursor"
          PROVE  r \in ToSet(atoms)'
      <3>1. r \in rows /\ r \in Int /\ r \notin Bad
        BY <1>1, <1>3 DEF PagesTyped
      <3>2. CASE Place(rows, r) > Behind
        BY <2>2, <2>3, <2>4, <3>1, <3>2, <1>3, <1>4
      <3>3. CASE ~(Place(rows, r) > Behind)
        <4>1. Place(rows, r) <= Behind
          BY <3>1, <3>3, <2>3, <1>3
        <4>2. CASE kind = "cursor"
          <5>1. position \in Int /\ Behind = Place(rows, position)
            BY <4>2, <1>1 DEF PagesTyped, Behind
          <5>2. position < r => Place(rows, position) < Place(rows, r)
            BY <5>1, <3>1, <1>3, Places
          <5>3. r <= position
            BY <4>1, <5>1, <5>2, <3>1, <2>3, <1>3
          <5> QED
            BY <4>2, <5>3, <2>2, <1>1 DEF Ongoing
        <4>3. CASE kind # "cursor"
          <5>1. Offset = Behind
            BY <4>3 DEF Behind
          <5> QED
            BY <4>1, <4>3, <5>1, <2>2, <2>4, <1>1 DEF Ongoing
        <4> QED
          BY <4>2, <4>3
      <3> QED
        BY <3>2, <3>3
    <2>5. CASE next.done
      <3>1. pc' = "end" /\ result' \in {"ok", "none"}
        BY <2>1, <2>5 DEF Pages!Ends
      <3>2. position' \in Int /\ (kind # "cursor" => position' \in Nat) /\ (kind = "page" => position' > 0)
        <4>1. kind = "cursor" => next.position = position
          BY <2>5 DEF Pages!Advance
        <4>2. kind \in {"store", "offset", "dataset"} => next.position = position + Len(page)
          BY DEF Pages!Advance
        <4>3. kind = "page" => next.position = position + 1
          BY DEF Pages!Advance
        <4>4. kind = "none" => next.position = position
          BY DEF Pages!Advance
        <4> HIDE DEF next, page
        <4> QED
          BY <4>1, <4>2, <4>3, <4>4, <2>1, <1>1, <1>4 DEF PagesTyped, MCKinds
      <3>3. PagesTyped'
        BY <1>1, <2>2, <3>1, <3>2 DEF PagesTyped
      <3>4. ASSUME kind = "cursor" => wrapped, deleted => kind = "cursor", NEW r \in stable \ Bad
            PROVE  r \in ToSet(atoms)'
        <4>1. \A q \in rows : Place(rows, q) <= Behind + Len(page)
          BY <2>5, <3>4, LastPageIsLast
        <4>2. r \in rows
          BY <1>1 DEF PagesTyped
        <4> QED
          BY <4>1, <4>2, <2>4, <3>4
      <3>5. ReadThrough'
        BY <3>4, <1>1 DEF ReadThrough
      <3> QED
        BY <3>1, <3>3, <3>5, <2>2 DEF PagesInv
    <2>6. CASE ~next.done
      <3>1. pc' = "ask" /\ UNCHANGED result
        BY <2>1, <2>6
      <3>2. /\ kind = "cursor" => Len(page) > 0 /\ position' = page[Len(page)]
            /\ kind # "cursor" => Offset' = Behind + Len(page) /\ position' \in Nat
            /\ kind = "page" => position' > 0
            /\ kind # "none"
        BY <2>1, <2>6, <1>1, PageMovesOn
      <3>3. kind = "cursor" =>
                /\ Len(page) \in 1 .. Len(page) /\ position' \in rows /\ position' \in Int
                /\ Place(rows, position') = Behind + Len(page)
        <4> SUFFICES ASSUME kind = "cursor"
                     PROVE  /\ Len(page) \in 1 .. Len(page) /\ position' \in rows
                            /\ position' \in Int /\ Place(rows, position') = Behind + Len(page)
          OBVIOUS
        <4>1. Len(page) > 0 /\ position' = page[Len(page)]
          BY <3>2
        <4> HIDE DEF page, next
        <4>2. Len(page) \in 1 .. Len(page)
          BY <4>1, <1>4
        <4>3. position' \in rows /\ Place(rows, position') = Behind + Len(page)
          BY <4>1, <4>2, <1>4
        <4> QED
          BY <4>2, <4>3, <1>3
      <3>4. PagesTyped'
        BY <1>1, <2>2, <3>1, <3>2, <3>3 DEF PagesTyped
      <3>5. ASSUME kind = "cursor"
            PROVE  /\ \A x \in ToSet(atoms)' : x <= position'
                   /\ \A r \in stable \ Bad : r <= position' => r \in ToSet(atoms)'
        <4>1. \A y \in ToSet(page) : y <= position' /\ y \in Int
          <5> TAKE y \in ToSet(page)
          <5>1. PICK k \in 1 .. Len(page) : page[k] = y
            BY <1>4 DEF ToSet
          <5>2. y \in Int
            BY <5>1, <1>3, <1>4
          <5>3. CASE k = Len(page)
            BY <5>1, <5>2, <5>3, <3>2, <3>5
          <5>4. CASE k < Len(page)
            <6>1. page[k] < page[Len(page)]
              BY <5>4, <3>3, <3>5, <1>5
            <6> QED
              BY <6>1, <5>1, <5>2, <3>2, <3>3, <3>5
          <5>5. k = Len(page) \/ k < Len(page)
            <6>1. Len(page) \in Nat
              BY <1>4
            <6> HIDE DEF page, next
            <6> QED
              BY <6>1
          <5> QED
            BY <5>2, <5>3, <5>4, <5>5
        <4>2. position' \in ToSet(page)
          BY <3>2, <3>3, <3>5, <1>4 DEF ToSet
        <4>3. \A x \in ToSet(atoms) : x <= position'
          BY <4>2, <1>7, <1>8, <3>3, <3>5
        <4>4. ASSUME NEW r \in stable \ Bad, r <= position' PROVE r \in ToSet(atoms)'
          <5>1. r \in Int /\ position' \in Int
            BY <3>3, <3>5, <1>1, <1>3 DEF PagesTyped
          <5>2. Place(rows, r) <= Place(rows, position')
            BY <5>1, <4>4, <1>3, Places
          <5> QED
            BY <5>2, <3>3, <3>5, <2>4
        <4> QED
          BY <4>1, <4>3, <4>4, <2>2
      <3>6. ASSUME kind # "cursor", ~inserted, NEW x \in ToSet(atoms)', NEW r \in rows,
                   Place(rows, r) > Offset'
            PROVE  x < r
        <4>1. Place(rows, r) > Behind + Len(page) /\ Behind = Offset
          BY <3>2, <3>6 DEF Behind
        <4>2. Place(rows, r) > Offset
          BY <4>1, <2>3, <1>3, <1>4
        <4>3. CASE x \in ToSet(atoms)
          BY <4>2, <4>3, <3>6, <1>1 DEF Ongoing
        <4>4. CASE x \in ToSet(page)
          <5>1. PICK k \in 1 .. Len(page) : page[k] = x
            BY <4>4, <1>4 DEF ToSet
          <5> QED
            BY <5>1, <4>1, <1>5
        <4> QED
          BY <4>3, <4>4, <2>2, <3>6
      <3>7. ASSUME kind # "cursor", ~deleted, NEW r \in stable \ Bad,
                   Place(rows, r) <= Offset'
            PROVE  r \in ToSet(atoms)'
        BY <3>2, <3>7, <2>4
      <3>8. Ongoing'
        BY <3>5, <3>6, <3>7, <1>1 DEF Ongoing, Place
      <3> QED
        BY <3>1, <3>4, <3>8, <2>2 DEF PagesInv
    <2> QED
      BY <2>5, <2>6
  <1> QED
    BY <1>10, <1>11, <1>12

\* Rows come and go while a reading lasts.
LEMMA InsertStep == PagesInv /\ Pages!Insert => PagesInv'
  <1> SUFFICES ASSUME PagesInv, Pages!Insert PROVE PagesInv'
    OBVIOUS
  <1>1. /\ pc # "end" /\ Ongoing /\ Yielded /\ PagesTyped /\ inserted' = TRUE
        /\ UNCHANGED <<kind, verb, wrapped, size, stable, deleted, position, atoms, pc,
                       result, refused, stopped>>
    BY DEF Pages!Insert, Pages!config, PagesInv
  <1>2. PICK new \in Rows \ rows : rows' = rows \cup {new}
    BY DEF Pages!Insert
  <1>3. rows' \in SUBSET Rows /\ rows \in SUBSET rows' /\ stable \in SUBSET rows
    BY <1>1, <1>2 DEF PagesTyped
  <1>4. rows' \in SUBSET Nat /\ IsFiniteSet(rows') /\ \A x \in rows' : x \in Int
    BY <1>3, RowsAreFinite
  <1>5. \A r \in Int : /\ Place(rows, r) \in Nat /\ Place(rows', r) \in Nat
                       /\ Place(rows, r) <= Place(rows', r)
    BY <1>3, <1>4, PlacesMove
  <1>6. PagesTyped'
    BY <1>1, <1>3 DEF PagesTyped
  <1>7. ToSet(atoms)' = ToSet(atoms) /\ Offset' = Offset
    BY <1>1 DEF ToSet, Offset
  <1>8. Yielded'
    BY <1>1, <1>3, <1>7 DEF Yielded, Ascends
  <1>9. ASSUME kind # "cursor", ~deleted, NEW r \in stable \ Bad, Place(rows', r) <= Offset
        PROVE  r \in ToSet(atoms)
    <2>1. r \in Int
      BY <1>3, <1>4
    <2>2. Place(rows, r) <= Offset
      BY <2>1, <1>1, <1>5, <1>9, OffsetIsNat
    <2> QED
      BY <2>2, <1>1, <1>9 DEF Ongoing
  <1>10. Ongoing'
    BY <1>1, <1>7, <1>9 DEF Ongoing
  <1> QED
    BY <1>1, <1>6, <1>8, <1>10 DEF PagesInv

LEMMA DeleteStep == PagesInv /\ Pages!Delete => PagesInv'
  <1> SUFFICES ASSUME PagesInv, Pages!Delete PROVE PagesInv'
    OBVIOUS
  <1>1. /\ pc # "end" /\ Ongoing /\ Yielded /\ PagesTyped /\ deleted' = TRUE
        /\ UNCHANGED <<kind, verb, wrapped, size, inserted, position, atoms, pc,
                       result, refused, stopped>>
    BY DEF Pages!Delete, Pages!config, PagesInv
  <1>2. PICK gone \in rows : rows' = rows \ {gone} /\ stable' = stable \ {gone}
    BY DEF Pages!Delete
  <1>3. rows \in SUBSET Rows /\ rows' \in SUBSET rows /\ stable' \in SUBSET rows'
        /\ stable' \in SUBSET stable
    BY <1>1, <1>2 DEF PagesTyped
  <1>4. rows \in SUBSET Nat /\ IsFiniteSet(rows) /\ \A x \in rows : x \in Int
    BY <1>3, RowsAreFinite
  <1>5. \A r \in Int : /\ Place(rows, r) \in Nat /\ Place(rows', r) \in Nat
                       /\ Place(rows', r) <= Place(rows, r)
    BY <1>3, <1>4, PlacesMove
  <1>6. PagesTyped'
    BY <1>1, <1>3 DEF PagesTyped
  <1>7. ToSet(atoms)' = ToSet(atoms) /\ Offset' = Offset
    BY <1>1 DEF ToSet, Offset
  <1>8. Yielded'
    BY <1>1, <1>2, <1>7 DEF Yielded, Ascends
  <1>9. ASSUME kind # "cursor", ~inserted, NEW x \in ToSet(atoms), NEW r \in rows',
               Place(rows', r) > Offset
        PROVE  x < r
    <2>1. r \in rows /\ r \in Int
      BY <1>3, <1>4
    <2>2. Place(rows, r) > Offset
      BY <2>1, <1>1, <1>5, <1>9, OffsetIsNat
    <2> QED
      BY <2>1, <2>2, <1>1, <1>9 DEF Ongoing
  <1>10. Ongoing'
    BY <1>1, <1>3, <1>7, <1>9 DEF Ongoing
  <1> QED
    BY <1>1, <1>6, <1>8, <1>10 DEF PagesInv

LEMMA PagesStep == PagesInv /\ (Pages!Next \/ UNCHANGED pageVars) => PagesInv'
  <1> SUFFICES ASSUME PagesInv, Pages!Next \/ UNCHANGED pageVars PROVE PagesInv'
    OBVIOUS
  <1>1. CASE Pages!Ask
    <2>1. UNCHANGED <<kind, verb, wrapped, size, rows, stable, inserted, deleted, position,
                      atoms, refused, stopped>> /\ pc = "ask"
      BY <1>1 DEF Pages!Ask, Pages!config
    <2>2. \/ stopped /\ pc' = "end" /\ result' \in {"ok", "none"}
          \/ pc' = "asked" /\ UNCHANGED result
      BY <1>1 DEF Pages!Ask, Pages!Ends
    <2>3. PagesTyped' /\ Yielded'
      BY <2>1, <2>2 DEF PagesInv, PagesTyped, Yielded, Ascends, ToSet
    <2>4. Ongoing'
      BY <2>1 DEF PagesInv, Ongoing, Offset, ToSet
    <2>5. pc' = "end" => ReadThrough'
      BY <2>1, <2>2 DEF ReadThrough
    <2> QED
      BY <2>3, <2>4, <2>5 DEF PagesInv
  <1>2. CASE Pages!Refuse
    <2>1. /\ UNCHANGED <<kind, verb, wrapped, size, rows, stable, inserted, deleted, position,
                         atoms, stopped>>
          /\ pc' = "end" /\ refused' = TRUE /\ result' \in {"err", "none"}
      BY <1>2 DEF Pages!Refuse, Pages!config, Pages!Ends
    <2>2. PagesTyped' /\ Yielded'
      BY <2>1 DEF PagesInv, PagesTyped, Yielded, Ascends, ToSet
    <2> QED
      BY <2>1, <2>2 DEF PagesInv, ReadThrough
  <1>3. CASE Pages!Abort
    <2>1. UNCHANGED <<kind, verb, wrapped, size, rows, stable, inserted, deleted, position,
                      atoms, pc, result, refused>> /\ pc # "end"
      BY <1>3 DEF Pages!Abort, Pages!config
    <2>2. PagesTyped' /\ Yielded' /\ Ongoing'
      BY <2>1 DEF PagesInv, PagesTyped, Yielded, Ongoing, Offset, Ascends, ToSet
    <2> QED
      BY <2>1, <2>2 DEF PagesInv
  <1>4. CASE UNCHANGED pageVars
    BY <1>4 DEF pageVars, PagesInv, PagesTyped, Yielded, Ongoing, ReadThrough, Offset,
                Ascends, ToSet
  <1> QED
    BY <1>1, <1>2, <1>3, <1>4, AnswerStep, InsertStep, DeleteStep DEF Pages!Next, Pages!Read

LEMMA PagesInvIsRead == PagesInv => Pages!PagesAreRead
  <1> SUFFICES ASSUME PagesInv PROVE Pages!PagesAreRead
    OBVIOUS
  <1>1. PagesTyped /\ Yielded
    BY DEF PagesInv
  <1>2. atoms \in Seq(Rows) /\ DOMAIN atoms = 1 .. Len(atoms) /\ Len(atoms) \in Nat
    BY <1>1 DEF PagesTyped
  <1>3. \A k \in DOMAIN atoms : atoms[k] \in Rows /\ atoms[k] \in Int
    <2>1. \A x \in Rows : x \in Int
      BY RowsAreFinite
    <2> QED
      BY <2>1, <1>2
  <1>4. \A k, l \in Rows : Pages!Before(k, l) <=> k < l
    BY DEF Pages!Before, MCCreatedAt
  <1>5. ASSUME NEW r, r \in ToSet(atoms) PROVE Pages!Times(r) >= 1
    <2> DEFINE T == {k \in DOMAIN atoms : atoms[k] = r}
    <2>1. IsFiniteSet(DOMAIN atoms)
      BY <1>2, FS_Interval
    <2>2. IsFiniteSet(T) /\ T # {}
      <3>1. T \in SUBSET DOMAIN atoms
        OBVIOUS
      <3> QED
        BY <3>1, <2>1, <1>5, FS_Subset DEF ToSet
    <2>3. Cardinality(T) \in Nat /\ Cardinality(T) # 0
      BY <2>2, FS_CardinalityType, FS_EmptySet
    <2>4. Cardinality(T) >= 1
      BY <2>3
    <2> QED
      BY <2>4, SameCount DEF Pages!Times
  <1>6. ASSUME NEW r, Ascends(atoms) PROVE Pages!Times(r) <= 1
    <2> DEFINE T == {k \in DOMAIN atoms : atoms[k] = r}
    <2>1. \A j, k \in T : j = k
      <3> SUFFICES ASSUME NEW j \in T, NEW k \in T PROVE j = k
        OBVIOUS
      <3>1. (j < k => atoms[j] < atoms[k]) /\ (k < j => atoms[k] < atoms[j])
        BY <1>2, <1>6 DEF Ascends
      <3>2. atoms[j] = atoms[k] /\ atoms[j] \in Int /\ j \in Int /\ k \in Int
        BY <1>2, <1>3
      <3> QED
        BY <3>1, <3>2
    <2>2. T = {} \/ \E k : T = {k}
      BY <2>1
    <2>3. Cardinality(T) \in {0, 1}
      BY <2>2, FS_EmptySet, FS_Singleton
    <2> QED
      BY <2>3, SameCount DEF Pages!Times
  <1>7. Pages!StableRowsAreRead
    <2> SUFFICES ASSUME pc = "end", result # "err", ~refused, ~stopped, Pages!Walks,
                        NEW r \in stable \ Bad
                 PROVE  /\ Pages!Times(r) >= 1 \/ (deleted /\ kind # "cursor")
                        /\ Pages!Times(r) <= 1 \/ (inserted /\ kind # "cursor")
      BY DEF Pages!StableRowsAreRead
    <2>1. (deleted /\ kind # "cursor") \/ r \in ToSet(atoms)
      BY DEF PagesInv, ReadThrough, Pages!Walks
    <2>2. (inserted /\ kind # "cursor") \/ Ascends(atoms)
      BY <1>1 DEF Yielded
    <2> QED
      BY <2>1, <2>2, <1>5, <1>6
  <1>8. Pages!NothingInvented
    <2>1. ASSUME ~inserted \/ kind = "cursor", NEW j \in DOMAIN atoms, NEW k \in DOMAIN atoms,
                 j < k
          PROVE  Pages!Before(atoms[j], atoms[k])
      BY <2>1, <1>1, <1>2, <1>3, <1>4 DEF Yielded, Ascends
    <2>2. Pages!ToSet(atoms) \cap Bad = {}
      BY <1>1 DEF Yielded, Pages!ToSet, ToSet
    <2> QED
      BY <2>1, <2>2 DEF Pages!NothingInvented
  <1>9. Pages!OkIsWhole
    <2> SUFFICES ASSUME result = "ok", ~stopped, ~inserted, ~deleted, Pages!Walks
                 PROVE  Pages!ToSet(atoms) = rows \ Bad
      BY DEF Pages!OkIsWhole
    <2>1. pc = "end" /\ ~refused
      BY <1>1 DEF PagesTyped
    <2>2. stable = rows /\ \A x \in ToSet(atoms) : x \notin Bad /\ x \in rows
      BY <1>1 DEF Yielded
    <2>3. \A r \in stable \ Bad : r \in ToSet(atoms)
      BY <2>1 DEF PagesInv, ReadThrough, Pages!Walks
    <2>4. Pages!ToSet(atoms) = ToSet(atoms)
      BY DEF Pages!ToSet, ToSet
    <2> QED
      BY <2>2, <2>3, <2>4
  <1> QED
    BY <1>7, <1>8, <1>9 DEF Pages!PagesAreRead

-----------------------------------------------------------------------------
InboundInv == SignedInv /\ ActorInv /\ ToolInv /\ AnswersInv /\ PagesInv

LEMMA InboundInit == MCInit => InboundInv
  BY SignedInit, ActorInit, ToolInitial, AnswersInitial, PagesInit DEF MCInit, InboundInv

LEMMA InboundStep == InboundInv /\ [MCNext]_allVars => InboundInv'
  <1> SUFFICES ASSUME InboundInv, [MCNext]_allVars PROVE InboundInv'
    OBVIOUS
  <1>1. /\ Signed!Next \/ UNCHANGED signedVars
        /\ Remote!ApifyNext \/ UNCHANGED actorVars
        /\ Remote!Next \/ UNCHANGED toolVars
        /\ Remote!AnswerNext \/ UNCHANGED answerVars
        /\ Pages!Next \/ UNCHANGED pageVars
    BY DEF MCNext, allVars
  <1> QED
    BY <1>1, SignedStep, ActorStep, ToolStep, AnswersStep, PagesStep DEF InboundInv

\* For any rows, page sizes, secrets and times: a reading that ends well has read
\* each good row that was there all the time, and none twice where rows are not
\* counted (api-source.ts, dataset-paginate.ts, the stores' list); the wait for an
\* actor's run is decided in time (apify-source.ts 78-126); an MCP client is
\* closed whoever leaves (mcp-source.ts 138-240); a failure is classed by what the
\* other side said (errors.ts); and a signed request is accepted exactly when
\* it is whole, in time, and signed with a secret held (verify.ts, verify-webhook.ts).
THEOREM SourcesAreSoundAlways == MCSpec => []SourcesAreSound
  <1>1. InboundInv => SourcesAreSound
    BY PagesInvIsRead, ActorIsDecided, ToolIsClosed
    DEF InboundInv, SourcesAreSound, SignedInv, Answered, AnswersInv,
        Signed!SignedIsAccepted, Signed!VerifiersAgree
  <1> QED
    BY InboundInit, InboundStep, <1>1, PTL DEF MCSpec
=============================================================================
