-------------------------- MODULE DependencyProofs --------------------------
(***************************************************************************)
(* Theorems about what the stages of a run depend on: the two rate         *)
(* limiters, for any callers, limit, window and latency; the registry of   *)
(* teardowns and the designs it was chosen from; the resolvers of secrets; *)
(* memory: one key, its lists, and what crosses processes.                 *)
(***************************************************************************)
EXTENDS MCDependencies, FiniteSetTheorems, SequenceTheorems, WellFoundedInduction, TLAPS

\* The types the argument needs.
Typed ==
    /\ limit \in Nat /\ clock \in Nat /\ ttl \in Nat /\ failures \in Nat
    /\ call \in [Callers -> [pc : Pcs, now : Nat, answer : Answers]]
    /\ zset \subseteq [n : Nat, score : Nat] /\ IsFiniteSet(zset)
    /\ hits \subseteq [n : Nat, asked : Nat, ran : Nat] /\ IsFiniteSet(hits)

\* A script that is still to run runs within Latency of its caller's time.
Prompt ==
    \A c \in Callers :
        /\ call[c].now <= clock
        /\ call[c].pc \notin {"idle", "reload"} => clock <= call[c].now + Latency

\* Each admission has a number of its own.
Numbered ==
    /\ \A g \in hits : g.n <= Cardinality(hits)
    /\ \A g, h \in hits : g.n = h.n => g = h

\* An admission is held in Redis while any script that can still run needs it.
Held ==
    \A g \in hits :
        /\ g.ran <= clock /\ g.ran <= g.asked + Latency
        /\ g.ran + Window <= ttl
        /\ g.ran + Window > clock + Latency => [n |-> g.n, score |-> g.asked] \in zset

Inv ==
    /\ Typed /\ Prompt /\ Numbered /\ Held
    /\ Cardinality(zset) <= limit
    /\ LimitHoldsInShorterSpan

ConstantTypes == Limits \subseteq Nat /\ Window \in Nat \ {0} /\ Latency \in Nat

LEMMA Constants == ConstantTypes
  BY RedisAssumption DEF RedisAssumption, ConstantTypes

\* Numbered admissions that are all members of a set of at most N are at most
\* N.
LEMMA AtMostMembers ==
    ASSUME NEW H, \A g, h \in H : g.n = h.n => g = h,
           NEW N \in Nat, NEW Z, IsFiniteSet(Z), Cardinality(Z) <= N,
           \A g \in H : [n |-> g.n, score |-> g.asked] \in Z
    PROVE  Cardinality(H) <= N
  <1> DEFINE f == [g \in H |-> [n |-> g.n, score |-> g.asked]]
  <1>1. f \in Injection(H, Z)
    <2>1. f \in [H -> Z]
      OBVIOUS
    <2>2. ASSUME NEW g \in H, NEW h \in H, f[g] = f[h] PROVE g = h
      <3>1. f[g].n = g.n /\ f[h].n = h.n
        OBVIOUS
      <3> QED
        BY <2>2, <3>1
    <2> QED
      BY <2>1, <2>2 DEF Injection, IsInjective
  <1>2. Cardinality(H) <= Cardinality(Z) /\ IsFiniteSet(H)
    <2> HIDE DEF f
    <2> QED
      BY <1>1, FS_Injection
  <1>3. Cardinality(H) \in Nat /\ Cardinality(Z) \in Nat
    BY <1>2, FS_CardinalityType
  <1> QED
    BY <1>2, <1>3

-----------------------------------------------------------------------------
LEMMA InvInit == Init => Inv
  <1> SUFFICES ASSUME Init PROVE Inv
    OBVIOUS
  <1>1. IsFiniteSet({}) /\ Cardinality({}) = 0
    BY FS_EmptySet
  <1> QED
    BY <1>1, Constants
    DEF Init, Inv, Typed, Prompt, Numbered, Held, LimitHoldsInShorterSpan, Pcs, Answers,
        ConstantTypes

\* The script keeps what is said of the sets, whoever is told its result.
LEMMA ScriptStep ==
    ASSUME Inv, NEW c \in Callers, call[c].pc \notin {"idle", "reload"}, Script(c),
           UNCHANGED <<limit, clock>>
    PROVE  /\ ttl' \in Nat
           /\ zset' \subseteq [n : Nat, score : Nat] /\ IsFiniteSet(zset')
           /\ hits' \subseteq [n : Nat, asked : Nat, ran : Nat] /\ IsFiniteSet(hits')
           /\ Numbered' /\ Held' /\ Cardinality(zset') <= limit'
           /\ LimitHoldsInShorterSpan'
  <1> DEFINE asked == call[c].now
             live == Live(asked)
             new == [n |-> Cardinality(hits) + 1, asked |-> asked, ran |-> clock]
             member == [n |-> Cardinality(hits) + 1, score |-> asked]
  <1>0. /\ asked \in Nat /\ asked <= clock /\ clock <= asked + Latency /\ clock \in Nat
        /\ Cardinality(hits) \in Nat /\ limit \in Nat /\ limit' = limit
    BY FS_CardinalityType DEF Inv, Typed, Prompt
  <1>1. live \subseteq zset /\ IsFiniteSet(live) /\ Cardinality(live) \in Nat
    <2>1. live \subseteq zset
      BY DEF Live
    <2> QED
      BY <2>1, FS_Subset, FS_CardinalityType DEF Inv, Typed
  <1>2. Cardinality(live) <= limit
    <2>1. Cardinality(live) <= Cardinality(zset) /\ Cardinality(zset) \in Nat
      BY <1>1, FS_Subset, FS_CardinalityType DEF Inv, Typed
    <2> QED
      BY <1>0, <1>1, <2>1 DEF Inv
  <1>3. ASSUME NEW g \in hits, g.ran + Window > clock + Latency
        PROVE  [n |-> g.n, score |-> g.asked] \in live
    <2>1. g.asked \in Nat /\ g.ran \in Nat /\ g.n \in Nat
      BY DEF Inv, Typed
    <2>2. clock < ttl /\ g.asked + Window > asked
      <3>1. /\ g.ran <= clock /\ g.ran <= g.asked + Latency /\ g.ran + Window <= ttl
            /\ ttl \in Nat
        BY DEF Inv, Typed, Held
      <3> QED
        BY <1>0, <1>3, <2>1, <3>1, Constants DEF ConstantTypes
    <2>3. [n |-> g.n, score |-> g.asked] \in zset
      BY <1>3 DEF Inv, Held
    <2> QED
      BY <1>0, <2>1, <2>2, <2>3 DEF Live, Inv, Typed
  <1>4. CASE Verdict(c) = "allowed"
    <2>1. /\ zset' = live \cup {member} /\ hits' = hits \cup {new}
          /\ ttl' = clock + Window
      BY <1>4 DEF Script
    <2>2. Cardinality(live) < limit
      BY <1>4 DEF Verdict
    <2>3. IsFiniteSet(zset') /\ Cardinality(zset') <= limit'
      <3>1. IsFiniteSet(live \cup {member}) /\
            (Cardinality(live \cup {member}) = Cardinality(live)
             \/ Cardinality(live \cup {member}) = Cardinality(live) + 1)
        BY <1>1, FS_AddElement
      <3> QED
        BY <1>0, <1>1, <2>1, <2>2, <3>1
    <2>4. new \notin hits
      BY <1>0 DEF Inv, Numbered
    <2>5. IsFiniteSet(hits') /\ Cardinality(hits') = Cardinality(hits) + 1
      BY <2>1, <2>4, FS_AddElement DEF Inv, Typed
    <2>6. /\ hits' \subseteq [n : Nat, asked : Nat, ran : Nat]
          /\ zset' \subseteq [n : Nat, score : Nat] /\ ttl' \in Nat
      BY <1>0, <1>1, <2>1, Constants DEF Inv, Typed, ConstantTypes
    <2>7. Numbered'
      <3>1. \A g \in hits : g.n \in Nat /\ g.n <= Cardinality(hits)
        BY DEF Inv, Typed, Numbered
      <3> QED
        BY <1>0, <2>1, <2>5, <3>1 DEF Inv, Numbered
    <2>8. Held'
      <3>1. ASSUME NEW g \in hits PROVE g.ran \in Nat /\ g.asked \in Nat /\ g.ran <= clock
                                        /\ g.ran <= g.asked + Latency
        BY DEF Inv, Typed, Held
      <3>2. \A g \in hits' : g.ran <= clock /\ g.ran <= g.asked + Latency
        BY <1>0, <2>1, <3>1
      <3>3. \A g \in hits' : g.ran + Window <= clock + Window
        BY <1>0, <2>1, <3>1, Constants DEF ConstantTypes
      <3>4. \A g \in hits' : g.ran + Window > clock + Latency
                               => [n |-> g.n, score |-> g.asked] \in zset'
        BY <1>3, <2>1
      <3> QED
        BY <2>1, <3>2, <3>3, <3>4 DEF Held
    <2>9. LimitHoldsInShorterSpan'
      <3> SUFFICES ASSUME NEW h \in hits'
                   PROVE  Cardinality({g \in hits' : g.ran <= h.ran
                                        /\ g.ran + Window > h.ran + Latency}) <= limit'
        BY DEF LimitHoldsInShorterSpan
      <3> DEFINE span == {g \in hits' : g.ran <= h.ran /\ g.ran + Window > h.ran + Latency}
      <3>1. CASE h.ran = clock
        <4>1. \A g \in span : [n |-> g.n, score |-> g.asked] \in zset'
          BY <2>8, <3>1 DEF Held
        <4>2. \A g, k \in span : g.n = k.n => g = k
          BY <2>7 DEF Numbered
        <4> HIDE DEF span
        <4>3. Cardinality(span) <= limit'
          BY <1>0, <2>3, <4>1, <4>2, AtMostMembers
        <4> QED
          BY <4>3 DEF span
      <3>2. CASE h.ran # clock
        <4>1. h \in hits /\ h.ran < clock /\ h.ran \in Nat
          <5>1. h \in hits
            BY <2>1, <3>2
          <5>2. h.ran \in Nat /\ h.ran <= clock
            BY <5>1 DEF Inv, Typed, Held
          <5> QED
            BY <1>0, <3>2, <5>1, <5>2
        <4>2. span = {g \in hits : g.ran <= h.ran /\ g.ran + Window > h.ran + Latency}
          BY <1>0, <2>1, <4>1
        <4> QED
          BY <4>1, <4>2 DEF Inv, LimitHoldsInShorterSpan
      <3> QED
        BY <3>1, <3>2
    <2> QED
      BY <2>3, <2>5, <2>6, <2>7, <2>8, <2>9
  <1>5. CASE Verdict(c) # "allowed"
    <2>1. zset' = live /\ UNCHANGED <<ttl, hits>>
      BY <1>5 DEF Script
    <2>2. Held'
      BY <1>3, <2>1 DEF Inv, Held
    <2> QED
      BY <1>1, <1>2, <2>1, <2>2 DEF Inv, Typed, Numbered, LimitHoldsInShorterSpan
  <1> QED
    BY <1>4, <1>5

\* A call that settles, or has only to load the script again, keeps types and
\* promptness.
LEMMA Settles ==
    ASSUME Inv, NEW c \in Callers, NEW p \in {"idle", "reload"}, NEW a \in Answers,
           call' = [call EXCEPT ![c] = [@ EXCEPT !.pc = p, !.answer = a]], UNCHANGED clock
    PROVE  call' \in [Callers -> [pc : Pcs, now : Nat, answer : Answers]] /\ Prompt'
  <1>1. call[c] \in [pc : Pcs, now : Nat, answer : Answers]
    BY DEF Inv, Typed
  <1>2. /\ call'[c].pc = p /\ call'[c].now = call[c].now
        /\ call'[c] \in [pc : Pcs, now : Nat, answer : Answers]
    BY <1>1 DEF Inv, Typed, Pcs
  <1>3. \A d \in Callers : d # c => call'[d] = call[d]
    BY DEF Inv, Typed
  <1>4. call' \in [Callers -> [pc : Pcs, now : Nat, answer : Answers]]
    BY <1>1, <1>2, <1>3 DEF Inv, Typed
  <1>5. Prompt'
    BY <1>2, <1>3 DEF Inv, Prompt
  <1> QED
    BY <1>4, <1>5

\* What a step does to the calls keeps their types and their promptness.
LEMMA InvStep == Inv /\ [Next]_vars => Inv'
  <1> SUFFICES ASSUME Inv, [Next]_vars PROVE Inv'
    OBVIOUS
  <1> USE DEF Pcs, Answers
  <1>1. ASSUME NEW c \in Callers, Consume(c) PROVE Inv'
    BY <1>1, Constants DEF Consume, Inv, Typed, Prompt, Numbered, Held,
                           LimitHoldsInShorterSpan, ConstantTypes
  <1>2. ASSUME NEW c \in Callers, Load(c) \/ Reload(c) \/ Fails(c) PROVE Inv'
    <2>2. UNCHANGED <<limit, clock, zset, ttl, hits>> /\ failures' \in Nat
      BY <1>2 DEF Load, Reload, Fails, Inv, Typed
    <2>3. call' \in [Callers -> [pc : Pcs, now : Nat, answer : Answers]] /\ Prompt'
      <3>1. CASE Load(c)
        BY <3>1 DEF Load, Awaits, Inv, Typed, Prompt
      <3>2. CASE Reload(c)
        BY <3>2 DEF Reload, Awaits, Inv, Typed, Prompt
      <3>3. CASE Fails(c)
        BY <2>2, <3>3, Settles DEF Fails, Returns
      <3> QED
        BY <1>2, <3>1, <3>2, <3>3
    <2> QED
      BY <2>2, <2>3 DEF Inv, Typed, Numbered, Held, LimitHoldsInShorterSpan
  <1>3. ASSUME NEW c \in Callers, (EvalSha(c) /\ loaded) \/ Eval(c) \/ LosesResult(c)
        PROVE  Inv'
    <2>1. /\ call[c].pc \notin {"idle", "reload"} /\ UNCHANGED <<limit, clock>>
          /\ Script(c)
      BY <1>3 DEF EvalSha, Eval, LosesResult
    <2>2. call' \in [Callers -> [pc : Pcs, now : Nat, answer : Answers]] /\ Prompt'
      <3>1. PICK a \in Answers :
               \/ Returns(c, a)
               \/ call' = [call EXCEPT ![c] = [@ EXCEPT !.pc = "reload", !.answer = a]]
        <4>1. Verdict(c) \in Answers
          BY DEF Verdict
        <4>2. ASSUME Eval(c), Verdict(c) = "error" PROVE Returns(c, "error")
          BY <4>2 DEF Eval, Returns
        <4>3. ASSUME Eval(c), Verdict(c) # "error"
              PROVE  call' = [call EXCEPT ![c] = [@ EXCEPT !.pc = "reload", !.answer = Verdict(c)]]
          BY <4>3 DEF Eval
        <4> QED
          BY <1>3, <4>1, <4>2, <4>3 DEF EvalSha, LosesResult
      <3>2. PICK p \in {"idle", "reload"} :
               call' = [call EXCEPT ![c] = [@ EXCEPT !.pc = p, !.answer = a]]
        BY <3>1 DEF Returns
      <3> QED
        BY <2>1, <3>2, Settles
    <2>3. failures' \in Nat /\ clock' \in Nat /\ limit' \in Nat
      BY <1>3 DEF EvalSha, Eval, LosesResult, Inv, Typed
    <2> QED
      BY <2>1, <2>2, <2>3, ScriptStep DEF Inv, Typed
  <1>4. ASSUME NEW c \in Callers, EvalSha(c), ~loaded PROVE Inv'
    BY <1>4 DEF EvalSha, Awaits, Inv, Typed, Prompt, Numbered, Held, LimitHoldsInShorterSpan
  <1>5. CASE Flush
    BY <1>5 DEF Flush, Inv, Typed, Prompt, Numbered, Held, LimitHoldsInShorterSpan
  <1>6. CASE Elapse
    <2>1. clock' = clock + 1 /\ UNCHANGED <<limit, zset, ttl, call, failures, hits>>
      BY <1>6 DEF Elapse
    <2>2. Prompt'
      BY <1>6, <2>1, Constants DEF Elapse, Inv, Typed, Prompt, ConstantTypes
    <2>3. Held'
      <3> SUFFICES ASSUME NEW g \in hits
                   PROVE  /\ g.ran <= clock + 1 /\ g.ran <= g.asked + Latency
                          /\ g.ran + Window <= ttl
                          /\ g.ran + Window > clock + 1 + Latency
                                => [n |-> g.n, score |-> g.asked] \in zset
        BY <2>1 DEF Held
      <3>1. /\ g.ran \in Nat /\ clock \in Nat /\ g.ran <= clock
            /\ g.ran <= g.asked + Latency /\ g.ran + Window <= ttl
            /\ g.ran + Window > clock + Latency => [n |-> g.n, score |-> g.asked] \in zset
        BY DEF Inv, Typed, Held
      <3> QED
        BY <3>1, Constants DEF ConstantTypes
    <2> QED
      BY <2>1, <2>2, <2>3 DEF Inv, Typed, Numbered, LimitHoldsInShorterSpan
  <1>7. CASE UNCHANGED vars
    BY <1>7 DEF vars, Inv, Typed, Prompt, Numbered, Held, LimitHoldsInShorterSpan
  <1>8. ASSUME NEW c \in Callers, EvalSha(c) \/ Eval(c) \/ LosesResult(c) PROVE Inv'
    BY <1>3, <1>4, <1>8
  <1> QED
    BY <1>1, <1>2, <1>5, <1>6, <1>7, <1>8 DEF Next

\* However calls overtake each other, at most limit are admitted in any span
\* shorter than the window by the latency of a call (lua.ts 26-33).
THEOREM LimitHoldsInShorterSpanAlways == Spec => []LimitHoldsInShorterSpan
  <1>1. Inv => LimitHoldsInShorterSpan
    BY DEF Inv
  <1> QED
    BY InvInit, InvStep, <1>1, PTL DEF Spec

\* The faults are counted by a number, and without any no call has failed.
NoError == failures \in Nat /\ FlushIsTransparent

\* A flushed script is not seen by the caller (store.ts 78-84).
THEOREM FlushIsTransparentAlways == Spec => []FlushIsTransparent
  <1>1. Init => NoError
    BY DEF Init, NoError, FlushIsTransparent
  <1>2. NoError /\ Typed /\ [Next]_vars => NoError'
    <2> SUFFICES ASSUME NoError, Typed, [Next]_vars PROVE NoError'
      OBVIOUS
    <2>1. ASSUME NEW c \in Callers, Fails(c) \/ LosesResult(c) PROVE NoError'
      BY <2>1 DEF Fails, LosesResult, NoError, FlushIsTransparent
    <2>2. ASSUME NEW c \in Callers, Consume(c) \/ Load(c) \/ Reload(c) PROVE NoError'
      BY <2>2 DEF Consume, Load, Reload, Awaits, NoError, FlushIsTransparent, Typed
    <2>3. ASSUME NEW c \in Callers, EvalSha(c) \/ Eval(c) PROVE NoError'
      <3>1. limit # 0 => Verdict(c) # "error"
        <4>1. limit # 0 => 0 < limit
          BY DEF Typed
        <4>2. Cardinality({}) = 0
          BY FS_EmptySet
        <4> QED
          BY <4>1, <4>2 DEF Verdict
      <3>2. failures' = failures /\ limit' = limit
        BY <2>3 DEF EvalSha, Eval
      <3>3. \E a \in {call[c].answer, Verdict(c)}, p \in Pcs :
                call' = [call EXCEPT ![c] = [@ EXCEPT !.pc = p, !.answer = a]]
        <4>1. ASSUME EvalSha(c), ~loaded
              PROVE  call' = [call EXCEPT ![c] = [@ EXCEPT !.pc = "eval", !.answer = call[c].answer]]
          BY <4>1 DEF EvalSha, Awaits, Typed
        <4>2. ASSUME EvalSha(c), loaded
              PROVE  call' = [call EXCEPT ![c] = [@ EXCEPT !.pc = "idle", !.answer = Verdict(c)]]
          BY <4>2 DEF EvalSha, Returns
        <4>3. ASSUME Eval(c), Verdict(c) = "error"
              PROVE  call' = [call EXCEPT ![c] = [@ EXCEPT !.pc = "idle", !.answer = Verdict(c)]]
          BY <4>3 DEF Eval
        <4>4. ASSUME Eval(c), Verdict(c) # "error"
              PROVE  call' = [call EXCEPT ![c] = [@ EXCEPT !.pc = "reload", !.answer = Verdict(c)]]
          BY <4>4 DEF Eval
        <4>5. {"eval", "idle", "reload"} \subseteq Pcs
          BY DEF Pcs
        <4> QED
          BY <2>3, <4>1, <4>2, <4>3, <4>4, <4>5
      <3> QED
        BY <3>1, <3>2, <3>3 DEF NoError, FlushIsTransparent, Typed
    <2>4. CASE Flush \/ Elapse \/ UNCHANGED vars
      BY <2>4 DEF Flush, Elapse, vars, NoError, FlushIsTransparent
    <2> QED
      BY <2>1, <2>2, <2>3, <2>4 DEF Next
  <1>3. Inv => Typed
    BY DEF Inv
  <1>4. NoError => FlushIsTransparent
    BY DEF NoError
  <1> QED
    BY InvInit, InvStep, <1>1, <1>2, <1>3, <1>4, PTL DEF Spec
-----------------------------------------------------------------------------
\* Both halves of what the runs check of the Redis store, for all constants.
THEOREM RedisIsSoundAlways == Spec => []RedisIsSound
  <1>1. LimitHoldsInShorterSpan /\ FlushIsTransparent => RedisIsSound
    BY DEF RedisIsSound
  <1> QED
    BY <1>1, LimitHoldsInShorterSpanAlways, FlushIsTransparentAlways, PTL
-----------------------------------------------------------------------------
(* The dependencies of a run do not interact: what one of them keeps, the    *)
(* whole keeps.                                                              *)
LEMMA PartSteps ==
    [MCNext]_allVars =>
        /\ Registry!Next \/ UNCHANGED registryVars
        /\ Registry!DesignNext \/ UNCHANGED designVars
        /\ Secrets!Next \/ UNCHANGED secretsVars
        /\ Secrets!NameNext \/ UNCHANGED namedVars
  BY DEF MCNext, DependencyNext, allVars

(* The registry of teardowns (core/src/disposable.ts).                       *)
RegistryTyped ==
    /\ entries \in 0..MaxEntries /\ from \in 0..MaxEntries /\ at \in 0..from
    /\ phase \in {"before", "next", "race", "returned"}
    /\ torn \in [1..MaxEntries -> {None, "running", "ok", "failed"}]
    /\ report \in [1..MaxEntries -> {None, "error", "timeout"}]

\* What the loop is past is torn down or given up, and reported if it is not
\* torn down; what it is still to come to is untouched.
Past(e) ==
    /\ torn[e] \in {"ok", "failed"} \/ report[e] = "timeout"
    /\ torn[e] = "ok" \/ report[e] # None
Loop ==
    /\ \A e \in 1..from : e > at => Past(e)
    /\ \A e \in 1..MaxEntries : phase = "before" \/ e < at => torn[e] = None
    /\ phase = "next" /\ at > 0 => torn[at] = None
    /\ phase = "race" => at > 0 /\ torn[at] # None
    /\ phase = "returned" => at = 0
    /\ phase = "before" => from = 0

RegistryInv == RegistryTyped /\ Loop

LEMMA RegistryInit == Registry!Init => RegistryInv
  <1>0. MaxEntries \in Nat
    BY DependencyAssumption DEF DependencyAssumption
  <1> QED
    BY <1>0 DEF Registry!Init, Registry!Entries, RegistryInv, RegistryTyped, Loop, Past

LEMMA RegistryStep == RegistryInv /\ (Registry!Next \/ UNCHANGED registryVars) => RegistryInv'
  <1>0. MaxEntries \in Nat /\ None \notin {"running", "ok", "failed", "error", "timeout"}
    BY DependencyAssumption DEF DependencyAssumption
  <1> SUFFICES ASSUME RegistryInv, Registry!Next \/ UNCHANGED registryVars PROVE RegistryInv'
    OBVIOUS
  <1> USE <1>0 DEF RegistryInv, RegistryTyped, Loop, Past, Registry!Entries
  <1>1. CASE Registry!register
    BY <1>1 DEF Registry!register
  <1>2. CASE Registry!disposeAll
    BY <1>2 DEF Registry!disposeAll
  <1>3. CASE Registry!Begin
    BY <1>3 DEF Registry!Begin
  <1>4. CASE Registry!Timeout
    BY <1>4 DEF Registry!Timeout
  <1>5. CASE Registry!RaceEnds
    BY <1>5 DEF Registry!RaceEnds
  <1>6. CASE Registry!Return
    BY <1>6 DEF Registry!Return
  <1>7. ASSUME NEW e \in Registry!Entries, Registry!Settle(e) PROVE RegistryInv'
    BY <1>7 DEF Registry!Settle
  <1>8. CASE UNCHANGED registryVars
    BY <1>8 DEF registryVars
  <1> QED
    BY <1>1, <1>2, <1>3, <1>4, <1>5, <1>6, <1>7, <1>8 DEF Registry!Next

LEMMA RegistryFollows ==
    RegistryInv => Registry!DisposedInReverse /\ Registry!NothingIsPassedOver
  <1>0. MaxEntries \in Nat /\ None \notin {"running", "ok", "failed", "error", "timeout"}
    BY DependencyAssumption DEF DependencyAssumption
  <1> QED
    BY <1>0 DEF RegistryInv, RegistryTyped, Loop, Past, Registry!DisposedInReverse,
                Registry!NothingIsPassedOver
-----------------------------------------------------------------------------
(* Lists of closes without repetition, as sets.                              *)
Of(s) == Registry!ToSet(s)
Apart(s) == \A i, j \in 1..Len(s) : s[i] = s[j] => i = j
Closes == Seq(Registry!Adapters)

LEMMA EmptyList == Of(<<>>) = {} /\ Apart(<<>>) /\ <<>> \in Closes
  BY DEF Of, Registry!ToSet, Apart, Closes

LEMMA HeadAndTail ==
    ASSUME NEW s \in Closes, s # <<>>
    PROVE  /\ Head(s) \in Registry!Adapters /\ Tail(s) \in Closes
           /\ Of(s) = {Head(s)} \cup Of(Tail(s))
           /\ Apart(s) => Apart(Tail(s)) /\ Head(s) \notin Of(Tail(s))
  <1>1. /\ Len(s) \in Nat /\ Len(s) > 0 /\ Head(s) = s[1]
        /\ Tail(s) \in Closes /\ Len(Tail(s)) = Len(s) - 1
        /\ \A i \in 1..Len(Tail(s)) : Tail(s)[i] = s[i + 1]
        /\ DOMAIN s = 1..Len(s) /\ DOMAIN Tail(s) = 1..Len(Tail(s))
    BY DEF Closes
  <1>2. Head(s) \in Registry!Adapters
    BY <1>1 DEF Closes
  <1>3. Of(s) = {Head(s)} \cup Of(Tail(s))
    <2>1. ASSUME NEW a \in Of(s) PROVE a \in {Head(s)} \cup Of(Tail(s))
      <3>1. PICK i \in 1..Len(s) : a = s[i]
        BY <1>1 DEF Of, Registry!ToSet
      <3>2. CASE i = 1
        BY <1>1, <3>1, <3>2
      <3>3. CASE i # 1
        <4>1. i - 1 \in 1..Len(Tail(s)) /\ Tail(s)[i - 1] = a
          BY <1>1, <3>1, <3>3
        <4> QED
          BY <1>1, <4>1 DEF Of, Registry!ToSet
      <3> QED
        BY <3>2, <3>3
    <2>2. ASSUME NEW a \in {Head(s)} \cup Of(Tail(s)) PROVE a \in Of(s)
      <3>1. CASE a = Head(s)
        BY <1>1, <3>1 DEF Of, Registry!ToSet
      <3>2. CASE a \in Of(Tail(s))
        <4>1. PICK i \in 1..Len(Tail(s)) : a = Tail(s)[i]
          BY <1>1, <3>2 DEF Of, Registry!ToSet
        <4>2. i + 1 \in 1..Len(s) /\ s[i + 1] = a
          BY <1>1, <4>1
        <4> QED
          BY <1>1, <4>2 DEF Of, Registry!ToSet
      <3> QED
        BY <2>2, <3>1, <3>2
    <2> QED
      BY <2>1, <2>2
  <1>4. ASSUME Apart(s) PROVE Apart(Tail(s)) /\ Head(s) \notin Of(Tail(s))
    <2>1. Apart(Tail(s))
      BY <1>1, <1>4 DEF Apart
    <2>2. ASSUME Head(s) \in Of(Tail(s)) PROVE FALSE
      <3>1. PICK i \in 1..Len(Tail(s)) : Head(s) = Tail(s)[i]
        BY <1>1, <2>2 DEF Of, Registry!ToSet
      <3>2. i + 1 \in 1..Len(s) /\ 1 \in 1..Len(s) /\ s[i + 1] = s[1] /\ i + 1 # 1
        BY <1>1, <3>1
      <3> QED
        BY <1>4, <3>2 DEF Apart
    <2> QED
      BY <2>1, <2>2
  <1> QED
    BY <1>1, <1>2, <1>3, <1>4

LEMMA Appended ==
    ASSUME NEW s \in Closes, NEW a \in Registry!Adapters
    PROVE  /\ Append(s, a) \in Closes /\ Append(s, a) # <<>>
           /\ Registry!Last(Append(s, a)) = a
           /\ Of(Append(s, a)) = Of(s) \cup {a}
           /\ Apart(s) /\ a \notin Of(s) => Apart(Append(s, a))
  <1> DEFINE t == Append(s, a)
  <1>1. /\ t \in Closes /\ Len(s) \in Nat /\ Len(t) = Len(s) + 1 /\ t[Len(s) + 1] = a
        /\ \A i \in 1..Len(s) : t[i] = s[i]
        /\ DOMAIN t = 1..Len(t) /\ DOMAIN s = 1..Len(s)
    BY DEF Closes
  <1> HIDE DEF t
  <1>2. t # <<>> /\ Registry!Last(t) = a
    BY <1>1 DEF Registry!Last
  <1>3. Of(t) = Of(s) \cup {a}
    <2>1. ASSUME NEW b \in Of(t) PROVE b \in Of(s) \cup {a}
      <3>1. PICK i \in 1..Len(t) : b = t[i]
        BY <1>1 DEF Of, Registry!ToSet
      <3> QED
        BY <1>1, <3>1 DEF Of, Registry!ToSet
    <2>2. ASSUME NEW b \in Of(s) PROVE b \in Of(t)
      <3>1. PICK i \in 1..Len(s) : b = s[i]
        BY <1>1 DEF Of, Registry!ToSet
      <3>2. i \in DOMAIN t /\ t[i] = b
        BY <1>1, <3>1
      <3> QED
        BY <3>2 DEF Of, Registry!ToSet
    <2>3. a \in Of(t)
      <3>1. Len(s) + 1 \in DOMAIN t
        BY <1>1
      <3> QED
        BY <1>1, <3>1 DEF Of, Registry!ToSet
    <2> QED
      BY <2>1, <2>2, <2>3
  <1>4. ASSUME Apart(s), a \notin Of(s) PROVE Apart(t)
    <2>1. \A i \in 1..Len(s) : s[i] # a
      BY <1>1, <1>4 DEF Of, Registry!ToSet
    <2> QED
      BY <1>1, <1>4, <2>1 DEF Apart
  <1> QED
    BY <1>1, <1>2, <1>3, <1>4 DEF t
-----------------------------------------------------------------------------
(* The designs of the probes: what each walks.                               *)
LEMMA Two ==
    ASSUME NEW a \in Registry!Adapters, NEW b \in Registry!Adapters, a # b
    PROVE  /\ <<a, b>> \in Closes /\ Apart(<<a, b>>) /\ Of(<<a, b>>) = {a, b}
           /\ Registry!Reverse(<<a, b>>) = <<b, a>>
  BY DEF Closes, Apart, Of, Registry!ToSet, Registry!Reverse

LEMMA One ==
    ASSUME NEW a \in Registry!Adapters
    PROVE  /\ <<a>> \in Closes /\ Apart(<<a>>) /\ Of(<<a>>) = {a}
           /\ Registry!Reverse(<<a>>) = <<a>>
  BY DEF Closes, Apart, Of, Registry!ToSet, Registry!Reverse

LEMMA TriggerThenMemory == Append(<<"trigger">>, "memory") = <<"trigger", "memory">>
  <1> DEFINE s == <<"trigger">>
             t == <<"trigger", "memory">>
  <1>1. s \in Closes /\ t \in Closes /\ "memory" \in Registry!Adapters
    BY One, Two DEF Registry!Adapters
  <1>2. Len(s) = 1 /\ s[1] = "trigger" /\ Len(t) = 2 /\ t[1] = "trigger" /\ t[2] = "memory"
    OBVIOUS
  <1> HIDE DEF s, t
  <1>3. /\ Append(s, "memory") \in Closes /\ Len(Append(s, "memory")) = 2
        /\ Append(s, "memory")[1] = "trigger" /\ Append(s, "memory")[2] = "memory"
    <2>1. s \in Seq(Registry!Adapters)
      BY <1>1 DEF Closes
    <2>2. /\ Append(s, "memory") \in Seq(Registry!Adapters)
          /\ Len(Append(s, "memory")) = Len(s) + 1
          /\ \A i \in 1..Len(s) : Append(s, "memory")[i] = s[i]
          /\ Append(s, "memory")[Len(s) + 1] = "memory"
      BY <1>1, <2>1, AppendProperties
    <2> QED
      BY <1>2, <2>2 DEF Closes
  <1>4. Append(s, "memory") = t
    BY <1>1, <1>2, <1>3, SeqEqual DEF Closes
  <1> QED
    BY <1>4 DEF s, t

LEMMA Three ==
    LET s == <<"memory", "secrets", "trigger">>
    IN  s \in Closes /\ Apart(s) /\ Of(s) = {"memory", "secrets", "trigger"}
  BY DEF Closes, Apart, Of, Registry!ToSet, Registry!Adapters

Designs == Registry!Cells \cup Registry!Options \cup Registry!Probes

LEMMA Plans ==
    ASSUME design \in Designs, NEW p \in Registry!Turns
    PROVE  /\ p \in Closes /\ Apart(p) /\ "memory" \in Of(p)
           /\ design \notin Registry!Cells => "trigger" \in Of(p)
           /\ "secrets" \in Of(p) => design = "alpha" \/ Registry!WalksDeps
           /\ design = "registry" => p = <<"trigger", "memory">>
  <1>0. /\ "memory" \in Registry!Adapters /\ "trigger" \in Registry!Adapters
        /\ "secrets" \in Registry!Adapters
    BY DEF Registry!Adapters
  <1>1. p = <<"memory">> => p \in Closes /\ Apart(p) /\ Of(p) = {"memory"}
    BY <1>0, One
  <1>2. ASSUME NEW b \in {"secrets", "trigger"}
        PROVE  p = <<"memory", b>> => p \in Closes /\ Apart(p) /\ Of(p) = {"memory", b}
    BY <1>0, Two
  <1>3. p = <<"trigger", "memory">> => p \in Closes /\ Apart(p) /\ Of(p) = {"trigger", "memory"}
    BY <1>0, Two
  <1>4. p = <<"memory", "secrets", "trigger">> =>
            p \in Closes /\ Apart(p) /\ Of(p) = {"memory", "secrets", "trigger"}
    BY Three
  <1>5. /\ Registry!Reverse(<<"memory">>) = <<"memory">>
        /\ Registry!Reverse(<<"memory", "trigger">>) = <<"trigger", "memory">>
        /\ Registry!Reverse(<<"trigger", "memory">>) = <<"memory", "trigger">>
    BY <1>0, One, Two
  <1> QED
    BY <1>1, <1>2, <1>3, <1>4, <1>5
    DEF Registry!Turns, Registry!CloseAlpha, Registry!CloseBeta, Registry!CloseGamma,
        Registry!RegisteredGamma, Registry!CloseRegistry, Registry!CloseDeps, Registry!CloseSelf,
        Registry!CloseTimed, Registry!CloseHeeding, Designs, Registry!Cells, Registry!Options,
        Registry!Probes, Registry!WalksDeps
-----------------------------------------------------------------------------
(* The cleanup of a run, in each design.                                     *)
InCleanup == pc \in {"finally", "closing"} \/ (pc = "returned" /\ errorCode # "unavailable")

DesignTyped ==
    /\ design \in Designs
    /\ pc \in {"build", "begin", "writing", "secret", "working", "finally", "closing", "returned"}
    /\ turns \in Closes /\ calls \in Closes
    /\ state \in [Registry!Adapters -> {"open", "closing", "closed", "failed"}]
    /\ errors \subseteq Registry!Adapters /\ disposed \subseteq Registry!Adapters

\* Nothing is closed before the cleanup.
Blank ==
    /\ errorCode = "unavailable" => pc = "returned"
    /\ ~InCleanup =>
          /\ turns = <<>> /\ calls = <<>> /\ errors = {} /\ disposed = {}
          /\ \A a \in Registry!Adapters : state[a] = "open"

\* What is closed is closed once; what must be closed is, or is still to be.
Lists ==
    /\ Apart(turns) /\ Apart(calls) /\ Of(turns) \cap Of(calls) = {}
    /\ InCleanup /\ design # "heeding" =>
          /\ "memory" \in Of(turns) \cup Of(calls)
          /\ design \notin Registry!Cells => "trigger" \in Of(turns) \cup Of(calls)
    /\ pc = "returned" => turns = <<>>
    /\ "secrets" \in Of(turns) => design = "alpha" \/ Registry!WalksDeps
    /\ "secrets" \in Of(calls) => design = "alpha"
    /\ \A a \in Registry!Adapters : state[a] # "open" => a \in Of(calls)

\* The close at hand is reported when it settles or is given up, and the
\* ones before it have been.
Reports ==
    /\ disposed \cap errors = {}
    /\ pc = "closing" =>
          Registry!Last(calls) \in Of(calls) /\ disposed \cup errors = Of(calls) \ {Registry!Last(calls)}
    /\ pc # "closing" => disposed \cup errors = Of(calls)
    /\ \A a \in disposed : state[a] = "closed"
    /\ design \notin Registry!Timed => \A a \in errors : state[a] = "failed"

TriggerFirst ==
    /\ InCleanup => \/ turns = <<"trigger", "memory">> /\ calls = <<>>
                    \/ turns = <<"memory">> /\ calls = <<"trigger">>
                    \/ turns = <<>> /\ calls = <<"trigger", "memory">>
    /\ stale => calls = <<"trigger", "memory">> /\ "trigger" \in errors

DesignInv ==
    /\ DesignTyped /\ Blank /\ Lists
    /\ design # "heeding" => Reports
    /\ design = "registry" => TriggerFirst

LEMMA DesignStart == Registry!DesignInit => DesignInv
  BY EmptyList
  DEF Registry!DesignInit, DesignInv, DesignTyped, Blank, Lists, Reports, TriggerFirst, InCleanup,
      Designs

\* The run before its cleanup, and what happens beside it.
LEMMA RunSteps ==
    ASSUME DesignInv, UNCHANGED <<design, turns, calls, state, errors, disposed>>,
           InCleanup' <=> InCleanup, pc' # "closing", pc # "closing", pc' = "returned" => turns = <<>>,
           errorCode' = "unavailable" => pc' = "returned",
           pc' \in {"build", "begin", "writing", "secret", "working", "finally", "returned"},
           stale' => stale
    PROVE  DesignInv'
  BY DEF DesignInv, DesignTyped, Blank, Lists, Reports, TriggerFirst, Registry!WalksDeps

LEMMA Beside ==
    ASSUME DesignInv, UNCHANGED <<design, pc, errorCode, turns, calls, state, errors, disposed>>,
           stale' => stale
    PROVE  DesignInv'
  BY DEF DesignInv, DesignTyped, Blank, Lists, Reports, TriggerFirst, InCleanup, Registry!WalksDeps

LEMMA CleanupBegins ==
    ASSUME DesignInv, NEW code \in {"none", "aborted", "failed"}, Registry!Cleanup(code),
           ~InCleanup, stale' => stale, state' = state
    PROVE  DesignInv'
  <1>1. /\ turns' \in Registry!Turns /\ design' = design /\ pc' = "finally" /\ InCleanup'
        /\ errorCode' # "unavailable" /\ UNCHANGED <<errors, disposed, calls>>
    BY DEF Registry!Cleanup, InCleanup
  <1>2. /\ turns' \in Closes /\ Apart(turns') /\ "memory" \in Of(turns')
        /\ design \notin Registry!Cells => "trigger" \in Of(turns')
        /\ "secrets" \in Of(turns') => design = "alpha" \/ Registry!WalksDeps
        /\ design = "registry" => turns' = <<"trigger", "memory">>
    BY <1>1, Plans DEF DesignInv, DesignTyped
  <1>3. calls = <<>> /\ errors = {} /\ disposed = {}
    BY DEF DesignInv, Blank
  <1>4. /\ (Of(turns))' = Of(turns') /\ (Of(calls))' = Of(calls') /\ (Apart(turns))' = Apart(turns')
        /\ (Apart(calls))' = Apart(calls') /\ (Registry!WalksDeps)' = Registry!WalksDeps
    BY <1>1 DEF Of, Registry!ToSet, Apart, Registry!WalksDeps
  <1> QED
    BY <1>1, <1>2, <1>3, <1>4, EmptyList
    DEF DesignInv, DesignTyped, Blank, Lists, Reports, TriggerFirst
-----------------------------------------------------------------------------
LEMMA BuildStep == DesignInv /\ Registry!Build => DesignInv'
  <1> SUFFICES ASSUME DesignInv, Registry!Build PROVE DesignInv'
    OBVIOUS
  <1>1. /\ pc = "build" /\ ~InCleanup /\ ~InCleanup' /\ pc' \in {"begin", "returned"}
        /\ UNCHANGED <<design, turns, calls, state, errors, disposed>> /\ (stale' => stale)
        /\ errorCode' = "unavailable" => pc' = "returned"
    BY DEF Registry!Build, Registry!cleanup, InCleanup, DesignInv, Blank
  <1>2. turns = <<>>
    BY <1>1 DEF DesignInv, Blank
  <1> QED
    BY <1>1, <1>2, RunSteps

LEMMA WorkSteps ==
    ASSUME DesignInv,
           \/ Registry!DesignBegin \/ Registry!DesignRaceEnds
           \/ Registry!ReadAndServe \/ Registry!WorkEnds
    PROVE  DesignInv'
  <1>1. /\ pc \in {"begin", "writing", "secret", "working"} /\ ~InCleanup
        /\ state' = state /\ (stale' => stale)
    BY DEF Registry!DesignBegin, Registry!DesignRaceEnds, Registry!ReadAndServe,
           Registry!WorkEnds, InCleanup
  <1>2. CASE \E code \in {"none", "aborted", "failed"} : Registry!Cleanup(code)
    BY <1>1, <1>2, CleanupBegins
  <1>3. CASE \A code \in {"none", "aborted", "failed"} : ~Registry!Cleanup(code)
    <2>1. /\ pc' \in {"writing", "secret", "working"} /\ ~InCleanup'
          /\ UNCHANGED <<design, turns, calls, errors, disposed, errorCode>>
      BY <1>3 DEF Registry!DesignBegin, Registry!DesignRaceEnds, Registry!ReadAndServe,
           Registry!WorkEnds, InCleanup, Registry!run, Registry!cleanup
    <2>2. errorCode # "unavailable"
      BY <1>1 DEF DesignInv, Blank
    <2> QED
      BY <1>1, <2>1, <2>2, RunSteps
  <1> QED
    BY <1>2, <1>3

\* A tick upon a closed memory: the registry has closed the trigger before,
\* and it is not closed, so its close failed or was given up.
LEMMA FiresStep == DesignInv /\ Registry!Fires => DesignInv'
  <1> SUFFICES ASSUME DesignInv, Registry!Fires PROVE DesignInv'
    OBVIOUS
  <1>1. /\ UNCHANGED <<design, pc, errorCode, turns, calls, state, errors, disposed>>
        /\ state["trigger"] # "closed"
    BY DEF Registry!Fires, Registry!Ticking, Registry!run, Registry!cleanup
  <1>2. CASE state["memory"] # "closed"
    <2>1. stale' => stale
      BY <1>2 DEF Registry!Fires
    <2> QED
      BY <1>1, <2>1, Beside
  <1>3. CASE state["memory"] = "closed"
    <2>2. ASSUME design = "registry"
          PROVE  calls = <<"trigger", "memory">> /\ "trigger" \in errors
      <3>1. "memory" \in Of(calls) /\ InCleanup
        BY <1>3, EmptyList DEF DesignInv, DesignTyped, Lists, Blank, Registry!Adapters
      <3>2. Of(<<"trigger">>) = {"trigger"} /\ Of(<<>>) = {}
        BY EmptyList, One DEF Registry!Adapters
      <3>3. calls = <<"trigger", "memory">>
        BY <2>2, <3>1, <3>2 DEF DesignInv, TriggerFirst
      <3>4. Of(calls) = {"trigger", "memory"} /\ Registry!Last(calls) = "memory"
        BY <3>3, Two DEF Registry!Adapters, Registry!Last
      <3>5. "trigger" \in disposed \cup errors
        BY <2>2, <3>4 DEF DesignInv, Reports
      <3> QED
        BY <1>1, <2>2, <3>3, <3>5 DEF DesignInv, Reports
    <2> QED
      BY <1>1, <2>2
      DEF DesignInv, DesignTyped, Blank, Lists, Reports, TriggerFirst, InCleanup, Registry!WalksDeps
  <1> QED
    BY <1>2, <1>3
-----------------------------------------------------------------------------
LEMMA PassOverStep == DesignInv /\ Registry!PassOver => DesignInv'
  <1> SUFFICES ASSUME DesignInv, Registry!PassOver PROVE DesignInv'
    OBVIOUS
  <1>1. /\ pc = "finally" /\ turns # <<>> /\ design \in {"beta", "deps"} /\ turns' = Tail(turns)
        /\ Head(turns) \notin {"memory", "trigger"} /\ InCleanup /\ InCleanup'
        /\ UNCHANGED <<pc, design, errorCode, calls, state, errors, disposed>>
        /\ (Registry!WalksDeps)' = Registry!WalksDeps
    BY DEF Registry!PassOver, Registry!WalksDeps, Registry!isDisposable, Registry!Disposables,
           Registry!run, InCleanup
  <1>2. /\ turns' \in Closes /\ Of(turns) = {Head(turns)} \cup Of(turns')
        /\ Apart(turns')
    BY <1>1, HeadAndTail DEF DesignInv, DesignTyped, Lists
  <1> QED
    BY <1>1, <1>2 DEF DesignInv, DesignTyped, Blank, Lists, Reports

LEMMA CloseStep == DesignInv /\ Registry!Close => DesignInv'
  <1> SUFFICES ASSUME DesignInv, Registry!Close PROVE DesignInv'
    OBVIOUS
  <1> DEFINE h == Head(turns)
  <1>1. /\ pc = "finally" /\ turns # <<>> /\ design # "heeding" /\ pc' = "closing"
        /\ turns' = Tail(turns) /\ calls' = Append(calls, h)
        /\ state' = [state EXCEPT ![h] = "closing"]
        /\ UNCHANGED <<design, errorCode, errors, disposed>>
        /\ (stale' => stale) /\ InCleanup /\ InCleanup'
        /\ (Registry!WalksDeps)' = Registry!WalksDeps
        /\ Registry!WalksDeps => h # "secrets"
    BY DEF Registry!Close, Registry!CallsNext, Registry!WalksDeps, Registry!isDisposable,
           Registry!Disposables, Registry!run, InCleanup
  <1>2. /\ h \in Registry!Adapters /\ turns' \in Closes /\ Of(turns) = {h} \cup Of(turns')
        /\ Apart(turns') /\ h \notin Of(turns') /\ h \notin Of(calls)
    BY <1>1, HeadAndTail DEF DesignInv, DesignTyped, Lists
  <1>3. /\ calls' \in Closes /\ Of(calls') = Of(calls) \cup {h} /\ Apart(calls')
        /\ Registry!Last(calls') = h
    BY <1>1, <1>2, Appended DEF DesignInv, DesignTyped, Lists
  <1>4. DesignTyped' /\ Blank' /\ Lists'
    BY <1>1, <1>2, <1>3 DEF DesignInv, DesignTyped, Blank, Lists
  <1>5. Reports'
    <2>1. disposed \cup errors = Of(calls)
      BY <1>1 DEF DesignInv, Reports
    <2>2. \A a \in disposed \cup errors : state'[a] = state[a]
      BY <1>1, <1>2, <2>1 DEF DesignInv, DesignTyped
    <2> HIDE DEF h
    <2> QED
      BY <1>1, <1>2, <1>3, <2>1, <2>2 DEF DesignInv, Reports
  <1>6. ASSUME design = "registry" PROVE TriggerFirst'
    <2>1. TriggerFirst
      BY <1>6 DEF DesignInv
    <2>2. CASE turns = <<"trigger", "memory">> /\ calls = <<>>
      BY <1>1, <2>1, <2>2 DEF TriggerFirst
    <2>3. CASE turns = <<"memory">> /\ calls = <<"trigger">>
      <3>1. /\ Head(<<"memory">>) = "memory" /\ Tail(<<"memory">>) = <<>>
            /\ Len(<<"trigger">>) = 1 /\ Len(<<"trigger", "memory">>) = 2
        OBVIOUS
      <3>3. Append(<<"trigger">>, "memory") = <<"trigger", "memory">>
        BY TriggerThenMemory
      <3>2. ~stale
        BY <2>1, <2>3, <3>1 DEF TriggerFirst
      <3> QED
        BY <1>1, <2>3, <3>1, <3>2, <3>3 DEF TriggerFirst
    <2> QED
      BY <1>1, <2>1, <2>2, <2>3 DEF TriggerFirst
  <1> QED
    BY <1>1, <1>4, <1>5, <1>6 DEF DesignInv

\* Of the design that heeds the signal only the lists are known.
LEMMA SkipStep == DesignInv /\ Registry!Skip => DesignInv'
  <1> SUFFICES ASSUME DesignInv, Registry!Skip PROVE DesignInv'
    OBVIOUS
  <1> DEFINE h == Head(turns)
  <1>1. /\ pc = "finally" /\ turns # <<>> /\ design = "heeding" /\ pc' = "finally"
        /\ turns' = Tail(turns) /\ design' = design /\ errorCode' = errorCode /\ InCleanup'
        /\ (Registry!WalksDeps)' = Registry!WalksDeps /\ ~Registry!WalksDeps
        /\ \/ errors' = errors \cup {h} /\ UNCHANGED <<disposed, state, calls>>
           \/ /\ disposed' = disposed \cup {h} /\ calls' = Append(calls, h) /\ errors' = errors
              /\ state' = [state EXCEPT ![h] = "closed"]
    BY DEF Registry!Skip, Registry!WalksDeps, Registry!run, InCleanup
  <1>2. /\ h \in Registry!Adapters /\ turns' \in Closes /\ Of(turns) = {h} \cup Of(turns')
        /\ Apart(turns') /\ h \notin Of(turns') /\ h \notin Of(calls) /\ h # "secrets"
    BY <1>1, HeadAndTail DEF DesignInv, DesignTyped, Lists
  <1>3. /\ Append(calls, h) \in Closes /\ Of(Append(calls, h)) = Of(calls) \cup {h}
        /\ Apart(Append(calls, h))
    BY <1>1, <1>2, Appended DEF DesignInv, DesignTyped, Lists
  <1>4. Apart(calls') /\ calls' \in Closes /\ Of(calls') \subseteq Of(calls) \cup {h}
        /\ Of(calls) \subseteq Of(calls')
    BY <1>1, <1>2, <1>3 DEF DesignInv, DesignTyped, Lists
  <1>5. /\ state' \in [Registry!Adapters -> {"open", "closing", "closed", "failed"}]
        /\ \A a \in Registry!Adapters : state'[a] # "open" => a \in Of(calls')
    <2>1. CASE state' = state
      BY <1>4, <2>1 DEF DesignInv, DesignTyped, Lists
    <2>2. CASE state' # state
      <3>1. calls' = Append(calls, h) /\ state' = [state EXCEPT ![h] = "closed"]
        BY <1>1, <2>2
      <3> HIDE DEF h
      <3> QED
        BY <1>2, <1>3, <3>1 DEF DesignInv, DesignTyped, Lists
    <2> QED
      BY <2>1, <2>2
  <1>6. errors' \subseteq Registry!Adapters /\ disposed' \subseteq Registry!Adapters
    BY <1>1, <1>2 DEF DesignInv, DesignTyped
  <1> HIDE DEF h
  <1>7. DesignTyped' /\ Blank'
    BY <1>1, <1>2, <1>4, <1>5, <1>6 DEF DesignInv, DesignTyped, Blank
  <1>8. Lists'
    BY <1>1, <1>2, <1>4, <1>5 DEF DesignInv, Lists
  <1> QED
    BY <1>1, <1>7, <1>8 DEF DesignInv

LEMMA SettlesStep == DesignInv /\ (\E a \in Registry!Adapters : Registry!Settles(a)) => DesignInv'
  <1> SUFFICES ASSUME DesignInv, NEW a \in Registry!Adapters, Registry!Settles(a) PROVE DesignInv'
    OBVIOUS
  <1>1. /\ state[a] = "closing" /\ a \in Of(calls)
        /\ UNCHANGED <<design, errorCode, turns, calls>> /\ (stale' => stale)
        /\ (Registry!WalksDeps)' = Registry!WalksDeps
    BY DEF Registry!Settles, Registry!run, Registry!WalksDeps, DesignInv, Lists
  <1>2. PICK ok \in BOOLEAN :
          /\ state' = [state EXCEPT ![a] = IF ok THEN "closed" ELSE "failed"]
          /\ IF pc = "closing" /\ a = Registry!Last(calls)
             THEN /\ pc' = "finally"
                  /\ errors' = IF ok THEN errors ELSE errors \cup {a}
                  /\ disposed' = IF ok THEN disposed \cup {a} ELSE disposed
             ELSE UNCHANGED <<pc, errors, disposed>>
    BY DEF Registry!Settles, Registry!CurrentClose, Registry!Failures
  <1>3. InCleanup' /\ InCleanup
    BY <1>1, <1>2 DEF InCleanup, DesignInv, Blank
  <1>4. DesignTyped' /\ Blank' /\ Lists'
    BY <1>1, <1>2, <1>3 DEF DesignInv, DesignTyped, Blank, Lists, InCleanup
  <1>5. ASSUME design # "heeding" PROVE Reports'
    BY <1>1, <1>2, <1>5 DEF DesignInv, DesignTyped, Reports
  <1>6. ASSUME design = "registry" PROVE TriggerFirst'
    BY <1>1, <1>2, <1>3, <1>6 DEF DesignInv, TriggerFirst
  <1> QED
    BY <1>1, <1>4, <1>5, <1>6 DEF DesignInv

LEMMA GivesUpStep == DesignInv /\ Registry!GivesUp => DesignInv'
  <1> SUFFICES ASSUME DesignInv, Registry!GivesUp PROVE DesignInv'
    OBVIOUS
  <1>1. /\ pc = "closing" /\ design \in Registry!Timed /\ pc' = "finally"
        /\ state[Registry!Last(calls)] = "closing" /\ errors' = errors \cup {Registry!Last(calls)}
        /\ UNCHANGED <<design, errorCode, turns, calls, disposed, state>> /\ (stale' => stale)
        /\ (Registry!WalksDeps)' = Registry!WalksDeps /\ InCleanup /\ InCleanup'
    BY DEF Registry!GivesUp, Registry!CurrentClose, Registry!run, Registry!WalksDeps, InCleanup
  <1>2. design # "heeding"
    BY <1>1 DEF Registry!Timed
  <1>3. Registry!Last(calls) \in Registry!Adapters
    BY <1>1, <1>2 DEF DesignInv, DesignTyped, Reports, Of, Closes, Registry!ToSet
  <1> QED
    BY <1>1, <1>2, <1>3 DEF DesignInv, DesignTyped, Blank, Lists, Reports, TriggerFirst

LEMMA DesignStep == DesignInv /\ (Registry!DesignNext \/ UNCHANGED designVars) => DesignInv'
  <1> SUFFICES ASSUME DesignInv, Registry!DesignNext \/ UNCHANGED designVars PROVE DesignInv'
    OBVIOUS
  <1>1. CASE \/ Registry!WriteSettles \/ Registry!Abort \/ UNCHANGED designVars
             \/ \E a \in Registry!Adapters : Registry!TimerFires(a)
    <2>1. /\ UNCHANGED <<design, pc, errorCode, turns, calls, state, errors, disposed>>
          /\ stale' => stale
      BY <1>1 DEF Registry!WriteSettles, Registry!Abort, Registry!TimerFires, designVars,
                  Registry!run, Registry!cleanup
    <2> QED
      BY <2>1, Beside
  <1>2. CASE Registry!DesignReturn
    <2>1. /\ pc = "finally" /\ turns = <<>> /\ pc' = "returned" /\ (stale' => stale)
          /\ UNCHANGED <<design, errorCode, turns, calls, state, errors, disposed>>
      BY <1>2 DEF Registry!DesignReturn, Registry!run, Registry!cleanup
    <2>2. errorCode # "unavailable" /\ InCleanup /\ InCleanup'
      BY <2>1 DEF DesignInv, Blank, InCleanup
    <2> QED
      BY <2>1, <2>2, RunSteps
  <1> QED
    BY <1>1, <1>2, BuildStep, WorkSteps, FiresStep, PassOverStep, CloseStep, SkipStep, SettlesStep,
       GivesUpStep
    DEF Registry!DesignNext

LEMMA DesignFollows == DesignInv => Registry!AllAreClosed
  <1> SUFFICES ASSUME DesignInv PROVE Registry!AllAreClosed
    OBVIOUS
  <1>1. ASSUME pc = "returned", errorCode # "unavailable", design \in Registry!Kept
        PROVE  /\ \A a \in Registry!Disposables : design \notin Registry!Cells \/ a = "memory" =>
                      \E n \in DOMAIN calls : \A m \in DOMAIN calls : calls[m] = a <=> m = n
               /\ disposed \cap errors = {} /\ disposed \cup errors = Registry!ToSet(calls)
               /\ \A a \in disposed : state[a] = "closed"
               /\ design \notin Registry!Timed => \A a \in errors : state[a] = "failed"
    <2>1. design # "heeding" /\ InCleanup
      BY <1>1 DEF Registry!Kept, Registry!Cells, Registry!Options, InCleanup
    <2>2. ASSUME NEW a \in Registry!Disposables, design \notin Registry!Cells \/ a = "memory"
          PROVE  \E n \in DOMAIN calls : \A m \in DOMAIN calls : calls[m] = a <=> m = n
      <3>1. Of(turns) = {}
        BY <1>1, EmptyList DEF DesignInv, Lists
      <3>2. a \in Of(calls)
        BY <2>1, <2>2, <3>1 DEF DesignInv, Lists, Registry!Disposables
      <3>3. PICK n \in DOMAIN calls : calls[n] = a
        BY <3>2 DEF Of, Registry!ToSet
      <3>4. DOMAIN calls = 1..Len(calls)
        BY DEF DesignInv, DesignTyped, Closes
      <3> QED
        BY <3>3, <3>4 DEF DesignInv, Lists, Apart
    <2> QED
      BY <1>1, <2>1, <2>2 DEF DesignInv, Reports, Of
  <1>2. ASSUME design = "registry", "trigger" \in disposed PROVE ~stale
    BY <1>2 DEF DesignInv, TriggerFirst, Reports
  <1>3. ASSUME design # "alpha" PROVE "secrets" \notin Registry!ToSet(calls)
    BY <1>3 DEF DesignInv, Lists, Of
  <1> QED
    BY <1>1, <1>2, <1>3 DEF Registry!AllAreClosed
-----------------------------------------------------------------------------
\* Teardowns are begun in reverse order of their registration, each when the
\* ones after it are torn down or were given up and reported; none is passed
\* over.  Every design but the rejected one closes what must be closed, once,
\* and reports what became of it (disposable.ts 60-115, the probes under
\* research/spikes).
THEOREM DisposedInOrderAlways == MCSpec => []DisposedInOrder
  <1>1. MCInit => RegistryInv /\ DesignInv
    BY RegistryInit, DesignStart DEF MCInit
  <1>2. RegistryInv /\ DesignInv /\ [MCNext]_allVars => (RegistryInv /\ DesignInv)'
    BY PartSteps, RegistryStep, DesignStep
  <1>3. RegistryInv /\ DesignInv => DisposedInOrder
    BY RegistryFollows, DesignFollows DEF DisposedInOrder
  <1> QED
    BY <1>1, <1>2, <1>3, PTL DEF MCSpec
-----------------------------------------------------------------------------
(* One secret behind the TTL and the version-aware resolver.                 *)
SecretsFacts ==
    /\ Backends \subseteq {"env", "oidc", "sops"} /\ TTL \in Nat
    /\ None \notin Nat /\ None \notin Resolvers /\ Secrets!Failed = 0

LEMMA SecretsConstants == SecretsFacts
  BY DependencyAssumption DEF DependencyAssumption, SecretsFacts, Secrets!Failed

Fields == {"at", "from", "stamp", "count", "value", "floor", "quiet", "idle", "asked"}

\* A failure, or a value that is not older than f.
Fresh(v, f) == v = 0 \/ v >= f

\* What call c has, or waits for at one of the processes s, is fresh.
Meets(c, s, f) ==
    /\ c.at \in {"answered", "done"} => Fresh(c.value, f)
    /\ c.at = "waits" /\ c.from # None => Fresh(s[c.from], f)

CallIsSound(c, s, k) ==
    /\ DOMAIN c = Fields /\ c.at \in {"idle", "waits", "answered", "done"}
    /\ c.value \in Nat /\ c.floor \in 0..k /\ c.asked \in 0..k
    /\ c.at = "waits" /\ c.from # None => c.from \in Resolvers /\ s[c.from] # None
    /\ c.quiet => Meets(c, s, c.floor)
    /\ c.idle => Meets(c, s, c.asked)

Flying(r) == resolve[r].at \in {"waits", "answered"}

SecretsTyped ==
    /\ backend \in {"env", "oidc", "sops"} /\ cur \in Nat /\ second \in Nat
    /\ last \in Nat \cup {None} /\ answered \in Nat \cup {None}
    /\ cache # None => cache.value \in Nat
    /\ decode \in Nat \cup {None} /\ sops \in [Resolvers -> Nat \cup {None}]
    /\ pending \in Resolvers \cup {None}
    /\ since \in 0..cur
    /\ DOMAIN resolve = Resolvers

\* Every call is sound; a process is one its caller still waits for.
CallsAreSound ==
    /\ \A r \in Resolvers : CallIsSound(resolve[r], sops, cur)
    /\ \A r \in Resolvers : sops[r] # None => resolve[r].at = "waits" /\ resolve[r].from = r
    /\ pending # None => sops[pending] # None
    /\ backend # "sops" => decode = None /\ \A r \in Resolvers : sops[r] = None

\* If no call was in flight at the last invalidation, what is held and what is
\* in flight is from after it.
HeldIsFresh ==
    ~raced => /\ cache # None => cache.value >= since
              /\ decode # None => Fresh(decode, since)
              /\ \A r \in Resolvers : Flying(r) => resolve[r].quiet /\ resolve[r].floor >= since

\* What was never resolved, or is forgotten, is not held either, but for a file
\* someone is just about to return.
HeldIsDated ==
    /\ last = None => cache = None
    /\ last # None => last = answered
    /\ last = None /\ decode \notin {None, 0} =>
          \E r \in Resolvers : resolve[r].at = "answered" /\ resolve[r].value # 0

SecretsInv == SecretsTyped /\ CallsAreSound /\ HeldIsFresh /\ HeldIsDated

LEMMA SecretsInit == backend \in Backends /\ Secrets!Init => SecretsInv
  <1>0. SecretsFacts
    BY SecretsConstants
  <1> QED
    BY <1>0
    DEF SecretsFacts, Secrets!Init, SecretsInv, SecretsTyped, CallsAreSound, CallIsSound, Fields,
        Meets, Fresh, HeldIsFresh, HeldIsDated, Flying

LEMMA SecretsFollow == SecretsInv => Secrets!ResolvedIsFresh
  <1>0. SecretsFacts
    BY SecretsConstants
  <1> QED
    BY <1>0
    DEF SecretsFacts, SecretsInv, SecretsTyped, CallsAreSound, CallIsSound, Meets, Fresh,
        Secrets!ResolvedIsFresh, Secrets!InvalidatedIsFresh, Secrets!IdleIsFresh,
        Secrets!Returned
-----------------------------------------------------------------------------
LEMMA OutsideSteps ==
    ASSUME SecretsInv, Secrets!Rotate \/ Secrets!Tick \/ Secrets!InvalidateBehind \/ UNCHANGED secretsVars
    PROVE  SecretsInv'
  <1>0. SecretsFacts
    BY SecretsConstants
  <1> USE <1>0 DEF SecretsFacts, SecretsInv, SecretsTyped, CallsAreSound, CallIsSound, Meets, Fresh,
                   HeldIsFresh, HeldIsDated, Flying
  <1>1. CASE Secrets!Rotate
    BY <1>1 DEF Secrets!Rotate, Secrets!inner, Secrets!history
  <1>2. CASE Secrets!Tick
    BY <1>2 DEF Secrets!Tick, Secrets!inner, Secrets!history
  <1>3. CASE Secrets!InvalidateBehind
    BY <1>3 DEF Secrets!InvalidateBehind, Secrets!InvalidateInner, Secrets!world, Secrets!history
  <1>4. CASE UNCHANGED secretsVars
    BY <1>4 DEF secretsVars
  <1> QED
    BY <1>1, <1>2, <1>3, <1>4

LEMMA InvalidateStep == SecretsInv /\ Secrets!Invalidate => SecretsInv'
  <1>0. SecretsFacts
    BY SecretsConstants
  <1> QED
    BY <1>0
    DEF SecretsFacts, SecretsInv, SecretsTyped, CallsAreSound, CallIsSound, Meets, Fresh,
        HeldIsFresh, HeldIsDated, Flying, Secrets!Invalidate, Secrets!InvalidateInner, Secrets!world,
        Secrets!InFlight

\* A process reads the file as it is now: no one who waits for it is asked
\* for more.
LEMMA SopsReadsStep ==
    ASSUME SecretsInv, NEW p \in Resolvers, Secrets!SopsReads(p)
    PROVE  SecretsInv'
  <1>0. SecretsFacts
    BY SecretsConstants
  <1>1. /\ sops' = [sops EXCEPT ![p] = cur] /\ sops[p] = 0
        /\ UNCHANGED <<backend, cur, second, decode, pending, last, cache, resolve, since, raced, answered>>
    BY <1>0 DEF Secrets!SopsReads, Secrets!world, Secrets!history, SecretsFacts
  <1>2. SecretsTyped'
    BY <1>1 DEF SecretsInv, SecretsTyped
  <1>3. \A q \in Resolvers : (sops'[q] # None <=> sops[q] # None) /\ (q # p => sops'[q] = sops[q])
    BY <1>0, <1>1 DEF SecretsFacts, SecretsInv, SecretsTyped
  <1>4. ASSUME NEW r \in Resolvers PROVE CallIsSound(resolve[r], sops', cur)
    <2>1. CallIsSound(resolve[r], sops, cur)
      BY DEF SecretsInv, CallsAreSound
    <2>2. sops'[p] = cur /\ cur \in Nat
      BY <1>1 DEF SecretsInv, SecretsTyped
    <2> QED
      BY <1>3, <2>1, <2>2 DEF CallIsSound, Meets, Fresh
  <1>5. CallsAreSound'
    BY <1>0, <1>1, <1>3, <1>4 DEF SecretsFacts, SecretsInv, SecretsTyped, CallsAreSound
  <1>6. HeldIsFresh' /\ HeldIsDated'
    BY <1>1 DEF SecretsInv, HeldIsFresh, HeldIsDated, Flying
  <1> QED
    BY <1>2, <1>5, <1>6 DEF SecretsInv

\* c is answered, and d is what becomes of it.
Turns(c, d, v) ==
    /\ c.at = "waits" /\ DOMAIN d = Fields /\ d.at = "answered" /\ d.value = v
    /\ d.floor = c.floor /\ d.asked = c.asked /\ d.quiet = c.quiet /\ d.idle = c.idle

LEMMA AnswerIsSound ==
    ASSUME NEW c, NEW d, NEW s, NEW t, NEW k \in Nat, NEW v \in Nat, CallIsSound(c, s, k), Turns(c, d, v),
           c.quiet => Fresh(v, c.floor), c.idle => Fresh(v, c.asked)
    PROVE  CallIsSound(d, t, k)
  BY DEF CallIsSound, Turns, Meets

LEMMA TokenStep ==
    ASSUME SecretsInv, NEW r \in Resolvers, Secrets!TokenArrives(r)
    PROVE  SecretsInv'
  <1>0. SecretsFacts
    BY SecretsConstants
  <1>1. PICK v \in {cur, 0} :
          resolve' = [resolve EXCEPT ![r].at = "answered", ![r].value = v]
    BY <1>0 DEF Secrets!TokenArrives, SecretsFacts
  <1>2. /\ resolve[r].at = "waits" /\ DOMAIN resolve = Resolvers
        /\ UNCHANGED <<backend, cur, second, decode, pending, sops, last, cache, since, raced, answered>>
        /\ backend = "oidc"
    BY DEF Secrets!TokenArrives, Secrets!world, Secrets!inner, Secrets!history, SecretsInv, SecretsTyped
  <1>3. CallIsSound(resolve[r], sops, cur) /\ cur \in Nat /\ v \in Nat /\ sops[r] = None
    BY <1>2 DEF SecretsInv, SecretsTyped, CallsAreSound
  <1>4. Turns(resolve[r], resolve'[r], v) /\ \A q \in Resolvers : q # r => resolve'[q] = resolve[q]
    BY <1>1, <1>2, <1>3 DEF Turns, CallIsSound, Fields
  <1>5. CallIsSound(resolve'[r], sops, cur)
    <2>1. (resolve[r].quiet => Fresh(v, resolve[r].floor)) /\ (resolve[r].idle => Fresh(v, resolve[r].asked))
      BY <1>3 DEF CallIsSound, Fresh
    <2> QED
      BY <1>3, <1>4, <2>1, AnswerIsSound
  <1>6. SecretsTyped' /\ CallsAreSound'
    BY <1>1, <1>2, <1>3, <1>4, <1>5 DEF SecretsInv, SecretsTyped, CallsAreSound
  <1>7. HeldIsFresh'
    BY <1>2, <1>4 DEF SecretsInv, HeldIsFresh, Flying, Turns
  <1>8. HeldIsDated'
    <2>1. \A q \in Resolvers : resolve[q].at = "answered" => resolve'[q] = resolve[q]
      BY <1>2, <1>4
    <2> QED
      BY <1>2, <2>1 DEF SecretsInv, HeldIsDated
  <1> QED
    BY <1>6, <1>7, <1>8 DEF SecretsInv

\* What a process says is kept for whoever resolves next, and is told to all
\* that wait for it.
LEMMA SopsEndsStep ==
    ASSUME SecretsInv, NEW p \in Resolvers, Secrets!SopsEnds(p)
    PROVE  SecretsInv'
  <1>0. SecretsFacts
    BY SecretsConstants
  <1> DEFINE tells(r) == resolve[r].at = "waits" /\ resolve[r].from = p
  <1>1. PICK v \in {sops[p], 0} :
          /\ resolve' = [c \in Resolvers |->
                          IF tells(c)
                          THEN [resolve[c] EXCEPT !.at = "answered", !.value = v, !.from = None]
                          ELSE resolve[c]]
          /\ decode' = v
    BY <1>0 DEF Secrets!SopsEnds, SecretsFacts
  <1>2. /\ sops[p] # None /\ sops' = [sops EXCEPT ![p] = None] /\ pending' = None
        /\ UNCHANGED <<backend, cur, second, last, cache, since, raced, answered>>
    BY DEF Secrets!SopsEnds, Secrets!world, Secrets!history
  <1>3. v \in Nat /\ cur \in Nat /\ tells(p) /\ sops \in [Resolvers -> Nat \cup {None}]
    <2>1. sops \in [Resolvers -> Nat \cup {None}] /\ cur \in Nat
      BY DEF SecretsInv, SecretsTyped
    <2>2. sops[p] \in Nat /\ v \in {sops[p], 0}
      BY <1>2, <2>1
    <2>3. tells(p)
      BY <1>2 DEF SecretsInv, CallsAreSound
    <2> QED
      BY <2>1, <2>2, <2>3
  <1>4. ASSUME NEW r \in Resolvers, tells(r)
        PROVE  Turns(resolve[r], resolve'[r], v) /\ CallIsSound(resolve'[r], sops', cur)
    <2>1. CallIsSound(resolve[r], sops, cur)
      BY DEF SecretsInv, CallsAreSound
    <2>2. Turns(resolve[r], resolve'[r], v)
      BY <1>1, <1>4, <2>1 DEF Turns, CallIsSound, Fields
    <2>3. (resolve[r].quiet => Fresh(v, resolve[r].floor)) /\ (resolve[r].idle => Fresh(v, resolve[r].asked))
      BY <1>0, <1>1, <1>4, <2>1 DEF CallIsSound, Meets, Fresh, SecretsFacts
    <2> QED
      BY <1>3, <2>1, <2>2, <2>3, AnswerIsSound
  <1>5. ASSUME NEW r \in Resolvers, ~tells(r)
        PROVE  resolve'[r] = resolve[r] /\ CallIsSound(resolve'[r], sops', cur)
    <2>1. CallIsSound(resolve[r], sops, cur)
      BY DEF SecretsInv, CallsAreSound
    <2>2. resolve'[r] = resolve[r]
      BY <1>1, <1>5
    <2>3. resolve[r].at = "waits" => resolve[r].from # p
      BY <1>5
    <2>4. \A q \in Resolvers : q # p => sops'[q] = sops[q]
      BY <1>2, <1>3
    <2> HIDE DEF tells
    <2> QED
      BY <2>1, <2>2, <2>3, <2>4 DEF CallIsSound, Meets
  <1>6. sops' \in [Resolvers -> Nat \cup {None}] /\ sops'[p] = None
        /\ \A q \in Resolvers : q # p => sops'[q] = sops[q]
    BY <1>2, <1>3
  <1>7. DOMAIN resolve' = Resolvers
    BY <1>1
  <1>8. \A r \in Resolvers : r # p /\ sops[r] # None => ~tells(r)
    BY DEF SecretsInv, CallsAreSound
  <1> HIDE DEF tells
  <1>9. SecretsTyped'
    BY <1>0, <1>1, <1>2, <1>3, <1>6, <1>7 DEF SecretsInv, SecretsTyped
  <1>10. CallsAreSound'
    BY <1>2, <1>4, <1>5, <1>6, <1>8 DEF SecretsInv, CallsAreSound
  <1>11. HeldIsFresh'
    <2> SUFFICES ASSUME ~raced PROVE HeldIsFresh'
      BY <1>2 DEF HeldIsFresh
    <2>1. Fresh(v, since)
      <3>1. Flying(p) /\ resolve[p].quiet /\ resolve[p].floor >= since
        BY <1>3 DEF tells, SecretsInv, HeldIsFresh, Flying
      <3>2. /\ CallIsSound(resolve[p], sops, cur) /\ since \in Nat /\ resolve[p].at = "waits"
            /\ resolve[p].from = p
        BY <1>3 DEF tells, SecretsInv, SecretsTyped, CallsAreSound
      <3>3. p # None
        BY <1>0 DEF SecretsFacts
      <3>4. Fresh(sops[p], resolve[p].floor)
        BY <3>1, <3>2, <3>3 DEF CallIsSound, Meets
      <3>5. sops[p] \in Nat /\ resolve[p].floor \in Nat
        BY <1>2, <1>3, <3>2 DEF CallIsSound
      <3>6. v = sops[p] \/ v = 0
        OBVIOUS
      <3> QED
        BY <3>1, <3>2, <3>4, <3>5, <3>6 DEF Fresh
    <2>2. \A r \in Resolvers : Flying(r)' => Flying(r) /\ resolve'[r].quiet = resolve[r].quiet
                                             /\ resolve'[r].floor = resolve[r].floor
      BY <1>4, <1>5 DEF Flying, Turns
    <2> QED
      BY <1>1, <1>2, <2>1, <2>2 DEF SecretsInv, HeldIsFresh, Flying
  <1>12. HeldIsDated'
    <2>1. resolve'[p].at = "answered" /\ resolve'[p].value = v
      BY <1>3, <1>4 DEF Turns
    <2> QED
      BY <1>1, <1>2, <2>1 DEF SecretsInv, HeldIsDated
  <1> QED
    BY <1>9, <1>10, <1>11, <1>12 DEF SecretsInv

LEMMA FinishStep ==
    ASSUME SecretsInv, NEW r \in Resolvers, Secrets!Finish(r)
    PROVE  SecretsInv'
  <1>0. SecretsFacts
    BY SecretsConstants
  <1>1. /\ resolve[r].at = "answered" /\ resolve' = [resolve EXCEPT ![r].at = "done"]
        /\ UNCHANGED <<backend, cur, second, decode, pending, sops, since, raced>>
        /\ \/ resolve[r].value = 0 /\ UNCHANGED <<cache, last, answered>>
           \/ /\ resolve[r].value # 0 /\ cache'.value = resolve[r].value
              /\ last' = second /\ answered' = second
    BY <1>0 DEF Secrets!Finish, Secrets!world, Secrets!inner, SecretsFacts
  <1>2. CallIsSound(resolve[r], sops, cur) /\ DOMAIN resolve = Resolvers /\ second \in Nat /\ second # None
    BY <1>0 DEF SecretsInv, SecretsTyped, CallsAreSound, SecretsFacts
  <1>3. /\ DOMAIN resolve'[r] = Fields /\ resolve'[r].at = "done" /\ resolve'[r].value = resolve[r].value
        /\ resolve'[r].floor = resolve[r].floor /\ resolve'[r].asked = resolve[r].asked
        /\ resolve'[r].quiet = resolve[r].quiet /\ resolve'[r].idle = resolve[r].idle
        /\ DOMAIN resolve' = Resolvers
    BY <1>1, <1>2 DEF CallIsSound, Fields
  <1>4. \A q \in Resolvers : q # r => resolve'[q] = resolve[q]
    BY <1>1, <1>2
  <1>5. CallIsSound(resolve'[r], sops, cur)
    BY <1>1, <1>2, <1>3 DEF CallIsSound, Meets
  <1>6. SecretsTyped'
    BY <1>1, <1>2, <1>3 DEF SecretsInv, SecretsTyped, CallIsSound
  <1>7. CallsAreSound'
    BY <1>1, <1>3, <1>4, <1>5 DEF SecretsInv, CallsAreSound
  <1>8. HeldIsFresh'
    <2>1. ASSUME ~raced, resolve[r].value # 0 PROVE resolve[r].value >= since
      <3>1. resolve[r].quiet /\ resolve[r].floor >= since
        BY <1>1, <2>1 DEF SecretsInv, HeldIsFresh, Flying
      <3>2. Fresh(resolve[r].value, resolve[r].floor) /\ since \in Nat
        BY <1>1, <1>2, <3>1 DEF CallIsSound, Meets, SecretsInv, SecretsTyped
      <3> QED
        BY <1>2, <2>1, <3>1, <3>2 DEF Fresh, CallIsSound
    <2> QED
      BY <1>1, <1>3, <1>4, <2>1 DEF SecretsInv, HeldIsFresh, Flying
  <1>9. HeldIsDated'
    BY <1>1, <1>2, <1>3, <1>4 DEF SecretsInv, HeldIsDated
  <1> QED
    BY <1>6, <1>7, <1>8, <1>9 DEF SecretsInv
-----------------------------------------------------------------------------
\* What a call that begins as c is after its first steps.
Begun(c, n) ==
    /\ DOMAIN n = Fields /\ n.value \in Nat
    /\ n.floor = c.floor /\ n.asked = c.asked /\ n.quiet = c.quiet /\ n.idle = c.idle
Begins(c) == DOMAIN c = Fields /\ c.at = "waits" /\ c.from = None /\ c.value = 0

\* The answers of the three backends, or what there is to wait for.
AskedOf(n, d, p, r) ==
    \/ /\ backend = "env" /\ n.at = "answered" /\ n.value = cur
       /\ UNCHANGED <<decode, pending, sops>>
    \/ /\ backend = "oidc" /\ n.at = "waits" /\ n.from = None
       /\ UNCHANGED <<decode, pending, sops>>
    \/ /\ backend = "sops" /\ d # None /\ n.at = "answered" /\ n.value = d
       /\ decode' = d /\ pending' = p /\ sops' = sops
    \/ /\ backend = "sops" /\ d = None /\ p # None /\ n.at = "waits" /\ n.from = p
       /\ decode' = d /\ pending' = p /\ sops' = sops
    \/ /\ backend = "sops" /\ d = None /\ n.at = "waits" /\ n.from = r
       /\ decode' = d /\ pending' = r /\ sops' = [sops EXCEPT ![r] = 0]

LEMMA AskFacts ==
    ASSUME SecretsTyped, NEW r \in Resolvers, NEW c, NEW d \in Nat \cup {None}, NEW p, Begins(c),
           Secrets!Ask(r, c, d, p)
    PROVE  \E n : resolve' = [resolve EXCEPT ![r] = n] /\ Begun(c, n) /\ AskedOf(n, d, p, r)
  <1>0. SecretsFacts
    BY SecretsConstants
  <1>1. CASE backend = "env"
    <2> DEFINE n == [c EXCEPT !.at = "answered", !.value = cur]
    <2>1. resolve' = [resolve EXCEPT ![r] = n] /\ UNCHANGED <<decode, pending, sops>>
      BY <1>1 DEF Secrets!Ask
    <2>2. Begun(c, n) /\ n.at = "answered" /\ n.value = cur
      BY DEF SecretsTyped, Begins, Begun, Fields
    <2> HIDE DEF n
    <2>3. AskedOf(n, d, p, r)
      BY <1>1, <2>1, <2>2 DEF AskedOf
    <2> QED
      BY <2>1, <2>2, <2>3
  <1>2. CASE backend = "oidc"
    <2>1. resolve' = [resolve EXCEPT ![r] = c] /\ UNCHANGED <<decode, pending, sops>>
      BY <1>2 DEF Secrets!Ask
    <2>2. Begun(c, c) /\ AskedOf(c, d, p, r)
      BY <1>2, <2>1 DEF Begins, Begun, AskedOf
    <2> QED
      BY <2>1, <2>2
  <1>3. CASE backend = "sops" /\ d # None
    <2> DEFINE n == [c EXCEPT !.at = "answered", !.value = d]
    <2>1. resolve' = [resolve EXCEPT ![r] = n] /\ decode' = d /\ pending' = p /\ sops' = sops
      BY <1>3 DEF Secrets!Ask, Secrets!Decode
    <2>2. Begun(c, n) /\ n.at = "answered" /\ n.value = d
      BY <1>3 DEF Begins, Begun, Fields
    <2> HIDE DEF n
    <2>3. AskedOf(n, d, p, r)
      BY <1>3, <2>1, <2>2 DEF AskedOf
    <2> QED
      BY <2>1, <2>2, <2>3
  <1>4. ASSUME backend = "sops", d = None, NEW q \in {p, r}, q = p => p # None, q # p => p = None,
               resolve' = [resolve EXCEPT ![r] = [c EXCEPT !.from = q]]
        PROVE  \E n : resolve' = [resolve EXCEPT ![r] = n] /\ Begun(c, n) /\ AskedOf(n, d, p, r)
    <2> DEFINE n == [c EXCEPT !.from = q]
    <2>1. decode' = d /\ (q = p => pending' = p /\ sops' = sops)
          /\ (q # p => pending' = r /\ sops' = [sops EXCEPT ![r] = 0])
      BY <1>0, <1>4 DEF Secrets!Ask, Secrets!Decode, SecretsFacts
    <2>2. Begun(c, n) /\ n.at = "waits" /\ n.from = q
      BY DEF Begins, Begun, Fields
    <2> HIDE DEF n
    <2>3. AskedOf(n, d, p, r)
      BY <1>4, <2>1, <2>2 DEF AskedOf
    <2> QED
      BY <1>4, <2>2, <2>3 DEF n
  <1>5. CASE backend = "sops" /\ d = None
    <2>1. CASE p # None
      <3>1. resolve' = [resolve EXCEPT ![r] = [c EXCEPT !.from = p]]
        BY <1>5, <2>1 DEF Secrets!Ask, Secrets!Decode
      <3> QED
        BY <1>4, <1>5, <2>1, <3>1
    <2>2. CASE p = None
      <3>1. resolve' = [resolve EXCEPT ![r] = [c EXCEPT !.from = r]] /\ r # p
        BY <1>0, <1>5, <2>2 DEF Secrets!Ask, Secrets!Decode, SecretsFacts
      <3> QED
        BY <1>4, <1>5, <2>2, <3>1
    <2> QED
      BY <2>1, <2>2
  <1> QED
    BY <1>1, <1>2, <1>3, <1>5 DEF SecretsTyped

\* A call that begins changes the calls in one place, and may spawn a process.
Installs(r, n) ==
    /\ resolve[r].at \in {"idle", "done"} /\ resolve' = [resolve EXCEPT ![r] = n]
    /\ CallIsSound(n, sops', cur) /\ UNCHANGED <<backend, cur>>
    /\ sops' = sops \/ (backend = "sops" /\ sops' = [sops EXCEPT ![r] = 0] /\ n.at = "waits" /\ n.from = r)
    /\ pending' \in {None, pending} \/ (pending' = r /\ sops'[r] # None)
    /\ backend # "sops" => decode' = None
Installed(r, n) ==
    /\ CallsAreSound' /\ DOMAIN resolve' = Resolvers /\ sops' \in [Resolvers -> Nat \cup {None}]
    /\ pending' \in Resolvers \cup {None}
    /\ resolve'[r] = n /\ \A q \in Resolvers : q # r => resolve'[q] = resolve[q]

LEMMA CallBegins ==
    ASSUME SecretsInv, NEW r \in Resolvers, NEW n, Installs(r, n)
    PROVE  Installed(r, n)
  <1> USE DEF Installs
  <1>0. SecretsFacts
    BY SecretsConstants
  <1>1. /\ DOMAIN resolve = Resolvers /\ sops \in [Resolvers -> Nat \cup {None}] /\ sops[r] = None
        /\ pending \in Resolvers \cup {None} /\ cur \in Nat
    BY DEF SecretsInv, SecretsTyped, CallsAreSound
  <1>2. /\ DOMAIN resolve' = Resolvers /\ resolve'[r] = n
        /\ \A q \in Resolvers : q # r => resolve'[q] = resolve[q]
    BY <1>1
  <1>3. /\ sops' \in [Resolvers -> Nat \cup {None}]
        /\ \A q \in Resolvers : q # r => sops'[q] = sops[q]
        /\ sops'[r] # None => backend = "sops" /\ n.at = "waits" /\ n.from = r
    BY <1>1
  <1>4. ASSUME NEW q \in Resolvers, q # r PROVE CallIsSound(resolve'[q], sops', cur)
    <2>1. CallIsSound(resolve[q], sops, cur) /\ resolve'[q] = resolve[q]
      BY <1>2, <1>4 DEF SecretsInv, CallsAreSound
    <2>2. resolve[q].at = "waits" /\ resolve[q].from # None => resolve[q].from # r
      BY <1>1, <2>1 DEF CallIsSound
    <2> QED
      BY <1>3, <2>1, <2>2 DEF CallIsSound, Meets
  <1>5. pending' # None => sops'[pending'] # None
    BY <1>0, <1>1, <1>3 DEF SecretsFacts, SecretsInv, CallsAreSound
  <1> QED
    BY <1>1, <1>2, <1>3, <1>4, <1>5 DEF SecretsInv, CallsAreSound, Installed
-----------------------------------------------------------------------------
\* A resolve that finds the value outlived invalidates first.
LEMMA ExpiredStep ==
    ASSUME SecretsInv, NEW r \in Resolvers, Secrets!Resolve(r), last # None, Secrets!Expired
    PROVE  SecretsInv'
  <1>0. SecretsFacts
    BY SecretsConstants
  <1> DEFINE idle == ~Secrets!InFlight /\ answered # None /\ second >= answered + TTL
             b == [at |-> "waits", from |-> None, stamp |-> 0, count |-> count + 1,
                   value |-> 0, floor |-> since, quiet |-> ~raced,
                   idle |-> idle, asked |-> cur]
             c == [[b EXCEPT !.floor = cur, !.quiet = ~Secrets!InFlight]
                      EXCEPT !.stamp = IF None = None THEN 0 ELSE version + 1]
  <1>1. /\ resolve[r].at \in {"idle", "done"} /\ since' = cur /\ last' = None /\ cache' = None
        /\ (raced' <=> Secrets!InFlight) /\ UNCHANGED <<backend, cur, second, answered>>
        /\ Secrets!Ask(r, c, None, None)
    BY <1>0 DEF SecretsFacts, Secrets!Resolve, Secrets!ResolveVersioned, Secrets!Hit, Secrets!world
  <1>2. Begins(c) /\ c.floor = cur /\ c.asked = cur /\ (c.quiet <=> ~Secrets!InFlight)
    BY DEF Begins, Fields
  <1> HIDE DEF c
  <1>3. PICK n : resolve' = [resolve EXCEPT ![r] = n] /\ Begun(c, n) /\ AskedOf(n, None, None, r)
    BY <1>1, <1>2, AskFacts DEF SecretsInv
  <1>4. cur \in Nat /\ sops \in [Resolvers -> Nat \cup {None}] /\ (backend # "sops" => decode = None)
        /\ backend \in {"env", "oidc", "sops"}
    BY DEF SecretsInv, SecretsTyped, CallsAreSound
  <1>5. CallIsSound(n, sops', cur)
    <2>1. n.at = "answered" => n.value = cur
      BY <1>3 DEF AskedOf
    <2>2. n.at = "waits" /\ n.from # None => n.from = r /\ sops'[r] = 0
      BY <1>3, <1>4 DEF AskedOf
    <2>3. n.at \in {"waits", "answered"}
      BY <1>3 DEF AskedOf
    <2> QED
      BY <1>0, <1>2, <1>3, <1>4, <2>1, <2>2, <2>3 DEF SecretsFacts, CallIsSound, Begun, Meets, Fresh
  <1>6. /\ sops' = sops \/ (backend = "sops" /\ sops' = [sops EXCEPT ![r] = 0] /\ n.at = "waits" /\ n.from = r)
        /\ pending' \in {None, pending} \/ (pending' = r /\ sops'[r] # None)
        /\ decode' = None
    BY <1>0, <1>3, <1>4 DEF SecretsFacts, AskedOf
  <1>7. Installed(r, n)
    <2>1. Installs(r, n)
      BY <1>1, <1>3, <1>5, <1>6 DEF Installs
    <2> QED
      BY <2>1, CallBegins
  <1>8. SecretsTyped'
    BY <1>0, <1>1, <1>4, <1>6, <1>7 DEF SecretsFacts, SecretsInv, SecretsTyped, Installed
  <1>9. HeldIsFresh'
    <2> SUFFICES ASSUME ~raced', NEW q \in Resolvers, Flying(q)'
                 PROVE  resolve'[q].quiet /\ resolve'[q].floor >= cur
      BY <1>1, <1>6 DEF HeldIsFresh
    <2>1. ~Secrets!InFlight
      BY <1>1
    <2>2. q = r
      BY <1>7, <2>1 DEF Secrets!InFlight, Flying, Installed
    <2>3. n.quiet
      BY <1>2, <1>3, <2>1 DEF Begun
    <2> QED
      BY <1>2, <1>3, <1>4, <1>7, <2>2, <2>3 DEF Begun, Installed
  <1>10. HeldIsDated'
    BY <1>1, <1>6 DEF HeldIsDated
  <1> QED
    BY <1>7, <1>8, <1>9, <1>10 DEF SecretsInv, Installed

\* Any other: it is served from what is held, or asks.
LEMMA UnexpiredStep ==
    ASSUME SecretsInv, NEW r \in Resolvers, Secrets!Resolve(r), ~(last # None /\ Secrets!Expired)
    PROVE  SecretsInv'
  <1>0. SecretsFacts
    BY SecretsConstants
  <1> DEFINE idle == ~Secrets!InFlight /\ answered # None /\ second >= answered + TTL
             c == [at |-> "waits", from |-> None, stamp |-> 0, count |-> count + 1,
                   value |-> 0, floor |-> since, quiet |-> ~raced,
                   idle |-> idle, asked |-> cur]
  <1>1. /\ resolve[r].at \in {"idle", "done"} /\ UNCHANGED <<backend, cur, second, since, raced>>
        /\ Secrets!ResolveVersioned(r, c, cache, version, decode, pending)
        /\ last' = IF Secrets!Hit(cache, version) THEN second ELSE last
    BY <1>0 DEF SecretsFacts, Secrets!Resolve, Secrets!world
  <1>2. Begins(c) /\ c.floor = since /\ c.asked = cur /\ (c.quiet <=> ~raced) /\ (c.idle <=> idle)
    BY DEF Begins, Fields
  <1>3. idle => /\ last = None /\ cache = None
                /\ decode \in {None, 0}
                /\ pending = None
    <2> SUFFICES ASSUME idle PROVE last = None /\ cache = None /\ decode \in {None, 0} /\ pending = None
      OBVIOUS
    <2>1. last = None
      BY <1>0 DEF Secrets!Expired, SecretsInv, HeldIsDated, SecretsFacts, SecretsTyped
    <2>2. \A q \in Resolvers : resolve[q].at \notin {"waits", "answered"}
      BY DEF Secrets!InFlight
    <2> QED
      BY <2>1, <2>2 DEF SecretsInv, HeldIsDated, CallsAreSound, SecretsTyped
  <1>4. /\ cur \in Nat /\ since \in 0..cur /\ sops \in [Resolvers -> Nat \cup {None}] /\ second \in Nat
        /\ decode \in Nat \cup {None} /\ (backend # "sops" => decode = None)
        /\ backend \in {"env", "oidc", "sops"} /\ pending \in Resolvers \cup {None}
        /\ (cache # None => cache.value \in Nat)
    BY DEF SecretsInv, SecretsTyped, CallsAreSound
  <1> HIDE DEF c, idle
  <1>5. CASE Secrets!Hit(cache, version)
    <2> DEFINE n == [c EXCEPT !.at = "done", !.value = cache.value]
    <2>1. /\ cache # None /\ last' = second /\ answered' = second /\ cache' = cache
          /\ resolve' = [resolve EXCEPT ![r] = n] /\ UNCHANGED <<decode, pending, sops>>
      BY <1>1, <1>5 DEF Secrets!ResolveVersioned, Secrets!Hit
    <2>2. Begun(c, n) /\ n.at = "done" /\ n.value = cache.value
      BY <1>2, <1>4, <2>1 DEF Begins, Begun, Fields
    <2> HIDE DEF n
    <2>3. CallIsSound(n, sops', cur)
      <3>1. ~raced => cache.value >= since
        BY <2>1 DEF SecretsInv, HeldIsFresh
      <3> QED
        BY <1>2, <1>3, <1>4, <2>1, <2>2, <3>1 DEF CallIsSound, Begun, Meets, Fresh
    <2>4. Installed(r, n)
      <3>1. Installs(r, n)
        BY <1>1, <1>4, <2>1, <2>3 DEF Installs
      <3> QED
        BY <3>1, CallBegins
    <2>5. SecretsTyped'
      BY <1>1, <1>4, <2>1, <2>4 DEF SecretsInv, SecretsTyped, Installed
    <2>6. HeldIsFresh' /\ HeldIsDated'
      BY <1>0, <1>1, <1>4, <2>1, <2>2, <2>4 DEF SecretsFacts, SecretsInv, HeldIsFresh, HeldIsDated, Flying, Installed
    <2> QED
      BY <2>4, <2>5, <2>6 DEF SecretsInv, Installed
  <1>6. CASE ~Secrets!Hit(cache, version)
    <2>1. PICK stamp : Secrets!Ask(r, [c EXCEPT !.stamp = stamp], decode, pending)
      BY <1>1, <1>6 DEF Secrets!ResolveVersioned
    <2>2. /\ cache' = None /\ last' = last /\ answered' = answered
      BY <1>1, <1>6 DEF Secrets!ResolveVersioned
    <2> DEFINE d == [c EXCEPT !.stamp = stamp]
    <2>3. /\ Begins(d) /\ d.floor = since /\ d.asked = cur
          /\ (d.quiet <=> ~raced) /\ (d.idle <=> idle)
      BY <1>2 DEF Begins, Fields
    <2> HIDE DEF d
    <2>4. PICK n : resolve' = [resolve EXCEPT ![r] = n] /\ Begun(d, n) /\ AskedOf(n, decode, pending, r)
      BY <1>4, <2>1, <2>3, AskFacts DEF SecretsInv, d
    <2>5. CallIsSound(n, sops', cur)
      <3>1. n.at \in {"waits", "answered"}
        BY <2>4 DEF AskedOf
      <3>2. n.at = "answered" => n.value = cur \/ (n.value = decode /\ decode # None)
        BY <2>4 DEF AskedOf
      <3>3. n.at = "waits" /\ n.from # None =>
                \/ n.from = r /\ sops'[r] = 0
                \/ n.from = pending /\ pending # None /\ sops' = sops
        BY <1>4, <2>4 DEF AskedOf
      <3>4. ~raced /\ decode # None => Fresh(decode, since)
        BY DEF SecretsInv, HeldIsFresh
      <3>5. ~raced /\ pending # None => Fresh(sops[pending], since)
        <4> SUFFICES ASSUME ~raced, pending # None PROVE Fresh(sops[pending], since)
          OBVIOUS
        <4>1. /\ pending \in Resolvers /\ sops[pending] # None /\ resolve[pending].at = "waits"
              /\ resolve[pending].from = pending
          BY <1>4 DEF SecretsInv, CallsAreSound
        <4>2. resolve[pending].quiet /\ resolve[pending].floor >= since
          BY <4>1 DEF SecretsInv, HeldIsFresh, Flying, Installed
        <4>3. CallIsSound(resolve[pending], sops, cur)
          BY <4>1 DEF SecretsInv, CallsAreSound
        <4>4. Fresh(sops[pending], resolve[pending].floor) /\ resolve[pending].floor \in Nat
          BY <4>1, <4>2, <4>3 DEF CallIsSound, Meets
        <4>5. sops[pending] \in Nat
          BY <1>4, <4>1
        <4> QED
          BY <1>4, <4>2, <4>4, <4>5 DEF Fresh
      <3>6. pending # None => sops[pending] # None
        BY DEF SecretsInv, CallsAreSound
      <3>7. n.quiet => Meets(n, sops', n.floor)
        BY <1>0, <1>4, <2>3, <2>4, <3>1, <3>2, <3>3, <3>4, <3>5 DEF SecretsFacts, Begun, Meets, Fresh
      <3>8. n.idle => Meets(n, sops', n.asked)
        BY <1>0, <1>3, <1>4, <2>3, <2>4, <3>1, <3>2, <3>3 DEF SecretsFacts, Begun, Meets, Fresh
      <3>9. n.at = "waits" /\ n.from # None => n.from \in Resolvers /\ sops'[n.from] # None
        BY <1>0, <1>4, <3>3, <3>6 DEF SecretsFacts
      <3> QED
        BY <1>4, <2>3, <2>4, <3>1, <3>7, <3>8, <3>9 DEF CallIsSound, Begun
    <2>6. /\ sops' = sops \/ (backend = "sops" /\ sops' = [sops EXCEPT ![r] = 0] /\ n.at = "waits" /\ n.from = r)
          /\ pending' \in {None, pending} \/ (pending' = r /\ sops'[r] # None)
          /\ decode' = decode
      BY <1>0, <1>4, <2>4 DEF SecretsFacts, AskedOf
    <2>7. Installed(r, n)
      <3>1. Installs(r, n)
        BY <1>1, <1>4, <2>4, <2>5, <2>6 DEF Installs
      <3> QED
        BY <3>1, CallBegins
    <2>8. SecretsTyped'
      BY <1>0, <1>1, <1>4, <2>2, <2>6, <2>7 DEF SecretsFacts, SecretsInv, SecretsTyped, Installed
    <2>9. HeldIsFresh'
      <3>1. n.floor = since /\ (n.quiet <=> ~raced)
        BY <2>3, <2>4 DEF Begun
      <3> QED
        BY <1>1, <1>4, <2>2, <2>6, <2>7, <3>1 DEF SecretsInv, HeldIsFresh, Flying, Installed
    <2>10. HeldIsDated'
      BY <1>1, <2>2, <2>6, <2>7 DEF SecretsInv, HeldIsDated, Installed
    <2> QED
      BY <2>7, <2>8, <2>9, <2>10 DEF SecretsInv, Installed
  <1> QED
    BY <1>5, <1>6

LEMMA SecretsStep == SecretsInv /\ (Secrets!Next \/ UNCHANGED secretsVars) => SecretsInv'
  <1> SUFFICES ASSUME SecretsInv, Secrets!Next \/ UNCHANGED secretsVars PROVE SecretsInv'
    OBVIOUS
  <1>1. ASSUME NEW r \in Resolvers, Secrets!Resolve(r) PROVE SecretsInv'
    BY <1>1, ExpiredStep, UnexpiredStep
  <1> QED
    BY <1>1, TokenStep, FinishStep, SopsReadsStep, SopsEndsStep, InvalidateStep, OutsideSteps
    DEF Secrets!Next
-----------------------------------------------------------------------------
(* Several secrets behind scope() and the version-aware resolver.            *)
\* What is kept for a name is its own, not older than it was told before.
KeptIsOwn(f) ==
    kept[f] # None =>
        /\ Secrets!IsValue(kept[f]) /\ kept[f].of \in {f, <<>>}
        /\ kept[f].gen \in floor[f]..gen

\* The decoded file is not older than anything that was told or is kept.
FileIsNewest ==
    decoded # None =>
        /\ source = "sops" /\ decoded.gen \in 0..gen
        /\ \A f \in Secrets!Flat : floor[f] <= decoded.gen
        /\ \A f \in Secrets!Flat : kept[f] # None => kept[f].gen <= decoded.gen

NamesInv ==
    /\ source \in {"env", "aws", "azure", "gcp", "sops"} /\ gen \in Nat
    /\ floor \in [Secrets!Flat -> 0..gen] /\ DOMAIN kept = Secrets!Flat
    /\ \A f \in Secrets!Flat : KeptIsOwn(f)
    /\ FileIsNewest
    /\ Secrets!NamesAreTheirOwn /\ Secrets!ErrorsAreNotKept

LEMMA NamesInit == Secrets!NameInit => NamesInv
  <1>0. Sources \subseteq {"env", "aws", "azure", "gcp", "sops"}
    BY DependencyAssumption DEF DependencyAssumption
  <1> QED
    BY <1>0
    DEF Secrets!NameInit, NamesInv, KeptIsOwn, FileIsNewest, Secrets!NamesAreTheirOwn,
        Secrets!ErrorsAreNotKept

\* A value that is asked for is the name's own, of now or of the decoded file.
LEMMA AnswersAreOwn ==
    ASSUME NamesInv, NEW f \in Secrets!Flat, NEW a \in Secrets!Answers(f), Secrets!IsValue(a)
    PROVE  /\ a.of \in {f, <<>>}
           /\ a.gen = IF source = "sops" /\ decoded # None THEN decoded.gen ELSE gen
  <1>1. ASSUME NEW g, a = [of |-> f, gen |-> g] \/ a = [of |-> <<>>, gen |-> g]
        PROVE  a.of \in {f, <<>>} /\ a.gen = g
    BY <1>1
  <1>2. a # Secrets!NotFound /\ a # Secrets!Unavailable
    BY DEF Secrets!IsValue
  <1>3. CASE source = "env"
    BY <1>1, <1>2, <1>3 DEF Secrets!Answers, Secrets!env, Secrets!Value
  <1>4. CASE source \in {"aws", "azure", "gcp"}
    <2>1. a = Secrets!Token
      BY <1>2, <1>4 DEF Secrets!Answers, Secrets!awsIrsa, Secrets!azureWif, Secrets!gcpWif
    <2> QED
      BY <1>1, <1>4, <2>1 DEF Secrets!Token, Secrets!Value
  <1>5. CASE source = "sops"
    <2>1. PICK d \in (IF decoded = None THEN Secrets!runSops ELSE {decoded}) :
             a = Secrets!sopsAnswers(f, d)
      BY <1>5 DEF Secrets!Answers
    <2>2. a = [of |-> f, gen |-> d.gen]
      BY <1>2, <2>1 DEF Secrets!sopsAnswers
    <2>3. d.gen = IF decoded # None THEN decoded.gen ELSE gen
      BY <2>1 DEF Secrets!runSops
    <2> QED
      BY <1>1, <1>5, <2>2, <2>3
  <1> QED
    BY <1>3, <1>4, <1>5 DEF NamesInv

LEMMA ResolveNameStep ==
    ASSUME NamesInv, NEW p \in MCPrefixes, NEW n \in MCNames, Secrets!ResolveName(p, n)
    PROVE  NamesInv'
  <1> DEFINE f == p \o n
  <1>1. f \in Secrets!Flat /\ Secrets!scope(p, n) = f
    BY DEF Secrets!Flat, Secrets!scope
  <1>2. PICK a \in (IF kept[f] # None THEN {kept[f]} ELSE Secrets!Answers(f)) :
          /\ told' = [prefix |-> p, name |-> n, value |-> a, floor |-> floor[f],
                      fetched |-> kept[f] = None /\ ~(source = "sops" /\ decoded # None)]
          /\ kept' = IF Secrets!IsValue(a) THEN [kept EXCEPT ![f] = a] ELSE kept
          /\ floor' = IF Secrets!IsValue(a) THEN [floor EXCEPT ![f] = a.gen] ELSE floor
          /\ decoded' = CASE source # "sops" \/ kept[f] # None \/ decoded # None -> decoded
                         [] OTHER -> [ok |-> a # Secrets!Unavailable, gen |-> gen]
    BY <1>1 DEF Secrets!ResolveName
  <1>3. UNCHANGED <<source, gen>>
    BY DEF Secrets!ResolveName
  <1>4. /\ gen \in Nat /\ floor \in [Secrets!Flat -> 0..gen] /\ DOMAIN kept = Secrets!Flat
        /\ \A g \in Secrets!Flat : KeptIsOwn(g)
    BY DEF NamesInv
  <1> HIDE DEF f
  <1>5. decoded # None =>
          /\ source = "sops" /\ decoded.gen \in 0..gen
          /\ \A g \in Secrets!Flat : floor[g] <= decoded.gen
          /\ \A g \in Secrets!Flat : kept[g] # None => kept[g].gen <= decoded.gen
    BY DEF NamesInv, FileIsNewest
  <1>6. ASSUME Secrets!IsValue(a)
        PROVE  /\ a.of \in {f, <<>>} /\ a.gen \in floor[f]..gen
               /\ decoded # None => a.gen <= decoded.gen
    <2>1. CASE kept[f] # None
      <3>1. a = kept[f]
        BY <2>1
      <3>2. kept[f].of \in {f, <<>>} /\ kept[f].gen \in floor[f]..gen
        BY <1>1, <1>4, <2>1 DEF KeptIsOwn
      <3>3. decoded # None => kept[f].gen <= decoded.gen
        BY <1>1, <2>1, <1>5
      <3> QED
        BY <3>1, <3>2, <3>3
    <2>2. CASE kept[f] = None
      <3>1. a \in Secrets!Answers(f)
        BY <2>2
      <3>2. /\ a.of \in {f, <<>>}
            /\ a.gen = IF source = "sops" /\ decoded # None THEN decoded.gen ELSE gen
        BY <1>1, <1>6, <3>1, AnswersAreOwn
      <3>3. /\ floor[f] \in 0..gen /\ gen \in Nat
            /\ decoded # None => decoded.gen \in 0..gen /\ floor[f] <= decoded.gen
            /\ decoded # None => source = "sops"
        BY <1>1, <1>4, <1>5
      <3> QED
        BY <3>2, <3>3
    <2> QED
      BY <2>1, <2>2
  <1>7. /\ floor' \in [Secrets!Flat -> 0..gen] /\ DOMAIN kept' = Secrets!Flat
        /\ \A g \in Secrets!Flat : KeptIsOwn(g)'
    BY <1>1, <1>2, <1>3, <1>4, <1>6 DEF KeptIsOwn
  <1>8. FileIsNewest'
    BY <1>1, <1>2, <1>3, <1>4, <1>6 DEF KeptIsOwn, NamesInv, FileIsNewest
  <1>9. (Secrets!NamesAreTheirOwn)'
    BY <1>1, <1>2, <1>4, <1>6 DEF Secrets!NamesAreTheirOwn, f
  <1>10. (Secrets!ErrorsAreNotKept)'
    BY <1>1, <1>2, <1>3, <1>4 DEF Secrets!ErrorsAreNotKept, KeptIsOwn
  <1> QED
    BY <1>3, <1>7, <1>8, <1>9, <1>10 DEF NamesInv

LEMMA NamesStep == NamesInv /\ (Secrets!NameNext \/ UNCHANGED namedVars) => NamesInv'
  <1> SUFFICES ASSUME NamesInv, Secrets!NameNext \/ UNCHANGED namedVars PROVE NamesInv'
    OBVIOUS
  <1>0. /\ gen \in Nat /\ floor \in [Secrets!Flat -> 0..gen] /\ DOMAIN kept = Secrets!Flat
        /\ \A g \in Secrets!Flat : KeptIsOwn(g)
    BY DEF NamesInv
  <1>1. ASSUME NEW p \in MCPrefixes, NEW n \in MCNames, Secrets!InvalidateName(p, n)
        PROVE  NamesInv'
    <2>1. Secrets!scope(p, n) \in Secrets!Flat
      BY DEF Secrets!Flat
    <2>2. /\ kept' = [kept EXCEPT ![Secrets!scope(p, n)] = None]
          /\ floor' = [floor EXCEPT ![Secrets!scope(p, n)] = gen]
          /\ decoded' = None /\ UNCHANGED <<source, gen, told>>
      BY <1>1 DEF Secrets!InvalidateName
    <2>3. /\ floor' \in [Secrets!Flat -> 0..gen] /\ DOMAIN kept' = Secrets!Flat
          /\ \A g \in Secrets!Flat : KeptIsOwn(g)'
      BY <1>0, <2>1, <2>2 DEF KeptIsOwn
    <2>4. (Secrets!NamesAreTheirOwn)' /\ (Secrets!ErrorsAreNotKept)'
      BY <2>2 DEF NamesInv, Secrets!NamesAreTheirOwn, Secrets!ErrorsAreNotKept
    <2> QED
      BY <2>2, <2>3, <2>4 DEF NamesInv, FileIsNewest
  <1>2. CASE Secrets!RotateName
    <2>1. gen' = gen + 1 /\ UNCHANGED <<source, decoded, kept, told, floor>>
      BY <1>2 DEF Secrets!RotateName
    <2>2. /\ floor' \in [Secrets!Flat -> 0..gen'] /\ DOMAIN kept' = Secrets!Flat
          /\ \A g \in Secrets!Flat : KeptIsOwn(g)'
      BY <1>0, <2>1 DEF KeptIsOwn
    <2>3. FileIsNewest'
      BY <1>0, <2>1 DEF NamesInv, FileIsNewest
    <2>4. (Secrets!NamesAreTheirOwn)' /\ (Secrets!ErrorsAreNotKept)'
      BY <2>1 DEF NamesInv, Secrets!NamesAreTheirOwn, Secrets!ErrorsAreNotKept
    <2> QED
      BY <1>0, <2>1, <2>2, <2>3, <2>4 DEF NamesInv
  <1>3. CASE UNCHANGED namedVars
    BY <1>3
    DEF namedVars, NamesInv, KeptIsOwn, FileIsNewest, Secrets!NamesAreTheirOwn,
        Secrets!ErrorsAreNotKept
  <1> QED
    BY <1>1, <1>2, <1>3, ResolveNameStep DEF Secrets!NameNext

\* No resolve returns a value older than the invalidation or the expiry it
\* comes after allows, a name is told its own secret and never an older one
\* than before, and an error is not kept (secrets/src/ttl.ts,
\* version-aware.ts, scope.ts; secrets-sops/src/index.ts).
THEOREM ResolvedIsFreshAlways == MCSpec => []ResolvedIsFresh
  <1>1. MCInit => SecretsInv /\ NamesInv
    <2>1. MCInit => (backend \in Backends /\ Secrets!Init) /\ Secrets!NameInit
      BY DEF MCInit, SecretsIdle, Secrets!Init
    <2> QED
      BY <2>1, SecretsInit, NamesInit
  <1>2. SecretsInv /\ NamesInv /\ [MCNext]_allVars => (SecretsInv /\ NamesInv)'
    BY PartSteps, SecretsStep, NamesStep
  <1>3. SecretsInv /\ NamesInv => ResolvedIsFresh
    BY SecretsFollow DEF NamesInv, ResolvedIsFresh, Secrets!SecretsAreApart
  <1> QED
    BY <1>1, <1>2, <1>3, PTL DEF MCSpec
-----------------------------------------------------------------------------
(* What the limiters promise: the hint of a refusal, and what the log in     *)
(* process admits and forgets (core/src/rate-limit/in-process-store.ts).     *)
LEMMA HasLeast ==
    ASSUME NEW S, S \subseteq Nat, S # {} PROVE \E x \in S : \A y \in S : x <= y
  <1>1. PICK x \in S : \A y \in S : ~(<<y, x>> \in OpToRel(<, Nat))
    BY NatLessThanWellFounded, WFMin
  <1>2. \A y \in S : ~(y < x)
    BY <1>1 DEF OpToRel
  <1> QED
    BY <1>2

LEMMA LimiterSteps ==
    [MCNext]_allVars => (Next \/ UNCHANGED vars) /\ (Log!Next \/ UNCHANGED logVars)
  BY DEF MCNext, DependencyNext, allVars, limitVars

\* While a promise stands, a member is held that keeps the window full until
\* then, and no call has another answer than none before its script has run.
Promised == promise = NoPromise \/ \E e \in zset : e.score + Window = promise
Unanswered ==
    \A c \in Callers : call[c].pc \in {"load", "evalsha", "eval"} => call[c].answer = "none"
HintInv == clock <= LastTime /\ Unanswered /\ Promised

LEMMA HintInit == Init => HintInv
  BY RedisAssumption DEF RedisAssumption, Init, HintInv, Unanswered, Promised

LEMMA ScriptPromises ==
    ASSUME Inv, HintInv, NEW c \in Callers, call[c].pc \notin {"idle", "reload"}, Script(c)
    PROVE  Promised' /\ (Verdict(c) = "refused" => call[c].now < promise)
  <1> DEFINE asked == call[c].now
             live == Live(asked)
  <1>0. /\ asked \in Nat /\ asked <= clock /\ clock \in Nat /\ clock <= LastTime
        /\ LastTime \in Nat /\ limit \in Nat /\ Window \in Nat \ {0}
    BY RedisAssumption DEF RedisAssumption, Inv, Typed, Prompt, HintInv
  <1>1. live \subseteq zset /\ IsFiniteSet(zset) /\ Cardinality(zset) <= limit
        /\ Cardinality(zset) \in Nat /\ IsFiniteSet(live) /\ Cardinality(live) \in Nat
    <2>1. live \subseteq zset
      BY DEF Live
    <2> QED
      BY <2>1, FS_Subset, FS_CardinalityType DEF Inv, Typed
  <1>2. CASE Verdict(c) = "allowed"
    BY <1>2 DEF Script, Promised, NoPromise
  <1>4. CASE Verdict(c) # "allowed" /\ live = {}
    <2>1. limit = 0 /\ zset = {}
      <3>1. Cardinality({}) = 0
        BY FS_EmptySet
      <3>2. ~(Cardinality(live) < limit)
        BY <1>4 DEF Verdict
      <3>3. limit = 0
        BY <1>0, <1>4, <3>1, <3>2
      <3> QED
        BY <1>1, <3>3, FS_EmptySet
    <2>2. zset' = {} /\ promise' = promise /\ Verdict(c) = "error"
      BY <1>4 DEF Script, Verdict
    <2> QED
      BY <2>1, <2>2 DEF Promised, HintInv, NoPromise
  <1>3. CASE Verdict(c) # "allowed" /\ live # {}
    <2>1. ~(Cardinality(live) < limit)
      BY <1>3 DEF Verdict
    <2> DEFINE scores == {e.score : e \in live}
    <2>2. zset' = live /\ promise' = Min(scores) + Window
      BY <1>3 DEF Script
    <2>3. live = zset
      <3>1. Cardinality(live) = Cardinality(zset)
        <4>1. Cardinality(live) <= Cardinality(zset)
          BY <1>1, FS_Subset
        <4> QED
          BY <4>1, <1>0, <1>1, <2>1
      <3> HIDE DEF live
      <3> QED
        BY <3>1, <1>1, FS_Subset
    <2>4. live # {}
      BY <1>3
    <2>5. scores \subseteq Nat /\ scores # {}
      BY <2>3, <2>4 DEF Inv, Typed
    <2>6. Min(scores) \in scores
      <3>1. \E x \in scores : \A y \in scores : x <= y
        <4> HIDE DEF scores
        <4> QED
          BY <2>5, HasLeast
      <3> HIDE DEF scores
      <3> QED
        BY <3>1 DEF Min
    <2>7. Promised'
      BY <2>2, <2>6 DEF Promised
    <2>8. \A e \in zset : e.score + Window > asked
      BY <2>3, <2>4 DEF Live
    <2>9. asked < promise
      <3>1. CASE promise = NoPromise
        BY <3>1, <1>0 DEF NoPromise
      <3>2. CASE promise # NoPromise
        <4>1. PICK e \in zset : e.score + Window = promise
          BY <3>2 DEF HintInv, Promised
        <4>2. e.score \in Nat
          BY DEF Inv, Typed
        <4> HIDE DEF asked
        <4> QED
          BY <4>1, <4>2, <2>8, <1>0
      <3> QED
        BY <3>1, <3>2
    <2> QED
      BY <2>7, <2>9
  <1> QED
    BY <1>2, <1>3, <1>4

\* A refusal that was promised not to come.
HintStands ==
    \A c \in Callers :
        call[c].pc \in {"evalsha", "eval"} /\ call'[c].answer = "refused" => call[c].now < promise

LEMMA HintStep ==
    ASSUME Inv, HintInv, Next \/ UNCHANGED vars
    PROVE  HintInv' /\ HintStands
  <1>0. /\ call \in [Callers -> [pc : Pcs, now : Nat, answer : Answers]]
        /\ clock \in Nat /\ LastTime \in Nat
    BY RedisAssumption DEF RedisAssumption, Inv, Typed
  <1>1. ASSUME NEW c \in Callers, Consume(c) \/ Load(c) \/ Reload(c) PROVE HintInv' /\ HintStands
    <2>1. UNCHANGED <<clock, zset, promise>>
      BY <1>1 DEF Consume, Load, Reload
    <2>2. Unanswered'
      BY <1>0, <1>1 DEF Consume, Load, Reload, Awaits, HintInv, Unanswered
    <2>3. HintStands
      BY <1>0, <1>1 DEF Consume, Load, Reload, Awaits, HintInv, Unanswered, HintStands
    <2> QED
      BY <2>1, <2>2, <2>3 DEF HintInv, Promised
  <1>2. ASSUME NEW c \in Callers, Fails(c) PROVE HintInv' /\ HintStands
    <2>1. UNCHANGED <<clock, zset, promise>> /\ Returns(c, "error")
      BY <1>2 DEF Fails
    <2> QED
      BY <1>0, <2>1 DEF Returns, HintInv, Unanswered, Promised, HintStands
  <1>3. ASSUME NEW c \in Callers, EvalSha(c), ~loaded PROVE HintInv' /\ HintStands
    <2>1. UNCHANGED <<clock, zset, promise>> /\ Awaits(c, "eval") /\ call[c].pc = "evalsha"
      BY <1>3 DEF EvalSha
    <2> QED
      BY <1>0, <2>1 DEF Awaits, HintInv, Unanswered, Promised, HintStands
  <1>4. ASSUME NEW c \in Callers, (EvalSha(c) /\ loaded) \/ Eval(c) \/ LosesResult(c)
        PROVE  HintInv' /\ HintStands
    <2>1. /\ call[c].pc \in {"evalsha", "eval"} /\ Script(c) /\ UNCHANGED clock
          /\ \E p \in {"idle", "reload"}, a \in {Verdict(c), "error"} :
                call' = [call EXCEPT ![c] = [@ EXCEPT !.pc = p, !.answer = a]]
      BY <1>4 DEF EvalSha, Eval, LosesResult, Returns
    <2>2. Promised' /\ (Verdict(c) = "refused" => call[c].now < promise)
      BY <2>1, ScriptPromises
    <2>3. Unanswered'
      BY <1>0, <2>1 DEF HintInv, Unanswered
    <2>4. HintStands
      BY <1>0, <2>1, <2>2 DEF HintInv, Unanswered, HintStands
    <2> QED
      BY <2>1, <2>2, <2>3, <2>4 DEF HintInv
  <1>5. CASE Flush \/ Elapse \/ UNCHANGED vars
    <2>1. UNCHANGED <<call, zset, promise>> /\ clock' <= LastTime
      BY <1>0, <1>5 DEF Flush, Elapse, vars, HintInv
    <2> QED
      BY <2>1 DEF HintInv, Unanswered, Promised, HintStands
  <1> QED
    BY <1>1, <1>2, <1>3, <1>4, <1>5 DEF Next

-----------------------------------------------------------------------------
(* The log of each key is the end of its admissions, the others of which     *)
(* have left the window, and they are in order.                              *)
EndOf(s, h) ==
    /\ Len(s) <= Len(h)
    /\ \A i \in 1..Len(s) : s[i] = h[Len(h) - Len(s) + i]
    /\ \A i \in 1..(Len(h) - Len(s)) : h[i] + Window <= now
InTime(h) ==
    \A i \in 1..Len(h) : h[i] <= now /\ \A j \in i..Len(h) : h[i] <= h[j]
LogInv ==
    /\ limit \in Nat /\ now \in Nat /\ log \in [Keys -> Seq(Nat)] /\ admissions \in [Keys -> Seq(Nat)]
    /\ \A k \in Keys : EndOf(log[k], admissions[k]) /\ InTime(admissions[k])

\* The keys that were used after one that is held are among its others.
Follows(s, o) == \A i, j \in 1..Len(s) : i < j => s[j] \in o[s[i]] /\ s[i] # s[j]
OrderInv ==
    /\ order \in Seq(Keys) /\ Len(order) <= MaxKeys /\ DOMAIN others = Keys
    /\ \A k \in Keys : IsFiniteSet(others[k])
    /\ Follows(order, others)

LEMMA LogConstants == Limits \subseteq Nat /\ Window \in Nat \ {0} /\ MaxKeys \in Nat \ {0}
  BY RedisAssumption, DependencyAssumption DEF RedisAssumption, DependencyAssumption

LEMMA LogSameCardinality ==
    ASSUME NEW S
    PROVE  Log!Cardinality(S) = Cardinality(S) /\ Log!Limiter!Cardinality(S) = Cardinality(S)
  BY DEF Log!Cardinality, Log!Limiter!Cardinality, Cardinality

\* What is left of a log is what is recent.
LEMMA Pruning ==
    ASSUME NEW s \in Seq(Nat), NEW h \in Seq(Nat), now \in Nat, EndOf(s, h), InTime(h)
    PROVE  /\ Log!Pruned(s) \in Seq(Nat) /\ EndOf(Log!Pruned(s), h)
           /\ {i \in 1..Len(h) : h[i] + Window > now} = (Len(h) - Len(Log!Pruned(s)) + 1)..Len(h)
  <1> DEFINE n == Len(s)
             m == Len(h)
             cand == {i \in 1..(n + 1) : i <= n => s[i] + Window > now}
             a == Log!Start(s)
             p == Log!Pruned(s)
  <1>0. n \in Nat /\ m \in Nat /\ n <= m /\ Window \in Nat
    BY LogConstants DEF EndOf
  <1>1. a \in cand /\ \A x \in cand : a <= x
    <2>1. cand \subseteq Nat /\ n + 1 \in cand
      BY <1>0
    <2>2. \E x \in cand : \A y \in cand : x <= y
      <3> HIDE DEF cand
      <3> QED
        BY <2>1, HasLeast
    <2>3. a = CHOOSE x \in cand : \A y \in cand : x <= y
      BY DEF Log!Start, Log!Min
    <2> HIDE DEF cand, a
    <2> QED
      BY <2>2, <2>3
  <1>2. a \in 1..(n + 1) /\ (a <= n => s[a] + Window > now)
    BY <1>1
  <1>3. \A i \in 1..n : i < a => s[i] + Window <= now
    <2>1. \A i \in 1..n : i < a => i \notin cand
      BY <1>0, <1>1, <1>2
    <2>2. \A i \in 1..n : s[i] \in Nat
      OBVIOUS
    <2>3. ASSUME NEW i \in 1..n, i < a PROVE s[i] + Window <= now
      <3>1. i \notin cand /\ s[i] \in Nat /\ i \in 1..(n + 1)
        BY <2>1, <2>2, <2>3, <1>0
      <3>2. ~(s[i] + Window > now)
        BY <3>1
      <3> HIDE DEF a, cand, n
      <3> QED
        BY <3>1, <3>2, <1>0
    <2> HIDE DEF a
    <2> QED
      BY <2>3
  <1> HIDE DEF a
  <1>4. p \in Seq(Nat) /\ Len(p) = n - a + 1 /\ \A i \in 1..Len(p) : p[i] = s[a + i - 1]
    <2>1. p = SubSeq(s, a, n)
      BY DEF Log!Pruned, a
    <2>2. a \in Int /\ n \in Int /\ \A i \in a..n : s[i] \in Nat
      <3>1. \A i \in 1..n : s[i] \in Nat
        OBVIOUS
      <3>2. a \in Nat /\ a >= 1
        BY <1>0, <1>2
      <3> HIDE DEF n
      <3> QED
        BY <3>1, <3>2, <1>0
    <2>3. /\ SubSeq(s, a, n) \in Seq(Nat)
          /\ Len(SubSeq(s, a, n)) = IF a <= n THEN n - a + 1 ELSE 0
          /\ \A i \in 1..(n - a + 1) : SubSeq(s, a, n)[i] = s[a + i - 1]
      BY <2>2, SubSeqProperties
    <2> HIDE DEF p
    <2> QED
      BY <2>1, <2>3, <1>0, <1>2
  <1> HIDE DEF p, cand
  <1> DEFINE q == Len(p)
             d == m - n
  <1>5. \A i \in 1..n : s[i] = h[d + i]
    BY DEF EndOf
  <1>6. \A i \in 1..d : h[i] + Window <= now
    BY DEF EndOf
  <1>7. q \in Nat /\ m - q = d + a - 1 /\ q <= m /\ d \in Nat
    BY <1>0, <1>2, <1>4
  <1>8. \A i \in 1..q : p[i] = h[m - q + i]
    <2> SUFFICES ASSUME NEW i \in 1..q PROVE p[i] = h[m - q + i]
      OBVIOUS
    <2>1. p[i] = s[a + i - 1] /\ a + i - 1 \in 1..n /\ d + (a + i - 1) = m - q + i
      BY <1>0, <1>2, <1>4, <1>7
    <2> QED
      BY <2>1, <1>5
  <1>9. \A i \in 1..(m - q) : h[i] + Window <= now
    <2> SUFFICES ASSUME NEW i \in 1..(m - q) PROVE h[i] + Window <= now
      OBVIOUS
    <2>1. CASE i <= d
      BY <2>1, <1>6, <1>7
    <2>2. CASE i > d
      <3>1. i - d \in 1..n /\ i - d < a /\ d + (i - d) = i
        BY <2>2, <1>0, <1>2, <1>7
      <3> QED
        BY <3>1, <1>3, <1>5
    <2> QED
      BY <2>1, <2>2, <1>7
  <1>10. EndOf(p, h)
    BY <1>7, <1>8, <1>9 DEF EndOf
  <1>11. \A i \in 1..m : i > m - q => h[i] + Window > now
    <2> SUFFICES ASSUME NEW i \in 1..m, i > m - q PROVE h[i] + Window > now
      OBVIOUS
    <2>0. a <= n /\ d + a \in 1..m /\ i \in (d + a)..m
      <3>1. /\ d + n = m /\ m - q = d + a - 1 /\ d \in Nat /\ n \in Nat /\ m \in Nat
            /\ q \in Nat /\ a \in Nat /\ a >= 1 /\ i \in Nat /\ i <= m /\ i > m - q
        BY <1>0, <1>2, <1>7
      <3> HIDE DEF d, q, n, m
      <3>2. i >= d + a /\ a <= n /\ d + a >= 1 /\ d + a <= m
        BY <3>1
      <3> QED
        BY <3>1, <3>2
    <2>1. a <= n /\ s[a] = h[d + a] /\ d + a \in 1..m /\ i \in (d + a)..m
      BY <2>0, <1>2, <1>5
    <2>2. h[d + a] <= h[i]
      BY <2>1 DEF InTime
    <2>3. h[d + a] \in Nat /\ h[i] \in Nat
      BY <2>1
    <2>4. h[d + a] + Window > now
      BY <2>1, <1>2
    <2> QED
      BY <2>2, <2>3, <2>4, <1>0
  <1>12. \A i \in 1..m : (h[i] + Window > now) <=> i \in (m - q + 1)..m
    <2> SUFFICES ASSUME NEW i \in 1..m PROVE (h[i] + Window > now) <=> i \in (m - q + 1)..m
      OBVIOUS
    <2>1. h[i] \in Nat
      OBVIOUS
    <2>2. CASE i > m - q
      BY <2>2, <1>7, <1>11
    <2>3. CASE i <= m - q
      BY <2>1, <2>3, <1>0, <1>7, <1>9
    <2> QED
      BY <2>2, <2>3, <1>7
  <1>13. {i \in 1..m : h[i] + Window > now} = (m - q + 1)..m
    BY <1>7, <1>12
  <1> QED
    BY <1>4, <1>10, <1>13 DEF p

\* Whoever is in s is in t, or else had a full list of others after it.
NoneLost(s, t, o) ==
    \A x \in Keys :
        Log!Contains(s, x) /\ ~Log!Contains(t, x)
            => (IsFiniteSet(o[x]) => Cardinality(o[x]) >= MaxKeys)

\* The others of each key once k is used.
Others(k) == [x \in Keys |-> IF x = k THEN {} ELSE others[x] \cup {k}]

LEMMA TouchStep ==
    ASSUME OrderInv, NEW k \in Keys
    PROVE  /\ Log!Touch(k) \in Seq(Keys) /\ Len(Log!Touch(k)) <= MaxKeys
           /\ Log!Contains(Log!Touch(k), k)
           /\ Follows(Log!Touch(k), Others(k))
           /\ NoneLost(order, Log!Touch(k), Others(k))
  <1> DEFINE n == Len(order)
             t == Log!Touch(k)
             o == Others(k)
  <1>0. /\ order \in Seq(Keys) /\ n \in Nat /\ n <= MaxKeys /\ MaxKeys \in Nat \ {0}
        /\ \A i \in 1..n : order[i] \in Keys
    BY LogConstants DEF OrderInv
  <1>1. \A i, j \in 1..n : i < j => order[j] \in others[order[i]] /\ order[i] # order[j]
    BY DEF OrderInv, Follows
  <1>2. \A i, j \in 1..n : order[i] = order[j] => i = j
    BY <1>0, <1>1
  \* A list with k put at the end of some of the others, in their order.
  <1>3. ASSUME NEW r \in Seq(Keys), NEW f \in [1..Len(r) -> 1..n],
               t = Append(r, k), Len(r) < MaxKeys,
               \A i \in 1..Len(r) : r[i] = order[f[i]] /\ r[i] # k,
               \A i, j \in 1..Len(r) : i < j => f[i] < f[j]
        PROVE  t \in Seq(Keys) /\ Len(t) <= MaxKeys /\ Log!Contains(t, k) /\ Follows(t, o)
    <2>1. /\ t \in Seq(Keys) /\ Len(t) = Len(r) + 1 /\ Len(r) \in Nat /\ t[Len(r) + 1] = k
          /\ \A i \in 1..Len(r) : t[i] = r[i]
      BY <1>3
    <2>2. Log!Contains(t, k)
      BY <2>1 DEF Log!Contains
    <2>3. ASSUME NEW i \in 1..Len(t), NEW j \in 1..Len(t), i < j
          PROVE  t[j] \in o[t[i]] /\ t[i] # t[j]
      <3>1. i \in 1..Len(r) /\ t[i] = order[f[i]] /\ t[i] # k /\ t[i] \in Keys
        BY <1>3, <2>1, <2>3
      <3>2. o[t[i]] = others[t[i]] \cup {k}
        BY <3>1 DEF Others
      <3>3. CASE j = Len(r) + 1
        BY <2>1, <3>1, <3>2, <3>3
      <3>4. CASE j # Len(r) + 1
        <4>1. j \in 1..Len(r) /\ t[j] = order[f[j]] /\ f[i] < f[j] /\ f[i] \in 1..n /\ f[j] \in 1..n
          BY <1>3, <2>1, <2>3, <3>1, <3>4
        <4> HIDE DEF o
        <4> QED
          BY <4>1, <3>1, <3>2, <1>1
      <3> QED
        BY <3>3, <3>4
    <2>4. Follows(t, o)
      BY <2>3 DEF Follows
    <2> QED
      BY <2>1, <2>2, <2>4, <1>3, <1>0
  <1>4. CASE Log!Contains(order, k)
    <2> DEFINE h == CHOOSE i \in 1..n : order[i] = k
               r == Log!RemoveAt(order, h)
               f == [i \in 1..(n - 1) |-> IF i < h THEN i ELSE i + 1]
    <2>1. h \in 1..n /\ order[h] = k
      BY <1>4 DEF Log!Contains
    <2>2. t = Append(r, k)
      BY <1>4 DEF Log!Touch
    <2> HIDE DEF h
    <2>3. /\ r \in Seq(Keys) /\ Len(r) = n - 1
          /\ \A i \in 1..(n - 1) : r[i] = order[IF i < h THEN i ELSE i + 1]
      <3> DEFINE b == SubSeq(order, 1, h - 1)
                 c == SubSeq(order, h + 1, n)
      <3>1. b \in Seq(Keys) /\ Len(b) = h - 1 /\ \A i \in 1..(h - 1) : b[i] = order[i]
        BY <1>0, <2>1
      <3>2. c \in Seq(Keys) /\ Len(c) = n - h /\ \A i \in 1..(n - h) : c[i] = order[h + i]
        BY <1>0, <2>1
      <3>3. r = b \o c
        BY DEF Log!RemoveAt
      <3> HIDE DEF b, c, r
      <3>4. /\ r \in Seq(Keys) /\ Len(r) = Len(b) + Len(c)
            /\ \A i \in 1..Len(b) : r[i] = b[i]
            /\ \A i \in 1..Len(c) : r[Len(b) + i] = c[i]
        <4>1. /\ b \o c \in Seq(Keys) /\ Len(b \o c) = Len(b) + Len(c)
              /\ \A i \in 1..(Len(b) + Len(c)) :
                    (b \o c)[i] = IF i <= Len(b) THEN b[i] ELSE c[i - Len(b)]
          BY <3>1, <3>2, ConcatProperties
        <4>2. Len(b) \in Nat /\ Len(c) \in Nat
          BY <3>1, <3>2
        <4> QED
          BY <3>3, <4>1, <4>2
      <3>5. ASSUME NEW i \in 1..(n - 1) PROVE r[i] = order[IF i < h THEN i ELSE i + 1]
        <4>1. CASE i < h
          <5>1. i \in 1..(h - 1)
            BY <4>1, <2>1
          <5>2. r[i] = b[i] /\ b[i] = order[i]
            BY <5>1, <3>1, <3>4
          <5> QED
            BY <4>1, <5>2
        <4>2. CASE ~(i < h)
          <5>1. i - (h - 1) \in 1..(n - h) /\ (h - 1) + (i - (h - 1)) = i
                /\ h + (i - (h - 1)) = i + 1
            BY <4>2, <1>0, <2>1
          <5> QED
            BY <4>2, <5>1, <3>1, <3>2, <3>4
        <4> QED
          BY <4>1, <4>2
      <3> QED
        BY <3>1, <3>2, <3>4, <3>5, <1>0, <2>1
    <2> HIDE DEF r
    <2>4. f \in [1..Len(r) -> 1..n] /\ \A i, j \in 1..Len(r) : i < j => f[i] < f[j]
      BY <1>0, <2>1, <2>3
    <2>5. \A i \in 1..Len(r) : r[i] = order[f[i]] /\ r[i] # k
      BY <1>0, <1>2, <2>1, <2>3
    <2>6. Len(r) < MaxKeys
      BY <1>0, <2>3
    <2>7. t \in Seq(Keys) /\ Len(t) <= MaxKeys /\ Log!Contains(t, k) /\ Follows(t, o)
      <3> HIDE DEF f, t, o
      <3> QED
        BY <1>3, <2>2, <2>3, <2>4, <2>5, <2>6
    <2>8. \A x \in Keys : Log!Contains(order, x) => Log!Contains(t, x)
      <3> SUFFICES ASSUME NEW i \in 1..n PROVE \E j \in 1..Len(t) : t[j] = order[i]
        BY DEF Log!Contains
      <3>1. /\ Len(t) = n /\ t[n] = k /\ \A j \in 1..(n - 1) : t[j] = r[j]
        BY <1>0, <2>1, <2>2, <2>3
      <3> HIDE DEF t
      <3>2. CASE i = h
        BY <3>1, <3>2, <1>0, <2>1
      <3>3. CASE i < h
        BY <3>1, <3>3, <1>0, <2>1, <2>3
      <3>4. CASE i > h
        <4>1. i - 1 \in 1..(n - 1) /\ ~(i - 1 < h) /\ (i - 1) + 1 = i
          BY <3>4, <1>0, <2>1
        <4>2. t[i - 1] = order[i]
          BY <4>1, <3>1, <2>3
        <4> QED
          BY <4>1, <4>2, <3>1, <1>0
      <3> QED
        BY <3>2, <3>3, <3>4, <2>1, <1>0
    <2> QED
      BY <2>7, <2>8 DEF NoneLost
  <1>5. CASE ~Log!Contains(order, k)
    <2>1. \A i \in 1..n : order[i] # k
      BY <1>5 DEF Log!Contains
    <2>2. CASE n < MaxKeys
      <3>1. t = Append(order, k)
        BY <1>0, <1>5, <2>2 DEF Log!Touch
      <3> DEFINE f == [i \in 1..n |-> i]
      <3>2. f \in [1..n -> 1..n] /\ \A i, j \in 1..n : i < j => f[i] < f[j]
        OBVIOUS
      <3>3. \A i \in 1..n : order[i] = order[f[i]] /\ order[i] # k
        BY <2>1
      <3>4. t \in Seq(Keys) /\ Len(t) <= MaxKeys /\ Log!Contains(t, k) /\ Follows(t, o)
        <4> HIDE DEF f, t, o
        <4> QED
          BY <1>0, <1>3, <2>2, <3>1, <3>2, <3>3
      <3>5. \A i \in 1..n : i \in 1..Len(t) /\ t[i] = order[i]
        BY <1>0, <3>1
      <3>6. \A x \in Keys : Log!Contains(order, x) => Log!Contains(t, x)
        <4> HIDE DEF t
        <4> QED
          BY <3>5 DEF Log!Contains
      <3> QED
        BY <3>4, <3>6 DEF NoneLost
    <2>3. CASE ~(n < MaxKeys)
      <3> DEFINE r == Tail(order)
                 f == [i \in 1..(n - 1) |-> i + 1]
      <3>1. n = MaxKeys /\ n >= 1 /\ order # <<>>
        BY <1>0, <2>3
      <3>2. t = Append(r, k)
        BY <1>0, <1>5, <2>3 DEF Log!Touch
      <3>3. r \in Seq(Keys) /\ Len(r) = n - 1 /\ \A i \in 1..(n - 1) : r[i] = order[i + 1]
        BY <1>0, <3>1
      <3> HIDE DEF r
      <3>4. f \in [1..Len(r) -> 1..n] /\ \A i, j \in 1..Len(r) : i < j => f[i] < f[j]
        BY <1>0, <3>1, <3>3
      <3>5. \A i \in 1..Len(r) : r[i] = order[f[i]] /\ r[i] # k
        BY <1>0, <2>1, <3>1, <3>3
      <3>6. t \in Seq(Keys) /\ Len(t) <= MaxKeys /\ Log!Contains(t, k) /\ Follows(t, o)
        <4>1. Len(r) < MaxKeys
          BY <3>1, <3>3, <1>0
        <4> HIDE DEF f, t, o
        <4> QED
          BY <1>3, <3>2, <3>3, <3>4, <3>5, <4>1
      <3>7. ASSUME NEW x \in Keys, Log!Contains(order, x), ~Log!Contains(t, x), IsFiniteSet(o[x])
            PROVE  Cardinality(o[x]) >= MaxKeys
        <4>1. PICK i \in 1..n : order[i] = x
          BY <3>7 DEF Log!Contains
        <4>2. i = 1
          <5>1. ASSUME i > 1 PROVE FALSE
            <6>1. i - 1 \in 1..(n - 1) /\ (i - 1) + 1 = i
              BY <5>1, <1>0
            <6>2. i - 1 \in 1..Len(t) /\ t[i - 1] = r[i - 1]
              BY <6>1, <3>2, <3>3, <1>0
            <6>3. t[i - 1] = x
              BY <6>1, <6>2, <3>3, <4>1
            <6> HIDE DEF t
            <6> QED
              BY <6>2, <6>3, <3>7 DEF Log!Contains
          <5> QED
            BY <5>1, <1>0
        <4>3. x # k /\ o[x] = others[x] \cup {k}
          BY <2>1, <4>1 DEF Others
        <4> DEFINE g == [j \in 1..n |-> IF j = 1 THEN k ELSE order[j]]
        <4>4. g \in Injection(1..n, o[x])
          <5> HIDE DEF o
          <5>1. \A j \in 1..n : g[j] \in o[x]
            BY <1>0, <1>1, <4>1, <4>2, <4>3
          <5>2. \A j, l \in 1..n : g[j] = g[l] => j = l
            BY <1>2, <2>1
          <5>3. g \in [1..n -> o[x]]
            BY <5>1
          <5> HIDE DEF g
          <5> QED
            BY <5>2, <5>3 DEF Injection, IsInjective
        <4>5. Cardinality(1..n) <= Cardinality(o[x])
          <5> HIDE DEF g, o
          <5> QED
            BY <3>7, <4>4, FS_Injection
        <4>6. Cardinality(1..n) = n
          BY <1>0, <3>1, FS_Interval
        <4>7. Cardinality(o[x]) \in Nat
          BY <3>7, FS_CardinalityType
        <4> HIDE DEF o
        <4> QED
          BY <4>5, <4>6, <4>7, <3>1, <1>0
      <3> QED
        BY <3>6, <3>7 DEF NoneLost
    <2> QED
      BY <2>2, <2>3
  <1> QED
    BY <1>4, <1>5

LEMMA OrderInitial == Log!Init => OrderInv
  <1>1. IsFiniteSet({}) /\ <<>> \in Seq(Keys) /\ MaxKeys \in Nat
    BY FS_EmptySet, LogConstants
  <1> QED
    BY <1>1 DEF Log!Init, OrderInv, Follows

LEMMA OrderStep ==
    ASSUME OrderInv, Log!Next \/ UNCHANGED logVars
    PROVE  /\ OrderInv'
           /\ \A k \in Keys : Log!Contains(order, k) /\ ~Log!Contains(order', k)
                => Log!Cardinality(others'[k]) >= MaxKeys
  <1>1. ASSUME NEW k \in Keys, Log!Consume(k)
        PROVE  /\ OrderInv'
               /\ \A x \in Keys : Log!Contains(order, x) /\ ~Log!Contains(order', x)
                    => Log!Cardinality(others'[x]) >= MaxKeys
    <2>1. order' = Log!Touch(k) /\ others' = Others(k)
      BY <1>1 DEF Log!Consume, Others
    <2>2. ASSUME NEW x \in Keys PROVE IsFiniteSet(others'[x])
      <3>1. IsFiniteSet({}) /\ IsFiniteSet(others[x] \cup {k})
        BY FS_EmptySet, FS_AddElement DEF OrderInv
      <3> QED
        BY <2>1, <3>1 DEF Others
    <2>3. OrderInv'
      BY <2>1, <2>2, TouchStep DEF OrderInv, Others
    <2>4. NoneLost(order, order', others')
      BY <2>1, TouchStep
    <2> QED
      BY <2>2, <2>3, <2>4, LogSameCardinality DEF NoneLost
  <1>2. CASE Log!Elapse \/ UNCHANGED logVars
    BY <1>2 DEF Log!Elapse, logVars, OrderInv
  <1> QED
    BY <1>1, <1>2 DEF Log!Next

-----------------------------------------------------------------------------
LEMMA LogInitial == Log!Init => LogInv /\ Log!Limiter!Init
  BY LogConstants DEF Log!Init, LogInv, EndOf, InTime, Log!Limiter!Init, Log!Limiter!Allowed

\* One more time in the log and in the admissions.
LEMMA BothGrow ==
    ASSUME NEW p \in Seq(Nat), NEW h \in Seq(Nat), now \in Nat, EndOf(p, h), InTime(h)
    PROVE  /\ Append(p, now) \in Seq(Nat) /\ Append(h, now) \in Seq(Nat)
           /\ EndOf(Append(p, now), Append(h, now)) /\ InTime(Append(h, now))
  <1> DEFINE q == Append(p, now)
             g == Append(h, now)
  <1>1. /\ q \in Seq(Nat) /\ Len(q) = Len(p) + 1 /\ q[Len(p) + 1] = now
        /\ \A i \in 1..Len(p) : q[i] = p[i]
    OBVIOUS
  <1>2. /\ g \in Seq(Nat) /\ Len(g) = Len(h) + 1 /\ g[Len(h) + 1] = now
        /\ \A i \in 1..Len(h) : g[i] = h[i]
    OBVIOUS
  <1>3. Len(p) \in Nat /\ Len(h) \in Nat /\ Len(p) <= Len(h)
    BY DEF EndOf
  <1> HIDE DEF q, g
  <1>4. EndOf(q, g)
    <2>1. \A i \in 1..Len(q) : q[i] = g[Len(g) - Len(q) + i]
      <3> SUFFICES ASSUME NEW i \in 1..Len(q) PROVE q[i] = g[Len(g) - Len(q) + i]
        OBVIOUS
      <3>1. Len(g) - Len(q) = Len(h) - Len(p)
        BY <1>1, <1>2, <1>3
      <3>2. CASE i = Len(p) + 1
        BY <3>1, <3>2, <1>1, <1>2, <1>3
      <3>3. CASE i # Len(p) + 1
        <4>1. i \in 1..Len(p) /\ Len(h) - Len(p) + i \in 1..Len(h)
          BY <3>3, <1>1, <1>3
        <4>2. p[i] = h[Len(h) - Len(p) + i]
          BY <4>1 DEF EndOf
        <4> QED
          BY <3>1, <4>1, <4>2, <1>1, <1>2
      <3> QED
        BY <3>2, <3>3
    <2>2. \A i \in 1..(Len(g) - Len(q)) : g[i] + Window <= now
      <3>1. Len(g) - Len(q) = Len(h) - Len(p) /\ Len(h) - Len(p) <= Len(h)
        BY <1>1, <1>2, <1>3
      <3>2. ASSUME NEW i \in 1..(Len(h) - Len(p)) PROVE g[i] + Window <= now
        <4>1. i \in 1..Len(h)
          BY <1>3
        <4>2. h[i] + Window <= now
          BY DEF EndOf
        <4> QED
          BY <4>1, <4>2, <1>2
      <3> QED
        BY <3>1, <3>2
    <2> QED
      BY <2>1, <2>2, <1>1, <1>2, <1>3 DEF EndOf
  <1>5. InTime(g)
    <2> SUFFICES ASSUME NEW i \in 1..Len(g)
                 PROVE  g[i] <= now /\ \A j \in i..Len(g) : g[i] <= g[j]
      BY DEF InTime
    <2>1. CASE i = Len(h) + 1
      BY <2>1, <1>2, <1>3
    <2>2. CASE i # Len(h) + 1
      <3>1. i \in 1..Len(h) /\ g[i] = h[i] /\ h[i] <= now
        BY <2>2, <1>2, <1>3 DEF InTime
      <3>2. \A j \in i..Len(g) : g[i] <= g[j]
        <4> SUFFICES ASSUME NEW j \in i..Len(g) PROVE g[i] <= g[j]
          OBVIOUS
        <4>1. CASE j = Len(h) + 1
          BY <4>1, <3>1, <1>2
        <4>2. CASE j # Len(h) + 1
          <5>1. i \in 1..Len(h) /\ j \in i..(Len(h) + 1) /\ j # Len(h) + 1
            BY <4>2, <3>1, <1>2
          <5>2. j \in i..Len(h) /\ j \in 1..Len(h)
            <6> DEFINE m == Len(h)
            <6>1. m \in Nat /\ i \in 1..m /\ j \in i..(m + 1) /\ j # m + 1
              BY <5>1, <1>3
            <6> HIDE DEF m
            <6>2. j \in i..m /\ j \in 1..m
              BY <6>1
            <6> QED
              BY <6>2 DEF m
          <5> QED
            BY <5>2, <3>1, <1>2 DEF InTime
        <4> QED
          BY <4>1, <4>2
      <3> QED
        BY <3>1, <3>2
    <2> QED
      BY <2>1, <2>2
  <1> QED
    BY <1>1, <1>2, <1>4, <1>5 DEF q, g

\* A call of the store is a call of the limiter it implements.
LEMMA ConsumeStep ==
    ASSUME LogInv, OrderInv, NEW k \in Keys, Log!Consume(k)
    PROVE  LogInv' /\ (Log!Limiter!Admit(k) \/ Log!Limiter!Refuse(k))
  <1> DEFINE p == Log!Pruned(log[k])
             h == admissions[k]
             remain == {x \in Keys : Log!Contains(Log!Touch(k), x)}
             recent == Log!Limiter!Recent(k)
  <1>0. /\ now' = now /\ limit' = limit /\ now \in Nat /\ k \in remain
        /\ log \in [Keys -> Seq(Nat)] /\ admissions \in [Keys -> Seq(Nat)]
        /\ \A x \in Keys : EndOf(log[x], admissions[x]) /\ InTime(admissions[x])
        /\ limit \in Nat /\ Window \in Nat
    BY LogConstants, TouchStep DEF Log!Consume, LogInv
  <1>1. /\ p \in Seq(Nat) /\ h \in Seq(Nat) /\ EndOf(p, h) /\ InTime(h)
        /\ recent = (Len(h) - Len(p) + 1)..Len(h)
    BY <1>0, Pruning DEF Log!Limiter!Recent
  <1> HIDE DEF p, h, recent
  <1>2. /\ Len(p) \in Nat /\ Len(h) \in Nat /\ Len(p) <= Len(h)
        /\ Len(p) # 0 => p[1] = h[Len(h) - Len(p) + 1]
        /\ p = <<>> <=> Len(p) = 0
    <2>1. Len(p) \in Nat /\ Len(h) \in Nat /\ (p = <<>> <=> Len(p) = 0)
      BY <1>1
    <2>2. Len(p) <= Len(h)
      BY <1>1 DEF EndOf
    <2>3. ASSUME Len(p) # 0 PROVE p[1] = h[Len(h) - Len(p) + 1]
      <3>1. 1 \in 1..Len(p)
        BY <2>1, <2>3
      <3> QED
        BY <3>1, <1>1 DEF EndOf
    <2> QED
      BY <2>1, <2>2, <2>3
  <1>3. Log!Limiter!Cardinality(recent) = Len(p) /\ (recent = {} <=> Len(p) = 0)
    <2> DEFINE a == Len(h) - Len(p) + 1
               b == Len(h)
    <2>0. recent = a..b /\ a \in Int /\ b \in Int /\ (a > b <=> Len(p) = 0) /\ b - a + 1 = Len(p)
      BY <1>1, <1>2
    <2> HIDE DEF a, b
    <2>1. Cardinality(recent) = Len(p)
      <3>1. Cardinality(a..b) = IF a > b THEN 0 ELSE b - a + 1
        BY <2>0, FS_Interval
      <3> QED
        BY <2>0, <3>1
    <2>2. recent = {} <=> Len(p) = 0
      BY <2>0
    <2> QED
      BY <2>1, <2>2, LogSameCardinality
  <1>4. Len(p) # 0 => Log!Limiter!Min(recent) = Len(h) - Len(p) + 1
    BY <1>1, <1>2 DEF Log!Limiter!Min
  \* Whatever the log and the admissions of k become, the others keep theirs
  \* or lose them.
  <1>5. ASSUME NEW s \in Seq(Nat), NEW g \in Seq(Nat), EndOf(s, g), InTime(g),
               log' = [x \in Keys |-> IF x = k THEN s ELSE IF x \in remain THEN log[x] ELSE <<>>],
               admissions' = [x \in Keys |-> IF x = k THEN g
                                             ELSE IF x \in remain THEN admissions[x] ELSE <<>>]
        PROVE  LogInv' /\ Log!Limiter!Records(k, g)
    <2>1. log' \in [Keys -> Seq(Nat)] /\ admissions' \in [Keys -> Seq(Nat)]
      BY <1>0, <1>5
    <2>2. EndOf(<<>>, <<>>) /\ InTime(<<>>)
      BY DEF EndOf, InTime
    <2>3. \A x \in Keys : EndOf(log'[x], admissions'[x]) /\ InTime(admissions'[x])
      BY <1>0, <1>5, <2>2
    <2>4. \A x \in Keys : EndOf(log[x], admissions[x])' /\ InTime(admissions[x])'
      BY <1>0, <2>3 DEF EndOf, InTime
    <2>5. Log!Limiter!Records(k, g)
      <3> DEFINE F == Keys \ remain
      <3>1. F \in SUBSET (Keys \ {k})
        BY <1>0
      <3>2. admissions' = [x \in Keys |-> IF x = k THEN g ELSE IF x \in F THEN <<>>
                                          ELSE admissions[x]]
        BY <1>5
      <3> QED
        BY <3>1, <3>2 DEF Log!Limiter!Records
    <2> QED
      BY <1>0, <2>1, <2>4, <2>5 DEF LogInv
  <1>6. /\ Log!Kept(k) = [x \in Keys |-> IF x = k THEN p ELSE IF x \in remain THEN log[x] ELSE <<>>]
        /\ Log!Forgets(k) = [x \in Keys |-> IF x = k THEN h
                                            ELSE IF x \in remain THEN admissions[x] ELSE <<>>]
    BY <1>0 DEF Log!Kept, Log!Forgets, p, h
  <1>7. CASE Log!Admit(k)
    <2> DEFINE s == Append(p, now)
               g == Append(h, now)
    <2>1. s \in Seq(Nat) /\ g \in Seq(Nat) /\ EndOf(s, g) /\ InTime(g)
      BY <1>0, <1>1, BothGrow
    <2>2. Len(s) = Len(p) + 1
      BY <1>1
    <2>3. Log!Kept(k)[k] = p /\ Log!Forgets(k)[k] = h
      BY <1>6
    <2>4. /\ Len(p) < limit
          /\ log' = [Log!Kept(k) EXCEPT ![k] = s] /\ admissions' = [Log!Forgets(k) EXCEPT ![k] = g]
          /\ answer' = [allowed |-> TRUE, remaining |-> limit - Len(s), retryAfterMs |-> 0]
      BY <1>7, <2>3 DEF Log!Admit
    <2> HIDE DEF s, g
    <2>5. /\ log' = [x \in Keys |-> IF x = k THEN s ELSE IF x \in remain THEN log[x] ELSE <<>>]
          /\ admissions' = [x \in Keys |-> IF x = k THEN g
                                           ELSE IF x \in remain THEN admissions[x] ELSE <<>>]
      BY <1>6, <2>4
    <2>6. LogInv' /\ Log!Limiter!Records(k, g)
      BY <1>5, <2>1, <2>5
    <2>7. answer' = Log!Limiter!Allowed(limit - Len(p) - 1)
      <3>1. limit - Len(s) = limit - Len(p) - 1
        BY <1>0, <1>2, <2>2
      <3> QED
        BY <2>4, <3>1 DEF Log!Limiter!Allowed
    <2> QED
      BY <1>0, <1>3, <2>4, <2>6, <2>7 DEF Log!Limiter!Admit, recent, g, h
  <1>8. CASE Log!Refuse(k)
    <2>1. Log!Kept(k)[k] = p
      BY <1>6
    <2>2. /\ Len(p) >= limit /\ log' = Log!Kept(k) /\ admissions' = Log!Forgets(k)
          /\ answer' = [allowed |-> FALSE, remaining |-> 0,
                        retryAfterMs |-> IF p = <<>> THEN Window ELSE Head(p) + Window - now]
      BY <1>8, <2>1 DEF Log!Refuse
    <2>3. LogInv' /\ Log!Limiter!Records(k, h)
      BY <1>1, <1>5, <1>6, <2>2
    <2>4. answer' = Log!Limiter!Refused(IF recent = {} THEN Window
                                        ELSE h[Log!Limiter!Min(recent)] + Window - now)
      <3>1. Len(p) # 0 => Head(p) = p[1]
        BY <1>1
      <3>2. (IF p = <<>> THEN Window ELSE Head(p) + Window - now)
            = (IF recent = {} THEN Window ELSE h[Log!Limiter!Min(recent)] + Window - now)
        BY <1>2, <1>3, <1>4, <3>1
      <3> QED
        BY <2>2, <3>2 DEF Log!Limiter!Refused
    <2> QED
      BY <1>0, <1>3, <2>2, <2>3, <2>4 DEF Log!Limiter!Refuse, recent, h
  <1> QED
    BY <1>7, <1>8 DEF Log!Consume

LEMMA LogStep ==
    ASSUME LogInv, OrderInv, Log!Next \/ UNCHANGED logVars
    PROVE  LogInv' /\ (Log!Limiter!Next \/ UNCHANGED <<limit, now, admissions, answer>>)
  <1>1. CASE \E k \in Keys : Log!Consume(k)
    BY <1>1, ConsumeStep DEF Log!Limiter!Next
  <1>2. CASE Log!Elapse
    <2>1. now \in Nat /\ now' = now + 1 /\ UNCHANGED <<limit, log, admissions, answer>> /\ Window \in Nat
      BY <1>2, LogConstants DEF Log!Elapse, LogInv
    <2>2. ASSUME NEW k \in Keys
          PROVE  EndOf(log[k], admissions[k])' /\ InTime(admissions[k])'
      <3>0. log'[k] = log[k] /\ admissions'[k] = admissions[k]
        BY <2>1
      <3>1. /\ admissions[k] \in Seq(Nat) /\ log[k] \in Seq(Nat)
            /\ EndOf(log[k], admissions[k]) /\ InTime(admissions[k])
        BY DEF LogInv
      <3>2. \A i \in 1..Len(admissions[k]) : admissions[k][i] \in Nat
        BY <3>1
      <3>3. EndOf(log[k], admissions[k])'
        <4>1. \A i \in 1..(Len(admissions[k]) - Len(log[k])) : i \in 1..Len(admissions[k])
          BY <3>1 DEF EndOf
        <4> QED
          <5>1. \A i \in 1..(Len(admissions[k]) - Len(log[k])) : admissions[k][i] + Window <= now'
            <6> SUFFICES ASSUME NEW i \in 1..(Len(admissions[k]) - Len(log[k]))
                         PROVE  admissions[k][i] + Window <= now'
              OBVIOUS
            <6>1. admissions[k][i] + Window <= now /\ admissions[k][i] \in Nat
              BY <3>1, <3>2, <4>1 DEF EndOf
            <6> QED
              BY <2>1, <6>1
          <5> QED
            BY <3>0, <3>1, <5>1 DEF EndOf
      <3>4. InTime(admissions[k])'
        BY <2>1, <3>0, <3>1, <3>2 DEF InTime
      <3> QED
        BY <3>3, <3>4
    <2> QED
      BY <2>1, <2>2 DEF LogInv, Log!Limiter!Next, Log!Limiter!Elapse
  <1>3. CASE UNCHANGED logVars
    BY <1>3 DEF logVars, LogInv, EndOf, InTime
  <1> QED
    BY <1>1, <1>2, <1>3 DEF Log!Next

LimitersInv == Inv /\ HintInv /\ LogInv /\ OrderInv
NotForgotten ==
    \A k \in Keys : Log!Contains(order, k) /\ ~Log!Contains(order', k)
        => Log!Cardinality(others'[k]) >= MaxKeys

\* A refused call that comes back after the hint is admitted (rate-limit-
\* redis/src/lua.ts 26-37); every answer of the store in process is one of
\* the abstract limiter's, and only a key that MaxKeys others were used after
\* is forgotten (core/src/rate-limit/in-process-store.ts 39-84): for any
\* limit, window, number of keys and callers.
THEOREM LimitersKeepTheirWordAlways == MCSpec => LimitersKeepTheirWord
  <1>1. MCInit => LimitersInv /\ Log!Limiter!Init
    BY InvInit, HintInit, LogInitial, OrderInitial DEF MCInit, LimitersInv
  <1>2. LimitersInv /\ [MCNext]_allVars =>
            /\ LimitersInv'
            /\ [HintStands]_vars
            /\ [Log!Limiter!Next]_<<limit, now, admissions, answer>>
            /\ [NotForgotten]_logVars
    <2> SUFFICES ASSUME LimitersInv, [MCNext]_allVars
                 PROVE  /\ LimitersInv'
                        /\ [HintStands]_vars
                        /\ [Log!Limiter!Next]_<<limit, now, admissions, answer>>
                        /\ [NotForgotten]_logVars
      OBVIOUS
    <2>1. (Next \/ UNCHANGED vars) /\ (Log!Next \/ UNCHANGED logVars)
      BY LimiterSteps
    <2>2. Inv' /\ HintInv' /\ HintStands
      BY <2>1, InvStep, HintStep DEF LimitersInv
    <2>3. OrderInv' /\ NotForgotten
      BY <2>1, OrderStep DEF LimitersInv, NotForgotten
    <2>4. LogInv' /\ (Log!Limiter!Next \/ UNCHANGED <<limit, now, admissions, answer>>)
      BY <2>1, LogStep DEF LimitersInv
    <2> QED
      BY <2>2, <2>3, <2>4 DEF LimitersInv
  <1>3. MCSpec => /\ [][HintStands]_vars
                  /\ Log!Limiter!Init /\ [][Log!Limiter!Next]_<<limit, now, admissions, answer>>
                  /\ [][NotForgotten]_logVars
    BY <1>1, <1>2, PTL DEF MCSpec
  <1> QED
    BY <1>3
    DEF LimitersKeepTheirWord, HintIsKept, HintStands, Log!ImplementsLimiter, Log!Limiter!Spec,
        Log!ForgetsOnlyUnused, Log!vars, logVars, NotForgotten

-----------------------------------------------------------------------------
(***************************************************************************)
(* Memory: one key.                                                        *)
(***************************************************************************)
KeyRows == [id : Nat, space : Spaces]
RowSet(q) == {q[n] : n \in DOMAIN q}
OwnIds(q) == \A m, n \in DOMAIN q : q[m].id = q[n].id => m = n

KeyTyped ==
    /\ memory \in {"map", "sqlite", "orchestr8"} /\ space \in [Writers -> Spaces]
    /\ rows \in Seq(KeyRows) /\ OwnIds(rows)
    /\ write \in [Writers -> [at : {"idle", "retrieve", "delete", "store"},
                              id : Nat \cup {None}, found : Nat \cup {None}]]
    /\ writes \in Nat /\ newest \in [Spaces -> Nat \cup {None}]

\* Each row and each write under way has an id of its own.
OwnNumbers ==
    /\ \A r \in RowSet(rows) : r.id <= writes
    /\ \A w \in Writers :
          \/ write[w] = Memory!Idle
          \/ /\ memory = "orchestr8" /\ write[w].at # "idle"
             /\ write[w].id \in Nat /\ write[w].id <= writes
             /\ \A r \in RowSet(rows) : r.id # write[w].id
    /\ \A v, w \in Writers :
          v # w /\ write[v] # Memory!Idle => write[v].id # write[w].id

\* The row a write is to delete is of its own namespace, if it is still there.
FoundIsOwn ==
    \A w \in Writers : write[w].at = "delete" =>
        /\ write[w].found \in Nat /\ write[w].found <= writes
        /\ \A r \in RowSet(rows) : r.id = write[w].found => r.space = space[w]
        /\ \A v \in Writers : write[v].id # write[w].found

OneAtATime ==
    \A s \in Spaces \ overlaps : \A v, w \in Writers :
        /\ space[v] = s /\ space[w] = s /\ write[v] # Memory!Idle /\ write[w] # Memory!Idle
        => v = w

\* What the namespace has is the row last acknowledged.
Current(s) ==
    /\ \A r \in RowSet(rows) : r.space = s => r.id = newest[s]
    /\ newest[s] # None => \E r \in RowSet(rows) : r.space = s

MapIsCurrent == memory = "map" => \A s \in Spaces : Current(s)

FileIsCurrent ==
    memory = "sqlite" =>
        /\ \A r \in RowSet(rows) :
              /\ newest[r.space] = r.id /\ Len(rows) = 1
              /\ \A s \in Spaces \ {r.space} : newest[s] # None => newest[s] < r.id
        /\ RowSet(rows) = {} => \A s \in Spaces : newest[s] = None

Storing(s) == \E w \in Writers : space[w] = s /\ write[w].at = "store"
BackendIsCurrent ==
    memory = "orchestr8" =>
        \A s \in Spaces \ (overlaps \cup failed) :
            /\ Storing(s) => \A r \in RowSet(rows) : r.space # s
            /\ ~Storing(s) => Current(s)
            /\ \A w \in Writers : space[w] = s /\ write[w].at = "delete" =>
                  write[w].found = newest[s]

KeyInv ==
    /\ KeyTyped /\ OwnNumbers /\ FoundIsOwn /\ OneAtATime
    /\ MapIsCurrent /\ FileIsCurrent /\ BackendIsCurrent

LEMMA RowAppended ==
    ASSUME NEW q \in Seq(KeyRows), OwnIds(q), NEW e \in KeyRows,
           \A r \in RowSet(q) : r.id # e.id
    PROVE  LET t == Append(q, e)
           IN  /\ t \in Seq(KeyRows) /\ OwnIds(t) /\ RowSet(t) = RowSet(q) \cup {e}
               /\ Len(t) = Len(q) + 1
  <1> DEFINE t == Append(q, e)
  <1>1. /\ t \in Seq(KeyRows) /\ Len(t) = Len(q) + 1 /\ Len(q) \in Nat
        /\ \A i \in 1..Len(q) : t[i] = q[i] /\ q[i] \in RowSet(q)
        /\ t[Len(q) + 1] = e
    BY AppendProperties DEF RowSet
  <1>2. DOMAIN q = 1..Len(q) /\ DOMAIN t = 1..(Len(q) + 1)
    BY <1>1
  <1> HIDE DEF t
  <1>3. \A i \in DOMAIN t : i \in 1..Len(q) \/ i = Len(q) + 1
    BY <1>1, <1>2
  <1>4. RowSet(t) = RowSet(q) \cup {e}
    <2>1. RowSet(t) \subseteq RowSet(q) \cup {e}
      BY <1>1, <1>3 DEF RowSet
    <2>2. RowSet(q) \subseteq RowSet(t)
      <3> SUFFICES ASSUME NEW i \in 1..Len(q)
                   PROVE  q[i] \in RowSet(t)
        BY <1>2 DEF RowSet
      <3>1. i \in 1..(Len(q) + 1)
        BY <1>1
      <3> QED
        BY <1>1, <1>2, <3>1 DEF RowSet
    <2>3. e \in RowSet(t)
      <3>1. Len(q) + 1 \in 1..(Len(q) + 1)
        BY <1>1
      <3> QED
        BY <1>1, <1>2, <3>1 DEF RowSet
    <2> QED
      BY <2>1, <2>2, <2>3
  <1>5. OwnIds(t)
    BY <1>1, <1>2, <1>3 DEF OwnIds
  <1> QED
    BY <1>1, <1>4, <1>5 DEF t

LEMMA RowRemoved ==
    ASSUME NEW q \in Seq(KeyRows), OwnIds(q), NEW k \in DOMAIN q
    PROVE  LET t == Memory!RemoveAt(q, k)
           IN  /\ t \in Seq(KeyRows) /\ OwnIds(t)
               /\ RowSet(t) = {r \in RowSet(q) : r.id # q[k].id}
  <1> DEFINE a == SubSeq(q, 1, k - 1)
             b == SubSeq(q, k + 1, Len(q))
             t == Memory!RemoveAt(q, k)
  <1>1. Len(q) \in Nat /\ DOMAIN q = 1..Len(q) /\ k \in 1..Len(q) /\ \A i \in 1..Len(q) : q[i] \in KeyRows
    OBVIOUS
  <1>2. a \in Seq(KeyRows) /\ Len(a) = k - 1 /\ \A i \in 1..(k - 1) : a[i] = q[i]
    <2>1. \A i \in 1..(k - 1) : q[i] \in KeyRows
      BY <1>1
    <2>2. a \in Seq(KeyRows)
      BY <1>1, <2>1, SubSeqProperties
    <2>3. Len(a) = (IF 1 <= k - 1 THEN (k - 1) - 1 + 1 ELSE 0) /\ \A i \in 1..((k - 1) - 1 + 1) : a[i] = q[1 + i - 1]
      BY <1>1, <2>1, SubSeqProperties
    <2> HIDE DEF a
    <2>4. (k - 1) - 1 + 1 = k - 1 /\ (1 <= k - 1 \/ k - 1 = 0)
      BY <1>1
    <2>5. \A i \in 1..(k - 1) : 1 + i - 1 = i
      BY <1>1
    <2> QED
      BY <2>2, <2>3, <2>4, <2>5
  <1>3. b \in Seq(KeyRows) /\ Len(b) = Len(q) - k /\ \A i \in 1..(Len(q) - k) : b[i] = q[k + i]
    <2>1. \A i \in (k + 1)..Len(q) : q[i] \in KeyRows
      BY <1>1
    <2>2. b \in Seq(KeyRows)
      BY <1>1, <2>1, SubSeqProperties
    <2>3. /\ Len(b) = IF k + 1 <= Len(q) THEN Len(q) - (k + 1) + 1 ELSE 0
          /\ \A i \in 1..(Len(q) - (k + 1) + 1) : b[i] = q[(k + 1) + i - 1]
      BY <1>1, <2>1, SubSeqProperties
    <2> HIDE DEF b
    <2>4. Len(q) - (k + 1) + 1 = Len(q) - k /\ (k + 1 <= Len(q) \/ Len(q) - k = 0)
      BY <1>1
    <2>5. \A i \in 1..(Len(q) - k) : (k + 1) + i - 1 = k + i
      BY <1>1
    <2> QED
      BY <2>2, <2>3, <2>4, <2>5
  <1>4. t = a \o b
    BY DEF Memory!RemoveAt
  <1> HIDE DEF a, b, t
  <1>5. /\ t \in Seq(KeyRows) /\ Len(t) = Len(q) - 1
        /\ \A i \in 1..Len(t) : t[i] = IF i <= k - 1 THEN q[i] ELSE q[i + 1]
    <2>1. /\ t \in Seq(KeyRows) /\ Len(t) = (k - 1) + (Len(q) - k)
          /\ \A i \in 1..((k - 1) + (Len(q) - k)) : t[i] = IF i <= k - 1 THEN a[i] ELSE b[i - (k - 1)]
      BY <1>2, <1>3, <1>4, ConcatProperties
    <2>2. Len(t) = Len(q) - 1
      BY <1>1, <2>1
    <2>3. ASSUME NEW i \in 1..Len(t) PROVE t[i] = IF i <= k - 1 THEN q[i] ELSE q[i + 1]
      <3>1. CASE i <= k - 1
        BY <1>1, <1>2, <2>1, <2>2, <3>1
      <3>2. CASE ~(i <= k - 1)
        <4>1. i - (k - 1) \in 1..(Len(q) - k) /\ k + (i - (k - 1)) = i + 1
          BY <1>1, <2>2, <3>2
        <4>2. t[i] = b[i - (k - 1)]
          BY <1>1, <2>1, <2>2, <3>2
        <4>3. b[i - (k - 1)] = q[k + (i - (k - 1))]
          BY <1>3, <4>1
        <4> QED
          BY <3>2, <4>1, <4>2, <4>3
      <3> QED
        BY <3>1, <3>2
    <2> QED
      BY <2>1, <2>2, <2>3
  <1>6. DOMAIN t = 1..(Len(q) - 1)
    BY <1>5
  <1> DEFINE was(i) == IF i <= k - 1 THEN i ELSE i + 1
  <1>7. \A i \in DOMAIN t : was(i) \in DOMAIN q /\ was(i) # k /\ t[i] = q[was(i)]
    BY <1>1, <1>5, <1>6
  <1>8. \A j \in DOMAIN q \ {k} : \E i \in DOMAIN t : was(i) = j
    <2> SUFFICES ASSUME NEW j \in DOMAIN q \ {k} PROVE \E i \in DOMAIN t : was(i) = j
      OBVIOUS
    <2>1. CASE j <= k - 1
      BY <1>1, <1>6, <2>1
    <2>2. CASE ~(j <= k - 1)
      <3>1. j - 1 \in DOMAIN t /\ was(j - 1) = j
        BY <1>1, <1>6, <2>2
      <3> QED
        BY <3>1
    <2> QED
      BY <2>1, <2>2
  <1>9. \A i, j \in DOMAIN t : was(i) = was(j) => i = j
    BY <1>1, <1>6
  <1> HIDE DEF was
  <1>10. OwnIds(t)
    BY <1>7, <1>9 DEF OwnIds
  <1>11. RowSet(t) = {r \in RowSet(q) : r.id # q[k].id}
    <2>1. \A r \in RowSet(t) : r \in RowSet(q) /\ r.id # q[k].id
      BY <1>7 DEF RowSet, OwnIds
    <2>2. \A r \in RowSet(q) : r.id # q[k].id => r \in RowSet(t)
      <3> SUFFICES ASSUME NEW j \in DOMAIN q, q[j].id # q[k].id PROVE q[j] \in RowSet(t)
        BY DEF RowSet
      <3>1. PICK i \in DOMAIN t : was(i) = j
        BY <1>8
      <3> QED
        BY <1>7, <3>1 DEF RowSet
    <2> QED
      BY <2>1, <2>2
  <1> QED
    BY <1>5, <1>10, <1>11 DEF t

\* Without leaves the other rows.
LEMMA RowsWithout ==
    ASSUME rows \in Seq(KeyRows), OwnIds(rows), NEW id
    PROVE  LET t == Memory!Without(id)
           IN  /\ t \in Seq(KeyRows) /\ OwnIds(t)
               /\ RowSet(t) = {r \in RowSet(rows) : r.id # id}
  <1>1. CASE \E n \in DOMAIN rows : rows[n].id = id
    <2> DEFINE k == CHOOSE n \in DOMAIN rows : rows[n].id = id
    <2>1. k \in DOMAIN rows /\ rows[k].id = id
      BY <1>1
    <2>2. Memory!Without(id) = Memory!RemoveAt(rows, k)
      BY <1>1 DEF Memory!Without
    <2> HIDE DEF k
    <2> QED
      BY <2>1, <2>2, RowRemoved
  <1>2. CASE ~\E n \in DOMAIN rows : rows[n].id = id
    BY <1>2 DEF Memory!Without, RowSet
  <1> QED
    BY <1>1, <1>2

\* A read finds a row of the namespace, if there is one.
LEMMA ReadFinds ==
    ASSUME rows \in Seq(KeyRows), NEW s \in Spaces, None \notin Nat
    PROVE  \/ Memory!Visible(s) = None /\ \A r \in RowSet(rows) : r.space # s
           \/ \E r \in RowSet(rows) : r.space = s /\ Memory!Visible(s) = r.id /\ r.id \in Nat
  <1>1. Memory!Mine(s) \in SUBSET Nat
    BY DEF Memory!Mine
  <1>2. CASE Memory!Mine(s) = {}
    BY <1>2 DEF Memory!Mine, Memory!Visible, RowSet
  <1>3. CASE Memory!Mine(s) # {}
    <2> DEFINE k == CHOOSE n \in Memory!Mine(s) : \A m \in Memory!Mine(s) : n <= m
    <2>1. k \in Memory!Mine(s)
      BY <1>1, <1>3, HasLeast
    <2>2. Memory!Visible(s) = rows[k].id
      BY <1>3 DEF Memory!Visible
    <2> HIDE DEF k
    <2>3. k \in DOMAIN rows /\ rows[k].space = s /\ rows[k] \in KeyRows
      BY <2>1 DEF Memory!Mine
    <2> QED
      BY <2>2, <2>3 DEF RowSet, KeyRows
  <1> QED
    BY <1>2, <1>3

KeyConstants == None \notin Nat /\ Memories \subseteq {"map", "sqlite", "orchestr8"}

LEMMA KeyFacts == KeyConstants
  BY DependencyAssumption DEF DependencyAssumption, KeyConstants

\* No two rows have the same id.
LEMMA SameRow ==
    ASSUME KeyTyped PROVE \A q, r \in RowSet(rows) : q \in KeyRows /\ (q.id = r.id => q = r)
  BY DEF KeyTyped, OwnIds, RowSet

LEMMA RowsLater == RowSet(rows)' = RowSet(rows') /\ (OwnIds(rows)' <=> OwnIds(rows'))
  BY DEF RowSet, OwnIds

LEMMA KeyStart == Memory!Init => KeyInv
  <1> SUFFICES ASSUME Memory!Init PROVE KeyInv
    OBVIOUS
  <1>1. RowSet(rows) = {} /\ OwnIds(rows) /\ rows \in Seq(KeyRows)
    BY DEF Memory!Init, RowSet, OwnIds
  <1>2. KeyTyped
    BY <1>1, KeyFacts DEF Memory!Init, KeyTyped, KeyConstants, Memory!Idle
  <1>3. \A w \in Writers : write[w] = Memory!Idle /\ write[w].at = "idle"
    BY DEF Memory!Init, Memory!Idle
  <1>4. \A s \in Spaces : Current(s) /\ ~Storing(s)
    BY <1>1, <1>3 DEF Memory!Init, Current, Storing
  <1>5. \A s \in Spaces : newest[s] = None
    BY DEF Memory!Init
  <1> QED
    BY <1>1, <1>2, <1>3, <1>4, <1>5
    DEF KeyInv, OwnNumbers, FoundIsOwn, OneAtATime, MapIsCurrent, FileIsCurrent, BackendIsCurrent

\* Map.set and INSERT OR REPLACE.
LEMMA WriteAtOnceStep ==
    ASSUME KeyInv, NEW w \in Writers, Memory!WriteAtOnce(w) PROVE KeyInv'
  <1> DEFINE s == space[w]
             id == writes + 1
             e == [id |-> id, space |-> s]
             base == IF memory = "sqlite" THEN <<>> ELSE Memory!KeepOthers(s)
  <1>0. /\ memory \in {"map", "sqlite"} /\ rows' = Append(base, e) /\ writes' = writes + 1
        /\ newest' = [newest EXCEPT ![s] = id]
        /\ UNCHANGED <<memory, space, write, overlaps, failed>>
    BY DEF Memory!WriteAtOnce, Memory!Begins, Memory!Acknowledged
  <1>1. /\ s \in Spaces /\ writes \in Nat /\ id \in Nat /\ e \in KeyRows
        /\ newest \in [Spaces -> Nat \cup {None}] /\ None \notin Nat
    BY KeyFacts DEF KeyInv, KeyTyped, KeyRows, KeyConstants
  <1>2. \A r \in RowSet(rows) : r.id <= writes /\ r.id \in Nat /\ r.space \in Spaces
    BY SameRow DEF KeyInv, OwnNumbers, KeyRows
  <1>3. /\ base \in Seq(KeyRows) /\ OwnIds(base) /\ RowSet(base) \subseteq RowSet(rows)
        /\ memory = "sqlite" => RowSet(base) = {} /\ Len(base) = 0
        /\ memory = "map" => RowSet(base) = {r \in RowSet(rows) : r.space # s}
    <2>1. CASE memory = "sqlite"
      BY <2>1 DEF RowSet, OwnIds
    <2>2. CASE memory # "sqlite"
      <3>1. base = Memory!Without(Memory!Visible(s)) /\ memory = "map"
        BY <1>0, <2>2 DEF Memory!KeepOthers
      <3> HIDE DEF base
      <3>2. /\ base \in Seq(KeyRows) /\ OwnIds(base)
            /\ RowSet(base) = {r \in RowSet(rows) : r.id # Memory!Visible(s)}
        BY <3>1, RowsWithout DEF KeyInv, KeyTyped
      <3>3. \/ Memory!Visible(s) = None /\ \A r \in RowSet(rows) : r.space # s
            \/ \E r \in RowSet(rows) : r.space = s /\ Memory!Visible(s) = r.id
        BY <1>1, ReadFinds DEF KeyInv, KeyTyped
      <3>4. \A r \in RowSet(rows) : r.space = s => r.id = newest[s]
        BY <1>1, <3>1 DEF KeyInv, MapIsCurrent, Current
      <3>5. RowSet(base) = {r \in RowSet(rows) : r.space # s}
        <4>1. CASE Memory!Visible(s) = None /\ \A r \in RowSet(rows) : r.space # s
          BY <1>1, <1>2, <3>2, <4>1
        <4>2. CASE \E r \in RowSet(rows) : r.space = s /\ Memory!Visible(s) = r.id
          <5>1. PICK r \in RowSet(rows) : r.space = s /\ Memory!Visible(s) = r.id
            BY <4>2
          <5>2. \A q \in RowSet(rows) : q.id = r.id => q.space = s
            BY <5>1, SameRow DEF KeyInv
          <5>3. \A q \in RowSet(rows) : q.space = s => q.id = r.id
            BY <3>4, <5>1
          <5> QED
            BY <3>2, <5>1, <5>2, <5>3
        <4> QED
          BY <3>3, <4>1, <4>2
      <3> QED
        BY <3>1, <3>2, <3>5, <2>2
    <2> QED
      BY <2>1, <2>2
  <1> HIDE DEF base
  <1>4. /\ rows' \in Seq(KeyRows) /\ OwnIds(rows') /\ RowSet(rows') = RowSet(base) \cup {e}
        /\ Len(rows') = Len(base) + 1
    <2>1. \A r \in RowSet(base) : r.id # e.id
      BY <1>1, <1>2, <1>3
    <2> QED
      BY <1>0, <1>1, <1>3, <2>1, RowAppended
  <1>5. \A v \in Writers : write[v] = Memory!Idle /\ write[v].at = "idle"
    BY <1>0 DEF KeyInv, OwnNumbers, Memory!Idle
  <1>6. \A t \in Spaces : newest'[t] = IF t = s THEN id ELSE newest[t]
    BY <1>0, <1>1
  <1>7. KeyTyped' /\ OwnNumbers'
    <2>1. KeyTyped'
      BY <1>0, <1>1, <1>4, RowsLater DEF KeyInv, KeyTyped
    <2>2. OwnNumbers'
      <3>1. \A r \in RowSet(rows') : r.id <= writes'
        BY <1>0, <1>1, <1>2, <1>3, <1>4
      <3> QED
        BY <1>0, <1>5, <3>1, RowsLater DEF OwnNumbers, Memory!Idle
    <2> QED
      BY <2>1, <2>2
  <1>8. FoundIsOwn' /\ OneAtATime' /\ BackendIsCurrent'
    BY <1>0, <1>5 DEF FoundIsOwn, OneAtATime, BackendIsCurrent, Memory!Idle
  <1>9. MapIsCurrent'
    <2> SUFFICES ASSUME memory = "map", NEW t \in Spaces PROVE Current(t)'
      BY <1>0 DEF MapIsCurrent
    <2>1. RowSet(rows') = {r \in RowSet(rows) : r.space # s} \cup {e}
      BY <1>3, <1>4
    <2>2. /\ \A r \in RowSet(rows) : r.space = t => r.id = newest[t]
          /\ newest[t] # None => \E r \in RowSet(rows) : r.space = t
      BY DEF KeyInv, MapIsCurrent, Current
    <2>3. /\ \A r \in RowSet(rows') : r.space = t => r.id = newest'[t]
          /\ newest'[t] # None => \E r \in RowSet(rows') : r.space = t
      <3>1. CASE t = s
        <4>1. newest'[t] = id /\ e.space = t /\ e.id = id /\ e \in RowSet(rows')
          BY <1>6, <2>1, <3>1
        <4>2. \A r \in RowSet(rows') : r.space = t => r = e
          BY <2>1, <3>1
        <4> QED
          BY <4>1, <4>2
      <3>2. CASE t # s
        <4>1. newest'[t] = newest[t] /\ e.space # t
          BY <1>6, <3>2
        <4>2. \A r \in RowSet(rows') : r.space = t => r \in RowSet(rows)
          BY <2>1, <4>1
        <4>3. \A r \in RowSet(rows) : r.space = t => r \in RowSet(rows')
          BY <2>1, <3>2
        <4> QED
          BY <2>2, <4>1, <4>2, <4>3
      <3> QED
        BY <3>1, <3>2
    <2> QED
      BY <2>3, RowsLater DEF Current
  <1>10. FileIsCurrent'
    <2> SUFFICES ASSUME memory = "sqlite" PROVE FileIsCurrent'
      BY <1>0 DEF FileIsCurrent
    <2>1. RowSet(rows') = {e} /\ Len(rows') = 1
      BY <1>3, <1>4
    <2>2. \A t \in Spaces : newest[t] # None => newest[t] <= writes /\ newest[t] \in Nat
      <3> SUFFICES ASSUME NEW t \in Spaces, newest[t] # None
                   PROVE  newest[t] <= writes /\ newest[t] \in Nat
        OBVIOUS
      <3>1. newest[t] \in Nat
        BY <1>1
      <3>2. PICK r \in RowSet(rows) : TRUE
        BY DEF KeyInv, FileIsCurrent
      <3>3. newest[r.space] = r.id /\ (t # r.space => newest[t] < r.id)
        BY DEF KeyInv, FileIsCurrent
      <3>4. r.id <= writes /\ r.id \in Nat
        BY <1>2
      <3> QED
        BY <1>1, <3>1, <3>3, <3>4
    <2>3. \A t \in Spaces \ {s} : newest'[t] # None => newest'[t] < id
      BY <1>1, <1>6, <2>2
    <2>4. newest'[s] = id /\ e.id = id /\ e.space = s
      BY <1>1, <1>6
    <2> QED
      BY <2>1, <2>3, <2>4, RowsLater DEF FileIsCurrent
  <1> QED
    BY <1>7, <1>8, <1>9, <1>10 DEF KeyInv

\* Up to the first await.
LEMMA BeginWriteStep ==
    ASSUME KeyInv, NEW w \in Writers, Memory!BeginWrite(w) PROVE KeyInv'
  <1> DEFINE s == space[w]
             new == [at |-> "retrieve", id |-> writes + 1, found |-> None]
  <1>0. /\ memory = "orchestr8" /\ write[w] = Memory!Idle /\ writes' = writes + 1
        /\ write' = [write EXCEPT ![w] = new]
        /\ overlaps' = IF Memory!Writing(s) THEN overlaps \cup {s} ELSE overlaps
        /\ UNCHANGED <<memory, space, rows, newest, failed>>
    BY DEF Memory!BeginWrite, Memory!Begins
  <1>1. /\ s \in Spaces /\ writes \in Nat /\ None \notin Nat /\ writes + 1 \in Nat
        /\ write \in [Writers -> [at : {"idle", "retrieve", "delete", "store"},
                                  id : Nat \cup {None}, found : Nat \cup {None}]]
    BY KeyFacts DEF KeyInv, KeyTyped, KeyConstants
  <1>2. \A v \in Writers : write'[v] = IF v = w THEN new ELSE write[v]
    BY <1>0, <1>1
  <1>3. new # Memory!Idle /\ new.at = "retrieve" /\ new.id = writes + 1 /\ write[w].at = "idle"
    BY <1>0 DEF Memory!Idle
  <1> HIDE DEF new
  <1>4. \A v \in Writers : write[v].id # writes + 1
    BY <1>1 DEF KeyInv, OwnNumbers, Memory!Idle
  <1>5. RowSet(rows)' = RowSet(rows) /\ \A r \in RowSet(rows) : r.id <= writes /\ r.id \in Nat
    BY <1>0, SameRow, RowsLater DEF KeyInv, OwnNumbers, KeyRows
  <1>6. KeyTyped'
    <2>1. new \in [at : {"idle", "retrieve", "delete", "store"},
                   id : Nat \cup {None}, found : Nat \cup {None}]
      BY <1>1 DEF new
    <2>2. write' \in [Writers -> [at : {"idle", "retrieve", "delete", "store"},
                                  id : Nat \cup {None}, found : Nat \cup {None}]]
      BY <1>0, <1>1, <2>1
    <2> QED
      BY <1>0, <1>1, <2>2, RowsLater DEF KeyInv, KeyTyped
  <1>7. OwnNumbers'
    <2>1. \A r \in RowSet(rows) : r.id <= writes + 1 /\ r.id # writes + 1
      BY <1>1, <1>5
    <2>2. ASSUME NEW v \in Writers
          PROVE  \/ write'[v] = Memory!Idle
                 \/ /\ write'[v].at # "idle" /\ write'[v].id \in Nat /\ write'[v].id <= writes + 1
                    /\ \A r \in RowSet(rows) : r.id # write'[v].id
      BY <1>1, <1>2, <1>3, <2>1 DEF KeyInv, OwnNumbers
    <2>3. ASSUME NEW u \in Writers, NEW v \in Writers, u # v, write'[u] # Memory!Idle
          PROVE  write'[u].id # write'[v].id
      BY <1>2, <1>3, <1>4, <2>3 DEF KeyInv, OwnNumbers
    <2> QED
      BY <1>0, <1>5, <2>1, <2>2, <2>3 DEF OwnNumbers, Memory!Idle
  <1>8. FoundIsOwn'
    <2> SUFFICES ASSUME NEW v \in Writers, write'[v].at = "delete"
                 PROVE  /\ write'[v].found \in Nat /\ write'[v].found <= writes'
                        /\ \A r \in RowSet(rows) : r.id = write'[v].found => r.space = space[v]
                        /\ \A u \in Writers : write'[u].id # write'[v].found
      BY <1>0, <1>5 DEF FoundIsOwn
    <2>1. write'[v] = write[v] /\ v # w
      BY <1>2, <1>3
    <2>2. /\ write[v].found \in Nat /\ write[v].found <= writes
          /\ \A r \in RowSet(rows) : r.id = write[v].found => r.space = space[v]
          /\ \A u \in Writers : write[u].id # write[v].found
      BY <2>1 DEF KeyInv, FoundIsOwn
    <2>3. write[v].found <= writes + 1 /\ write[v].found # writes + 1
      BY <1>1, <2>2
    <2> QED
      BY <1>0, <1>2, <1>3, <2>1, <2>2, <2>3
  <1>9. OneAtATime'
    <2> SUFFICES ASSUME NEW t \in Spaces, t \notin overlaps', NEW u \in Writers, NEW v \in Writers,
                        space[u] = t, space[v] = t,
                        write'[u] # Memory!Idle, write'[v] # Memory!Idle
                 PROVE  u = v
      BY <1>0 DEF OneAtATime, Memory!Idle
    <2>1. t \notin overlaps
      BY <1>0
    <2>2. t = s => ~Memory!Writing(s)
      BY <1>0
    <2>3. t = s => u = w /\ v = w
      BY <1>2, <2>2 DEF Memory!Writing
    <2>4. t # s => u # w /\ v # w
      OBVIOUS
    <2> QED
      BY <1>2, <2>1, <2>3, <2>4 DEF KeyInv, OneAtATime
  <1>10. BackendIsCurrent'
    <2> SUFFICES ASSUME NEW t \in Spaces \ (overlaps' \cup failed)
                 PROVE  /\ Storing(t)' => \A r \in RowSet(rows) : r.space # t
                        /\ ~Storing(t)' => Current(t)'
                        /\ \A v \in Writers : space[v] = t /\ write'[v].at = "delete" =>
                              write'[v].found = newest[t]
      BY <1>0, <1>5 DEF BackendIsCurrent
    <2>1. t \in Spaces \ (overlaps \cup failed)
      BY <1>0
    <2>2. Storing(t)' <=> Storing(t)
      BY <1>0, <1>2, <1>3 DEF Storing
    <2>3. Current(t)' <=> Current(t)
      BY <1>0, <1>5 DEF Current
    <2> QED
      BY <1>0, <1>2, <1>3, <2>1, <2>2, <2>3 DEF KeyInv, BackendIsCurrent
  <1> QED
    BY <1>0, <1>6, <1>7, <1>8, <1>9, <1>10 DEF KeyInv, MapIsCurrent, FileIsCurrent

Calls == [at : {"idle", "retrieve", "delete", "store"}, id : Nat \cup {None}, found : Nat \cup {None}]

\* The call of one writer goes on, or ends: at most its own row is added.
Moved(w, new) ==
    /\ write[w] # Memory!Idle /\ write' = [write EXCEPT ![w] = new] /\ new \in Calls
    /\ new = Memory!Idle \/ (new.at # "idle" /\ new.id = write[w].id)
    /\ new.at = "delete" =>
          /\ new.found \in Nat /\ new.found <= writes
          /\ \A r \in RowSet(rows) : r.id = new.found => r.space = space[w]
          /\ \A v \in Writers : write[v].id # new.found
    /\ rows' \in Seq(KeyRows) /\ OwnIds(rows')
    /\ \A r \in RowSet(rows') : r \in RowSet(rows) \/ (new = Memory!Idle /\ r.id = write[w].id)
    /\ UNCHANGED <<memory, space, writes, overlaps>>

LEMMA MoveStep ==
    ASSUME KeyInv, NEW w \in Writers, NEW new, Moved(w, new)
    PROVE  /\ memory = "orchestr8" /\ \A v \in Writers : write'[v] = IF v = w THEN new ELSE write[v]
           /\ newest' \in [Spaces -> Nat \cup {None}] => KeyTyped'
           /\ OwnNumbers' /\ FoundIsOwn' /\ OneAtATime'
           /\ \A v \in Writers : space[v] = space[w] /\ write[v] # Memory!Idle
                 => v = w \/ space[w] \in overlaps
           /\ write[w].id \in Nat
  <1>0. /\ write \in [Writers -> Calls] /\ writes \in Nat /\ None \notin Nat
        /\ space \in [Writers -> Spaces]
    BY KeyFacts DEF KeyInv, KeyTyped, KeyConstants, Calls
  <1>1. \A v \in Writers : write'[v] = IF v = w THEN new ELSE write[v]
    BY <1>0 DEF Moved
  <1>2. /\ memory = "orchestr8" /\ write[w].id \in Nat /\ write[w].id <= writes
        /\ \A r \in RowSet(rows) : r.id # write[w].id
    BY DEF KeyInv, OwnNumbers, Moved
  <1>3. newest' \in [Spaces -> Nat \cup {None}] => KeyTyped'
    <2>1. write' \in [Writers -> Calls]
      BY <1>0 DEF Moved
    <2> QED
      BY <1>0, <2>1, RowsLater DEF KeyInv, KeyTyped, Moved, Calls
  <1>4. \A r \in RowSet(rows') : r \in RowSet(rows) \/ (new = Memory!Idle /\ r.id = write[w].id)
    BY DEF Moved
  <1>5. \A v \in Writers \ {w} : write[v].id # write[w].id
    BY DEF KeyInv, OwnNumbers, Moved
  <1>6. new = Memory!Idle \/ (new.at # "idle" /\ new.id = write[w].id)
    BY DEF Moved
  <1>7. Memory!Idle.id = None /\ Memory!Idle.at = "idle"
    BY DEF Memory!Idle
  <1>8. OwnNumbers'
    <2>1. \A r \in RowSet(rows') : r.id <= writes
      BY <1>2, <1>4 DEF KeyInv, OwnNumbers
    <2>2. ASSUME NEW v \in Writers
          PROVE  \/ write'[v] = Memory!Idle
                 \/ /\ write'[v].at # "idle" /\ write'[v].id \in Nat /\ write'[v].id <= writes
                    /\ \A r \in RowSet(rows') : r.id # write'[v].id
      <3>1. CASE v = w
        BY <1>1, <1>2, <1>4, <1>6, <3>1
      <3>2. CASE v # w
        <4>1. \/ write[v] = Memory!Idle
              \/ /\ write[v].at # "idle" /\ write[v].id \in Nat /\ write[v].id <= writes
                 /\ \A r \in RowSet(rows) : r.id # write[v].id
          BY DEF KeyInv, OwnNumbers
        <4> QED
          BY <1>1, <1>4, <1>5, <3>2, <4>1
      <3> QED
        BY <3>1, <3>2
    <2>3. ASSUME NEW u \in Writers, NEW v \in Writers, u # v, write'[u] # Memory!Idle
          PROVE  write'[u].id # write'[v].id
      <3>1. write[u] # Memory!Idle
        BY <1>1, <2>3 DEF Moved
      <3>2. write[u].id # write[v].id /\ write[u].id # None
        BY <1>0, <2>3, <3>1 DEF KeyInv, OwnNumbers
      <3>3. write'[u].id = write[u].id
        BY <1>1, <1>6, <2>3
      <3>4. write'[v].id = write[v].id \/ write'[v].id = None
        BY <1>1, <1>6, <1>7
      <3> QED
        BY <3>2, <3>3, <3>4
    <2> QED
      BY <1>2, <2>1, <2>2, <2>3, RowsLater DEF OwnNumbers, Memory!Idle, Moved
  <1>9. FoundIsOwn'
    <2> SUFFICES ASSUME NEW v \in Writers, write'[v].at = "delete"
                 PROVE  /\ write'[v].found \in Nat /\ write'[v].found <= writes
                        /\ \A r \in RowSet(rows') : r.id = write'[v].found => r.space = space[v]
                        /\ \A u \in Writers : write'[u].id # write'[v].found
      BY RowsLater DEF FoundIsOwn, Moved
    <2>1. /\ write'[v].found \in Nat /\ write'[v].found <= writes
          /\ \A r \in RowSet(rows) : r.id = write'[v].found => r.space = space[v]
          /\ \A u \in Writers : write[u].id # write'[v].found
      <3>1. CASE v = w
        BY <1>1, <3>1 DEF Moved
      <3>2. CASE v # w
        BY <1>1, <3>2 DEF KeyInv, FoundIsOwn
      <3> QED
        BY <3>1, <3>2
    <2>2. \A u \in Writers : write'[u].id = write[u].id \/ write'[u].id = None
      BY <1>1, <1>6, <1>7
    <2> QED
      BY <1>0, <1>4, <2>1, <2>2
  <1>10. /\ OneAtATime'
         /\ \A v \in Writers : space[v] = space[w] /\ write[v] # Memory!Idle
               => v = w \/ space[w] \in overlaps
    <2>1. \A v \in Writers : write'[v] # Memory!Idle => write[v] # Memory!Idle
      BY <1>1 DEF Moved
    <2>2. OneAtATime'
      BY <2>1 DEF KeyInv, OneAtATime, Memory!Idle, Moved
    <2> QED
      BY <1>0, <2>2 DEF KeyInv, OneAtATime, Moved
  <1> QED
    BY <1>1, <1>2, <1>3, <1>8, <1>9, <1>10

LEMMA RetrieveStep ==
    ASSUME KeyInv, NEW w \in Writers, Memory!Retrieve(w) PROVE KeyInv'
  <1> DEFINE s == space[w]
             found == Memory!Visible(s)
             new == [at |-> IF found = None THEN "store" ELSE "delete", id |-> write[w].id,
                     found |-> found]
  <1>0. /\ write \in [Writers -> Calls] /\ None \notin Nat /\ s \in Spaces
        /\ rows \in Seq(KeyRows) /\ OwnIds(rows)
    BY KeyFacts DEF KeyInv, KeyTyped, KeyConstants, Calls
  <1>1. /\ write[w].at = "retrieve" /\ write' = [write EXCEPT ![w] = new]
        /\ UNCHANGED <<memory, space, rows, newest, writes, overlaps, failed>>
    BY DEF Memory!Retrieve
  <1>2. \/ found = None /\ \A r \in RowSet(rows) : r.space # s
        \/ found \in Nat /\ \E r \in RowSet(rows) : r.space = s /\ found = r.id
    BY <1>0, ReadFinds
  <1>3. write[w] # Memory!Idle
    BY <1>1 DEF Memory!Idle
  <1> HIDE DEF found
  <1>4. Moved(w, new)
    <2>1. new \in Calls /\ new.at # "idle" /\ new.id = write[w].id
      BY <1>0, <1>2 DEF Calls
    <2>2. ASSUME new.at = "delete"
          PROVE  /\ new.found \in Nat /\ new.found <= writes
                 /\ \A r \in RowSet(rows) : r.id = new.found => r.space = space[w]
                 /\ \A v \in Writers : write[v].id # new.found
      <3>1. new.found = found /\ found \in Nat
        BY <1>2, <2>2
      <3>2. PICK r \in RowSet(rows) : r.space = s /\ found = r.id
        BY <1>0, <1>2, <3>1
      <3>3. r.id <= writes /\ \A v \in Writers : write[v].id # r.id
        BY <1>0, <3>1, <3>2 DEF KeyInv, OwnNumbers, Memory!Idle
      <3>4. \A q \in RowSet(rows) : q.id = r.id => q.space = s
        BY <3>2, SameRow DEF KeyInv
      <3> QED
        BY <3>1, <3>2, <3>3, <3>4
    <2> QED
      BY <1>0, <1>1, <1>3, <2>1, <2>2 DEF Moved
  <1>5. KeyTyped' /\ OwnNumbers' /\ FoundIsOwn' /\ OneAtATime' /\ memory = "orchestr8"
        /\ \A v \in Writers : write'[v] = IF v = w THEN new ELSE write[v]
    BY <1>1, <1>4, MoveStep DEF KeyInv, KeyTyped
  <1>6. \A v \in Writers : space[v] = s /\ write[v] # Memory!Idle => v = w \/ s \in overlaps
    BY <1>4, MoveStep
  <1>7. BackendIsCurrent'
    <2>0. RowSet(rows)' = RowSet(rows)
      BY <1>1, RowsLater
    <2> SUFFICES ASSUME NEW t \in Spaces \ (overlaps \cup failed)
                 PROVE  /\ Storing(t)' => \A r \in RowSet(rows) : r.space # t
                        /\ ~Storing(t)' => Current(t)'
                        /\ \A v \in Writers : space[v] = t /\ write'[v].at = "delete" =>
                              write'[v].found = newest[t]
      BY <1>1, <2>0 DEF BackendIsCurrent
    <2>1. /\ Storing(t) => \A r \in RowSet(rows) : r.space # t
          /\ ~Storing(t) => Current(t)
          /\ \A v \in Writers : space[v] = t /\ write[v].at = "delete" => write[v].found = newest[t]
      BY <1>5 DEF KeyInv, BackendIsCurrent
    <2>2. Current(t)' <=> Current(t)
      BY <1>1, <2>0 DEF Current
    <2>3. CASE t = s
      <3>1. \A v \in Writers : space[v] = s => v = w \/ write[v].at = "idle"
        BY <1>6, <2>3 DEF Memory!Idle
      <3>2. ~Storing(t)
        BY <1>1, <2>3, <3>1 DEF Storing
      <3>3. \A v \in Writers : space[v] = t /\ write'[v].at = "delete" =>
                v = w /\ found # None /\ write'[v].found = found
        BY <1>5, <2>3, <3>1
      <3>4. Storing(t)' => found = None
        BY <1>1, <1>5, <2>3, <3>1 DEF Storing
      <3>5. found # None => found = newest[t]
        BY <1>2, <2>1, <2>3, <3>2 DEF Current
      <3> QED
        BY <1>0, <1>2, <2>1, <2>2, <2>3, <3>2, <3>3, <3>4, <3>5
    <2>4. CASE t # s
      <3>1. \A v \in Writers : space[v] = t => write'[v] = write[v]
        BY <1>5, <2>4
      <3>2. Storing(t)' <=> Storing(t)
        BY <1>1, <3>1 DEF Storing
      <3> QED
        BY <2>1, <2>2, <3>1, <3>2
    <2> QED
      BY <2>3, <2>4
  <1> QED
    BY <1>1, <1>5, <1>7 DEF KeyInv, MapIsCurrent, FileIsCurrent

LEMMA DeleteStep ==
    ASSUME KeyInv, NEW w \in Writers, Memory!Delete(w) PROVE KeyInv'
  <1> DEFINE s == space[w]
             new == [write[w] EXCEPT !.at = "store"]
             found == write[w].found
  <1>0. /\ write \in [Writers -> Calls] /\ None \notin Nat /\ s \in Spaces
        /\ rows \in Seq(KeyRows) /\ OwnIds(rows)
    BY KeyFacts DEF KeyInv, KeyTyped, KeyConstants, Calls
  <1>1. /\ write[w].at = "delete" /\ write' = [write EXCEPT ![w] = new]
        /\ rows' = Memory!Without(found)
        /\ UNCHANGED <<memory, space, newest, writes, overlaps, failed>>
    BY DEF Memory!Delete
  <1>2. /\ rows' \in Seq(KeyRows) /\ OwnIds(rows')
        /\ RowSet(rows') = {r \in RowSet(rows) : r.id # found}
    BY <1>0, <1>1, RowsWithout
  <1>3. write[w] # Memory!Idle
    BY <1>1 DEF Memory!Idle
  <1>4. Moved(w, new)
    <2>1. new \in Calls /\ new.at = "store" /\ new.id = write[w].id
      BY <1>0 DEF Calls
    <2> QED
      BY <1>1, <1>2, <1>3, <2>1 DEF Moved
  <1> HIDE DEF new
  <1>5. KeyTyped' /\ OwnNumbers' /\ FoundIsOwn' /\ OneAtATime' /\ memory = "orchestr8"
        /\ \A v \in Writers : write'[v] = IF v = w THEN new ELSE write[v]
    BY <1>1, <1>4, MoveStep DEF KeyInv, KeyTyped
  <1>6. \A v \in Writers : space[v] = s /\ write[v] # Memory!Idle => v = w \/ s \in overlaps
    BY <1>4, MoveStep
  <1>7. BackendIsCurrent'
    <2> SUFFICES ASSUME NEW t \in Spaces \ (overlaps \cup failed)
                 PROVE  /\ Storing(t)' => \A r \in RowSet(rows') : r.space # t
                        /\ ~Storing(t)' => Current(t)'
                        /\ \A v \in Writers : space[v] = t /\ write'[v].at = "delete" =>
                              write'[v].found = newest[t]
      BY <1>1, RowsLater DEF BackendIsCurrent
    <2>1. /\ Storing(t) => \A r \in RowSet(rows) : r.space # t
          /\ ~Storing(t) => Current(t)
          /\ \A v \in Writers : space[v] = t /\ write[v].at = "delete" => write[v].found = newest[t]
      BY <1>5 DEF KeyInv, BackendIsCurrent
    <2>2. \A r \in RowSet(rows) : r.id = found => r.space = s
      BY <1>1 DEF KeyInv, FoundIsOwn
    <2>3. CASE t = s
      <3>1. \A v \in Writers : space[v] = s => v = w \/ write[v].at = "idle"
        BY <1>6, <2>3 DEF Memory!Idle
      <3>2. ~Storing(t)
        BY <1>1, <2>3, <3>1 DEF Storing
      <3>3. new.at = "store"
        BY <1>0 DEF new, Calls
      <3>4. Storing(t)' /\ \A v \in Writers : space[v] = t => write'[v].at # "delete"
        BY <1>1, <1>5, <2>3, <3>1, <3>3 DEF Storing
      <3>5. found = newest[t] /\ \A r \in RowSet(rows) : r.space = t => r.id = newest[t]
        BY <1>1, <2>1, <2>3, <3>2 DEF Current
      <3> QED
        BY <1>2, <3>4, <3>5
    <2>4. CASE t # s
      <3>1. \A v \in Writers : space[v] = t => write'[v] = write[v]
        BY <1>5, <2>4
      <3>2. Storing(t)' <=> Storing(t)
        BY <1>1, <3>1 DEF Storing
      <3>3. \A r : r \in RowSet(rows') /\ r.space = t <=> r \in RowSet(rows) /\ r.space = t
        BY <1>2, <2>2, <2>4
      <3>4. Current(t)' <=> Current(t)
        BY <1>1, <3>3, RowsLater DEF Current
      <3> QED
        BY <2>1, <3>1, <3>2, <3>3, <3>4
    <2> QED
      BY <2>3, <2>4
  <1> QED
    BY <1>1, <1>5, <1>7 DEF KeyInv, MapIsCurrent, FileIsCurrent

LEMMA StoreStep ==
    ASSUME KeyInv, NEW w \in Writers, Memory!Store(w) PROVE KeyInv'
  <1> DEFINE s == space[w]
             e == [id |-> write[w].id, space |-> s]
  <1>0. /\ write \in [Writers -> Calls] /\ None \notin Nat /\ s \in Spaces
        /\ rows \in Seq(KeyRows) /\ OwnIds(rows) /\ newest \in [Spaces -> Nat \cup {None}]
    BY KeyFacts DEF KeyInv, KeyTyped, KeyConstants, Calls
  <1>1. /\ write[w].at = "store" /\ write' = [write EXCEPT ![w] = Memory!Idle]
        /\ rows' = Append(rows, e) /\ newest' = [newest EXCEPT ![s] = write[w].id]
        /\ UNCHANGED <<memory, space, writes, overlaps, failed>>
    BY DEF Memory!Store, Memory!Acknowledged
  <1>2. write[w] # Memory!Idle
    BY <1>1 DEF Memory!Idle
  <1>3. e \in KeyRows /\ \A r \in RowSet(rows) : r.id # e.id
    BY <1>0, <1>2 DEF KeyInv, OwnNumbers, KeyRows
  <1>4. rows' \in Seq(KeyRows) /\ OwnIds(rows') /\ RowSet(rows') = RowSet(rows) \cup {e}
    BY <1>0, <1>1, <1>3, RowAppended
  <1>5. Moved(w, Memory!Idle)
    <2>1. Memory!Idle \in Calls /\ Memory!Idle.at # "delete"
      BY DEF Memory!Idle, Calls
    <2> QED
      BY <1>1, <1>2, <1>4, <2>1 DEF Moved
  <1>6. newest' \in [Spaces -> Nat \cup {None}]
    <2>1. write[w].id \in Nat
      BY <1>5, MoveStep
    <2> QED
      BY <1>0, <1>1, <2>1
  <1>7. KeyTyped' /\ OwnNumbers' /\ FoundIsOwn' /\ OneAtATime' /\ memory = "orchestr8"
        /\ \A v \in Writers : write'[v] = IF v = w THEN Memory!Idle ELSE write[v]
    BY <1>5, <1>6, MoveStep
  <1>8. \A v \in Writers : space[v] = s /\ write[v] # Memory!Idle => v = w \/ s \in overlaps
    BY <1>5, MoveStep
  <1>9. BackendIsCurrent'
    <2> SUFFICES ASSUME NEW t \in Spaces \ (overlaps \cup failed)
                 PROVE  /\ Storing(t)' => \A r \in RowSet(rows') : r.space # t
                        /\ ~Storing(t)' => Current(t)'
                        /\ \A v \in Writers : space[v] = t /\ write'[v].at = "delete" =>
                              write'[v].found = newest'[t]
      BY <1>1, RowsLater DEF BackendIsCurrent
    <2>1. /\ Storing(t) => \A r \in RowSet(rows) : r.space # t
          /\ ~Storing(t) => Current(t)
          /\ \A v \in Writers : space[v] = t /\ write[v].at = "delete" => write[v].found = newest[t]
      BY <1>7 DEF KeyInv, BackendIsCurrent
    <2>2. newest'[t] = IF t = s THEN write[w].id ELSE newest[t]
      BY <1>0, <1>1
    <2>3. CASE t = s
      <3>1. \A v \in Writers : space[v] = s => write'[v].at = "idle"
        BY <1>7, <1>8, <2>3 DEF Memory!Idle
      <3>2. Storing(t)
        BY <1>1, <2>3 DEF Storing
      <3>3. ~Storing(t)'
        BY <1>1, <2>3, <3>1 DEF Storing
      <3>4. Current(t)'
        <4>1. \A r \in RowSet(rows') : r.space = t => r = e
          BY <1>4, <2>1, <3>2
        <4>2. e \in RowSet(rows') /\ e.space = t /\ e.id = newest'[t]
          BY <1>4, <2>2, <2>3
        <4>3. /\ \A r \in RowSet(rows') : r.space = t => r.id = newest'[t]
              /\ \E r \in RowSet(rows') : r.space = t
          BY <4>1, <4>2
        <4> QED
          BY <4>3, RowsLater DEF Current
      <3> QED
        BY <2>3, <3>1, <3>3, <3>4
    <2>4. CASE t # s
      <3>1. \A v \in Writers : space[v] = t => write'[v] = write[v]
        BY <1>7, <2>4
      <3>2. Storing(t)' <=> Storing(t)
        BY <1>1, <3>1 DEF Storing
      <3>3. \A r : r \in RowSet(rows') /\ r.space = t <=> r \in RowSet(rows) /\ r.space = t
        BY <1>4, <2>4
      <3>4. Current(t)' <=> Current(t)
        BY <1>1, <2>2, <2>4, <3>3, RowsLater DEF Current
      <3> QED
        BY <2>1, <2>2, <2>4, <3>1, <3>2, <3>3, <3>4
    <2> QED
      BY <2>3, <2>4
  <1> QED
    BY <1>1, <1>7, <1>9 DEF KeyInv, MapIsCurrent, FileIsCurrent

LEMMA FailsStep ==
    ASSUME KeyInv, NEW w \in Writers, Memory!Fails(w) PROVE KeyInv'
  <1> DEFINE s == space[w]
  <1>0. /\ write \in [Writers -> Calls] /\ rows \in Seq(KeyRows) /\ OwnIds(rows)
        /\ newest \in [Spaces -> Nat \cup {None}]
    BY DEF KeyInv, KeyTyped, Calls
  <1>1. /\ write[w] # Memory!Idle /\ write' = [write EXCEPT ![w] = Memory!Idle]
        /\ failed' = failed \cup {s}
        /\ UNCHANGED <<memory, space, rows, newest, writes, overlaps>>
    BY DEF Memory!Fails
  <1>2. Moved(w, Memory!Idle)
    <2>1. Memory!Idle \in Calls /\ Memory!Idle.at # "delete"
      BY DEF Memory!Idle, Calls
    <2> QED
      BY <1>0, <1>1, <2>1 DEF Moved
  <1>3. KeyTyped' /\ OwnNumbers' /\ FoundIsOwn' /\ OneAtATime' /\ memory = "orchestr8"
        /\ \A v \in Writers : write'[v] = IF v = w THEN Memory!Idle ELSE write[v]
    BY <1>0, <1>1, <1>2, MoveStep
  <1>4. BackendIsCurrent'
    <2>0. RowSet(rows)' = RowSet(rows)
      BY <1>1, RowsLater
    <2> SUFFICES ASSUME NEW t \in Spaces \ (overlaps \cup failed')
                 PROVE  /\ Storing(t)' => \A r \in RowSet(rows) : r.space # t
                        /\ ~Storing(t)' => Current(t)'
                        /\ \A v \in Writers : space[v] = t /\ write'[v].at = "delete" =>
                              write'[v].found = newest[t]
      BY <1>1, <2>0 DEF BackendIsCurrent
    <2>1. t \in Spaces \ (overlaps \cup failed) /\ t # s
      BY <1>1
    <2>2. /\ Storing(t) => \A r \in RowSet(rows) : r.space # t
          /\ ~Storing(t) => Current(t)
          /\ \A v \in Writers : space[v] = t /\ write[v].at = "delete" => write[v].found = newest[t]
      BY <1>3, <2>1 DEF KeyInv, BackendIsCurrent
    <2>3. \A v \in Writers : space[v] = t => write'[v] = write[v]
      BY <1>3, <2>1
    <2>4. (Storing(t)' <=> Storing(t)) /\ (Current(t)' <=> Current(t))
      BY <1>1, <2>0, <2>3 DEF Storing, Current
    <2> QED
      BY <2>2, <2>3, <2>4
  <1> QED
    BY <1>1, <1>3, <1>4 DEF KeyInv, MapIsCurrent, FileIsCurrent

LEMMA KeyStep == KeyInv /\ (Memory!Next \/ UNCHANGED memoryVars) => KeyInv'
  <1> SUFFICES ASSUME KeyInv, Memory!Next \/ UNCHANGED memoryVars PROVE KeyInv'
    OBVIOUS
  <1>1. ASSUME UNCHANGED <<memory, space, rows, write, writes, newest, overlaps, failed>>
        PROVE  KeyInv'
    <2>1. RowSet(rows)' = RowSet(rows) /\ OwnIds(rows)' = OwnIds(rows)
      BY <1>1 DEF RowSet, OwnIds
    <2> QED
      BY <1>1, <2>1
      DEF KeyInv, KeyTyped, OwnNumbers, FoundIsOwn, OneAtATime, MapIsCurrent, FileIsCurrent,
          BackendIsCurrent, Storing, Current, Memory!Idle
  <1>2. (\E s \in Spaces : Memory!Close(s)) \/ UNCHANGED memoryVars => KeyInv'
    BY <1>1 DEF Memory!Close, memoryVars
  <1> QED
    BY <1>2, WriteAtOnceStep, BeginWriteStep, RetrieveStep, DeleteStep, StoreStep, FailsStep
    DEF Memory!Next

\* Between the writes of a namespace a read finds the last.
LEMMA KeyFollows == KeyInv => Memory!LastWriteIsRead
  <1> SUFFICES ASSUME KeyInv, NEW s \in Spaces \ overlaps, Memory!Quiet(s)
               PROVE  \/ Memory!Visible(s) = newest[s]
                      \/ /\ memory = "sqlite" /\ Memory!Visible(s) = None
                         /\ \E t \in Spaces \ {s} : newest[t] > newest[s]
    BY DEF Memory!LastWriteIsRead
  <1>1. /\ memory \in {"map", "sqlite", "orchestr8"} /\ newest[s] \in Nat \cup {None}
        /\ None \notin Nat /\ rows \in Seq(KeyRows)
    BY KeyFacts DEF KeyInv, KeyTyped, KeyConstants
  <1>2. \/ Memory!Visible(s) = None /\ \A r \in RowSet(rows) : r.space # s
        \/ \E r \in RowSet(rows) : r.space = s /\ Memory!Visible(s) = r.id
    BY <1>1, ReadFinds
  <1>3. CASE memory = "sqlite"
    <2>1. CASE RowSet(rows) = {}
      BY <1>2, <1>3, <2>1 DEF KeyInv, FileIsCurrent
    <2>2. CASE RowSet(rows) # {}
      <3>1. PICK r \in RowSet(rows) : TRUE
        BY <2>2
      <3>2. \A q \in RowSet(rows) : newest[q.space] = q.id
        BY <1>3 DEF KeyInv, FileIsCurrent
      <3>3. s # r.space /\ newest[s] # None => newest[s] < r.id
        BY <1>3 DEF KeyInv, FileIsCurrent
      <3>4. r.id \in Nat /\ r.space \in Spaces
        BY SameRow DEF KeyInv, KeyRows
      <3>5. CASE \E q \in RowSet(rows) : q.space = s /\ Memory!Visible(s) = q.id
        BY <3>2, <3>5
      <3>6. CASE Memory!Visible(s) = None /\ \A q \in RowSet(rows) : q.space # s
        <4>1. CASE newest[s] = None
          BY <3>6, <4>1
        <4>2. CASE newest[s] # None
          <5>1. newest[s] \in Nat /\ r.space \in Spaces \ {s} /\ newest[r.space] > newest[s]
            BY <1>1, <3>2, <3>3, <3>4, <3>6, <4>2
          <5> QED
            BY <1>3, <3>6, <5>1
        <4> QED
          BY <4>1, <4>2
      <3> QED
        BY <1>2, <3>5, <3>6
    <2> QED
      BY <2>1, <2>2
  <1>4. CASE memory # "sqlite"
    <2>1. Current(s)
      <3>1. CASE memory = "map"
        BY <3>1 DEF KeyInv, MapIsCurrent
      <3>2. CASE memory = "orchestr8"
        <4>1. ~Storing(s) /\ s \notin failed
          BY DEF Memory!Quiet, Memory!Writing, Storing, Memory!Idle
        <4> QED
          BY <3>2, <4>1 DEF KeyInv, BackendIsCurrent
      <3> QED
        BY <1>1, <1>4, <3>1, <3>2
    <2> QED
      BY <1>1, <1>2, <2>1 DEF Current
  <1> QED
    BY <1>3, <1>4

-----------------------------------------------------------------------------
(***************************************************************************)
(* Memory: which keys there are.                                           *)
(***************************************************************************)
ListTyped ==
    /\ listed \in {"sqlite", "orchestr8"}
    /\ \A r \in table : r.key \in {1, 2} /\ <<r.key, r.space>> \in stored
    /\ \A w \in writing : w.key \in {1, 2}

Accounted ==
    \A k \in {1, 2}, s \in MemorySpaces :
        <<k, s>> \in stored \ lost =>
            \E r \in table \cup writing : r.key = k /\ r.space = s

AnswerIsStored ==
    list # None =>
        \A m, n \in DOMAIN list.keys :
            /\ m < n => list.keys[m] < list.keys[n]
            /\ <<list.keys[m], list.space>> \in stored

ListInv == ListTyped /\ Accounted /\ AnswerIsStored

InTodo(todo) == {todo[n] : n \in DOMAIN todo}

LEMMA MemorySameCount == \A S : Memory!Cardinality(S) = Cardinality(S)
  BY DEF Memory!Cardinality, Cardinality

LEMMA CountKeys ==
    /\ Memory!Cardinality({}) = 0 /\ Memory!Cardinality({1}) = 1 /\ Memory!Cardinality({2}) = 1
    /\ Memory!Cardinality({1, 2}) = 2
  <1>1. Cardinality({}) = 0 /\ Cardinality({1}) = 1 /\ Cardinality({2}) = 1
    BY FS_EmptySet, FS_Singleton
  <1>2. Cardinality({1, 2}) = 2
    <2> DEFINE a == 1
               b == 2
    <2>0. a \in Int /\ b \in Int /\ a <= b /\ b - a + 1 = 2 /\ a..b = {1, 2}
      OBVIOUS
    <2> HIDE DEF a, b
    <2>1. Cardinality(a..b) = IF a > b THEN 0 ELSE b - a + 1
      BY <2>0, FS_Interval
    <2>2. ~(a > b)
      BY <2>0
    <2> QED
      BY <2>0, <2>1, <2>2
  <1> QED
    BY <1>1, <1>2, MemorySameCount

\* What the keys in order are.
LEMMA KeysInOrder ==
    ASSUME NEW S \in SUBSET {1, 2}, NEW q \in Memory!InOrder(S)
    PROVE  /\ q = IF S = {} THEN <<>> ELSE IF S = {1} THEN <<1>> ELSE IF S = {2} THEN <<2>>
                  ELSE <<1, 2>>
           /\ q \in Seq({1, 2}) /\ InTodo(q) = S
           /\ \A m, n \in DOMAIN q : m < n => q[m] < q[n]
  <1>1. /\ q \in [1..Memory!Cardinality(S) -> S] /\ \A m, n \in DOMAIN q : m < n => q[m] < q[n]
    BY DEF Memory!InOrder, Memory!SetToSeqs
  <1>2. CASE S = {}
    <2>1. q = <<>>
      BY <1>1, <1>2, CountKeys
    <2> QED
      BY <1>1, <1>2, <2>1 DEF InTodo
  <1>3. ASSUME NEW k \in {1, 2}, S = {k}
        PROVE  q = <<k>> /\ q \in Seq({1, 2}) /\ InTodo(q) = S
    <2>1. q \in [1..1 -> {k}]
      BY <1>1, <1>3, CountKeys
    <2>2. q \in Seq({1, 2}) /\ Len(q) = 1 /\ q[1] = k
      <3>1. q \in [1..1 -> {1, 2}] /\ 1 \in 1..1
        BY <2>1
      <3>2. q[1] = k
        BY <2>1, <3>1
      <3>3. q \in Seq({1, 2}) /\ Len(q) = 1
        BY <3>1
      <3> QED
        BY <3>2, <3>3
    <2>3. q = <<k>>
      BY <2>2
    <2> QED
      BY <1>3, <2>2, <2>3 DEF InTodo
  <1>4. CASE S = {1, 2}
    <2>1. q \in [1..2 -> {1, 2}]
      BY <1>1, <1>4, CountKeys
    <2>2. q \in Seq({1, 2}) /\ Len(q) = 2 /\ q[1] \in {1, 2} /\ q[2] \in {1, 2} /\ DOMAIN q = 1..2
      BY <2>1
    <2>3. q[1] < q[2]
      BY <1>1, <2>2
    <2>4. q[1] = 1 /\ q[2] = 2
      BY <2>2, <2>3
    <2>5. q = <<1, 2>>
      BY <2>2, <2>4
    <2> QED
      BY <1>4, <2>2, <2>4, <2>5 DEF InTodo
  <1>5. S = {} \/ S = {1} \/ S = {2} \/ S = {1, 2}
    OBVIOUS
  <1>6. {1} # {} /\ {2} # {} /\ {1} # {2} /\ {1, 2} # {} /\ {1, 2} # {1} /\ {1, 2} # {2}
    OBVIOUS
  <1> QED
    BY <1>1, <1>2, <1>3, <1>4, <1>5, <1>6

LEMMA ListStart == Memory!ListInit => ListInv
  BY DEF Memory!ListInit, ListInv, ListTyped, Accounted, AnswerIsStored

LEMMA ListStep == ListInv /\ (Memory!ListNext \/ UNCHANGED listVars) => ListInv'
  <1> SUFFICES ASSUME ListInv, Memory!ListNext \/ UNCHANGED listVars PROVE ListInv'
    OBVIOUS
  <1>1. ASSUME NEW s \in MemorySpaces, Memory!List(s) PROVE ListInv'
    <2> DEFINE S == {r.key : r \in {q \in table : q.space = s}}
    <2>1. PICK ks \in Memory!ListOf(s) : list' = [space |-> s, keys |-> ks]
      BY <1>1 DEF Memory!List
    <2>2. UNCHANGED <<listed, table, writing, stored, lost>>
      BY <1>1 DEF Memory!List
    <2>3. S \in SUBSET {1, 2} /\ \A k \in S : <<k, s>> \in stored
      BY DEF ListInv, ListTyped
    <2>4. ks \in Memory!InOrder(S)
      BY <2>1 DEF Memory!ListOf
    <2> HIDE DEF S
    <2>5. InTodo(ks) = S /\ \A m, n \in DOMAIN ks : m < n => ks[m] < ks[n]
      BY <2>3, <2>4, KeysInOrder
    <2>6. AnswerIsStored'
      BY <2>1, <2>2, <2>3, <2>5 DEF AnswerIsStored, InTodo
    <2> QED
      BY <2>2, <2>6 DEF ListInv, ListTyped, Accounted
  <1>2. ASSUME NEW s \in MemorySpaces, NEW k \in {1, 2}, Memory!WriteRow(k, s) PROVE ListInv'
    <2> DEFINE e == [key |-> k, space |-> s, put |-> puts']
    <2>1. /\ table' = {r \in table : r.key # k} \cup {e} /\ stored' = stored \cup {<<k, s>>}
          /\ lost' = (lost \cup {<<k, t>> : t \in MemorySpaces \ {s}}) \ {<<k, s>>}
          /\ UNCHANGED <<listed, writing, list>>
      BY <1>2 DEF Memory!WriteRow
    <2>2. e.key = k /\ e.space = s
      OBVIOUS
    <2> HIDE DEF e
    <2>3. ListTyped'
      BY <2>1, <2>2 DEF ListInv, ListTyped
    <2>4. Accounted'
      <3> SUFFICES ASSUME NEW j \in {1, 2}, NEW t \in MemorySpaces, <<j, t>> \in stored' \ lost'
                   PROVE  \E r \in table' \cup writing' : r.key = j /\ r.space = t
        BY DEF Accounted
      <3>1. CASE <<j, t>> = <<k, s>>
        BY <2>1, <2>2, <3>1
      <3>2. CASE <<j, t>> # <<k, s>>
        <4>1. <<j, t>> \in stored \ lost /\ j # k
          BY <2>1, <3>2
        <4>2. PICK r \in table \cup writing : r.key = j /\ r.space = t
          BY <4>1 DEF ListInv, Accounted
        <4> QED
          BY <2>1, <4>1, <4>2
      <3> QED
        BY <3>1, <3>2
    <2>5. AnswerIsStored'
      BY <2>1 DEF ListInv, AnswerIsStored
    <2> QED
      BY <2>3, <2>4, <2>5 DEF ListInv
  <1>3. ASSUME NEW s \in MemorySpaces, NEW k \in {1, 2}, Memory!Replace(k, s) PROVE ListInv'
    <2> DEFINE e == [key |-> k, space |-> s, put |-> puts']
               gone == {r \in Memory!Rows(k, s) : \A q \in Memory!Rows(k, s) : r.put <= q.put}
    <2>1. /\ table' = table \ gone /\ writing' = writing \cup {e}
          /\ UNCHANGED <<listed, list, stored, lost>>
      BY <1>3 DEF Memory!Replace
    <2>2. e.key = k /\ e.space = s /\ \A r \in gone : r.key = k /\ r.space = s
      BY DEF Memory!Rows
    <2> HIDE DEF e, gone
    <2>3. ListTyped'
      BY <2>1, <2>2 DEF ListInv, ListTyped
    <2>4. Accounted'
      <3> SUFFICES ASSUME NEW j \in {1, 2}, NEW t \in MemorySpaces, <<j, t>> \in stored \ lost
                   PROVE  \E r \in table' \cup writing' : r.key = j /\ r.space = t
        BY <2>1 DEF Accounted
      <3>1. PICK r \in table \cup writing : r.key = j /\ r.space = t
        BY DEF ListInv, Accounted
      <3> QED
        BY <2>1, <2>2, <3>1
    <2>5. AnswerIsStored'
      BY <2>1 DEF ListInv, AnswerIsStored
    <2> QED
      BY <2>3, <2>4, <2>5 DEF ListInv
  <1>4. ASSUME NEW w \in writing, Memory!StoreRow(w) PROVE ListInv'
    <2>1. /\ writing' = writing \ {w} /\ UNCHANGED <<listed, list>>
          /\ \/ /\ table' = table \cup {w} /\ stored' = stored \cup {<<w.key, w.space>>}
                /\ lost' = lost \ {<<w.key, w.space>>}
             \/ lost' = lost \cup {<<w.key, w.space>>} /\ UNCHANGED <<table, stored>>
      BY <1>4 DEF Memory!StoreRow
    <2>2. ListTyped'
      BY <2>1 DEF ListInv, ListTyped
    <2>3. Accounted'
      <3> SUFFICES ASSUME NEW j \in {1, 2}, NEW t \in MemorySpaces, <<j, t>> \in stored' \ lost'
                   PROVE  \E r \in table' \cup writing' : r.key = j /\ r.space = t
        BY DEF Accounted
      <3>1. CASE <<j, t>> = <<w.key, w.space>>
        BY <2>1, <3>1
      <3>2. CASE <<j, t>> # <<w.key, w.space>>
        <4>1. <<j, t>> \in stored \ lost
          BY <2>1, <3>2
        <4>2. PICK r \in table \cup writing : r.key = j /\ r.space = t
          BY <4>1 DEF ListInv, Accounted
        <4>3. r # w /\ table \subseteq table'
          BY <2>1, <3>2, <4>2
        <4> QED
          BY <2>1, <4>2, <4>3
      <3> QED
        BY <3>1, <3>2
    <2>4. AnswerIsStored'
      BY <2>1 DEF ListInv, AnswerIsStored
    <2> QED
      BY <2>2, <2>3, <2>4 DEF ListInv
  <1>5. (\E s \in MemorySpaces : Memory!CloseList(s)) \/ UNCHANGED listVars => ListInv'
    BY DEF Memory!CloseList, listVars, ListInv, ListTyped, Accounted, AnswerIsStored
  <1> QED
    BY <1>1, <1>2, <1>3, <1>4, <1>5 DEF Memory!ListNext

LEMMA ListFollows == ListInv => Memory!KeysAreListed
  <1> SUFFICES ASSUME ListInv PROVE Memory!KeysAreListed
    OBVIOUS
  <1>1. ASSUME NEW s \in MemorySpaces, NEW ks \in Memory!ListOf(s)
        PROVE  /\ \A k \in Memory!ToSet(ks) : Memory!read(s, k)
               /\ \A k \in {1, 2} : /\ <<k, s>> \in stored \ lost
                                    /\ \A w \in writing : <<w.key, w.space>> # <<k, s>>
                                    => k \in Memory!ToSet(ks)
    <2> DEFINE S == {r.key : r \in {q \in table : q.space = s}}
    <2>1. S \in SUBSET {1, 2}
      BY DEF ListInv, ListTyped
    <2>2. ks \in Memory!InOrder(S)
      BY DEF Memory!ListOf
    <2>3. \A k : k \in S <=> \E r \in table : r.space = s /\ r.key = k
      OBVIOUS
    <2> HIDE DEF S
    <2>4. Memory!ToSet(ks) = S
      BY <2>1, <2>2, KeysInOrder DEF Memory!ToSet, InTodo
    <2>5. \A k \in S : Memory!read(s, k)
      BY <2>3 DEF Memory!read, Memory!Rows
    <2>6. ASSUME NEW k \in {1, 2}, <<k, s>> \in stored \ lost,
                 \A w \in writing : <<w.key, w.space>> # <<k, s>>
          PROVE  k \in S
      <3>1. PICK r \in table \cup writing : r.key = k /\ r.space = s
        BY <2>6 DEF ListInv, Accounted
      <3> QED
        BY <2>3, <2>6, <3>1
    <2> QED
      BY <2>4, <2>5, <2>6
  <1> QED
    BY <1>1 DEF Memory!KeysAreListed, ListInv, AnswerIsStored

-----------------------------------------------------------------------------
(***************************************************************************)
(* Memory: across processes.                                               *)
(***************************************************************************)
Lines == [key : {1, 2}, value : {"run-1", "run-2"}]
Reads == [key : {1, 2}, value : {"run-1", "run-2", None}]

Procs == [run : {"run-1", "run-2", None}, todo : Seq({1, 2}), got : Seq(Reads), exit : {0, 1},
          at : {"off", "list", "atom", "secret", "rewrite", "close"}]

\* How far a run that goes through keys in order has come.
Position(got, todo) ==
    \/ got = <<>> /\ todo \in {<<>>, <<1>>, <<2>>, <<1, 2>>}
    \/ Len(got) = 1 /\ got[1].key = 1 /\ todo \in {<<>>, <<2>>}
    \/ Len(got) = 1 /\ got[1].key = 2 /\ todo = <<>>
    \/ Len(got) = 2 /\ got[1].key = 1 /\ got[2].key = 2 /\ todo = <<>>

ReadKeys(got) == {got[n].key : n \in DOMAIN got}

CrossTyped ==
    /\ cell \in {"alpha", "beta"} /\ disk \in Seq(Lines)
    /\ known \subseteq acked /\ acked \subseteq Memory!OnDisk
    /\ proc \in Procs
    /\ proc = Memory!NoProc \/ (proc.run \in {"run-1", "run-2"} /\ proc.at # "off")

OneValue == cell = "beta" => \A n \in DOMAIN disk : disk[n].value = "run-1"

WriterIsSound ==
    proc.run = "run-1" =>
        /\ proc.at \in {"atom", "secret", "close"} /\ proc.got = <<>>
        /\ proc.todo \in {<<1, 2>>, <<2>>, <<>>}
        /\ proc.at = "atom" => proc.todo # <<>>
        /\ {1, 2} \ InTodo(proc.todo) \subseteq Memory!OnDisk
        /\ proc.at = "close" /\ proc.exit = 0 => proc.todo = <<>>

ReaderIsSound ==
    proc.run = "run-2" =>
        /\ Position(proc.got, proc.todo)
        /\ proc.at = "list" => proc.got = <<>> /\ proc.todo = <<>> /\ cell = "beta"
        /\ proc.at = "atom" => proc.todo # <<>>
        /\ cell = "alpha" => InTodo(proc.todo) \cup ReadKeys(proc.got) = {1, 2}
        /\ proc.at = "rewrite" => cell = "alpha"
        /\ proc.at \in {"rewrite", "close"} /\ proc.exit = 0 => proc.todo = <<>>
        /\ cell = "beta" =>
              /\ InTodo(proc.todo) \subseteq Memory!OnDisk
              /\ \A n \in DOMAIN proc.got : proc.got[n].value = "run-1"
              /\ proc.at \in {"atom", "secret"} =>
                    known \subseteq InTodo(proc.todo) \cup ReadKeys(proc.got)
        /\ \A n \in DOMAIN proc.got : proc.got[n].key \in known => proc.got[n].value # None

EndedWell ==
    ended # None /\ ended.exit = 0 =>
        IF ended.run = "run-1" THEN {1, 2} \subseteq Memory!OnDisk
        ELSE /\ ReadKeys(ended.got) = {1, 2} /\ Len(ended.got) = 2
             /\ \A n \in DOMAIN ended.got : ended.got[n].value = "run-1"

CrossInv == CrossTyped /\ OneValue /\ WriterIsSound /\ ReaderIsSound /\ EndedWell

ShortTodos ==
    /\ Head(<<1, 2>>) = 1 /\ Tail(<<1, 2>>) = <<2>> /\ Len(<<1, 2>>) = 2
    /\ Head(<<1>>) = 1 /\ Tail(<<1>>) = <<>> /\ Len(<<1>>) = 1
    /\ Head(<<2>>) = 2 /\ Tail(<<2>>) = <<>> /\ Len(<<2>>) = 1
    /\ InTodo(<<>>) = {} /\ InTodo(<<1>>) = {1} /\ InTodo(<<2>>) = {2} /\ InTodo(<<1, 2>>) = {1, 2}
    /\ <<1, 2>> # <<>> /\ <<1>> # <<>> /\ <<2>> # <<>>
    /\ <<1, 2>> # <<1>> /\ <<1, 2>> # <<2>> /\ <<1>> # <<2>>
    /\ {<<>>, <<1>>, <<2>>, <<1, 2>>} \subseteq Seq({1, 2})

LEMMA ShortSequences == ShortTodos
  <1>1. /\ Head(<<1, 2>>) = 1 /\ Tail(<<1, 2>>) = <<2>> /\ Len(<<1, 2>>) = 2
        /\ Head(<<1>>) = 1 /\ Tail(<<1>>) = <<>> /\ Len(<<1>>) = 1
        /\ Head(<<2>>) = 2 /\ Tail(<<2>>) = <<>> /\ Len(<<2>>) = 1
    OBVIOUS
  <1>2. InTodo(<<>>) = {} /\ InTodo(<<1>>) = {1} /\ InTodo(<<2>>) = {2} /\ InTodo(<<1, 2>>) = {1, 2}
    BY DEF InTodo
  <1>3. /\ <<1, 2>> # <<>> /\ <<1>> # <<>> /\ <<2>> # <<>>
        /\ <<1, 2>> # <<1>> /\ <<1, 2>> # <<2>> /\ <<1>> # <<2>>
    OBVIOUS
  <1>4. {<<>>, <<1>>, <<2>>, <<1, 2>>} \subseteq Seq({1, 2})
    OBVIOUS
  <1> QED
    BY <1>1, <1>2, <1>3, <1>4 DEF ShortTodos

LEMMA BothAtoms == Memory!AtomIds = <<1, 2>>
  <1>1. <<1, 2>> \in Memory!InOrder({1, 2})
    <2>1. <<1, 2>> \in [1..2 -> {1, 2}] /\ \A i, j \in 1..2 : i < j \/ i = j \/ j < i
      OBVIOUS
    <2>2. <<1, 2>>[1] = 1 /\ <<1, 2>>[2] = 2
      OBVIOUS
    <2>3. \A i, j \in 1..2 : i # j => <<1, 2>>[i] # <<1, 2>>[j]
      BY <2>2
    <2>4. \A i, j \in 1..2 : i < j => <<1, 2>>[i] < <<1, 2>>[j]
      BY <2>2
    <2> QED
      BY <2>1, <2>3, <2>4, CountKeys DEF Memory!InOrder, Memory!SetToSeqs
  <1>2. Memory!AtomIds \in Memory!InOrder({1, 2})
    BY <1>1 DEF Memory!AtomIds
  <1>3. {1, 2} # {} /\ {1, 2} # {1} /\ {1, 2} # {2}
    OBVIOUS
  <1> QED
    BY <1>2, <1>3, KeysInOrder

LEMMA CrossNone == None \notin {"run-1", "run-2"} /\ None \notin Nat
  BY DependencyAssumption DEF DependencyAssumption

\* A row more on disk.
LEMMA DiskGrows ==
    ASSUME disk \in Seq(Lines), NEW e \in Lines, disk' = Append(disk, e)
    PROVE  /\ disk' \in Seq(Lines) /\ Memory!OnDisk' = Memory!OnDisk \cup {e.key}
           /\ \A n \in DOMAIN disk' : disk'[n] = e \/ \E m \in DOMAIN disk : disk'[n] = disk[m]
  <1>1. /\ disk' \in Seq(Lines) /\ Len(disk') = Len(disk) + 1 /\ Len(disk) \in Nat
        /\ \A n \in 1..Len(disk) : disk'[n] = disk[n]
        /\ disk'[Len(disk) + 1] = e
    BY AppendProperties
  <1>2. DOMAIN disk = 1..Len(disk) /\ DOMAIN disk' = 1..(Len(disk) + 1)
    BY <1>1
  <1>3. \A n \in DOMAIN disk' : disk'[n] = e \/ (n \in DOMAIN disk /\ disk'[n] = disk[n])
    BY <1>1, <1>2
  <1>4. \A n \in DOMAIN disk : n \in DOMAIN disk' /\ disk'[n] = disk[n]
    BY <1>1, <1>2
  <1>5. \E n \in DOMAIN disk' : disk'[n] = e
    BY <1>1, <1>2
  <1>6. Memory!OnDisk' = Memory!OnDisk \cup {e.key}
    BY <1>3, <1>4, <1>5 DEF Memory!OnDisk
  <1> QED
    BY <1>1, <1>3, <1>6

LEMMA CrossStart == Memory!CrossInit => CrossInv
  <1> SUFFICES ASSUME Memory!CrossInit PROVE CrossInv
    OBVIOUS
  <1>1. proc = Memory!NoProc /\ Memory!NoProc \in Procs /\ proc.run = None
    BY DEF Memory!CrossInit, Memory!NoProc, Procs
  <1>2. proc.run # "run-1" /\ proc.run # "run-2"
    BY <1>1, CrossNone
  <1> QED
    BY <1>1, <1>2
    DEF Memory!CrossInit, CrossInv, CrossTyped, OneValue, WriterIsSound, ReaderIsSound, EndedWell,
        Memory!OnDisk

\* What is said of the disk and of the process that exited last stands while
\* rows are added.
LEMMA StillWell ==
    ASSUME CrossInv, UNCHANGED ended, Memory!OnDisk \subseteq Memory!OnDisk' PROVE EndedWell'
  BY DEF CrossInv, EndedWell

LEMMA LaunchStep ==
    ASSUME CrossInv, NEW run \in {"run-1", "run-2"}, Memory!Launch(run) PROVE CrossInv'
  <1>1. /\ proc.at = "off" /\ known' = acked /\ UNCHANGED <<cell, disk, acked, ended>>
        /\ proc' = [Memory!NoProc EXCEPT !.run = run,
                       !.at = IF run = "run-2" /\ cell = "beta" THEN "list" ELSE "atom",
                       !.todo = IF run = "run-2" /\ cell = "beta" THEN <<>> ELSE <<1, 2>>]
    BY BothAtoms DEF Memory!Launch
  <1>2. /\ proc'.run = run /\ proc'.got = <<>> /\ proc'.exit = 0
        /\ proc'.at = IF run = "run-2" /\ cell = "beta" THEN "list" ELSE "atom"
        /\ proc'.todo = IF run = "run-2" /\ cell = "beta" THEN <<>> ELSE <<1, 2>>
    BY <1>1 DEF Memory!NoProc
  <1>3. proc' \in Procs
    <2>1. <<1, 2>> \in Seq({1, 2}) /\ <<>> \in Seq({1, 2}) /\ <<>> \in Seq(Reads)
      BY ShortSequences DEF ShortTodos
    <2>2. proc' = [run |-> run, got |-> <<>>, exit |-> 0,
                   at |-> IF run = "run-2" /\ cell = "beta" THEN "list" ELSE "atom",
                   todo |-> IF run = "run-2" /\ cell = "beta" THEN <<>> ELSE <<1, 2>>]
      BY <1>1 DEF Memory!NoProc
    <2> QED
      BY <2>1, <2>2 DEF Procs
  <1>4. Memory!OnDisk' = Memory!OnDisk
    BY <1>1 DEF Memory!OnDisk
  <1>5. CrossTyped' /\ OneValue' /\ EndedWell'
    BY <1>1, <1>2, <1>3, <1>4, StillWell DEF CrossInv, CrossTyped, OneValue
  <1>6. WriterIsSound'
    BY <1>2, ShortSequences DEF WriterIsSound, ShortTodos
  <1>7. ReaderIsSound'
    <2>1. InTodo(<<1, 2>>) \cup ReadKeys(<<>>) = {1, 2} /\ InTodo(<<>>) = {} /\ <<1, 2>> # <<>>
      BY ShortSequences DEF ShortTodos, ReadKeys
    <2>2. Position(<<>>, <<1, 2>>) /\ Position(<<>>, <<>>)
      BY DEF Position
    <2>3. \A n \in DOMAIN proc'.got : FALSE
      BY <1>2
    <2> QED
      BY <1>1, <1>2, <2>1, <2>2, <2>3 DEF ReaderIsSound, CrossInv, CrossTyped
  <1> QED
    BY <1>5, <1>6, <1>7 DEF CrossInv

LEMMA WriteAtomStep == ASSUME CrossInv, Memory!WriteAtom PROVE CrossInv'
  <1> DEFINE e == [key |-> Head(proc.todo), value |-> "run-1"]
  <1>1. /\ proc.run = "run-1" /\ proc.at = "atom" /\ disk' = Append(disk, e)
        /\ acked' = acked \cup {Head(proc.todo)}
        /\ proc' = [proc EXCEPT !.at = "secret", !.todo = Tail(proc.todo)]
        /\ UNCHANGED <<cell, known, ended>>
    BY DEF Memory!WriteAtom, Memory!Moves
  <1>2. /\ proc \in Procs /\ proc.todo \in {<<1, 2>>, <<2>>} /\ proc.got = <<>>
        /\ {1, 2} \ InTodo(proc.todo) \subseteq Memory!OnDisk
    BY <1>1 DEF CrossInv, CrossTyped, WriterIsSound
  <1>3. /\ Head(proc.todo) \in InTodo(proc.todo) /\ Head(proc.todo) \in {1, 2}
        /\ Tail(proc.todo) \in {<<2>>, <<>>} /\ Tail(proc.todo) \in Seq({1, 2})
        /\ InTodo(proc.todo) = InTodo(Tail(proc.todo)) \cup {Head(proc.todo)}
    BY <1>2, ShortSequences DEF ShortTodos
  <1>4. e \in Lines /\ e.key = Head(proc.todo) /\ e.value = "run-1"
    BY <1>3 DEF Lines
  <1> HIDE DEF e
  <1>5. /\ disk' \in Seq(Lines) /\ Memory!OnDisk' = Memory!OnDisk \cup {Head(proc.todo)}
        /\ \A n \in DOMAIN disk' : disk'[n] = e \/ \E m \in DOMAIN disk : disk'[n] = disk[m]
    BY <1>1, <1>4, DiskGrows DEF CrossInv, CrossTyped
  <1>6. /\ proc' \in Procs /\ proc'.run = "run-1" /\ proc'.at = "secret"
        /\ proc'.todo = Tail(proc.todo) /\ proc'.got = <<>>
    BY <1>1, <1>2, <1>3 DEF Procs
  <1>7. CrossTyped'
    <2>1. known' \subseteq acked' /\ acked' \subseteq Memory!OnDisk'
      BY <1>1, <1>5 DEF CrossInv, CrossTyped
    <2> QED
      BY <1>1, <1>5, <1>6, <2>1 DEF CrossInv, CrossTyped
  <1>8. OneValue'
    BY <1>1, <1>4, <1>5 DEF CrossInv, OneValue
  <1>9. WriterIsSound'
    BY <1>2, <1>3, <1>5, <1>6 DEF WriterIsSound
  <1> QED
    BY <1>1, <1>5, <1>6, <1>7, <1>8, <1>9, StillWell DEF CrossInv, ReaderIsSound

LEMMA ListKeysStep == ASSUME CrossInv, Memory!ListKeys PROVE CrossInv'
  <1>1. PICK ks \in Memory!InOrder(Memory!OnDisk) :
            proc' = [proc EXCEPT !.at = IF ks = <<>> THEN "secret" ELSE "atom", !.todo = ks]
    BY DEF Memory!ListKeys, Memory!UniqueKeys, Memory!Moves
  <1>2. proc.at = "list" /\ UNCHANGED <<cell, disk, known, acked, ended>>
    BY DEF Memory!ListKeys, Memory!Moves
  <1>3. /\ proc \in Procs /\ proc.run = "run-2" /\ proc.got = <<>> /\ proc.todo = <<>>
        /\ cell = "beta"
    <2>1. proc # Memory!NoProc
      BY <1>2 DEF Memory!NoProc
    <2> QED
      BY <1>2, <2>1 DEF CrossInv, CrossTyped, WriterIsSound, ReaderIsSound
  <1>4. Memory!OnDisk \in SUBSET {1, 2}
    <2>1. \A n \in DOMAIN disk : disk[n] \in Lines
      BY DEF CrossInv, CrossTyped
    <2> QED
      BY <2>1 DEF Memory!OnDisk, Lines
  <1>5. ks \in {<<>>, <<1>>, <<2>>, <<1, 2>>} /\ ks \in Seq({1, 2}) /\ InTodo(ks) = Memory!OnDisk
    BY <1>4, KeysInOrder
  <1>6. /\ proc' \in Procs /\ proc'.run = "run-2" /\ proc'.todo = ks /\ proc'.got = <<>>
        /\ proc'.at = IF ks = <<>> THEN "secret" ELSE "atom"
    BY <1>1, <1>3, <1>5 DEF Procs
  <1>7. Memory!OnDisk' = Memory!OnDisk
    BY <1>2 DEF Memory!OnDisk
  <1>8. CrossTyped' /\ OneValue' /\ EndedWell' /\ WriterIsSound'
    BY <1>2, <1>6, <1>7, StillWell DEF CrossInv, CrossTyped, OneValue, WriterIsSound
  <1>9. ReaderIsSound'
    <2>1. Position(<<>>, ks)
      BY <1>5 DEF Position
    <2>2. known \subseteq InTodo(ks)
      BY <1>5 DEF CrossInv, CrossTyped
    <2>3. \A n \in DOMAIN proc'.got : FALSE
      BY <1>6
    <2> QED
      BY <1>2, <1>3, <1>5, <1>6, <1>7, <2>1, <2>2, <2>3 DEF ReaderIsSound
  <1> QED
    BY <1>8, <1>9 DEF CrossInv

\* One more key is read.
LEMMA PositionMoves ==
    ASSUME NEW got \in Seq(Reads), NEW todo, Position(got, todo), todo # <<>>,
           NEW r \in Reads, r.key = Head(todo)
    PROVE  /\ Append(got, r) \in Seq(Reads) /\ Position(Append(got, r), Tail(todo))
           /\ Tail(todo) \in Seq({1, 2}) /\ Head(todo) \in InTodo(todo)
           /\ InTodo(todo) = InTodo(Tail(todo)) \cup {Head(todo)}
           /\ ReadKeys(Append(got, r)) = ReadKeys(got) \cup {r.key}
           /\ \A n \in DOMAIN Append(got, r) :
                 Append(got, r)[n] = r \/ (n \in DOMAIN got /\ Append(got, r)[n] = got[n])
           /\ Len(todo) = 1 <=> Tail(todo) = <<>>
  <1> DEFINE t == Append(got, r)
  <1>1. /\ t \in Seq(Reads) /\ Len(t) = Len(got) + 1 /\ Len(got) \in Nat
        /\ \A n \in 1..Len(got) : t[n] = got[n]
        /\ t[Len(got) + 1] = r
    BY AppendProperties
  <1>2. DOMAIN got = 1..Len(got) /\ DOMAIN t = 1..(Len(got) + 1)
    BY <1>1
  <1> HIDE DEF t
  <1>3. \A n \in DOMAIN t : t[n] = r \/ (n \in DOMAIN got /\ t[n] = got[n])
    BY <1>1, <1>2
  <1>4. \A n \in DOMAIN got : n \in DOMAIN t /\ t[n] = got[n]
    BY <1>1, <1>2
  <1>5. \E n \in DOMAIN t : t[n] = r
    BY <1>1, <1>2
  <1>6. ReadKeys(t) = ReadKeys(got) \cup {r.key}
    BY <1>3, <1>4, <1>5 DEF ReadKeys
  <1>7. Len(<<>>) = 0
    OBVIOUS
  <1>8. \/ got = <<>> /\ todo \in {<<1>>, <<2>>, <<1, 2>>}
        \/ Len(got) = 1 /\ got[1].key = 1 /\ todo = <<2>>
    BY DEF Position
  <1>9. /\ Tail(todo) \in Seq({1, 2}) /\ Head(todo) \in InTodo(todo)
        /\ InTodo(todo) = InTodo(Tail(todo)) \cup {Head(todo)}
        /\ Len(todo) = 1 <=> Tail(todo) = <<>>
    BY <1>8, ShortSequences DEF ShortTodos
  <1>10. Position(t, Tail(todo))
    <2>1. CASE got = <<>>
      <3>1. Len(t) = 1 /\ t[1] = r
        BY <1>1, <1>7, <2>1
      <3> QED
        BY <1>8, <2>1, <1>7, <3>1, ShortSequences DEF Position, ShortTodos
    <2>2. CASE Len(got) = 1 /\ got[1].key = 1 /\ todo = <<2>>
      <3>1. Len(t) = 2 /\ t[1] = got[1] /\ t[2] = r
        BY <1>1, <2>2
      <3> QED
        BY <2>2, <3>1, ShortSequences DEF Position, ShortTodos
    <2> QED
      BY <1>8, <2>1, <2>2
  <1> QED
    BY <1>1, <1>3, <1>6, <1>9, <1>10 DEF t

LEMMA ReadAtomStep == ASSUME CrossInv, Memory!ReadAtom PROVE CrossInv'
  <1> DEFINE k == Head(proc.todo)
  <1>1. PICK v \in Memory!Found(k) :
            proc' = [proc EXCEPT !.at = IF cell = "alpha" \/ Len(proc.todo) = 1 THEN "secret" ELSE "atom",
                                 !.todo = Tail(proc.todo),
                                 !.got = Append(proc.got, [key |-> k, value |-> v])]
    BY DEF Memory!ReadAtom, Memory!Moves
  <1> DEFINE r == [key |-> k, value |-> v]
             got == Append(proc.got, r)
  <1>2. /\ proc.run = "run-2" /\ proc.at = "atom" /\ UNCHANGED <<cell, disk, known, acked, ended>>
        /\ Memory!OnDisk' = Memory!OnDisk
    BY DEF Memory!ReadAtom, Memory!Moves, Memory!OnDisk
  <1>3. /\ proc \in Procs /\ proc.got \in Seq(Reads) /\ proc.todo # <<>>
        /\ Position(proc.got, proc.todo)
    BY <1>2 DEF CrossInv, CrossTyped, ReaderIsSound, Procs
  <1>4. /\ k \in {1, 2}
        /\ \/ k \notin Memory!OnDisk /\ v = None
           \/ k \in Memory!OnDisk /\ \E m \in DOMAIN disk : v = disk[m].value
    <2>1. k \in {1, 2}
      BY <1>3, ShortSequences DEF Position, ShortTodos
    <2> QED
      BY <2>1 DEF Memory!Found
  <1>5. \A m \in DOMAIN disk : disk[m] \in Lines
    BY DEF CrossInv, CrossTyped
  <1>6. /\ r \in Reads /\ r.key = k /\ r.value = v
        /\ k \in Memory!OnDisk => v # None
        /\ cell = "beta" /\ k \in Memory!OnDisk => v = "run-1"
    BY <1>4, <1>5, CrossNone DEF Reads, Lines, CrossInv, OneValue
  <1> HIDE DEF k, r
  <1>7. /\ got \in Seq(Reads) /\ Position(got, Tail(proc.todo))
        /\ Tail(proc.todo) \in Seq({1, 2}) /\ k \in InTodo(proc.todo)
        /\ InTodo(proc.todo) = InTodo(Tail(proc.todo)) \cup {k}
        /\ ReadKeys(got) = ReadKeys(proc.got) \cup {k}
        /\ \A n \in DOMAIN got : got[n] = r \/ (n \in DOMAIN proc.got /\ got[n] = proc.got[n])
        /\ Len(proc.todo) = 1 <=> Tail(proc.todo) = <<>>
    BY <1>3, <1>6, PositionMoves DEF k
  <1> DEFINE next == IF cell = "alpha" \/ Len(proc.todo) = 1 THEN "secret" ELSE "atom"
  <1>8. proc' = [proc EXCEPT !.at = next, !.todo = Tail(proc.todo), !.got = got]
    BY <1>1 DEF r
  <1> HIDE DEF got
  <1>9. /\ proc' \in Procs /\ proc'.run = "run-2" /\ proc'.todo = Tail(proc.todo)
        /\ proc'.got = got /\ proc'.at = next /\ proc'.exit = proc.exit
    BY <1>2, <1>3, <1>7, <1>8 DEF Procs
  <1>10. CrossTyped' /\ OneValue' /\ EndedWell' /\ WriterIsSound'
    BY <1>2, <1>9, StillWell DEF CrossInv, CrossTyped, OneValue, WriterIsSound
  <1>11. ReaderIsSound'
    <2>1. /\ cell = "alpha" => InTodo(proc.todo) \cup ReadKeys(proc.got) = {1, 2}
          /\ cell = "beta" =>
                /\ InTodo(proc.todo) \subseteq Memory!OnDisk
                /\ \A n \in DOMAIN proc.got : proc.got[n].value = "run-1"
                /\ known \subseteq InTodo(proc.todo) \cup ReadKeys(proc.got)
          /\ \A n \in DOMAIN proc.got : proc.got[n].key \in known => proc.got[n].value # None
          /\ known \subseteq Memory!OnDisk
      BY <1>2 DEF CrossInv, ReaderIsSound, CrossTyped
    <2>2. InTodo(Tail(proc.todo)) \cup ReadKeys(got) = InTodo(proc.todo) \cup ReadKeys(proc.got)
      BY <1>7
    <2>3. \A n \in DOMAIN got : got[n].key \in known => got[n].value # None
      BY <1>6, <1>7, <2>1
    <2>4. cell = "beta" => /\ InTodo(Tail(proc.todo)) \subseteq Memory!OnDisk
                           /\ \A n \in DOMAIN got : got[n].value = "run-1"
                           /\ known \subseteq InTodo(Tail(proc.todo)) \cup ReadKeys(got)
      BY <1>6, <1>7, <2>1, <2>2
    <2>5. next = "atom" => Tail(proc.todo) # <<>>
      BY <1>7
    <2> QED
      BY <1>2, <1>7, <1>9, <2>1, <2>2, <2>3, <2>4, <2>5 DEF ReaderIsSound
  <1> QED
    BY <1>10, <1>11 DEF CrossInv

\* The process goes on without a read or a row.
LEMMA MovesOn ==
    ASSUME CrossInv, NEW next \in {"atom", "secret", "rewrite", "close"}, NEW code \in {0, 1},
           proc.at # "off", proc' = [proc EXCEPT !.at = next, !.exit = code],
           UNCHANGED <<cell, known, acked, ended>>,
           disk' \in Seq(Lines), Memory!OnDisk \subseteq Memory!OnDisk', OneValue',
           next = "atom" => proc.todo # <<>>,
           next = "rewrite" => cell = "alpha" /\ proc.run = "run-2",
           next = "atom" \/ next = "secret" => proc.at \in {"atom", "secret"},
           next \in {"rewrite", "close"} /\ code = 0 => proc.todo = <<>>
    PROVE  CrossInv'
  <1>1. /\ proc \in Procs /\ proc.run \in {"run-1", "run-2"} /\ acked \subseteq Memory!OnDisk'
    BY DEF CrossInv, CrossTyped, Memory!NoProc
  <1>2. /\ proc' \in Procs /\ proc'.run = proc.run /\ proc'.todo = proc.todo /\ proc'.got = proc.got
        /\ proc'.at = next /\ proc'.exit = code
    BY <1>1 DEF Procs
  <1>3. CrossTyped'
    BY <1>1, <1>2 DEF CrossInv, CrossTyped
  <1>4. WriterIsSound'
    BY <1>2 DEF CrossInv, WriterIsSound
  <1>5. ReaderIsSound'
    BY <1>2 DEF CrossInv, ReaderIsSound
  <1> QED
    BY <1>3, <1>4, <1>5, StillWell DEF CrossInv

LEMMA ResolveSecretStep == ASSUME CrossInv, Memory!ResolveSecret PROVE CrossInv'
  <1> DEFINE next == IF proc.todo # <<>> THEN "atom"
                     ELSE IF proc.run = "run-2" /\ cell = "alpha" THEN "rewrite" ELSE "close"
  <1>1. /\ proc.at = "secret" /\ UNCHANGED <<cell, disk, known, acked, ended>>
        /\ proc' = [proc EXCEPT !.at = next]
    BY DEF Memory!ResolveSecret, Memory!Moves
  <1>2. proc \in Procs /\ proc.exit \in {0, 1} /\ disk \in Seq(Lines)
    BY DEF CrossInv, CrossTyped, Procs
  <1>3. proc' = [proc EXCEPT !.at = next, !.exit = proc.exit]
    BY <1>1, <1>2 DEF Procs
  <1>4. Memory!OnDisk' = Memory!OnDisk /\ OneValue'
    BY <1>1 DEF Memory!OnDisk, CrossInv, OneValue
  <1>5. /\ next \in {"atom", "secret", "rewrite", "close"} /\ next # "secret"
        /\ next = "atom" => proc.todo # <<>>
        /\ next = "rewrite" => cell = "alpha" /\ proc.run = "run-2"
        /\ next \in {"rewrite", "close"} => proc.todo = <<>>
    OBVIOUS
  <1> HIDE DEF next
  <1> QED
    BY <1>1, <1>2, <1>3, <1>4, <1>5, MovesOn

LEMMA RewriteStep == ASSUME CrossInv, Memory!Rewrite PROVE CrossInv'
  <1> DEFINE e == [key |-> 1, value |-> "run-2"]
  <1>1. /\ proc.at = "rewrite" /\ UNCHANGED <<cell, known, acked, ended>>
        /\ proc' = [proc EXCEPT !.at = "close"]
        /\ disk' = Append(disk, e) \/ UNCHANGED disk
    BY BothAtoms, ShortSequences DEF Memory!Rewrite, Memory!Moves, ShortTodos
  <1>2. /\ proc \in Procs /\ proc.exit \in {0, 1} /\ disk \in Seq(Lines) /\ e \in Lines
    BY DEF CrossInv, CrossTyped, Procs, Lines
  <1> HIDE DEF e
  <1>3. proc.run = "run-2" /\ cell = "alpha"
    BY <1>1 DEF CrossInv, CrossTyped, Memory!NoProc, WriterIsSound, ReaderIsSound
  <1>4. proc.exit = 0 => proc.todo = <<>>
    BY <1>1, <1>3 DEF CrossInv, ReaderIsSound
  <1>5. proc' = [proc EXCEPT !.at = "close", !.exit = proc.exit]
    BY <1>1, <1>2 DEF Procs
  <1>6. disk' \in Seq(Lines) /\ Memory!OnDisk \subseteq Memory!OnDisk'
    <2>1. CASE disk' = Append(disk, e)
      BY <1>2, <2>1, DiskGrows
    <2>2. CASE UNCHANGED disk
      BY <1>2, <2>2 DEF Memory!OnDisk
    <2> QED
      BY <1>1, <2>1, <2>2
  <1>7. OneValue'
    BY <1>1, <1>3 DEF OneValue
  <1> QED
    BY <1>1, <1>2, <1>4, <1>5, <1>6, <1>7, MovesOn

LEMMA CallFailsStep == ASSUME CrossInv, Memory!CallFails PROVE CrossInv'
  <1>1. /\ proc.at \in {"atom", "list", "secret"} /\ UNCHANGED <<cell, disk, known, acked, ended>>
        /\ proc' = [proc EXCEPT !.at = "close", !.exit = 1]
    BY DEF Memory!CallFails, Memory!Moves
  <1>2. disk' \in Seq(Lines) /\ Memory!OnDisk' = Memory!OnDisk /\ OneValue'
    BY <1>1 DEF Memory!OnDisk, CrossInv, CrossTyped, OneValue
  <1> QED
    BY <1>1, <1>2, MovesOn

\* Two reads of the value there should be are one of each key.
LEMMA CompleteReads ==
    ASSUME proc.got \in Seq(Reads), Position(proc.got, proc.todo), Memory!Complete,
           proc.run = "run-2"
    PROVE  /\ Len(proc.got) = 2 /\ ReadKeys(proc.got) = {1, 2}
           /\ \A n \in DOMAIN proc.got : cell = "beta" \/ proc.got[n].value = "run-1"
  <1> DEFINE done == {n \in DOMAIN proc.got : cell = "beta" \/ proc.got[n].value = "run-1"}
  <1>1. Memory!Cardinality(done) = 2
    BY CountKeys DEF Memory!Complete
  <1>2. DOMAIN proc.got = 1..Len(proc.got) /\ Len(proc.got) \in {0, 1, 2}
    BY DEF Position
  <1>3. done \subseteq DOMAIN proc.got
    OBVIOUS
  <1>4. \A n \in done : cell = "beta" \/ proc.got[n].value = "run-1"
    OBVIOUS
  <1> HIDE DEF done
  <1>5. done \subseteq {1, 2} /\ (Len(proc.got) # 2 => done \subseteq {1})
    <2>1. \A n \in done : n \in 1..Len(proc.got)
      BY <1>2, <1>3
    <2> DEFINE length == Len(proc.got)
    <2>0. length \in {0, 1, 2}
      BY <1>2
    <2> HIDE DEF length
    <2>3. \A n \in 1..length : n = 1 \/ (n = 2 /\ length = 2)
      <3> SUFFICES ASSUME NEW n \in 1..length PROVE n = 1 \/ (n = 2 /\ length = 2)
        OBVIOUS
      <3>1. n \in Int /\ 1 <= n /\ n <= length
        BY <2>0
      <3> QED
        BY <2>0, <3>1
    <2>2. \A n \in 1..Len(proc.got) : n = 1 \/ (n = 2 /\ Len(proc.got) = 2)
      BY <2>3 DEF length
    <2> QED
      BY <2>1, <2>2
  <1>6. done # {} /\ done # {1} /\ done # {2}
    <2>1. /\ Memory!Cardinality({}) # 2 /\ Memory!Cardinality({1}) # 2
          /\ Memory!Cardinality({2}) # 2
      BY CountKeys
    <2> QED
      BY <1>1, <2>1, Zenon
  <1>7. done = {1, 2} /\ Len(proc.got) = 2
    BY <1>5, <1>6
  <1>8. proc.got[1].key = 1 /\ proc.got[2].key = 2 /\ DOMAIN proc.got = {1, 2}
    BY <1>2, <1>7 DEF Position
  <1> QED
    BY <1>4, <1>7, <1>8 DEF ReadKeys

LEMMA ExitStep == ASSUME CrossInv, Memory!Exit PROVE CrossInv'
  <1>1. /\ proc.at = "close" /\ proc' = Memory!NoProc
        /\ ended' = [run |-> proc.run, got |-> proc.got,
                     exit |-> IF Memory!Complete THEN proc.exit ELSE 1]
        /\ UNCHANGED <<cell, disk, known, acked>>
    BY DEF Memory!Exit
  <1>2. Memory!OnDisk' = Memory!OnDisk /\ Memory!NoProc \in Procs /\ proc'.run = None
    BY <1>1 DEF Memory!OnDisk, Memory!NoProc, Procs
  <1>3. proc'.run # "run-1" /\ proc'.run # "run-2"
    BY <1>2, CrossNone
  <1>4. CrossTyped' /\ OneValue' /\ WriterIsSound' /\ ReaderIsSound'
    BY <1>1, <1>2, <1>3 DEF CrossInv, CrossTyped, OneValue, WriterIsSound, ReaderIsSound, Memory!NoProc
  <1>5. proc.run \in {"run-1", "run-2"} /\ proc.got \in Seq(Reads)
    BY <1>1 DEF CrossInv, CrossTyped, Memory!NoProc, Procs
  <1>6. EndedWell'
    <2> SUFFICES ASSUME ended'.exit = 0
                 PROVE  IF proc.run = "run-1" THEN {1, 2} \subseteq Memory!OnDisk
                        ELSE /\ ReadKeys(proc.got) = {1, 2} /\ Len(proc.got) = 2
                             /\ \A n \in DOMAIN proc.got : proc.got[n].value = "run-1"
      BY <1>1, <1>2 DEF EndedWell
    <2>1. Memory!Complete /\ proc.exit = 0
      BY <1>1
    <2>2. CASE proc.run = "run-1"
      <3>1. proc.todo = <<>> /\ {1, 2} \ InTodo(proc.todo) \subseteq Memory!OnDisk
        BY <1>1, <2>1, <2>2 DEF CrossInv, WriterIsSound
      <3>2. {1, 2} \subseteq Memory!OnDisk
        BY <3>1, ShortSequences DEF ShortTodos
      <3> QED
        BY <2>2, <3>2
    <2>3. CASE proc.run = "run-2"
      <3>1. /\ Position(proc.got, proc.todo)
            /\ cell = "beta" => \A n \in DOMAIN proc.got : proc.got[n].value = "run-1"
        BY <2>3 DEF CrossInv, ReaderIsSound
      <3>2. /\ Len(proc.got) = 2 /\ ReadKeys(proc.got) = {1, 2}
            /\ \A n \in DOMAIN proc.got : cell = "beta" \/ proc.got[n].value = "run-1"
        BY <1>5, <2>1, <2>3, <3>1, CompleteReads
      <3> QED
        BY <2>3, <3>1, <3>2
    <2> QED
      BY <1>5, <2>2, <2>3
  <1> QED
    BY <1>4, <1>6 DEF CrossInv

LEMMA CrossStep == CrossInv /\ (Memory!CrossNext \/ UNCHANGED crossVars) => CrossInv'
  <1> SUFFICES ASSUME CrossInv, Memory!CrossNext \/ UNCHANGED crossVars PROVE CrossInv'
    OBVIOUS
  <1>1. CASE Memory!Crash
    <2>1. proc' = Memory!NoProc /\ ended' = None /\ UNCHANGED <<cell, disk, known, acked>>
      BY <1>1 DEF Memory!Crash
    <2>2. Memory!OnDisk' = Memory!OnDisk /\ Memory!NoProc \in Procs /\ proc'.run = None
      BY <2>1 DEF Memory!OnDisk, Memory!NoProc, Procs
    <2>3. proc'.run # "run-1" /\ proc'.run # "run-2"
      BY <2>2, CrossNone
    <2> QED
      BY <2>1, <2>2, <2>3
      DEF CrossInv, CrossTyped, OneValue, WriterIsSound, ReaderIsSound, EndedWell, Memory!NoProc
  <1>2. CASE UNCHANGED crossVars
    <2>1. UNCHANGED <<cell, disk, proc, known, acked, ended>> /\ Memory!OnDisk' = Memory!OnDisk
      BY <1>2 DEF crossVars, Memory!OnDisk
    <2> QED
      BY <2>1
      DEF CrossInv, CrossTyped, OneValue, WriterIsSound, ReaderIsSound, EndedWell, Memory!NoProc
  <1> QED
    BY <1>1, <1>2, LaunchStep, WriteAtomStep, ListKeysStep, ReadAtomStep, ResolveSecretStep,
       RewriteStep, CallFailsStep, ExitStep
    DEF Memory!CrossNext

LEMMA CrossFollows == CrossInv => Memory!RunsShareMemory
  <1> SUFFICES ASSUME CrossInv PROVE Memory!RunsShareMemory
    OBVIOUS
  <1>1. Memory!Cardinality({1, 2}) = 2
    BY CountKeys
  <1>2. \A n \in DOMAIN proc.got : proc.got[n].key \in known => proc.got[n].value # None
    <2>1. CASE proc = Memory!NoProc
      BY <2>1 DEF Memory!NoProc
    <2>2. CASE proc.run = "run-1"
      BY <2>2 DEF CrossInv, WriterIsSound
    <2>3. CASE proc.run = "run-2"
      BY <2>3 DEF CrossInv, ReaderIsSound
    <2> QED
      BY <2>1, <2>2, <2>3 DEF CrossInv, CrossTyped
  <1>3. cell = "beta" /\ proc.run = "run-2" /\ proc.at \in {"atom", "secret"}
        => known \subseteq ReadKeys(proc.got) \cup Memory!ToSet(proc.todo)
    BY DEF CrossInv, ReaderIsSound, InTodo, Memory!ToSet
  <1> QED
    BY <1>1, <1>2, <1>3 DEF Memory!RunsShareMemory, CrossInv, EndedWell, ReadKeys

LEMMA MemorySteps ==
    [MCNext]_allVars => /\ Memory!Next \/ UNCHANGED memoryVars
                        /\ Memory!ListNext \/ UNCHANGED listVars
                        /\ Memory!CrossNext \/ UNCHANGED crossVars
  BY DEF MCNext, DependencyNext, allVars, limitVars

MemoryInv == KeyInv /\ ListInv /\ CrossInv

\* While the writes of a namespace follow each other and succeed, a read
\* between them finds the last, and what list answers was written there and
\* can be read (memory-map, memory-sqlite/src/adapter.ts 56-108, memory-
\* orchestr8/src/adapter.ts 93-152); a process that exits with 0 has read
\* what an earlier one stored: for any writers, namespaces and processes.
THEOREM LastWriteIsReadAlways == MCSpec => []LastWriteIsRead
  <1>1. MCInit => MemoryInv
    <2> SUFFICES ASSUME MCInit PROVE MemoryInv
      OBVIOUS
    <2>1. Memory!Init /\ Memory!ListInit /\ Memory!CrossInit
      BY DEF MCInit, MemoryIdle
    <2> QED
      BY <2>1, KeyStart, ListStart, CrossStart DEF MemoryInv
  <1>2. MemoryInv /\ [MCNext]_allVars => MemoryInv'
    BY MemorySteps, KeyStep, ListStep, CrossStep DEF MemoryInv
  <1>3. MemoryInv => LastWriteIsRead
    BY KeyFollows, ListFollows, CrossFollows DEF MemoryInv, LastWriteIsRead
  <1> QED
    BY <1>1, <1>2, <1>3, PTL DEF MCSpec
=============================================================================
