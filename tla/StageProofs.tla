----------------------------- MODULE StageProofs -----------------------------
(***************************************************************************)
(* Theorems about the stages that are one call each, for any bounds: what  *)
(* an extraction returns and its twin in Python, and the schema it sends   *)
(* (ExtractRun); the branch a value reaches, the summaries of aggregates   *)
(* and the verdicts of gates (RuleStages); the summaries of evals and the  *)
(* bills of calls (EvalAndCost); what a run of a pipeline that was built   *)
(* has, and the keys and the metadata of its contexts (PipelineBuild); and *)
(* what the commands of pk come to (PkCommands).                           *)
(***************************************************************************)
EXTENDS MCStages, FiniteSetTheorems, SequenceTheorems, WellFoundedInduction, TLAPS

\* What a step of MCStages is for one of its parts.
LEMMA PartSteps ==
    ASSUME [Next]_vars
    PROVE  /\ part' = part
           /\ UNCHANGED buildVars \/ (part = "build" /\ Build!Next)
           /\ UNCHANGED contextVars \/ (part = "contexts" /\ Build!ContextNext)
           /\ UNCHANGED rulesVars \/ (part = "rules" /\ Rules!Next)
           /\ UNCHANGED extractVars \/ (part = "extract" /\ Extract!Next)
           /\ UNCHANGED strictVars \/ (part = "schema" /\ Extract!StrictNext)
           /\ UNCHANGED evalVars \/ (part = "eval" /\ Eval!Next)
           /\ UNCHANGED costVars \/ (part = "cost" /\ Eval!CostNext)
           /\ UNCHANGED wayVars \/ (part = "ways" /\ Rules!WayNext)
           /\ UNCHANGED devVars \/ (part = "dev" /\ Pk!DevNext)
           /\ UNCHANGED pyVars \/ (part = "py" /\ Pk!Next)
           /\ UNCHANGED pkVars \/ (part = "pk" /\ Pk!PkNext)
  BY DEF Next, vars, stageVars, restVars

-----------------------------------------------------------------------------
(***************************************************************************)
(* PipelineBuild.                                                          *)
(***************************************************************************)
Steps == Build!Stages \cup {Build!Source}

BuildTyped ==
    /\ defs \in Seq(Seq(Steps)) /\ chain \in Seq(Seq(Steps))
    /\ pipes \in Seq([def : Nat, terminal : BOOLEAN]) /\ Len(chain) = Len(pipes)

\* Of each pipeline the definition holds the steps of the calls that built it,
\* and it is terminal when the last of them was a serve.
PipeIsChain(p) ==
    /\ pipes[p].def \in 1..Len(defs) /\ Len(chain[p]) \in Nat \ {0}
    /\ defs[pipes[p].def] = [i \in 1..Len(chain[p]) |-> Build!stepOf(chain[p][i])]
    /\ pipes[p].terminal => chain[p][Len(chain[p])].kind = "serve"

\* A run has the steps of its pipeline, and sends what its bucket lets through.
RunIsChain(r) ==
    /\ started[r].pipe \in 1..Len(pipes) /\ pipes[started[r].pipe].terminal
    /\ started[r].steps = [i \in 1..(Len(chain[started[r].pipe]) - 1) |->
                              Build!stepOf(chain[started[r].pipe][i + 1])]
    /\ started[r].tokens \in Nat /\ started[r].sent \in Nat
    /\ LET built == chain[started[r].pipe]
       IN  built[Len(built)].limited => started[r].tokens + started[r].sent = Limit

RunFields ==
    [pipe : Nat, given : SUBSET Build!Options, passed : SUBSET Build!Options,
     steps : Seq(Steps), tokens : Nat, sent : Nat]

Built ==
    /\ BuildTyped /\ started \in Seq(RunFields)
    /\ \A p \in 1..Len(pipes) : PipeIsChain(p)
    /\ \A r \in 1..Len(started) : RunIsChain(r)

LEMMA StepOfStep ==
    ASSUME NEW s \in Steps
    PROVE  /\ Build!stepOf(s) \in Steps /\ Build!stepOf(Build!stepOf(s)) = Build!stepOf(s)
           /\ Build!stepOf(s).kind = (IF s.kind = "review" THEN "process" ELSE s.kind)
           /\ Build!stepOf(s).retry = s.retry /\ Build!stepOf(s).limited = s.limited
  <1>1. CASE s \in Build!Stages
    <2> DEFINE kind == IF s.kind = "review" THEN "process" ELSE s.kind
    <2>1. Build!stepOf(s) = [kind |-> kind, retry |-> s.retry, limited |-> s.limited]
      BY <1>1 DEF Build!stepOf, Build!Stages
    <2>2. kind \in {"process", "store", "serve"} /\ s.retry \in BOOLEAN /\ s.limited \in BOOLEAN
      BY <1>1 DEF Build!Stages
    <2> HIDE DEF kind
    <2>3. Build!stepOf(s) \in Build!Stages /\ Build!stepOf(s).kind = kind
          /\ Build!stepOf(s).retry = s.retry /\ Build!stepOf(s).limited = s.limited
      BY <2>1, <2>2 DEF Build!Stages
    <2>4. Build!stepOf(Build!stepOf(s)) = Build!stepOf(s)
      BY <2>1, <2>2 DEF Build!stepOf
    <2> QED
      BY <2>3, <2>4 DEF Steps, kind
  <1>2. CASE s = Build!Source
    BY <1>2 DEF Steps, Build!stepOf, Build!Source
  <1> QED
    BY <1>1, <1>2 DEF Steps

LEMMA BuildStarts == ASSUME Build!Init \/ IdleBuild PROVE Built
  <1>1. defs = <<>> /\ pipes = <<>> /\ chain = <<>> /\ started = <<>>
    BY DEF Build!Init, IdleBuild
  <1> QED
    BY <1>1 DEF Built, BuildTyped

\* A pipeline more, with a chain and a definition of its own.
Adds(d, last, c) ==
    /\ defs' = Append(defs, d)
    /\ pipes' = Append(pipes, [def |-> Len(defs) + 1, terminal |-> last])
    /\ chain' = Append(chain, c)
    /\ UNCHANGED started

LEMMA AddKeepsBuilt ==
    ASSUME Built, NEW c \in Seq(Steps), c # <<>>, NEW last \in BOOLEAN,
           last => c[Len(c)].kind = "serve",
           Adds([i \in 1..Len(c) |-> Build!stepOf(c[i])], last, c)
    PROVE  Built'
  <1> DEFINE d == [i \in 1..Len(c) |-> Build!stepOf(c[i])]
             pipe == [def |-> Len(defs) + 1, terminal |-> last]
  <1>1. Len(c) \in Nat \ {0} /\ d \in Seq(Steps)
    <2>1. Len(c) \in Nat /\ Len(c) # 0 /\ \A i \in 1..Len(c) : c[i] \in Steps
      BY EmptySeq
    <2> QED
      BY <2>1, StepOfStep
  <1>2. defs' = Append(defs, d) /\ pipes' = Append(pipes, pipe) /\ chain' = Append(chain, c)
        /\ started' = started
    BY DEF Adds
  <1>3. /\ defs \in Seq(Seq(Steps)) /\ chain \in Seq(Seq(Steps))
        /\ pipes \in Seq([def : Nat, terminal : BOOLEAN]) /\ Len(chain) = Len(pipes)
    BY DEF Built, BuildTyped
  <1>4. pipe \in [def : Nat, terminal : BOOLEAN]
    BY <1>3
  <1> HIDE DEF d, pipe
  <1>5. /\ defs' \in Seq(Seq(Steps)) /\ Len(defs') = Len(defs) + 1
        /\ defs'[Len(defs) + 1] = d /\ \A i \in 1..Len(defs) : defs'[i] = defs[i]
    BY <1>1, <1>2, <1>3, AppendProperties
  <1>6. /\ chain' \in Seq(Seq(Steps)) /\ Len(chain') = Len(chain) + 1
        /\ chain'[Len(chain) + 1] = c /\ \A i \in 1..Len(chain) : chain'[i] = chain[i]
    BY <1>2, <1>3, AppendProperties
  <1>7. /\ pipes' \in Seq([def : Nat, terminal : BOOLEAN]) /\ Len(pipes') = Len(pipes) + 1
        /\ pipes'[Len(pipes) + 1] = pipe /\ \A i \in 1..Len(pipes) : pipes'[i] = pipes[i]
    BY <1>2, <1>3, <1>4, AppendProperties
  <1>8. Len(pipes) \in Nat /\ Len(defs) \in Nat
    BY <1>3
  <1>9. ASSUME NEW p \in 1..Len(pipes') PROVE PipeIsChain(p)'
    <2>1. CASE p \in 1..Len(pipes)
      <3>1. PipeIsChain(p) /\ pipes'[p] = pipes[p] /\ chain'[p] = chain[p]
        BY <1>3, <1>6, <1>7, <2>1 DEF Built
      <3>2. defs'[pipes[p].def] = defs[pipes[p].def] /\ pipes[p].def \in 1..Len(defs')
        BY <1>5, <1>8, <3>1 DEF PipeIsChain
      <3> QED
        BY <3>1, <3>2 DEF PipeIsChain
    <2>2. CASE p = Len(pipes) + 1
      <3>1. pipes'[p] = pipe /\ chain'[p] = c /\ defs'[pipe.def] = d
            /\ pipe.def = Len(defs) + 1 /\ pipe.terminal = last
        BY <1>3, <1>5, <1>6, <1>7, <2>2 DEF pipe
      <3>2. pipe.def \in 1..Len(defs')
        BY <1>5, <1>8, <3>1
      <3> QED
        BY <1>1, <3>1, <3>2 DEF PipeIsChain, d
    <2> QED
      BY <1>7, <1>8, <2>1, <2>2
  <1>10. ASSUME NEW r \in 1..Len(started') PROVE RunIsChain(r)'
    <2>1. RunIsChain(r) /\ started' = started
      BY <1>2 DEF Built
    <2> DEFINE p == started[r].pipe
    <2>2. p \in 1..Len(pipes)
      BY <2>1 DEF RunIsChain
    <2> HIDE DEF p
    <2>3. p \in 1..Len(pipes') /\ pipes'[p] = pipes[p] /\ chain'[p] = chain[p]
      BY <1>3, <1>6, <1>7, <1>8, <2>2
    <2> QED
      BY <2>1, <2>3 DEF RunIsChain, p
  <1> QED
    BY <1>2, <1>3, <1>5, <1>6, <1>7, <1>9, <1>10 DEF Built, BuildTyped

\* from: a chain of the source alone.
LEMMA FromKeepsBuilt == ASSUME Built, Build!From PROVE Built'
  <1> DEFINE c == <<Build!Source>>
  <1>1. c \in Seq(Steps) /\ c # <<>> /\ Len(c) = 1 /\ c[1] = Build!Source
    BY DEF Steps
  <1>2. Build!stepOf(Build!Source) = Build!Source
    BY DEF Build!stepOf, Build!Source
  <1>3. [i \in 1..Len(c) |-> Build!stepOf(c[i])] = <<Build!Source>>
    BY <1>1, <1>2
  <1>4. Adds([i \in 1..Len(c) |-> Build!stepOf(c[i])], FALSE, c)
    BY <1>3 DEF Build!From, Adds
  <1> HIDE DEF c
  <1> QED
    BY <1>1, <1>4, AddKeepsBuilt

\* through, store, review and to: one call more than the pipeline continued.
LEMMA ExtendKeepsBuilt ==
    ASSUME Built, NEW p \in 1..Len(pipes), NEW s \in Build!Declared, Build!Extend(p, s)
    PROVE  Built'
  <1> DEFINE c == Append(chain[p], s)
             old == defs[pipes[p].def]
             last == s.kind = "serve"
  <1>1. /\ chain[p] \in Seq(Steps) /\ PipeIsChain(p) /\ s \in Steps
    BY DEF Built, BuildTyped, Steps, Build!Declared
  <1>2. /\ c \in Seq(Steps) /\ Len(c) = Len(chain[p]) + 1 /\ Len(chain[p]) \in Nat
        /\ c[Len(chain[p]) + 1] = s /\ \A i \in 1..Len(chain[p]) : c[i] = chain[p][i]
    BY <1>1, AppendProperties
  <1>3. old = [i \in 1..Len(chain[p]) |-> Build!stepOf(chain[p][i])]
    BY <1>1 DEF PipeIsChain
  <1>4. old \in Seq(Steps) /\ Len(old) = Len(chain[p])
    BY <1>1, <1>2, <1>3, StepOfStep
  <1>5. Append(old, Build!stepOf(s)) = [i \in 1..Len(c) |-> Build!stepOf(c[i])]
    <2>1. Build!stepOf(s) \in Steps
      BY <1>1, StepOfStep
    <2>2. /\ Append(old, Build!stepOf(s)) \in Seq(Steps)
          /\ Len(Append(old, Build!stepOf(s))) = Len(old) + 1
          /\ Append(old, Build!stepOf(s))[Len(old) + 1] = Build!stepOf(s)
          /\ \A i \in 1..Len(old) : Append(old, Build!stepOf(s))[i] = old[i]
      BY <1>4, <2>1, AppendProperties
    <2> HIDE DEF c, old
    <2> QED
      BY <1>2, <1>3, <1>4, <2>2
  <1>6. Adds([i \in 1..Len(c) |-> Build!stepOf(c[i])], last, c)
    BY <1>5 DEF Build!Extend, Adds
  <1>7. c # <<>> /\ last \in BOOLEAN /\ (last => c[Len(c)].kind = "serve")
    BY <1>2
  <1> HIDE DEF c, old, last
  <1> QED
    BY <1>2, <1>6, <1>7, AddKeepsBuilt

LEMMA RunKeepsBuilt ==
    ASSUME Built, NEW p \in 1..Len(pipes),
           NEW options \in SUBSET Build!Options, NEW passes \in SUBSET Build!Options,
           Build!Run(p, options, passes)
    PROVE  Built'
  <1> DEFINE def == defs[pipes[p].def]
             built == chain[p]
             run == [pipe |-> p, given |-> options, passed |-> options \cap passes,
                     steps |-> [i \in 1..(Len(def) - 1) |-> Build!toComposerStep(def[i + 1])],
                     tokens |-> Build!Bucket(def), sent |-> 0]
  <1>1. PipeIsChain(p) /\ pipes[p].terminal /\ built \in Seq(Steps) /\ Len(pipes) \in Nat
        /\ started' = Append(started, run) /\ UNCHANGED <<defs, pipes, chain>>
    BY DEF Built, BuildTyped, Build!Run
  <1>2. def = [i \in 1..Len(built) |-> Build!stepOf(built[i])] /\ Len(built) \in Nat \ {0}
        /\ built[Len(built)].kind = "serve"
    BY <1>1 DEF PipeIsChain
  <1>3. \A i \in 1..Len(built) : built[i] \in Steps
    BY <1>1
  <1>4. def \in Seq(Steps) /\ Len(def) = Len(built) /\ DOMAIN def = 1..Len(built)
    BY <1>2, <1>3, StepOfStep
  <1> DEFINE steps == [i \in 1..(Len(built) - 1) |-> Build!stepOf(built[i + 1])]
  <1>5. run.steps = steps
    <2>1. \A i \in 1..(Len(built) - 1) : i + 1 \in 1..Len(built)
      BY <1>2
    <2>2. \A i \in 1..(Len(built) - 1) :
            Build!toComposerStep(def[i + 1]) = Build!stepOf(built[i + 1])
      BY <1>2, <1>3, <2>1, StepOfStep DEF Build!toComposerStep
    <2> HIDE DEF def
    <2> QED
      BY <1>4, <2>2
  <1>6. steps \in Seq(Steps)
    <2>1. \A i \in 1..(Len(built) - 1) : Build!stepOf(built[i + 1]) \in Steps
      BY <1>2, <1>3, StepOfStep
    <2> QED
      BY <1>2, <2>1
  <1>7. Build!Bucket(def) \in Nat /\ (built[Len(built)].limited => Build!Bucket(def) = Limit)
    <2>1. Len(built) \in DOMAIN def /\ def[Len(built)] = Build!stepOf(built[Len(built)])
          /\ built[Len(built)] \in Steps
      BY <1>2, <1>3, <1>4
    <2>2. def[Len(built)].kind = "serve" /\ def[Len(built)].limited = built[Len(built)].limited
      BY <1>2, <2>1, StepOfStep
    <2> HIDE DEF def
    <2> QED
      BY <2>1, <2>2, StagesAssumption DEF StagesAssumption, Build!Bucket
  <1> DEFINE tokens == Build!Bucket(def)
  <1>8. /\ run.pipe = p /\ run.tokens = tokens /\ run.sent = 0 /\ run.steps = steps
        /\ run = [pipe |-> p, given |-> options, passed |-> options \cap passes,
                  steps |-> steps, tokens |-> tokens, sent |-> 0]
    BY <1>5
  <1>11. tokens \in Nat /\ (built[Len(built)].limited => tokens = Limit)
    BY <1>7
  <1> HIDE DEF run, def, tokens, steps
  <1>12. run \in RunFields
    <2>1. p \in Nat /\ options \cap passes \in SUBSET Build!Options
      BY <1>1
    <2> QED
      BY <1>6, <1>8, <1>11, <2>1 DEF RunFields
  <1>9. /\ started' \in Seq(RunFields) /\ Len(started') = Len(started) + 1
        /\ Len(started) \in Nat /\ started'[Len(started) + 1] = run
        /\ \A i \in 1..Len(started) : started'[i] = started[i]
    <2>1. started \in Seq(RunFields)
      BY DEF Built
    <2> QED
      BY <1>1, <1>12, <2>1, AppendProperties
  <1>10. ASSUME NEW r \in 1..Len(started') PROVE RunIsChain(r)'
    <2>1. CASE r \in 1..Len(started)
      <3>1. RunIsChain(r) /\ started'[r] = started[r]
        BY <1>9, <2>1 DEF Built
      <3> QED
        BY <1>1, <3>1 DEF RunIsChain
    <2>2. CASE r = Len(started) + 1
      <3>1. started'[r] = run /\ chain' = chain /\ pipes' = pipes
        BY <1>1, <1>9, <2>2
      <3>2. tokens + 0 = tokens
        BY <1>11
      <3>3. run.steps = [i \in 1..(Len(chain[p]) - 1) |-> Build!stepOf(chain[p][i + 1])]
        BY <1>8 DEF steps
      <3>4. run.pipe = p /\ run.tokens \in Nat /\ run.sent \in Nat
            /\ (chain[p][Len(chain[p])].limited => run.tokens + run.sent = Limit)
        BY <1>8, <1>11, <3>2
      <3>5. p \in 1..Len(pipes) /\ pipes[p].terminal
        BY <1>1
      <3> QED
        BY <3>1, <3>3, <3>4, <3>5 DEF RunIsChain
    <2> QED
      BY <1>9, <2>1, <2>2
  <1>13. BuildTyped' /\ \A q \in 1..Len(pipes') : PipeIsChain(q)'
    <2>1. defs' = defs /\ pipes' = pipes /\ chain' = chain
      BY <1>1
    <2>2. BuildTyped'
      BY <2>1 DEF Built, BuildTyped
    <2>3. ASSUME NEW q \in 1..Len(pipes') PROVE PipeIsChain(q)'
      BY <2>1 DEF Built, PipeIsChain
    <2> QED
      BY <2>2, <2>3
  <1> QED
    BY <1>9, <1>10, <1>13 DEF Built

LEMMA SendKeepsBuilt ==
    ASSUME Built, NEW r \in 1..Len(started), Build!Send(r)
    PROVE  Built'
  <1> DEFINE new == [started[r] EXCEPT !.tokens = @ - 1, !.sent = @ + 1]
  <1>1. started \in Seq(RunFields) /\ started[r] \in RunFields /\ RunIsChain(r)
        /\ started[r].tokens > 0 /\ UNCHANGED <<defs, pipes, chain>>
        /\ started' = [started EXCEPT ![r] = new]
    <2>1. started \in Seq(RunFields) /\ RunIsChain(r)
      BY DEF Built
    <2>2. started[r] \in RunFields
      BY <2>1
    <2> QED
      BY <2>1, <2>2 DEF Build!Send
  <1> DEFINE run == started[r]
             tokens == run.tokens - 1
             sent == run.sent + 1
  <1>7. tokens \in Nat /\ sent \in Nat
    BY <1>1 DEF RunIsChain
  <1>2. /\ new \in RunFields /\ new.pipe = started[r].pipe /\ new.steps = started[r].steps
        /\ new.tokens = started[r].tokens - 1 /\ new.sent = started[r].sent + 1
    <2>1. run \in RunFields /\ new = [run EXCEPT !.tokens = tokens, !.sent = sent]
      BY <1>1
    <2> HIDE DEF run, tokens, sent, new
    <2>2. /\ new \in RunFields /\ new.pipe = run.pipe /\ new.steps = run.steps
          /\ new.tokens = tokens /\ new.sent = sent
      BY <1>7, <2>1 DEF RunFields
    <2> QED
      BY <2>2 DEF run, tokens, sent
  <1> HIDE DEF new, run, tokens, sent
  <1>3. started' \in Seq(RunFields) /\ Len(started') = Len(started) /\ started'[r] = new
        /\ \A q \in 1..Len(started) : q # r => started'[q] = started[q]
    BY <1>1, <1>2
  <1>4. started[r].tokens \in Nat /\ started[r].sent \in Nat
    BY <1>1 DEF RunIsChain
  <1>5. new.tokens \in Nat /\ new.sent \in Nat
        /\ new.tokens + new.sent = started[r].tokens + started[r].sent
    <2> DEFINE a == started[r].tokens
               b == started[r].sent
    <2>1. a \in Nat /\ b \in Nat /\ a > 0
      BY <1>1, <1>4
    <2>2. new.tokens = a - 1 /\ new.sent = b + 1
      BY <1>2
    <2> HIDE DEF a, b
    <2>3. a - 1 \in Nat /\ b + 1 \in Nat /\ (a - 1) + (b + 1) = a + b
      BY <2>1
    <2> QED
      BY <2>2, <2>3 DEF a, b
  <1>6. ASSUME NEW q \in 1..Len(started') PROVE RunIsChain(q)'
    <2>1. CASE q # r
      <3>1. RunIsChain(q) /\ started'[q] = started[q]
        BY <1>1, <1>3, <2>1 DEF Built
      <3> HIDE DEF new
      <3> QED
        BY <1>1, <3>1 DEF RunIsChain
    <2>2. CASE q = r
      BY <1>1, <1>2, <1>3, <1>5, <2>2 DEF RunIsChain
    <2> QED
      BY <2>1, <2>2
  <1>8. BuildTyped' /\ \A q \in 1..Len(pipes') : PipeIsChain(q)'
    BY <1>1 DEF Built, BuildTyped, PipeIsChain
  <1> QED
    BY <1>3, <1>6, <1>8 DEF Built

LEMMA BuildStep == ASSUME Built, Build!Next \/ UNCHANGED buildVars PROVE Built'
  <1>1. CASE UNCHANGED buildVars
    BY <1>1 DEF buildVars, Built, BuildTyped, PipeIsChain, RunIsChain
  <1>2. CASE Build!From
    BY <1>2, FromKeepsBuilt
  <1>3. DOMAIN pipes = 1..Len(pipes) /\ DOMAIN started = 1..Len(started)
    BY DEF Built, BuildTyped
  <1>4. ASSUME NEW p \in DOMAIN pipes, NEW s \in Build!Declared, Build!Extend(p, s) PROVE Built'
    BY <1>3, <1>4, ExtendKeepsBuilt
  <1>5. ASSUME NEW p \in DOMAIN pipes,
               NEW options \in {{}, {"signal", "costBudget"}, {"metadata", "deps"}},
               NEW passes \in {Build!RunPasses, Build!DefinedPasses},
               Build!Run(p, options, passes)
        PROVE  Built'
    <2>1. options \in SUBSET Build!Options /\ passes \in SUBSET Build!Options
      BY DEF Build!Options, Build!RunPasses, Build!DefinedPasses
    <2> QED
      BY <1>3, <1>5, <2>1, RunKeepsBuilt
  <1>6. ASSUME NEW r \in DOMAIN started, Build!Send(r) PROVE Built'
    BY <1>3, <1>6, SendKeepsBuilt
  <1> QED
    BY <1>1, <1>2, <1>4, <1>5, <1>6 DEF Build!Next

LEMMA BuiltRuns == ASSUME Built PROVE Build!RunsWhatWasBuilt
  <1> DEFINE kinds(p) == [i \in DOMAIN chain[p] |-> IF chain[p][i].kind = "review" THEN "process"
                                                    ELSE chain[p][i].kind]
  <1>1. ASSUME NEW p \in 1..Len(pipes)
        PROVE  /\ chain[p] \in Seq(Steps) /\ PipeIsChain(p)
               /\ DOMAIN chain[p] = 1..Len(chain[p]) /\ Len(chain[p]) \in Nat
               /\ \A i \in 1..Len(chain[p]) : chain[p][i] \in Steps
    BY DEF Built, BuildTyped
  <1>2. ASSUME NEW p \in DOMAIN pipes PROVE Build!describe(p) = kinds(p)
    <2>1. p \in 1..Len(pipes)
      BY DEF Built, BuildTyped
    <2>2. defs[pipes[p].def] = [i \in 1..Len(chain[p]) |-> Build!stepOf(chain[p][i])]
      BY <1>1, <2>1 DEF PipeIsChain
    <2>3. \A i \in 1..Len(chain[p]) : Build!stepOf(chain[p][i]).kind = kinds(p)[i]
      BY <1>1, <2>1, StepOfStep
    <2> QED
      BY <1>1, <2>1, <2>2, <2>3 DEF Build!describe
  <1>3. ASSUME NEW r \in DOMAIN started
        PROVE  LET built == chain[started[r].pipe]
                   steps == started[r].steps
               IN  /\ Len(steps) = Len(built) - 1
                   /\ \A i \in DOMAIN steps : /\ steps[i].kind = kinds(started[r].pipe)[i + 1]
                                              /\ steps[i].retry = built[i + 1].retry
                                              /\ steps[i].limited = built[i + 1].limited
                   /\ built[Len(built)].limited => started[r].sent <= Limit
    <2> DEFINE p == started[r].pipe
               built == chain[p]
    <2>0. r \in 1..Len(started)
      BY DEF Built
    <2>1. RunIsChain(r) /\ p \in 1..Len(pipes)
      BY <2>0 DEF Built, RunIsChain
    <2>2. /\ Len(built) \in Nat \ {0} /\ DOMAIN built = 1..Len(built)
          /\ \A i \in 1..Len(built) : built[i] \in Steps
      BY <1>1, <2>1 DEF PipeIsChain
    <2>3. started[r].steps = [i \in 1..(Len(built) - 1) |-> Build!stepOf(built[i + 1])]
      BY <2>1 DEF RunIsChain
    <2>4. DOMAIN started[r].steps = 1..(Len(built) - 1) /\ Len(started[r].steps) = Len(built) - 1
      BY <2>2, <2>3
    <2>5. ASSUME NEW i \in 1..(Len(built) - 1)
          PROVE  /\ started[r].steps[i].kind = kinds(p)[i + 1]
                 /\ started[r].steps[i].retry = built[i + 1].retry
                 /\ started[r].steps[i].limited = built[i + 1].limited
      <3>1. i + 1 \in 1..Len(built) /\ built[i + 1] \in Steps
        BY <2>2
      <3>2. kinds(p)[i + 1] = IF built[i + 1].kind = "review" THEN "process" ELSE built[i + 1].kind
        BY <2>2, <3>1
      <3>3. started[r].steps[i] = Build!stepOf(built[i + 1])
        BY <2>3
      <3> HIDE DEF built, p
      <3> QED
        BY <3>1, <3>2, <3>3, StepOfStep
    <2>6. built[Len(built)].limited => started[r].sent <= Limit
      BY <2>1, StagesAssumption DEF RunIsChain, StagesAssumption
    <2> QED
      BY <2>4, <2>5, <2>6
  <1> QED
    BY <1>2, <1>3 DEF Build!RunsWhatWasBuilt

-----------------------------------------------------------------------------
(***************************************************************************)
(* PipelineBuild, the contexts of runs.                                    *)
(***************************************************************************)
IdText == Seq(Nat)
EmitKeys ==
    {[text |-> t, mac |-> <<>>] : t \in IdText}
    \cup {[text |-> t, mac |-> <<k, t>>] : k \in {"none", "master"}, t \in IdText}
ContextSet ==
    [runId : IdText, key : EmitKeys, trace : {"none", "caller"}, cell : Nat, root : Nat,
     emits : Seq(IdText), from : Nat]

\* What a context emits is under the key made for it, and what came over a
\* wire is as it went. A view has the metadata of the context it is of.
Keyed(c) ==
    /\ Len(c.runId) = 1
    /\ Len(c.emits) # 0 =>
         /\ Len(c.emits) = 3 /\ Len(c.emits[1]) = 1 /\ Len(c.emits[3]) = 1
         /\ c.key = Build!ScopedIdempotencyKey(c.emits[1], c.emits[2], c.emits[3])
Arrived(c) ==
    propagator /\ c.from # 0 =>
        /\ c.trace = contexts[c.from].trace
        /\ contexts[c.from].key # Build!NoKey => c.key = contexts[c.from].key
NamesOf(root) ==
    {attached[n].name : n \in {m \in DOMAIN attached : contexts[attached[m].by].root = root}}
ContextTyped ==
    /\ contexts \in Seq(ContextSet) /\ cells \in Seq(SUBSET {"given", "x", "y"})
    /\ attached \in Seq([by : Nat, name : {"x", "y"}])
    /\ propagator \in BOOLEAN /\ signingKey \in {"none", "master"}
    /\ Len(cells) >= 1
Carried ==
    /\ ContextTyped
    /\ \A i \in 1..Len(contexts) :
         /\ Keyed(contexts[i]) /\ Arrived(contexts[i]) /\ contexts[i].from < i
         /\ contexts[i].cell \in 2..Len(cells) /\ contexts[i].root \in 1..Len(contexts)
    /\ \A i, j \in 1..Len(contexts) :
         contexts[i].cell = contexts[j].cell <=> contexts[i].root = contexts[j].root
    /\ \A m \in 1..Len(attached) : attached[m].by \in 1..Len(contexts)
    /\ cells[1] = {"given"}
    /\ \A i \in 1..Len(contexts) :
         cells[contexts[i].cell] = {"given"} \cup NamesOf(contexts[i].root)

Joined(r, s) == r \o s
IsText(j, r, s) ==
    /\ j \in IdText /\ Len(j) = Len(r) + Len(s)
    /\ \A k \in 1..Len(r) : j[k] = r[k]
    /\ \A k \in 1..Len(s) : j[Len(r) + k] = s[k]

\* A text of two texts has the parts of the first, then those of the second.
LEMMA PartsInOrder ==
    ASSUME NEW r \in IdText, NEW s \in IdText
    PROVE  IsText(Joined(r, s), r, s)
  <1>1. PICK m, n, j : m = Len(r) /\ n = Len(s) /\ j = Joined(r, s)
    OBVIOUS
  <1>2. /\ j \in Seq(Nat) /\ Len(j) = m + n
        /\ \A i \in 1..(m + n) : j[i] = IF i <= m THEN r[i] ELSE s[i - m]
    BY <1>1, ConcatProperties DEF IdText, Joined
  <1>3. m \in Nat /\ n \in Nat
    BY <1>1 DEF IdText
  <1>4. ASSUME NEW k \in 1..m PROVE j[k] = r[k]
    <2>1. k \in 1..(m + n) /\ k <= m
      BY <1>3
    <2>2. j[k] = IF k <= m THEN r[k] ELSE s[k - m]
      BY <1>2, <2>1, Zenon
    <2> QED
      BY <2>1, <2>2, Zenon
  <1>5. ASSUME NEW k \in 1..n PROVE j[m + k] = s[k]
    <2>1. PICK i : i = m + k
      OBVIOUS
    <2>2. i \in 1..(m + n) /\ ~(i <= m) /\ i - m = k
      BY <1>3, <2>1
    <2>3. j[i] = IF i <= m THEN r[i] ELSE s[i - m]
      BY <1>2, <2>2, Zenon
    <2> QED
      BY <2>1, <2>2, <2>3, Zenon
  <1>6. IsText(j, r, s)
    BY <1>1, <1>2, <1>4, <1>5, Zenon DEF IdText, IsText
  <1> QED
    BY <1>1, <1>6

\* It is of one pair, when the first of the two is as long or the second is.
LEMMA PartsApart ==
    ASSUME NEW r \in IdText, NEW s \in IdText, NEW q \in IdText, NEW t \in IdText,
           Joined(r, s) = Joined(q, t), Len(r) = Len(q) \/ Len(s) = Len(t)
    PROVE  r = q /\ s = t
  <1>1. PICK j : j = Joined(r, s) /\ j = Joined(q, t)
    OBVIOUS
  <1>2. IsText(Joined(r, s), r, s) /\ IsText(Joined(q, t), q, t)
    BY PartsInOrder
  <1>3. IsText(j, r, s) /\ IsText(j, q, t)
    BY <1>1, <1>2
  <1>4. /\ Len(j) = Len(r) + Len(s)
        /\ \A k \in 1..Len(r) : j[k] = r[k]
        /\ \A k \in 1..Len(s) : j[Len(r) + k] = s[k]
    BY <1>3 DEF IsText
  <1>5. /\ Len(j) = Len(q) + Len(t)
        /\ \A k \in 1..Len(q) : j[k] = q[k]
        /\ \A k \in 1..Len(t) : j[Len(q) + k] = t[k]
    BY <1>3 DEF IsText
  <1>6. /\ r \in Seq(Nat) /\ s \in Seq(Nat) /\ q \in Seq(Nat) /\ t \in Seq(Nat)
        /\ Len(r) \in Nat /\ Len(s) \in Nat /\ Len(q) \in Nat /\ Len(t) \in Nat
    BY DEF IdText
  <1>7. Len(r) = Len(q) /\ Len(s) = Len(t)
    BY <1>4, <1>5, <1>6
  <1>8. r = q
    <2>1. \A k \in 1..Len(r) : r[k] = q[k]
      BY <1>4, <1>5, <1>7, Zenon
    <2> QED
      BY <1>6, <1>7, <2>1, SeqEqual, Zenon
  <1>9. s = t
    <2>1. \A k \in 1..Len(s) : s[k] = t[k]
      BY <1>4, <1>5, <1>7, Zenon
    <2> QED
      BY <1>6, <1>7, <2>1, SeqEqual, Zenon
  <1> QED
    BY <1>8, <1>9

\* Where the first and the last of three texts have one part, what they make
\* together tells which they were.
LEMMA TextsApart ==
    ASSUME NEW r \in IdText, NEW s \in IdText, NEW a \in IdText,
           NEW q \in IdText, NEW t \in IdText, NEW b \in IdText,
           Len(r) = 1, Len(a) = 1, Len(q) = 1, Len(b) = 1,
           Joined(Joined(r, s), a) = Joined(Joined(q, t), b)
    PROVE  r = q /\ s = t /\ a = b
  <1>1. Joined(r, s) \in IdText /\ Joined(q, t) \in IdText
    BY PartsInOrder DEF IsText
  <1>2. Joined(r, s) = Joined(q, t) /\ a = b
    BY <1>1, PartsApart
  <1> QED
    BY <1>2, PartsApart

LEMMA CarriedAtFirst ==
    ASSUME Build!ContextInit
    PROVE  Carried
  BY DEF Build!ContextInit, Carried, ContextTyped

\* A context that is made is of its own, or is a view of one there is.
LEMMA CarriedWhenAdded ==
    ASSUME Carried, NEW new \in ContextSet, contexts' = Append(contexts, new),
           UNCHANGED <<attached, propagator, signingKey>>,
           Keyed(new), Arrived(new), new.from \in 0..Len(contexts),
           \/ /\ cells' = Append(cells, cells[1])
              /\ new.cell = Len(cells) + 1 /\ new.root = Len(contexts) + 1
           \/ /\ cells' = cells
              /\ \E j \in 1..Len(contexts) :
                   new.cell = contexts[j].cell /\ new.root = contexts[j].root
    PROVE  Carried'
  <1> DEFINE l == Len(contexts)
             n == Len(cells)
  <1>1. /\ ContextTyped /\ l \in Nat /\ n \in Nat /\ n >= 1
        /\ contexts \in Seq(ContextSet) /\ cells \in Seq(SUBSET {"given", "x", "y"})
        /\ attached \in Seq([by : Nat, name : {"x", "y"}])
    BY DEF Carried, ContextTyped
  <1>2. /\ Len(contexts') = l + 1 /\ contexts'[l + 1] = new
        /\ \A i \in 1..l : contexts'[i] = contexts[i]
    BY <1>1
  <1>3. /\ \A k \in 1..n : cells'[k] = cells[k]
        /\ Len(cells') >= n /\ Len(cells') \in Nat
        /\ cells' \in Seq(SUBSET {"given", "x", "y"})
    <2>1. CASE cells' = cells
      BY <1>1, <2>1
    <2>2. CASE cells' = Append(cells, cells[1])
      <3>1. cells[1] \in SUBSET {"given", "x", "y"}
        BY <1>1
      <3>2. PICK first : first = cells[1]
        OBVIOUS
      <3>3. cells' = Append(cells, first) /\ first \in SUBSET {"given", "x", "y"}
        BY <2>2, <3>1, <3>2
      <3>4. cells' \in Seq(SUBSET {"given", "x", "y"}) /\ Len(cells') = n + 1
        BY <1>1, <3>3
      <3>5. \A k \in 1..n : cells'[k] = cells[k]
        BY <1>1, <3>3
      <3> QED
        BY <1>1, <3>4, <3>5
    <2> QED
      BY <2>1, <2>2
  <1>4. ContextTyped'
    BY <1>1, <1>3 DEF ContextTyped
  <1>5. \A m \in 1..Len(attached) : attached[m].by \in 1..l
    BY DEF Carried
  <1>d. DOMAIN attached = 1..Len(attached)
    BY <1>1
  <1>6. \A root : NamesOf(root)' = NamesOf(root)
    BY <1>2, <1>5, <1>d DEF NamesOf
  <1>7. ASSUME NEW c, Keyed(c) PROVE Keyed(c)'
    BY <1>7 DEF Keyed, Build!ScopedIdempotencyKey
  <1>8. ASSUME NEW c \in ContextSet, Arrived(c), c.from \in 0..l PROVE Arrived(c)'
    <2>1. c.from # 0 => contexts'[c.from] = contexts[c.from]
      BY <1>2, <1>8
    <2> QED
      BY <1>8, <2>1 DEF Arrived, Build!NoKey
  <1>9. /\ new.cell \in 2..Len(cells') /\ new.root \in 1..(l + 1)
        /\ cells'[new.cell] = {"given"} \cup NamesOf(new.root)
        /\ \A i \in 1..l : contexts[i].cell = new.cell <=> contexts[i].root = new.root
    <2>1. CASE /\ cells' = Append(cells, cells[1])
               /\ new.cell = n + 1 /\ new.root = l + 1
      <3>1. NamesOf(l + 1) = {}
        <4>1. \A m \in 1..Len(attached) : contexts[attached[m].by].root \in 1..l
          BY <1>5 DEF Carried
        <4> QED
          BY <1>1, <1>d, <4>1 DEF NamesOf
      <3>2. cells'[n + 1] = {"given"} /\ Len(cells') = n + 1
        BY <1>1, <2>1 DEF Carried
      <3>3. \A i \in 1..l : contexts[i].cell \in 2..n /\ contexts[i].root \in 1..l
        BY DEF Carried
      <3> QED
        BY <1>1, <2>1, <3>1, <3>2, <3>3
    <2>2. CASE /\ cells' = cells
               /\ \E j \in 1..l : new.cell = contexts[j].cell /\ new.root = contexts[j].root
      <3>1. PICK j \in 1..l : new.cell = contexts[j].cell /\ new.root = contexts[j].root
        BY <2>2
      <3>2. /\ contexts[j].cell \in 2..n /\ contexts[j].root \in 1..l
            /\ cells[contexts[j].cell] = {"given"} \cup NamesOf(contexts[j].root)
            /\ \A i \in 1..l : contexts[i].cell = contexts[j].cell <=> contexts[i].root = contexts[j].root
        BY DEF Carried
      <3> QED
        BY <1>1, <2>2, <3>1, <3>2
    <2> QED
      BY <2>1, <2>2
  <1>k. \A i, c : c = contexts'[i] /\ Keyed(c)' /\ Arrived(c)' =>
                   Keyed(contexts[i])' /\ Arrived(contexts[i])'
    BY DEF Keyed, Arrived
  <1>10. ASSUME NEW i \in 1..(l + 1)
         PROVE  /\ Keyed(contexts[i])' /\ Arrived(contexts[i])' /\ contexts'[i].from < i
                /\ contexts'[i].cell \in 2..Len(cells') /\ contexts'[i].root \in 1..(l + 1)
                /\ cells'[contexts'[i].cell] = {"given"} \cup NamesOf(contexts'[i].root)
    <2>1. CASE i = l + 1
      <3>1. Keyed(new)' /\ Arrived(new)' /\ new.from < i
        BY <1>1, <1>7, <1>8, <2>1
      <3> QED
        BY <1>2, <1>9, <1>k, <2>1, <3>1
    <2>2. CASE i \in 1..l
      <3>0. contexts[i] \in ContextSet
        BY <1>1, <2>2
      <3>1. contexts[i] \in ContextSet /\ contexts[i].from \in Nat
        BY <3>0 DEF ContextSet
      <3>2. /\ Keyed(contexts[i]) /\ Arrived(contexts[i]) /\ contexts[i].from < i
            /\ contexts[i].cell \in 2..n /\ contexts[i].root \in 1..l
            /\ cells[contexts[i].cell] = {"given"} \cup NamesOf(contexts[i].root)
        BY <2>2 DEF Carried
      <3>3. PICK c : c = contexts[i]
        OBVIOUS
      <3>4. c = contexts'[i]
        BY <1>2, <2>2, <3>3
      <3>5. c \in ContextSet /\ Keyed(c) /\ Arrived(c) /\ c.from \in 0..l
        BY <1>1, <2>2, <3>1, <3>2, <3>3
      <3>6. Keyed(c)' /\ Arrived(c)'
        BY <1>7, <1>8, <3>5
      <3>7. Keyed(contexts[i])' /\ Arrived(contexts[i])'
        BY <1>k, <3>4, <3>6, Zenon
      <3>8. /\ contexts'[i].from < i /\ contexts'[i].root \in 1..l
            /\ contexts'[i].cell \in 2..n
        BY <3>2, <3>3, <3>4
      <3>9. /\ contexts'[i].cell \in 2..Len(cells') /\ contexts'[i].root \in 1..(l + 1)
            /\ cells'[contexts'[i].cell] = cells[contexts[i].cell]
        BY <1>1, <1>3, <3>3, <3>4, <3>8
      <3> QED
        BY <3>2, <3>3, <3>4, <3>7, <3>8, <3>9
    <2> QED
      BY <1>1, <2>1, <2>2
  <1>11. \A i, j \in 1..(l + 1) :
           contexts'[i].cell = contexts'[j].cell <=> contexts'[i].root = contexts'[j].root
    <2>1. \A i, j \in 1..l : contexts[i].cell = contexts[j].cell <=> contexts[i].root = contexts[j].root
      BY DEF Carried
    <2>2. \A i \in 1..(l + 1) : i \in 1..l \/ i = l + 1
      BY <1>1
    <2> HIDE DEF l
    <2> QED
      BY <1>2, <1>9, <2>1, <2>2
  <1>12. cells'[1] = {"given"}
    BY <1>1, <1>3 DEF Carried
  <1>13. /\ \A i \in 1..Len(contexts') :
              /\ Keyed(contexts[i])' /\ Arrived(contexts[i])' /\ contexts'[i].from < i
              /\ contexts'[i].cell \in 2..Len(cells') /\ contexts'[i].root \in 1..Len(contexts')
              /\ cells'[contexts'[i].cell] = {"given"} \cup NamesOf(contexts[i].root)'
         /\ \A i, j \in 1..Len(contexts') :
              contexts'[i].cell = contexts'[j].cell <=> contexts'[i].root = contexts'[j].root
         /\ \A m \in 1..Len(attached') : attached'[m].by \in 1..Len(contexts')
    <2>1. \A i \in 1..Len(contexts') : NamesOf(contexts[i].root)' = NamesOf(contexts'[i].root)
      BY <1>6 DEF NamesOf
    <2>2. \A m \in 1..Len(attached') : attached'[m].by \in 1..(l + 1)
      BY <1>1, <1>5
    <2> HIDE DEF l, n
    <2> QED
      BY <1>2, <1>10, <1>11, <2>1, <2>2
  <1> QED
    BY <1>4, <1>12, <1>13, Zenon DEF Carried

\* The scoped key of an emit is a key, and what it is made for has three ids.
LEMMA ScopedKey ==
    ASSUME NEW r \in IdText, NEW s \in IdText, NEW a \in IdText,
           signingKey \in {"none", "master"}
    PROVE  Build!ScopedIdempotencyKey(r, s, a) \in EmitKeys
  <1>1. Joined(Joined(r, s), a) \in IdText
    <2>1. Joined(r, s) \in IdText
      BY PartsInOrder DEF IsText
    <2> QED
      BY <2>1, PartsInOrder DEF IsText
  <1>2. PICK t : t = Joined(Joined(r, s), a)
    OBVIOUS
  <1>3. Build!ScopedIdempotencyKey(r, s, a) = [text |-> t, mac |-> <<signingKey, t>>]
    BY <1>2, Zenon DEF Build!ScopedIdempotencyKey, Joined
  <1> QED
    BY <1>1, <1>2, <1>3 DEF EmitKeys

LEMMA CreateCarries ==
    ASSUME Carried, NEW id \in IdText, Len(id) = 1, NEW key \in EmitKeys,
           NEW t \in {"none", "caller"}, Build!CreateContext(id, key, t)
    PROVE  Carried'
  <1>1. PICK new : new = [runId |-> id, key |-> key, trace |-> t,
                          cell |-> Len(cells) + 1, root |-> Len(contexts) + 1,
                          emits |-> <<>>, from |-> 0]
    OBVIOUS
  <1>2. new \in ContextSet
    BY <1>1 DEF ContextSet, Carried, ContextTyped
  <1>3. Keyed(new) /\ Arrived(new)
    BY <1>1 DEF Keyed, Arrived
  <1>4. /\ contexts' = Append(contexts, new) /\ UNCHANGED <<attached, propagator, signingKey>>
        /\ cells' = Append(cells, cells[1])
        /\ new.cell = Len(cells) + 1 /\ new.root = Len(contexts) + 1
        /\ new.from \in 0..Len(contexts)
    BY <1>1 DEF Build!CreateContext, Carried, ContextTyped
  <1> QED
    BY <1>2, <1>3, <1>4, CarriedWhenAdded

LEMMA DeriveCarries ==
    ASSUME Carried, NEW i \in 1..Len(contexts), NEW serve \in IdText, NEW atom_ \in IdText,
           Len(atom_) = 1, Build!DeriveAtomCtx(i, serve, atom_)
    PROVE  Carried'
  <1>1. PICK p, key : p = contexts[i] /\ key = Build!ScopedIdempotencyKey(p.runId, serve, atom_)
    OBVIOUS
  <1>2. PICK new : new = [p EXCEPT !.key = key, !.emits = <<p.runId, serve, atom_>>, !.from = 0]
    OBVIOUS
  <1>3. p \in ContextSet /\ Keyed(p)
    BY <1>1 DEF Carried, ContextTyped
  <1>4. p.runId \in IdText /\ Len(p.runId) = 1
    BY <1>3 DEF ContextSet, Keyed
  <1>5. key \in EmitKeys
    BY <1>1, <1>4, ScopedKey DEF Carried, ContextTyped
  <1>6. new \in ContextSet
    <2>1. /\ p.trace \in {"none", "caller"} /\ p.cell \in Nat /\ p.root \in Nat
          /\ new = [runId |-> p.runId, key |-> key, trace |-> p.trace, cell |-> p.cell,
                    root |-> p.root, emits |-> <<p.runId, serve, atom_>>, from |-> 0]
      BY <1>2, <1>3 DEF ContextSet
    <2>2. <<p.runId, serve, atom_>> \in Seq(IdText)
      BY <1>4
    <2>3. PICK e : e = <<p.runId, serve, atom_>>
      OBVIOUS
    <2>4. new = [runId |-> p.runId, key |-> key, trace |-> p.trace, cell |-> p.cell,
                 root |-> p.root, emits |-> e, from |-> 0] /\ e \in Seq(IdText)
      BY <2>1, <2>2, <2>3
    <2> QED
      BY <1>4, <1>5, <2>1, <2>4 DEF ContextSet
  <1>7. /\ new.emits = <<p.runId, serve, atom_>> /\ new.key = key /\ new.from = 0
        /\ new.runId = p.runId /\ new.cell = p.cell /\ new.root = p.root
    BY <1>2, <1>3 DEF ContextSet
  <1>8. Keyed(new) /\ Arrived(new)
    BY <1>1, <1>4, <1>7 DEF Keyed, Arrived
  <1>9. /\ contexts' = Append(contexts, new)
        /\ UNCHANGED <<cells, attached, propagator, signingKey>>
    BY <1>1, <1>2 DEF Build!DeriveAtomCtx
  <1>10. /\ \E j \in 1..Len(contexts) :
               new.cell = contexts[j].cell /\ new.root = contexts[j].root
         /\ new.from \in 0..Len(contexts)
    BY <1>1, <1>7 DEF Carried, ContextTyped
  <1> QED
    BY <1>6, <1>8, <1>9, <1>10, CarriedWhenAdded

LEMMA CrossCarries ==
    ASSUME Carried, NEW i \in 1..Len(contexts), NEW j \in 1..Len(contexts), Build!CrossWire(i, j)
    PROVE  Carried'
  <1>1. PICK p, q : p = contexts[i] /\ q = contexts[j]
    OBVIOUS
  <1>2. /\ p \in ContextSet /\ Keyed(p) /\ q \in ContextSet /\ Keyed(q)
        /\ propagator \in BOOLEAN /\ i \in Nat /\ Len(contexts) \in Nat
    BY <1>1 DEF Carried, ContextTyped
  <1>3. PICK t, key, e :
          /\ t = IF propagator THEN p.trace ELSE "none"
          /\ key = IF p.key # Build!NoKey THEN p.key ELSE q.key
          /\ e = IF p.key # Build!NoKey THEN p.emits ELSE q.emits
    OBVIOUS
  <1>4. PICK new : new = [q EXCEPT !.trace = t, !.key = key, !.from = i, !.emits = e]
    OBVIOUS
  <1>5. contexts' = Append(contexts, new)
    <2>1. Build!InjectWireContext(Build!ExtractWireContext(p), q) =
             [q EXCEPT !.trace = t, !.key = key]
      BY <1>3 DEF Build!InjectWireContext, Build!ExtractWireContext, Build!NoTrace
    <2>2. contexts[IF p.key # Build!NoKey THEN i ELSE j].emits = e
      BY <1>1, <1>3
    <2>3. [[q EXCEPT !.trace = t, !.key = key] EXCEPT !.from = i, !.emits = e] = new
      BY <1>2, <1>4 DEF ContextSet
    <2>4. contexts' = Append(contexts,
             [Build!InjectWireContext(Build!ExtractWireContext(p), q) EXCEPT
                 !.from = i, !.emits = contexts[IF p.key # Build!NoKey THEN i ELSE j].emits])
      BY <1>1 DEF Build!CrossWire
    <2> QED
      BY <2>1, <2>2, <2>3, <2>4
  <1>6. UNCHANGED <<cells, attached, propagator, signingKey>>
    BY DEF Build!CrossWire
  <1>7. /\ new \in ContextSet
        /\ new.emits = e /\ new.key = key /\ new.from = i /\ new.trace = t
        /\ new.runId = q.runId /\ new.cell = q.cell /\ new.root = q.root
    <2>1. /\ q.runId \in IdText /\ q.cell \in Nat /\ q.root \in Nat
          /\ new = [runId |-> q.runId, key |-> key, trace |-> t, cell |-> q.cell,
                    root |-> q.root, emits |-> e, from |-> i]
      BY <1>2, <1>4 DEF ContextSet
    <2>2. key \in EmitKeys /\ e \in Seq(IdText) /\ t \in {"none", "caller"}
      BY <1>2, <1>3 DEF ContextSet
    <2> QED
      BY <1>2, <2>1, <2>2 DEF ContextSet
  <1>8. Keyed(new)
    <2>1. CASE p.key # Build!NoKey
      BY <1>2, <1>3, <1>7, <2>1 DEF Keyed
    <2>2. CASE p.key = Build!NoKey
      BY <1>2, <1>3, <1>7, <2>2 DEF Keyed
    <2> QED
      BY <2>1, <2>2
  <1>9. Arrived(new)
    BY <1>1, <1>3, <1>7 DEF Arrived
  <1>10. /\ \E k \in 1..Len(contexts) :
               new.cell = contexts[k].cell /\ new.root = contexts[k].root
         /\ new.from \in 0..Len(contexts)
    BY <1>1, <1>2, <1>7
  <1> QED
    BY <1>5, <1>6, <1>7, <1>8, <1>9, <1>10, CarriedWhenAdded

LEMMA AttachCarries ==
    ASSUME Carried, NEW i \in 1..Len(contexts), NEW name \in {"x", "y"},
           Build!AttachMetadata(i, name)
    PROVE  Carried'
  <1>1. PICK l, n, m, c : l = Len(contexts) /\ n = Len(cells) /\ m = Len(attached)
                          /\ c = contexts[i].cell
    OBVIOUS
  <1>2. /\ ContextTyped /\ l \in Nat /\ n \in Nat /\ m \in Nat
        /\ contexts \in Seq(ContextSet) /\ cells \in Seq(SUBSET {"given", "x", "y"})
        /\ attached \in Seq([by : Nat, name : {"x", "y"}])
        /\ DOMAIN attached = 1..m /\ DOMAIN cells = 1..n
    BY <1>1 DEF Carried, ContextTyped
  <1>3. /\ contexts' = contexts /\ propagator' = propagator /\ signingKey' = signingKey
        /\ cells' = [cells EXCEPT ![c] = @ \cup {name}]
        /\ attached' = Append(attached, [by |-> i, name |-> name])
    BY <1>1 DEF Build!AttachMetadata
  <1>4. c \in 2..n /\ i \in 1..l
    BY <1>1 DEF Carried
  <1>5. PICK new : new = [by |-> i, name |-> name]
    OBVIOUS
  <1>6. /\ attached' = Append(attached, new) /\ new.by = i /\ new.name = name
        /\ new \in [by : Nat, name : {"x", "y"}]
    BY <1>2, <1>3, <1>4, <1>5
  <1>7. /\ attached' \in Seq([by : Nat, name : {"x", "y"}]) /\ Len(attached') = m + 1
        /\ attached'[m + 1] = new /\ \A k \in 1..m : attached'[k] = attached[k]
        /\ DOMAIN attached' = 1..(m + 1)
    BY <1>1, <1>2, <1>6
  <1>8. /\ cells' \in Seq(SUBSET {"given", "x", "y"}) /\ Len(cells') = n
        /\ cells'[c] = cells[c] \cup {name}
        /\ \A k \in 1..n : k # c => cells'[k] = cells[k]
    <2>1. c \in 1..n
      BY <1>2, <1>4
    <2>2. cells[c] \cup {name} \in SUBSET {"given", "x", "y"}
      BY <1>1, <1>2, <2>1
    <2>3. PICK more : more = cells[c] \cup {name}
      OBVIOUS
    <2>4. cells' = [cells EXCEPT ![c] = more] /\ more \in SUBSET {"given", "x", "y"}
      BY <1>3, <2>2, <2>3
    <2> QED
      BY <1>1, <1>2, <2>1, <2>3, <2>4
  <1>9. ContextTyped'
    BY <1>1, <1>2, <1>3, <1>7, <1>8 DEF ContextTyped
  <1>10. ASSUME NEW root
         PROVE  NamesOf(root)' = IF root = contexts[i].root THEN NamesOf(root) \cup {name}
                                 ELSE NamesOf(root)
    <2>1. /\ \A k \in 1..m : attached'[k] = attached[k]
          /\ attached'[m + 1] = new /\ m + 1 \notin 1..m
          /\ \A k \in 1..(m + 1) : k \in 1..m \/ k = m + 1
          /\ \A k \in 1..m : k \in 1..(m + 1)
          /\ m + 1 \in 1..(m + 1)
      BY <1>2, <1>7
    <2>2. PICK next, top, r : next = attached' /\ top = m + 1 /\ r = contexts[i].root
      OBVIOUS
    <2>3. \A x : x \in NamesOf(root) <=>
             \E k \in 1..m : contexts[attached[k].by].root = root /\ x = attached[k].name
      BY <1>2 DEF NamesOf
    <2>4. PICK names : names = NamesOf(root)'
      OBVIOUS
    <2>5. names = {next[k].name : k \in {k \in 1..top : contexts[next[k].by].root = root}}
      <3>1. NamesOf(root)' =
               {attached'[k].name : k \in {k \in DOMAIN attached' : contexts'[attached'[k].by].root = root}}
        BY DEF NamesOf
      <3> QED
        BY <1>3, <1>7, <2>2, <2>4, <3>1
    <2>6. \A x : x \in names <=>
             \E k \in 1..top : contexts[next[k].by].root = root /\ x = next[k].name
      BY <2>5
    <2>7. /\ \A k \in 1..m : next[k] = attached[k] /\ k \in 1..top
          /\ next[top].by = i /\ next[top].name = name /\ top \in 1..top
          /\ \A k \in 1..top : k \in 1..m \/ k = top
      BY <1>6, <2>1, <2>2
    <2>8. \A x : x \in names <=> x \in NamesOf(root) \/ (r = root /\ x = name)
      <3>1. ASSUME NEW x, x \in names PROVE x \in NamesOf(root) \/ (r = root /\ x = name)
        <4>1. PICK k \in 1..top : contexts[next[k].by].root = root /\ x = next[k].name
          BY <2>6, <3>1, Zenon
        <4>2. CASE k \in 1..m
          BY <2>3, <2>7, <4>1, <4>2, Zenon
        <4>3. CASE k = top
          BY <2>2, <2>7, <4>1, <4>3
        <4> QED
          BY <2>7, <4>2, <4>3, Zenon
      <3>2. ASSUME NEW x, x \in NamesOf(root) PROVE x \in names
        <4>1. PICK k \in 1..m : contexts[attached[k].by].root = root /\ x = attached[k].name
          BY <2>3, <3>2, Zenon
        <4>2. k \in 1..top /\ contexts[next[k].by].root = root /\ x = next[k].name
          BY <2>7, <4>1, Zenon
        <4> QED
          BY <2>6, <4>2, Zenon
      <3>3. r = root => name \in names
        BY <2>2, <2>6, <2>7
      <3> QED
        BY <3>1, <3>2, <3>3, Zenon
    <2> QED
      BY <2>2, <2>4, <2>8
  <1>11. ASSUME NEW k \in 1..l
         PROVE  /\ Keyed(contexts[k])' /\ Arrived(contexts[k])'
                /\ cells'[contexts[k].cell] = {"given"} \cup NamesOf(contexts[k].root)'
    <2>1. /\ Keyed(contexts[k]) /\ Arrived(contexts[k])
          /\ contexts[k].cell \in 2..n /\ c = contexts[i].cell
          /\ cells[contexts[k].cell] = {"given"} \cup NamesOf(contexts[k].root)
          /\ contexts[k].cell = contexts[i].cell <=> contexts[k].root = contexts[i].root
      BY <1>1, <1>4 DEF Carried
    <2>2. Keyed(contexts[k])' /\ Arrived(contexts[k])'
      BY <1>3, <2>1 DEF Keyed, Arrived, Build!ScopedIdempotencyKey, Build!NoKey
    <2>3. contexts[k].cell \in 1..n
      BY <1>2, <2>1
    <2> QED
      BY <1>3, <1>8, <1>10, <2>1, <2>2, <2>3
  <1>12. \A k \in 1..(m + 1) : attached'[k].by \in 1..l
    <2>1. \A k \in 1..m : attached[k].by \in 1..l
      BY <1>1 DEF Carried
    <2> QED
      BY <1>2, <1>4, <1>6, <1>7, <2>1
  <1>13. cells'[1] = {"given"}
    <2>1. 1 \in 1..n /\ 1 # c
      BY <1>2, <1>4
    <2>2. cells[1] = {"given"}
      BY DEF Carried
    <2> QED
      BY <1>8, <2>1, <2>2, Zenon
  <1>14. /\ \A k \in 1..l : /\ contexts[k].from < k /\ contexts[k].cell \in 2..n
                             /\ contexts[k].root \in 1..l
         /\ \A k, j \in 1..l :
              contexts[k].cell = contexts[j].cell <=> contexts[k].root = contexts[j].root
    BY <1>1 DEF Carried
  <1>15. Len(contexts)' = l /\ Len(cells)' = n /\ Len(attached)' = m + 1
    BY <1>1, <1>3, <1>7, <1>8
  <1>16. /\ \A k \in 1..Len(contexts') :
              /\ Keyed(contexts[k])' /\ Arrived(contexts[k])' /\ contexts'[k].from < k
              /\ contexts'[k].cell \in 2..Len(cells') /\ contexts'[k].root \in 1..Len(contexts')
              /\ cells'[contexts'[k].cell] = {"given"} \cup NamesOf(contexts[k].root)'
         /\ \A k, j \in 1..Len(contexts') :
              contexts'[k].cell = contexts'[j].cell <=> contexts'[k].root = contexts'[j].root
         /\ \A k \in 1..Len(attached') : attached'[k].by \in 1..Len(contexts')
    <2>1. \A k \in 1..Len(contexts') : Keyed(contexts[k])' /\ Arrived(contexts[k])'
      BY <1>11, <1>15, Zenon
    <2>2. \A k \in 1..Len(contexts') :
             cells'[contexts'[k].cell] = {"given"} \cup NamesOf(contexts[k].root)'
      BY <1>3, <1>11, <1>15, Zenon
    <2>3. \A k \in 1..Len(contexts') :
             /\ contexts'[k].from < k
             /\ contexts'[k].cell \in 2..Len(cells') /\ contexts'[k].root \in 1..Len(contexts')
      BY <1>3, <1>14, <1>15
    <2>4. \A k, j \in 1..Len(contexts') :
             contexts'[k].cell = contexts'[j].cell <=> contexts'[k].root = contexts'[j].root
      BY <1>3, <1>14, <1>15
    <2>5. \A k \in 1..Len(attached') : attached'[k].by \in 1..Len(contexts')
      BY <1>12, <1>15
    <2> QED
      BY <2>1, <2>2, <2>3, <2>4, <2>5, Zenon
  <1> QED
    BY <1>9, <1>13, <1>16, Zenon DEF Carried

LEMMA CarriedNext ==
    ASSUME Carried, Build!ContextNext
    PROVE  Carried'
  <1>1. DOMAIN contexts = 1..Len(contexts) /\ Len(contexts) \in Nat
    BY DEF Carried, ContextTyped
  <1>2. /\ \A id \in RunIds \cup AtomIds : id \in IdText /\ Len(id) = 1
        /\ \A serve \in ServeIds : serve \in IdText
    BY ContextsAssumption DEF ContextsAssumption, IdText
  <1>3. Build!FreshId \in IdText /\ Len(Build!FreshId) = 1
    BY <1>1 DEF Build!FreshId, IdText
  <1>4. [text |-> Build!FreshId, mac |-> <<>>] \in EmitKeys
    BY <1>3 DEF EmitKeys
  <1>5. Build!NoKey \in EmitKeys
    <2>1. <<>> \in IdText
      BY DEF IdText
    <2> QED
      BY <2>1 DEF EmitKeys, Build!NoKey
  <1>6. ASSUME NEW t \in {Build!NoTrace, "caller"}, Build!RunComposer(t) \/ Build!HostRuns(t)
        PROVE  Carried'
    <2>1. t \in {"none", "caller"}
      BY DEF Build!NoTrace
    <2>2. CASE Build!RunComposer(t)
      BY <1>3, <1>4, <2>1, <2>2, CreateCarries DEF Build!RunComposer
    <2>3. CASE Build!HostRuns(t)
      <3>1. PICK id \in RunIds : Build!CreateContext(id, Build!NoKey, t)
        BY <2>3 DEF Build!HostRuns
      <3> QED
        BY <1>2, <1>5, <2>1, <3>1, CreateCarries
    <2> QED
      BY <1>6, <2>2, <2>3
  <1>7. ASSUME NEW i \in DOMAIN contexts, NEW serve \in ServeIds, NEW atom_ \in AtomIds,
               Build!DeriveAtomCtx(i, serve, atom_)
        PROVE  Carried'
    BY <1>1, <1>2, <1>7, DeriveCarries
  <1>8. ASSUME NEW i \in DOMAIN contexts, NEW j \in DOMAIN contexts, Build!CrossWire(i, j)
        PROVE  Carried'
    BY <1>1, <1>8, CrossCarries
  <1>9. ASSUME NEW i \in DOMAIN contexts, NEW name \in {"x", "y"}, Build!AttachMetadata(i, name)
        PROVE  Carried'
    BY <1>1, <1>9, AttachCarries
  <1> QED
    BY <1>6, <1>7, <1>8, <1>9 DEF Build!ContextNext, Build!Contexts

LEMMA CarriedStays == Carried /\ UNCHANGED contextVars => Carried'
  <1> SUFFICES ASSUME Carried, UNCHANGED contextVars PROVE Carried'
    OBVIOUS
  <1>2. /\ contexts' = contexts /\ cells' = cells /\ attached' = attached
        /\ propagator' = propagator /\ signingKey' = signingKey
    BY DEF contextVars
  <1>3. ContextTyped'
    BY <1>2 DEF Carried, ContextTyped
  <1>4. \A i \in 1..Len(contexts) :
          Keyed(contexts[i])' /\ Arrived(contexts[i])'
            /\ NamesOf(contexts[i].root)' = NamesOf(contexts[i].root)
    <2>1. ASSUME NEW i \in 1..Len(contexts)
          PROVE  /\ Keyed(contexts[i])' /\ Arrived(contexts[i])'
                 /\ NamesOf(contexts[i].root)' = NamesOf(contexts[i].root)
      <3>1. Keyed(contexts[i]) /\ Arrived(contexts[i])
        BY DEF Carried
      <3>2. Keyed(contexts[i])'
        BY <1>2, <3>1 DEF Keyed, Build!ScopedIdempotencyKey
      <3>3. Arrived(contexts[i])'
        BY <1>2, <3>1 DEF Arrived, Build!NoKey
      <3>4. NamesOf(contexts[i].root)' = NamesOf(contexts[i].root)
        BY <1>2 DEF NamesOf
      <3> QED
        BY <3>2, <3>3, <3>4
    <2> QED
      BY <2>1
  <1>5. /\ \A i \in 1..Len(contexts') :
             /\ contexts'[i].from < i /\ contexts'[i].cell \in 2..Len(cells')
             /\ contexts'[i].root \in 1..Len(contexts')
        /\ \A i, j \in 1..Len(contexts') :
             contexts'[i].cell = contexts'[j].cell <=> contexts'[i].root = contexts'[j].root
        /\ \A m \in 1..Len(attached') : attached'[m].by \in 1..Len(contexts')
        /\ cells'[1] = {"given"}
    BY <1>2 DEF Carried
  <1>6. \A i \in 1..Len(contexts') : Keyed(contexts[i])' /\ Arrived(contexts[i])'
    BY <1>2, <1>4
  <1>7. \A i \in 1..Len(contexts') :
           cells'[contexts'[i].cell] = {"given"} \cup NamesOf(contexts[i].root)'
    <2>1. \A i \in 1..Len(contexts) :
             cells[contexts[i].cell] = {"given"} \cup NamesOf(contexts[i].root)
      BY DEF Carried
    <2> QED
      BY <1>2, <1>4, <2>1
  <1> QED
    BY <1>3, <1>5, <1>6, <1>7, Zenon DEF Carried

LEMMA CarriedArrives ==
    ASSUME Carried
    PROVE  Build!KeysNameEmits /\ Build!RunsSeeTheirOwn /\ Build!CrossingKeepsTrace
  <1>1. /\ DOMAIN contexts = 1..Len(contexts) /\ DOMAIN attached = 1..Len(attached)
        /\ \A i \in 1..Len(contexts) : contexts[i] \in ContextSet
    BY DEF Carried, ContextTyped
  <1>2. ASSUME NEW i \in DOMAIN contexts, contexts[i].emits # <<>>
        PROVE  \E r, s, a \in IdText :
                  /\ contexts[i].emits = <<r, s, a>> /\ Len(r) = 1 /\ Len(a) = 1
                  /\ contexts[i].key =
                        [text |-> Joined(Joined(r, s), a),
                         mac |-> <<signingKey, Joined(Joined(r, s), a)>>]
    <2>1. PICK c, e : c = contexts[i] /\ e = c.emits
      OBVIOUS
    <2>2. c \in ContextSet /\ Keyed(c) /\ e \in Seq(IdText)
      BY <1>1, <2>1 DEF Carried, ContextSet
    <2>3. Len(e) # 0
      BY <1>2, <2>1, <2>2
    <2>4. /\ Len(e) = 3 /\ Len(e[1]) = 1 /\ Len(e[3]) = 1
          /\ c.key = Build!ScopedIdempotencyKey(e[1], e[2], e[3])
      BY <2>1, <2>2, <2>3 DEF Keyed
    <2>5. e[1] \in IdText /\ e[2] \in IdText /\ e[3] \in IdText /\ e = <<e[1], e[2], e[3]>>
      <3>1. e[1] \in IdText /\ e[2] \in IdText /\ e[3] \in IdText
        BY <2>2, <2>4
      <3>2. PICK f : f = <<e[1], e[2], e[3]>>
        OBVIOUS
      <3>3. /\ f \in Seq(IdText) /\ Len(f) = Len(e)
            /\ f[1] = e[1] /\ f[2] = e[2] /\ f[3] = e[3]
        BY <2>4, <3>1, <3>2
      <3>4. \A k \in 1..Len(e) : k \in {1, 2, 3}
        BY <2>4
      <3>5. f = e
        BY <2>2, <3>3, <3>4, SeqEqual
      <3> QED
        BY <3>1, <3>2, <3>5
    <2>6. c.key = [text |-> Joined(Joined(e[1], e[2]), e[3]),
                   mac |-> <<signingKey, Joined(Joined(e[1], e[2]), e[3])>>]
      BY <2>4, Zenon DEF Build!ScopedIdempotencyKey, Joined
    <2> QED
      BY <2>1, <2>4, <2>5, <2>6
  <1>3. ASSUME NEW i \in DOMAIN contexts, NEW j \in DOMAIN contexts,
               contexts[i].emits # <<>>, contexts[j].emits # <<>>
        PROVE  contexts[i].key = contexts[j].key <=> contexts[i].emits = contexts[j].emits
    <2>1. PICK r, s, a \in IdText :
                  /\ contexts[i].emits = <<r, s, a>> /\ Len(r) = 1 /\ Len(a) = 1
                  /\ contexts[i].key =
                        [text |-> Joined(Joined(r, s), a),
                         mac |-> <<signingKey, Joined(Joined(r, s), a)>>]
      BY <1>2, <1>3
    <2>2. PICK q, t, b \in IdText :
                  /\ contexts[j].emits = <<q, t, b>> /\ Len(q) = 1 /\ Len(b) = 1
                  /\ contexts[j].key =
                        [text |-> Joined(Joined(q, t), b),
                         mac |-> <<signingKey, Joined(Joined(q, t), b)>>]
      BY <1>2, <1>3
    <2>3. PICK one, two : one = Joined(Joined(r, s), a) /\ two = Joined(Joined(q, t), b)
      OBVIOUS
    <2>4. contexts[i].key = contexts[j].key <=> one = two
      BY <2>1, <2>2, <2>3
    <2>5. one = two => r = q /\ s = t /\ a = b
      <3>1. ASSUME one = two PROVE r = q /\ s = t /\ a = b
        <4>1. Joined(Joined(r, s), a) = Joined(Joined(q, t), b)
          BY <2>3, <3>1
        <4>2. Len(r) = 1 /\ Len(a) = 1 /\ Len(q) = 1 /\ Len(b) = 1
          BY <2>1, <2>2
        <4> QED
          BY <4>1, <4>2, TextsApart
      <3> QED
        BY <3>1
    <2>6. <<r, s, a>> = <<q, t, b>> <=> r = q /\ s = t /\ a = b
      OBVIOUS
    <2>7. r = q /\ s = t /\ a = b => one = two
      BY <2>3
    <2> QED
      BY <2>1, <2>2, <2>4, <2>5, <2>6, <2>7
  <1>4. Build!KeysNameEmits
    BY <1>3, Zenon DEF Build!KeysNameEmits, Build!Contexts
  <1>5. Build!RunsSeeTheirOwn
    BY <1>1 DEF Carried, Build!RunsSeeTheirOwn, Build!Contexts, NamesOf
  <1>6. Build!CrossingKeepsTrace
    BY <1>1 DEF Carried, Arrived, Build!CrossingKeepsTrace, Build!Contexts, Build!NoKey
  <1> QED
    BY <1>4, <1>5, <1>6

-----------------------------------------------------------------------------
\* Whatever the bounds on pipelines, stages and runs, and however pipelines are
\* continued from one another, each describes the calls that built it and each
\* of its runs has their steps after the source, with the retries and limits
\* they declared, and sends within a window no more than the limit (pipeline.ts
\* 23-179, reviewable-to-process.ts 6-10, define-pipeline.ts 70-98). However
\* many contexts there are, and whatever wires they cross, two tries have one
\* key iff they emit one atom at one serve in one run, although ids of serves
\* may have colons in them; the views of a run share what is attached to it,
\* and no others do; and with a propagator the trace and the key arrive
\* (pipeline-context.ts, idempotency.ts, serializable-context.ts).
THEOREM RunsWhatWasBuiltAlways == Spec => []RunsWhatWasBuilt
  <1>1. Init => Built /\ Carried
    BY BuildStarts, CarriedAtFirst DEF Init, IdleContexts
  <1>2. Built /\ [Next]_vars => Built'
    BY PartSteps, BuildStep
  <1>3. Carried /\ [Next]_vars => Carried'
    BY PartSteps, CarriedNext, CarriedStays
  <1>4. Built /\ Carried => RunsWhatWasBuilt
    BY BuiltRuns, CarriedArrives DEF RunsWhatWasBuilt
  <1> QED
    BY <1>1, <1>2, <1>3, <1>4, PTL DEF Spec

-----------------------------------------------------------------------------
(***************************************************************************)
(* RuleStages.                                                             *)
(***************************************************************************)
\* The order of three rules is one of the six there are, and Sorted is in it.
LEMMA SortedThree ==
    ASSUME NEW rules, DOMAIN rules = 1..3, \A i \in 1..3 : rules[i].priority \in Int
    PROVE  \E g \in [1..3 -> 1..3] :
               /\ \A i \in 1..3 : \E m \in 1..3 : g[m] = i
               /\ \A m, n \in 1..3 : m < n => Rules!Before(rules, g[m], g[n])
               /\ \A k \in 1..3 : Rules!Sorted(rules)[k] = rules[g[k]]
  <1> DEFINE B(i, j) == Rules!Before(rules, i, j)
             earlier(i) == {j \in DOMAIN rules : B(j, i)}
             rank(i) == Rules!Cardinality(earlier(i)) + 1
  <1>1. PICK a \in 1..3, b \in 1..3, c \in 1..3 :
          /\ a # b /\ b # c /\ a # c /\ B(a, b) /\ B(b, c) /\ B(a, c)
          /\ ~B(a, a) /\ ~B(b, b) /\ ~B(c, c) /\ ~B(b, a) /\ ~B(c, b) /\ ~B(c, a)
    <2> DEFINE p == [i \in 1..3 |-> rules[i].priority]
    <2>1. p[1] \in Int /\ p[2] \in Int /\ p[3] \in Int
      OBVIOUS
    <2>2. \A i, j \in 1..3 : B(i, j) <=> p[i] > p[j] \/ (p[i] = p[j] /\ i < j)
      BY DEF Rules!Before
    <2> HIDE DEF p, B
    <2>3. \A i, j \in 1..3 : i # j => (B(i, j) <=> ~B(j, i))
      BY <2>1, <2>2
    <2>4. \A i \in 1..3 : ~B(i, i)
      BY <2>1, <2>2
    <2>5. \A i, j, k \in 1..3 : B(i, j) /\ B(j, k) => B(i, k)
      BY <2>1, <2>2
    <2>6. 1 \in 1..3 /\ 2 \in 1..3 /\ 3 \in 1..3
      OBVIOUS
    <2>7. \/ B(1, 2) /\ B(2, 3) /\ B(1, 3)
          \/ B(1, 3) /\ B(3, 2) /\ B(1, 2)
          \/ B(2, 1) /\ B(1, 3) /\ B(2, 3)
          \/ B(2, 3) /\ B(3, 1) /\ B(2, 1)
          \/ B(3, 1) /\ B(1, 2) /\ B(3, 2)
          \/ B(3, 2) /\ B(2, 1) /\ B(3, 1)
      <3>1. /\ B(1, 2) <=> ~B(2, 1)
            /\ B(1, 3) <=> ~B(3, 1)
            /\ B(2, 3) <=> ~B(3, 2)
        BY <2>3, <2>6
      <3>2. /\ B(1, 2) /\ B(2, 3) => B(1, 3)
            /\ B(3, 2) /\ B(2, 1) => B(3, 1)
        BY <2>5, <2>6
      <3> QED
        BY <3>1, <3>2
    <2>8. \A x, y, z \in 1..3 :
            x # y /\ y # z /\ x # z /\ B(x, y) /\ B(y, z) /\ B(x, z) =>
              ~B(x, x) /\ ~B(y, y) /\ ~B(z, z) /\ ~B(y, x) /\ ~B(z, y) /\ ~B(z, x)
      BY <2>3, <2>4
    <2> QED
      BY <2>6, <2>7, <2>8
  <1> HIDE DEF B
  <1>2. \A i \in 1..3 : i = a \/ i = b \/ i = c
    BY <1>1
  <1>3. earlier(a) = {} /\ earlier(b) = {a} /\ earlier(c) = {a, b}
    BY <1>1, <1>2
  <1>4. Cardinality({}) = 0 /\ Cardinality({a}) = 1 /\ Cardinality({a, b}) = 2
    <2>1. IsFiniteSet({a}) /\ Cardinality({a}) = 1
      BY FS_Singleton
    <2>2. b \notin {a} /\ {a, b} = {a} \cup {b}
      BY <1>1
    <2>3. Cardinality({a} \cup {b}) = Cardinality({a}) + 1
      BY <2>1, <2>2, FS_AddElement
    <2> QED
      BY <2>1, <2>2, <2>3, FS_EmptySet
  <1>5. /\ Rules!Cardinality({}) = Cardinality({}) /\ Rules!Cardinality({a}) = Cardinality({a})
        /\ Rules!Cardinality({a, b}) = Cardinality({a, b})
    BY DEF Rules!Cardinality, Cardinality
  <1>6. rank(a) = 1 /\ rank(b) = 2 /\ rank(c) = 3
    <2>1. /\ rank(a) = Rules!Cardinality({}) + 1 /\ rank(b) = Rules!Cardinality({a}) + 1
          /\ rank(c) = Rules!Cardinality({a, b}) + 1
      BY <1>3
    <2> HIDE DEF rank
    <2> QED
      BY <1>4, <1>5, <2>1
  <1> DEFINE g == [k \in 1..3 |-> IF k = 1 THEN a ELSE IF k = 2 THEN b ELSE c]
  <1>7. g \in [1..3 -> 1..3] /\ g[1] = a /\ g[2] = b /\ g[3] = c
    OBVIOUS
  <1>8. /\ Rules!Sorted(rules)[1] = rules[CHOOSE i \in 1..3 : rank(i) = 1]
        /\ Rules!Sorted(rules)[2] = rules[CHOOSE i \in 1..3 : rank(i) = 2]
        /\ Rules!Sorted(rules)[3] = rules[CHOOSE i \in 1..3 : rank(i) = 3]
    BY DEF Rules!Sorted, B
  <1> HIDE DEF rank, earlier, g
  <1>9. /\ (CHOOSE i \in 1..3 : rank(i) = 1) = a
        /\ (CHOOSE i \in 1..3 : rank(i) = 2) = b
        /\ (CHOOSE i \in 1..3 : rank(i) = 3) = c
    BY <1>2, <1>6
  <1>10. \A k \in 1..3 : Rules!Sorted(rules)[k] = rules[g[k]]
    <2>1. \A k \in 1..3 : k = 1 \/ k = 2 \/ k = 3
      OBVIOUS
    <2> QED
      BY <1>7, <1>8, <1>9, <2>1
  <1>11. \A i \in 1..3 : \E m \in 1..3 : g[m] = i
    BY <1>2, <1>7
  <1>12. \A m, n \in 1..3 : m < n => Rules!Before(rules, g[m], g[n])
    <2>1. \A m, n \in 1..3 : m < n => \/ m = 1 /\ n = 2
                                      \/ m = 2 /\ n = 3
                                      \/ m = 1 /\ n = 3
      OBVIOUS
    <2> QED
      BY <1>1, <1>7, <2>1 DEF B
  <1> QED
    BY <1>7, <1>10, <1>11, <1>12

Configs ==
    [rules : RuleSet \X RuleSet \X RuleSet, default : {"", "other"}, llm : BOOLEAN,
     mode : {"coerce", "strict"}, branches : SUBSET Categories, defaultBranch : {"", "c1"}]

\* Where a value has no category yet.
Routed ==
    /\ config \in Configs
    /\ at \in {"validate", "classify"} => category = ""
    /\ Rules!RightBranch

LEMMA ThreeRules ==
    ASSUME config \in Configs
    PROVE  /\ DOMAIN config.rules = 1..3
           /\ \A i \in 1..3 : config.rules[i] \in RuleSet /\ config.rules[i].priority \in Int
  <1>1. PICK x \in RuleSet, y \in RuleSet, z \in RuleSet : config.rules = <<x, y, z>>
    <2>1. config.rules \in RuleSet \X RuleSet \X RuleSet
      BY DEF Configs
    <2> QED
      BY <2>1
  <1>2. /\ x.priority \in Int /\ y.priority \in Int /\ z.priority \in Int
    BY RulesAssumption DEF RulesAssumption
  <1>3. DOMAIN config.rules = 1..3
    BY <1>1
  <1> QED
    BY <1>1, <1>2, <1>3

LEMMA RulesStart == ASSUME Rules!Init PROVE Routed
  <1>1. config \in Configs /\ at = "validate" /\ category = ""
    BY DEF Rules!Init, Configs
  <1>2. at \notin config.branches
    BY <1>1, RulesAssumption DEF RulesAssumption, Configs
  <1> QED
    BY <1>1, <1>2 DEF Routed, Rules!RightBranch

\* What the rules say of the category a value has.
ByRules(c) ==
    IF \E i \in 1..3 : Rules!evalRule(config.rules[i], input)
    THEN \E i \in 1..3 : Rules!Wins(i) /\ c = config.rules[i].category
    ELSE c = config.default

\* The first rule in the order they are tried is the one that wins.
LEMMA FirstWins ==
    ASSUME config \in Configs, Rules!Matching # {}
    PROVE  ByRules(Rules!Sorted(config.rules)[
                     CHOOSE i \in Rules!Matching : \A j \in Rules!Matching : i <= j].category)
  <1> DEFINE rules == config.rules
             M == Rules!Matching
             first == CHOOSE i \in M : \A j \in M : i <= j
  <1>1. DOMAIN rules = 1..3
    BY ThreeRules
  <1>2. \A i \in 1..3 : rules[i].priority \in Int
    BY ThreeRules
  <1>3. PICK g \in [1..3 -> 1..3] :
          /\ \A i \in 1..3 : \E m \in 1..3 : g[m] = i
          /\ \A m, n \in 1..3 : m < n => Rules!Before(rules, g[m], g[n])
          /\ \A k \in 1..3 : Rules!Sorted(rules)[k] = rules[g[k]]
    BY <1>1, <1>2, SortedThree
  <1>4. M = {i \in 1..3 : Rules!evalRule(rules[g[i]], input)}
    BY <1>3 DEF Rules!Matching
  <1> HIDE DEF M, rules
  <1>5. first \in M /\ \A j \in M : first <= j
    <2>1. \E i \in M : \A j \in M : i <= j
      <3>1. M \subseteq {1, 2, 3} /\ M # {}
        BY <1>4 DEF M
      <3>2. CASE 1 \in M
        BY <3>1, <3>2
      <3>3. CASE 1 \notin M /\ 2 \in M
        BY <3>1, <3>3
      <3>4. CASE 1 \notin M /\ 2 \notin M
        <4>1. M = {3}
          BY <3>1, <3>4
        <4> QED
          BY <4>1
      <3> QED
        BY <3>2, <3>3, <3>4
    <2> QED
      BY <2>1
  <1> HIDE DEF first
  <1>6. first \in 1..3 /\ g[first] \in 1..3 /\ Rules!evalRule(rules[g[first]], input)
    BY <1>4, <1>5
  <1>7. ASSUME NEW j \in 1..3, Rules!evalRule(rules[j], input)
        PROVE  /\ rules[j].priority <= rules[g[first]].priority
               /\ rules[j].priority = rules[g[first]].priority => g[first] <= j
    <2>1. PICK n \in 1..3 : g[n] = j
      BY <1>3
    <2>2. n \in M
      BY <1>4, <1>7, <2>1
    <2>3. first = n \/ first < n
      BY <1>5, <1>6, <2>2
    <2>4. g[first] = j \/ Rules!Before(rules, g[first], j)
      BY <1>3, <1>6, <2>1, <2>3
    <2> QED
      BY <1>2, <1>6, <2>4 DEF Rules!Before
  <1>8. Rules!Wins(g[first])
    BY <1>6, <1>7 DEF Rules!Wins, rules
  <1>9. Rules!Sorted(rules)[first].category = rules[g[first]].category
    BY <1>3, <1>6
  <1> QED
    BY <1>6, <1>8, <1>9 DEF ByRules, rules, first, M

LEMMA NoneMatches ==
    ASSUME config \in Configs, Rules!Matching = {}
    PROVE  \A i \in 1..3 : ~Rules!evalRule(config.rules[i], input)
  <1> DEFINE rules == config.rules
  <1>1. DOMAIN rules = 1..3
    BY ThreeRules
  <1>2. \A i \in 1..3 : rules[i].priority \in Int
    BY ThreeRules
  <1>3. PICK g \in [1..3 -> 1..3] :
          /\ \A i \in 1..3 : \E m \in 1..3 : g[m] = i
          /\ \A m, n \in 1..3 : m < n => Rules!Before(rules, g[m], g[n])
          /\ \A k \in 1..3 : Rules!Sorted(rules)[k] = rules[g[k]]
    BY <1>1, <1>2, SortedThree
  <1>4. \A i \in 1..3 : ~Rules!evalRule(rules[g[i]], input)
    BY <1>3 DEF Rules!Matching
  <1> QED
    BY <1>3, <1>4

\* A value that is at one of the stages, or failed, is in no branch.
LEMMA PlacesApart ==
    ASSUME config \in Configs
    PROVE  /\ config.branches \subseteq Categories
           /\ \A x \in {"validate", "classify", "route", "schema_parse_failed",
                        "schema_coerce_failed", "classify_no_match", "extract_error",
                        "predicate_error", "throws", "route_no_branch"} : x \notin config.branches
  BY RulesAssumption DEF RulesAssumption, Configs

LEMMA RulesStep == ASSUME Routed, Rules!Next PROVE Routed'
  <1>1. config \in Configs /\ UNCHANGED <<config, input>>
    BY DEF Routed, Rules!Next, Rules!Validate, Rules!Classify, Rules!ClassifyByModel, Rules!Route
  <1>2. category # "" /\ ~config.llm => ByRules(category)
    BY DEF Routed, Rules!RightBranch, ByRules, Rules!Wins
  <1>3. ASSUME category' # "" /\ ~config.llm => ByRules(category'),
               at' \in {"validate", "classify"} => category' = "",
               at' \in config.branches => at' = category' \/ (category' \notin config.branches
                                                              /\ at' = config.defaultBranch),
               at' = "throws" => category' \in Rules!Inherited \ config.branches,
               at' = "route_no_branch" => /\ category' \notin config.branches
                                          /\ config.defaultBranch \notin config.branches
        PROVE  Routed'
    BY <1>1, <1>3 DEF Routed, Rules!RightBranch, ByRules, Rules!Wins
  <1>4. ASSUME NEW parsed \in {"same", "copied", "changed", "bad"}, Rules!Validate(parsed)
        PROVE  Routed'
    <2>1. /\ at' \in {"classify", "schema_parse_failed", "schema_coerce_failed"}
          /\ category' = category /\ category = ""
      BY <1>4 DEF Rules!Validate, Routed
    <2> QED
      BY <1>1, <1>3, <2>1, PlacesApart
  <1>5. CASE Rules!Classify
    <2>1. CASE Rules!ClassifyFirst
      BY <1>1, <1>3, <2>1, FirstWins, PlacesApart DEF Rules!ClassifyFirst
    <2>2. CASE Rules!ClassifyDefault
      BY <1>1, <1>3, <2>2, NoneMatches, PlacesApart DEF Rules!ClassifyDefault, ByRules
    <2>3. CASE Rules!ClassifyNothing
      BY <1>1, <1>2, <1>3, <2>3, PlacesApart DEF Rules!ClassifyNothing
    <2> QED
      BY <1>5, <2>1, <2>2, <2>3 DEF Rules!Classify
  <1>6. ASSUME NEW extracted \in Categories \cup {"fails"}, Rules!ClassifyByModel(extracted)
        PROVE  Routed'
    BY <1>1, <1>3, <1>6, PlacesApart DEF Rules!ClassifyByModel
  <1>7. ASSUME NEW throws \in BOOLEAN, Rules!Route(throws) PROVE Routed'
    <2>1. category' = category /\ at' = IF throws THEN "predicate_error" ELSE Rules!Branch(category)
      BY <1>7 DEF Rules!Route
    <2>2. CASE throws
      BY <1>1, <1>2, <1>3, <2>1, <2>2, PlacesApart
    <2>3. CASE ~throws
      BY <1>1, <1>2, <1>3, <2>1, <2>3, PlacesApart DEF Rules!Branch
    <2> QED
      BY <2>2, <2>3
  <1> QED
    BY <1>4, <1>5, <1>6, <1>7 DEF Rules!Next

\* Whatever rules and branches there are, a value that classify gives a category
\* by its rules has that of a rule that matches it, that no matching rule
\* outranks and no earlier one equals, or the default where none matches; and
\* it reaches the branch of its category wherever there is one (classify-
\* process.ts 43-119, route-process.ts 11-43).
THEOREM RightBranchAlways == Spec => []RightBranch
  <1> DEFINE I == part = "rules" => Routed
  <1>1. Init => I
    BY RulesStart DEF Init
  <1>2. I /\ [Next]_vars => I'
    <2> SUFFICES ASSUME I, [Next]_vars, part' = "rules" PROVE Routed'
      OBVIOUS
    <2>1. part = "rules" /\ Routed
      BY PartSteps
    <2>2. CASE UNCHANGED rulesVars
      BY <2>1, <2>2 DEF rulesVars, Routed, Rules!RightBranch, Rules!Wins
    <2>3. CASE Rules!Next
      BY <2>1, <2>3, RulesStep
    <2> QED
      BY <2>2, <2>3, PartSteps
  <1>3. I => RightBranch
    BY DEF RightBranch, Routed
  <1> QED
    BY <1>1, <1>2, <1>3, PTL DEF Spec

-----------------------------------------------------------------------------
(***************************************************************************)
(* ExtractRun: what is sent.                                               *)
(***************************************************************************)
\* A schema is a tree: above each of its nodes there are nodes.
LEMMA SchemasAreTrees ==
    ASSUME NEW paths \in Extract!Shapes, NEW s \in Extract!Trees(paths)
    PROVE  \A p \in DOMAIN s : /\ s[p] \in Extract!Node(Extract!Inner \cup {"leaf"})
                               /\ Extract!Above(p) \subseteq DOMAIN s
  <1>2. PICK inner \in [Extract!Over(paths) -> Extract!Node(Extract!Inner)],
             leaf \in [paths \ Extract!Over(paths) -> Extract!Node({"leaf"})] :
          s = [p \in paths |-> IF p \in Extract!Over(paths) THEN inner[p] ELSE leaf[p]]
    BY DEF Extract!Trees
  <1>3. \A p \in paths : Extract!Above(p) \subseteq paths
    BY DEF Extract!Shapes
  <1>4. \A p \in Extract!Over(paths) : inner[p] \in Extract!Node(Extract!Inner)
    BY <1>2
  <1>5. \A p \in paths \ Extract!Over(paths) : leaf[p] \in Extract!Node({"leaf"})
    BY <1>2
  <1>6. ASSUME NEW p \in paths PROVE s[p] \in Extract!Node(Extract!Inner \cup {"leaf"})
    <2>1. Extract!Node(Extract!Inner) \subseteq Extract!Node(Extract!Inner \cup {"leaf"})
          /\ Extract!Node({"leaf"}) \subseteq Extract!Node(Extract!Inner \cup {"leaf"})
      BY DEF Extract!Node
    <2> QED
      BY <1>2, <1>4, <1>5, <2>1
  <1> QED
    BY <1>2, <1>3, <1>6

LEMMA SentIsStrict ==
    ASSUME NEW paths \in Extract!Shapes, NEW s \in Extract!Trees(paths),
           NEW t, t = Extract!applyStrictMode(s)
    PROVE  Extract!Strict(t) /\ Extract!SameBut(t, s) /\ Extract!applyStrictMode(t) = t
  <1> DEFINE Made(n) == [n EXCEPT !.default = FALSE, !.closed = @ \/ n.kind = "object"]
  <1>1. /\ DOMAIN t = DOMAIN s
        /\ \A p \in DOMAIN s : t[p] = IF Extract!Reaches(s, p) THEN Made(s[p]) ELSE s[p]
    BY DEF Extract!applyStrictMode
  <1>2. ASSUME NEW n \in Extract!Node(Extract!Inner \cup {"leaf"})
        PROVE  /\ Made(n).kind = n.kind /\ Extract!StrictNode(Made(n)) /\ Made(Made(n)) = Made(n)
    BY DEF Extract!Node, Extract!StrictNode
  <1>3. \A p \in DOMAIN s : s[p] \in Extract!Node(Extract!Inner \cup {"leaf"})
    BY SchemasAreTrees
  <1>4. \A p \in DOMAIN s : Extract!Above(p) \subseteq DOMAIN s
    BY SchemasAreTrees
  <1> HIDE DEF Made
  <1>5. \A p \in DOMAIN s : t[p].kind = s[p].kind
    BY <1>1, <1>2, <1>3
  <1>6. \A p \in DOMAIN s : Extract!Reaches(t, p) <=> Extract!Reaches(s, p)
    BY <1>4, <1>5 DEF Extract!Reaches
  <1>7. Extract!Strict(t)
    BY <1>1, <1>2, <1>3, <1>6 DEF Extract!Strict
  <1>8. Extract!SameBut(t, s)
    BY <1>1, <1>5 DEF Extract!SameBut
  <1>9. Extract!applyStrictMode(t) = t
    <2>1. Extract!applyStrictMode(t) =
            [p \in DOMAIN t |-> IF Extract!Reaches(t, p) THEN Made(t[p]) ELSE t[p]]
      BY DEF Extract!applyStrictMode, Made
    <2>2. \A p \in DOMAIN t : Extract!Reaches(t, p) => Made(t[p]) = t[p]
      BY <1>1, <1>2, <1>3, <1>6
    <2>3. t = [p \in DOMAIN t |-> t[p]]
      BY DEF Extract!applyStrictMode
    <2> QED
      BY <2>1, <2>2, <2>3
  <1> QED
    BY <1>7, <1>8, <1>9

Sent ==
    /\ \E paths \in Extract!Shapes : schema \in Extract!Trees(paths)
    /\ strict = Extract!None \/ strict = Extract!applyStrictMode(schema)

LEMMA SentStep == ASSUME Sent, Extract!StrictNext PROVE Sent'
  BY DEF Sent, Extract!StrictNext, Extract!Transform, Extract!applyStrictMode, Extract!Reaches

-----------------------------------------------------------------------------
(***************************************************************************)
(* ExtractRun: the two runs.                                               *)
(***************************************************************************)
\* What a runtime makes of an answer, of provider p with a schema that fits {}
\* or does not.
Raw(l, a, p, e) ==
    IF l = "py" THEN Extract!RawPy(a)
    ELSE CASE a.what = "throws"  -> Extract!Thrown(a.status, a.words,
                                          IF a.as = "value" THEN "value" ELSE "")
           [] a.what = "missing" -> Extract!Thrown(0, a.words, "")
           [] a.what = "json"    -> Extract!Parsed(a.fits)
           [] a.what \in {"text", "nothing"} /\ p = "openai"    -> Extract!callOpenAI(a)
           [] a.what \in {"text", "nothing"} /\ p = "anthropic" -> Extract!Parsed(e)
           [] a.what \in {"text", "nothing"} /\ p = "gemini"    -> Extract!callGemini(a)

LEMMA RawIs ==
    ASSUME NEW a
    PROVE  /\ Extract!RawTs(a) = Raw("ts", a, provider, emptyFits)
           /\ Extract!RawPy(a) = Raw("py", a, provider, emptyFits)
  BY DEF Raw, Extract!RawTs, Extract!callAnthropic

Misfit(raw) == ~raw.thrown /\ ~raw.fits
GivesUp(l) == IF l = "ts" THEN "schema_parse_exhausted" ELSE "schema_validation_failed"
CodeOf(l, raw) == IF l = "ts" THEN Extract!MapProviderError(raw)
                              ELSE Extract!map_provider_error(raw)

\* The four kinds of answers.
LEMMA AnswerKinds ==
    ASSUME NEW a \in Extract!Answers
    PROVE  \/ /\ a.what = "throws" /\ a.status \in Extract!Statuses
              /\ a.words \in SUBSET Extract!Words
           \/ a.what = "missing" /\ a.words \in {{}, {"resolve"}}
           \/ a.what = "text" /\ a.words \in {{}, {"rate"}}
           \/ a.what = "nothing"
           \/ a.what = "json" /\ a.fits \in BOOLEAN /\ a = [what |-> "json", fits |-> a.fits]
  <1>1. Extract!Few \subseteq SUBSET Extract!Words /\ Extract!One \subseteq SUBSET Extract!Words
    BY DEF Extract!Few, Extract!One
  <1>2. 0 \in Extract!Statuses
    BY DEF Extract!Statuses
  <1>3. ASSUME a \in Extract!Exceptions
        PROVE  a.what = "throws" /\ a.status \in Extract!Statuses /\ a.words \in SUBSET Extract!Words
    BY <1>1, <1>2, <1>3 DEF Extract!Exceptions
  <1> QED
    BY <1>3 DEF Extract!Answers

\* An answer that fits is one that says so, or Anthropic's without the tool.
LEMMA RawTypes ==
    ASSUME NEW a \in Extract!Answers, NEW l \in {"ts", "py"},
           NEW p \in Extract!Providers, NEW e \in BOOLEAN
    PROVE  /\ Raw(l, a, p, e).thrown \in BOOLEAN /\ Raw(l, a, p, e).fits \in BOOLEAN
           /\ ~Raw(l, a, p, e).thrown /\ Raw(l, a, p, e).fits =>
                \/ a = [what |-> "json", fits |-> TRUE]
                \/ l = "ts" /\ p = "anthropic" /\ e /\ a.what \in {"nothing", "text"}
  <1> DEFINE R == Raw(l, a, p, e)
  <1>1. CASE a.what = "throws"
    BY <1>1 DEF Raw, Extract!RawPy, Extract!Thrown
  <1>2. CASE a.what = "missing"
    BY <1>2 DEF Raw, Extract!RawPy, Extract!Thrown
  <1>3. CASE a.what = "json"
    <2>1. a.fits \in BOOLEAN /\ a = [what |-> "json", fits |-> a.fits]
      BY <1>3, AnswerKinds
    <2>2. R = Extract!Parsed(a.fits)
      BY <1>3 DEF Raw, Extract!RawPy
    <2>3. R.thrown = FALSE /\ R.fits = a.fits
      BY <2>2 DEF Extract!Parsed, Extract!Thrown
    <2> HIDE DEF R
    <2> QED
      BY <2>1, <2>3 DEF R
  <1>4. CASE a.what \in {"text", "nothing"} /\ l = "py"
    BY <1>4 DEF Raw, Extract!RawPy, Extract!Thrown
  <1>5. CASE a.what \in {"text", "nothing"} /\ l = "ts" /\ p = "anthropic"
    <2>1. R = Extract!Parsed(e)
      BY <1>5 DEF Raw
    <2>2. R.thrown = FALSE /\ R.fits = e
      BY <2>1 DEF Extract!Parsed, Extract!Thrown
    <2> HIDE DEF R
    <2> QED
      BY <1>5, <2>2 DEF R
  <1>6. CASE a.what \in {"text", "nothing"} /\ l = "ts" /\ p # "anthropic"
    BY <1>6 DEF Raw, Extract!callOpenAI, Extract!callGemini, Extract!Thrown, Extract!Providers
  <1> QED
    BY <1>1, <1>2, <1>3, <1>4, <1>5, <1>6, AnswerKinds

Codes ==
    {"", "content_filtered", "provider_not_installed", "rate_limited", "auth_failed",
     "network_error", "provider_error", "provider_unknown", "unknown_error", "api_error",
     "schema_parse_exhausted", "schema_validation_failed"}

\* A code for what was thrown is none of those for giving up.
LEMMA CodesApart ==
    ASSUME NEW raw, NEW l
    PROVE  CodeOf(l, raw) \in Codes \ {"schema_parse_exhausted", "schema_validation_failed"}
  BY DEF Codes, CodeOf, Extract!MapProviderError, Extract!map_provider_error

RunShape ==
    [phase : {"asked", "ok", "failed"}, calls : Nat, complains : Nat,
     spans : Seq({"ERROR", "OK"}), code : Codes]

\* What a run l made of the answers so far.
Raws(l) == [i \in 1..Len(heard) |-> Raw(l, heard[i], provider, emptyFits)]

\* A run that made s of the answers, when k retries are configured: it ends a
\* span for each of the n it heard. While it asks it has heard them all, and all
\* of them were misfits; once it has ended, all but the last one it heard were.
Spans(r, s, n) ==
    /\ Len(r.spans) = n
    /\ \A i \in 1..n : r.spans[i] = "ERROR" <=> s[i].thrown
Asks(r, s, k) ==
    /\ r.phase = "asked" /\ r.calls = Len(s) + 1 /\ Len(s) <= k
    /\ r.complains = Len(s) /\ r.code = ""
    /\ \A i \in 1..Len(s) : Misfit(s[i])
    /\ Spans(r, s, Len(s))
Ended(l, r, s, k) ==
    /\ r.phase \in {"ok", "failed"} /\ r.calls \in 1..Len(s)
    /\ \A i \in 1..(r.calls - 1) : Misfit(s[i])
    /\ Spans(r, s, r.calls)
    /\ r.phase = "ok" => ~s[r.calls].thrown /\ s[r.calls].fits
    /\ r.phase = "failed" =>
          IF Misfit(s[r.calls])
          THEN r.calls = k + 1 /\ r.code = GivesUp(l)
          ELSE r.code \notin {"schema_parse_exhausted", "schema_validation_failed"}
Follows(l, r, s, k) == r \in RunShape /\ (Asks(r, s, k) \/ Ended(l, r, s, k))

Configured ==
    /\ provider \in Extract!Providers /\ retries \in 0..MaxRetries
    /\ emptyFits \in BOOLEAN /\ heard \in Seq(Extract!Answers)

NoKey == provider = "gemini" /\ ~keyed

\* What the two runtimes read alike, of provider p.
Alike(a, p) ==
    /\ a.what = "throws" => /\ Extract!Cardinality(Extract!Causes(a)) <= 1 /\ a.as = "error"
                            /\ a.words \cap Extract!ReadApart = {}
    /\ a.what \in {"nothing", "text"} => p # "anthropic"
    /\ a.what = "text" => a.words = {}
    /\ a.what = "missing" => a.words # {}

Twins ==
    (\A i \in 1..Len(heard) : Alike(heard[i], provider)) /\ ~NoKey =>
        /\ runs.ts.phase = runs.py.phase /\ runs.ts.calls = runs.py.calls
        /\ <<runs.ts.code, runs.py.code>> \in Extract!SameEnd

Extracted ==
    /\ Configured /\ runs = [ts |-> runs["ts"], py |-> runs["py"]]
    /\ Follows("py", runs["py"], Raws("py"), retries)
    /\ IF NoKey THEN runs["ts"] = Extract!Refused
                ELSE Follows("ts", runs["ts"], Raws("ts"), retries)
    /\ Twins

LEMMA AskingFollows ==
    ASSUME NEW l, NEW k \in Nat, NEW s, Len(s) = 0
    PROVE  Follows(l, Extract!Asking, s, k)
  <1> DEFINE r == Extract!Asking
  <1>1. r = [phase |-> "asked", calls |-> 1, complains |-> 0, spans |-> <<>>, code |-> ""]
    BY DEF Extract!Asking
  <1>2. <<>> \in Seq({"ERROR", "OK"}) /\ Len(<<>>) = 0
    BY EmptySeq
  <1>3. r \in RunShape
    BY <1>1, <1>2 DEF RunShape, Codes
  <1>4. /\ r.phase = "asked" /\ r.calls = 1 /\ r.complains = 0 /\ r.code = ""
        /\ Len(r.spans) = 0 /\ Len(s) = 0
    BY <1>1, <1>2
  <1> HIDE DEF r
  <1>5. \A n : n = 0 => Spans(r, s, n) /\ (\A i \in 1..n : Misfit(s[i]))
                        /\ r.calls = n + 1 /\ n <= k /\ r.complains = n
    <2>1. (\A i : i \notin 1..0) /\ 1 = 0 + 1 /\ 0 <= k
      OBVIOUS
    <2> QED
      BY <1>4, <2>1, Zenon DEF Spans
  <1>6. Spans(r, s, Len(s)) /\ (\A i \in 1..Len(s) : Misfit(s[i]))
        /\ r.calls = Len(s) + 1 /\ Len(s) <= k /\ r.complains = Len(s)
    BY <1>5, Zenon
  <1>7. Asks(r, s, k)
    BY <1>4, <1>6, Zenon DEF Asks
  <1> QED
    BY <1>3, <1>7 DEF Follows, r

LEMMA ExtractStarts == ASSUME Extract!Init PROVE Extracted
  <1>1. /\ Configured /\ heard = <<>> /\ retries \in 0..MaxRetries /\ keyed \in BOOLEAN
        /\ runs = [ts |-> Extract!FirstCall, py |-> Extract!Asking]
    BY DEF Extract!Init, Configured
  <1>2. retries \in Nat /\ Len(Raws("ts")) = 0 /\ Len(Raws("py")) = 0
    <2>1. retries \in Nat
      BY <1>1, StagesAssumption DEF StagesAssumption
    <2>2. Raws("ts") = <<>> /\ Raws("py") = <<>>
      BY <1>1 DEF Raws
    <2> QED
      BY <2>1, <2>2
  <1>3. Follows("py", runs["py"], Raws("py"), retries)
    BY <1>1, <1>2, AskingFollows
  <1>4. IF NoKey THEN runs["ts"] = Extract!Refused
                 ELSE Follows("ts", runs["ts"], Raws("ts"), retries)
    BY <1>1, <1>2, AskingFollows DEF Extract!FirstCall, NoKey
  <1>5. Twins
    BY <1>1 DEF Twins, Extract!FirstCall, Extract!Asking, Extract!SameEnd, NoKey
  <1> QED
    BY <1>1, <1>3, <1>4, <1>5 DEF Extracted

\* How a turn ends.
LEMMA TurnEnds ==
    ASSUME NEW l \in {"ts", "py"}, NEW raw, raw.thrown \in BOOLEAN, raw.fits \in BOOLEAN,
           NEW says \in Codes, NEW gives \in Codes, runs[l] \in RunShape, Configured,
           NEW new, new = Extract!Attempt(runs[l], raw, says, gives)
    PROVE  /\ new \in RunShape
           /\ new.spans = Append(runs[l].spans, IF raw.thrown THEN "ERROR" ELSE "OK")
           /\ raw.thrown => /\ new.phase = "failed" /\ new.code = says
                            /\ new.calls = runs[l].calls
           /\ ~raw.thrown /\ raw.fits => /\ new.phase = "ok" /\ new.code = runs[l].code
                                         /\ new.calls = runs[l].calls
           /\ Misfit(raw) /\ runs[l].calls > retries =>
                 /\ new.phase = "failed" /\ new.code = gives /\ new.calls = runs[l].calls
           /\ Misfit(raw) /\ ~(runs[l].calls > retries) =>
                 /\ new.phase = runs[l].phase /\ new.code = runs[l].code
                 /\ new.calls = runs[l].calls + 1 /\ new.complains = Len(heard) + 1
  <1> DEFINE run == runs[l]
             span == Append(run.spans, IF raw.thrown THEN "ERROR" ELSE "OK")
             more == run.calls + 1
             last == Len(heard) + 1
  <1>1. span \in Seq({"ERROR", "OK"}) /\ more \in Nat /\ last \in Nat /\ run \in RunShape
    BY DEF RunShape, Configured
  <1>2. new = IF raw.thrown THEN [run EXCEPT !.phase = "failed", !.code = says, !.spans = span]
              ELSE IF raw.fits THEN [run EXCEPT !.phase = "ok", !.spans = span]
              ELSE IF run.calls > retries
                   THEN [run EXCEPT !.phase = "failed", !.code = gives, !.spans = span]
              ELSE [run EXCEPT !.calls = more, !.complains = last, !.spans = span]
    BY DEF Extract!Attempt, Extract!withExtractSpan
  <1> HIDE DEF run, span, more, last
  <1>3. CASE raw.thrown
    BY <1>1, <1>2, <1>3 DEF RunShape, Misfit, run, span
  <1>4. CASE ~raw.thrown /\ raw.fits
    BY <1>1, <1>2, <1>4 DEF RunShape, Misfit, run, span
  <1>5. CASE Misfit(raw) /\ run.calls > retries
    BY <1>1, <1>2, <1>5 DEF RunShape, Misfit, run, span
  <1>6. CASE Misfit(raw) /\ ~(run.calls > retries)
    <2>1. new = [run EXCEPT !.calls = more, !.complains = last, !.spans = span]
      BY <1>2, <1>6 DEF Misfit
    <2>2. /\ new \in RunShape /\ new.spans = span /\ new.phase = run.phase /\ new.code = run.code
          /\ new.calls = more /\ new.complains = last
      BY <1>1, <2>1 DEF RunShape
    <2> QED
      BY <1>6, <2>2 DEF Misfit, run, span, more, last
  <1> QED
    BY <1>3, <1>4, <1>5, <1>6 DEF Misfit, run

\* A turn of the loop keeps what a run follows, and so does hearing no more.
LEMMA EndedFollows ==
    ASSUME NEW l, NEW S, NEW s \in Seq(S), NEW x \in S, NEW k \in Nat, NEW r \in RunShape,
           Ended(l, r, s, k)
    PROVE  Follows(l, r, Append(s, x), k)
  <1> DEFINE t == Append(s, x)
             n == r.calls
  <1>1. /\ Len(s) \in Nat /\ Len(t) = Len(s) + 1 /\ \A i \in 1..Len(s) : t[i] = s[i]
    BY AppendProperties
  <1>2. n \in 1..Len(s)
    BY DEF Ended
  <1> HIDE DEF t, n
  <1>3. /\ n \in 1..Len(t) /\ \A i \in 1..n : t[i] = s[i]
        /\ n \in 1..n /\ \A i \in 1..(n - 1) : i \in 1..n
    BY <1>1, <1>2
  <1>4. Spans(r, t, n)
    BY <1>3 DEF Ended, Spans, n
  <1>5. Ended(l, r, t, k)
    BY <1>3, <1>4 DEF Ended, n
  <1> QED
    BY <1>5 DEF Follows, t

LEMMA TurnFollows ==
    ASSUME NEW l, NEW S, NEW s \in Seq(S), NEW x \in S, NEW k \in Nat,
           x.thrown \in BOOLEAN, x.fits \in BOOLEAN,
           NEW r \in RunShape, Asks(r, s, k), NEW new \in RunShape,
           NEW says \in Codes \ {"schema_parse_exhausted", "schema_validation_failed"},
           new.spans = Append(r.spans, IF x.thrown THEN "ERROR" ELSE "OK"),
           x.thrown => new.phase = "failed" /\ new.code = says /\ new.calls = r.calls,
           ~x.thrown /\ x.fits => new.phase = "ok" /\ new.calls = r.calls,
           Misfit(x) /\ r.calls > k =>
              new.phase = "failed" /\ new.code = GivesUp(l) /\ new.calls = r.calls,
           Misfit(x) /\ ~(r.calls > k) =>
              /\ new.phase = r.phase /\ new.code = r.code
              /\ new.calls = r.calls + 1 /\ new.complains = Len(s) + 1
    PROVE  Follows(l, new, Append(s, x), k)
  <1> DEFINE t == Append(s, x)
             N == Len(s)
  <1>1. /\ N \in Nat /\ Len(t) = N + 1 /\ t[N + 1] = x /\ \A i \in 1..N : t[i] = s[i]
    BY AppendProperties
  <1>2. /\ r.phase = "asked" /\ r.calls = N + 1 /\ N <= k /\ r.code = ""
        /\ (\A i \in 1..N : Misfit(s[i])) /\ Spans(r, s, N)
    BY DEF Asks
  <1>3. /\ Len(new.spans) = N + 1 /\ new.spans[N + 1] = IF x.thrown THEN "ERROR" ELSE "OK"
        /\ \A i \in 1..N : new.spans[i] = r.spans[i]
    <2>1. r.spans \in Seq({"ERROR", "OK"}) /\ Len(r.spans) = N
      BY <1>2 DEF RunShape, Spans
    <2>2. (IF x.thrown THEN "ERROR" ELSE "OK") \in {"ERROR", "OK"}
      OBVIOUS
    <2> QED
      BY <2>1, <2>2, AppendProperties
  <1> HIDE DEF t, N
  <1>4. (\A i \in 1..(N + 1) : i \in 1..N \/ i = N + 1) /\ N + 1 \in 1..Len(t) /\ (N + 1) - 1 = N
    BY <1>1
  <1>5. Spans(new, t, N + 1)
    <2>1. \A i \in 1..N : new.spans[i] = "ERROR" <=> t[i].thrown
      BY <1>1, <1>2, <1>3 DEF Spans
    <2>2. new.spans[N + 1] = "ERROR" <=> t[N + 1].thrown
      BY <1>1, <1>3
    <2> QED
      BY <1>3, <1>4, <2>1, <2>2 DEF Spans
  <1>6. \A i \in 1..N : Misfit(t[i])
    BY <1>1, <1>2
  <1>7. CASE Misfit(x) /\ ~(r.calls > k)
    <2>1. /\ new.phase = "asked" /\ new.code = "" /\ new.calls = (N + 1) + 1
          /\ new.complains = N + 1
      BY <1>1, <1>2, <1>7 DEF N
    <2>2. N + 1 <= k
      <3>1. ~(N + 1 > k)
        BY <1>2, <1>7
      <3> QED
        BY <1>1, <3>1
    <2>3. \A i \in 1..(N + 1) : Misfit(t[i])
      BY <1>1, <1>4, <1>6, <1>7
    <2>4. Asks(new, t, k)
      BY <1>1, <1>5, <2>1, <2>2, <2>3 DEF Asks
    <2> QED
      BY <2>4 DEF Follows, t
  <1>8. CASE ~(Misfit(x) /\ ~(r.calls > k))
    <2>1. /\ new.calls = N + 1 /\ new.phase \in {"ok", "failed"}
          /\ new.phase = "ok" => ~x.thrown /\ x.fits
      BY <1>2, <1>8 DEF Misfit
    <2>2. new.phase = "failed" => IF Misfit(x) THEN N + 1 = k + 1 /\ new.code = GivesUp(l)
                                               ELSE new.code = says
      <3>1. Misfit(x) => N + 1 > k /\ new.code = GivesUp(l)
        BY <1>2, <1>8
      <3>2. N <= k
        BY <1>2
      <3>3. N + 1 > k => N + 1 = k + 1
        BY <1>1, <3>2
      <3>4. new.phase = "failed" /\ ~Misfit(x) => new.code = says
        BY DEF Misfit
      <3> QED
        BY <3>1, <3>3, <3>4
    <2>3. Ended(l, new, t, k)
      BY <1>1, <1>4, <1>5, <1>6, <2>1, <2>2 DEF Ended
    <2> QED
      BY <2>3 DEF Follows, t
  <1> QED
    BY <1>7, <1>8

\* What two causes at most one of which there is have in common.
LEMMA OneCause ==
    ASSUME NEW a, Extract!Cardinality(Extract!Causes(a)) <= 1
    PROVE  \A x, y \in Extract!Causes(a) : x = y
  <1> DEFINE C == Extract!Causes(a)
  <1>1. C \subseteq {"rate", "auth", "timeout"}
    BY DEF Extract!Causes
  <1>2. IsFiniteSet(C)
    <2>1. {"rate", "auth", "timeout"} = (({} \cup {"rate"}) \cup {"auth"}) \cup {"timeout"}
      OBVIOUS
    <2>2. IsFiniteSet({} \cup {"rate"})
      BY FS_EmptySet, FS_AddElement
    <2>3. IsFiniteSet(({} \cup {"rate"}) \cup {"auth"})
      BY <2>2, FS_AddElement
    <2>4. IsFiniteSet((({} \cup {"rate"}) \cup {"auth"}) \cup {"timeout"})
      BY <2>3, FS_AddElement
    <2> QED
      BY <1>1, <2>1, <2>4, FS_Subset
  <1>3. Cardinality(C) <= 1
    BY DEF Extract!Cardinality, Cardinality
  <1> HIDE DEF C
  <1>4. ASSUME NEW x \in C, NEW y \in C, x # y PROVE FALSE
    <2>1. Cardinality({x}) = 1 /\ IsFiniteSet({x})
      BY FS_Singleton
    <2>2. Cardinality({x} \cup {y}) = 2
      BY <1>4, <2>1, FS_AddElement
    <2>3. Cardinality({x} \cup {y}) <= Cardinality(C)
      BY <1>2, FS_Subset
    <2>4. Cardinality(C) \in Nat
      BY <1>2, FS_CardinalityType
    <2> QED
      BY <1>3, <2>2, <2>3, <2>4
  <1> QED
    BY <1>4 DEF C

\* The text of no mark, by its name.
Unmarked == ""

LEMMA UnmarkedFields ==
    ASSUME NEW status, NEW words
    PROVE  LET x == Extract!Thrown(status, words, Unmarked)
           IN  /\ x.thrown = TRUE /\ x.status = status /\ x.words = words
               /\ x.mark \notin {"filter", "missing", "value"}
  <1> DEFINE x == Extract!Thrown(status, words, Unmarked)
  <1>1. x.thrown = TRUE /\ x.status = status /\ x.words = words /\ x.mark = Unmarked
    BY DEF Extract!Thrown
  <1>2. Unmarked # "filter" /\ Unmarked # "missing" /\ Unmarked # "value"
    BY Zenon DEF Unmarked
  <1> HIDE DEF x
  <1>3. x.mark \notin {"filter", "missing", "value"}
    BY <1>1, <1>2
  <1> QED
    BY <1>1, <1>3 DEF x

\* What Python finds in a message that has none of the words read apart.
LEMMA LowerReads ==
    ASSUME NEW words \in SUBSET Extract!Words, words \cap Extract!ReadApart = {}
    PROVE  LET lowered == Extract!Lower(words)
           IN  /\ "pip" \notin lowered
               /\ "rate" \in lowered <=> "rate" \in words
               /\ "timeout" \in lowered <=> "timeout" \in words
               /\ lowered \cap {"auth", "api_key"} # {} <=> "auth" \in words \/ "API_key" \in words
  <1> DEFINE lowered == Extract!Lower(words)
  <1>1. \A w \in words : w \in {"rate", "auth", "API_key", "timeout"}
    BY DEF Extract!Words, Extract!ReadApart
  <1>2. \A x : x \in lowered <=> \/ x \in {"rate", "auth", "timeout"} /\ x \in words
                                 \/ x = "api_key" /\ "API_key" \in words
    BY <1>1 DEF Extract!Lower
  <1> HIDE DEF lowered
  <1>3. lowered \cap {"auth", "api_key"} # {} <=> "auth" \in words \/ "API_key" \in words
    BY <1>2
  <1>4. /\ "pip" \notin lowered
        /\ "rate" \in lowered <=> "rate" \in words
        /\ "timeout" \in lowered <=> "timeout" \in words
    BY <1>2
  <1> QED
    BY <1>3, <1>4 DEF lowered

LEMMA CodeOfIs ==
    ASSUME NEW raw
    PROVE  /\ CodeOf("ts", raw) = Extract!MapProviderError(raw)
           /\ CodeOf("py", raw) = Extract!map_provider_error(raw)
  BY Zenon DEF CodeOf

\* An answer that is read alike is a misfit in both runtimes, or fits in both,
\* or ends both under the same name.
LEMMA ReadTheSame ==
    ASSUME NEW a \in Extract!Answers, NEW p \in Extract!Providers, NEW e \in BOOLEAN,
           Alike(a, p)
    PROVE  LET x == Raw("ts", a, p, e)
               y == Raw("py", a, p, e)
           IN  /\ x.thrown = y.thrown /\ (~x.thrown => x.fits = y.fits)
               /\ x.thrown => <<CodeOf("ts", x), CodeOf("py", y)>> \in Extract!SameEnd
  <1> DEFINE x == Raw("ts", a, p, e)
             y == Raw("py", a, p, e)
  <1> SUFFICES /\ x.thrown = y.thrown /\ (~x.thrown => x.fits = y.fits)
               /\ x.thrown => <<CodeOf("ts", x), CodeOf("py", y)>> \in Extract!SameEnd
    OBVIOUS
  <1> HIDE DEF x, y
  <1>1. \A c \in {"rate_limited", "auth_failed", "network_error", "provider_not_installed"} :
            <<c, c>> \in Extract!SameEnd
    BY DEF Extract!SameEnd
  <1>2. \A c \in {"content_filtered", "provider_error", "provider_unknown"} :
            <<c, "api_error">> \in Extract!SameEnd
    BY DEF Extract!SameEnd
  <1>3. CASE a.what = "throws"
    <2>1. x = Extract!Thrown(a.status, a.words, Unmarked) /\ y = Extract!Thrown(a.status, a.words, Unmarked)
      <3>1. a.as = "error"
        BY <1>3 DEF Alike
      <3>2. a.as # "value" /\ a.as # "RuntimeError"
        BY <3>1
      <3> QED
        BY <1>3, <3>2, Zenon DEF x, y, Raw, Extract!RawPy, Unmarked
    <2>2. /\ x.thrown = TRUE /\ x.status = a.status /\ x.words = a.words /\ x.mark \notin {"filter", "missing", "value"}
          /\ y = x
      <3> DEFINE made == Extract!Thrown(a.status, a.words, Unmarked)
      <3>1. /\ made.thrown = TRUE /\ made.status = a.status /\ made.words = a.words
            /\ made.mark \notin {"filter", "missing", "value"}
        BY UnmarkedFields
      <3>2. x = made /\ y = made
        BY <2>1
      <3> HIDE DEF made
      <3> QED
        BY <3>1, <3>2
    <2>3. \A c, d \in Extract!Causes(a) : c = d
      BY <1>3, OneCause DEF Alike
    <2>4. /\ a.status = 429 \/ "rate" \in a.words => "rate" \in Extract!Causes(a)
          /\ a.status = 401 \/ "auth" \in a.words \/ "API_key" \in a.words => "auth" \in Extract!Causes(a)
          /\ "timeout" \in a.words => "timeout" \in Extract!Causes(a)
      BY DEF Extract!Causes
    <2>5. a.words \in SUBSET Extract!Words
      BY <1>3, AnswerKinds
    <2>6. a.words \cap Extract!ReadApart = {}
      BY <1>3 DEF Alike
    <2>7. CodeOf("py", y) = IF a.status = 401 \/ "auth" \in a.words \/ "API_key" \in a.words
                            THEN "auth_failed"
                            ELSE IF a.status = 429 \/ "rate" \in a.words THEN "rate_limited"
                            ELSE IF "timeout" \in a.words THEN "network_error"
                            ELSE "api_error"
      <3> DEFINE lowered == Extract!Lower(a.words)
      <3>1. /\ "pip" \notin lowered
            /\ "rate" \in lowered <=> "rate" \in a.words
            /\ "timeout" \in lowered <=> "timeout" \in a.words
            /\ lowered \cap {"auth", "api_key"} # {} <=> "auth" \in a.words \/ "API_key" \in a.words
        BY <2>5, <2>6, LowerReads
      <3>2. CodeOf("py", y) = IF a.status = 401 \/ lowered \cap {"auth", "api_key"} # {} THEN "auth_failed"
                              ELSE IF a.status = 429 \/ "rate" \in lowered THEN "rate_limited"
                              ELSE IF "timeout" \in lowered THEN "network_error"
                              ELSE "api_error"
        BY <2>2, <3>1, CodeOfIs DEF Extract!map_provider_error
      <3> HIDE DEF lowered
      <3> QED
        BY <3>1, <3>2
    <2>8. CodeOf("ts", x) = IF a.status = 429 \/ "rate" \in a.words THEN "rate_limited"
                            ELSE IF a.status = 401 \/ "auth" \in a.words \/ "API_key" \in a.words
                            THEN "auth_failed"
                            ELSE IF "timeout" \in a.words THEN "network_error"
                            ELSE IF a.status \in 400..499 THEN "provider_error"
                            ELSE "provider_unknown"
      <3>1. /\ a.words \cap {"timeout", "fetch"} # {} <=> "timeout" \in a.words
            /\ a.words \cap {"auth", "API_key"} # {} <=> "auth" \in a.words \/ "API_key" \in a.words
            /\ "resolve" \notin a.words
        BY <2>6 DEF Extract!ReadApart
      <3> QED
        BY <2>2, <3>1, CodeOfIs DEF Extract!MapProviderError
    <2>9. CASE a.status = 429 \/ "rate" \in a.words
      BY <1>1, <2>3, <2>4, <2>7, <2>8, <2>9, <2>2
    <2>10. CASE a.status = 401 \/ "auth" \in a.words \/ "API_key" \in a.words
      BY <1>1, <2>3, <2>4, <2>7, <2>8, <2>10, <2>2
    <2>11. CASE /\ ~(a.status = 429 \/ "rate" \in a.words)
                /\ ~(a.status = 401 \/ "auth" \in a.words \/ "API_key" \in a.words)
      BY <1>1, <1>2, <2>7, <2>8, <2>11, <2>2
    <2> QED
      BY <2>9, <2>10, <2>11
  <1>4. CASE a.what = "missing"
    <2>1. x = Extract!Thrown(0, a.words, Unmarked) /\ y = Extract!Thrown(0, {}, "missing")
      BY <1>4, Zenon DEF x, y, Raw, Extract!RawPy, Unmarked
    <2>2. a.words = {"resolve"}
      BY <1>4, AnswerKinds DEF Alike
    <2>3. /\ x.thrown = TRUE /\ x.words = {"resolve"} /\ x.mark \notin {"filter", "value"}
      BY <2>1, <2>2, UnmarkedFields
    <2>4. y.thrown = TRUE /\ y.mark = "missing"
      BY <2>1 DEF Extract!Thrown
    <2>5. CodeOf("ts", x) = "provider_not_installed"
      BY <2>3, CodeOfIs DEF Extract!MapProviderError
    <2>6. CodeOf("py", y) = "provider_not_installed"
      BY <2>4, CodeOfIs DEF Extract!map_provider_error
    <2> QED
      BY <1>1, <2>3, <2>4, <2>5, <2>6
  <1>5. CASE a.what \in {"nothing", "text"}
    <2>1. y = Extract!Thrown(0, {}, Unmarked) /\ p \in {"openai", "gemini"}
      BY <1>5, Zenon DEF x, y, Raw, Extract!RawPy, Alike, Extract!Providers, Unmarked
    <2>2. x = Extract!Thrown(0, {}, Unmarked) \/ x = Extract!Thrown(400, {}, "filter")
      <3>1. a.what = "text" => a.words = {}
        BY DEF Alike
      <3>2. CASE p = "openai"
        <4>1. x = Extract!callOpenAI(a)
          BY <1>5, <3>2, Zenon DEF x, Raw
        <4> QED
          BY <1>5, <3>1, <4>1, Zenon DEF Extract!callOpenAI, Unmarked
      <3>3. CASE p = "gemini"
        <4>1. x = Extract!callGemini(a)
          BY <1>5, <3>3, Zenon DEF x, Raw
        <4> QED
          BY <1>5, <3>1, <4>1, Zenon DEF Extract!callGemini, Unmarked
      <3> QED
        BY <2>1, <3>2, <3>3
    <2>3. y.thrown = TRUE /\ y.status = 0 /\ y.words = {} /\ y.mark # "missing"
      <3> DEFINE made == Extract!Thrown(0, {}, Unmarked)
      <3>1. /\ made.thrown = TRUE /\ made.status = 0 /\ made.words = {}
            /\ made.mark \notin {"filter", "missing", "value"}
        BY UnmarkedFields
      <3>2. y = made
        BY <2>1
      <3> HIDE DEF made
      <3> QED
        BY <3>1, <3>2
    <2>4. CodeOf("py", y) = "api_error"
      <3>1. Extract!Lower({}) = {}
        BY DEF Extract!Lower
      <3> QED
        BY <2>3, <3>1, CodeOfIs DEF Extract!map_provider_error
    <2>5. x.thrown = TRUE /\ CodeOf("ts", x) \in {"content_filtered", "provider_unknown"}
      <3>1. CASE x = Extract!Thrown(0, {}, Unmarked)
        <4> DEFINE made == Extract!Thrown(0, {}, Unmarked)
        <4>0. /\ made.thrown = TRUE /\ made.status = 0 /\ made.words = {}
              /\ made.mark \notin {"filter", "missing", "value"}
          BY UnmarkedFields
        <4>2. x = made
          BY <3>1
        <4> HIDE DEF made
        <4>1. /\ x.thrown = TRUE /\ x.status = 0 /\ x.words = {}
              /\ x.mark \notin {"filter", "missing", "value"}
          BY <4>0, <4>2
        <4> QED
          BY <4>1, CodeOfIs DEF Extract!MapProviderError
      <3>2. CASE x = Extract!Thrown(400, {}, "filter")
        <4>1. x.thrown = TRUE /\ x.mark = "filter"
          BY <3>2 DEF Extract!Thrown
        <4> QED
          BY <4>1, CodeOfIs DEF Extract!MapProviderError
      <3> QED
        BY <2>2, <3>1, <3>2
    <2> QED
      BY <1>2, <2>3, <2>4, <2>5
  <1>6. CASE a.what = "json"
    <2>1. x = Extract!Parsed(a.fits) /\ y = x
      BY <1>6 DEF x, y, Raw, Extract!RawPy
    <2>2. x.thrown = FALSE
      BY <2>1 DEF Extract!Parsed, Extract!Thrown
    <2> QED
      BY <2>1, <2>2
  <1> QED
    BY <1>3, <1>4, <1>5, <1>6, AnswerKinds

-----------------------------------------------------------------------------
LEMMA RawsGrow ==
    ASSUME Configured, NEW l, NEW a \in Extract!Answers
    PROVE  /\ Len(Raws(l)) = Len(heard) /\ Len(heard) \in Nat
           /\ [i \in 1..Len(Append(heard, a)) |->
                  Raw(l, Append(heard, a)[i], provider, emptyFits)]
                = Append(Raws(l), Raw(l, a, provider, emptyFits))
           /\ \E S : Raws(l) \in Seq(S) /\ Raw(l, a, provider, emptyFits) \in S
  <1> DEFINE N == Len(heard)
             this == Raw(l, a, provider, emptyFits)
             longer == Append(heard, a)
             S == {Raw(l, b, provider, emptyFits) : b \in Extract!Answers}
             grown == [i \in 1..Len(longer) |-> Raw(l, longer[i], provider, emptyFits)]
  <1>1. /\ N \in Nat /\ Len(longer) = N + 1 /\ longer[N + 1] = a
        /\ \A i \in 1..N : longer[i] = heard[i] /\ heard[i] \in Extract!Answers
    BY AppendProperties DEF Configured
  <1>2. Raws(l) \in Seq(S) /\ Len(Raws(l)) = N /\ this \in S
        /\ \A i \in 1..N : Raws(l)[i] = Raw(l, heard[i], provider, emptyFits)
    BY <1>1 DEF Raws
  <1>3. /\ Append(Raws(l), this) \in Seq(S) /\ Len(Append(Raws(l), this)) = N + 1
        /\ Append(Raws(l), this)[N + 1] = this
        /\ \A i \in 1..N : Append(Raws(l), this)[i] = Raws(l)[i]
    <2> HIDE DEF S, this, N
    <2> QED
      BY <1>1, <1>2, AppendProperties
  <1>4. grown = Append(Raws(l), this)
    <2>1. Append(Raws(l), this) = [i \in 1..(N + 1) |-> Append(Raws(l), this)[i]]
      <3> DEFINE s == Append(Raws(l), this)
      <3>1. s \in Seq(S) /\ Len(s) = N + 1
        BY <1>3
      <3> HIDE DEF s, S, N
      <3>2. s = [i \in 1..(N + 1) |-> s[i]]
        BY <3>1
      <3> QED
        BY <3>2 DEF s
    <2>2. grown = [i \in 1..(N + 1) |-> Raw(l, longer[i], provider, emptyFits)]
      BY <1>1
    <2>3. ASSUME NEW i \in 1..(N + 1)
          PROVE  Raw(l, longer[i], provider, emptyFits) = Append(Raws(l), this)[i]
      <3>1. CASE i \in 1..N
        BY <1>1, <1>2, <1>3, <3>1
      <3>2. CASE i = N + 1
        BY <1>1, <1>3, <3>2
      <3>3. i \in 1..N \/ i = N + 1
        <4>1. N \in Nat
          BY <1>1
        <4> HIDE DEF N
        <4> QED
          BY <4>1
      <3> QED
        BY <3>1, <3>2, <3>3, Zenon
    <2> HIDE DEF grown, this, longer, N
    <2> QED
      BY <2>1, <2>2, <2>3
  <1> QED
    BY <1>1, <1>2, <1>4

\* A run that hears one more answer.
After(l, a) ==
    IF runs[l].phase = "asked"
    THEN Extract!Attempt(runs[l], Raw(l, a, provider, emptyFits),
                         CodeOf(l, Raw(l, a, provider, emptyFits)), GivesUp(l))
    ELSE runs[l]

LEMMA CodesOfRuns ==
    ASSUME NEW l, NEW raw
    PROVE  GivesUp(l) \in Codes /\ CodeOf(l, raw) \in Codes
  BY CodesApart DEF GivesUp, Codes

LEMMA RunFollows ==
    ASSUME Configured, NEW l \in {"ts", "py"}, NEW a \in Extract!Answers,
           Follows(l, runs[l], Raws(l), retries)
    PROVE  Follows(l, After(l, a), Append(Raws(l), Raw(l, a, provider, emptyFits)), retries)
  <1> DEFINE this == Raw(l, a, provider, emptyFits)
             says == CodeOf(l, this)
             new == Extract!Attempt(runs[l], this, says, GivesUp(l))
  <1>1. retries \in Nat /\ runs[l] \in RunShape
    BY StagesAssumption DEF StagesAssumption, Configured, Follows
  <1>2. PICK S : Raws(l) \in Seq(S) /\ this \in S
    BY RawsGrow
  <1>3. Len(Raws(l)) = Len(heard)
    BY RawsGrow
  <1>4. this.thrown \in BOOLEAN /\ this.fits \in BOOLEAN
    BY RawTypes DEF Configured
  <1>5. CASE runs[l].phase # "asked"
    <2>1. Ended(l, runs[l], Raws(l), retries) /\ After(l, a) = runs[l]
      BY <1>5 DEF Follows, Asks, After
    <2> QED
      BY <1>1, <1>2, <2>1, EndedFollows
  <1>6. CASE runs[l].phase = "asked"
    <2>1. Asks(runs[l], Raws(l), retries) /\ After(l, a) = new
      BY <1>6 DEF Follows, Ended, After
    <2>2. /\ says \in Codes \ {"schema_parse_exhausted", "schema_validation_failed"}
          /\ GivesUp(l) \in Codes
      BY CodesApart, CodesOfRuns
    <2> HIDE DEF this, says, new
    <2>3. /\ new \in RunShape
          /\ new.spans = Append(runs[l].spans, IF this.thrown THEN "ERROR" ELSE "OK")
          /\ this.thrown => /\ new.phase = "failed" /\ new.code = says
                            /\ new.calls = runs[l].calls
          /\ ~this.thrown /\ this.fits => /\ new.phase = "ok" /\ new.code = runs[l].code
                                          /\ new.calls = runs[l].calls
          /\ Misfit(this) /\ runs[l].calls > retries =>
                /\ new.phase = "failed" /\ new.code = GivesUp(l) /\ new.calls = runs[l].calls
          /\ Misfit(this) /\ ~(runs[l].calls > retries) =>
                /\ new.phase = runs[l].phase /\ new.code = runs[l].code
                /\ new.calls = runs[l].calls + 1 /\ new.complains = Len(heard) + 1
      <3>1. new = Extract!Attempt(runs[l], this, says, GivesUp(l))
        BY DEF new
      <3> QED
        BY <1>1, <1>4, <2>2, <3>1, TurnEnds
    <2> QED
      BY <1>1, <1>2, <1>3, <1>4, <2>1, <2>2, <2>3, TurnFollows DEF this
  <1> QED
    BY <1>5, <1>6

\* Two runs that ask, and make the same of an answer, come to the same end.
LEMMA TurnsAlike ==
    ASSUME Configured, NEW a \in Extract!Answers, Alike(a, provider),
           runs["ts"] \in RunShape, runs["py"] \in RunShape,
           runs["ts"].phase = "asked", runs["py"].phase = "asked",
           runs["ts"].calls = runs["py"].calls,
           <<runs["ts"].code, runs["py"].code>> \in Extract!SameEnd
    PROVE  /\ After("ts", a).phase = After("py", a).phase
           /\ After("ts", a).calls = After("py", a).calls
           /\ <<After("ts", a).code, After("py", a).code>> \in Extract!SameEnd
  <1> DEFINE x == Raw("ts", a, provider, emptyFits)
             y == Raw("py", a, provider, emptyFits)
             t == After("ts", a)
             p == After("py", a)
             many == runs["ts"].calls > retries
  <1>1. /\ x.thrown = y.thrown /\ (~x.thrown => x.fits = y.fits)
        /\ x.thrown => <<CodeOf("ts", x), CodeOf("py", y)>> \in Extract!SameEnd
    BY ReadTheSame DEF Configured
  <1>2. /\ x.thrown \in BOOLEAN /\ x.fits \in BOOLEAN
        /\ y.thrown \in BOOLEAN /\ y.fits \in BOOLEAN
    BY RawTypes DEF Configured
  <1>3. /\ t = Extract!Attempt(runs["ts"], x, CodeOf("ts", x), GivesUp("ts"))
        /\ p = Extract!Attempt(runs["py"], y, CodeOf("py", y), GivesUp("py"))
    BY DEF After
  <1>4. /\ CodeOf("ts", x) \in Codes /\ GivesUp("ts") \in Codes
        /\ CodeOf("py", y) \in Codes /\ GivesUp("py") \in Codes
    BY CodesOfRuns
  <1>5. <<GivesUp("ts"), GivesUp("py")>> \in Extract!SameEnd
    BY Zenon DEF GivesUp, Extract!SameEnd
  <1> HIDE DEF x, y, t, p
  <1>6. /\ x.thrown => t.phase = "failed" /\ t.code = CodeOf("ts", x) /\ t.calls = runs["ts"].calls
        /\ ~x.thrown /\ x.fits => t.phase = "ok" /\ t.code = runs["ts"].code
                                  /\ t.calls = runs["ts"].calls
        /\ Misfit(x) /\ many => t.phase = "failed" /\ t.code = GivesUp("ts")
                                /\ t.calls = runs["ts"].calls
        /\ Misfit(x) /\ ~many => t.phase = runs["ts"].phase /\ t.code = runs["ts"].code
                                 /\ t.calls = runs["ts"].calls + 1
    BY <1>2, <1>3, <1>4, TurnEnds
  <1>7. /\ y.thrown => p.phase = "failed" /\ p.code = CodeOf("py", y) /\ p.calls = runs["py"].calls
        /\ ~y.thrown /\ y.fits => p.phase = "ok" /\ p.code = runs["py"].code
                                  /\ p.calls = runs["py"].calls
        /\ Misfit(y) /\ many => p.phase = "failed" /\ p.code = GivesUp("py")
                                /\ p.calls = runs["py"].calls
        /\ Misfit(y) /\ ~many => p.phase = runs["py"].phase /\ p.code = runs["py"].code
                                 /\ p.calls = runs["py"].calls + 1
    BY <1>2, <1>3, <1>4, TurnEnds
  <1>8. t.phase = p.phase /\ t.calls = p.calls /\ <<t.code, p.code>> \in Extract!SameEnd
    <2> HIDE DEF many
    <2>1. CASE x.thrown
      BY <1>1, <1>6, <1>7, <2>1
    <2>2. CASE ~x.thrown /\ x.fits
      BY <1>1, <1>6, <1>7, <2>2
    <2>3. CASE Misfit(x) /\ many
      BY <1>1, <1>5, <1>6, <1>7, <2>3 DEF Misfit
    <2>4. CASE Misfit(x) /\ ~many
      BY <1>1, <1>6, <1>7, <2>4 DEF Misfit
    <2> QED
      BY <2>1, <2>2, <2>3, <2>4 DEF Misfit
  <1> QED
    BY <1>8 DEF t, p

LEMMA ExtractStep == ASSUME Extracted, Extract!Next PROVE Extracted'
  <1>1. PICK a \in Extract!Answers : Extract!Answer(a)
    BY DEF Extract!Next
  <1>2. /\ heard' = Append(heard, a)
        /\ provider' = provider /\ retries' = retries /\ keyed' = keyed /\ emptyFits' = emptyFits
        /\ runs' = [ts |-> IF runs.ts.phase = "asked" THEN Extract!RunTs(a) ELSE runs.ts,
                    py |-> IF runs.py.phase = "asked" THEN Extract!RunPy(a) ELSE runs.py]
    BY <1>1 DEF Extract!Answer
  <1>3. /\ Configured /\ Follows("py", runs["py"], Raws("py"), retries)
        /\ IF NoKey THEN runs["ts"] = Extract!Refused
                    ELSE Follows("ts", runs["ts"], Raws("ts"), retries)
        /\ Twins
    BY DEF Extracted
  <1>4. Configured'
    BY <1>2, <1>3, AppendProperties DEF Configured
  <1>5. /\ Extract!RunTs(a) = Extract!Attempt(runs["ts"], Raw("ts", a, provider, emptyFits),
              CodeOf("ts", Raw("ts", a, provider, emptyFits)), GivesUp("ts"))
        /\ Extract!RunPy(a) = Extract!Attempt(runs["py"], Raw("py", a, provider, emptyFits),
              CodeOf("py", Raw("py", a, provider, emptyFits)), GivesUp("py"))
    <2>1. GivesUp("ts") = "schema_parse_exhausted" /\ GivesUp("py") = "schema_validation_failed"
      BY DEF GivesUp
    <2> QED
      BY <2>1, RawIs, CodeOfIs DEF Extract!RunTs, Extract!RunPy
  <1>6. runs' = [ts |-> After("ts", a), py |-> After("py", a)]
    BY <1>2, <1>5 DEF After
  <1>7. runs'["ts"] = After("ts", a) /\ runs'["py"] = After("py", a)
    BY <1>6
  <1>8. \A l : Raws(l)' = Append(Raws(l), Raw(l, a, provider, emptyFits))
    <2> TAKE l
    <2>1. Raws(l)' = [i \in 1..Len(Append(heard, a)) |->
                         Raw(l, Append(heard, a)[i], provider, emptyFits)]
      BY <1>2 DEF Raws
    <2> QED
      BY <1>3, <2>1, RawsGrow
  <1>9. Follows("py", runs'["py"], Raws("py")', retries')
    BY <1>2, <1>3, <1>7, <1>8, RunFollows
  <1>10. IF NoKey' THEN runs'["ts"] = Extract!Refused
                   ELSE Follows("ts", runs'["ts"], Raws("ts")', retries')
    <2>1. CASE NoKey
      <3>1. runs["ts"] = Extract!Refused /\ Extract!Refused.phase = "failed"
        BY <1>3, <2>1 DEF Extract!Refused, Extract!Asking
      <3>2. After("ts", a) = runs["ts"]
        BY <3>1 DEF After
      <3> QED
        BY <1>2, <1>7, <2>1, <3>1, <3>2 DEF NoKey
    <2>2. CASE ~NoKey
      <3>1. Follows("ts", After("ts", a), Append(Raws("ts"), Raw("ts", a, provider, emptyFits)),
                    retries)
        BY <1>3, <2>2, RunFollows
      <3> QED
        BY <1>2, <1>7, <1>8, <2>2, <3>1 DEF NoKey
    <2> QED
      BY <2>1, <2>2
  <1>11. Twins'
    <2> SUFFICES ASSUME \A i \in 1..Len(heard') : Alike(heard'[i], provider'), ~NoKey'
                 PROVE  /\ runs'["ts"].phase = runs'["py"].phase
                        /\ runs'["ts"].calls = runs'["py"].calls
                        /\ <<runs'["ts"].code, runs'["py"].code>> \in Extract!SameEnd
      BY DEF Twins
    <2>1. /\ Len(heard) \in Nat /\ Len(heard') = Len(heard) + 1
          /\ heard'[Len(heard) + 1] = a /\ \A i \in 1..Len(heard) : heard'[i] = heard[i]
      BY <1>2, <1>3, AppendProperties DEF Configured
    <2>2. Alike(a, provider) /\ \A i \in 1..Len(heard) : Alike(heard[i], provider)
      <3>1. /\ \A i \in 1..Len(heard) : i \in 1..Len(heard')
            /\ Len(heard) + 1 \in 1..Len(heard')
        BY <2>1
      <3> QED
        BY <1>2, <2>1, <3>1
    <2>3. ~NoKey
      BY <1>2 DEF NoKey
    <2>4. /\ runs["ts"].phase = runs["py"].phase /\ runs["ts"].calls = runs["py"].calls
          /\ <<runs["ts"].code, runs["py"].code>> \in Extract!SameEnd
      BY <1>3, <2>2, <2>3 DEF Twins
    <2>5. runs["ts"] \in RunShape /\ runs["py"] \in RunShape
      BY <1>3, <2>3 DEF Follows
    <2>6. CASE runs["ts"].phase = "asked"
      BY <1>3, <1>7, <2>2, <2>4, <2>5, <2>6, TurnsAlike
    <2>7. CASE runs["ts"].phase # "asked"
      BY <1>7, <2>4, <2>7 DEF After
    <2> QED
      BY <2>6, <2>7
  <1> QED
    BY <1>4, <1>6, <1>7, <1>9, <1>10, <1>11 DEF Extracted

LEMMA ExtractStutters == ASSUME Extracted, UNCHANGED extractVars PROVE Extracted'
  BY DEF extractVars, Extracted, Configured, Twins, NoKey, Raws

-----------------------------------------------------------------------------
\* What a run follows is what it should have made of what it heard.
LEMMA FollowsIsHonest ==
    ASSUME NEW l \in {"ts", "py"}, Configured, Follows(l, runs[l], Raws(l), retries)
    PROVE  Extract!HonestRun(l)
  <1> DEFINE r == runs[l]
             s == Raws(l)
             h == Extract!Heard(l)
             n == IF r.phase = "asked" THEN Len(heard) ELSE r.calls
             earlier == SubSeq(h, 1, Len(h) - 1)
  <1>1. /\ r \in RunShape /\ retries \in Nat /\ Len(s) = Len(heard) /\ Len(heard) \in Nat
        /\ \A i \in 1..Len(heard) : heard[i] \in Extract!Answers
        /\ \A i \in 1..Len(heard) : s[i] = Raw(l, heard[i], provider, emptyFits)
    BY StagesAssumption DEF StagesAssumption, Configured, Follows, Raws
  <1>2. r.calls \in Nat /\ r.phase \in {"asked", "ok", "failed"}
    BY <1>1 DEF RunShape
  <1>3. n \in 0..Len(heard) /\ (r.phase # "asked" => n = r.calls /\ n \in 1..Len(heard))
    <2>1. CASE r.phase = "asked"
      BY <1>1, <2>1
    <2>2. CASE r.phase # "asked"
      <3>1. Ended(l, r, s, retries)
        BY <2>2 DEF Follows, Asks
      <3>2. r.calls \in 1..Len(heard)
        BY <1>1, <3>1 DEF Ended
      <3> QED
        BY <1>1, <2>2, <3>2
    <2> QED
      BY <2>1, <2>2
  <1>4. /\ h = [i \in 1..n |-> Raw(l, heard[i], provider, emptyFits)]
        /\ DOMAIN h = 1..n /\ \A i \in 1..n : h[i] = Raw(l, heard[i], provider, emptyFits)
    BY RawIs DEF Extract!Heard
  <1>5. Len(h) = n /\ \A i \in 1..n : h[i] = s[i]
    <2> HIDE DEF h, n, s
    <2>1. Len(h) = n
      BY <1>1, <1>3, <1>4
    <2>2. \A i \in 1..n : i \in 1..Len(heard)
      BY <1>1, <1>3
    <2> QED
      BY <1>1, <1>4, <2>1, <2>2
  <1>6. /\ Len(h) = n /\ DOMAIN h = 1..n /\ \A i \in 1..n : h[i] = s[i]
    BY <1>4, <1>5
  <1>7. r.phase # "asked" =>
           /\ DOMAIN earlier = 1..(n - 1)
           /\ \A i \in 1..(n - 1) : i \in 1..n /\ earlier[i] = s[i]
    <2> SUFFICES ASSUME r.phase # "asked"
                 PROVE  /\ DOMAIN earlier = 1..(n - 1)
                        /\ \A i \in 1..(n - 1) : i \in 1..n /\ earlier[i] = s[i]
      OBVIOUS
    <2>1. n \in Nat /\ n >= 1
      BY <1>1, <1>3
    <2>2. \E S : h \in Seq(S)
      <3> DEFINE T == {h[i] : i \in 1..n}
      <3> HIDE DEF h, n
      <3>1. h = [i \in 1..n |-> h[i]]
        BY <1>4
      <3>2. h \in Seq(T)
        BY <2>1, <3>1
      <3> QED
        BY <3>2
    <2> HIDE DEF h, n, s
    <2>3. earlier = [i \in 1..(n - 1) |-> h[i]]
      BY <1>6, <2>1, <2>2, SubSeqProperties
    <2> HIDE DEF earlier
    <2>4. \A i \in 1..(n - 1) : i \in 1..n
      BY <2>1
    <2> QED
      BY <1>6, <2>3, <2>4
  <1>8. /\ \A i \in 1..n : i \in 1..Len(heard) /\ s[i].thrown \in BOOLEAN
        /\ n >= 1 => n \in 1..n
    <2>1. \A i \in 1..n : i \in 1..Len(heard)
      BY <1>1, <1>3
    <2>2. \A i \in 1..n : Raw(l, heard[i], provider, emptyFits).thrown \in BOOLEAN
      BY <1>1, <2>1, RawTypes DEF Configured
    <2>3. \A i \in 1..n : s[i].thrown \in BOOLEAN
      BY <1>1, <2>1, <2>2
    <2>4. n >= 1 => n \in 1..n
      BY <1>1, <1>3
    <2> QED
      BY <2>1, <2>3, <2>4
  <1>9. Spans(r, s, n) /\ (r.phase = "asked" => Asks(r, s, retries))
        /\ (r.phase # "asked" => Ended(l, r, s, retries))
    <2>1. CASE r.phase = "asked"
      BY <1>1, <2>1 DEF Follows, Ended, Asks
    <2>2. CASE r.phase # "asked"
      BY <2>2 DEF Follows, Ended, Asks
    <2> QED
      BY <2>1, <2>2
  <1> HIDE DEF h, s
  <1>10. Len(r.spans) = Len(h) /\ \A i \in DOMAIN h : (r.spans[i] = "ERROR") = h[i].thrown
    <2>1. Len(r.spans) = n /\ \A i \in 1..n : r.spans[i] = "ERROR" <=> s[i].thrown
      BY <1>9 DEF Spans
    <2> HIDE DEF n
    <2>2. \A i \in 1..n : (r.spans[i] = "ERROR") = s[i].thrown
      BY <1>8, <2>1, Zenon
    <2> QED
      BY <1>6, <2>1, <2>2
  <1>11. r.phase = "asked" =>
            Extract!Misfits(h) /\ Len(h) <= retries /\ r.complains = Len(h)
    <2> SUFFICES ASSUME r.phase = "asked"
                 PROVE  Extract!Misfits(h) /\ Len(h) <= retries /\ r.complains = Len(h)
      OBVIOUS
    <2>1. n = Len(s) /\ n <= retries /\ r.complains = n /\ \A i \in 1..n : Misfit(s[i])
      BY <1>1, <1>9 DEF Asks
    <2> HIDE DEF n
    <2> QED
      BY <1>6, <2>1 DEF Extract!Misfits, Misfit
  <1>12. r.phase # "asked" => Extract!Misfits(earlier)
    <2> SUFFICES ASSUME r.phase # "asked" PROVE Extract!Misfits(earlier)
      OBVIOUS
    <2>1. \A i \in 1..(n - 1) : Misfit(s[i])
      BY <1>3, <1>9 DEF Ended
    <2> HIDE DEF n, earlier
    <2> QED
      BY <1>7, <2>1 DEF Extract!Misfits, Misfit
  <1>13. r.phase = "ok" =>
            \/ heard[r.calls] = [what |-> "json", fits |-> TRUE]
            \/ /\ l = "ts" /\ provider = "anthropic" /\ emptyFits
               /\ heard[r.calls].what \in {"nothing", "text"}
    <2> SUFFICES ASSUME r.phase = "ok"
                 PROVE  \/ heard[r.calls] = [what |-> "json", fits |-> TRUE]
                        \/ /\ l = "ts" /\ provider = "anthropic" /\ emptyFits
                           /\ heard[r.calls].what \in {"nothing", "text"}
      OBVIOUS
    <2> DEFINE a == heard[r.calls]
               raw == Raw(l, a, provider, emptyFits)
    <2>1. r.calls \in 1..Len(heard) /\ ~s[r.calls].thrown /\ s[r.calls].fits
      BY <1>1, <1>9 DEF Ended
    <2>2. a \in Extract!Answers /\ ~raw.thrown /\ raw.fits
      BY <1>1, <2>1
    <2> QED
      BY <2>2, RawTypes DEF Configured
  <1>14. r.phase = "failed" =>
            IF Extract!Misfits(h)
            THEN Len(h) = retries + 1 /\ r.code = GivesUp(l)
            ELSE r.code \notin {"schema_parse_exhausted", "schema_validation_failed"}
    <2> SUFFICES ASSUME r.phase = "failed"
                 PROVE  IF Extract!Misfits(h)
                        THEN Len(h) = retries + 1 /\ r.code = GivesUp(l)
                        ELSE r.code \notin {"schema_parse_exhausted", "schema_validation_failed"}
      OBVIOUS
    <2>1. n = r.calls /\ n \in 1..Len(heard)
      BY <1>3
    <2>2. /\ \A i \in 1..(n - 1) : Misfit(s[i])
          /\ IF Misfit(s[n]) THEN n = retries + 1 /\ r.code = GivesUp(l)
             ELSE r.code \notin {"schema_parse_exhausted", "schema_validation_failed"}
      BY <1>9, <2>1 DEF Ended
    <2> HIDE DEF n
    <2>3. \A i \in 1..n : i \in 1..(n - 1) \/ i = n
      BY <1>1, <2>1
    <2>4. n \in 1..n
      BY <1>1, <2>1
    <2>5. Extract!Misfits(h) <=> \A i \in 1..n : Misfit(s[i])
      BY <1>6 DEF Extract!Misfits, Misfit
    <2>6. Extract!Misfits(h) <=> Misfit(s[n])
      BY <2>2, <2>3, <2>4, <2>5
    <2> QED
      BY <1>6, <2>2, <2>6
  <1> QED
    <2>1. r.code = GivesUp(l) <=> r.code = IF l = "ts" THEN "schema_parse_exhausted"
                                                       ELSE "schema_validation_failed"
      BY DEF GivesUp
    <2>2. earlier = SubSeq(h, 1, Len(h) - 1)
      OBVIOUS
    <2> HIDE DEF n, earlier
    <2> QED
      BY <1>10, <1>11, <1>12, <1>13, <1>14, <2>1, <2>2, Zenon DEF Extract!HonestRun, h

LEMMA ExtractedIsRight ==
    ASSUME Extracted PROVE Extract!ExtractIsHonest /\ Extract!TwinsAgree
  <1>1. ASSUME NEW l \in Extract!Runtimes, ~(l = "ts" /\ runs.ts = Extract!Refused)
        PROVE  Extract!HonestRun(l)
    BY <1>1, FollowsIsHonest DEF Extract!Runtimes, Extracted
  <1>2. \A i : Extract!ReadAlike(heard[i]) <=> Alike(heard[i], provider)
    BY DEF Extract!ReadAlike, Alike
  <1>3. DOMAIN heard = 1..Len(heard)
    BY DEF Extracted, Configured
  <1>4. Extract!TwinsAgree
    BY <1>2, <1>3 DEF Extracted, Twins, NoKey, Extract!TwinsAgree
  <1> QED
    BY <1>1, <1>4 DEF Extract!ExtractIsHonest

\* Both extract processes return what follows from what the provider answered,
\* the Python one comes to the same end as the TypeScript one on all they read
\* alike (factory.ts, process.py), and every schema is strict wherever the walk
\* goes (strict-mode.ts): for any number of retries and any size of schemas.
THEOREM ExtractionFollowsAlways == Spec => []ExtractionFollows
  <1> DEFINE I == (part = "extract" => Extracted) /\ (part = "schema" => Sent)
  <1>1. Init => I
    BY ExtractStarts DEF Init, Sent, Extract!StrictInit
  <1>2. I /\ [Next]_vars => I'
    <2> SUFFICES ASSUME I, [Next]_vars PROVE I'
      OBVIOUS
    <2>1. ASSUME part' = "extract" PROVE Extracted'
      <3>1. part = "extract" /\ Extracted
        BY <2>1, PartSteps
      <3>2. CASE UNCHANGED extractVars
        BY <3>1, <3>2, ExtractStutters
      <3>3. CASE Extract!Next
        BY <3>1, <3>3, ExtractStep
      <3> QED
        BY <3>1, <3>2, <3>3, PartSteps
    <2>2. ASSUME part' = "schema" PROVE Sent'
      <3>1. part = "schema" /\ Sent
        BY <2>2, PartSteps
      <3>2. CASE UNCHANGED strictVars
        BY <3>1, <3>2 DEF strictVars, Sent, Extract!applyStrictMode, Extract!Reaches
      <3>3. CASE Extract!StrictNext
        BY <3>1, <3>3, SentStep
      <3> QED
        BY <3>1, <3>2, <3>3, PartSteps
    <2> QED
      BY <2>1, <2>2
  <1>3. I => ExtractionFollows
    <2>1. ASSUME Sent PROVE Extract!SchemaIsStrict
      BY <2>1, SentIsStrict DEF Sent, Extract!SchemaIsStrict
    <2> QED
      BY <2>1, ExtractedIsRight DEF ExtractionFollows
  <1> QED
    BY <1>1, <1>2, <1>3, PTL DEF Spec

-----------------------------------------------------------------------------
(***************************************************************************)
(* PkCommands: pk dev.                                                     *)
(***************************************************************************)
DiscoveryFields ==
    [n : Nat, at : {"readdir", "import"}, left : SUBSET PipelineFiles, found : SUBSET PipelineFiles]
DevTyped ==
    /\ disk \in [PipelineFiles -> Pk!Contents \cup {Nil}]
    /\ modules \in [PipelineFiles -> Pk!Contents \cup {Nil}]
    /\ intervals \in [PipelineFiles -> {0, 1, 2}]
    /\ \A f \in PipelineFiles : intervals[f] \in {0, Pk!CronsOf(modules[f])}
    /\ discoveries \in SUBSET DiscoveryFields
    /\ begun \in Nat /\ applied \in Nat /\ fsEvents \in Nat
    /\ watching \in {"starting", "watching", "static", "stopped"}
    /\ edited \in BOOLEAN /\ late \in BOOLEAN /\ underway \in BOOLEAN

\* Each discovery under way has a number of its own, and none that was applied.
Numbered ==
    /\ \A d \in discoveries : d.n \in 1..begun /\ d.n # applied
    /\ \A d, e \in discoveries : d.n = e.n => d = e
    /\ applied <= begun

\* What was imported is what the file still is, if it is there.
Unedited == \A f \in PipelineFiles : modules[f] # Nil => disk[f] \in {Nil, modules[f]}

\* A discovery that will end with the pipelines now on disk.
Fresh(d) ==
    IF d.at = "readdir" THEN d.found = {}
    ELSE \A f \in PipelineFiles :
           /\ f \notin d.left \/ f \notin d.found
           /\ disk[f] = Nil => f \notin d.left \cup d.found
           /\ disk[f] # Nil /\ f \notin d.left =>
                 /\ modules[f] = disk[f]
                 /\ f \in d.found <=> disk[f] \in {"cron", "twice", "prompt"}

\* Once every change has been noticed, the discovery begun last is fresh, or
\* it was applied, last of all, and nothing has changed since.
UpToDate ==
    /\ \A d \in discoveries : d.n = begun => Fresh(d)
    /\ applied = begun => intervals = Pk!Due

\* A change is noticed where the directory is watched.
Noticed == watching \in {"starting", "watching"}

Watched ==
    /\ DevTyped /\ Numbered
    /\ ~edited => Unedited
    /\ ~edited /\ ~late /\ Noticed /\ fsEvents = 0 => UpToDate
    /\ watching = "starting" => fsEvents = 0
    /\ watching = "stopped" /\ ~underway => discoveries = {} /\ intervals = Pk!NoIntervals

LEMMA WatchedAtFirst ==
    ASSUME Pk!DevInit
    PROVE  Watched
  <1> USE DEF Pk!DevInit, Pk!Discovery, Pk!NoIntervals
  <1> DEFINE first == [n |-> 1, at |-> "readdir", left |-> {}, found |-> {}]
  <1>1. first \in DiscoveryFields /\ first \in discoveries /\ \A d \in discoveries : d = first
    BY DEF DiscoveryFields
  <1>2. DevTyped
    BY <1>1 DEF DevTyped
  <1>3. Numbered
    BY <1>1 DEF Numbered
  <1>4. Fresh(first) /\ first.n = begun
    BY DEF Fresh
  <1>5. Unedited
    BY DEF Unedited
  <1>6. UpToDate
    BY <1>1, <1>4 DEF UpToDate
  <1> QED
    BY <1>2, <1>3, <1>5, <1>6 DEF Watched, Noticed

\* A change is noticed later, or came before anything watched.
LEMMA WatchedWhenChanged ==
    ASSUME Watched, NEW f \in PipelineFiles, Pk!Change(f)
    PROVE  Watched'
  <1> USE CommandsAssumption
  <1>1. PICK c \in Pk!Contents \cup {Nil} :
          /\ c # disk[f] /\ disk' = [disk EXCEPT ![f] = c]
          /\ edited' = (edited \/ (modules[f] # Nil /\ c \notin {Nil, modules[f]}))
    BY DEF Pk!Change
  <1>2. /\ late' = (late \/ watching = "starting")
        /\ fsEvents' = IF watching = "watching" THEN fsEvents + 1 ELSE fsEvents
        /\ UNCHANGED <<modules, discoveries, begun, intervals, watching, applied, underway>>
    BY DEF Pk!Change
  <1>3. DevTyped'
    BY <1>1, <1>2 DEF Watched, DevTyped
  <1>4. Numbered'
    BY <1>2 DEF Watched, Numbered
  <1>5. ~edited' => Unedited'
    BY <1>1, <1>2 DEF Watched, DevTyped, Unedited
  <1>6. Noticed' /\ ~late' => fsEvents' # 0
    <2>1. fsEvents \in Nat
      BY DEF Watched, DevTyped
    <2>2. watching = "watching" => fsEvents' = fsEvents + 1
      BY <1>2
    <2>3. watching = "starting" => late'
      BY <1>2
    <2> QED
      BY <1>2, <2>1, <2>2, <2>3 DEF Noticed
  <1>7. watching = "starting" => fsEvents' = 0
    BY <1>2 DEF Watched
  <1>8. watching' = "stopped" /\ ~underway' => discoveries' = {} /\ intervals' = Pk!NoIntervals
    BY <1>2 DEF Watched
  <1> QED
    BY <1>2, <1>3, <1>4, <1>5, <1>6, <1>7, <1>8 DEF Watched

\* The watcher begins a discovery, which reads the directory after all that
\* has happened.
LEMMA WatchedWhenNoticed ==
    ASSUME Watched, Pk!Notice
    PROVE  Watched'
  <1> USE DEF Pk!Notice, Pk!Discovery
  <1> DEFINE new == [n |-> begun + 1, at |-> "readdir", left |-> {}, found |-> {}]
  <1>0. begun \in Nat /\ applied \in Nat /\ fsEvents \in Nat
    BY DEF Watched, DevTyped
  <1>1. new \in DiscoveryFields /\ begun' = begun + 1 /\ discoveries' = discoveries \cup {new}
    BY <1>0 DEF DiscoveryFields
  <1>2. DevTyped'
    <2>1. begun' \in Nat /\ fsEvents' \in Nat
      BY <1>0, <1>1
    <2>2. discoveries' \in SUBSET DiscoveryFields
      BY <1>1, Zenon DEF Watched, DevTyped
    <2> QED
      BY <2>1, <2>2 DEF Watched, DevTyped
  <1>3. Numbered'
    <2>1. \A d \in discoveries : d.n \in 1..begun /\ d.n # applied
      BY DEF Watched, Numbered
    <2>2. applied <= begun
      BY DEF Watched, Numbered
    <2>3. new.n = begun + 1
      OBVIOUS
    <2> HIDE DEF new
    <2>4. ASSUME NEW d \in discoveries' PROVE d.n \in 1..begun' /\ d.n # applied'
      BY <2>1, <2>2, <2>3, <1>0, <1>1
    <2>5. ASSUME NEW d \in discoveries', NEW e \in discoveries', d.n = e.n PROVE d = e
      <3>1. \A x \in discoveries : x.n # new.n
        BY <2>1, <2>3, <1>0
      <3>2. \A x, y \in discoveries : x.n = y.n => x = y
        BY DEF Watched, Numbered
      <3> QED
        BY <3>1, <3>2, <2>5, <1>1
    <2> QED
      BY <2>2, <2>4, <2>5, <1>0, <1>1 DEF Numbered
  <1>4. ~edited' => Unedited'
    BY DEF Watched, Unedited
  <1>5. UpToDate'
    <2>0. PICK e : e = new
      OBVIOUS
    <2>1. ASSUME NEW d \in discoveries', d.n = begun' PROVE d = e
      <3>1. \A x \in discoveries : x.n \in 1..begun
        BY DEF Watched, Numbered
      <3> QED
        BY <1>0, <1>1, <2>0, <2>1, <3>1
    <2>2. Fresh(e)'
      <3>1. e.at = "readdir" /\ e.found = {}
        BY <2>0
      <3> QED
        BY <3>1 DEF Fresh
    <2>3. applied' # begun'
      BY <1>0, <1>1 DEF Watched, Numbered
    <2>4. \A d \in discoveries' : d.n = begun' => Fresh(d)'
      BY <2>1, <2>2
    <2> QED
      BY <2>3, <2>4 DEF UpToDate
  <1> QED
    BY <1>2, <1>3, <1>4, <1>5 DEF Watched

\* One discovery takes a step of its own: it keeps its number, and is as fresh
\* as it was.
LEMMA WatchedWhenReplaced ==
    ASSUME Watched, NEW d \in discoveries, NEW e \in DiscoveryFields,
           discoveries' = (discoveries \ {d}) \cup {e}, e.n = d.n,
           modules' \in [PipelineFiles -> Pk!Contents \cup {Nil}],
           \A f \in PipelineFiles : modules'[f] \in {modules[f], disk[f]}
                                    /\ (modules[f] # Nil => modules'[f] = modules[f]),
           ~edited => (Fresh(d) => Fresh(e)'),
           UNCHANGED <<disk, begun, intervals, fsEvents, watching, applied, edited, late, underway>>
    PROVE  Watched'
  <1>1. DevTyped'
    <2>1. \A f \in PipelineFiles : modules'[f] = modules[f] \/ modules[f] = Nil
      OBVIOUS
    <2>2. \A f \in PipelineFiles : intervals[f] \in {0, Pk!CronsOf(modules[f])}
      BY DEF Watched, DevTyped
    <2>3. \A f \in PipelineFiles : modules[f] = Nil => Pk!CronsOf(modules[f]) = 0
      BY CommandsAssumption DEF Pk!CronsOf
    <2>4. \A f \in PipelineFiles : intervals'[f] \in {0, Pk!CronsOf(modules'[f])}
      BY <2>1, <2>2, <2>3
    <2> QED
      BY <2>4 DEF Watched, DevTyped
  <1>2. Numbered'
    <2>1. \A x \in discoveries : x.n \in 1..begun /\ x.n # applied
      BY DEF Watched, Numbered
    <2>2. \A x, y \in discoveries : x.n = y.n => x = y
      BY DEF Watched, Numbered
    <2>3. ASSUME NEW x \in discoveries', NEW y \in discoveries', x.n = y.n PROVE x = y
      BY <2>2, <2>3
    <2>4. \A x \in discoveries' : x.n \in 1..begun' /\ x.n # applied'
      BY <2>1
    <2> QED
      BY <2>3, <2>4 DEF Watched, Numbered
  <1>3. ~edited' => Unedited'
    BY DEF Watched, Unedited, DevTyped
  <1>4. ASSUME ~edited, UpToDate PROVE UpToDate'
    <2>1. intervals' = intervals /\ Pk!Due' = Pk!Due
      BY DEF Pk!Due, Pk!CronsOf
    <2>2. ASSUME NEW x \in discoveries', x.n = begun' PROVE Fresh(x)'
      <3>1. CASE x = e
        <4>1. Fresh(d)
          BY <1>4, <2>2, <3>1 DEF UpToDate
        <4> QED
          BY <1>4, <3>1, <4>1
      <3>2. CASE x # e
        <4>1. x \in discoveries /\ x \in DiscoveryFields
          BY <2>2, <3>2 DEF Watched, DevTyped
        <4>2. Fresh(x)
          BY <1>4, <2>2, <4>1 DEF UpToDate
        <4> QED
          BY <4>1, <4>2, <1>4 DEF Fresh, Watched, DevTyped
      <3> QED
        BY <3>1, <3>2
    <2> QED
      BY <1>4, <2>1, <2>2 DEF UpToDate
  <1>5. ~(watching = "stopped" /\ ~underway)
    BY DEF Watched
  <1> QED
    BY <1>1, <1>2, <1>3, <1>4, <1>5 DEF Watched, Noticed

LEMMA WatchedWhenRead ==
    ASSUME Watched, NEW d \in discoveries, Pk!Readdir(d)
    PROVE  Watched'
  <1>1. d \in DiscoveryFields /\ d.at = "readdir"
    BY DEF Watched, DevTyped, Pk!Readdir
  <1>2. PICK e : e = [d EXCEPT !.at = "import", !.left = Pk!Listed]
    OBVIOUS
  <1>3. discoveries' = (discoveries \ {d}) \cup {e}
        /\ UNCHANGED <<disk, modules, begun, intervals, fsEvents, watching, applied, edited, late, underway>>
    BY <1>2 DEF Pk!Readdir
  <1>4. e \in DiscoveryFields /\ e.n = d.n /\ e.at = "import" /\ e.left = Pk!Listed /\ e.found = d.found
    BY <1>1, <1>2 DEF DiscoveryFields, Pk!Listed
  <1>6. Fresh(d) => Fresh(e)'
    <2>1. ASSUME Fresh(d) PROVE d.found = {}
      BY <1>1, <2>1 DEF Fresh
    <2> QED
      BY <2>1, <1>3, <1>4 DEF Fresh, Pk!Listed
  <1>5. modules' \in [PipelineFiles -> Pk!Contents \cup {Nil}] /\ modules' = modules
    BY <1>3 DEF Watched, DevTyped
  <1> QED
    BY <1>3, <1>4, <1>5, <1>6, WatchedWhenReplaced

\* What is imported is what is on disk, or what was when it was first imported.
LEMMA WatchedWhenImported ==
    ASSUME Watched, NEW d \in discoveries, Pk!Import(d)
    PROVE  Watched'
  <1> USE CommandsAssumption
  <1>1. PICK f \in d.left :
          LET m == IF modules[f] # Nil THEN modules[f] ELSE disk[f] IN
          /\ modules' = [modules EXCEPT ![f] = m]
          /\ discoveries' = (discoveries \ {d}) \cup
                {[d EXCEPT !.left = @ \ {f},
                           !.found = IF m \in {"cron", "twice", "prompt"} THEN @ \cup {f} ELSE @]}
    BY DEF Pk!Import
  <1>2. d \in DiscoveryFields /\ d.at = "import" /\ f \in PipelineFiles
    BY DEF Watched, DevTyped, Pk!Import, DiscoveryFields
  <1>0. PICK m : m = IF modules[f] # Nil THEN modules[f] ELSE disk[f]
    OBVIOUS
  <1>e. PICK e : e = [d EXCEPT !.left = @ \ {f},
                               !.found = IF m \in {"cron", "twice", "prompt"} THEN @ \cup {f} ELSE @]
    OBVIOUS
  <1>3. /\ e \in DiscoveryFields /\ e.n = d.n /\ e.at = "import" /\ e.left = d.left \ {f}
        /\ e.found = IF m \in {"cron", "twice", "prompt"} THEN d.found \cup {f} ELSE d.found
    BY <1>2, <1>e DEF DiscoveryFields
  <1>4. discoveries' = (discoveries \ {d}) \cup {e} /\ modules' = [modules EXCEPT ![f] = m]
        /\ UNCHANGED <<disk, begun, intervals, fsEvents, watching, applied, edited, late, underway>>
    BY <1>0, <1>1, <1>e DEF Pk!Import
  <1>5. m \in Pk!Contents \cup {Nil} /\ m \in {modules[f], disk[f]} /\ (modules[f] # Nil => m = modules[f])
    BY <1>0, <1>2 DEF Watched, DevTyped
  <1>6. ~edited /\ disk[f] # Nil => m = disk[f]
    BY <1>0, <1>2 DEF Watched, Unedited
  <1>7. /\ modules' \in [PipelineFiles -> Pk!Contents \cup {Nil}]
        /\ \A g \in PipelineFiles : modules'[g] \in {modules[g], disk[g]}
                                    /\ (modules[g] # Nil => modules'[g] = modules[g])
    BY <1>2, <1>4, <1>5 DEF Watched, DevTyped
  <1>8. ASSUME ~edited, Fresh(d) PROVE Fresh(e)'
    <2>1. \A g \in PipelineFiles :
            /\ g \notin d.left \/ g \notin d.found
            /\ disk[g] = Nil => g \notin d.left \cup d.found
            /\ disk[g] # Nil /\ g \notin d.left =>
                  modules[g] = disk[g] /\ (g \in d.found <=> disk[g] \in {"cron", "twice", "prompt"})
      BY <1>2, <1>8 DEF Fresh
    <2>2. m = disk[f] /\ disk[f] # Nil
      BY <1>2, <1>6, <1>8, <2>1
    <2>3. ASSUME NEW g \in PipelineFiles
          PROVE  /\ g \notin e.left \/ g \notin e.found
                 /\ disk[g] = Nil => g \notin e.left \cup e.found
                 /\ disk[g] # Nil /\ g \notin e.left =>
                       modules'[g] = disk[g] /\ (g \in e.found <=> disk[g] \in {"cron", "twice", "prompt"})
      <3>1. CASE g = f
        BY <1>2, <1>3, <1>4, <2>1, <2>2, <3>1 DEF Watched, DevTyped
      <3>2. CASE g # f
        <4>1. modules'[g] = modules[g] /\ (g \in e.left <=> g \in d.left) /\ (g \in e.found <=> g \in d.found)
          BY <1>2, <1>3, <1>4, <3>2 DEF Watched, DevTyped
        <4> QED
          BY <2>1, <4>1
      <3> QED
        BY <3>1, <3>2
    <2> QED
      BY <1>3, <1>4, <2>3 DEF Fresh
  <1> QED
    BY <1>3, <1>4, <1>7, <1>8, WatchedWhenReplaced

\* The list is applied: the intervals are then those of the fresh discovery,
\* or a later one is still to be applied.
LEMMA WatchedWhenApplied ==
    ASSUME Watched, NEW d \in discoveries, Pk!Apply(d)
    PROVE  Watched'
  <1> USE CommandsAssumption
  <1>0. /\ begun \in Nat /\ applied \in Nat /\ d \in DiscoveryFields /\ d.n \in 1..begun
        /\ d.n # applied /\ applied <= begun
    BY DEF Watched, DevTyped, Numbered
  <1>1. /\ d.at = "import" /\ d.left = {} /\ discoveries' = discoveries \ {d} /\ applied' = d.n
        /\ IF watching = "starting" THEN watching' \in {"watching", "static"} ELSE watching' = watching
        /\ UNCHANGED <<disk, modules, begun, fsEvents, edited, late, underway>>
    BY DEF Pk!Apply
  <1>2. intervals' = [f \in PipelineFiles |-> IF f \in d.found THEN Pk!CronsOf(modules[f]) ELSE 0]
    BY DEF Pk!Apply, Pk!startCronTriggers, Pk!OneEach
  <1>3. DevTyped'
    <2>1. \A m : Pk!CronsOf(m) \in {0, 1, 2}
      BY DEF Pk!CronsOf
    <2>2. /\ intervals' \in [PipelineFiles -> {0, 1, 2}]
          /\ \A f \in PipelineFiles : intervals'[f] \in {0, Pk!CronsOf(modules[f])}
      BY <1>2, <2>1
    <2>3. discoveries' \in SUBSET DiscoveryFields /\ applied' \in Nat
      BY <1>0, <1>1 DEF Watched, DevTyped
    <2>4. watching' \in {"starting", "watching", "static", "stopped"}
      BY <1>1 DEF Watched, DevTyped
    <2> QED
      BY <1>1, <2>2, <2>3, <2>4 DEF Watched, DevTyped
  <1>4. Numbered'
    BY <1>0, <1>1 DEF Watched, Numbered
  <1>5. ~edited' => Unedited'
    BY <1>1 DEF Watched, Unedited
  <1>6. ASSUME UpToDate PROVE UpToDate'
    <2>1. ASSUME NEW x \in discoveries', x.n = begun' PROVE Fresh(x)'
      <3>1. x \in discoveries /\ Fresh(x)
        BY <1>1, <1>6, <2>1 DEF UpToDate
      <3> QED
        BY <1>1, <3>1 DEF Fresh
    <2>2. ASSUME applied' = begun' PROVE intervals' = Pk!Due'
      <3>1. Fresh(d)
        BY <1>1, <1>6, <2>2 DEF UpToDate
      <3>2. ASSUME NEW f \in PipelineFiles
            PROVE  (IF f \in d.found THEN Pk!CronsOf(modules[f]) ELSE 0)
                   = IF disk[f] = Nil THEN 0 ELSE Pk!CronsOf(disk[f])
        <4>1. CASE disk[f] = Nil
          BY <1>1, <3>1, <4>1 DEF Fresh
        <4>2. CASE disk[f] # Nil /\ f \in d.found
          BY <1>1, <3>1, <4>2 DEF Fresh
        <4>3. CASE disk[f] # Nil /\ f \notin d.found
          <5>1. disk[f] \in Pk!Contents /\ disk[f] \notin {"cron", "twice", "prompt"}
            BY <1>1, <3>1, <4>3 DEF Fresh, Watched, DevTyped
          <5>2. disk[f] = "broken"
            BY <5>1 DEF Pk!Contents
          <5> QED
            BY <4>3, <5>2 DEF Pk!CronsOf
        <4> QED
          BY <4>1, <4>2, <4>3
      <3> QED
        BY <1>1, <1>2, <3>2, Zenon DEF Pk!Due
    <2> QED
      BY <2>1, <2>2 DEF UpToDate
  <1>7. underway \/ watching # "stopped"
    BY DEF Watched
  <1>8. watching' # "stopped" \/ underway'
    BY <1>1, <1>7
  <1>9. watching' # "starting" /\ (Noticed' => Noticed)
    BY <1>1 DEF Noticed
  <1> QED
    BY <1>1, <1>3, <1>4, <1>5, <1>6, <1>8, <1>9 DEF Watched

LEMMA WatchedWhenStopped ==
    ASSUME Watched, Pk!Stop
    PROVE  Watched'
  <1> USE DEF Pk!Stop, Pk!NoIntervals
  <1>1. DevTyped'
    BY DEF Watched, DevTyped
  <1>2. Numbered' /\ (~edited' => Unedited')
    BY DEF Watched, Numbered, Unedited
  <1>3. intervals' = Pk!NoIntervals
    OBVIOUS
  <1>4. ~underway' => discoveries' = {}
    BY Zenon
  <1> QED
    BY <1>1, <1>2, <1>3, <1>4 DEF Watched, Noticed

LEMMA WatchedNext ==
    ASSUME Watched, Pk!DevNext
    PROVE  Watched'
  BY WatchedWhenChanged, WatchedWhenNoticed, WatchedWhenRead, WatchedWhenImported,
     WatchedWhenApplied, WatchedWhenStopped DEF Pk!DevNext

LEMMA WatchedIsCurrent ==
    ASSUME Watched
    PROVE  Pk!ScheduleIsCurrent
  BY DEF Watched, DevTyped, Noticed, UpToDate, Pk!ScheduleIsCurrent, Pk!Quiet, Pk!InOrder

-----------------------------------------------------------------------------
(***************************************************************************)
(* PkCommands: pk gen-py-schema.                                           *)
(***************************************************************************)
PyTyped ==
    /\ given = Nil \/ \E paths \in GapShapes : given \in Pk!Trees(paths)
    /\ flags \in [check : BOOLEAN, strict : BOOLEAN, stdout : BOOLEAN]
    /\ pc \in {"look", "load", "generate", "uv", "compare", "end"} /\ code \in {0, 1, 2}
    /\ looked \in BOOLEAN /\ tmp \in BOOLEAN
    /\ file \in {Nil, Pk!Generated} \cup [mine : BOOLEAN, stamp : {0}]

\* How far the command got says what it has seen and done.
Generating ==
    /\ PyTyped
    /\ pc # "end" \/ Pk!InMemory => file = before
    /\ tmp => pc = "uv"
    /\ pc = "compare" => flags.check
    /\ pc \in {"generate", "uv", "compare"} \/ (pc = "end" /\ code = 0) => given # Nil
    /\ looked /\ given # Nil /\ (pc # "end" \/ code = 0) => Pk!collect(given) = {}
    /\ pc = "end" /\ code = 0 =>
         IF flags.stdout /\ ~flags.check THEN printed = Pk!Generated
         ELSE file = Pk!Generated \/ (file # Nil /\ file.mine)
    /\ pc = "end" /\ code # 1 /\ flags.check /\ file # Nil => file.mine

LEMMA GeneratingAtFirst ==
    ASSUME Pk!Init
    PROVE  Generating
  BY DEF Pk!Init, Generating, PyTyped

LEMMA GeneratingNext ==
    ASSUME Generating, Pk!Next
    PROVE  Generating'
  <1> USE DEF Generating, Pk!Ends, Pk!InMemory
  <1>0. PyTyped'
    <2> USE DEF PyTyped
    <2>1. (given = Nil \/ \E paths \in GapShapes : given \in Pk!Trees(paths))'
      BY DEF Pk!Next, Pk!Look, Pk!Load, Pk!MakeTmp, Pk!RunUv, Pk!Compare
    <2>2. (flags \in [check : BOOLEAN, strict : BOOLEAN, stdout : BOOLEAN] /\ looked \in BOOLEAN /\ tmp \in BOOLEAN)'
      BY DEF Pk!Next, Pk!Look, Pk!Load, Pk!MakeTmp, Pk!RunUv, Pk!Compare
    <2>3. (pc \in {"look", "load", "generate", "uv", "compare", "end"} /\ code \in {0, 1, 2})'
      BY DEF Pk!Next, Pk!Look, Pk!Load, Pk!MakeTmp, Pk!RunUv, Pk!Compare
    <2>4. file' \in {Nil, Pk!Generated} \cup [mine : BOOLEAN, stamp : {0}]
      BY DEF Pk!Next, Pk!Look, Pk!Load, Pk!MakeTmp, Pk!RunUv, Pk!Compare
    <2> QED
      BY <2>1, <2>2, <2>3, <2>4
  <1>t. tmp \in BOOLEAN /\ looked \in BOOLEAN
    BY DEF PyTyped
  <1>1. CASE Pk!Look
    <2> USE <1>0, <1>t, <1>1 DEF Pk!Look
    <2>1. CASE pc' = "end" /\ code' = 1
      BY <2>1
    <2>2. CASE looked' = TRUE /\ pc' = "load" /\ (given = Nil \/ Pk!collect(given) = {})
      BY <2>2
    <2>3. CASE UNCHANGED looked
      BY <2>3
    <2> QED
      BY <2>1, <2>2, <2>3
  <1>2. CASE Pk!Load
    BY <1>0, <1>t, <1>2 DEF Pk!Load
  <1>3. CASE Pk!MakeTmp
    BY <1>0, <1>t, <1>3 DEF Pk!MakeTmp
  <1>4. CASE Pk!RunUv
    <2> USE <1>0, <1>t, <1>4 DEF Pk!RunUv, Pk!Generated
    <2>1. CASE ~Pk!InMemory /\ file' = Pk!Generated /\ pc' = "end" /\ code' = 0
      BY <2>1
    <2>2. CASE Pk!InMemory /\ ~flags.check /\ printed' = Pk!Generated /\ pc' = "end" /\ code' = 0
               /\ file' = file
      BY <2>2
    <2>3. CASE flags.check /\ pc' = "compare" /\ UNCHANGED <<file, printed, code>>
      BY <2>3
    <2>4. CASE pc' = "end" /\ code' = 1 /\ UNCHANGED <<file, printed>>
      BY <2>4
    <2> QED
      BY <2>1, <2>2, <2>3, <2>4
  <1>5. CASE Pk!Compare
    <2> USE <1>0, <1>t, <1>5 DEF Pk!Compare, Pk!normalizeForComparison, Pk!Generated
    <2>1. CASE code' = 1
      BY <2>1
    <2>2. CASE code' = 0 /\ file # Nil /\ file.mine
      BY <2>2
    <2> QED
      BY <2>1, <2>2
  <1> QED
    BY <1>1, <1>2, <1>3, <1>4, <1>5 DEF Pk!Next

LEMMA LeastBelow ==
    ASSUME NEW N \in Nat, NEW S \in SUBSET (1..N), S # {}
    PROVE  \E k \in S : \A j \in S : k <= j
  <1>1. S \subseteq Nat
    OBVIOUS
  <1>2. PICK x \in S : \A y \in S : ~(<<y, x>> \in OpToRel(<, Nat))
    BY <1>1, NatLessThanWellFounded, WFMin
  <1>3. OpToRel(<, Nat) = {p \in Nat \X Nat : p[1] < p[2]}
    BY Zenon DEF OpToRel
  <1>4. ASSUME NEW y \in S PROVE x <= y
    <2>1. x \in Nat /\ y \in Nat /\ ~(<<y, x>> \in OpToRel(<, Nat))
      BY <1>1, <1>2
    <2>2. <<y, x>> \in {p \in Nat \X Nat : p[1] < p[2]} <=> y < x
      BY <2>1
    <2>3. ~(y < x)
      BY <1>3, <2>1, <2>2, Zenon
    <2>4. x \in Nat /\ y \in Nat
      BY <2>1
    <2> QED
      BY <2>3, <2>4
  <1> QED
    BY <1>4

\* What a tree of a schema is, at each of its paths.
LEMMA TreeShape ==
    ASSUME NEW paths \in GapShapes, NEW s \in Pk!Trees(paths), NEW p \in DOMAIN s
    PROVE  /\ p \in Seq({1, 2}) /\ Len(p) \in Nat
           /\ s[p].kind \in Pk!Simple \cup Pk!Inside \cup {"pipe"} /\ s[p].refine \in BOOLEAN
           /\ \A k \in 0..Len(p) : Pk!Upto(p, k) \in DOMAIN s
           /\ \A k \in 1..Len(p) :
                /\ p[k] \in Pk!KidsOf(s[Pk!Upto(p, k - 1)].kind)
                /\ Len(Pk!Upto(p, k)) = k
                /\ \A j \in 1..k : /\ Pk!Upto(p, k)[j] = p[j]
                                   /\ Pk!Upto(Pk!Upto(p, k), j - 1) = Pk!Upto(p, j - 1)
  <1>1. s \in [paths -> Pk!Node] /\ DOMAIN s = paths
        /\ \A q \in paths : Pk!KidsOf(s[q].kind) = {i \in {1, 2} : Append(q, i) \in paths}
    BY DEF Pk!Trees
  <1>2. p \in Seq({1, 2}) /\ \A k \in 0..Len(p) : SubSeq(p, 1, k) \in paths
    BY <1>1, CommandsAssumption
  <1>3. s[p].kind \in Pk!Simple \cup Pk!Inside \cup {"pipe"} /\ s[p].refine \in BOOLEAN
    BY <1>1 DEF Pk!Node
  <1>4. ASSUME NEW k \in 1..Len(p)
        PROVE  /\ p[k] \in Pk!KidsOf(s[Pk!Upto(p, k - 1)].kind)
               /\ Len(Pk!Upto(p, k)) = k
               /\ \A j \in 1..k : /\ Pk!Upto(p, k)[j] = p[j]
                                  /\ Pk!Upto(Pk!Upto(p, k), j - 1) = Pk!Upto(p, j - 1)
    <2>1. k - 1 \in 0..Len(p) /\ k \in 0..Len(p) /\ p[k] \in {1, 2}
      BY <1>2
    <2>2. Append(SubSeq(p, 1, k - 1), p[k]) = SubSeq(p, 1, k)
      BY <1>2, <2>1
    <2>3. SubSeq(p, 1, k - 1) \in paths /\ SubSeq(p, 1, k) \in paths
      BY <1>2, <2>1
    <2>4. p[k] \in Pk!KidsOf(s[Pk!Upto(p, k - 1)].kind)
      <3> DEFINE q == SubSeq(p, 1, k - 1)
      <3>1. q \in paths /\ Append(q, p[k]) \in paths
        BY <2>2, <2>3
      <3> HIDE DEF q
      <3>2. p[k] \in Pk!KidsOf(s[q].kind)
        BY <1>1, <2>1, <3>1
      <3> QED
        BY <3>2 DEF q, Pk!Upto
    <2>5. Len(Pk!Upto(p, k)) = k /\ \A j \in 1..k : Pk!Upto(p, k)[j] = p[j]
      BY <1>2, <2>1 DEF Pk!Upto
    <2>6. ASSUME NEW j \in 1..k PROVE Pk!Upto(Pk!Upto(p, k), j - 1) = Pk!Upto(p, j - 1)
      BY <1>2, <2>1 DEF Pk!Upto
    <2> QED
      BY <2>4, <2>5, <2>6
  <1> QED
    BY <1>1, <1>2, <1>3, <1>4 DEF Pk!Upto

\* The script finds a gap if there is one, and the library just the same: one
\* that it does not come to is below a pipe, which is a gap that it comes to.
LEMMA GapsFound ==
    ASSUME NEW paths \in GapShapes, NEW s \in Pk!Trees(paths), NEW outside \in SUBSET Pk!Inside
    PROVE  Pk!Gaps(s, Pk!Inside \ outside) # {} <=> Pk!HasGap(s, outside)
  <1> DEFINE walked == Pk!Inside \ outside
             IsGap(p) == s[p].refine \/ s[p].kind = "pipe"
  <1>1. Pk!Gaps(s, walked) # {} <=> \E p \in Pk!Visited(s, walked) : IsGap(p)
    BY Zenon DEF Pk!Gaps
  <1>2. ASSUME NEW p \in Pk!Visited(s, walked), IsGap(p) PROVE Pk!HasGap(s, outside)
    <2>1. p \in DOMAIN s /\ \A k \in 1..Len(p) : p[k] \in Pk!Into(s, Pk!Upto(p, k - 1), walked)
      BY DEF Pk!Visited
    <2>2. \A k \in 1..Len(p) : s[Pk!Upto(p, k - 1)].kind = "pipe" \/ s[Pk!Upto(p, k - 1)].kind \in walked
      BY <2>1 DEF Pk!Into
    <2>3. "pipe" \notin Pk!Inside
      BY DEF Pk!Inside
    <2> QED
      BY <1>2, <2>1, <2>2, <2>3 DEF Pk!HasGap
  <1>3. ASSUME Pk!HasGap(s, outside) PROVE \E p \in Pk!Visited(s, walked) : IsGap(p)
    <2>1. PICK p \in DOMAIN s : IsGap(p) /\ \A k \in 1..Len(p) : s[Pk!Upto(p, k - 1)].kind \notin outside
      BY <1>3 DEF Pk!HasGap
    <2> DEFINE Missed == {k \in 1..Len(p) : p[k] \notin Pk!Into(s, Pk!Upto(p, k - 1), walked)}
    <2>2. CASE Missed = {}
      BY <2>1, <2>2 DEF Pk!Visited
    <2>3. CASE Missed # {}
      <3>1. PICK k \in Missed : \A j \in Missed : k <= j
        BY <2>3, LeastBelow, TreeShape
      <3>2. k \in 1..Len(p) /\ p[k] \notin Pk!Into(s, Pk!Upto(p, k - 1), walked)
        OBVIOUS
      <3>3. \A j \in 1..(k - 1) : p[j] \in Pk!Into(s, Pk!Upto(p, j - 1), walked)
        <4>1. Len(p) \in Nat
          BY TreeShape
        <4>2. ASSUME NEW j \in 1..(k - 1) PROVE j \in 1..Len(p) /\ ~(k <= j)
          BY <3>2, <4>1
        <4>3. \A j \in 1..Len(p) : k <= j \/ p[j] \in Pk!Into(s, Pk!Upto(p, j - 1), walked)
          BY <3>1
        <4> QED
          BY <4>2, <4>3
      <3> HIDE DEF Missed
      <3> DEFINE q == Pk!Upto(p, k - 1)
      <3>4. q \in DOMAIN s /\ Len(q) = k - 1
            /\ \A j \in 1..(k - 1) : q[j] = p[j] /\ Pk!Upto(q, j - 1) = Pk!Upto(p, j - 1)
        <4>1. CASE k = 1
          BY <3>2, <4>1, TreeShape DEF Pk!Upto
        <4>2. CASE k # 1
          BY <3>2, <4>2, TreeShape
        <4> QED
          BY <4>1, <4>2
      <3>5. s[q].kind \notin outside /\ p[k] \in Pk!KidsOf(s[q].kind) /\ p[k] \notin Pk!Into(s, q, walked)
        BY <2>1, <3>2, TreeShape
      <3> HIDE DEF q
      <3>6. q \in Pk!Visited(s, walked)
        BY <3>3, <3>4 DEF Pk!Visited
      <3>7. s[q].kind = "pipe"
        BY <3>5 DEF Pk!Into, Pk!KidsOf
      <3> QED
        BY <3>6, <3>7
    <2> QED
      BY <2>2, <2>3
  <1> QED
    BY <1>1, <1>2, <1>3

LEMMA GapsGrow ==
    ASSUME NEW s, NEW W, NEW V, W \subseteq V
    PROVE  Pk!Gaps(s, W) \subseteq Pk!Gaps(s, V)
  <1>1. \A p : Pk!Into(s, p, W) \subseteq Pk!Into(s, p, V)
    BY DEF Pk!Into
  <1>2. Pk!Visited(s, W) \subseteq Pk!Visited(s, V)
    BY <1>1 DEF Pk!Visited
  <1> QED
    BY <1>2 DEF Pk!Gaps

LEMMA GeneratingIsTrue ==
    ASSUME Generating
    PROVE  Pk!PythonIsOfSchema
  <1>1. Pk!GapsAgree
    <2>1. given # Nil => Pk!collect(given) \subseteq Pk!collectGaps(given)
      BY GapsGrow DEF Pk!collect, Pk!collectGaps
    <2>2. given # Nil => (Pk!collectGaps(given) # {} <=> Pk!HasGap(given, {"lazy"}))
      BY GapsFound DEF Generating, PyTyped, Pk!collectGaps, Pk!Walked, Pk!Inside
    <2> QED
      BY <2>1, <2>2 DEF Pk!GapsAgree
  <1>2. Pk!SnapshotPasses
    BY DEF Pk!SnapshotPasses, Pk!normalizeForComparison, Pk!Generated, Generating, PyTyped
  <1>3. given # Nil /\ Pk!collect(given) = {} => ~Pk!HasGap(given, {"record", "lazy"})
    <2>1. Pk!Walked \ {"record"} = Pk!Inside \ {"record", "lazy"} /\ {"record", "lazy"} \in SUBSET Pk!Inside
      BY DEF Pk!Walked, Pk!Inside
    <2> QED
      BY <2>1, GapsFound DEF Generating, PyTyped, Pk!collect
  <1>4. Pk!ExitCodeIsTrue
    BY <1>3 DEF Pk!ExitCodeIsTrue, Generating, PyTyped, Pk!InMemory, Pk!Generated
  <1> QED
    BY <1>1, <1>2, <1>4 DEF Pk!PythonIsOfSchema

-----------------------------------------------------------------------------
(***************************************************************************)
(* PkCommands: pk run, inspect and trace.                                  *)
(***************************************************************************)
PkTyped ==
    /\ exports \in [PipelineFiles -> {Nil} \cup Pk!Exports]
    /\ argv \in [command : {"inspect", "run"}, id : Ids \cup {Nil}, input : Pk!Inputs, file : {Nil}]
                \cup [command : {"trace"}, id : {Nil}, input : {Nil}, file : Pk!Files]
                \cup [command : {"other", Nil}, id : {Nil}, input : {Nil}, file : {Nil}]
    /\ pkPc \in {"main", "find", "run", "end"} /\ exit \in {0, 1}

ByName == argv.command \in {"run", "inspect"} /\ argv.id # Nil

\* The exit code and the runs, by how far the command got.
Told ==
    /\ PkTyped
    /\ pkPc # "end" => calls = <<>>
    /\ pkPc \in {"find", "run"} => ByName
    /\ pkPc = "run" => /\ argv.command = "run" /\ argv.input # "text"
                       /\ \E i \in Pk!FirstOf(argv.id) : found = exports[i]
    /\ pkPc = "end" => Pk!ExitTellsWhatRan

LEMMA ToldAtFirst ==
    ASSUME Pk!PkInit
    PROVE  Told
  BY DEF Pk!PkInit, Told, PkTyped

LEMMA FirstIsFound ==
    ASSUME NEW id
    PROVE  Pk!findPipelineById(Pk!discoverPipelines, id) = Pk!FirstOf(id)
  BY DEF Pk!findPipelineById, Pk!discoverPipelines, Pk!isDuckPipeline, Pk!Described, Pk!FirstOf, Pk!Of

LEMMA ToldNext ==
    ASSUME Told, Pk!PkNext
    PROVE  Told'
  <1> USE CommandsAssumption DEF Pk!PkEnds
  <1>1. PkTyped'
    BY DEF Told, PkTyped, Pk!PkNext, Pk!main, Pk!Find, Pk!Run
  <1>2. CASE Pk!main
    BY <1>1, <1>2 DEF Pk!main, Told, PkTyped, ByName, Pk!ExitTellsWhatRan, Pk!Files
  <1>3. CASE Pk!Find
    <2>1. pkPc = "find" /\ ByName /\ calls = <<>> /\ UNCHANGED <<exports, argv, calls>>
      BY <1>3 DEF Pk!Find, Told
    <2>2. ByName' /\ Pk!FirstOf(argv.id)' = Pk!FirstOf(argv.id) /\ DOMAIN calls' = {}
      BY <2>1 DEF ByName, Pk!FirstOf, Pk!Of
    <2>3. CASE Pk!FirstOf(argv.id) = {} /\ said' = "error" /\ exit' = 1 /\ pkPc' = "end"
      BY <1>1, <2>1, <2>2, <2>3 DEF Told, Pk!ExitTellsWhatRan
    <2>4. ASSUME NEW i \in Pk!FirstOf(argv.id), found' = exports[i], argv.command = "inspect",
                 said' = "result", exit' = 0, pkPc' = "end"
          PROVE  Told'
      BY <1>1, <2>1, <2>2, <2>4 DEF Told, Pk!ExitTellsWhatRan
    <2>5. ASSUME argv.command = "run", argv.input = "text", said' = "error", exit' = 1, pkPc' = "end"
          PROVE  Told'
      BY <1>1, <2>1, <2>2, <2>5 DEF Told, Pk!ExitTellsWhatRan
    <2>6. ASSUME NEW i \in Pk!FirstOf(argv.id), found' = exports[i], argv.command = "run",
                 argv.input # "text", pkPc' = "run"
          PROVE  Told'
      BY <1>1, <2>1, <2>2, <2>6 DEF Told
    <2> QED
      BY <1>3, <2>3, <2>4, <2>5, <2>6, FirstIsFound DEF Pk!Find
  <1>4. CASE Pk!Run
    <2>1. ByName /\ argv.command = "run" /\ argv.input # "text" /\ UNCHANGED <<exports, argv>>
          /\ pkPc' = "end"
      BY <1>4 DEF Pk!Run, Told
    <2>2. PICK i \in Pk!FirstOf(argv.id) : found = exports[i]
      BY <1>4 DEF Pk!Run, Told
    <2>3. i \in PipelineFiles /\ exports[i].id = argv.id /\ \A j \in Pk!FirstOf(argv.id) : j = i
      <3>1. i \in Pk!Of(argv.id) /\ \A j \in Pk!Of(argv.id) : i <= j
        BY DEF Pk!FirstOf
      <3>2. ASSUME NEW j \in Pk!FirstOf(argv.id) PROVE j = i
        <4>1. j \in Pk!Of(argv.id) /\ j <= i
          BY <3>1 DEF Pk!FirstOf
        <4>2. i \in Nat /\ j \in Nat /\ i <= j
          BY <3>1, <4>1 DEF Pk!Of
        <4> QED
          BY <4>1, <4>2
      <3> QED
        BY <3>1, <3>2 DEF Pk!Of
    <2>4. ByName' /\ Pk!FirstOf(argv.id)' = Pk!FirstOf(argv.id)
      BY <2>1 DEF ByName, Pk!FirstOf, Pk!Of
    <2>5. PICK in : in = IF argv.input = "empty" THEN Nil ELSE argv.input
      OBVIOUS
    <2>6. in \in {Nil, "json"}
      BY <2>1, <2>5 DEF Told, PkTyped, ByName, Pk!Inputs
    <2>7. calls' = <<[id |-> argv.id, input |-> in]>>
      <3>1. calls' = Append(calls, [id |-> argv.id, input |-> in]) /\ calls = <<>>
        BY <1>4, <2>2, <2>3, <2>5 DEF Pk!Run, Told
      <3> QED
        BY <3>1
    <2>8. Len(calls') = 1 /\ \A n \in DOMAIN calls' : calls'[n].id = argv.id /\ calls'[n].input = in
      BY <2>7
    <2>9. CASE exports[i].run = "ok"
      <3>1. said' = "result" /\ exit' = 0
        BY <1>4, <2>2, <2>9 DEF Pk!Run
      <3> QED
        BY <1>1, <2>1, <2>3, <2>4, <2>6, <2>8, <2>9, <3>1 DEF Told, Pk!ExitTellsWhatRan
    <2>10. CASE exports[i].run # "ok"
      <3>1. said' = "error" /\ exit' = 1
        BY <1>4, <2>2, <2>10 DEF Pk!Run
      <3>2. ~ \E j \in Pk!FirstOf(argv.id)' : exports'[j].run = "ok"
        BY <2>1, <2>3, <2>4, <2>10
      <3> QED
        BY <1>1, <2>1, <2>4, <2>6, <2>8, <3>1, <3>2 DEF Told, Pk!ExitTellsWhatRan
    <2> QED
      BY <2>9, <2>10
  <1> QED
    BY <1>2, <1>3, <1>4 DEF Pk!PkNext

-----------------------------------------------------------------------------
\* The commands, each in its part.
Commanded ==
    /\ part = "dev" => Watched
    /\ part = "py" => Generating
    /\ part = "pk" => Told

LEMMA CommandedInductive ==
    /\ Init => Commanded
    /\ Commanded /\ [Next]_vars => Commanded'
    /\ Commanded => CommandsAreTrue
  <1>1. Init => Commanded
    BY WatchedAtFirst, GeneratingAtFirst, ToldAtFirst DEF Init, Commanded
  <1>2. ASSUME Commanded, [Next]_vars PROVE Commanded'
    <2>1. ASSUME part = "dev", Watched, UNCHANGED devVars PROVE Watched'
      BY <2>1 DEF devVars, Watched, DevTyped, Numbered, Unedited, UpToDate, Fresh, Noticed, Pk!Due, Pk!CronsOf, Pk!NoIntervals
    <2>2. ASSUME part = "py", Generating, UNCHANGED pyVars PROVE Generating'
      BY <2>2 DEF pyVars, Generating, PyTyped, Pk!InMemory
    <2>3. ASSUME part = "pk", Told, UNCHANGED pkVars PROVE Told'
      BY <2>3 DEF pkVars, Told, PkTyped, ByName, Pk!ExitTellsWhatRan, Pk!FirstOf, Pk!Of
    <2> QED
      BY <1>2, <2>1, <2>2, <2>3, PartSteps, WatchedNext, GeneratingNext, ToldNext DEF Commanded
  <1>3. ASSUME Commanded PROVE CommandsAreTrue
    <2>1. Told /\ pkPc = "end" => Pk!ExitTellsWhatRan
      BY DEF Told
    <2>2. Told /\ pkPc # "end" => Pk!ExitTellsWhatRan
      BY DEF Pk!ExitTellsWhatRan
    <2> QED
      BY <1>3, <2>1, <2>2, WatchedIsCurrent, GeneratingIsTrue DEF Commanded, CommandsAreTrue
  <1> QED
    BY <1>1, <1>2, <1>3

(* Whatever is done to the files and in whatever order the discoveries of    *)
(* pk dev take their steps, its intervals are as CommandsAreTrue says; the   *)
(* Python file pk gen-py-schema passes or writes is of the schema, and its   *)
(* looking over finds a gap wherever it is to look; and the exit code of pk  *)
(* run and inspect tells what was found and ran.                             *)
THEOREM CommandsAreTrueAlways == Spec => []CommandsAreTrue
  BY CommandedInductive, PTL DEF Spec

-----------------------------------------------------------------------------
(***************************************************************************)
(* RuleStages: the probes of aggregates and gates.                         *)
(***************************************************************************)
Summaries == {Rules!summarise(s) : s \in Seq(Rules!Goods)}
WayTyped ==
    /\ way \in {"A", "B", "C", "gate"}
    /\ window \in {[type |-> "count", n |-> n] : n \in Sizes} \cup {[type |-> "all"]}
    /\ window.type = "all" => way = "B"
    /\ upstream \in Seq(Rules!Goods) /\ Len(upstream) \in Nat
    /\ pulled \in 0..Len(upstream) /\ out \in Seq(Summaries)
    /\ done \in BOOLEAN

\* What the buffer holds is what came after the windows that were flushed.
Cut(k) == (k - 1) * Rules!Size + 1
Buffered ==
    /\ WayTyped /\ errors = broken
    /\ \A k \in 1..Len(out) :
         out[k] = Rules!summarise(SubSeq(upstream, Cut(k), Rules!Through(k)))
    /\ ~done => /\ buffer = SubSeq(upstream, Len(out) * Rules!Size + 1, pulled)
                /\ pulled - Len(out) * Rules!Size \in 0..(IF Rules!Size = 0 THEN 0 ELSE Rules!Size - 1)
                /\ Rules!Size = 0 => Len(out) = 0
    /\ done => Rules!WindowsAreCut /\ Rules!GatesAgree

LEMMA SizeOfWindow ==
    ASSUME WayTyped
    PROVE  /\ Rules!Size \in Nat
           /\ Rules!Size = 0 => way = "B" /\ Len(upstream) = 0
  BY SummaryAssumption DEF WayTyped, Rules!Size

LEMMA TimesNext ==
    ASSUME NEW n \in Nat, NEW z \in Nat
    PROVE  n * z \in Nat /\ (n + 1) * z = n * z + z
  OBVIOUS

LEMMA TimesLess ==
    ASSUME NEW n \in Nat, NEW k \in 1..n, NEW z \in Nat
    PROVE  k * z <= n * z
  OBVIOUS

LEMMA SummaryIsOk ==
    ASSUME NEW s
    PROVE  Rules!summarise(s).ok
  BY DEF Rules!summarise

LEMMA BufferedAtFirst ==
    ASSUME Rules!WayInit
    PROVE  Buffered
  <1> USE DEF Rules!WayInit
  <1>1. upstream \in Seq(Rules!Goods) /\ Len(upstream) \in Nat
    <2>1. CASE way = "gate"
      <3>1. upstream = <<>>
        BY <2>1, Zenon
      <3> QED
        BY <3>1
    <2>2. CASE way # "gate"
      <3>1. PICK k \in 0..MaxItems : upstream \in [1..k -> Rules!Goods]
        BY <2>2, Zenon
      <3>2. k \in Nat
        OBVIOUS
      <3> QED
        BY <3>1, <3>2
    <2> QED
      BY <2>1, <2>2
  <1>2. Len(out) = 0 /\ out \in Seq(Summaries) /\ pulled = 0 /\ ~done /\ errors = broken
    OBVIOUS
  <1>d. done \in BOOLEAN /\ pulled = 0
    OBVIOUS
  <1>w. way \in {"A", "B", "C", "gate"}
        /\ window \in {[type |-> "count", n |-> n] : n \in Sizes}
                      \cup (IF way = "B" THEN {[type |-> "all"]} ELSE {})
    BY Zenon
  <1>3. WayTyped
    <2>1. window.type = "all" => way = "B"
      BY <1>w
    <2>2. window \in {[type |-> "count", n |-> n] : n \in Sizes} \cup {[type |-> "all"]}
      BY <1>w
    <2> HIDE DEF Rules!WayInit
    <2>3. pulled \in 0..Len(upstream) /\ done \in BOOLEAN
      BY <1>1, <1>d
    <2> QED
      BY <1>1, <1>2, <1>w, <2>1, <2>2, <2>3 DEF WayTyped
  <1>4. Rules!Size \in Nat /\ Len(out) * Rules!Size = 0
    BY <1>2, <1>3, SizeOfWindow
  <1>5. buffer = SubSeq(upstream, 1, 0)
    OBVIOUS
  <1> QED
    BY <1>2, <1>3, <1>4, <1>5 DEF Buffered

LEMMA GatesAsked ==
    ASSUME NEW a \in Rules!Atoms
    PROVE  /\ Rules!computeDecision(a) = Rules!ReadB(a, Rules!GateB(a))
           /\ a.profane \/ a.long => ~Rules!Chain(a).ok /\ ~Rules!Chain(a).retryable
           /\ ~Rules!Chain(a).ok /\ Rules!Chain(a).retryable => a.uncertain /\ ~a.profane
  BY DEF Rules!Atoms, Rules!computeDecision, Rules!ReadB, Rules!GateB, Rules!Chain, Rules!Gate1

LEMMA BufferedWhenPulled ==
    ASSUME Buffered, Rules!Pull
    PROVE  Buffered'
  <1> USE DEF Rules!Pull
  <1>0. PICK z, full, l : z = Rules!Size /\ full = Append(buffer, upstream[pulled + 1]) /\ l = Len(out)
    OBVIOUS
  <1>1. /\ WayTyped /\ ~done /\ way # "gate" /\ pulled < Len(upstream) /\ pulled' = pulled + 1
        /\ UNCHANGED <<way, window, upstream, broken, done, atom, verdicts>>
        /\ IF Len(full) >= z
           THEN Rules!Emit(Rules!Produce(SubSeq(full, 1, z))) /\ buffer' = Rules!Rest(full)
           ELSE buffer' = full /\ UNCHANGED <<out, errors>>
    BY <1>0 DEF Buffered
  <1>2. /\ l \in Nat /\ pulled \in Nat /\ Len(upstream) \in Nat /\ upstream \in Seq(Rules!Goods)
        /\ out \in Seq(Summaries)
    BY <1>0, <1>1 DEF WayTyped
  <1>3. z \in Nat /\ z # 0
    BY <1>0, <1>1, <1>2, SizeOfWindow
  <1>4. PICK base : base = l * z
    OBVIOUS
  <1>5. base \in Nat /\ (l + 1) * z = base + z
    BY <1>2, <1>3, <1>4, TimesNext
  <1>6. buffer = SubSeq(upstream, base + 1, pulled) /\ pulled - base \in 0..(z - 1)
    BY <1>0, <1>1, <1>3, <1>4 DEF Buffered
  <1>7. full = SubSeq(upstream, base + 1, pulled + 1) /\ Len(full) = pulled + 1 - base
    BY <1>0, <1>1, <1>2, <1>5, <1>6
  <1>8. Rules!Size' = z /\ \A k : Cut(k)' = Cut(k) /\ Rules!Through(k)' = Rules!Through(k)
    BY <1>0, <1>1 DEF Rules!Size, Cut, Rules!Through
  <1>9. CASE Len(full) >= z
    <2>1. pulled + 1 = base + z /\ Len(full) = z
      BY <1>2, <1>3, <1>5, <1>6, <1>7, <1>9
    <2>2. SubSeq(full, 1, z) = full
      BY <1>2, <1>5, <1>7, <2>1
    <2>3. Rules!Produce(full) = Rules!summarise(full)
      BY <1>0, <1>1, <2>1, <1>3 DEF Rules!Produce, Rules!accumulate, Rules!RunB, WayTyped, Rules!Size
    <2>4. out' = Append(out, Rules!summarise(full)) /\ errors' = errors
      BY <1>1, <1>9, <2>2, <2>3, SummaryIsOk DEF Rules!Emit
    <2>5. buffer' = SubSeq(upstream, base + z + 1, pulled + 1)
      BY <1>0, <1>1, <1>2, <1>3, <1>5, <1>7, <1>9, <2>1 DEF Rules!Rest
    <2>6. full \in Seq(Rules!Goods)
      <3>1. base + 1 \in Nat /\ base + 1 >= 1 /\ pulled + 1 \in Nat /\ pulled + 1 <= Len(upstream)
        BY <1>1, <1>2, <1>5
      <3> HIDE DEF Rules!Pull
      <3> QED
        BY <1>2, <1>7, <3>1
    <2>7. out' \in Seq(Summaries) /\ Len(out') = l + 1 /\ out'[l + 1] = Rules!summarise(full)
          /\ \A k \in 1..l : out'[k] = out[k]
      <3>1. PICK r : r = Rules!summarise(full)
        OBVIOUS
      <3>2. r \in Summaries
        BY <2>6, <3>1 DEF Summaries
      <3>3. out' = Append(out, r)
        BY <2>4, <3>1
      <3> HIDE DEF Rules!Pull
      <3> QED
        BY <1>0, <1>2, <3>1, <3>2, <3>3
    <2>8. (l + 1) * z = pulled + 1 /\ pulled + 1 <= Len(upstream)
      BY <1>1, <1>2, <1>5, <2>1
    <2>9. full = SubSeq(upstream, Cut(l + 1), Rules!Through(l + 1))
      <3>1. (l + 1 - 1) * z = base
        BY <1>2, <1>4
      <3>2. Rules!Through(l + 1) = pulled + 1
        BY <1>0, <2>8 DEF Rules!Through
      <3>3. Cut(l + 1) = base + 1
        BY <1>0, <3>1 DEF Cut
      <3> QED
        BY <1>7, <3>2, <3>3
    <2>10. WayTyped'
      BY <1>1, <1>2, <2>7, <2>8 DEF WayTyped
    <2>11. ASSUME NEW k \in 1..Len(out')
           PROVE  out'[k] = Rules!summarise(SubSeq(upstream, Cut(k), Rules!Through(k)))
      <3>1. CASE k = l + 1
        BY <2>7, <2>9, <3>1
      <3>2. CASE k # l + 1
        <4>1. k \in 1..l
          BY <1>2, <2>7, <3>2
        <4> QED
          BY <1>0, <2>7, <4>1 DEF Buffered
      <3> QED
        BY <3>1, <3>2
    <2>12. buffer' = SubSeq(upstream, Len(out') * z + 1, pulled') /\ pulled' - Len(out') * z = 0
      <3>1. Len(out') * z = pulled' /\ pulled' = base + z
        BY <1>1, <1>5, <2>1, <2>7, <2>8
      <3>2. pulled' \in Nat
        BY <1>1, <1>2
      <3> HIDE DEF Rules!Pull
      <3> QED
        BY <1>1, <2>5, <3>1, <3>2
    <2>13. errors' = broken' /\ ~done'
      BY <1>1, <2>4 DEF Buffered
    <2>14. \A k \in 1..Len(out') :
             out'[k] = Rules!summarise(SubSeq(upstream, Cut(k), Rules!Through(k)))'
      BY <1>1, <1>8, <2>11
    <2> QED
      BY <1>3, <1>8, <2>10, <2>12, <2>13, <2>14 DEF Buffered
  <1>10. CASE ~(Len(full) >= z)
    <2>1. buffer' = full /\ UNCHANGED <<out, errors>>
      BY <1>1, <1>10
    <2>2. WayTyped'
      BY <1>1, <1>2, <2>1 DEF WayTyped
    <2>3. pulled' - Len(out') * z \in 0..(z - 1)
      BY <1>0, <1>1, <1>2, <1>3, <1>4, <1>5, <1>6, <1>7, <1>10, <2>1
    <2>4. buffer' = SubSeq(upstream, Len(out') * z + 1, pulled')
      BY <1>0, <1>1, <1>4, <1>7, <2>1
    <2> QED
      BY <1>1, <1>3, <1>8, <2>1, <2>2, <2>3, <2>4 DEF Buffered
  <1> QED
    BY <1>9, <1>10

LEMMA BufferedWhenBroken ==
    ASSUME Buffered, Rules!PullError
    PROVE  Buffered'
  <1>1. errors' = errors + 1 /\ broken' = broken + 1 /\ ~done
        /\ UNCHANGED <<way, window, upstream, pulled, buffer, out, done>>
    BY DEF Rules!PullError, Rules!Emit, Rules!Failed
  <1>2. Rules!Size' = Rules!Size /\ \A k : Cut(k)' = Cut(k) /\ Rules!Through(k)' = Rules!Through(k)
    BY <1>1 DEF Rules!Size, Cut, Rules!Through
  <1>3. WayTyped'
    BY <1>1 DEF Buffered, WayTyped
  <1> QED
    BY <1>1, <1>2, <1>3 DEF Buffered

LEMMA BufferedAtTheEnd ==
    ASSUME Buffered, Rules!Exhausted
    PROVE  Buffered'
  <1> USE DEF Rules!Exhausted
  <1>0. PICK z, l, u : z = Rules!Size /\ l = Len(out) /\ u = Len(upstream)
    OBVIOUS
  <1>1. /\ WayTyped /\ ~done /\ way # "gate" /\ pulled = u /\ done'
        /\ UNCHANGED <<way, window, upstream, pulled, broken, atom, verdicts>>
        /\ IF way = "C" /\ buffer # <<>> THEN Rules!Emit(Rules!Produce(buffer)) /\ buffer' = <<>>
           ELSE UNCHANGED <<out, errors, buffer>>
    BY <1>0 DEF Buffered, Rules!FlushesRest
  <1>2. l \in Nat /\ u \in Nat /\ upstream \in Seq(Rules!Goods) /\ out \in Seq(Summaries) /\ z \in Nat
    BY <1>0, <1>1, SizeOfWindow DEF WayTyped
  <1>3. z = 0 => way = "B" /\ u = 0 /\ l = 0
    BY <1>0, <1>1, SizeOfWindow DEF Buffered
  <1>4. PICK base : base = l * z
    OBVIOUS
  <1>5. base \in Nat /\ (l + 1) * z = base + z
    BY <1>2, <1>4, TimesNext
  <1>6. buffer = SubSeq(upstream, base + 1, u) /\ u - base \in 0..(IF z = 0 THEN 0 ELSE z - 1)
    BY <1>0, <1>1, <1>4 DEF Buffered
  <1>7. Len(buffer) = u - base /\ buffer \in Seq(Rules!Goods)
    BY <1>0, <1>2, <1>5, <1>6
  <1>8. Rules!Size' = z /\ \A k : Cut(k)' = Cut(k) /\ Rules!Through(k)' = Rules!Through(k)
    BY <1>0, <1>1 DEF Rules!Size, Cut, Rules!Through
  <1>9. CASE way = "C" /\ buffer # <<>>
    <2>1. u - base > 0
      <3>1. Len(buffer) # 0
        BY <1>7, <1>9
      <3> QED
        BY <1>2, <1>5, <1>6, <1>7, <3>1
    <2>2. out' = Append(out, Rules!summarise(buffer)) /\ errors' = errors
      BY <1>1, <1>9, SummaryIsOk DEF Rules!Emit, Rules!Produce
    <2>3. out' \in Seq(Summaries) /\ Len(out') = l + 1 /\ out'[l + 1] = Rules!summarise(buffer)
          /\ \A k \in 1..l : out'[k] = out[k]
      BY <1>0, <1>2, <1>7, <2>2 DEF Summaries
    <2>4. buffer = SubSeq(upstream, Cut(l + 1), Rules!Through(l + 1))
      <3>1. (l + 1 - 1) * z = base
        BY <1>2, <1>4
      <3>2. Rules!Through(l + 1) = u
        BY <1>0, <1>2, <1>3, <1>5, <1>6, <1>9 DEF Rules!Through
      <3>3. Cut(l + 1) = base + 1
        BY <1>0, <3>1 DEF Cut
      <3> QED
        BY <1>6, <3>2, <3>3
    <2>5. \A k \in 1..Len(out') : out'[k] = Rules!summarise(SubSeq(upstream, Cut(k), Rules!Through(k)))'
      <3>1. ASSUME NEW k \in 1..Len(out')
            PROVE  out'[k] = Rules!summarise(SubSeq(upstream, Cut(k), Rules!Through(k)))
        <4>1. CASE k = l + 1
          BY <2>3, <2>4, <4>1
        <4>2. CASE k # l + 1
          <5>1. k \in 1..l
            BY <1>2, <2>3, <4>2
          <5> QED
            BY <1>0, <2>3, <5>1 DEF Buffered
        <4> QED
          BY <4>1, <4>2
      <3> QED
        BY <1>1, <1>8, <3>1
    <2>6. Len(out') * z \in u..(u + z - 1)
      BY <1>2, <1>3, <1>5, <1>6, <1>9, <2>1, <2>3
    <2>7. WayTyped'
      BY <1>1, <2>3 DEF WayTyped
    <2>8. errors' = broken'
      BY <1>1, <2>2 DEF Buffered
    <2>9. DOMAIN out' = 1..Len(out')
      BY <2>3
    <2>10. Rules!WindowsAreCut'
      BY <1>0, <1>1, <1>8, <1>9, <2>5, <2>6, <2>8, <2>9 DEF Rules!WindowsAreCut, Cut
    <2>11. Rules!GatesAgree'
      BY <1>1 DEF Rules!GatesAgree
    <2> QED
      BY <1>1, <2>5, <2>7, <2>8, <2>10, <2>11 DEF Buffered
  <1>10. CASE ~(way = "C" /\ buffer # <<>>)
    <2>1. UNCHANGED <<out, errors, buffer>>
      BY <1>1, <1>10
    <2>2. WayTyped'
      BY <1>1, <2>1 DEF WayTyped
    <2>3. \A k \in 1..Len(out') : out'[k] = Rules!summarise(SubSeq(upstream, Cut(k), Rules!Through(k)))'
      BY <1>1, <1>8, <2>1 DEF Buffered
    <2>4. errors' = broken' /\ DOMAIN out' = 1..Len(out')
      BY <1>1, <1>2, <2>1 DEF Buffered
    <2>5. way = "C" => base = u
      <3>1. way = "C" => Len(buffer) = 0
        BY <1>10
      <3> QED
        BY <1>2, <1>5, <1>7, <3>1
    <2>6. IF way = "C" THEN base \in u..(u + z - 1)
          ELSE base \in (u - z + 1)..u \/ (z = 0 /\ l = 0)
      BY <1>2, <1>3, <1>5, <1>6, <2>5
    <2>7. Rules!WindowsAreCut'
      BY <1>0, <1>1, <1>4, <1>8, <2>1, <2>3, <2>4, <2>6 DEF Rules!WindowsAreCut, Cut
    <2>8. Rules!GatesAgree'
      BY <1>1 DEF Rules!GatesAgree
    <2> QED
      BY <1>1, <2>2, <2>3, <2>4, <2>7, <2>8 DEF Buffered
  <1> QED
    BY <1>9, <1>10

LEMMA BufferedWhenAsked ==
    ASSUME Buffered, Rules!Evaluate, atom \in Rules!Atoms
    PROVE  Buffered'
  <1>1. /\ way = "gate" /\ done' /\ UNCHANGED <<way, window, upstream, pulled, broken, out, errors, atom>>
        /\ verdicts'.A = Rules!computeDecision(atom) /\ verdicts'.B = Rules!GateB(atom)
        /\ verdicts'.chain = Rules!Chain(atom)
    BY DEF Rules!Evaluate
  <1>2. Rules!GatesAgree' /\ Rules!WindowsAreCut'
    BY <1>1, GatesAsked DEF Rules!GatesAgree, Rules!WindowsAreCut
  <1>3. \A k : Cut(k)' = Cut(k) /\ Rules!Through(k)' = Rules!Through(k)
    BY <1>1 DEF Rules!Size, Cut, Rules!Through
  <1>4. WayTyped'
    BY <1>1 DEF Buffered, WayTyped
  <1> QED
    BY <1>1, <1>2, <1>3, <1>4 DEF Buffered

-----------------------------------------------------------------------------
(***************************************************************************)
(* EvalAndCost: the bill.                                                  *)
(***************************************************************************)
PriceOf(m) == IF custom[m] = Eval!NoEntry THEN Eval!PRICES[m] ELSE custom[m]
CostCodes == {"ok", "invalid_usage", "unknown_model"}
Bill == [total : Int, used : [Eval!Axes -> Int]]
Priced == [input : Int, output : Int, cacheWrite5m : Int, cacheWrite1h : Int, cacheRead : Int]

BillTyped ==
    /\ custom \in [Models -> {Eval!NoEntry, Eval!CostOwn}]
    /\ billed \in [Models -> Bill]
    /\ events \in Seq([usage : Eval!Usages, model : Models, cost : [code : CostCodes, total : Int]])
Billing == BillTyped /\ Eval!BillAddsUp

LEMMA Distribute ==
    ASSUME NEW a \in Int, NEW b \in Int, NEW p \in Int
    PROVE  (a + b) * p = a * p + b * p /\ a * p \in Int
  OBVIOUS

LEMMA PriceType ==
    ASSUME BillTyped, NEW m \in Models, PriceOf(m) # Eval!NoEntry
    PROVE  PriceOf(m) \in Priced
  BY DEF BillTyped, PriceOf, Eval!PRICES, Eval!Entry, Eval!CostOwn, Eval!NoEntry, Priced

LEMMA TokensType ==
    ASSUME NEW u \in Eval!Usages
    PROVE  \A axis \in Eval!Axes : Eval!Tokens(u, axis) \in Int
  BY DEF Eval!Usages, Eval!Axes, Eval!Tokens, Eval!Omitted

\* What one call costs.
LEMMA CostOfCall ==
    ASSUME BillTyped, NEW m \in Models, NEW u \in Eval!Usages,
           NEW p, p = PriceOf(m), NEW c, c = Eval!Compute(u, m)
    PROVE  /\ c \in [code : CostCodes, total : Int]
           /\ u.input < 0 => c.code = "invalid_usage"
           /\ c.code # "ok" => c.total = 0
           /\ c.code = "ok" =>
                /\ p # Eval!NoEntry
                /\ c.total = Eval!Tokens(u, "input") * p.input + Eval!Tokens(u, "output") * p.output
                             + Eval!Tokens(u, "cacheWrite") * p.cacheWrite5m
                             + Eval!Tokens(u, "cacheRead") * p.cacheRead
  <1>1. Eval!MergedPrices(m) = PriceOf(m)
    BY DEF Eval!MergedPrices, PriceOf
  <1> DEFINE cost == [axis \in Eval!Axes |-> Eval!Tokens(u, axis) *
                        (IF axis = "cacheWrite" THEN p.cacheWrite5m ELSE p[axis])]
             sum == cost.input + cost.output + cost.cacheWrite + cost.cacheRead
  <1>2. c = IF ~Eval!Valid(u) THEN Eval!Error("invalid_usage")
            ELSE IF p = Eval!NoEntry THEN Eval!Error("unknown_model") ELSE Eval!Ok(sum)
    BY <1>1 DEF Eval!Compute
  <1>3. /\ cost.input = Eval!Tokens(u, "input") * p.input
        /\ cost.output = Eval!Tokens(u, "output") * p.output
        /\ cost.cacheWrite = Eval!Tokens(u, "cacheWrite") * p.cacheWrite5m
        /\ cost.cacheRead = Eval!Tokens(u, "cacheRead") * p.cacheRead
    BY DEF Eval!Axes
  <1>4. p # Eval!NoEntry => /\ p.input \in Int /\ p.output \in Int /\ p.cacheWrite5m \in Int
                            /\ p.cacheRead \in Int
    BY PriceType DEF Priced
  <1>5. p # Eval!NoEntry => sum \in Int
    <2>1. Eval!Tokens(u, "input") \in Int /\ Eval!Tokens(u, "output") \in Int
          /\ Eval!Tokens(u, "cacheWrite") \in Int /\ Eval!Tokens(u, "cacheRead") \in Int
      BY TokensType DEF Eval!Axes
    <2> HIDE DEF cost
    <2> QED
      BY <1>3, <1>4, <2>1, Distribute
  <1>6. u.input \in Int
    BY DEF Eval!Usages
  <1> HIDE DEF cost
  <1>7. ~Eval!Valid(u) <=> u.input < 0
    BY <1>6 DEF Eval!Valid
  <1> HIDE DEF sum
  <1>8. CASE ~Eval!Valid(u)
    <2>1. c = [code |-> "invalid_usage", total |-> 0]
      BY <1>2, <1>8, Zenon DEF Eval!Error
    <2> QED
      BY <2>1 DEF CostCodes
  <1>9. CASE Eval!Valid(u) /\ p = Eval!NoEntry
    <2>1. c = [code |-> "unknown_model", total |-> 0]
      BY <1>2, <1>9, Zenon DEF Eval!Error
    <2> QED
      BY <1>7, <1>9, <2>1 DEF CostCodes
  <1>10. CASE Eval!Valid(u) /\ p # Eval!NoEntry
    <2>1. c.code = "ok" /\ c.total = sum
          /\ c \in [code : CostCodes, total : Int]
      <3>1. c = [code |-> "ok", total |-> sum]
        BY <1>2, <1>10, Zenon DEF Eval!Ok
      <3> QED
        BY <1>5, <1>10, <3>1 DEF CostCodes
    <2> QED
      BY <1>3, <1>7, <1>10, <2>1 DEF sum
  <1> QED
    BY <1>8, <1>9, <1>10

LEMMA BillingAtFirst ==
    ASSUME Eval!CostInit
    PROVE  Billing
  <1> USE DEF Eval!CostInit, Eval!NoBill
  <1>1. BillTyped
    BY DEF BillTyped, Bill
  <1>2. DOMAIN events = {}
    OBVIOUS
  <1>3. ASSUME NEW m \in Models, PriceOf(m) # Eval!NoEntry
        PROVE  0 = 0 * PriceOf(m).input + 0 * PriceOf(m).output + 0 * PriceOf(m).cacheWrite5m
                     + 0 * PriceOf(m).cacheRead
    BY <1>1, <1>3, PriceType DEF Priced
  <1>4. \A m \in Models : billed[m].total = 0 /\ \A axis \in Eval!Axes : billed[m].used[axis] = 0
    OBVIOUS
  <1> QED
    BY <1>1, <1>2, <1>3, <1>4 DEF Billing, Eval!BillAddsUp, PriceOf, Eval!Axes

LEMMA BillingNext ==
    ASSUME Billing, Eval!CostNext
    PROVE  Billing'
  <1>1. PICK u \in Eval!Usages, n \in Models : Eval!Call(u, n)
    BY DEF Eval!CostNext
  <1>2. PICK cost : cost = Eval!Compute(u, n)
    OBVIOUS
  <1>3. /\ events' = Append(events, [usage |-> u, model |-> n, cost |-> cost]) /\ custom' = custom
        /\ billed' = IF cost.code # "ok" THEN billed
                     ELSE [billed EXCEPT ![n] =
                             [total |-> @.total + cost.total,
                              used |-> [axis \in Eval!Axes |-> @.used[axis] + Eval!Tokens(u, axis)]]]
    BY <1>1, <1>2 DEF Eval!Call
  <1>4. BillTyped /\ Eval!BillAddsUp
    BY DEF Billing
  <1>5. /\ cost \in [code : CostCodes, total : Int]
        /\ u.input < 0 => cost.code = "invalid_usage"
        /\ cost.code # "ok" => cost.total = 0
        /\ cost.code = "ok" =>
             /\ PriceOf(n) # Eval!NoEntry
             /\ cost.total = Eval!Tokens(u, "input") * PriceOf(n).input
                             + Eval!Tokens(u, "output") * PriceOf(n).output
                             + Eval!Tokens(u, "cacheWrite") * PriceOf(n).cacheWrite5m
                             + Eval!Tokens(u, "cacheRead") * PriceOf(n).cacheRead
    BY <1>2, <1>4, CostOfCall
  <1>6. /\ billed \in [Models -> Bill]
        /\ events \in Seq([usage : Eval!Usages, model : Models, cost : [code : CostCodes, total : Int]])
    BY <1>4 DEF BillTyped
  <1>7. \A axis \in Eval!Axes : Eval!Tokens(u, axis) \in Int /\ billed[n].used[axis] \in Int
    BY <1>6, TokensType DEF Bill
  <1>8. BillTyped'
    <2>1. events' \in Seq([usage : Eval!Usages, model : Models, cost : [code : CostCodes, total : Int]])
      BY <1>3, <1>5, <1>6
    <2>2. billed' \in [Models -> Bill]
      <3>1. CASE cost.code # "ok"
        BY <1>3, <1>6, <3>1
      <3>2. CASE cost.code = "ok"
        <4>1. billed' = [billed EXCEPT ![n] = [total |-> billed[n].total + cost.total,
                used |-> [axis \in Eval!Axes |-> billed[n].used[axis] + Eval!Tokens(u, axis)]]]
          BY <1>3, <1>6, <3>2 DEF Bill
        <4>2. billed[n].total + cost.total \in Int
          BY <1>5, <1>6 DEF Bill
        <4>3. [axis \in Eval!Axes |-> billed[n].used[axis] + Eval!Tokens(u, axis)] \in [Eval!Axes -> Int]
          BY <1>7
        <4> QED
          BY <1>6, <4>1, <4>2, <4>3 DEF Bill
      <3> QED
        BY <3>1, <3>2
    <2> QED
      BY <1>3, <1>4, <2>1, <2>2 DEF BillTyped
  <1>9. \A i \in DOMAIN events' : /\ events'[i].usage.input < 0 => events'[i].cost.code = "invalid_usage"
                                  /\ events'[i].cost.code # "ok" => events'[i].cost.total = 0
    BY <1>3, <1>4, <1>5, <1>6 DEF Eval!BillAddsUp
  <1>10. ASSUME NEW m \in Models
         PROVE  IF PriceOf(m) = Eval!NoEntry THEN billed'[m] = Eval!NoBill
                ELSE billed'[m].total = billed'[m].used["input"] * PriceOf(m).input
                        + billed'[m].used["output"] * PriceOf(m).output
                        + billed'[m].used["cacheWrite"] * PriceOf(m).cacheWrite5m
                        + billed'[m].used["cacheRead"] * PriceOf(m).cacheRead
    <2>1. IF PriceOf(m) = Eval!NoEntry THEN billed[m] = Eval!NoBill
          ELSE billed[m].total = billed[m].used["input"] * PriceOf(m).input
                  + billed[m].used["output"] * PriceOf(m).output
                  + billed[m].used["cacheWrite"] * PriceOf(m).cacheWrite5m
                  + billed[m].used["cacheRead"] * PriceOf(m).cacheRead
      BY <1>4 DEF Eval!BillAddsUp, PriceOf
    <2>2. CASE m # n \/ cost.code # "ok"
      <3>1. billed'[m] = billed[m]
        BY <1>3, <1>6, <2>2
      <3> QED
        BY <2>1, <3>1
    <2>3. CASE m = n /\ cost.code = "ok"
      <3>1. /\ billed'[n].total = billed[n].total + cost.total
            /\ \A axis \in Eval!Axes : billed'[n].used[axis] = billed[n].used[axis] + Eval!Tokens(u, axis)
        BY <1>3, <1>6, <2>3 DEF Bill
      <3> DEFINE Old(axis) == billed[n].used[axis]
                 New(axis) == Eval!Tokens(u, axis)
      <3>2. PICK pi, po, pw, pr : /\ pi = PriceOf(n).input /\ po = PriceOf(n).output
                                  /\ pw = PriceOf(n).cacheWrite5m /\ pr = PriceOf(n).cacheRead
        OBVIOUS
      <3>3. pi \in Int /\ po \in Int /\ pw \in Int /\ pr \in Int
        BY <1>4, <1>5, <2>3, <3>2, PriceType DEF Priced
      <3>4. /\ Old("input") \in Int /\ Old("output") \in Int /\ Old("cacheWrite") \in Int
            /\ Old("cacheRead") \in Int /\ New("input") \in Int /\ New("output") \in Int
            /\ New("cacheWrite") \in Int /\ New("cacheRead") \in Int
        BY <1>7 DEF Eval!Axes
      <3>5. /\ billed[n].total = Old("input") * pi + Old("output") * po + Old("cacheWrite") * pw
                                 + Old("cacheRead") * pr
            /\ cost.total = New("input") * pi + New("output") * po + New("cacheWrite") * pw
                            + New("cacheRead") * pr
        BY <1>5, <2>1, <2>3, <3>2
      <3>6. /\ billed'[n].used["input"] = Old("input") + New("input")
            /\ billed'[n].used["output"] = Old("output") + New("output")
            /\ billed'[n].used["cacheWrite"] = Old("cacheWrite") + New("cacheWrite")
            /\ billed'[n].used["cacheRead"] = Old("cacheRead") + New("cacheRead")
        BY <3>1 DEF Eval!Axes
      <3> HIDE DEF Old, New
      <3>7. /\ (Old("input") + New("input")) * pi = Old("input") * pi + New("input") * pi
            /\ (Old("output") + New("output")) * po = Old("output") * po + New("output") * po
            /\ (Old("cacheWrite") + New("cacheWrite")) * pw = Old("cacheWrite") * pw + New("cacheWrite") * pw
            /\ (Old("cacheRead") + New("cacheRead")) * pr = Old("cacheRead") * pr + New("cacheRead") * pr
        BY <3>3, <3>4, Distribute
      <3>8. /\ Old("input") * pi \in Int /\ New("input") * pi \in Int
            /\ Old("output") * po \in Int /\ New("output") * po \in Int
            /\ Old("cacheWrite") * pw \in Int /\ New("cacheWrite") * pw \in Int
            /\ Old("cacheRead") * pr \in Int /\ New("cacheRead") * pr \in Int
        BY <3>3, <3>4, Distribute
      <3>9. billed'[n].total = (Old("input") + New("input")) * pi + (Old("output") + New("output")) * po
                              + (Old("cacheWrite") + New("cacheWrite")) * pw
                              + (Old("cacheRead") + New("cacheRead")) * pr
        BY <3>1, <3>5, <3>7, <3>8
      <3> QED
        BY <1>5, <2>3, <3>2, <3>6, <3>9
    <2> QED
      BY <2>2, <2>3
  <1>11. \A m : PriceOf(m)' = PriceOf(m)
    BY <1>3 DEF PriceOf
  <1>12. Eval!BillAddsUp'
    BY <1>3, <1>9, <1>10 DEF Eval!BillAddsUp, PriceOf
  <1> QED
    BY <1>8, <1>12 DEF Billing

-----------------------------------------------------------------------------
(***************************************************************************)
(* EvalAndCost: evals.                                                     *)
(***************************************************************************)
LEMMA SameCardinality ==
    ASSUME NEW S
    PROVE  Eval!Cardinality(S) = Cardinality(S)
  BY Zenon DEF Cardinality, Eval!Cardinality

\* Of two parts that hold values, "alike" is the set of the places at which
\* these are the same; the two are then the same as a whole.
LEMMA ListedAlike ==
    ASSUME NEW a \in AllParts, NEW b \in AllParts, NEW alike,
           a.type = b.type, a.type \in {"array", "map"},
           \A k \in DOMAIN a.at \cap DOMAIN b.at : k \in alike <=> a.at[k] = b.at[k]
    PROVE  /\ Eval!Cardinality(DOMAIN a.at) = Eval!Cardinality(DOMAIN b.at)
           /\ \A k \in DOMAIN a.at : k \in alike
           <=> a = b
  <1>1. /\ a = [type |-> a.type, at |-> [k \in DOMAIN a.at |-> a.at[k]]]
        /\ b = [type |-> b.type, at |-> [k \in DOMAIN b.at |-> b.at[k]]]
    BY SummaryAssumption DEF Formed
  <1>2. /\ Eval!Cardinality(DOMAIN a.at) = Cardinality(DOMAIN a.at)
        /\ Eval!Cardinality(DOMAIN b.at) = Cardinality(DOMAIN b.at)
    BY SameCardinality
  <1>3. Cardinality(DOMAIN a.at) = Cardinality(DOMAIN b.at) => DOMAIN a.at = DOMAIN b.at
    BY SummaryAssumption
  <1>4. ASSUME DOMAIN a.at = DOMAIN b.at, \A k \in DOMAIN a.at : k \in alike PROVE a = b
    BY <1>1, <1>4
  <1> QED
    BY <1>2, <1>3, <1>4

LEMMA ObjectsAlike ==
    ASSUME NEW a \in AllParts, NEW b \in AllParts, NEW alike,
           a.type = "object", b.type = "object", ~Eval!Loose(a), ~Eval!Loose(b),
           \A k \in DOMAIN a.at : k \in alike <=> Eval!Field(a, k) = Eval!Field(b, k)
    PROVE  /\ Eval!Cardinality(DOMAIN a.at) = Eval!Cardinality(DOMAIN b.at)
           /\ \A k \in DOMAIN a.at : k \in alike
           <=> a = b
  <1>1. /\ a = [type |-> a.type, at |-> [k \in DOMAIN a.at |-> a.at[k]]]
        /\ b = [type |-> b.type, at |-> [k \in DOMAIN b.at |-> b.at[k]]]
        /\ IsFiniteSet(DOMAIN a.at) /\ IsFiniteSet(DOMAIN b.at)
    BY SummaryAssumption DEF Formed
  <1>2. /\ Eval!Cardinality(DOMAIN a.at) = Cardinality(DOMAIN a.at)
        /\ Eval!Cardinality(DOMAIN b.at) = Cardinality(DOMAIN b.at)
    BY SameCardinality
  <1>3. Eval!Keys(a) = DOMAIN a.at /\ Eval!Keys(b) = DOMAIN b.at
    BY DEF Eval!Keys
  <1>4. \A k \in DOMAIN a.at : Eval!Field(a, k) # Eval!Undef
    BY <1>3 DEF Eval!Loose
  <1>5. ASSUME Cardinality(DOMAIN a.at) = Cardinality(DOMAIN b.at),
               \A k \in DOMAIN a.at : k \in alike
        PROVE  a = b
    <2>1. DOMAIN a.at \subseteq DOMAIN b.at
      BY <1>3, <1>4, <1>5 DEF Eval!Field
    <2>2. DOMAIN a.at = DOMAIN b.at
      BY <1>1, <1>5, <2>1, FS_Subset
    <2>3. \A k \in DOMAIN a.at : a.at[k] = b.at[k]
      BY <1>3, <1>5, <2>2 DEF Eval!Field
    <2> QED
      BY <1>1, <2>2, <2>3
  <1> QED
    BY <1>2, <1>5

LEMMA SetsAlike ==
    ASSUME NEW a \in AllParts, NEW b \in AllParts,
           a.type = "set", b.type = "set", ~Eval!Loose(a), ~Eval!Loose(b)
    PROVE  /\ Eval!Cardinality(a.members) = Eval!Cardinality(b.members)
           /\ \A m \in a.members : \E n \in b.members : Eval!Is(m, n)
           <=> a = b
  <1>1. /\ a = [type |-> "set", members |-> a.members] /\ IsFiniteSet(a.members)
        /\ b = [type |-> "set", members |-> b.members] /\ IsFiniteSet(b.members)
    BY SummaryAssumption DEF Formed
  <1>2. /\ Eval!Cardinality(a.members) = Cardinality(a.members)
        /\ Eval!Cardinality(b.members) = Cardinality(b.members)
    BY SameCardinality
  <1>3. (\A m \in a.members : \E n \in b.members : Eval!Is(m, n)) <=> a.members \subseteq b.members
    BY DEF Eval!Is, Eval!Loose
  <1>4. ASSUME a.members \subseteq b.members, Cardinality(a.members) = Cardinality(b.members)
        PROVE  a.members = b.members
    BY <1>1, <1>4, FS_Subset
  <1> QED
    BY <1>1, <1>2, <1>3, <1>4

\* Values of one kind that hold no others, or of kinds that deepEqual tells.
LEMMA PlainAlike ==
    ASSUME NEW a \in AllParts, NEW b \in AllParts, ~Eval!BlurredHere(a, b),
           ~(a.type = b.type /\ a.type \in Eval!Holding)
    PROVE  /\ Eval!EqualParts(a, b) <=> a = b
           /\ Eval!deepEqual(a, b) <=> a = b
  <1> USE DEF Eval!Composite, Eval!Holding
  <1>1. CASE a.type \notin Eval!Composite \/ b.type \notin Eval!Composite
    BY <1>1 DEF Eval!deepEqual, Eval!EqualParts, Eval!Compared, Eval!Is
  <1>2. CASE a.type \in Eval!Composite /\ b.type \in Eval!Composite
    <2>1. a.type = b.type /\ ~Eval!Loose(a) /\ ~Eval!Loose(b)
      BY <1>2 DEF Eval!BlurredHere
    <2>2. CASE a.type = "date"
      <3>1. a = [type |-> "date", ms |-> a.ms] /\ b = [type |-> "date", ms |-> b.ms]
        BY <2>1, <2>2, SummaryAssumption DEF Formed
      <3>2. a.ms = b.ms <=> a = b
        BY <3>1
      <3> QED
        BY <2>1, <2>2, <3>2 DEF Eval!deepEqual, Eval!EqualParts, Eval!Compared, Eval!Is
    <2>3. CASE a.type = "set"
      BY <2>1, <2>3, SetsAlike DEF Eval!deepEqual, Eval!EqualParts, Eval!Compared, Eval!Is
    <2> QED
      BY <1>2, <2>1, <2>2, <2>3
  <1> QED
    BY <1>1, <1>2

LEMMA PartsAlike ==
    ASSUME NEW a \in AllParts, NEW b \in AllParts, ~Eval!BlurredHere(a, b),
           \A u \in Inside(a) : u.type \notin Eval!Composite
    PROVE  Eval!EqualParts(a, b) <=> a = b
  <1>1. CASE a.type = b.type /\ a.type \in {"array", "map"}
    <2> DEFINE alike == {k \in DOMAIN a.at : Eval!Is(a.at[k], b.at[k])}
    <2>1. \A k \in DOMAIN a.at : a.at[k] \in Inside(a)
      BY <1>1 DEF Inside
    <2>2. \A k \in DOMAIN a.at \cap DOMAIN b.at : k \in alike <=> a.at[k] = b.at[k]
      BY <2>1 DEF Eval!Is
    <2>3. (\A k \in DOMAIN a.at : k \in alike) <=> \A k \in DOMAIN a.at : Eval!Is(a.at[k], b.at[k])
      OBVIOUS
    <2> HIDE DEF alike
    <2>4. /\ Eval!Cardinality(DOMAIN a.at) = Eval!Cardinality(DOMAIN b.at)
          /\ \A k \in DOMAIN a.at : k \in alike
          <=> a = b
      BY <1>1, <2>2, ListedAlike
    <2> QED
      BY <1>1, <2>3, <2>4 DEF Eval!EqualParts, Eval!Compared, Eval!Composite, Eval!Is
  <1>2. CASE a.type = "object" /\ b.type = "object"
    <2> DEFINE alike == {k \in DOMAIN a.at : Eval!Is(Eval!Field(a, k), Eval!Field(b, k))}
    <2>1. Eval!Keys(a) = DOMAIN a.at /\ Eval!Keys(b) = DOMAIN b.at
      BY <1>2 DEF Eval!Keys
    <2>2. \A k \in DOMAIN a.at : Eval!Field(a, k) \in Inside(a)
      BY <1>2, <2>1 DEF Inside, Eval!Field
    <2>3. \A k \in DOMAIN a.at : k \in alike <=> Eval!Field(a, k) = Eval!Field(b, k)
      BY <2>2 DEF Eval!Is
    <2>4. (\A k \in DOMAIN a.at : k \in alike)
            <=> \A k \in DOMAIN a.at : Eval!Is(Eval!Field(a, k), Eval!Field(b, k))
      OBVIOUS
    <2> HIDE DEF alike
    <2>5. ~Eval!Loose(a) /\ ~Eval!Loose(b)
      BY DEF Eval!BlurredHere
    <2>6. /\ Eval!Cardinality(DOMAIN a.at) = Eval!Cardinality(DOMAIN b.at)
          /\ \A k \in DOMAIN a.at : k \in alike
          <=> a = b
      BY <1>2, <2>3, <2>5, ObjectsAlike
    <2> QED
      BY <1>2, <2>1, <2>4, <2>6 DEF Eval!EqualParts, Eval!Compared, Eval!Composite, Eval!Is
  <1>3. CASE ~(a.type = b.type /\ a.type \in Eval!Holding)
    BY <1>3, PlainAlike
  <1> QED
    BY <1>1, <1>2, <1>3 DEF Eval!Holding

\* Where deepEqual is not known to say more or less, it says that two are the
\* same.
LEMMA DeepIsSame ==
    ASSUME NEW a \in Outputs, NEW b \in Outputs, ~Eval!Blurred(a, b)
    PROVE  Eval!deepEqual(a, b) <=> a = b
  <1>1. a \in AllParts /\ b \in AllParts /\ ~Eval!BlurredHere(a, b)
    BY DEF AllParts, Eval!Blurred
  <1>2. ASSUME a.type \in Eval!Holding, NEW k \in DOMAIN a.at
        PROVE  a.at[k] \in AllParts /\ \A u \in Inside(a.at[k]) : u.type \notin Eval!Composite
    <2>1. a.at[k] \in Inside(a)
      BY <1>2 DEF Inside, Eval!Holding
    <2>2. a.at[k] \in AllParts
      BY <2>1 DEF AllParts
    <2>3. \A u \in Inside(a.at[k]) : u.type \notin {"object", "array", "map", "set", "date"}
      BY <2>1, SummaryAssumption
    <2> QED
      BY <2>2, <2>3 DEF Eval!Composite
  <1>3. ASSUME b.type \in Eval!Holding, NEW k \in DOMAIN b.at
        PROVE  b.at[k] \in AllParts
    BY <1>3 DEF Inside, Eval!Holding, AllParts
  <1>4. ASSUME a.type = b.type, a.type \in Eval!Holding, NEW k \in DOMAIN a.at \cap DOMAIN b.at
        PROVE  Eval!EqualParts(a.at[k], b.at[k]) <=> a.at[k] = b.at[k]
    <2>1. ~Eval!BlurredHere(a.at[k], b.at[k])
      BY <1>4 DEF Eval!Blurred
    <2> QED
      BY <1>2, <1>3, <1>4, <2>1, PartsAlike
  <1>5. \A v : Eval!EqualParts(v, Eval!Undef) <=> v = Eval!Undef
    BY DEF Eval!EqualParts, Eval!Compared, Eval!Is, Eval!Undef, Eval!Composite
  <1>6. CASE a.type = b.type /\ a.type \in {"array", "map"}
    <2> DEFINE alike == {k \in DOMAIN a.at : Eval!EqualParts(a.at[k], b.at[k])}
    <2>1. \A k \in DOMAIN a.at \cap DOMAIN b.at : k \in alike <=> a.at[k] = b.at[k]
      BY <1>4, <1>6 DEF Eval!Holding
    <2>2. (\A k \in DOMAIN a.at : k \in alike)
            <=> \A k \in DOMAIN a.at : Eval!EqualParts(a.at[k], b.at[k])
      OBVIOUS
    <2> HIDE DEF alike
    <2>3. /\ Eval!Cardinality(DOMAIN a.at) = Eval!Cardinality(DOMAIN b.at)
          /\ \A k \in DOMAIN a.at : k \in alike
          <=> a = b
      BY <1>1, <1>6, <2>1, ListedAlike
    <2>4. Eval!deepEqual(a, b) <=>
             /\ Eval!Cardinality(DOMAIN a.at) = Eval!Cardinality(DOMAIN b.at)
             /\ \A k \in DOMAIN a.at : Eval!EqualParts(a.at[k], b.at[k])
      BY <1>6 DEF Eval!deepEqual, Eval!Compared, Eval!Composite, Eval!Is
    <2> QED
      BY <2>2, <2>3, <2>4
  <1>7. CASE a.type = "object" /\ b.type = "object"
    <2> DEFINE alike == {k \in DOMAIN a.at : Eval!EqualParts(Eval!Field(a, k), Eval!Field(b, k))}
    <2>1. Eval!Keys(a) = DOMAIN a.at /\ Eval!Keys(b) = DOMAIN b.at
      BY <1>7 DEF Eval!Keys
    <2>2. ASSUME NEW k \in DOMAIN a.at
          PROVE  Eval!EqualParts(Eval!Field(a, k), Eval!Field(b, k))
                   <=> Eval!Field(a, k) = Eval!Field(b, k)
      <3>1. Eval!Field(a, k) = a.at[k]
        BY <2>1 DEF Eval!Field
      <3>2. CASE k \in DOMAIN b.at
        <4>1. Eval!Field(b, k) = b.at[k]
          BY <2>1, <3>2 DEF Eval!Field
        <4> QED
          BY <1>4, <1>7, <3>1, <3>2, <4>1 DEF Eval!Holding
      <3>3. CASE k \notin DOMAIN b.at
        <4>1. Eval!Field(b, k) = Eval!Undef
          BY <2>1, <3>3 DEF Eval!Field
        <4> QED
          BY <1>5, <4>1
      <3> QED
        BY <3>2, <3>3
    <2>3. (\A k \in DOMAIN a.at : k \in alike)
            <=> \A k \in DOMAIN a.at : Eval!EqualParts(Eval!Field(a, k), Eval!Field(b, k))
      OBVIOUS
    <2>4. \A k \in DOMAIN a.at : k \in alike <=> Eval!Field(a, k) = Eval!Field(b, k)
      BY <2>2
    <2> HIDE DEF alike
    <2>5. ~Eval!Loose(a) /\ ~Eval!Loose(b)
      BY <1>1 DEF Eval!BlurredHere
    <2>6. /\ Eval!Cardinality(DOMAIN a.at) = Eval!Cardinality(DOMAIN b.at)
          /\ \A k \in DOMAIN a.at : k \in alike
          <=> a = b
      BY <1>1, <1>7, <2>4, <2>5, ObjectsAlike
    <2>7. Eval!deepEqual(a, b) <=>
             /\ Eval!Cardinality(DOMAIN a.at) = Eval!Cardinality(DOMAIN b.at)
             /\ \A k \in DOMAIN a.at : Eval!EqualParts(Eval!Field(a, k), Eval!Field(b, k))
      BY <1>7, <2>1 DEF Eval!deepEqual, Eval!Compared, Eval!Composite, Eval!Is
    <2> QED
      BY <2>3, <2>6, <2>7
  <1>8. CASE ~(a.type = b.type /\ a.type \in Eval!Holding)
    BY <1>1, <1>8, PlainAlike
  <1> QED
    BY <1>6, <1>7, <1>8 DEF Eval!Holding

EvalTyped ==
    /\ scorers \in {<<>>, <<"exact">>, <<"exact", "judge">>}
    /\ expected \in Seq(Outputs)
    /\ case \in [Eval!Cases -> {"queued", "task", "score", "done"}]
    /\ output \in [Eval!Cases -> Outputs \cup {Eval!Undef}]
    /\ scores \in [Eval!Cases -> Seq(BOOLEAN)]
    /\ failed \subseteq Eval!Cases /\ concurrency \in Nat

\* How far a case is, and what is known of it there.
Marked(c) ==
    /\ case[c] \in {"queued", "task"} =>
         Len(scores[c]) = 0 /\ output[c] = Eval!Undef /\ c \notin failed
    /\ case[c] = "score" =>
         /\ output[c] \in Outputs /\ output[c] # Eval!Undef /\ c \notin failed
         /\ Len(scores[c]) < Len(scorers)
    /\ case[c] = "done" =>
         \/ Len(scores[c]) = 0 /\ (output[c] = Eval!Undef \/ Len(scorers) = 0)
         \/ /\ Len(scores[c]) > 0 /\ output[c] # Eval!Undef /\ c \notin failed
            /\ Len(scores[c]) = Len(scorers)
    /\ Len(scores[c]) > 0 =>
         /\ output[c] \in Outputs
         /\ scores[c][1] <=> Eval!deepEqual(output[c], expected[c])
Marking ==
    /\ EvalTyped
    /\ \A c \in Eval!Cases : Marked(c)
    /\ Cardinality(Eval!Running) <= concurrency
    /\ passed # Eval!None => /\ \A c \in Eval!Cases : case[c] = "done"
                             /\ passed = Eval!PassCount

LEMMA RunningIsFinite ==
    ASSUME EvalTyped
    PROVE  IsFiniteSet(Eval!Running) /\ Cardinality(Eval!Running) \in Nat
  <1>1. PICK n \in Nat : DOMAIN expected = 1..n
    <2>1. expected \in Seq(Outputs)
      BY DEF EvalTyped
    <2> QED
      BY <2>1
  <1>2. IsFiniteSet(1..n)
    BY <1>1, FS_Interval
  <1>3. Eval!Running \subseteq 1..n
    BY <1>1 DEF Eval!Running, Eval!Cases
  <1> QED
    BY <1>2, <1>3, FS_Subset, FS_CardinalityType

LEMMA MarkingAtFirst ==
    ASSUME Eval!Init
    PROVE  Marking
  <1> USE DEF Eval!Init
  <1>1. PICK n \in 0..MaxCases : expected \in [1..n -> Outputs]
    BY Zenon
  <1>2. n \in Nat /\ Eval!Cases = 1..n
    BY <1>1, SummaryAssumption DEF Eval!Cases
  <1>3. \A c \in Eval!Cases : Len(scores[c]) = 0 /\ scores[c] \in Seq(BOOLEAN)
    OBVIOUS
  <1>0. concurrency \in Nat
    BY SummaryAssumption
  <1>4. EvalTyped
    <2>1. scorers \in {<<>>, <<"exact">>, <<"exact", "judge">>}
      BY Zenon
    <2>2. expected \in Seq(Outputs)
      BY <1>1, <1>2
    <2>3. /\ case \in [Eval!Cases -> {"queued", "task", "score", "done"}]
          /\ output \in [Eval!Cases -> Outputs \cup {Eval!Undef}]
          /\ failed \subseteq Eval!Cases
      OBVIOUS
    <2>4. scores \in [Eval!Cases -> Seq(BOOLEAN)]
      BY <1>3
    <2> QED
      BY <1>0, <2>1, <2>2, <2>3, <2>4 DEF EvalTyped
  <1>5. \A c \in Eval!Cases : Marked(c)
    BY <1>3 DEF Marked
  <1>6. Eval!Running = {}
    BY DEF Eval!Running
  <1>7. Cardinality(Eval!Running) = 0
    BY <1>6, FS_EmptySet
  <1>8. passed = Eval!None
    OBVIOUS
  <1> HIDE DEF Eval!Init
  <1> QED
    BY <1>4, <1>5, <1>7, <1>8, <1>0 DEF Marking

\* A step of one case leaves the others as they are, and none is taken once
\* all are done.
LEMMA MarkingMoved ==
    ASSUME Marking, EvalTyped', NEW c \in Eval!Cases, case[c] # "done",
           UNCHANGED <<scorers, concurrency, expected, passed>>, Marked(c)',
           \A d \in Eval!Cases \ {c} :
              /\ case'[d] = case[d] /\ output'[d] = output[d] /\ scores'[d] = scores[d]
              /\ d \in failed' <=> d \in failed,
           \/ case[c] # "queued"
           \/ Cardinality(Eval!Running) < concurrency
    PROVE  Marking'
  <1>1. EvalTyped /\ Eval!Cases' = Eval!Cases
    BY DEF Marking, Eval!Cases
  <1>2. \A d \in Eval!Cases : Marked(d)'
    <2>1. ASSUME NEW d \in Eval!Cases \ {c} PROVE Marked(d)'
      <3>1. Marked(d)
        BY DEF Marking
      <3> QED
        BY <2>1, <3>1 DEF Marked
    <2> QED
      BY <2>1
  <1>3. Cardinality(Eval!Running)' <= concurrency
    <2>1. IsFiniteSet(Eval!Running) /\ Cardinality(Eval!Running) \in Nat
          /\ Cardinality(Eval!Running) <= concurrency /\ concurrency \in Nat
      BY <1>1, RunningIsFinite DEF Marking, EvalTyped
    <2>2. Eval!Running' \subseteq Eval!Running \cup {c}
      BY <1>1 DEF Eval!Running
    <2>3. CASE case[c] # "queued"
      <3>1. c \in Eval!Running
        BY <2>3 DEF Eval!Running
      <3>2. Eval!Running' \subseteq Eval!Running
        BY <2>2, <3>1
      <3>3. Cardinality(Eval!Running)' <= Cardinality(Eval!Running) /\ Cardinality(Eval!Running)' \in Nat
        BY <2>1, <3>2, FS_Subset, FS_CardinalityType
      <3> QED
        BY <2>1, <3>3
    <2>4. CASE case[c] = "queued" /\ Cardinality(Eval!Running) < concurrency
      <3>1. c \notin Eval!Running
        BY <2>4 DEF Eval!Running
      <3>2. /\ IsFiniteSet(Eval!Running \cup {c})
            /\ Cardinality(Eval!Running \cup {c}) = Cardinality(Eval!Running) + 1
        BY <2>1, <3>1, FS_AddElement
      <3>3. Cardinality(Eval!Running)' <= Cardinality(Eval!Running \cup {c})
            /\ Cardinality(Eval!Running)' \in Nat
        BY <2>2, <3>2, FS_Subset, FS_CardinalityType
      <3> QED
        BY <2>1, <2>4, <3>2, <3>3
    <2> QED
      BY <2>3, <2>4
  <1>4. passed = Eval!None /\ passed' = Eval!None
    BY DEF Marking
  <1>5. Eval!None' = Eval!None
    BY DEF Eval!None
  <1> QED
    BY <1>1, <1>2, <1>3, <1>4, <1>5 DEF Marking

LEMMA MarkingWhenStarted ==
    ASSUME Marking, NEW c \in Eval!Cases, Eval!Start(c)
    PROVE  Marking'
  <1>1. /\ case[c] = "queued" /\ Cardinality(Eval!Running) < concurrency
        /\ case' = [case EXCEPT ![c] = "task"]
        /\ UNCHANGED <<scorers, judged, concurrency, expected, output, scores, failed, passed>>
    BY SameCardinality DEF Eval!Start
  <1>2. EvalTyped /\ Marked(c)
    BY DEF Marking
  <1>3. case \in [Eval!Cases -> {"queued", "task", "score", "done"}]
    BY <1>2 DEF EvalTyped
  <1>4. EvalTyped'
    BY <1>1, <1>2 DEF EvalTyped, Eval!Cases
  <1>5. Marked(c)'
    BY <1>1, <1>2, <1>3 DEF Marked
  <1> QED
    BY <1>1, <1>3, <1>4, <1>5, MarkingMoved

LEMMA MarkingWhenReturned ==
    ASSUME Marking, NEW c \in Eval!Cases, NEW v \in Outputs \cup {Eval!Undef},
           Eval!TaskReturns(c, v)
    PROVE  Marking'
  <1>1. /\ case[c] = "task"
        /\ case' = [case EXCEPT ![c] = IF v = Eval!Undef \/ scorers = <<>> THEN "done" ELSE "score"]
        /\ output' = [output EXCEPT ![c] = v]
        /\ UNCHANGED <<scorers, judged, concurrency, expected, scores, failed, passed>>
    BY DEF Eval!TaskReturns
  <1>2. EvalTyped /\ Marked(c)
    BY DEF Marking
  <1>3. /\ case \in [Eval!Cases -> {"queued", "task", "score", "done"}]
        /\ output \in [Eval!Cases -> Outputs \cup {Eval!Undef}]
        /\ scorers \in {<<>>, <<"exact">>, <<"exact", "judge">>}
    BY <1>2 DEF EvalTyped
  <1>4. EvalTyped'
    BY <1>1, <1>2 DEF EvalTyped, Eval!Cases
  <1>5. scorers = <<>> <=> Len(scorers) = 0
    BY <1>3
  <1>6. Len(scorers) \in Nat
    BY <1>3
  <1>7. Len(scores[c]) = 0 /\ c \notin failed
    BY <1>1, <1>2 DEF Marked
  <1>8. case'[c] = (IF v = Eval!Undef \/ Len(scorers) = 0 THEN "done" ELSE "score") /\ output'[c] = v
    BY <1>1, <1>3, <1>5
  <1>9. Marked(c)'
    BY <1>1, <1>6, <1>7, <1>8 DEF Marked
  <1> QED
    BY <1>1, <1>3, <1>4, <1>9, MarkingMoved

LEMMA MarkingWhenThrown ==
    ASSUME Marking, NEW c \in Eval!Cases, Eval!TaskThrows(c)
    PROVE  Marking'
  <1>1. /\ case[c] = "task" /\ case' = [case EXCEPT ![c] = "done"] /\ failed' = failed \cup {c}
        /\ UNCHANGED <<scorers, judged, concurrency, expected, output, scores, passed>>
    BY DEF Eval!TaskThrows
  <1>2. EvalTyped /\ Marked(c)
    BY DEF Marking
  <1>3. case \in [Eval!Cases -> {"queued", "task", "score", "done"}]
    BY <1>2 DEF EvalTyped
  <1>4. EvalTyped'
    BY <1>1, <1>2 DEF EvalTyped, Eval!Cases
  <1>5. Marked(c)'
    BY <1>1, <1>2, <1>3 DEF Marked
  <1> QED
    BY <1>1, <1>3, <1>4, <1>5, MarkingMoved

\* The first scorer is exactMatch, so a first score is what deepEqual says.
LEMMA MarkingWhenScored ==
    ASSUME Marking, NEW c \in Eval!Cases, case[c] = "score", NEW pass \in BOOLEAN,
           Eval!Scored(c, pass),
           Len(scores[c]) = 0 => (pass <=> Eval!deepEqual(output[c], expected[c]))
    PROVE  Marking'
  <1>1. /\ scores' = [scores EXCEPT ![c] = Append(scores[c], pass)]
        /\ case' = [case EXCEPT ![c] = IF Len(scores'[c]) = Len(scorers) THEN "done" ELSE case[c]]
        /\ UNCHANGED <<scorers, judged, concurrency, expected, output, failed, passed>>
    BY DEF Eval!Scored
  <1>2. EvalTyped /\ Marked(c)
    BY DEF Marking
  <1>3. /\ case \in [Eval!Cases -> {"queued", "task", "score", "done"}]
        /\ scores \in [Eval!Cases -> Seq(BOOLEAN)]
        /\ scorers \in {<<>>, <<"exact">>, <<"exact", "judge">>}
    BY <1>2 DEF EvalTyped
  <1>4. PICK s : s = scores[c]
    OBVIOUS
  <1>5. /\ s \in Seq(BOOLEAN) /\ Len(s) \in Nat
        /\ scores'[c] = Append(s, pass) /\ Append(s, pass) \in Seq(BOOLEAN)
        /\ Len(Append(s, pass)) = Len(s) + 1 /\ Append(s, pass)[Len(s) + 1] = pass
        /\ Len(s) > 0 => Append(s, pass)[1] = s[1]
    BY <1>1, <1>3, <1>4
  <1>6. /\ output[c] \in Outputs /\ output[c] # Eval!Undef /\ c \notin failed
        /\ Len(s) < Len(scorers) /\ Len(scorers) \in Nat
        /\ Len(s) > 0 => (s[1] <=> Eval!deepEqual(output[c], expected[c]))
    BY <1>2, <1>3, <1>4, <1>5 DEF Marked
  <1>7. case'[c] = IF Len(s) + 1 = Len(scorers) THEN "done" ELSE "score"
    BY <1>1, <1>3, <1>5
  <1>8. EvalTyped'
    <2>1. scores' \in [Eval!Cases -> Seq(BOOLEAN)]
      BY <1>1, <1>3, <1>4, <1>5
    <2>2. case' \in [Eval!Cases -> {"queued", "task", "score", "done"}]
      BY <1>1, <1>3
    <2> QED
      BY <1>1, <1>2, <2>1, <2>2 DEF EvalTyped, Eval!Cases
  <1>9. scores'[c][1] <=> Eval!deepEqual(output[c], expected[c])
    <2>1. CASE Len(s) = 0
      <3>1. scores'[c][1] = pass
        BY <1>5, <2>1
      <3> QED
        BY <1>4, <2>1, <3>1
    <2>2. CASE Len(s) > 0
      <3>1. scores'[c][1] = s[1]
        BY <1>5, <2>2
      <3> QED
        BY <1>6, <2>2, <3>1
    <2> QED
      BY <1>5, <2>1, <2>2
  <1>10. Marked(c)'
    <2>1. output'[c] = output[c] /\ expected'[c] = expected[c]
      BY <1>1
    <2> QED
      BY <1>1, <1>5, <1>6, <1>7, <1>9, <2>1 DEF Marked
  <1> QED
    BY <1>1, <1>3, <1>8, <1>10, MarkingMoved

LEMMA MarkingWhenSummed ==
    ASSUME Marking, Eval!Summarise
    PROVE  Marking'
  <1>1. /\ \A c \in Eval!Cases : case[c] = "done"
        /\ passed' = Eval!PassCount
        /\ UNCHANGED <<scorers, judged, concurrency, expected, case, output, scores, failed>>
    BY DEF Eval!Summarise
  <1>2. EvalTyped' /\ \A c \in Eval!Cases' : Marked(c)'
    BY <1>1 DEF Marking, EvalTyped, Eval!Cases, Marked
  <1>3. Cardinality(Eval!Running)' <= concurrency
    BY <1>1 DEF Marking, Eval!Running, Eval!Cases
  <1>4. Eval!PassCount' = Eval!PassCount /\ Eval!Cases' = Eval!Cases
    BY <1>1 DEF Eval!PassCount, Eval!Cases, Eval!AllPass
  <1> QED
    BY <1>1, <1>2, <1>3, <1>4 DEF Marking

LEMMA MarkingNext ==
    ASSUME Marking, Eval!Next
    PROVE  Marking'
  <1>1. ASSUME NEW c \in Eval!Cases, Eval!ExactMatch(c) PROVE Marking'
    <2>1. PICK pass \in BOOLEAN : pass = Eval!deepEqual(output[c], expected[c])
      BY Zenon DEF Eval!deepEqual, Eval!Compared
    <2>2. case[c] = "score" /\ Eval!Scored(c, pass)
      BY <1>1, <2>1, Zenon DEF Eval!ExactMatch, Eval!Turn
    <2>3. pass <=> Eval!deepEqual(output[c], expected[c])
      BY <2>1
    <2> QED
      BY <2>2, <2>3, MarkingWhenScored
  <1>2. ASSUME NEW c \in Eval!Cases, NEW verdict, Eval!Judge(c, verdict) PROVE Marking'
    <2>1. PICK pass \in BOOLEAN : pass = (verdict = "pass")
      BY Zenon
    <2>2. case[c] = "score" /\ scorers[Len(scores[c]) + 1] = "judge" /\ Eval!Scored(c, pass)
      BY <1>2, <2>1, Zenon DEF Eval!Judge, Eval!Turn
    <2>3. Len(scores[c]) # 0
      <3>1. EvalTyped /\ Marked(c)
        BY DEF Marking
      <3>2. scorers \in {<<>>, <<"exact">>, <<"exact", "judge">>}
        BY <3>1 DEF EvalTyped
      <3>3. Len(scores[c]) < Len(scorers)
        BY <2>2, <3>1 DEF Marked
      <3>4. scorers = <<"exact">> \/ scorers = <<"exact", "judge">>
        <4>1. Len(scores[c]) \in Nat
          BY <3>1 DEF EvalTyped
        <4>2. scorers # <<>>
          BY <3>3, <4>1
        <4> QED
          BY <3>2, <4>2
      <3>5. scorers[1] = "exact"
        BY <3>4
      <3> QED
        BY <2>2, <3>5
    <2> QED
      BY <2>2, <2>3, MarkingWhenScored
  <1> QED
    BY <1>1, <1>2, MarkingWhenStarted, MarkingWhenReturned, MarkingWhenThrown, MarkingWhenSummed
       DEF Eval!Next, Eval!Own

\* A case that is done passed every scorer exactly when it passed.
LEMMA DonePasses ==
    ASSUME Marking, NEW c \in Eval!Cases, case[c] = "done"
    PROVE  Eval!AllPass(c) <=> Eval!Pass(c)
  <1>1. EvalTyped /\ Marked(c)
    BY DEF Marking
  <1>2. PICK s : s = scores[c]
    OBVIOUS
  <1>3. /\ s \in Seq(BOOLEAN) /\ Len(s) \in Nat /\ DOMAIN s = 1..Len(s)
        /\ s = <<>> <=> Len(s) = 0
    BY <1>1, <1>2 DEF EvalTyped
  <1>4. /\ scorers \in {<<>>, <<"exact">>, <<"exact", "judge">>}
        /\ output[c] \in Outputs \cup {Eval!Undef} /\ expected[c] \in Outputs
    BY <1>1 DEF EvalTyped, Eval!Cases
  <1>5. /\ scorers = <<>> <=> Len(scorers) = 0
        /\ DOMAIN scorers = 1..Len(scorers) /\ Len(scorers) \in Nat
        /\ \A i \in DOMAIN scorers : scorers[i] = "exact" <=> i = 1
    BY <1>4
  <1>6. CASE Len(s) = 0
    <2>1. ~Eval!AllPass(c)
      BY <1>2, <1>3, <1>6 DEF Eval!AllPass
    <2>2. output[c] = Eval!Undef \/ Len(scorers) = 0
      BY <1>1, <1>2, <1>6 DEF Marked
    <2>3. ~Eval!Pass(c)
      BY <1>5, <2>2 DEF Eval!Pass
    <2> QED
      BY <2>1, <2>3
  <1>7. CASE Len(s) > 0
    <2>1. /\ output[c] # Eval!Undef /\ c \notin failed /\ Len(s) = Len(scorers)
          /\ output[c] \in Outputs /\ (s[1] <=> Eval!deepEqual(output[c], expected[c]))
      BY <1>1, <1>2, <1>7 DEF Marked
    <2>2. Eval!AllPass(c) <=> \A i \in DOMAIN s : s[i]
      BY <1>2, <1>3, <1>7, <2>1 DEF Eval!AllPass
    <2>3. Eval!Pass(c) <=>
            \A i \in DOMAIN s : IF scorers[i] = "exact" /\ ~Eval!Blurred(output[c], expected[c])
                                THEN output[c] = expected[c] ELSE s[i]
      BY <1>2, <1>3, <1>5, <1>7, <2>1 DEF Eval!Pass
    <2>4. ~Eval!Blurred(output[c], expected[c]) => (s[1] <=> output[c] = expected[c])
      BY <1>4, <2>1, DeepIsSame
    <2>5. \A i \in DOMAIN s : scorers[i] = "exact" => i = 1
      BY <1>3, <1>5, <2>1
    <2> QED
      BY <2>2, <2>3, <2>4, <2>5
  <1> QED
    BY <1>3, <1>6, <1>7

LEMMA MarkingIsFair ==
    ASSUME Marking
    PROVE  Eval!EvalIsFair
  <1>1. Eval!Cardinality(Eval!Running) <= concurrency
    BY SameCardinality DEF Marking
  <1>2. ASSUME NEW c \in Eval!Cases, ~Eval!Blurred(output[c], expected[c]), scores[c] # <<>>
        PROVE  scores[c][1] = (output[c] = expected[c])
    <2>1. EvalTyped /\ Marked(c)
      BY DEF Marking
    <2>2. scores[c] \in Seq(BOOLEAN) /\ expected[c] \in Outputs
      BY <2>1 DEF EvalTyped, Eval!Cases
    <2>3. Len(scores[c]) > 0 /\ scores[c][1] \in BOOLEAN
      BY <1>2, <2>2
    <2>4. output[c] \in Outputs /\ (scores[c][1] <=> Eval!deepEqual(output[c], expected[c]))
      BY <2>1, <2>3 DEF Marked
    <2>5. scores[c][1] <=> output[c] = expected[c]
      BY <1>2, <2>2, <2>4, DeepIsSame
    <2> QED
      BY <2>3, <2>5, Zenon
  <1>3. ASSUME passed # Eval!None
        PROVE  passed = Eval!Cardinality({c \in Eval!Cases : Eval!Pass(c)})
    <2>1. (\A c \in Eval!Cases : case[c] = "done") /\ passed = Eval!PassCount
      BY <1>3 DEF Marking
    <2>2. {c \in Eval!Cases : Eval!AllPass(c)} = {c \in Eval!Cases : Eval!Pass(c)}
      BY <2>1, DonePasses
    <2> QED
      BY <2>1, <2>2 DEF Eval!PassCount
  <1> QED
    BY <1>1, <1>2, <1>3 DEF Eval!EvalIsFair

-----------------------------------------------------------------------------
\* Evals, bills and probes, each in its part.
Summarised ==
    /\ part = "eval" => Marking
    /\ part = "cost" => Billing
    /\ part = "ways" => Buffered /\ (way = "gate" => atom \in Rules!Atoms)

LEMMA BufferedNext ==
    ASSUME Buffered, way = "gate" => atom \in Rules!Atoms, Rules!WayNext
    PROVE  Buffered' /\ (way = "gate" => atom \in Rules!Atoms)'
  <1>1. way' = way /\ atom' = atom
    BY DEF Rules!WayNext, Rules!Pull, Rules!PullError, Rules!Exhausted, Rules!Evaluate
  <1>2. Rules!Atoms' = Rules!Atoms
    BY DEF Rules!Atoms
  <1>3. CASE Rules!Evaluate
    BY <1>3, BufferedWhenAsked DEF Rules!Evaluate
  <1> QED
    BY <1>1, <1>2, <1>3, BufferedWhenPulled, BufferedWhenBroken, BufferedAtTheEnd DEF Rules!WayNext

LEMMA SummarisedInductive ==
    /\ Init => Summarised
    /\ Summarised /\ [Next]_vars => Summarised'
    /\ Summarised => SummaryIsTrue
  <1>1. ASSUME Init PROVE Summarised
    <2>1. part = "ways" => Rules!WayInit
      BY <1>1 DEF Init
    <2>2. Rules!WayInit => (way = "gate" => atom \in Rules!Atoms)
      BY DEF Rules!WayInit
    <2> QED
      BY <1>1, <2>1, <2>2, MarkingAtFirst, BillingAtFirst, BufferedAtFirst DEF Init, Summarised
  <1>2. ASSUME Summarised, [Next]_vars PROVE Summarised'
    <2>1. ASSUME Marking, UNCHANGED evalVars PROVE Marking'
      BY <2>1 DEF evalVars, Marking, EvalTyped, Marked, Eval!Cases, Eval!Running, Eval!PassCount,
                  Eval!AllPass
    <2>2. ASSUME Billing, UNCHANGED costVars PROVE Billing'
      BY <2>2 DEF costVars, Billing, BillTyped, Eval!BillAddsUp
    <2>3. ASSUME Buffered, UNCHANGED wayVars PROVE Buffered'
      BY <2>3 DEF wayVars, Buffered, WayTyped, Cut, Rules!Size, Rules!Through, Rules!WindowsAreCut,
                  Rules!GatesAgree
    <2>4. ASSUME UNCHANGED wayVars, way = "gate" => atom \in Rules!Atoms
          PROVE  (way = "gate" => atom \in Rules!Atoms)'
      BY <2>4 DEF wayVars, Rules!Atoms
    <2> QED
      BY <1>2, <2>1, <2>2, <2>3, <2>4, PartSteps, MarkingNext, BillingNext, BufferedNext DEF Summarised
  <1>3. ASSUME Summarised PROVE SummaryIsTrue
    <2>1. Billing => Eval!BillAddsUp
      BY DEF Billing
    <2>2. Buffered /\ done => Rules!WindowsAreCut /\ Rules!GatesAgree
      BY DEF Buffered
    <2>3. ~done => Rules!WindowsAreCut /\ Rules!GatesAgree
      BY DEF Rules!WindowsAreCut, Rules!GatesAgree
    <2> QED
      BY <1>3, <2>1, <2>2, <2>3, MarkingIsFair DEF Summarised, SummaryIsTrue
  <1> QED
    BY <1>1, <1>2, <1>3

(* However the cases of an eval overlap, its summary counts those that       *)
(* passed; whatever is called in whatever order, the bill of each model is   *)
(* that of the tokens its calls used; and whatever an aggregate of the       *)
(* probes is given, it has a summary of each window there was, in order, and *)
(* the encodings of a gate agree.                                            *)
THEOREM SummaryIsTrueAlways == Spec => []SummaryIsTrue
  BY SummarisedInductive, PTL DEF Spec
==============================================================================
