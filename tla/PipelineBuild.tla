---------------------------- MODULE PipelineBuild ----------------------------
(* The builder and what it hands to the composer: every call of the chain    *)
(* (from, through, store, review, to) returns a new pipeline over a new      *)
(* definition, so that a pipeline can be continued in several ways; a run    *)
(* turns the definition into the composer's steps and passes its options on, *)
(* directly or through definePipeline. And the contexts of the runs.         *)
EXTENDS Naturals, Sequences, FiniteSets

CONSTANTS
    MaxPipes,       \* pipelines built
    MaxSteps,       \* stages in one, the source included
    MaxRuns,        \* runs started
    Limit           \* tokens of a serve's bucket

VARIABLES
    defs,           \* the definitions: each a sequence of stages
    pipes,          \* the pipelines: which definition, and whether it ends in a serve
    chain,          \* of each pipeline: the calls that built it
    runs            \* the runs: of which pipeline, what the composer was given,
                    \* the tokens left in its bucket and what it has sent

buildVars == <<defs, pipes, chain, runs>>

Stages == [kind: {"process", "store", "review", "serve"}, retry: BOOLEAN, limited: BOOLEAN]
(* What the types let a stage declare.                                       *)
Declared == {s \in Stages: /\ s.kind \in {"store", "review"} => ~s.retry
                           /\ s.limited => s.kind = "serve"}
Source == [kind |-> "source", retry |-> TRUE, limited |-> TRUE]

Options == {"metadata", "signal", "idempotencyKey", "parentTraceContext", "costBudget", "deps"}
RunPasses == Options \ {"deps"}
DefinedPasses == RunPasses \ {"costBudget"}

-----------------------------------------------------------------------------
Init == defs = <<>> /\ pipes = <<>> /\ chain = <<>> /\ runs = <<>>

From ==
    /\ Len(pipes) < MaxPipes
    /\ defs' = Append(defs, <<Source>>)
    /\ pipes' = Append(pipes, [def |-> Len(defs) + 1, terminal |-> FALSE])
    /\ chain' = Append(chain, <<Source>>)
    /\ UNCHANGED runs

(* A review becomes a process when the chain is built, without a retry       *)
(* policy of its own; so does the review of a definition made otherwise.     *)
stepOf(s) == [s EXCEPT !.kind = IF @ = "review" THEN "process" ELSE @]
toComposerStep(step) == stepOf(step)

(* through, store and review; to. The new definition is a copy.              *)
ExtendInPlace(p, s) ==                                                  \* mutant
    /\ Len(pipes) < MaxPipes /\ ~pipes[p].terminal /\ Len(chain[p]) < MaxSteps
    /\ defs' = [defs EXCEPT ![pipes[p].def] = Append(@, stepOf(s))]
    /\ pipes' = Append(pipes, [def |-> pipes[p].def, terminal |-> s.kind = "serve"])
    /\ chain' = Append(chain, Append(chain[p], s))
    /\ UNCHANGED runs
Extend(p, s) ==
    /\ Len(pipes) < MaxPipes /\ ~pipes[p].terminal /\ Len(chain[p]) < MaxSteps
    /\ defs' = Append(defs, Append(defs[pipes[p].def], stepOf(s)))
    /\ pipes' = Append(pipes, [def |-> Len(defs) + 1, terminal |-> s.kind = "serve"])
    /\ chain' = Append(chain, Append(chain[p], s))
    /\ UNCHANGED runs

(* The bucket of a serve is made with the steps, so each run has its own.    *)
Bucket(def) == IF \E i \in DOMAIN def: def[i].kind = "serve" /\ def[i].limited
               THEN Limit ELSE Limit + 1                \* Limit + 1: no bucket
Run(p, options, passes) ==
    LET def == defs[pipes[p].def] IN
    /\ pipes[p].terminal /\ Len(runs) < MaxRuns
    /\ runs' = Append(runs, [pipe |-> p, given |-> options, passed |-> options \cap passes,
                             steps |-> [i \in 1..(Len(def) - 1) |-> toComposerStep(def[i + 1])],
                             tokens |-> Bucket(def), sent |-> 0])
    /\ UNCHANGED <<defs, pipes, chain>>

(* What a pipeline says of itself: its stages, the source included, each by  *)
(* its kind.                                                                 *)
describe(p) == LET def == defs[pipes[p].def] IN [i \in DOMAIN def |-> def[i].kind]

(* Within one window of the bucket.                                          *)
Send(r) ==
    /\ runs[r].tokens > 0
    /\ runs' = [runs EXCEPT ![r].tokens = @ - 1, ![r].sent = @ + 1]
    /\ UNCHANGED <<defs, pipes, chain>>

Next ==
    \/ From
    \/ \E p \in DOMAIN pipes:
          \/ \E s \in Declared: Extend(p, s)
          \/ \E options \in {{}, {"signal", "costBudget"}, {"metadata", "deps"}},
                passes \in {RunPasses, DefinedPasses}: Run(p, options, passes)
    \/ \E r \in DOMAIN runs: Send(r)

-----------------------------------------------------------------------------
(* However pipelines are continued from one another, each describes and runs *)
(* the calls that built it and no other's, a review as a process; a run's    *)
(* steps are those after the source, with the policies they declared; and    *)
(* what one run sends in a window stays within the limit its serve declares. *)
RunsWhatWasBuilt ==
    LET kinds(p) == [i \in DOMAIN chain[p] |-> IF chain[p][i].kind = "review" THEN "process"
                                               ELSE chain[p][i].kind]
    IN  /\ \A p \in DOMAIN pipes: describe(p) = kinds(p)
        /\ \A r \in DOMAIN runs:
              LET built == chain[runs[r].pipe]
                  steps == runs[r].steps
              IN  /\ Len(steps) = Len(built) - 1
                  /\ \A i \in DOMAIN steps: /\ steps[i].kind = kinds(runs[r].pipe)[i + 1]
                                            /\ steps[i].retry = built[i + 1].retry
                                            /\ steps[i].limited = built[i + 1].limited
                  /\ built[Len(built)].limited => runs[r].sent <= Limit

(* A pipeline describes its reviews as such, as define-pipeline.ts:93-94 is  *)
(* ready to do. Not one that was built: its review is a process by then.     *)
ReviewsAreDescribed ==
    \A p \in DOMAIN pipes, i \in 1..MaxSteps:
        i \in DOMAIN chain[p] /\ chain[p][i].kind = "review" => describe(p)[i] = "review"

(* Every option a caller gives reaches the run. Not deps, nor a costBudget   *)
(* given to a defined pipeline.                                              *)
OptionsArrive == \A r \in DOMAIN runs: runs[r].passed = runs[r].given

(* A serve keeps its rate whoever runs it. Two runs have two buckets.        *)
ServeKeepsRate ==
    \A r, q \in DOMAIN runs:
        /\ r # q /\ runs[r].pipe = runs[q].pipe
        /\ chain[runs[r].pipe][Len(chain[runs[r].pipe])].limited
        => runs[r].sent + runs[q].sent <= Limit

-----------------------------------------------------------------------------
(***************************************************************************)
(* The contexts of runs (packages/core): createContext makes one per run,  *)
(* deriveAtomCtx a view of it for the emit of one atom, under a key that   *)
(* idempotency.ts signs, and serializable-context.ts carries one over a    *)
(* wire.  Views share the metadata of the context they are of.             *)
(***************************************************************************)
CONSTANTS
    RunIds,       \* run ids that callers give (the Inngest host does)
    ServeIds,     \* ids of serve steps, which pipelines choose freely
    AtomIds,      \* ids of atoms, made by the sources
    MaxContexts,  \* bound: contexts
    MaxAttached   \* bound: calls of attachMetadata

\* An id is the sequence of the parts that a ":" would separate in its text:
\* ids of serves may have several, generated ids have one.
VARIABLES
    contexts,    \* contexts in the order they were made
    cells,       \* the metadata objects: cells[1] is the caller's own
    attached,    \* what was attached: the context, and under which name
    propagator,  \* TRUE iff a W3C propagator is registered
    signingKey   \* the value of PK_SIGNING_KEY

contextVars == <<contexts, cells, attached, propagator, signingKey>>

NoKey == [text |-> <<>>, mac |-> <<>>]
NoTrace == "none"
Contexts == DOMAIN contexts
\* Generated ids, whether ulids or uuids, are new.
FreshId == <<100 + Len(contexts)>>

KeyOfAttempt(runId, serve, atom) ==   \* mutant
    LET scopeStr == runId \o serve \o atom
    IN [text |-> scopeStr, mac |-> <<signingKey, FreshId>>]
KeyWithoutAtom(runId, serve, atom) ==   \* mutant
    [text |-> runId \o serve, mac |-> <<signingKey, runId \o serve>>]
\* The scope in clear, and the MAC of it under a key derived from the master
\* key; without a master key it throws.
ScopedIdempotencyKey(runId, serve, atom) ==
    LET scopeStr == runId \o serve \o atom
    IN [text |-> scopeStr, mac |-> <<signingKey, scopeStr>>]
HasMasterKey == signingKey # "none"

AliasesMetadata(id, key, t) ==   \* mutant
    /\ contexts' = Append(contexts, [runId |-> id, key |-> key, trace |-> t, cell |-> 1,
                                     root |-> Len(contexts) + 1, emits |-> <<>>, from |-> 0])
    /\ UNCHANGED <<cells, attached, propagator, signingKey>>
\* A context of its own, with a copy of the metadata that its caller gives.
CreateContext(id, key, t) ==
    /\ cells' = Append(cells, cells[1])
    /\ contexts' = Append(contexts, [runId |-> id, key |-> key, trace |-> t,
                                     cell |-> Len(cells) + 1, root |-> Len(contexts) + 1,
                                     emits |-> <<>>, from |-> 0])
    /\ UNCHANGED <<attached, propagator, signingKey>>

\* runComposer makes the id of the run itself, and a key unless it is given
\* one; a host that knows the run gives its id and no key.
RunComposer(t) == CreateContext(FreshId, [text |-> FreshId, mac |-> <<>>], t)
HostRuns(t) == \E id \in RunIds : CreateContext(id, NoKey, t)

\* The view for a try of an emit.  emits is what the key is made for.
DeriveAtomCtx(i, serve, atom) ==
    /\ HasMasterKey
    /\ LET parent == contexts[i]
       IN contexts' = Append(contexts,
              [parent EXCEPT !.key = ScopedIdempotencyKey(parent.runId, serve, atom),
                             !.emits = <<parent.runId, serve, atom>>, !.from = 0])
    /\ UNCHANGED <<cells, attached, propagator, signingKey>>

ExtractWireContext(ctx) ==
    [runId |-> ctx.runId, traceparent |-> IF propagator THEN ctx.trace ELSE NoTrace,
     idempotencyKey |-> ctx.key]
KeepsOwnKey(wire, ctx) ==   \* mutant
    [ctx EXCEPT !.trace = IF propagator THEN wire.traceparent ELSE NoTrace]
\* A wire with no traceparent, and a runtime with no propagator, give the
\* root context; the run id on the wire is not looked at.
InjectWireContext(wire, ctx) ==
    [ctx EXCEPT !.trace = IF propagator THEN wire.traceparent ELSE NoTrace,
                !.key = IF wire.idempotencyKey # NoKey THEN wire.idempotencyKey ELSE ctx.key]
\* A context i goes over a wire to a runtime that has context j.
CrossWire(i, j) ==
    /\ contexts' = Append(contexts,
           [InjectWireContext(ExtractWireContext(contexts[i]), contexts[j]) EXCEPT
                !.from = i, !.emits = contexts[IF contexts[i].key # NoKey THEN i ELSE j].emits])
    /\ UNCHANGED <<cells, attached, propagator, signingKey>>

AttachMetadata(i, name) ==
    /\ cells' = [cells EXCEPT ![contexts[i].cell] = @ \cup {name}]
    /\ attached' = Append(attached, [by |-> i, name |-> name])
    /\ UNCHANGED <<contexts, propagator, signingKey>>

ContextInit ==
    /\ contexts = <<>> /\ cells = <<{"given"}>> /\ attached = <<>>
    /\ propagator \in BOOLEAN
    /\ signingKey \in {"none", "master"}

ContextNext ==
    \/ /\ Len(contexts) < MaxContexts
       /\ \/ \E t \in {NoTrace, "caller"} : RunComposer(t) \/ HostRuns(t)
          \/ \E i \in Contexts, serve \in ServeIds, atom \in AtomIds : DeriveAtomCtx(i, serve, atom)
          \/ \E i, j \in Contexts : CrossWire(i, j)
    \/ /\ Len(attached) < MaxAttached
       /\ \E i \in Contexts, name \in {"x", "y"} : AttachMetadata(i, name)

-----------------------------------------------------------------------------
\* Two tries that emit under one key emit one atom at one serve in one run, and
\* the tries of one emit all have its key, also over a wire
\* (scopedIdempotencyKey, injectWireContext).
KeysNameEmits ==
    \A i, j \in Contexts :
        contexts[i].emits # <<>> /\ contexts[j].emits # <<>> =>
            (contexts[i].key = contexts[j].key <=> contexts[i].emits = contexts[j].emits)

\* Every view of a run shows what was attached through any of them, and
\* nothing of other runs, not even when they were given one metadata object
\* (createContext, deriveAtomCtx, injectWireContext).
RunsSeeTheirOwn ==
    /\ cells[1] = {"given"}
    /\ \A i \in Contexts :
           cells[contexts[i].cell] =
               {"given"} \cup {attached[n].name : n \in
                    {m \in DOMAIN attached : contexts[attached[m].by].root = contexts[i].root}}

\* With a propagator at both ends, the trace and the key that went onto the
\* wire are those of the context that comes off it (extractWireContext,
\* injectWireContext).
CrossingKeepsTrace ==
    propagator => \A i \in Contexts : contexts[i].from # 0 =>
        LET origin == contexts[contexts[i].from]
        IN contexts[i].trace = origin.trace /\ (origin.key # NoKey => contexts[i].key = origin.key)

\* Not so: what comes off a wire is of the run that went onto it.
WireNamesItsRun ==
    \A i \in Contexts :
        contexts[i].from # 0 => contexts[i].runId = contexts[contexts[i].from].runId
=============================================================================
