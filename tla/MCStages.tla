------------------------------ MODULE MCStages ------------------------------
(* The stages that are one call each, checked side by side: a behavior is    *)
(* one extraction, one schema made strict, one value through validate,       *)
(* classify and route, one eval, the calls of one cost calculator, one       *)
(* family of pipelines built from each other, the contexts of some runs, one *)
(* aggregate or gate of the probes, or one command: pk dev, pk gen-py-schema,*)
(* or pk run, inspect and trace. The parts not chosen stand in one state.    *)
EXTENDS Integers, Sequences, FiniteSets

CONSTANTS
    Ids, Nil, PipelineFiles, MaxChanges, GapShapes,     \* PkCommands
    MaxRetries, Width, Depth,               \* ExtractRun
    RuleSet, Categories,                    \* RuleStages
    Sizes, MaxItems, MaxErrors,             \* RuleStages
    Outputs, MaxCases, Concurrency,         \* EvalAndCost
    Models, MaxCalls,                       \* EvalAndCost
    MaxPipes, MaxSteps, MaxRuns, Limit,     \* PipelineBuild
    RunIds, ServeIds, AtomIds,              \* PipelineBuild
    MaxContexts, MaxAttached                \* PipelineBuild

VARIABLES
    part,
    provider, retries, keyed, emptyFits, heard, runs,       \* ExtractRun
    schema, strict,                                         \* ExtractRun
    config, input, at, category, told,                      \* RuleStages
    scorers, judged, concurrency, expected, case, output,   \* EvalAndCost
    scores, failed, passed,                                 \* EvalAndCost
    custom, events, billed,                                 \* EvalAndCost
    defs, pipes, chain, started,                            \* PipelineBuild
    contexts, cells, attached, propagator, signingKey,      \* PipelineBuild
    way, window, upstream, pulled, broken, buffer, out,     \* RuleStages
    errors, done, atom, verdicts,                           \* RuleStages
    disk, modules, discoveries, begun, intervals,           \* PkCommands
    fsEvents, watching, applied, edited, late, underway, changes,
    given, flags, file, before, looked, skipped, printed,   \* PkCommands
    tmp, pc, code,                                          \* PkCommands
    exports, argv, found, calls, said, exit, pkPc           \* PkCommands

extractVars == <<provider, retries, keyed, emptyFits, heard, runs>>
strictVars  == <<schema, strict>>
rulesVars   == <<config, input, at, category, told>>
evalVars    == <<scorers, judged, concurrency, expected, case, output, scores, failed, passed>>
costVars    == <<custom, events, billed>>
buildVars   == <<defs, pipes, chain, started>>
contextVars == <<contexts, cells, attached, propagator, signingKey>>
wayVars     == <<way, window, upstream, pulled, broken, buffer, out, errors, done, atom,
                 verdicts>>
stageVars   == <<extractVars, strictVars, rulesVars, evalVars, costVars, buildVars, contextVars>>
devVars     == <<disk, modules, discoveries, begun, intervals, fsEvents, watching, applied,
                 edited, late, underway, changes>>
pyVars      == <<given, flags, file, before, looked, skipped, printed, tmp, pc, code>>
pkVars      == <<exports, argv, found, calls, said, exit, pkPc>>
restVars    == <<wayVars, devVars, pyVars, pkVars>>
vars == <<part, stageVars, wayVars, devVars, pyVars, pkVars>>

Object(f) == [type |-> "object", at |-> f]
Number(n) == [type |-> "number", n |-> n]
Unset     == [type |-> "undefined"]
\* The own keys of objects and arrays, and the places in maps, are numbers.
Held(type, f) == [type |-> type, at |-> f]
SetOf(members) == [type |-> "set", members |-> members]
SomeOutputs ==
    {Number(1), Object([k \in {5} |-> Number(1)]), Object([k \in {5} |-> Unset]),
     Object([k \in {5, 6} |-> Number(1)]),
     Held("array", [i \in {0} |-> Held("array", [j \in {0} |-> Number(1)])]),
     Held("map", <<Number(1), Object([k \in {5} |-> Number(1)])>>),
     SetOf({Number(1)}), SetOf({Object([k \in {5} |-> Number(1)])}),
     [type |-> "date", ms |-> 1]}

RuleOf(match, value, category_, priority) ==
    [match |-> match, value |-> value, category |-> category_, priority |-> priority]
Text(s) == [type |-> "string", s |-> s]
SomeRules ==
    {RuleOf("equals", Number(1), "c1", 0), RuleOf("contains", Text("d"), "c2", 1),
     RuleOf("regex", Text("("), "c1", 2), RuleOf("gt", Number(0), "toString", 1),
     RuleOf("lt", Number(1), "c2", 0)}

ASSUME StagesAssumption == MaxRetries \in Nat /\ Limit \in Nat
\* The names of branches are apart from those of the places of a value.
ASSUME RulesAssumption ==
    /\ \A rule \in RuleSet : rule.priority \in Int
    /\ Categories \cap {"validate", "classify", "route", "schema_parse_failed",
                        "schema_coerce_failed", "classify_no_match", "extract_error",
                        "predicate_error", "throws", "route_no_branch"} = {}

\* What a schema has in it: nothing, one schema, one in another, both sides of
\* a pipe, those of a pipe in another schema, or a schema in one side.
SomeShapes ==
    {{<<>>}, {<<>>, <<1>>}, {<<>>, <<1>>, <<1, 1>>}, {<<>>, <<1>>, <<2>>},
     {<<>>, <<1>>, <<1, 1>>, <<1, 2>>}, {<<>>, <<1>>, <<2>>, <<2, 1>>}}

\* Values nest at most two deep and have finitely many keys, arrays and maps of
\* one length the same; a window holds an item.
Inside(v) == IF v.type \in {"object", "array", "map"} THEN {v.at[k] : k \in DOMAIN v.at} ELSE {}
Formed(v) ==
    /\ v.type \in {"object", "array", "map"} =>
         /\ v = [type |-> v.type, at |-> [k \in DOMAIN v.at |-> v.at[k]]]
         /\ IsFiniteSet(DOMAIN v.at)
    /\ v.type = "date" => v = [type |-> "date", ms |-> v.ms]
    /\ v.type = "set" => v = [type |-> "set", members |-> v.members] /\ IsFiniteSet(v.members)
AllParts == Outputs \cup UNION {Inside(v) : v \in Outputs}
ASSUME SummaryAssumption ==
    /\ Concurrency \subseteq Nat /\ MaxCases \in Nat /\ Sizes \subseteq Nat \ {0}
    /\ \A v \in AllParts : Formed(v)
    /\ \A v \in Outputs : \A w \in Inside(v) : \A u \in Inside(w) :
         u.type \notin {"object", "array", "map", "set", "date"}
    /\ \A v, w \in AllParts :
         /\ v.type = w.type /\ v.type \in {"array", "map"}
         /\ Cardinality(DOMAIN v.at) = Cardinality(DOMAIN w.at)
         => DOMAIN v.at = DOMAIN w.at

\* Nothing is apart from any value; files and the paths of schemas are as said.
ASSUME CommandsAssumption ==
    /\ PipelineFiles \subseteq Nat
    /\ Nil \notin Ids
    /\ Nil \notin {"cron", "twice", "prompt", "broken", "inspect", "run", "trace", "other",
                   "spans", "empty", "missing", "json", "text"}
    /\ \A paths \in GapShapes : \A p \in paths :
         p \in Seq({1, 2}) /\ \A k \in 0..Len(p) : SubSeq(p, 1, k) \in paths

\* Ids of serves with a ":" in them, such that keys without the run, or
\* without the atom, could be taken for each other.
SomeRunIds == {<<1>>}
SomeServeIds == {<<2>>, <<2, 2>>}
SomeAtomIds == {<<2>>, <<3>>}

\* The ids that a runtime gives a run, and those of atoms, have no ":" in them.
ASSUME ContextsAssumption ==
    /\ \A id \in RunIds \cup AtomIds : id \in Seq(Nat) /\ Len(id) = 1
    /\ ServeIds \subseteq Seq(Nat)

Extract == INSTANCE ExtractRun
Rules   == INSTANCE RuleStages WITH Rules <- RuleSet
Eval    == INSTANCE EvalAndCost WITH Data <- Outputs
Build   == INSTANCE PipelineBuild WITH runs <- started
Pk      == INSTANCE PkCommands WITH None <- Nil

-----------------------------------------------------------------------------
IdleExtract == /\ provider = "openai" /\ retries = 0 /\ keyed = TRUE /\ emptyFits = FALSE
               /\ heard = <<>> /\ runs = <<>>
IdleSchema  == schema = Extract!None /\ strict = Extract!None
IdleRules   == config = <<>> /\ input = Unset /\ at = "idle" /\ category = "" /\ told = FALSE
IdleEval    == /\ scorers = <<>> /\ judged = FALSE /\ concurrency = 0 /\ expected = <<>>
               /\ case = <<>> /\ output = <<>> /\ scores = <<>> /\ failed = {} /\ passed = Eval!None
IdleCost    == custom = <<>> /\ events = <<>> /\ billed = <<>>
IdleBuild   == defs = <<>> /\ pipes = <<>> /\ chain = <<>> /\ started = <<>>
IdleContexts == propagator = FALSE /\ signingKey = "none" /\ Build!ContextInit
IdleWays    == /\ way = "A" /\ window = [type |-> "count", n |-> 1] /\ upstream = <<>>
               /\ Rules!WayInit
IdleDev     == disk = [f \in PipelineFiles |-> Nil] /\ Pk!DevInit
IdlePy      == /\ given = Nil /\ file = Nil
               /\ flags = [check |-> FALSE, strict |-> FALSE, stdout |-> FALSE] /\ Pk!Init
IdlePk      == /\ exports = <<>> /\ argv = <<>> /\ found = Nil /\ calls = <<>>
               /\ said = "none" /\ exit = 0 /\ pkPc = "main"

Parts == {"extract", "schema", "rules", "eval", "cost", "build", "contexts", "ways", "dev", "py",
          "pk"}
Init ==
    /\ part \in Parts
    /\ IF part = "extract" THEN Extract!Init  ELSE IdleExtract
    /\ IF part = "schema"  THEN Extract!StrictInit   ELSE IdleSchema
    /\ IF part = "rules"   THEN Rules!Init    ELSE IdleRules
    /\ IF part = "eval"    THEN Eval!Init     ELSE IdleEval
    /\ IF part = "cost"    THEN Eval!CostInit     ELSE IdleCost
    /\ IF part = "build"   THEN Build!Init    ELSE IdleBuild
    /\ IF part = "contexts" THEN Build!ContextInit ELSE IdleContexts
    /\ IF part = "ways"    THEN Rules!WayInit     ELSE IdleWays
    /\ IF part = "dev"     THEN Pk!DevInit      ELSE IdleDev
    /\ IF part = "py"      THEN Pk!Init       ELSE IdlePy
    /\ IF part = "pk"      THEN Pk!PkInit       ELSE IdlePk

Next ==
    /\ UNCHANGED part
    /\ \/ /\ part = "extract" /\ Extract!Next
          /\ UNCHANGED <<strictVars, rulesVars, evalVars, costVars, buildVars, contextVars, restVars>>
       \/ /\ part = "schema" /\ Extract!StrictNext
          /\ UNCHANGED <<extractVars, rulesVars, evalVars, costVars, buildVars, contextVars, restVars>>
       \/ /\ part = "rules" /\ Rules!Next
          /\ UNCHANGED <<extractVars, strictVars, evalVars, costVars, buildVars, contextVars, restVars>>
       \/ /\ part = "eval" /\ Eval!Next
          /\ UNCHANGED <<extractVars, strictVars, rulesVars, costVars, buildVars, contextVars, restVars>>
       \/ /\ part = "cost" /\ Eval!CostNext
          /\ UNCHANGED <<extractVars, strictVars, rulesVars, evalVars, buildVars, contextVars, restVars>>
       \/ /\ part = "build" /\ Build!Next
          /\ UNCHANGED <<extractVars, strictVars, rulesVars, evalVars, costVars, contextVars, restVars>>
       \/ /\ part = "contexts" /\ Build!ContextNext
          /\ UNCHANGED <<extractVars, strictVars, rulesVars, evalVars, costVars, buildVars, restVars>>
       \/ /\ part = "ways" /\ Rules!WayNext
          /\ UNCHANGED <<stageVars, devVars, pyVars, pkVars>>
       \/ /\ part = "dev" /\ Pk!DevNext
          /\ UNCHANGED <<stageVars, wayVars, pyVars, pkVars>>
       \/ /\ part = "py" /\ Pk!Next
          /\ UNCHANGED <<stageVars, wayVars, devVars, pkVars>>
       \/ /\ part = "pk" /\ Pk!PkNext
          /\ UNCHANGED <<stageVars, wayVars, devVars, pyVars>>

Spec == Init /\ [][Next]_vars

-----------------------------------------------------------------------------
(* ExtractRun: what an extraction returns follows from what the provider     *)
(* answered, the Python process comes to the same end as the first, and what *)
(* the provider is sent is strict wherever the walk goes.                    *)
ExtractionFollows == /\ part = "extract" => Extract!ExtractIsHonest /\ Extract!TwinsAgree
                     /\ part = "schema" => Extract!SchemaIsStrict

(* RuleStages: a value reaches the branch of the rule that wins.             *)
RightBranch == part = "rules" => Rules!RightBranch

(* EvalAndCost: the summary of an eval counts the cases that passed, and what *)
(* its calls cost adds up. RuleStages: the summaries of an aggregate are of    *)
(* the windows there were, and three gates agree.                             *)
SummaryIsTrue == /\ part = "eval" => Eval!EvalIsFair
                 /\ part = "cost" => Eval!BillAddsUp
                 /\ part = "ways" => Rules!WindowsAreCut /\ Rules!GatesAgree

(* PipelineBuild: a run has the stages of the calls that built its pipeline, *)
(* a key names one emit, a context arrives with its key and trace, and the   *)
(* views of one run share what is attached to it.                            *)
RunsWhatWasBuilt ==
    /\ part = "build" => Build!RunsWhatWasBuilt
    /\ part = "contexts" =>
           Build!KeysNameEmits /\ Build!RunsSeeTheirOwn /\ Build!CrossingKeepsTrace

(* PkCommands: no export has two intervals, and those there are are of the   *)
(* files on disk if the discovery begun last ended last; the Python file is  *)
(* that of the schema, and the exit code tells what ran.                     *)
CommandsAreTrue == /\ part = "dev" => Pk!ScheduleIsCurrent
                   /\ part = "py" => Pk!PythonIsOfSchema
                   /\ part = "pk" => Pk!ExitTellsWhatRan
=============================================================================
