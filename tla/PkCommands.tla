----------------------------- MODULE PkCommands ------------------------------
(***************************************************************************)
(* pk gen-py-schema (cli/src/commands/gen-py-schema.ts, lib): two child    *)
(* processes look the Zod schemas over for what JSON Schema cannot say and *)
(* convert them, a third turns the JSON Schema into a Python file, which   *)
(* --check compares with the one there is.  A schema node is what the      *)
(* looking over distinguishes; Zod 4 keeps the schema of a record's values *)
(* under valueType.                                                        *)
(***************************************************************************)
EXTENDS Integers, Sequences, FiniteSets

CONSTANTS
    None,
    GapShapes   \* the sets of paths of the schemas looked over

VARIABLES
    given,      \* the schema the file exports, as one, or None
    flags,      \* [check, strict: BOOLEAN, stdout: BOOLEAN], outFile "-"
    file,       \* outFile: None, or [mine, stamp]: of this schema
    before,     \* history: what it was
    looked,     \* history: the looking over did not break
    skipped,    \* history: another export was left out with a warning
    printed,    \* what went to stdout
    tmp,        \* the temporary directory is there
    pc, code

vars == <<given, flags, file, before, looked, skipped, printed, tmp, pc, code>>

(***************************************************************************)
(* A schema is the tree of its nodes by their paths.  refine says that     *)
(* there is a custom check among a node's checks; one of a kind of Inside  *)
(* has a schema in it, or several that are looked over alike; the sides of *)
(* a pipe, in and out, are 1 and 2.  "object" stands for unions and        *)
(* intersections too, "wrapper" for arrays and what wraps one schema.      *)
(***************************************************************************)
Simple == {"leaf", "transform"}
Inside == {"object", "wrapper", "tuple", "record", "lazy"}
Node == [kind : Simple \cup Inside \cup {"pipe"}, refine : BOOLEAN]
KidsOf(kind) == {i \in {1, 2} : kind = "pipe" \/ (kind \in Inside /\ i = 1)}
Trees(paths) ==
    {s \in [paths -> Node] :
        \A p \in paths : KidsOf(s[p].kind) = {i \in {1, 2} : Append(p, i) \in paths}}

PipeFeature(s, p) ==
    IF s[Append(p, 1)].kind = "transform" THEN "preprocess"
    ELSE IF s[Append(p, 2)].kind = "transform" THEN "transform" ELSE "pipeline"

\* A shim that transforms is not looked into, a pipe's other side is.
Into(s, p, walked) ==
    {i \in KidsOf(s[p].kind) :
        IF s[p].kind = "pipe"
        THEN PipeFeature(s, p) # (IF i = 1 THEN "preprocess" ELSE "transform")
        ELSE s[p].kind \in walked}
Upto(p, k) == SubSeq(p, 1, k)
Visited(s, walked) ==
    {p \in DOMAIN s : \A k \in 1..Len(p) : p[k] \in Into(s, Upto(p, k - 1), walked)}
Gaps(s, walked) ==
    {<<p, "refine">> : p \in {v \in Visited(s, walked) : s[v].refine}} \cup
    {<<p, PipeFeature(s, p)>> : p \in {v \in Visited(s, walked) : s[v].kind = "pipe"}}

\* lib/feature-gap-check.ts, and the script that the command runs instead.
Walked == Inside \ {"lazy"}
collectGaps(s) == Gaps(s, Walked)
collectNotTuples(s) == Gaps(s, Walked \ {"record", "tuple"})               \* mutant
collect(s) == Gaps(s, Walked \ {"record"})

-----------------------------------------------------------------------------
Init ==
    /\ given = None \/ \E paths \in GapShapes : given \in Trees(paths)
    /\ flags \in [check : BOOLEAN, strict : BOOLEAN, stdout : BOOLEAN]
    /\ file \in {None} \cup [mine : BOOLEAN, stamp : {0}]
    /\ before = file /\ looked = FALSE /\ skipped = FALSE /\ printed = None /\ tmp = FALSE
    /\ pc = "look" /\ code = 2

Ends(c) == pc' = "end" /\ code' = c

\* detectFeatureGapsFromFile: a child process that breaks found no gaps.
Look ==
    /\ pc = "look"
    /\ \/ ~flags.strict /\ pc' = "load" /\ UNCHANGED <<looked, code>>
       \/ /\ flags.strict /\ looked' = TRUE
          /\ IF given # None /\ collect(given) # {} THEN Ends(1)
             ELSE pc' = "load" /\ UNCHANGED code
       \/ flags.strict /\ pc' = "load" /\ UNCHANGED <<looked, code>>
    /\ UNCHANGED <<given, flags, file, before, skipped, printed, tmp>>

\* loadSchemasAsJsonSchema: it fails, or there is nothing it could convert.
\* "given" is all that it could; what it could not besides is skipped.
Load ==
    /\ pc = "load"
    /\ \/ given # None /\ pc' = "generate" /\ skipped' \in BOOLEAN /\ UNCHANGED code
       \/ Ends(1) /\ UNCHANGED skipped
    /\ UNCHANGED <<given, flags, file, before, looked, printed, tmp>>

\* runDatamodelCodegen makes a temporary directory, runs uv, and removes it
\* whatever happens; uv writes outFile, or a file in it for "-" and --check.
Generated == [mine |-> TRUE, stamp |-> 1]
InMemory == flags.check \/ flags.stdout
MakeTmp ==
    /\ pc = "generate" /\ tmp' = TRUE /\ pc' = "uv"
    /\ UNCHANGED <<given, flags, file, before, looked, skipped, printed, code>>

RunUv ==
    /\ pc = "uv" /\ tmp' = FALSE
    /\ \/ /\ ~InMemory /\ file' = Generated
          /\ Ends(0) /\ UNCHANGED printed
       \/ /\ InMemory /\ ~flags.check /\ printed' = Generated
          /\ Ends(0) /\ UNCHANGED file
       \/ flags.check /\ pc' = "compare" /\ UNCHANGED <<file, printed, code>>
       \/ Ends(1) /\ UNCHANGED <<file, printed>>           \* uv fails or takes too long
    /\ UNCHANGED <<given, flags, before, looked, skipped>>

\* normalizeForComparison drops the line with the time of generation.
normalizeForComparisonNot(f) == f                   \* mutant
normalizeForComparison(f) == f.mine
Compare ==
    /\ pc = "compare"
    /\ \/ flags.stdout /\ Ends(1)          \* there is no file of that name
       \/ ~flags.stdout /\ file = None /\ Ends(1)
       \/ /\ ~flags.stdout /\ file # None
          /\ Ends(IF normalizeForComparison(file) = normalizeForComparison(Generated) THEN 0 ELSE 1)
    /\ UNCHANGED <<given, flags, file, before, looked, skipped, printed, tmp>>

Next == Look \/ Load \/ MakeTmp \/ RunUv \/ Compare

-----------------------------------------------------------------------------
\* A gap somewhere in the schema, outside the kinds that are not walked.
HasGap(s, outside) ==
    \E p \in DOMAIN s :
        /\ s[p].refine \/ s[p].kind = "pipe"
        /\ \A k \in 1..Len(p) : s[Upto(p, k - 1)].kind \notin outside

(* Code 0 means that the Python file, or what was printed, is of the schemas *)
(* that could be converted, and that strict mode found no gap wherever its   *)
(* script looks; --check changes no file, passes a file that only its time   *)
(* tells from a new one, and fails one of another schema; no temporary       *)
(* directory stays.                                                          *)
ExitCodeIsTrue ==
    (pc = "end") =>
        /\ ~tmp /\ (InMemory => file = before)
        /\ (code = 0) => /\ given # None
                         /\ IF flags.stdout /\ ~flags.check THEN printed.mine ELSE file.mine
                         /\ looked => ~HasGap(given, {"record", "lazy"})
        /\ (flags.check /\ file # None /\ ~file.mine) => code = 1
SnapshotPasses ==
    (pc = "compare" /\ ~flags.stdout /\ file # None /\ file.mine) =>
        normalizeForComparison(file) = normalizeForComparison(Generated)
\* The library and the script of the command agree outside records.
GapsAgree ==
    (given # None) => /\ collect(given) \subseteq collectGaps(given)
                      /\ (collectGaps(given) # {}) <=> HasGap(given, {"lazy"})

PythonIsOfSchema == ExitCodeIsTrue /\ SnapshotPasses /\ GapsAgree

(* Not so: exported Zod schemas are converted (gen-py-schema.ts:363), or the *)
(* code tells. One that cannot be is skipped with a warning, and code 0.     *)
NothingIsLeftOut == (pc = "end" /\ code = 0) => ~skipped

(* Not so: strict mode rejects features without JSON Schema equivalents      *)
(* (gen-py-schema.ts:37-39).                                                 *)
StrictRejectsGaps ==
    (pc = "end" /\ code = 0 /\ flags.strict /\ looked) => ~HasGap(given, {"lazy"})

------------------------------------------------------------------------------
(***************************************************************************)
(* One call of main (cli/src/cli.ts): pk inspect, run and trace, each with *)
(* the pipelines that discovery gives (discover.ts) or a trace file.       *)
(***************************************************************************)

CONSTANTS
    Ids,
    PipelineFiles   \* files there may be, numbers: in readdir's order

Exports == [kind : {"pipeline"}, id : Ids, run : {"ok", "err", "throws"}]
           \cup [kind : {"other", "undescribed"}, id : {None}, run : {"ok"}]

VARIABLES
    exports,    \* of each file its export, or None where the import fails
    argv,       \* [command, id, input, file]
    found,      \* the pipeline, or None
    calls,      \* runs of pipelines: [export, input]
    said,       \* what was printed: "none", "usage", "error", "result"
    exit,       \* process.exitCode, or 1 for a rejection nobody handles
    pkPc

pkVars == <<exports, argv, found, calls, said, exit, pkPc>>

\* What --input is: not given, empty, JSON, or not JSON.
Inputs == {None, "empty", "json", "text"}
Files  == {None, "spans", "empty", "missing"}

PkInit ==
    /\ exports \in [PipelineFiles -> {None} \cup Exports]
    /\ argv \in [command : {"inspect", "run"}, id : Ids \cup {None}, input : Inputs, file : {None}]
                \cup [command : {"trace"}, id : {None}, input : {None}, file : Files]
                \cup [command : {"other", None}, id : {None}, input : {None}, file : {None}]
    /\ found = None /\ calls = <<>> /\ said = "none" /\ exit = 0 /\ pkPc = "main"

PkEnds(what, status) == said' = what /\ exit' = status /\ pkPc' = "end"

\* main: the command and its arguments.
main ==
    /\ pkPc = "main"
    /\ \/ argv.command = None /\ PkEnds("usage", 0)
       \/ argv.command = "other" /\ PkEnds("usage", 1)
       \/ argv.command \in {"inspect", "run"} /\ argv.id = None /\ PkEnds("usage", 1)
       \/ argv.command \in {"inspect", "run"} /\ argv.id # None /\ pkPc' = "find" /\ UNCHANGED <<said, exit>>
       \/ argv.command = "trace" /\ argv.file = None /\ PkEnds("usage", 1)
       \/ argv.command = "trace" /\ argv.file = "spans" /\ PkEnds("result", 0)
       \/ argv.command = "trace" /\ argv.file \in {"missing", "empty"} /\ PkEnds("error", 1)
    /\ UNCHANGED <<exports, argv, found, calls>>

\* discoverPipelines skips a file that fails to import, an export that does
\* not look like a pipeline, and one that cannot be described; a file with
\* several exports stands as as many files.
isDuckPipeline(e) == e.kind # "other"
Described(e) == e.kind = "pipeline"
discoverPipelines ==
    {i \in PipelineFiles :
        exports[i] # None /\ isDuckPipeline(exports[i]) /\ Described(exports[i])}
findLastById(list, id) ==                                           \* mutant
    {i \in list : exports[i].id = id /\ \A j \in list : exports[j].id = id => j <= i}
\* The file of the first of that id, if there is one.
findPipelineById(list, id) ==
    {i \in list : exports[i].id = id /\ \A j \in list : exports[j].id = id => i <= j}

Find ==
    /\ pkPc = "find"
    /\ \/ /\ findPipelineById(discoverPipelines, argv.id) = {}
          /\ PkEnds("error", 1) /\ UNCHANGED found
       \/ \E i \in findPipelineById(discoverPipelines, argv.id) :
          /\ found' = exports[i]
          /\ \/ argv.command = "inspect" /\ PkEnds("result", 0)
             \/ argv.command = "run" /\ argv.input = "text" /\ PkEnds("error", 1)
             \/ argv.command = "run" /\ argv.input # "text" /\ pkPc' = "run"
                /\ UNCHANGED <<said, exit>>
    /\ UNCHANGED <<exports, argv, calls>>

RunSaysDone ==                                                      \* mutant
    /\ pkPc = "run"
    /\ calls' = Append(calls, [id |-> found.id, input |-> argv.input])
    /\ PkEnds("result", 0)
    /\ UNCHANGED <<exports, argv, found>>
\* The first pipeline of that id runs, with the parsed input; an empty one is none.
Run ==
    /\ pkPc = "run"
    /\ calls' = Append(calls, [id |-> found.id,
                               input |-> IF argv.input = "empty" THEN None ELSE argv.input])
    /\ PkEnds(IF found.run = "ok" THEN "result" ELSE "error",
            IF found.run = "ok" THEN 0 ELSE 1)
    /\ UNCHANGED <<exports, argv, found>>

PkNext == main \/ Find \/ Run

-----------------------------------------------------------------------------
\* The files whose pipeline has an id, and the one of them that comes first.
Of(id) == {i \in PipelineFiles :
              exports[i] # None /\ exports[i].kind = "pipeline" /\ exports[i].id = id}
FirstOf(id) == {i \in Of(id) : \A j \in Of(id) : i <= j}

(* pk run exits with 0 only if the first pipeline of the id ran, once, with  *)
(* input that was JSON or none, and returned no error; it exits with 1 for   *)
(* an unknown id, input that is no JSON, and a run that fails; nothing runs  *)
(* for another command; and pk inspect finds what pk run finds.              *)
ExitTellsWhatRan ==
    (pkPc = "end") =>
        /\ \A n \in DOMAIN calls :
             /\ argv.command = "run" /\ Len(calls) = 1
             /\ calls[n].id = argv.id /\ calls[n].input \in {None, "json"}
        /\ exit = 1 <=> said = "error" \/ (said = "usage" /\ argv.command # None)
        /\ argv.command \in {"run", "inspect"} /\ argv.id # None =>
             (exit = 0 <=>
                \E i \in FirstOf(argv.id) :
                    argv.command = "run" =>
                        Len(calls) = 1 /\ argv.input # "text" /\ exports[i].run = "ok")

------------------------------------------------------------------------------
(***************************************************************************)
(* pk dev (cli/src/commands/dev.ts, discover.ts): find the pipelines under *)
(* a directory, drive those with a cron trigger from intervals, and find   *)
(* them again whenever a pipeline file changes.  A discovery reads the     *)
(* directory and then imports one file after the other, each an await, so  *)
(* that several may be under way; what a file exported when it was first   *)
(* imported is what every later import gives.                              *)
(***************************************************************************)

CONSTANT MaxChanges     \* bound: files written or removed

\* twice: exported under two names; broken: the import fails
Contents == {"cron", "twice", "prompt", "broken"}

VARIABLES
    disk,         \* file to contents, or None
    modules,      \* imported files: what their module is
    discoveries,  \* under way: set of [n, at, left, found: files]
    begun,        \* discoveries begun
    intervals,    \* intervals set for each file
    fsEvents,     \* file-system events not delivered
    watching,     \* before the first discovery ended, after, stopped; "static"
                  \* if the directory could not be watched
    applied,      \* history: the number of the discovery applied last
    edited, late, \* history: a file that was imported got other contents;
                  \* one changed before anything watched
    underway,     \* history: a discovery was under way when the server stopped
    changes

devVars == <<disk, modules, discoveries, begun, intervals, fsEvents, watching,
          applied, edited, late, underway, changes>>

-----------------------------------------------------------------------------
Listed == {f \in PipelineFiles : disk[f] # None}
Discovery(n) == [n |-> n, at |-> "readdir", left |-> {}, found |-> {}]

NoIntervals == [f \in PipelineFiles |-> 0]

DevInit ==
    /\ disk \in [PipelineFiles -> Contents \cup {None}]
    /\ modules = [f \in PipelineFiles |-> None]
    /\ discoveries = {Discovery(1)} /\ begun = 1
    /\ intervals = NoIntervals /\ fsEvents = 0 /\ watching = "starting" /\ applied = 0
    /\ edited = FALSE /\ late = FALSE /\ underway = FALSE /\ changes = 0

\* The author saves, adds or removes a pipeline file.
Change(f) ==
    /\ changes < MaxChanges /\ changes' = changes + 1
    /\ \E c \in Contents \cup {None} :
        /\ c # disk[f] /\ disk' = [disk EXCEPT ![f] = c]
        /\ edited' = (edited \/ (modules[f] # None /\ c \notin {None, modules[f]}))
    /\ late' = (late \/ watching = "starting")
    /\ fsEvents' = IF watching = "watching" THEN fsEvents + 1 ELSE fsEvents
    /\ UNCHANGED <<modules, discoveries, begun, intervals, watching, applied, underway>>

\* The watcher's callback, for a name with .pipeline. in it: discover again.
Notice ==
    /\ fsEvents > 0 /\ watching = "watching"
    /\ fsEvents' = fsEvents - 1
    /\ begun' = begun + 1
    /\ discoveries' = discoveries \cup {Discovery(begun')}
    /\ UNCHANGED <<disk, modules, intervals, watching, applied, edited, late, underway, changes>>

Readdir(d) ==
    /\ d.at = "readdir"
    /\ discoveries' = (discoveries \ {d}) \cup
            {[d EXCEPT !.at = "import", !.left = Listed]}
    /\ UNCHANGED <<disk, modules, begun, intervals, fsEvents, watching, applied,
                   edited, late, underway, changes>>

\* import(filePath): the module that is loaded already, also one that failed;
\* a file that fails to import, or has gone, is skipped.
Import(d) ==
    /\ d.at = "import"
    /\ \E f \in d.left :
        LET m == IF modules[f] # None THEN modules[f] ELSE disk[f] IN
        /\ \A g \in d.left : f <= g
        /\ modules' = [modules EXCEPT ![f] = m]
        /\ discoveries' = (discoveries \ {d}) \cup
              {[d EXCEPT !.left = @ \ {f},
                         !.found = IF m \in {"cron", "twice", "prompt"} THEN @ \cup {f} ELSE @]}
    /\ UNCHANGED <<disk, begun, intervals, fsEvents, watching, applied, edited, late,
                   underway, changes>>

\* startCronTriggers: all intervals are cleared, one is set for each export
\* whose trigger is a cron expression that parseCronInterval understands.
CronsOf(contents) == CASE contents = "cron" -> 1 [] contents = "twice" -> 2 [] OTHER -> 0
OneEach(seen) == [f \in PipelineFiles |-> IF f \in seen THEN CronsOf(modules[f]) ELSE 0]
startCronTriggersAnew(seen) ==                                     \* mutant
    intervals' = [f \in PipelineFiles |-> intervals[f] + OneEach(seen)[f]]
startCronTriggers(seen) == intervals' = OneEach(seen)

\* The list is complete: it is applied, whether or not another discovery has
\* been since, or the server has stopped; the first time the watcher starts,
\* unless watch() throws.
Apply(d) ==
    /\ d.at = "import" /\ d.left = {}
    /\ startCronTriggers(d.found)
    /\ discoveries' = discoveries \ {d} /\ applied' = d.n
    /\ IF watching = "starting" THEN watching' \in {"watching", "static"} ELSE UNCHANGED watching
    /\ UNCHANGED <<disk, modules, begun, fsEvents, edited, late, underway, changes>>

StopLeaves ==                                                       \* mutant
    /\ watching \in {"watching", "static"} /\ watching' = "stopped" /\ fsEvents' = 0
    /\ underway' = (underway \/ discoveries # {})
    /\ UNCHANGED <<disk, modules, discoveries, begun, intervals, applied, edited, late, changes>>
\* stop(), which devCommand returns when the first discovery is done.
Stop ==
    /\ watching \in {"watching", "static"} /\ watching' = "stopped"
    /\ intervals' = NoIntervals /\ fsEvents' = 0
    /\ underway' = (underway \/ discoveries # {})
    /\ UNCHANGED <<disk, modules, discoveries, begun, applied, edited, late, changes>>

DevNext ==
    \/ \E f \in PipelineFiles : Change(f)
    \/ Notice \/ Stop
    \/ \E d \in discoveries : Readdir(d) \/ Import(d) \/ Apply(d)

-----------------------------------------------------------------------------
Due == [f \in PipelineFiles |-> IF disk[f] = None THEN 0 ELSE CronsOf(disk[f])]
Quiet == discoveries = {} /\ fsEvents = 0
\* The discovery that began last was the last to end.
InOrder == applied = begun

(* No export has two intervals at a time, however many discoveries there     *)
(* have been and however they overlapped; once all changes have been noticed *)
(* and the last discovery ended last, the intervals are those of the cron    *)
(* pipelines on disk, unless an imported file was edited or something        *)
(* changed before the watcher stood; and after stop nothing is scheduled,    *)
(* unless a discovery was under way.                                         *)
ScheduleIsCurrent ==
    /\ \A f \in PipelineFiles : intervals[f] \in {0, CronsOf(modules[f])}
    /\ (Quiet /\ watching = "watching" /\ ~edited /\ ~late /\ InOrder) => intervals = Due
    /\ (watching = "stopped" /\ ~underway) => intervals = NoIntervals

(* Not so: pk dev re-discovers pipelines on change (dev.ts:12): an edit of a *)
(* file that has been imported is not seen.                                  *)
EditsAreSeen ==
    (Quiet /\ watching = "watching" /\ ~late /\ InOrder) => intervals = Due
(* Not so: stop() is a handle that stops the server (dev.ts:15).             *)
StoppedIsSilent == watching = "stopped" => intervals = NoIntervals
(* Not so: the last list that was read is the one applied.                   *)
LatestIsApplied ==
    (Quiet /\ watching = "watching" /\ ~edited /\ ~late) => intervals = Due
(* Not so: a pipeline has one trigger. One that its file exports under two   *)
(* names is discovered, and run, twice.                                      *)
OnePerPipeline == \A f \in PipelineFiles : intervals[f] <= 1
(* Not so: a pipeline added later is served. Not where the directory could   *)
(* not be watched when the server started (dev.ts:71-74).                    *)
StaticIsCurrent == (Quiet /\ watching = "static" /\ ~edited /\ ~late) => intervals = Due
==============================================================================
