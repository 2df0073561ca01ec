------------------------------ MODULE Telemetry ------------------------------
(***************************************************************************)
(* What of a span's attributes is redacted before it is exported.  The     *)
(* annotations of a step's output schema (core/src/pii.ts, precomputed by  *)
(* pipeline.ts) travel on the span as pk.pii_annotations; each redacting   *)
(* processor that sees the span end (observe/src/redacting-processor.ts)   *)
(* mutates its attributes in place, drops that attribute and hands the     *)
(* span to its own inner processor.  A key that joins path segments with   *)
(* dots is the path itself.                                                *)
(***************************************************************************)
EXTENDS Integers, Sequences, FiniteSets, SequencesExt, FiniteSetsExt

CONSTANTS
    Schemas,      \* output schemas, see Node
    Tables,       \* knownSensitive merged over the built-in table: key to tag
    Keys,         \* attribute keys, paths
    Legacy,       \* gen_ai key to the llm key it is duplicated under
    NProcessors   \* redacting processors registered one after the other

VARIABLES
    schemaOf,   \* the step's output schema
    hints,      \* pk.pii_annotations: "none", "malformed", "present"
    modes,      \* of each processor: "denylist" or "allowlist"
    table,      \* the same for all
    attrs,      \* key to value
    ended       \* processors that have seen the span end

vars == <<schemaOf, hints, modes, table, attrs, ended>>

(***************************************************************************)
(* Schema nodes: a leaf, a wrapper (optional, nullable, default; pipe goes *)
(* in), an array, a record, a union of two, an object.                     *)
(***************************************************************************)
Leaf(tag)         == [type |-> "leaf", tag |-> tag]
Node(type, tag, of) == [type |-> type, tag |-> tag, of |-> of]
Union(tag, l, r)  == [type |-> "union", tag |-> tag, left |-> l, right |-> r]
Object(tag, f)    == [type |-> "object", tag |-> tag, shape |-> f]

Note(path, tag) == <<[path |-> path, tag |-> tag]>>

\* The children of a node with their paths, in the order they are walked.
RECURSIVE walkSchema(_, _), walkDeeper(_, _)
Children(s, path) ==
    CASE s.type \in {"wrapper", "pipe"} -> <<<<s.of, path>>>>
      [] s.type = "array"  -> <<<<s.of, Append(path, "[]")>>>>
      [] s.type = "record" -> <<<<s.of, Append(path, "*")>>>>
      [] s.type = "union"  -> <<<<s.left, path>>, <<s.right, path>>>>
      [] s.type = "object" -> LET names == SetToSeq(DOMAIN s.shape)
                              IN  [i \in DOMAIN names |-> <<s.shape[names[i]], Append(path, names[i])>>]
      [] s.type = "leaf"   -> <<>>
walkDeeper(s, path) ==                                              \* mutant
    LET below == Children(s, path) IN
    (IF s.tag \in {"safe", "redact"} THEN Note(path, s.tag) ELSE <<>>)
      \o FlattenSeq([i \in DOMAIN below |-> walkDeeper(below[i][1], below[i][2])])
walkSchema(s, path) ==
    LET below == Children(s, path) IN
    IF s.tag \in {"safe", "redact"} THEN Note(path, s.tag)
    ELSE (IF s.tag = "secret" /\ s.type = "leaf" THEN Note(path, "secret") ELSE <<>>)
           \o FlattenSeq([i \in DOMAIN below |-> walkSchema(below[i][1], below[i][2])])
walkAnnotations(s) == walkSchema(s, <<>>)

(***************************************************************************)
(* Values of attributes: text as it was set, what redacting made of it,    *)
(* and numbers, which pass.                                                *)
(***************************************************************************)
Raw    == [is |-> "text", by |-> "none"]
Number == [is |-> "number", by |-> "none"]
applyTag(tag, v) ==
    IF v.is # "text" THEN v
    ELSE [v EXCEPT !.by = IF tag = "secret" THEN "secret" ELSE "redact"]

\* The sensitive table first, then each annotation in turn unless its key
\* has been done, then in allowlist mode every text not done nor safe.
OnTable(a) == [k \in DOMAIN a |-> IF k \in DOMAIN table THEN applyTag(table[k], a[k]) ELSE a[k]]
DoneByTable(a) == {k \in DOMAIN a : k \in DOMAIN table /\ a[k].is = "text"}

Annotations(i) == IF hints = "present" /\ i = 1 THEN walkAnnotations(schemaOf) ELSE <<>>
FirstTagLast(notes, k) ==                                           \* mutant
    LET on == SelectSeq(notes, LAMBDA n : n.path = k) IN
    IF on = <<>> \/ Last(on).tag = "safe" THEN "none" ELSE Last(on).tag
FirstTag(notes, k) ==
    LET on == SelectSeq(notes, LAMBDA n : n.path = k /\ n.tag # "safe") IN
    IF on = <<>> THEN "none" ELSE Head(on).tag

OnHints(a, notes, done) ==
    [k \in DOMAIN a |->
        IF k \in done \/ FirstTag(notes, k) = "none" THEN a[k] ELSE applyTag(FirstTag(notes, k), a[k])]
DoneByHints(a, notes) == {k \in DOMAIN a : FirstTag(notes, k) # "none" /\ a[k].is = "text"}

Sweep(a, notes, done) ==
    LET safe == {n.path : n \in {m \in ToSet(notes) : m.tag = "safe"}} IN
    [k \in DOMAIN a |-> IF k \in done \cup safe THEN a[k] ELSE applyTag("redact", a[k])]

Init ==
    /\ schemaOf \in Schemas /\ table \in Tables
    /\ hints \in {"none", "malformed", "present"}
    /\ modes \in [1..NProcessors -> {"denylist", "allowlist"}]
    /\ attrs \in [Keys -> {Raw, Number}]
    /\ ended = 0

onEnd ==
    /\ ended < NProcessors
    /\ ended' = ended + 1
    /\ LET notes == Annotations(ended')
           one   == OnTable(attrs)
           two   == OnHints(one, notes, DoneByTable(attrs))
           done  == DoneByTable(attrs) \cup DoneByHints(attrs, notes)
       IN  attrs' = IF modes[ended'] = "allowlist" THEN Sweep(two, notes, done) ELSE two
    /\ UNCHANGED <<schemaOf, hints, modes, table>>

Next == onEnd

\* The exporter's records, with gen_ai/dup opted into: a copy of each GenAI
\* attribute under its former key as well.
buildAttributes(a) ==
    [k \in DOMAIN a \cup {Legacy[g] : g \in DOMAIN a \cap DOMAIN Legacy} |->
        IF k \in DOMAIN a THEN a[k] ELSE a[CHOOSE g \in DOMAIN Legacy : Legacy[g] = k]]

-----------------------------------------------------------------------------
\* The schema nodes at a path, reached from the root through nodes that
\* have no tag which covers what is below: what an author means by a mark.
RECURSIVE At(_, _)
At(s, path) ==
    LET through == {c \in ToSet(Children(s, <<>>)) : c[2] = <<>>}
        down    == {c \in ToSet(Children(s, <<>>)) : c[2] # <<>> /\ path # <<>> /\ c[2] = <<Head(path)>>}
    IN  (IF path = <<>> THEN {s} ELSE {}) \cup
        (IF s.tag \in {"safe", "redact"} THEN {}
         ELSE UNION {At(c[1], path) : c \in through} \cup UNION {At(c[1], Tail(path)) : c \in down})
Marks(k) == {s.tag : s \in {n \in At(schemaOf, k) : n.type = "leaf" \/ n.tag # "secret"}}

Exported == buildAttributes(attrs)

(* A text whose schema node is marked redact or secret, or whose key is in   *)
(* the table, never leaves a processor as it was set; neither does any text  *)
(* that is not marked safe when one of the processors has an allowlist; and  *)
(* a text that nothing asks to redact does, where every processor has a      *)
(* denylist or it is the only one and the text is marked safe.               *)
MarkedIsRedacted ==
    (ended > 0 /\ hints = "present") =>
        \A k \in Keys : (k \in DOMAIN table \/ Marks(k) \cap {"redact", "secret"} # {}) =>
            \A e \in DOMAIN Exported :
                (/\ Exported[e].is = "text"
                 /\ e = k \/ (k \in DOMAIN Legacy /\ Legacy[k] = e)) => Exported[e].by # "none"
OnlySafeIsAllowed ==
    \A i \in 1..ended : modes[i] = "allowlist" =>
        \A k \in Keys : (attrs[k].is = "text" /\ attrs[k].by = "none")
                            => hints = "present" /\ "safe" \in Marks(k) /\ k \notin DOMAIN table
RestIsKept ==
    \A k \in Keys :
        (/\ attrs[k].is = "text" /\ k \notin DOMAIN table
         /\ Marks(k) \cap {"redact", "secret"} = {} \/ hints # "present"
         /\ \/ \A i \in 1..ended : modes[i] = "denylist"
            \/ ended = 1 /\ hints = "present" /\ "safe" \in Marks(k))
        => attrs[k].by = "none"
\* Numbers pass, and the table's tag is what its key gets.
TableWins ==
    \A k \in DOMAIN table :
        (k \in Keys /\ ended = 1 /\ attrs[k].is = "text")
            => attrs[k].by = IF table[k] = "secret" THEN "secret" ELSE "redact"
SpansAreRedacted == MarkedIsRedacted /\ OnlySafeIsAllowed /\ RestIsKept /\ TableWins

(* Not so: markRedact covers the entire subtree (core/src/pii.ts:5).         *)
RedactCoversSubtree ==
    (ended > 0 /\ hints = "present") =>
        \A k \in Keys : (attrs[k].is = "text" /\ \E p \in Prefixes(k) : "redact" \in Marks(p))
                            => attrs[k].by # "none"
(* Not so: what is marked safe passes an allowlist unchanged                 *)
(* (observe/src/redacting-processor.ts:29-30).                               *)
SafePasses ==
    (hints = "present") =>
        \A k \in Keys : (Marks(k) = {"safe"} /\ k \notin DOMAIN table /\ attrs[k].is = "text")
                            => attrs[k].by = "none"

------------------------------------------------------------------------------
(***************************************************************************)
(* From the spans of pipeline runs to what pk trace shows.  Every stage    *)
(* call is a span under the run's parent trace context, or the root of a   *)
(* trace of its own when the run was given none (core/src/composer/otel.ts,*)
(* composer.ts 377-394, context.ts); a stage may open spans inside it.     *)
(* Ended spans are exported in batches, or each as it ends, through        *)
(* KitSpanExporter into the JSONL file of FileSinkExporter                 *)
(* (observe/src/exporter.ts, file-sink.ts); pk trace reads a file, builds  *)
(* the tree and adds up the usage (cli/src/commands/trace.ts).             *)
(***************************************************************************)

CONSTANTS
    Runs,      \* pipeline runs of one process
    MaxSpans,  \* bound: spans started, at most
    MaxBatch,  \* spans of one export
    Usages,    \* what an AI SDK call reports: see recordVercelUsage
    Named,     \* whether a sink may be given a run id: a set of booleans
    None

VARIABLES
    named,     \* the sink was given a run id
    given,     \* the runs that were given a parent trace context
    spans,     \* spans started, in that order: the exporter's records; reported is a
               \* history, the input tokens of the call
    open,      \* indices of spans not ended
    queue,     \* ended spans not exported, as indices
    writes,    \* sink.write in flight: [batch, at: "mkdir" or "append"]
    dirMade,
    files,     \* stem to the records appended
    lost       \* spans of a batch whose callback got code 1

traceVars == <<named, given, spans, open, queue, writes, dirMade, files, lost>>

Ids == 1..MaxSpans
\* The parent context of a run is trace "given"; every other root is a trace
\* that has the number of its first span.
Stems == Ids \cup {0} \cup {-1}
GivenTrace == 0
RunStem == -1

(***************************************************************************)
(* Usage.  recordVercelUsage copies the totals and the sub-fields under    *)
(* keys of their own; only the totals add up.                              *)
(***************************************************************************)
Given(key, n) == IF n = None THEN <<>> ELSE <<[key |-> key, n |-> n]>>
recordVercelUsageAdds(u) ==                                         \* mutant
    Given("input", u.input) \o Given("input", u.cacheRead)
recordVercelUsage(u) ==
    LET noCache == IF u.noCache # None THEN u.noCache ELSE u.nonCached IN
    Given("input", u.input) \o Given("cacheRead", u.cacheRead) \o Given("noCache", noCache)

NonAdditive == {"cacheRead", "noCache"}
Total(records) ==
    LET all == FlattenSeq([i \in DOMAIN records |-> records[i].usage])
    IN  FoldSeq(LAMBDA a, sum : IF a.key \in NonAdditive THEN sum ELSE sum + a.n, 0, all)

-----------------------------------------------------------------------------
TraceInit ==
    /\ named \in Named /\ given \in SUBSET Runs
    /\ spans = <<>> /\ open = {} /\ queue = <<>> /\ writes = {}
    /\ dirMade = FALSE /\ files = [s \in Stems |-> <<>>] /\ lost = {}

\* withSpan: the parent is the run's, never the span that is active.
StageSpan(r) ==
    /\ Len(spans) < MaxSpans
    /\ \A i \in open : spans[i].run # r
    /\ LET me == Len(spans) + 1
           record == [run |-> r, span |-> me,
                      trace |-> IF r \in given THEN GivenTrace ELSE me,
                      parent |-> IF r \in given THEN 0 ELSE None,
                      usage |-> <<>>, reported |-> 0]
       IN  spans' = Append(spans, record) /\ open' = open \cup {me}
    /\ UNCHANGED <<named, given, queue, writes, dirMade, files, lost>>

\* A span that the stage's own code opens around a model call, external.
CallSpan(r) ==
    /\ Len(spans) < MaxSpans
    /\ \E s \in open, u \in Usages :
        /\ spans[s].run = r
        /\ \A i \in open : spans[i].run = r => i <= s
        /\ LET me == Len(spans) + 1
               record == [run |-> r, span |-> me, trace |-> spans[s].trace, parent |-> s,
                          usage |-> recordVercelUsage(u),
                          reported |-> IF u.input = None THEN 0 ELSE u.input]
           IN  spans' = Append(spans, record) /\ open' = open \cup {me}
    /\ UNCHANGED <<named, given, queue, writes, dirMade, files, lost>>

\* A span ends after the spans inside it.
End(i) ==
    /\ i \in open /\ \A j \in open : spans[j].parent # i
    /\ open' = open \ {i} /\ queue' = Append(queue, i)
    /\ UNCHANGED <<named, given, spans, writes, dirMade, files, lost>>

\* export: the records are handed to sink.write, which makes the directory
\* first if it has not; the processor may go on with the next batch.
Export ==
    /\ \E n \in 1..Min({MaxBatch, Len(queue)}) :
        /\ writes' = writes \cup
                {[batch |-> SubSeq(queue, 1, n), at |-> IF dirMade THEN "append" ELSE "mkdir"]}
        /\ queue' = SubSeq(queue, n + 1, Len(queue))
    /\ UNCHANGED <<named, given, spans, open, dirMade, files, lost>>

Fails(w) == /\ writes' = writes \ {w} /\ lost' = lost \cup ToSet(w.batch)
            /\ UNCHANGED <<dirMade, files>>
Mkdir(w) ==
    /\ w \in writes /\ w.at = "mkdir"
    /\ \/ /\ dirMade' = TRUE
          /\ writes' = (writes \ {w}) \cup {[w EXCEPT !.at = "append"]}
          /\ UNCHANGED <<files, lost>>
       \/ Fails(w)
    /\ UNCHANGED <<named, given, spans, open, queue>>

\* The file is the run's, or has the trace id of the batch's first record.
Stem(batch) == IF named THEN RunStem ELSE spans[Head(batch)].trace
WriteLosesRest(w) ==                                                \* mutant
    /\ w \in writes /\ w.at = "append"
    /\ files' = [files EXCEPT ![Stem(w.batch)] = Append(@, spans[Head(w.batch)])]
    /\ writes' = writes \ {w} /\ UNCHANGED <<dirMade, lost>>
    /\ UNCHANGED <<named, given, spans, open, queue>>
Write(w) ==
    /\ w \in writes /\ w.at = "append"
    /\ \/ /\ files' = [files EXCEPT ![Stem(w.batch)] =
                            @ \o [i \in DOMAIN w.batch |-> spans[w.batch[i]]]]
          /\ writes' = writes \ {w} /\ UNCHANGED <<dirMade, lost>>
       \/ Fails(w)
    /\ UNCHANGED <<named, given, spans, open, queue>>

TraceNext ==
    \/ \E r \in Runs : StageSpan(r) \/ CallSpan(r)
    \/ \E i \in open : End(i)
    \/ Export
    \/ \E w \in writes : Mkdir(w) \/ Write(w)

-----------------------------------------------------------------------------
(***************************************************************************)
(* pk trace: the records sorted by start, a node for each, under its       *)
(* parent if that is in the file; the tree is walked from the roots.       *)
(***************************************************************************)
Sorted(stem) == SetToSortSeq(ToSet(files[stem]), LAMBDA a, b : a.span < b.span)
buildTreeOfTrace(records) ==                                        \* mutant
    [roots |-> SelectSeq(records, LAMBDA r : r.parent = None),
     children |-> [s \in {r.span : r \in ToSet(records)} |->
                     SelectSeq(records, LAMBDA r : r.parent = s)]]
buildTree(records) ==
    LET known == {r.span : r \in ToSet(records)} IN
    [roots |-> SelectSeq(records, LAMBDA r : r.parent \notin known),
     children |-> [s \in known |-> SelectSeq(records, LAMBDA r : r.parent = s)]]
RECURSIVE renderTree(_, _)
renderTree(nodes, tree) ==
    FlattenSeq([i \in DOMAIN nodes |->
        <<nodes[i].span>> \o renderTree(tree.children[nodes[i].span], tree)])

(* pk trace shows every record of a file once, a span after the span it is   *)
(* inside of if that is in the file, and the tokens it adds up are those     *)
(* that the calls reported, no sub-field counted beside the total it is in.  *)
TreeIsWhole ==
    \A stem \in Stems :
        LET records == Sorted(stem)
            tree    == buildTree(records)
            shown   == renderTree(tree.roots, tree)
        IN  /\ Len(shown) = Len(files[stem]) /\ ToSet(shown) = {r.span : r \in ToSet(records)}
            /\ \A i, j \in DOMAIN shown : spans[shown[j]].parent = shown[i] => i < j
            /\ Total(records) = FoldSeq(LAMBDA r, sum : sum + r.reported, 0, records)

(* Every span that ended is waiting to be exported, being written, in one    *)
(* file, or in a batch whose exporter was told that it failed; with a run id *)
(* all of them are in the file of that name, without one a span is in the    *)
(* file of its own trace if it was exported alone.                           *)
EndedIsSomewhere ==
    \A i \in DOMAIN spans :
        LET where == {s \in Stems : spans[i] \in ToSet(files[s])} IN
        IF i \in open \/ i \in ToSet(queue) \/ (\E w \in writes : i \in ToSet(w.batch)) \/ i \in lost
        THEN where = {}
        ELSE /\ Cardinality(where) = 1
             /\ named => where = {RunStem}
             /\ (~named /\ MaxBatch = 1) => where = {spans[i].trace}

TracesAreWhole == TreeIsWhole /\ EndedIsSomewhere

(* Not so: without a run id, a file is named by the first record's trace id  *)
(* on the first write (observe/src/file-sink.ts:8): one file.                *)
FirstWriteNames == Cardinality({s \in Stems : files[s] # <<>>}) <= 1
(* Not so: a run is in the file of one trace.                                *)
RunIsOneTrace ==
    \A i, j \in DOMAIN spans : spans[i].run = spans[j].run => spans[i].trace = spans[j].trace
(* Not so: the file of a trace holds that trace's spans only.                *)
FileIsOfItsTrace ==
    ~named => \A s \in Stems : \A r \in ToSet(files[s]) : r.trace = s
==============================================================================
