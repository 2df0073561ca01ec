----------------------------- MODULE ExtractRun ------------------------------
(* The extract process: a model of a provider is asked for JSON that fits a  *)
(* schema; an answer that does not fit is asked again with the complaint     *)
(* about it, an exception ends the run with a code. There are two of them,   *)
(* process-extract in TypeScript and pkit_process_extract in Python, and     *)
(* both are here, hearing the same answers of the same provider, because     *)
(* the second says it matches the first. What an error message says is the   *)
(* set of words in it that either runtime looks for, in the letters in which *)
(* TypeScript looks for them and in others: "rate" is also 'quota' or '429', *)
(* "auth" 'Unauthorized', "timeout" 'network', 'ECONNREFUSED' or 'ETIMEDOUT';*)
(* "Rate", "Auth" and "Timeout" the same in other letters; "resolve" is one  *)
(* of five phrases for a module that is not there, "pip" 'not installed'     *)
(* with 'pip install'.                                                       *)
EXTENDS Naturals, Sequences, FiniteSets

CONSTANT
    MaxRetries      \* the largest maxRetriesOnSchemaFailure configured

VARIABLES
    provider,       \* config.provider
    retries,        \* config.maxRetriesOnSchemaFailure
    keyed,          \* an API key is configured or in the environment
    emptyFits,      \* the output schema accepts {}
    heard,          \* what the provider answered, in order
    runs            \* the run of each runtime

extractVars == <<provider, retries, keyed, emptyFits, heard, runs>>

Runtimes  == {"ts", "py"}
Providers == {"openai", "anthropic", "gemini"}
Words     == {"rate", "Rate", "auth", "Auth", "API_key", "api_key", "timeout", "Timeout",
              "fetch", "resolve", "pip"}            \* "fetch failed"
Statuses  == {0, 400, 401, 429, 500}                \* 0: the error has none

-----------------------------------------------------------------------------
(* What a provider can answer: an exception is one of Python's RuntimeErrors,*)
(* or in TypeScript a value that is no Error, or neither.                    *)
Few == {{v, w}: v, w \in Words} \cup {{}}              \* at most two
One == {{w}: w \in Words} \cup {{}}
Exceptions ==
    [what: {"throws"}, status: Statuses, as: {"error"}, words: Few]
        \cup [what: {"throws"}, status: {0}, as: {"RuntimeError", "value"}, words: One]
Answers ==
    Exceptions
        \cup [what: {"missing"}, words: {{}, {"resolve"}}]  \* the SDK is not there
        \cup [what: {"text"}, words: {{}, {"rate"}}]        \* content that is not JSON
        \cup [what: {"nothing"}]
        \cup [what: {"json"}, fits: BOOLEAN]

Thrown(status, words, mark) ==
    [thrown |-> TRUE, fits |-> FALSE, status |-> status, words |-> words, mark |-> mark]
Parsed(fits) == [Thrown(0, {}, "") EXCEPT !.thrown = FALSE, !.fits = fits]

(* What callProvider makes of an answer in TypeScript. JavaScript's parse    *)
(* error quotes the text it could not parse, so it may hold any word of it;  *)
(* what is said of an SDK that is not there depends on the loader (Node says *)
(* "Cannot find package", which is none of the five phrases).                *)
callOpenAI(a) ==
    CASE a.what = "text"    -> Thrown(0, a.words, "")
      [] a.what = "nothing" -> Thrown(400, {}, "filter")
callAnthropic(a) == Parsed(emptyFits)               \* no tool_use block: {}
callGemini(a) ==
    CASE a.what = "text"    -> Thrown(0, a.words, "")
      [] a.what = "nothing" -> Thrown(0, {}, "")

RawTs(a) ==
    CASE a.what = "throws"  -> Thrown(a.status, a.words, IF a.as = "value" THEN "value" ELSE "")
      [] a.what = "missing" -> Thrown(0, a.words, "")
      [] a.what = "json"    -> Parsed(a.fits)
      [] a.what \in {"text", "nothing"} /\ provider = "openai"    -> callOpenAI(a)
      [] a.what \in {"text", "nothing"} /\ provider = "anthropic" -> callAnthropic(a)
      [] a.what \in {"text", "nothing"} /\ provider = "gemini"    -> callGemini(a)

(* The same in Python, where each of these is an exception whose message     *)
(* holds none of the words.                                                  *)
RawPy(a) ==
    CASE a.what = "throws"  ->
             Thrown(a.status, a.words, IF a.as = "RuntimeError" THEN "missing" ELSE "")
      [] a.what = "missing" -> Thrown(0, {}, "missing")
      [] a.what \in {"text", "nothing"} -> Thrown(0, {}, "")
      [] a.what = "json"    -> Parsed(a.fits)

MapUnauthorizedAsUnknown(e) ==                                       \* mutant
    IF      e.mark = "value"                               THEN "unknown_error"
    ELSE IF e.mark = "filter"                              THEN "content_filtered"
    ELSE IF "resolve" \in e.words                          THEN "provider_not_installed"
    ELSE IF e.status = 429 \/ "rate" \in e.words           THEN "rate_limited"
    ELSE IF e.words \cap {"auth", "API_key"} # {}            THEN "auth_failed"
    ELSE IF e.words \cap {"timeout", "fetch"} # {}         THEN "network_error"
    ELSE IF e.status \in 400..499                          THEN "provider_error"
    ELSE "provider_unknown"
MapProviderError(e) ==
    IF      e.mark = "value"                               THEN "unknown_error"
    ELSE IF e.mark = "filter"                              THEN "content_filtered"
    ELSE IF "resolve" \in e.words                          THEN "provider_not_installed"
    ELSE IF e.status = 429 \/ "rate" \in e.words           THEN "rate_limited"
    ELSE IF e.status = 401 \/ e.words \cap {"auth", "API_key"} # {} THEN "auth_failed"
    ELSE IF e.words \cap {"timeout", "fetch"} # {}         THEN "network_error"
    ELSE IF e.status \in 400..499                          THEN "provider_error"
    ELSE "provider_unknown"

Lower(words) ==
    {CASE w = "Rate" -> "rate" [] w = "Auth" -> "auth" [] w = "API_key" -> "api_key"
       [] w = "Timeout" -> "timeout" [] OTHER -> w: w \in words}

map_provider_error(e) ==
    LET said == Lower(e.words)
    IN  IF e.mark = "missing" \/ "pip" \in said THEN "provider_not_installed"
        ELSE IF e.status = 401 \/ said \cap {"auth", "api_key"} # {} THEN "auth_failed"
        ELSE IF e.status = 429 \/ "rate" \in said   THEN "rate_limited"
        ELSE IF "timeout" \in said                  THEN "network_error"
        ELSE "api_error"

-----------------------------------------------------------------------------
(* A run: calls made, the answer the prompt complains about (0: none), and   *)
(* how each call's span ended. TypeScript asks no Gemini without a key.      *)
Asking == [phase |-> "asked", calls |-> 1, complains |-> 0, spans |-> <<>>, code |-> ""]
Refused == [Asking EXCEPT !.phase = "failed", !.spans = <<"ERROR">>, !.code = "auth_failed"]
FirstCall == IF provider = "gemini" /\ ~keyed THEN Refused ELSE Asking

Init ==
    /\ provider \in Providers /\ retries \in 0..MaxRetries
    /\ keyed \in BOOLEAN /\ emptyFits \in BOOLEAN
    /\ heard = <<>>
    /\ runs = [ts |-> FirstCall, py |-> Asking]

withExtractSpan(r, raw) == Append(r.spans, IF raw.thrown THEN "ERROR" ELSE "OK")

AttemptOneShort(r, raw, code, exhausted) ==                           \* mutant
    LET span == withExtractSpan(r, raw)
    IN  IF raw.thrown THEN [r EXCEPT !.phase = "failed", !.code = code, !.spans = span]
        ELSE IF raw.fits THEN [r EXCEPT !.phase = "ok", !.spans = span]
        ELSE IF r.calls >= retries
             THEN [r EXCEPT !.phase = "failed", !.code = exhausted, !.spans = span]
        ELSE [r EXCEPT !.calls = @ + 1, !.complains = Len(heard) + 1, !.spans = span]
(* One turn of the loop over the attempts, in either runtime.                *)
Attempt(r, raw, code, exhausted) ==
    LET span == withExtractSpan(r, raw)
    IN  IF raw.thrown THEN [r EXCEPT !.phase = "failed", !.code = code, !.spans = span]
        ELSE IF raw.fits THEN [r EXCEPT !.phase = "ok", !.spans = span]
        ELSE IF r.calls > retries
             THEN [r EXCEPT !.phase = "failed", !.code = exhausted, !.spans = span]
        ELSE [r EXCEPT !.calls = @ + 1, !.complains = Len(heard) + 1, !.spans = span]

RunTs(a) ==
    Attempt(runs.ts, RawTs(a), MapProviderError(RawTs(a)), "schema_parse_exhausted")
RunPy(a) ==
    Attempt(runs.py, RawPy(a), map_provider_error(RawPy(a)), "schema_validation_failed")

Answer(a) ==
    /\ \E l \in Runtimes: runs[l].phase = "asked"
    /\ heard' = Append(heard, a)
    /\ runs' = [ts |-> IF runs.ts.phase = "asked" THEN RunTs(a) ELSE runs.ts,
                py |-> IF runs.py.phase = "asked" THEN RunPy(a) ELSE runs.py]
    /\ UNCHANGED <<provider, retries, keyed, emptyFits>>

Next == \E a \in Answers: Answer(a)

-----------------------------------------------------------------------------
(* What a run made of the answers it heard: its value is an answer that fits *)
(* the schema, or {} where Anthropic answered without the tool and {} fits;  *)
(* it gives up on the schema after exactly retries + 1 misfits, asks nobody  *)
(* again after an exception, complains of the last answer and no other, and  *)
(* ends one span per call, with an error for what was thrown.                *)
Heard(l) == LET n == IF runs[l].phase = "asked" THEN Len(heard) ELSE runs[l].calls
            IN  [i \in 1..n |-> IF l = "ts" THEN RawTs(heard[i]) ELSE RawPy(heard[i])]
Misfits(s) == \A i \in DOMAIN s: ~s[i].thrown /\ ~s[i].fits
HonestRun(l) ==
    LET r == runs[l]
        s == Heard(l)
        before == SubSeq(s, 1, Len(s) - 1)
    IN  /\ r.phase = "asked" => Misfits(s) /\ Len(s) <= retries /\ r.complains = Len(s)
        /\ r.phase = "ok" => /\ Misfits(before)
                             /\ \/ heard[r.calls] = [what |-> "json", fits |-> TRUE]
                                \/ /\ l = "ts" /\ provider = "anthropic" /\ emptyFits
                                   /\ heard[r.calls].what \in {"nothing", "text"}
        /\ r.phase = "failed" =>
              /\ Misfits(before)
              /\ IF Misfits(s) THEN /\ Len(s) = retries + 1
                                    /\ r.code = IF l = "ts" THEN "schema_parse_exhausted"
                                                            ELSE "schema_validation_failed"
                               ELSE r.code \notin {"schema_parse_exhausted",
                                                   "schema_validation_failed"}
        /\ Len(r.spans) = Len(s)
        /\ \A i \in DOMAIN s: (r.spans[i] = "ERROR") = s[i].thrown
ExtractIsHonest ==
    \A l \in Runtimes: ~(l = "ts" /\ runs.ts = Refused) => HonestRun(l)

(* "Factory matching TS createExtractProcess": the two runs come to the same *)
(* end, under the names each gives it, as long as no answer is one they are  *)
(* known to read apart: an exception with two causes, with a cause in other  *)
(* letters than TypeScript's ("api key", "Timeout", ...), with a phrase      *)
(* that only one of them knows (a failed fetch, a module that is not there,  *)
(* pip install), that is a RuntimeError or no Error; an Anthropic answer     *)
(* without the tool; unparsable text that names a cause; an SDK that is not  *)
(* there, in words TypeScript does not know; no key for Gemini.              *)
Causes(a) == ({"rate", "auth", "timeout"} \cap a.words)
                 \cup (IF a.status = 429 THEN {"rate"} ELSE {})
                 \cup (IF a.status = 401 \/ "API_key" \in a.words THEN {"auth"} ELSE {})
ReadApart == {"Rate", "Auth", "api_key", "Timeout", "fetch", "resolve", "pip"}
ReadAlike(a) ==
    /\ a.what = "throws" => /\ Cardinality(Causes(a)) <= 1 /\ a.as = "error"
                            /\ a.words \cap ReadApart = {}
    /\ a.what \in {"nothing", "text"} => provider # "anthropic"
    /\ a.what = "text" => a.words = {}
    /\ a.what = "missing" => a.words # {}
SameEnd ==
    {<<c, c>>: c \in {"", "rate_limited", "auth_failed", "network_error", "provider_not_installed"}}
        \cup {<<"schema_parse_exhausted", "schema_validation_failed">>}
        \cup ({"content_filtered", "provider_error", "provider_unknown"} \X {"api_error"})
TwinsAgree ==
    (\A i \in DOMAIN heard: ReadAlike(heard[i])) /\ ~(provider = "gemini" /\ ~keyed)
        => /\ runs.ts.phase = runs.py.phase /\ runs.ts.calls = runs.py.calls
           /\ <<runs.ts.code, runs.py.code>> \in SameEnd

(* The comment on the Python factory, without those exceptions.              *)
TwinsAlways == <<runs.ts.code, runs.py.code>> \in SameEnd

------------------------------------------------------------------------------
(* applyStrictMode: the walk over a JSON schema that makes it one OpenAI's   *)
(* strict mode takes. A schema is the tree of its nodes by their paths; a    *)
(* node is what the walk looks at: what kind of schema it is, whether it     *)
(* carries a "default", and whether it is closed (additionalProperties:      *)
(* false and every property required). The schemas inside a "record" stand   *)
(* under additionalProperties, those inside "defs" under $defs.              *)

CONSTANTS
    Width,          \* the most schemas inside one
    Depth           \* and one inside the other

VARIABLES
    schema,         \* what zod's toJSONSchema gave
    strict          \* what the provider is sent, or None

None == <<>>
strictVars == <<schema, strict>>

Above(p) == {SubSeq(p, 1, k): k \in 0..(Len(p) - 1)}
Shapes ==
    {paths \in SUBSET UNION {[1..n -> 1..Width]: n \in 0..Depth}:
        /\ <<>> \in paths
        /\ \A p \in paths: /\ Above(p) \subseteq paths
                           /\ p # <<>> /\ p[Len(p)] > 1 =>
                                 [p EXCEPT ![Len(p)] = @ - 1] \in paths}
Inner == {"object", "array", "union", "record", "defs"}
Node(kinds) == [kind: kinds, default: BOOLEAN, closed: {FALSE}]
Over(paths) == UNION {Above(p): p \in paths}
Trees(paths) ==
    {[p \in paths |-> IF p \in DOMAIN inner THEN inner[p] ELSE leaf[p]]:
        inner \in [Over(paths) -> Node(Inner)], leaf \in [paths \ Over(paths) -> Node({"leaf"})]}

Walked == {"object", "array", "union"}      \* properties; items; anyOf, oneOf, allOf
Reaches(s, p) == \A q \in Above(p): s[q].kind \in Walked

applyStrictModeAtTop(s) ==                                              \* mutant
    [p \in DOMAIN s |->
        IF p = <<>> THEN [s[p] EXCEPT !.default = FALSE, !.closed = @ \/ s[p].kind = "object"]
                    ELSE s[p]]
applyStrictMode(s) ==
    [p \in DOMAIN s |->
        IF Reaches(s, p)
        THEN [s[p] EXCEPT !.default = FALSE, !.closed = @ \/ s[p].kind = "object"]
        ELSE s[p]]

StrictInit == (\E paths \in Shapes: schema \in Trees(paths)) /\ strict = None
Transform == strict = None /\ strict' = applyStrictMode(schema) /\ UNCHANGED schema
StrictNext == Transform

-----------------------------------------------------------------------------
(* "Strip default (any depth)", "for every type: object": in what is sent,   *)
(* every schema the walk reaches is closed and has no default; what it is    *)
(* otherwise, and all the walk does not reach, is as it was given.           *)
StrictNode(n) == ~n.default /\ (n.kind = "object" => n.closed)
Strict(s) == \A p \in DOMAIN s: Reaches(s, p) => StrictNode(s[p])
SameBut(s, t) ==
    /\ DOMAIN s = DOMAIN t
    /\ \A p \in DOMAIN s: s[p].kind = t[p].kind /\ (~Reaches(t, p) => s[p] = t[p])

(* "Pure and idempotent": and applying the walk again changes nothing.       *)
SchemaIsStrict ==
    strict # None => /\ Strict(strict) /\ SameBut(strict, schema)
                     /\ applyStrictMode(strict) = strict

(* The same of every schema, without "that the walk reaches".                *)
StrictEverywhere == strict # None => \A p \in DOMAIN strict: StrictNode(strict[p])
==============================================================================
