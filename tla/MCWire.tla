------------------------------- MODULE MCWire -------------------------------
(***************************************************************************)
(* Instances of WireValues, WireFrames and Telemetry for TLC: a behaviour  *)
(* is one of the layer of the wire, or of the telemetry, that part names.  *)
(***************************************************************************)
EXTENDS WireValues

CONSTANTS HeaderMax, NPieces, Iterators, None

VARIABLES
    part,
    frames, stream, arrived, acc, emitted, ended,
    bytes, read, half, owner, text, offset, yields, done, mixed,
    schemaOf, hints, modes, table, attrs, processors,
    named, given, spans, open, queue, writes, dirMade, files, lost

CRLF == <<"r", "n">>
MCFrames == [body : {<<"j">>, <<"j", "j">>}, tp : BOOLEAN, ts : BOOLEAN]

\* Header blocks of every kind the decoders tell apart, none of them a frame.
MCJunk ==
    {<<"x">> \o CRLF \o CRLF, <<"c0">> \o CRLF \o CRLF, <<"c1">> \o CRLF \o CRLF \o <<"b">>,
     <<"c2">> \o CRLF \o CRLF \o <<"x", "j">>, <<"tp">> \o CRLF \o <<"c1">> \o CRLF \o CRLF,
     <<"cInf">> \o CRLF \o CRLF, CRLF \o CRLF, <<"c1">> \o CRLF \o <<"x">> \o CRLF \o CRLF,
     <<"x", "x", "x", "x">>, CRLF \o <<"c2">> \o CRLF \o CRLF}

\* Lines that are whole, empty, bad, cut off, and halves of characters.
MCStreams ==
    {<<"j", "nl">>, <<"j", "h1", "h2", "nl", "j">>, <<"j", "h1", "h2", "r", "nl">>,
     <<"nl", "x", "nl", "j">>, <<"j", "h1">>, <<"j", "h1", "h2">>,
     <<"r", "r", "nl", "j", "nl">>, <<"h1", "h2", "nl", "j", "nl">>}

Wire == INSTANCE WireFrames WITH Frames <- MCFrames, Junk <- MCJunk, Streams <- MCStreams

Leaf(x) == [t |-> "leaf", x |-> x]
Obj(ks, vs) == [t |-> "obj", keys |-> ks, vals |-> vs]
Few == {Leaf("1"), Leaf("10^-5"), Leaf("undefined"), Leaf("NaN"), Obj(<<>>, <<>>), Obj(<<"a">>, <<Leaf("1")>>)}
KeyNames == {"a", "hi", "astral"}
MCValues ==
    {Leaf(x) : x \in {"null", "1", "1.0", "0.5", "10^-5", "2^53", "NaN", "undefined", "s"}}
    \cup {[t |-> "arr", items |-> s] :
            s \in {<<>>} \cup {<<x>> : x \in Few} \cup {<<x, y>> : x, y \in Few}}
    \cup {Obj(<<k>>, <<v>>) : k \in KeyNames, v \in Few}
    \cup {Obj(<<k[1], k[2]>>, <<v, w>>) :
            k \in {p \in KeyNames \X KeyNames : p[1] # p[2]}, v, w \in Few}
MCDates ==
    [year : {1900, 2000, 2023, 2024}, month : 0..13, day : {0, 1, 28, 29, 30, 31, 32},
     hour : {0, 23, 24}, minute : {59}, second : {59, 60}, digits : 2..4]

\* Output schemas of an object with one field, of every kind and mark, and
\* what is below that field.
Tags == {"none", "redact", "secret", "safe"}
Marked == {[type |-> "leaf", tag |-> t] : t \in Tags}
Outer ==
    [type : {"wrapper", "array"}, tag : Tags, of : Marked]
    \cup [type : {"union"}, tag : Tags, left : Marked, right : Marked]
    \cup [type : {"object"}, tag : Tags, shape : [{"b"} -> Marked]]
MCSchemas ==
    {[type |-> "object", tag |-> "none", shape |-> [f \in {"a"} |-> s]] :
        s \in Marked \cup Outer
             \cup [type : {"pipe"}, tag : {"none", "secret"}, of : Marked \cup Outer]}
MCTables == {[k \in {<<"p">>} |-> "secret"], [k \in {<<"p">>, <<"a">>} |-> "redact"]}
MCLegacy == [k \in {<<"p">>} |-> <<"q">>]

Usage(input_, cacheRead, noCache, nonCached) ==
    [input |-> input_, cacheRead |-> cacheRead, noCache |-> noCache, nonCached |-> nonCached]
MCUsages == {Usage(3, 2, None, 1), Usage(2, None, 2, 1), Usage(None, 1, None, None)}

Telemetry == INSTANCE Telemetry WITH
              Schemas <- MCSchemas, Tables <- MCTables, Legacy <- MCLegacy, NProcessors <- 2,
              Keys <- {<<"a">>, <<"a", "b">>, <<"p">>}, ended <- processors,
              Runs <- {1, 2}, MaxSpans <- 3, MaxBatch <- 2, Named <- BOOLEAN,
              Usages <- MCUsages

redactVars == <<schemaOf, hints, modes, table, attrs, processors>>
traceVars == <<named, given, spans, open, queue, writes, dirMade, files, lost>>
frameVars == <<frames, stream, arrived, acc, emitted, ended>>
lineVars == <<bytes, read, half, owner, text, offset, yields, done, mixed>>

\* The layers that a behaviour is not about stay as they are in one state.
FrameIdle == /\ frames = <<>> /\ stream = <<>> /\ arrived = 0
             /\ acc = <<>> /\ emitted = <<>> /\ ended = FALSE
LineIdle == bytes = [i \in Iterators |-> <<"j", "nl">>] /\ Wire!LineInit
ValueIdle == kind = "result" /\ input = [data |-> "null", error |-> "null"] /\ answer = <<>>
RedactIdle == /\ schemaOf = <<>> /\ hints = "none" /\ modes = <<>> /\ table = <<>>
              /\ attrs = <<>> /\ processors = 0
TraceIdle == named = FALSE /\ given = {} /\ Telemetry!TraceInit

MCInit ==
    /\ part \in {"values", "lsp", "ndjson", "redaction", "traces"}
    /\ IF part = "values" THEN Init ELSE ValueIdle
    /\ IF part = "lsp" THEN Wire!Init ELSE FrameIdle
    /\ IF part = "ndjson" THEN Wire!LineInit ELSE LineIdle
    /\ IF part = "redaction" THEN Telemetry!Init ELSE RedactIdle
    /\ IF part = "traces" THEN Telemetry!TraceInit ELSE TraceIdle

wireVars == <<vars, frameVars, lineVars>>

MCNext ==
    /\ \/ part = "values" /\ Next
          /\ UNCHANGED <<frameVars, lineVars, redactVars, traceVars>>
       \/ part = "lsp" /\ Wire!Next
          /\ UNCHANGED <<vars, lineVars, redactVars, traceVars>>
       \/ part = "ndjson" /\ Wire!LineNext
          /\ UNCHANGED <<vars, frameVars, redactVars, traceVars>>
       \/ part = "redaction" /\ Telemetry!Next /\ UNCHANGED <<wireVars, traceVars>>
       \/ part = "traces" /\ Telemetry!TraceNext /\ UNCHANGED <<wireVars, redactVars>>
    /\ UNCHANGED part

MCSpec == MCInit /\ [][MCNext]_<<part, wireVars, redactVars, traceVars>>

\* However a stream is cut into chunks it decodes alike, and to the frames
\* that were encoded (WireFrames).
FramesArrive ==
    /\ part = "lsp" => Wire!ChunksDoNotShow /\ Wire!FramesSurvive
    /\ part = "ndjson" => Wire!LinesAreChunkedAlike
\* The TypeScript and the Python codecs come to the same (WireValues,
\* WireFrames).
RuntimesAgree ==
    /\ part = "values" => RuntimesAgreeOnValues
    /\ part = "lsp" => Wire!RuntimesAgreeOnFrames
    /\ part = "ndjson" => Wire!RuntimesReadAlike
\* Canonical text tells the values apart that it should, only dates of the
\* calendar pass, and a trace context arrives (WireValues).
ValuesArrive == TextNamesValue /\ DatesAreReal /\ TraceArrives
\* What a span exports is redacted as its schema says, and what pk trace
\* shows is what the spans recorded (Telemetry).
TelemetryIsTrue ==
    /\ part = "redaction" => Telemetry!SpansAreRedacted
    /\ part = "traces" => Telemetry!TracesAreWhole

ChunksNeverShow == part = "lsp" => Wire!ChunksNeverShow
StreamsAreApart == part = "ndjson" => Wire!StreamsAreApart
RedactCoversSubtree == part = "redaction" => Telemetry!RedactCoversSubtree
SafePasses == part = "redaction" => Telemetry!SafePasses
FirstWriteNames == part = "traces" => Telemetry!FirstWriteNames
RunIsOneTrace == part = "traces" => Telemetry!RunIsOneTrace
FileIsOfItsTrace == part = "traces" => Telemetry!FileIsOfItsTrace
=============================================================================
