----------------------------- MODULE WireValues -----------------------------
(***************************************************************************)
(* What goes into a frame of packages/core/src/wire, and its Python twin   *)
(* in adapter-python-process/src/pkit_wire: canonical JSON                 *)
(* (canonical-json.ts), timestamps (timestamp.ts), the result              *)
(* discriminator (decode-result.ts), the trace context (trace-wire.ts).    *)
(* They are pure: a step takes one input.                                  *)
(***************************************************************************)
EXTENDS Integers, FiniteSets, SequencesExt

CONSTANTS
    Values,     \* JSON values, see Serialize
    Dates,      \* [year, month, day, hour, minute, second, digits]
    TraceIds    \* traceparents; tracestates are taken from them too

VARIABLES
    kind, input,
    answer      \* <<>>, and then <<what the operation returned>>
vars == <<kind, input, answer>>
Answered == answer # <<>>
output == answer[1]

-----------------------------------------------------------------------------
(***************************************************************************)
(* A value is [t |-> "leaf", x], [t |-> "arr", items] or                   *)
(* [t |-> "obj", keys, vals] with its keys in the order they were set.     *)
(* Keys are "a", "hi" (U+E000) and "astral" (U+10000, whose first UTF-16   *)
(* unit is D800).  Leaves: "null", "1", "1.0", "0.5", "10^-5" (for those    *)
(* from 10^-9 up to 10^-4, which the runtimes write apart), "2^53", "NaN", *)
(* "undefined", strings.  Text is a sequence of tokens, "!" where the code *)
(* throws.                                                                 *)
(***************************************************************************)
ByUnit(k, l) ==
    LET rank == [a |-> 1, astral |-> 2, hi |-> 3] IN rank[k] <= rank[l]
ByPoint(k, l) ==
    LET rank == [a |-> 1, hi |-> 2, astral |-> 3] IN rank[k] <= rank[l]

Join(texts) ==
    FlattenSeq([k \in DOMAIN texts |-> IF k = 1 THEN texts[k] ELSE <<",">> \o texts[k]])

IsUndefined(v) == v.t = "leaf" /\ v.x = "undefined"

\* String(value) and float.__repr__, of numbers; any other leaf as it is.
NumberText(x) == CASE x = "1.0" -> "1" [] x = "10^-5" -> "0.00001" [] OTHER -> x
PyNumberText(x) == IF x = "10^-5" THEN "1e-05" ELSE x

RECURSIVE Serialize(_), InsertionOrder(_), PySerialize(_)

\* serializeValue: members that are undefined are left out, in keys' order.
Serialize(v) ==
    CASE v.t = "leaf" ->
            <<IF v.x \in {"undefined", "NaN", "2^53"} THEN "!" ELSE NumberText(v.x)>>
      [] v.t = "arr" -> <<"[">> \o Join([k \in DOMAIN v.items |-> Serialize(v.items[k])]) \o <<"]">>
      [] v.t = "obj" ->
            LET kept == {k \in DOMAIN v.keys : ~IsUndefined(v.vals[k])}
                order == SetToSortSeq(kept, LAMBDA k, l : ByUnit(v.keys[k], v.keys[l]))
            IN  <<"{">> \o Join([k \in DOMAIN order |->
                    <<v.keys[order[k]], ":">> \o Serialize(v.vals[order[k]])]) \o <<"}">>
InsertionOrder(v) ==                                                \* mutant
    IF v.t # "obj" THEN Serialize(v)
    ELSE <<"{">> \o Join([k \in DOMAIN v.keys |->
                    <<v.keys[k], ":">> \o InsertionOrder(v.vals[k])]) \o <<"}">>

Canonical(v) == Serialize(v)

\* canonical_json: json.dumps sorts by code point, and prints NaN.
PySerialize(v) ==
    CASE v.t = "leaf" -> <<IF v.x = "2^53" THEN "!" ELSE PyNumberText(v.x)>>
      [] v.t = "arr" -> <<"[">> \o Join([k \in DOMAIN v.items |-> PySerialize(v.items[k])]) \o <<"]">>
      [] v.t = "obj" ->
            LET order == SetToSortSeq(DOMAIN v.keys, LAMBDA k, l : ByPoint(v.keys[k], v.keys[l]))
            IN  <<"{">> \o Join([k \in DOMAIN order |->
                    <<v.keys[order[k]], ":">> \o PySerialize(v.vals[order[k]])]) \o <<"}">>

Canonicalize ==
    /\ kind = "value" /\ ~Answered
    /\ answer' = <<Canonical(input)>> /\ UNCHANGED <<kind, input>>

-----------------------------------------------------------------------------
IsLeapYear(y) == (y % 4 = 0 /\ y % 100 # 0) \/ y % 400 = 0
DaysInMonth == <<31, 28, 31, 30, 31, 30, 31, 31, 30, 31, 30, 31>>
MaxDays(y, m) == IF m = 2 /\ IsLeapYear(y) THEN 29 ELSE DaysInMonth[m]

\* validateTimestamp: the code of its error, or "ok".
AcceptsAnyDay(d) ==                                                 \* mutant
    IF d.digits # 3 THEN "timestamp_format_invalid"
    ELSE IF d.month \in 1..12 /\ d.day \in 1..31 /\ d.hour <= 23 THEN "ok"
    ELSE "timestamp_format_invalid"
ValidateTimestamp(d) ==
    CASE d.digits = 0 -> "timestamp_format_invalid"
      [] d.digits > 3 -> "timestamp_sub_ms_precision"
      [] d.digits < 3 -> "timestamp_format_invalid"
      [] d.month < 1 \/ d.month > 12 -> "timestamp_format_invalid"
      [] d.day < 1 \/ d.day > MaxDays(d.year, d.month) -> "timestamp_format_invalid"
      [] d.hour > 23 \/ d.minute > 59 \/ d.second > 59 -> "timestamp_format_invalid"
      [] OTHER -> "ok"

\* validate_timestamp of timestamp.py looks at the digits only.
PyValidateTimestamp(d) ==
    CASE d.digits > 3 -> "timestamp_sub_ms_precision"
      [] d.digits < 3 -> "timestamp_format_invalid"
      [] OTHER -> "ok"

Validate ==
    /\ kind = "date" /\ ~Answered
    /\ answer' = <<ValidateTimestamp(input)>> /\ UNCHANGED <<kind, input>>

-----------------------------------------------------------------------------
\* decodeResult: a field that is absent is undefined, which is not null.
DecodeResult(r) ==
    LET data == r.data # "null"
        error == r.error # "null"
    IN  IF data /\ ~error THEN "ok" ELSE IF error /\ ~data THEN "err" ELSE "ambiguous"

\* decode_result: get gives None for a field that is absent.
PyDecodeResult(r) ==
    LET data == r.data = "value"
        error == r.error = "value"
    IN  IF data /\ ~error THEN "ok" ELSE IF error /\ ~data THEN "err" ELSE "ambiguous"

Discriminate ==
    /\ kind = "result" /\ ~Answered
    /\ answer' = <<DecodeResult(input)>> /\ UNCHANGED <<kind, input>>

-----------------------------------------------------------------------------
(***************************************************************************)
(* A frame is [tp, ts, meta]: its envelope, and body.metadata if that is a *)
(* record.  "" is a field that is not there; NoTrace is null.              *)
(***************************************************************************)
NoTrace == [tp |-> "", ts |-> ""]
Fresh(old, new) == IF new = "" THEN old ELSE new

\* attachTraceToFrame: what it does not set stays as it was.
AttachToEnvelope(f, trace) ==                                       \* mutant
    IF trace.tp = "" THEN f
    ELSE [f EXCEPT !.tp = trace.tp, !.ts = Fresh(@, trace.ts)]
Attach(f, trace) ==
    IF trace.tp = "" THEN f
    ELSE [f EXCEPT !.tp = trace.tp, !.ts = Fresh(@, trace.ts),
            !.meta = IF @.record THEN [record |-> TRUE, tp |-> trace.tp, ts |-> Fresh(@.ts, trace.ts)]
                     ELSE @]

\* extractTraceFromFrame
Extract(f) ==
    IF f.tp # "" THEN [tp |-> f.tp, ts |-> f.ts]
    ELSE IF f.meta.record /\ f.meta.tp # "" THEN [tp |-> f.meta.tp, ts |-> f.meta.ts]
    ELSE NoTrace

\* What a codec carries: LSP the envelope (a tracestate only with a
\* traceparent) and the body, NDJSON the body alone.
Carried(f, mode) ==
    IF mode = "ndjson" THEN [f EXCEPT !.tp = "", !.ts = ""]
    ELSE IF f.tp = "" THEN [f EXCEPT !.ts = ""] ELSE f

Send ==
    /\ kind = "frame" /\ ~Answered
    /\ answer' = <<Extract(Carried(Attach(input.frame, input.trace), input.mode))>>
    /\ UNCHANGED <<kind, input>>

-----------------------------------------------------------------------------
(***************************************************************************)
(* observe/src/trace-context.ts: a span context is [trace, span, ts], its  *)
(* ids "hex", "zero" (all zeros) or, of what a peer sent, "bad" (another   *)
(* length, upper case); on the wire it is the traceparent of both.         *)
(***************************************************************************)
NoContext == [trace |-> "", span |-> "", ts |-> ""]
parseUnvalidated(w) ==                                              \* mutant
    IF "bad" \in {w.trace, w.span} THEN NoContext ELSE w
parseTraceContext(w) ==
    IF {w.trace, w.span} # {"hex"} THEN NoContext ELSE w
serializeTraceContext(c) ==
    IF "zero" \in {c.trace, c.span} THEN NoContext ELSE c

\* wrapFrame and unwrapFrame round what a process writes and a child reads.
Wrap ==
    /\ kind = "context" /\ ~Answered
    /\ answer' = <<parseTraceContext(IF input.ours THEN serializeTraceContext(input.of) ELSE input.of)>>
    /\ UNCHANGED <<kind, input>>

-----------------------------------------------------------------------------
Maybe == TraceIds \cup {""}
Metas == [record : {TRUE}, tp : Maybe, ts : Maybe]
           \cup {[record |-> FALSE, tp |-> "", ts |-> ""]}

Init ==
    /\ answer = <<>>
    /\ \/ kind = "value" /\ input \in Values
       \/ kind = "date" /\ input \in Dates
       \/ kind = "result" /\ input \in [data : {"absent", "null", "value"},
                                        error : {"absent", "null", "value"}]
       \/ /\ kind = "frame"
          /\ input \in [frame : [tp : Maybe, ts : Maybe, meta : Metas],
                        trace : [tp : Maybe, ts : Maybe], mode : {"lsp", "ndjson"}]
       \/ /\ kind = "context"
          /\ input \in [ours : BOOLEAN, of : [trace : {"hex", "zero", "bad"},
                                            span : {"hex", "zero", "bad"}, ts : Maybe]]
          /\ input.ours => "bad" \notin {input.of.trace, input.of.span}

Next == Canonicalize \/ Validate \/ Discriminate \/ Send \/ Wrap
Spec == Init /\ [][Next]_vars

-----------------------------------------------------------------------------
RECURSIVE Same(_, _), Holds(_, _)

\* Two values are the same JSON: key order and undefined members aside.
Same(v, w) ==
    /\ v.t = w.t
    /\ CASE v.t = "leaf" -> v.x = w.x \/ {v.x, w.x} = {"1", "1.0"}
         [] v.t = "arr" -> /\ Len(v.items) = Len(w.items)
                           /\ \A k \in DOMAIN v.items : Same(v.items[k], w.items[k])
         [] v.t = "obj" ->
                LET Has(u) == {k \in DOMAIN u.keys : ~IsUndefined(u.vals[k])}
                IN  /\ {v.keys[k] : k \in Has(v)} = {w.keys[k] : k \in Has(w)}
                    /\ \A k \in Has(v), l \in Has(w) :
                            v.keys[k] = w.keys[l] => Same(v.vals[k], w.vals[l])

\* One of the leaves xs is in v, not counting undefined members of objects.
Holds(v, xs) ==
    CASE v.t = "leaf" -> v.x \in xs
      [] v.t = "arr" -> \E k \in DOMAIN v.items : Holds(v.items[k], xs)
      [] v.t = "obj" -> \E k \in DOMAIN v.keys : ~IsUndefined(v.vals[k]) /\ Holds(v.vals[k], xs)

\* Equal values have one text and different ones have two, whatever the order
\* of insertion: what the hash of a frame as an idempotency key rests on.
TextNamesValue ==
    kind = "value" /\ Answered =>
        /\ Contains(output, "!") = Holds(input, {"undefined", "NaN", "2^53"})
        /\ \A w \in Values :
             ~Contains(output, "!") /\ ~Contains(Canonical(w), "!")
                => (output = Canonical(w)) = Same(input, w)

\* A timestamp is accepted exactly if its day is one of the Gregorian calendar.
DayNumber(y, m, d) == 365 * y + (y \div 4) - (y \div 100) + (y \div 400)
                        + FoldLeft(+, 0, SubSeq(DaysInMonth, 1, m - 1)) + d
DatesAreReal ==
    kind = "date" /\ Answered =>
        LET real == /\ input.month \in 1..12 /\ input.day \in 1..31
                    /\ input.hour \in 0..23 /\ input.minute \in 0..59 /\ input.second \in 0..59
                    /\ input.month = 2 =>
                         input.day - 28 <= DayNumber(input.year, 12, 31)
                                             - DayNumber(input.year - 1, 12, 31) - 365
                    /\ input.day <= 30 \/ input.month \notin {4, 6, 9, 11}
        IN  (output = "ok") = (real /\ input.digits = 3)

\* What is extracted at the other end is the trace that was attached, through
\* LSP always and through NDJSON if the body has room for it, provided the
\* frame brought no tracestate of an earlier trace along.
\* A context that a span has is read back as it was, and none that has no
\* span, or that is malformed, is taken for one.
TraceArrives ==
    /\ kind = "frame" /\ Answered /\ input.trace.tp # "" =>
        \/ output = input.trace
        \/ input.mode = "ndjson" /\ ~input.frame.meta.record
        \/ input.trace.ts = "" /\ {input.frame.ts, input.frame.meta.ts} # {""}
    /\ kind = "context" /\ Answered =>
        output = IF {input.of.trace, input.of.span} = {"hex"} THEN input.of ELSE NoContext

\* Both runtimes write the same bytes for what both can hold, and read a result
\* with both of its fields alike; every timestamp TypeScript accepts, Python does.
Portable(v) ==
    /\ ~Holds(v, {"undefined", "NaN", "1.0", "10^-5"})
    /\ v.t = "obj" => ~({"hi", "astral"} \subseteq ToSet(v.keys))
    /\ v.t = "obj" => \A k \in DOMAIN v.vals : ~IsUndefined(v.vals[k])
RuntimesAgreeOnValues ==
    /\ kind = "value" /\ Answered /\ Portable(input) =>
            PySerialize(input) = output \/ {Contains(PySerialize(input), "!"), Contains(output, "!")} = {TRUE}
    /\ kind = "date" /\ Answered => (output = "ok" => PyValidateTimestamp(input) = "ok")
    /\ kind = "result" /\ Answered /\ "absent" \notin {input.data, input.error}
            => PyDecodeResult(input) = output

\* canonical_json.py 48-49: "Raises TypeError: ... NaN, Infinity" (false).
PyRejectsNaN ==
    kind = "value" /\ Holds(input, {"NaN"}) => Contains(PySerialize(input), "!")
\* canonical-json.ts 6, canonical_json.py 4: the same order of keys (false).
PyOrdersAlike ==
    kind = "value" /\ ~Holds(input, {"undefined", "NaN", "1.0", "10^-5"}) /\ Answered
        => PySerialize(input) = output
\* canonical_json.py 1, core/src/wire/README.md 50-55: both write the bytes of
\* RFC 8785, also of a small fraction (false: 0.00001, and 1e-05 in Python).
PyWritesNumbersAlike ==
    kind = "value" /\ Answered /\ input.t = "leaf" /\ input.x \in {"0.5", "10^-5"}
        => PySerialize(input) = output
\* trace-wire.ts 73: "Inverse of attachTraceToFrame" (false).
ExtractInvertsAttach ==
    kind = "frame" /\ input.mode = "lsp" /\ Answered /\ input.trace.tp # ""
        => output = input.trace
=============================================================================
