----------------------------- MODULE WireFrames ------------------------------
(***************************************************************************)
(* The Content-Length frames of packages/core/src/wire: the encoder        *)
(* (lsp-frame-encode.ts), the decoder of a whole stream                    *)
(* (lsp-frame-decode.ts), the decoder of a stream that arrives in chunks   *)
(* (lsp-frame-async.ts), and the Python decoder of one frame               *)
(* (adapter-python-process/src/pkit_wire/lsp_frame.py).                    *)
(*                                                                         *)
(* A stream is a sequence of symbols.  "r" and "n" are the bytes of a line *)
(* break; one symbol stands for a Content-Length line ("c0", "c1", "c2",   *)
(* "cInf" for a number that is not finite), for a trace line ("tp", "ts")  *)
(* or another line ("x"); "j" is a byte of a JSON text, "b" one that is    *)
(* no UTF-8.                                                               *)
(***************************************************************************)
EXTENDS Naturals, FiniteSets, SequencesExt

CONSTANTS
    HeaderMax,  \* HEADER_MAX_BYTES
    Frames,     \* what a peer encodes: [body, tp, ts]
    Junk,       \* what else may be on the wire
    NPieces     \* frames and junk of a stream

VARIABLES
    frames,     \* the frames the source encodes, none if it sends junk
    stream,     \* what it sends
    arrived,    \* how much of it has arrived
    acc,        \* accumulator
    emitted,    \* what the decoder of chunks has yielded
    ended       \* the source ended, perhaps early

vars == <<frames, stream, arrived, acc, emitted, ended>>

CRLF == <<"r", "n">>
Length == [c0 |-> 0, c1 |-> 1, c2 |-> 2]

-----------------------------------------------------------------------------
\* encodeLspFrame: tracestate goes out only with a traceparent.
Encode(f) ==
    <<IF Len(f.body) = 1 THEN "c1" ELSE "c2">> \o CRLF
      \o (IF f.tp THEN <<"tp">> \o CRLF ELSE <<>>)
      \o (IF f.tp /\ f.ts THEN <<"ts">> \o CRLF ELSE <<>>)
      \o CRLF \o f.body

\* encodeLspStream
EncodeStream(fs) == FlattenSeq([k \in DOMAIN fs |-> Encode(fs[k])])

\* findHeaderTerminator: the bound on i is that of lsp-frame-header.ts 36,
\* which lets the last byte of the terminator be one past the limit.
Terminators(s, p, limit) ==
    {i \in p .. (p + limit - 3) : i + 3 <= Len(s) /\ SubSeq(s, i, i + 3) = CRLF \o CRLF}
Terminator(s, p) ==
    LET found == Terminators(s, p, HeaderMax)
    IN  IF found = {} THEN 0 ELSE CHOOSE i \in found : \A k \in found : i <= k

\* parseHeaderLines: split at line breaks, empty lines dropped.
Lines(block) ==
    LET add(ls, b) ==
            LET cur == Last(ls)
            IN  IF b = "n" /\ cur # <<>> /\ Last(cur) = "r"
                THEN Append(Append(Front(ls), Front(cur)), <<>>)
                ELSE Append(Front(ls), Append(cur, b))
    IN  SelectSeq(FoldLeft(add, << <<>> >>, block), LAMBDA l : l # <<>>)

Error(code) == [ok |-> FALSE, code |-> code]

\* parseFrameHeader: the error of a header block, or "".
HeaderError(lines) ==
    CASE lines = <<>> -> "unknown_header"
      [] lines[1] \notin {<<c>> : c \in DOMAIN Length \cup {"cInf"}} -> "unknown_header"
      [] lines[1] = <<"cInf">> -> "content_length_invalid"
      [] \E k \in 2..Len(lines) : lines[k] \notin {<<"tp">>, <<"ts">>} -> "unknown_header"
      [] OTHER -> ""

\* What a body of the announced length decodes to.
BodyLossy(lines, bytes) ==                                          \* mutant
    IF bytes = <<>> \/ \E k \in DOMAIN bytes : bytes[k] # "j" THEN Error("malformed_json")
    ELSE [ok |-> TRUE, body |-> bytes,
          tp |-> Contains(lines, <<"tp">>), ts |-> Contains(lines, <<"ts">>)]
Body(lines, bytes) ==
    CASE Contains(bytes, "b") -> Error("utf8_invalid")
      [] bytes = <<>> \/ \E k \in DOMAIN bytes : bytes[k] # "j" -> Error("malformed_json")
      [] OTHER -> [ok |-> TRUE, body |-> bytes,
                   tp |-> Contains(lines, <<"tp">>), ts |-> Contains(lines, <<"ts">>)]

(***************************************************************************)
(* One frame of s from p on, its header being there: what it yields and    *)
(* where the next begins; next is 0 when its body is not there yet.        *)
(***************************************************************************)
FrameAt(s, p) ==
    LET t == Terminator(s, p)
        lines == Lines(SubSeq(s, p, t - 1))
        body == t + 4
        end == body + Length[lines[1][1]]
    IN  IF HeaderError(lines) # "" THEN [yields |-> Error(HeaderError(lines)), next |-> body]
        ELSE IF end > Len(s) + 1 THEN [yields |-> Error("truncated_body"), next |-> 0]
        ELSE [yields |-> Body(lines, SubSeq(s, body, end - 1)), next |-> end]

\* decodeLspStream: a header that is too large and a short body end it.
DecodeStream(s) ==
    LET from[p \in 1 .. (Len(s) + 1)] ==
            IF p > Len(s) THEN <<>>
            ELSE IF Terminator(s, p) = 0
            THEN <<Error(IF Len(s) - p + 1 >= HeaderMax THEN "header_too_large"
                                                        ELSE "truncated_body")>>
            ELSE LET f == FrameAt(s, p)
                 IN  <<f.yields>> \o (IF f.next = 0 THEN <<>> ELSE from[f.next])
    IN  from[1]

\* The inner loop of decodeLspAsyncIter: what it yields and what is left.  A
\* header that is too large costs all that has arrived.
DrainWaitsForNone(s) ==                                             \* mutant
    [yields |-> DecodeStream(s), rest |-> <<>>]
Drain(s) ==
    LET from[p \in 1 .. (Len(s) + 1)] ==
            IF p > Len(s) THEN [yields |-> <<>>, rest |-> <<>>]
            ELSE IF Terminator(s, p) = 0
            THEN IF Len(s) - p + 1 >= HeaderMax
                 THEN [yields |-> <<Error("header_too_large")>>, rest |-> <<>>]
                 ELSE [yields |-> <<>>, rest |-> SubSeq(s, p, Len(s))]
            ELSE LET f == FrameAt(s, p)
                 IN  IF f.next = 0 THEN [yields |-> <<>>, rest |-> SubSeq(s, p, Len(s))]
                     ELSE [yields |-> <<f.yields>> \o from[f.next].yields,
                           rest |-> from[f.next].rest]
    IN  from[1]

\* decode_lsp_frame of lsp_frame.py: the first frame of a buffer.
PyDecode(s) ==
    LET found == {i \in 1 .. (Len(s) - 3) : SubSeq(s, i, i + 3) = CRLF \o CRLF}
        t == CHOOSE i \in found : \A k \in found : i <= k
        lines == Lines(SubSeq(s, 1, t - 1))
        bad == HeaderError(lines)
        end == t + 4 + Length[lines[1][1]]
    IN  IF found = {}
        THEN Error(IF Len(s) >= HeaderMax THEN "header_too_large" ELSE "truncated_body")
        ELSE IF t - 1 >= HeaderMax THEN Error("header_too_large")
        ELSE IF bad = "unknown_header" \/ \E k \in 2..Len(lines) : lines[k] \notin {<<"tp">>, <<"ts">>}
        THEN Error("unknown_header")
        ELSE IF bad = "content_length_invalid" \/ end > Len(s) + 1 THEN Error("truncated_body")
        ELSE LET body == SubSeq(s, t + 4, end - 1)
             IN  IF Contains(body, "b") THEN Error("utf8_invalid")
                 ELSE [ok |-> TRUE, body |-> body,
                       tp |-> Contains(lines, <<"tp">>), ts |-> Contains(lines, <<"ts">>)]

-----------------------------------------------------------------------------
Init ==
    /\ \E n \in 1..NPieces :
        \/ frames \in [1..n -> Frames] /\ stream = EncodeStream(frames)
        \/ /\ frames = <<>>
           /\ \E pieces \in [1..n -> Junk \cup {Encode(f) : f \in Frames}] :
                stream = FlattenSeq(pieces)
    /\ arrived = 0 /\ acc = <<>> /\ emitted = <<>> /\ ended = FALSE

Chunk ==
    /\ ~ended
    /\ \E n \in (arrived + 1) .. Len(stream) :
        /\ arrived' = n
        /\ LET d == Drain(acc \o SubSeq(stream, arrived + 1, n))
           IN  acc' = d.rest /\ emitted' = emitted \o d.yields
    /\ UNCHANGED <<frames, stream, ended>>

\* What is left when the source ends is decoded as a stream of its own.
End ==
    /\ ~ended /\ ended' = TRUE
    /\ emitted' = emitted \o DecodeStream(acc)
    /\ acc' = <<>> /\ UNCHANGED <<frames, stream, arrived>>

Next == Chunk \/ End
Spec == Init /\ [][Next]_vars

-----------------------------------------------------------------------------
Received == SubSeq(stream, 1, arrived)

TooLarge(yields) == {k \in DOMAIN yields : yields[k] = Error("header_too_large")}

\* Where the chunks were cut shows in nothing, up to the first header that the
\* decoder of chunks finds too large: after it, that decoder goes on with the
\* next chunk where the other one stops.
ChunksDoNotShow ==
    ended => LET whole == DecodeStream(Received)
                 big == TooLarge(emitted)
             IN  IF big = {} THEN emitted = whole
                 ELSE LET k == CHOOSE i \in big : \A o \in big : i <= o
                      IN  SubSeq(emitted, 1, k - 1) = SubSeq(whole, 1, k - 1)

\* What a peer encoded is what is decoded, frame by frame, however it is cut,
\* if no header is longer than the limit.
Sendable(f) == Len(Encode(f)) - Len(f.body) <= HeaderMax
Decoded(f) == [ok |-> TRUE, body |-> f.body, tp |-> f.tp, ts |-> f.tp /\ f.ts]
FramesSurvive ==
    /\ ended /\ arrived = Len(stream)
    /\ frames # <<>> /\ \A k \in DOMAIN frames : Sendable(frames[k])
    => emitted = [k \in DOMAIN frames |-> Decoded(frames[k])]

\* The Python decoder answers a buffer as the other one answers its first
\* frame, except that it lets a header be a few bytes longer, reads numbers of
\* any size, and leaves the text to its caller.
RuntimesAgreeOnFrames ==
    ended /\ arrived > 0 =>
        LET ts == DecodeStream(Received)[1]
            py == PyDecode(Received)
        IN  \/ ts = py \/ ts = Error("header_too_large")
            \/ ts = Error("malformed_json") /\ py.ok
            \/ ts = Error("content_length_invalid") /\ ~py.ok

\* Cuts never show (false: a header whose terminator ends one byte past the
\* limit is found in one chunk and refused when a chunk ends at the limit).
ChunksNeverShow == ended => emitted = DecodeStream(Received)

------------------------------------------------------------------------------
(***************************************************************************)
(* The NDJSON decoders of packages/core/src/wire/ndjson.ts, and the reader *)
(* of adapter-python-process/src/pkit_wire/ndjson.py.  The decoder of      *)
(* chunks turns bytes into text with one streaming TextDecoder, made once  *)
(* for the module, so that iterators over different streams share it.      *)
(*                                                                         *)
(* Bytes: "j" of a JSON text, "nl" and "r" of a line break, "x" that is no *)
(* JSON, "h1" and "h2" the halves of a character of two bytes.  Text: the  *)
(* same without halves, "e" for the character and "?" for the replacement  *)
(* character.                                                              *)
(***************************************************************************)

CONSTANTS
    Iterators,  \* calls of decodeNdjsonAsyncIter, one stream each
    Streams     \* what a stream may hold, in bytes

VARIABLES
    bytes,      \* the stream of each iterator
    read,       \* how much of it has arrived
    half,       \* TEXT_DECODER holds the first half of a character
    owner,      \* history: whose it is
    text,       \* accumulator of each iterator
    offset,     \* byteOffset
    yields,     \* what each iterator has yielded
    done,
    mixed       \* history: iterators that lost or got half a character

lineVars == <<bytes, read, half, owner, text, offset, yields, done, mixed>>

-----------------------------------------------------------------------------
(***************************************************************************)
(* TextDecoder.decode(chunk, { stream: true }), external: the text, and    *)
(* whether half a character is held back.                                  *)
(***************************************************************************)
TextOf(chunk, held) ==
    LET add(d, b) ==
            CASE d.held /\ b = "h2" -> [out |-> Append(d.out, "e"), held |-> FALSE]
              [] b = "h1" -> [out |-> IF d.held THEN Append(d.out, "?") ELSE d.out, held |-> TRUE]
              [] OTHER -> [out |-> (IF d.held THEN Append(d.out, "?") ELSE d.out)
                                    \o <<IF b = "h2" THEN "?" ELSE b>>,
                           held |-> FALSE]
    IN  FoldLeft(add, [out |-> <<>>, held |-> held], chunk)

Width(s) == FoldLeft(LAMBDA n, c : n + (IF c = "e" THEN 2 ELSE IF c = "?" THEN 3 ELSE 1), 0, s)

\* A JSON text begins with a "j" and holds no "x"; "\r" is white space in it.
IsJson(line) ==
    /\ ~Contains(line, "x")
    /\ LET bare == SelectSeq(line, LAMBDA c : c # "r") IN bare # <<>> /\ bare[1] = "j"

\* One line with its "\r" cut off, or the error for it.
Line(raw, at) ==
    LET line == IF raw # <<>> /\ Last(raw) = "r" THEN Front(raw) ELSE raw
    IN  CASE line = <<>> -> <<"malformed_line", at>>
          [] IsJson(line) -> <<"ok", line>>
          [] OTHER -> <<"malformed_json", at>>

\* The lines of s that end in a newline, from the offset at on; what is left.
TakeLines(s, at) ==
    LET add(d, c) ==
            IF c = "nl"
            THEN [out |-> Append(d.out, Line(d.rest, d.at)), rest |-> <<>>,
                  at |-> d.at + Width(d.rest) + 1]
            ELSE [d EXCEPT !.rest = Append(@, c)]
    IN  FoldLeft(add, [out |-> <<>>, rest |-> <<>>, at |-> at], s)

\* decodeNdjsonStream: split("\n") leaves an empty string after the last one.
DecodeNdjson(s) ==
    LET d == TakeLines(s, 0)
    IN  IF d.rest = <<>> THEN d.out ELSE Append(d.out, Line(d.rest, d.at))

\* read_frames: blank lines are skipped, the first that is no JSON raises.
PyRead(s) ==
    LET add(d, c) == IF c = "nl" THEN Append(d, <<>>) ELSE Append(Front(d), Append(Last(d), c))
        lines == FoldLeft(add, << <<>> >>, s)
        bare(l) == SelectSeq(l, LAMBDA c : c # "r")
        full == SelectSeq([k \in DOMAIN lines |-> bare(lines[k])], LAMBDA l : l # <<>>)
        bad == {k \in DOMAIN full : ~IsJson(full[k])}
    IN  IF bad = {} THEN full
        ELSE SubSeq(full, 1, (CHOOSE k \in bad : \A o \in bad : k <= o) - 1)

-----------------------------------------------------------------------------
LineInit ==
    /\ bytes \in [Iterators -> Streams]
    /\ read = [i \in Iterators |-> 0]
    /\ half = FALSE /\ owner = CHOOSE i \in Iterators : TRUE
    /\ text = [i \in Iterators |-> <<>>] /\ offset = [i \in Iterators |-> 0]
    /\ yields = [i \in Iterators |-> <<>>] /\ done = [i \in Iterators |-> FALSE]
    /\ mixed = {}

LineChunk(i) ==
    /\ ~done[i]
    /\ \E n \in (read[i] + 1) .. Len(bytes[i]) :
        LET t == TextOf(SubSeq(bytes[i], read[i] + 1, n), half)
            d == TakeLines(text[i] \o t.out, offset[i])
        IN  /\ read' = [read EXCEPT ![i] = n]
            /\ half' = t.held /\ owner' = IF t.held THEN i ELSE owner
            /\ text' = [text EXCEPT ![i] = d.rest]
            /\ offset' = [offset EXCEPT ![i] = d.at]
            /\ yields' = [yields EXCEPT ![i] = @ \o d.out]
    /\ mixed' = mixed \cup (IF half /\ owner # i THEN {owner, i} ELSE {})
    /\ UNCHANGED <<bytes, done>>

\* What follows the last newline is a line; half a character is left where it
\* is, for whoever decodes next.
EndDropsLine(i) ==                                                  \* mutant
    /\ ~done[i] /\ done' = [done EXCEPT ![i] = TRUE]
    /\ text' = [text EXCEPT ![i] = <<>>]
    /\ UNCHANGED <<bytes, read, half, owner, offset, yields, mixed>>
LineEnd(i) ==
    /\ ~done[i] /\ done' = [done EXCEPT ![i] = TRUE]
    /\ yields' = [yields EXCEPT ![i] =
            IF text[i] = <<>> THEN @ ELSE Append(@, Line(text[i], offset[i]))]
    /\ text' = [text EXCEPT ![i] = <<>>]
    /\ UNCHANGED <<bytes, read, half, owner, offset, mixed>>

LineNext == \E i \in Iterators : LineChunk(i) \/ LineEnd(i)
LineSpec == LineInit /\ [][LineNext]_vars

-----------------------------------------------------------------------------
LineReceived(i) == SubSeq(bytes[i], 1, read[i])
Whole(i) == TextOf(LineReceived(i), FALSE)

\* Where the chunks were cut, also inside a character, shows in nothing, for an
\* iterator whose halves met no other one's; offsets count the stream's bytes.
LinesAreChunkedAlike ==
    \A i \in Iterators :
        done[i] /\ i \notin mixed /\ ~Whole(i).held => yields[i] = DecodeNdjson(Whole(i).out)

\* The two runtimes read the same values, up to the line at which Python gives up.
RuntimesReadAlike ==
    \A i \in Iterators :
        LET s == Whole(i).out
            all == DecodeNdjson(s)
            oks == SelectSeq(all, LAMBDA y : y[1] = "ok")
            py == PyRead(s)
        IN  /\ Len(py) <= Len(oks)
            /\ \A k \in DOMAIN py : py[k] = SelectSeq(oks[k][2], LAMBDA c : c # "r")
            /\ Len(py) = Len(oks) \/ \E k \in DOMAIN all : all[k][1] = "malformed_json"

\* What the comment of the streaming decoder promises (ndjson.ts 103-111): it
\* yields what its own stream holds, whoever else decodes (false).
StreamsAreApart ==
    \A i \in Iterators :
        done[i] /\ ~Whole(i).held => yields[i] = DecodeNdjson(Whole(i).out)
==============================================================================
