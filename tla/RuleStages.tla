----------------------------- MODULE RuleStages -----------------------------
(* Three processes in a row, as a pipeline chains them: validate lets an     *)
(* input through the schema, classify gives it the category of the rule that *)
(* wins, and route hands it to the branch of that name.                      *)
EXTENDS Naturals, FiniteSets, SequencesExt

CONSTANTS
    Rules,          \* the rules a configuration is made of
    Categories      \* the category names rules and branches use

VARIABLES
    config,         \* what the three processes were created with
    input,          \* the value at the rules' field, as the schema reads it
    at,             \* the process the value is in, or how it came out
    category,       \* what classify gave it
    told            \* onCoerce was called

rulesVars == <<config, input, at, category, told>>

(* JavaScript values: undefined (the field is not there), null, numbers and  *)
(* strings; String(v) and Number(v) are total, NaN compares with nothing.    *)
Undefined == [type |-> "undefined"]
Null      == [type |-> "null"]
Num(n)    == [type |-> "number", n |-> n]
Str(s)    == [type |-> "string", s |-> s]
NaN       == [type |-> "NaN"]

StringOf(v) ==
    CASE v.type = "undefined" -> "undefined"
      [] v.type = "null"      -> "null"
      [] v.type = "number"    -> IF v.n = 0 THEN "0" ELSE "1"
      [] v.type = "string"    -> v.s
NumberOf(v) ==
    CASE v.type = "undefined" -> NaN
      [] v.type = "null"      -> Num(0)
      [] v.type = "number"    -> v
      [] v.type = "string"    -> CASE v.s = "" -> Num(0) [] v.s = "1" -> Num(1)
                                   [] OTHER -> NaN
Includes(s, t) == t = "" \/ s = t \/ <<s, t>> \in {<<"undefined", "d">>, <<"bad", "d">>}
Greater(x, y) == x.type = "number" /\ y.type = "number" /\ x.n > y.n

evalRule(rule, v) ==
    CASE rule.match = "equals"   -> v = rule.value
      [] rule.match = "contains" -> Includes(StringOf(v), StringOf(rule.value))
      [] rule.match = "regex"    -> rule.value # Str("(") /\ Includes(StringOf(v), rule.value.s)
      [] rule.match = "gt"       -> Greater(NumberOf(v), NumberOf(rule.value))
      [] rule.match = "lt"       -> Greater(NumberOf(rule.value), NumberOf(v))

(* The rules in the order they are tried: by priority, the highest first,    *)
(* and in the order of the configuration where it is the same.               *)
BeforeByPlace(rules, i, j) == i < j                                     \* mutant
Before(rules, i, j) ==
    \/ rules[i].priority > rules[j].priority
    \/ rules[i].priority = rules[j].priority /\ i < j
Sorted(rules) ==
    LET rank(i) == Cardinality({j \in DOMAIN rules: Before(rules, j, i)}) + 1
    IN  [k \in DOMAIN rules |-> rules[CHOOSE i \in DOMAIN rules: rank(i) = k]]

Init ==
    /\ config \in [rules: Rules \X Rules \X Rules, default: {"", "other"}, llm: BOOLEAN,
                   mode: {"coerce", "strict"}, branches: SUBSET Categories,
                   defaultBranch: {"", "c1"}]
    /\ input \in {Undefined, Null, Num(0), Num(1), Str("bad"), Str("")}
    /\ at = "validate" /\ category = "" /\ told = FALSE

(* parsed: what safeParse made of the input. zod builds a new object for     *)
(* every object it parses, so even an unchanged one is not the input.        *)
Validate(parsed) ==
    /\ at = "validate"
    /\ at' = IF parsed # "bad" THEN "classify"
             ELSE IF config.mode = "strict" THEN "schema_parse_failed"
             ELSE "schema_coerce_failed"
    /\ told' = (config.mode = "coerce" /\ parsed \in {"copied", "changed"})
    /\ UNCHANGED <<config, input, category>>

Matching == {i \in 1..3: evalRule(Sorted(config.rules)[i], input)}

ClassifyFirst ==
    /\ Matching # {}
    /\ category' = Sorted(config.rules)[CHOOSE i \in Matching: \A j \in Matching: i <= j].category
    /\ at' = "route"
ClassifyDefault ==
    /\ Matching = {} /\ config.default # ""
    /\ category' = config.default /\ at' = "route"
ClassifyNothing ==
    /\ Matching = {} /\ config.default = ""
    /\ at' = "classify_no_match" /\ UNCHANGED category
Classify ==
    /\ at = "classify" /\ ~config.llm
    /\ ClassifyFirst \/ ClassifyDefault \/ ClassifyNothing
    /\ UNCHANGED <<config, input, told>>

(* mode: 'llm'. What the extract process says, or its error, as it is.       *)
ClassifyByModel(extracted) ==
    /\ at = "classify" /\ config.llm
    /\ IF extracted = "fails" THEN at' = "extract_error" /\ UNCHANGED category
                              ELSE at' = "route" /\ category' = extracted
    /\ UNCHANGED <<config, input, told>>

(* The branches are a plain object: a name every object inherits is found    *)
(* among them and is no process, so calling its run throws.                  *)
Inherited == {"toString"}
Branch(name) ==
    IF name \in config.branches THEN name
    ELSE IF name \in Inherited THEN "throws"
    ELSE IF config.defaultBranch \in config.branches THEN config.defaultBranch
    ELSE "route_no_branch"

Route(throws) ==
    /\ at = "route"
    /\ at' = IF throws THEN "predicate_error" ELSE Branch(category)
    /\ UNCHANGED <<config, input, category, told>>

Next ==
    \/ \E parsed \in {"same", "copied", "changed", "bad"}: Validate(parsed)
    \/ Classify
    \/ \E extracted \in Categories \cup {"fails"}: ClassifyByModel(extracted)
    \/ \E throws \in BOOLEAN: Route(throws)

-----------------------------------------------------------------------------
(* The category a value leaves classify with is the one of a rule that       *)
(* matches it, that no matching rule outranks and no earlier one equals; the *)
(* default only where no rule matches. And the branch it reaches has that    *)
(* name wherever there is one, unless the name is one objects inherit.       *)
Wins(i) ==
    LET rules == config.rules
    IN  /\ evalRule(rules[i], input)
        /\ \A j \in 1..3: evalRule(rules[j], input) =>
              /\ rules[j].priority <= rules[i].priority
              /\ rules[j].priority = rules[i].priority => i <= j
RightBranch ==
    /\ category # "" /\ ~config.llm =>
                        IF \E i \in 1..3: evalRule(config.rules[i], input)
                        THEN \E i \in 1..3: Wins(i) /\ category = config.rules[i].category
                        ELSE category = config.default
    /\ at \in config.branches => at = category \/ (category \notin config.branches
                                                    /\ at = config.defaultBranch)
    /\ at = "throws" => category \in Inherited \ config.branches
    /\ at = "route_no_branch" => /\ category \notin config.branches
                                 /\ config.defaultBranch \notin config.branches

(* A field that is not there matches no rule. It does: String(undefined) is  *)
(* a text like any other.                                                    *)
MissingMatchesNothing ==
    at = "route" /\ ~config.llm /\ input = Undefined => category = config.default

------------------------------------------------------------------------------
(* The probes of research/spikes/cat-vi-stage-model-extension/spike-1: three *)
(* ways to have an aggregate (probe-aggregate.ts) and three to have a gate   *)
(* (probe-gate.ts), held against each other.                                 *)

CONSTANTS
    Sizes,      \* of windows of a count
    MaxItems,   \* bound: items of the upstream
    MaxErrors   \* bound: errors among them

VARIABLES
    way,        \* "A", "B" or "C", or "gate"
    window,     \* [type |-> "count", n |-> ...] or [type |-> "all"]
    upstream,   \* the items, in order
    pulled,     \* how many were
    broken,     \* history: errors that were pulled, between them
    buffer,
    out,        \* the summaries the aggregate has produced
    errors,     \* and its errors, their number
    done,
    atom,       \* what the gates are asked about
    verdicts    \* what each way makes of it

wayVars == <<way, window, upstream, pulled, broken, buffer, out, errors, done, atom, verdicts>>

\* Scores in hundredths.
Goods == [score : {60, 80}, category : {"tech", "health"}]
Failed == [ok |-> FALSE]
Atoms == [profane : BOOLEAN, uncertain : BOOLEAN, trailing : BOOLEAN, long : BOOLEAN]
NoAtom == CHOOSE a \in Atoms : TRUE

WayInit ==
    /\ way \in {"A", "B", "C", "gate"}
    \* A and C are made with a count; B is told its window by the Composer.
    /\ window \in {[type |-> "count", n |-> n] : n \in Sizes}
                  \cup (IF way = "B" THEN {[type |-> "all"]} ELSE {})
    /\ upstream \in (IF way = "gate" THEN {<<>>}
                     ELSE UNION {[1..k -> Goods] : k \in 0..MaxItems})
    /\ pulled = 0 /\ broken = 0 /\ buffer = <<>> /\ out = <<>> /\ errors = 0 /\ done = FALSE
    /\ atom \in (IF way = "gate" THEN Atoms ELSE {NoAtom}) /\ verdicts = <<>>

-----------------------------------------------------------------------------
Total(s) == FoldSeq(LAMBDA x, sum : x.score + sum, 0, s)
\* The average is rounded to the hundredth.
summarise(s) ==
    [ok |-> TRUE, totalCount |-> Len(s), categories |-> {x.category : x \in ToSet(s)},
     avgScore |-> (2 * Total(s) + Len(s)) \div (2 * Len(s)), windowType |-> "count-5"]

accumulate(s) ==
    IF window.type = "count" /\ Len(s) < window.n THEN Failed ELSE summarise(s)
\* The process of way B is given an array, and asks only whether it is empty.
RunB(s) == IF s = <<>> THEN Failed ELSE summarise(s)
\* The window's size: that of the source, unless it is a count.
Size == IF window.type = "count" THEN window.n ELSE Len(upstream)

Produce(s) == CASE way = "A" -> accumulate(s) [] way = "B" -> RunB(s) [] way = "C" -> summarise(s)
RestAll(s) == s                                                     \* mutant
\* splice(0, n)
Rest(s) == SubSeq(s, Size + 1, Len(s))

Emit(r) == IF r.ok THEN out' = Append(out, r) /\ UNCHANGED errors
           ELSE errors' = errors + 1 /\ UNCHANGED out

\* composerBufferA, composerBufferB and pull of C take one item and flush a
\* full window before they take the next.
Pull ==
    /\ way # "gate" /\ ~done /\ pulled < Len(upstream) /\ pulled' = pulled + 1
    /\ LET full == Append(buffer, upstream[pulled + 1])
       IN  IF Len(full) >= Size
           THEN Emit(Produce(SubSeq(full, 1, Size))) /\ buffer' = Rest(full)
           ELSE buffer' = full /\ UNCHANGED <<out, errors>>
    /\ UNCHANGED <<way, window, upstream, broken, done, atom, verdicts>>
\* A source may yield an error in between, which C passes on.
PullError ==
    /\ way = "C" /\ ~done /\ broken < MaxErrors
    /\ broken' = broken + 1 /\ Emit(Failed)
    /\ UNCHANGED <<way, window, upstream, pulled, buffer, done, atom, verdicts>>
EndsDry == FALSE                                                    \* mutant
\* Only a source flushes what is left when its upstream ends.
FlushesRest == way = "C"
Exhausted ==
    /\ way # "gate" /\ ~done /\ pulled = Len(upstream) /\ done' = TRUE
    /\ IF FlushesRest /\ buffer # <<>> THEN Emit(Produce(buffer)) /\ buffer' = <<>>
       ELSE UNCHANGED <<out, errors, buffer>>
    /\ UNCHANGED <<way, window, upstream, pulled, broken, atom, verdicts>>

-----------------------------------------------------------------------------
DecideLate(a) ==                                                    \* mutant
    CASE a.uncertain -> "hold" [] a.profane /\ ~a.uncertain -> "reject"
      [] ~a.uncertain /\ ~a.profane -> IF a.trailing THEN "transform" ELSE "pass"
computeDecision(a) ==
    CASE a.profane -> "reject" [] ~a.profane /\ a.uncertain -> "hold"
      [] ~a.profane /\ ~a.uncertain -> IF a.trailing THEN "transform" ELSE "pass"
\* Way B says it as the Result of a Process ...
GateB(a) ==
    LET d == computeDecision(a)
    IN  CASE d \in {"pass", "transform"} -> [ok |-> TRUE, data |-> [a EXCEPT !.trailing = FALSE]]
          [] d = "hold" -> [ok |-> FALSE, code |-> "gate_held", retryable |-> TRUE]
          [] d = "reject" -> [ok |-> FALSE, code |-> "gate_rejected", retryable |-> FALSE]
\* ... in which its driver reads the action again.
ReadB(a, r) ==
    CASE r.ok -> IF r.data = a THEN "pass" ELSE "transform"
      [] ~r.ok /\ r.code = "gate_held" -> "hold"
      [] ~r.ok /\ r.code = "gate_rejected" -> "reject"
Gate1(a) == IF a.long THEN [ok |-> FALSE, code |-> "gate_rejected", retryable |-> FALSE]
            ELSE [ok |-> TRUE, data |-> a]
\* Gates of way B follow each other as stages do.
Chain(a) == IF Gate1(a).ok THEN GateB(Gate1(a).data) ELSE Gate1(a)
Evaluate ==
    /\ way = "gate" /\ ~done /\ done' = TRUE
    /\ verdicts' = [A |-> computeDecision(atom), B |-> GateB(atom),
                    C |-> computeDecision(atom), chain |-> Chain(atom)]
    /\ UNCHANGED <<way, window, upstream, pulled, broken, buffer, out, errors, atom>>

WayNext == Pull \/ PullError \/ Exhausted \/ Evaluate

-----------------------------------------------------------------------------
Through(k) == IF k * Size <= Len(upstream) THEN k * Size ELSE Len(upstream)

\* The k-th summary is of the k-th window of the items there were, whichever
\* way it is made, and there is one for each full window; a source makes one
\* of what is left as well; and there is no error but those that were pulled,
\* each of which is passed on (summarise and the three buffers).
WindowsAreCut ==
    done /\ way # "gate" =>
        /\ IF way = "C"
           THEN Len(out) * Size \in Len(upstream)..(Len(upstream) + Size - 1)
           ELSE \/ Len(out) * Size \in (Len(upstream) - Size + 1)..Len(upstream)
                \/ Size = 0 /\ Len(out) = 0
        /\ \A k \in DOMAIN out :
             out[k] = summarise(SubSeq(upstream, (k - 1) * Size + 1, Through(k)))
        /\ errors = broken

\* Nothing profane passes, what is uncertain waits for a person unless it is
\* rejected, and a gate that is a Process says what a gate of its own type
\* would (computeDecision and the two encodings).
GatesAgree ==
    done /\ way = "gate" =>
        /\ verdicts.A = ReadB(atom, verdicts.B)
        /\ atom.profane \/ atom.long => ~verdicts.chain.ok /\ ~verdicts.chain.retryable
        /\ ~verdicts.chain.ok /\ verdicts.chain.retryable => atom.uncertain /\ ~atom.profane

\* Not so: what does not fill a window is not dropped.
NothingIsLeft == done => buffer = <<>>
\* Not so: a summary names its window.
WindowIsNamed == \A k \in DOMAIN out : out[k].totalCount = 5
=============================================================================
