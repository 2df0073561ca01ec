----------------------------- MODULE EvalAndCost -----------------------------
(* defineEval and runEval: the cases of an eval, at most as many at a time   *)
(* as the eval's concurrency, each case scored by its scorers one after the  *)
(* other, and the summary once all are done. The scorers are exactMatch,     *)
(* with deepEqual over values of any kind that nest two deep, and a judge    *)
(* that passes, fails or throws; a definition that names a judge (opts.judge) *)
(* has no scorer by that.                                                    *)
EXTENDS Integers, Sequences, FiniteSets

CONSTANTS
    MaxCases,
    Concurrency,    \* the values of opts.concurrency
    Data            \* the outputs and the expected values

VARIABLES
    scorers,        \* opts.scorers: "exact", or "exact" and "judge", or none
    judged,         \* opts.judge is given
    concurrency,    \* opts.concurrency
    expected,       \* of each case
    case,           \* the case's place: "queued", "task", "score", "done"
    output,         \* of each case: what the task returned
    scores,         \* of each case: the passes of its scorers
    failed,         \* the cases whose task threw
    passed          \* the summary's count of cases that passed, or None

evalVars == <<scorers, judged, concurrency, expected, case, output, scores, failed, passed>>

Cases == DOMAIN expected
None == -1
Undef == [type |-> "undefined"]

-----------------------------------------------------------------------------
(* Values: primitives and dates; objects and arrays, the functions "at" of   *)
(* their own keys to values; maps, whose "at" is their keys and values in    *)
(* turn, in the order deepEqual sorts them to, that of the keys as text; and *)
(* sets. Two values that are compared were made apart, and share no object.  *)
Composite == {"object", "array", "date", "map", "set"}
Keys(v) == IF v.type \in {"object", "array"} THEN DOMAIN v.at ELSE {}
Field(v, k) == IF k \in Keys(v) THEN v.at[k] ELSE Undef

Is(a, b) == a = b /\ a.type \notin Composite
(* Object.is, then the cases in the order of the code; the parts are compared *)
(* by Same, but for the members of a set, which are by Object.is. Two kinds  *)
(* meet under the rule for objects, where only objects and arrays have keys. *)
Compared(Same(_, _), a, b) ==
    \/ Is(a, b)
    \/ a.type = "date" /\ b.type = "date" /\ a.ms = b.ms
    \/ /\ a.type = "set" /\ b.type = "set"
       /\ Cardinality(a.members) = Cardinality(b.members)
       /\ \A m \in a.members: \E n \in b.members: Is(m, n)
    \/ /\ a.type = b.type /\ a.type \in {"array", "map"}
       /\ Cardinality(DOMAIN a.at) = Cardinality(DOMAIN b.at)
       /\ \A k \in DOMAIN a.at: Same(a.at[k], b.at[k])
    \/ /\ a.type \in Composite /\ b.type \in Composite
       /\ a.type = b.type => a.type = "object"
       /\ Cardinality(Keys(a)) = Cardinality(Keys(b))
       /\ \A k \in Keys(a): Same(Field(a, k), Field(b, k))

EqualParts(a, b) == Compared(Is, a, b)
deepEqualShallow(a, b) == Compared(Is, a, b)                            \* mutant
deepEqual(a, b) == Compared(EqualParts, a, b)

-----------------------------------------------------------------------------
(* defineEval throws on an eval without cases, and on one without scorers    *)
(* unless it names a judge.                                                  *)
Defined == expected # <<>> /\ (scorers # <<>> \/ judged)
Init ==
    /\ scorers \in {<<>>, <<"exact">>, <<"exact", "judge">>} /\ judged \in BOOLEAN
    /\ concurrency \in Concurrency
    /\ expected \in UNION {[1..n -> Data]: n \in 0..MaxCases} /\ Defined
    /\ case = [c \in Cases |-> "queued"]
    /\ output = [c \in Cases |-> Undef] /\ scores = [c \in Cases |-> <<>>]
    /\ failed = {} /\ passed = None

Running == {c \in Cases: case[c] \notin {"queued", "done"}}

(* pLimit starts the cases in their order.                                   *)
Start(c) ==
    /\ case[c] = "queued" /\ \A d \in 1..(c - 1): case[d] # "queued"
    /\ Cardinality(Running) < concurrency
    /\ case' = [case EXCEPT ![c] = "task"]
    /\ UNCHANGED <<scorers, judged, concurrency, expected, output, scores, failed, passed>>

(* A task that returns undefined is scored by nobody.                        *)
TaskReturns(c, v) ==
    /\ case[c] = "task"
    /\ case' = [case EXCEPT ![c] = IF v = Undef \/ scorers = <<>> THEN "done" ELSE "score"]
    /\ output' = [output EXCEPT ![c] = v]
    /\ UNCHANGED <<scorers, judged, concurrency, expected, scores, failed, passed>>
TaskThrows(c) ==
    /\ case[c] = "task"
    /\ case' = [case EXCEPT ![c] = "done"] /\ failed' = failed \cup {c}
    /\ UNCHANGED <<scorers, judged, concurrency, expected, output, scores, passed>>

(* The scorers take their turns in the order they are given.                 *)
Turn(c, name) == case[c] = "score" /\ scorers[Len(scores[c]) + 1] = name
Scored(c, pass) ==
    /\ scores' = [scores EXCEPT ![c] = Append(@, pass)]
    /\ case' = [case EXCEPT ![c] = IF Len(scores'[c]) = Len(scorers) THEN "done" ELSE @]
    /\ UNCHANGED <<scorers, judged, concurrency, expected, output, failed, passed>>
ExactMatch(c) == Turn(c, "exact") /\ Scored(c, deepEqual(output[c], expected[c]))
(* A judge that throws is a score that does not pass.                        *)
Judge(c, verdict) == Turn(c, "judge") /\ Scored(c, verdict = "pass")

AllPassUnscored(c) == c \notin failed /\ \A i \in DOMAIN scores[c]: scores[c][i] \* mutant
AllPass(c) == c \notin failed /\ scores[c] # <<>> /\ \A i \in DOMAIN scores[c]: scores[c][i]
PassCount == Cardinality({c \in Cases: AllPass(c)})
Summarise ==
    /\ \A c \in Cases: case[c] = "done" /\ passed = None
    /\ passed' = PassCount
    /\ UNCHANGED <<scorers, judged, concurrency, expected, case, output, scores, failed>>

Own ==
    \/ \E c \in Cases: Start(c) \/ ExactMatch(c)
    \/ Summarise
Next ==
    \/ Own
    \/ \E c \in Cases:
          \/ TaskThrows(c)
          \/ \E v \in Data \cup {Undef}: TaskReturns(c, v)
          \/ \E verdict \in {"pass", "fail", "throws"}: Judge(c, verdict)

-----------------------------------------------------------------------------
(* The same value: the same type, the same keys with the same values.        *)
(* Where deepEqual is known to say more: a field that is there as undefined  *)
(* against another field, and two kinds of values without keys. Where it     *)
(* says less: sets with members that are objects, and maps with keys that    *)
(* read alike, whose order then counts.                                      *)
ReadAlike(k, l) == IF k.type \in Composite THEN l.type \in Composite
                   ELSE l.type \notin Composite /\ k.n = l.n
Loose(v) ==
    \/ v.type = "object" /\ \E k \in Keys(v): Field(v, k) = Undef
    \/ v.type = "set" /\ \E m \in v.members: m.type \in Composite
    \/ /\ v.type = "map"
       /\ \E i, j \in DOMAIN v.at: i < j /\ i % 2 = 1 /\ j % 2 = 1 /\ ReadAlike(v.at[i], v.at[j])
BlurredHere(a, b) ==
    \/ Loose(a) \/ Loose(b)
    \/ a.type # b.type /\ {a.type, b.type} \subseteq Composite
Holding == {"object", "array", "map"}
Blurred(a, b) ==
    \/ BlurredHere(a, b)
    \/ /\ a.type = b.type /\ a.type \in Holding
       /\ \E k \in DOMAIN a.at \cap DOMAIN b.at: BlurredHere(a.at[k], b.at[k])

(* A case counts as passed exactly when its task answered and every scorer   *)
(* there is, one at least, passed it, exactMatch those whose output is the   *)
(* expected value; however the tasks of the cases overlap, and never more    *)
(* than the concurrency of them at once.                                     *)
Pass(c) ==
    /\ output[c] # Undef /\ Len(scores[c]) = Len(scorers) /\ scorers # <<>>
    /\ \A i \in DOMAIN scorers: IF scorers[i] = "exact" /\ ~Blurred(output[c], expected[c])
                                THEN output[c] = expected[c] ELSE scores[c][i]
EvalIsFair ==
    /\ Cardinality(Running) <= concurrency
    /\ \A c \in Cases: ~Blurred(output[c], expected[c]) /\ scores[c] # <<>>
                          => scores[c][1] = (output[c] = expected[c])
    /\ passed # None => passed = Cardinality({c \in Cases: Pass(c)})

(* What defineEval accepts has a case that could pass. Not when it names a   *)
(* judge and has no scorers: the judge is not made into one.                 *)
DefinedCanPass == scorers # <<>>

(* Equality of outputs is symmetric. Not where a field is undefined.         *)
EqualBothWays == \A a, b \in Data: deepEqual(a, b) = deepEqual(b, a)

(* Equality is structural, as the scorers' README has it: a value is equal   *)
(* to the same value built anew. Not a set of objects.                       *)
EqualToItsCopy == \A a \in Data: deepEqual(a, a)

(* Values of two kinds are not equal. A map, a set or a date is equal to an  *)
(* empty object, and a map of anything to a set of anything.                 *)
EqualsAreOfAKind == \A a, b \in Data: deepEqual(a, b) => a.type = b.type

------------------------------------------------------------------------------
(* createCostCalculator: the price of one call of a model, from its tokens   *)
(* and a table of prices over which the caller's own are laid entry by       *)
(* entry. Amounts are in millionths of a dollar, so they are integers.       *)

CONSTANTS
    Models,         \* "provider:model" keys
    MaxCalls        \* calls priced in a behavior

VARIABLES
    custom,         \* opts.customPrices: of each model an entry or NoEntry
    events,         \* the results of compute, in order
    billed          \* history: what those of each model add up to

costVars == <<custom, events, billed>>

NoEntry == [input |-> -1]             \* no entry
Omitted == -1
Axes == {"input", "output", "cacheWrite", "cacheRead"}

(* The bundled table, whose entries have a price for each tier of cache      *)
(* writes; OpenAI charges nothing for them.                                  *)
Entry(input, tokensOut, write5m, write1h, read) ==
    [input |-> input, output |-> tokensOut, cacheWrite5m |-> write5m,
     cacheWrite1h |-> write1h, cacheRead |-> read]
PRICES == [m \in Models |-> CASE m = "anthropic:a" -> Entry(3, 5, 4, 6, 1)
                              [] m = "openai:b"    -> Entry(2, 4, 0, 0, 1)
                              [] OTHER             -> NoEntry]
CostOwn == Entry(1, 1, 2, 2, 0)

MergedPrices(m) == IF custom[m] # NoEntry THEN custom[m] ELSE PRICES[m]

(* A negative count is not a token usage; a cache count left out is 0.       *)
Usages == [input: {-1, 0, 2}, output: {0, 1}, cacheWrite: {Omitted, 3}, cacheRead: {Omitted, 2}]
Valid(u) == u.input >= 0
Tokens(u, axis) == IF u[axis] = Omitted THEN 0 ELSE u[axis]

Ok(total) == [code |-> "ok", total |-> total]
Error(code) == [code |-> code, total |-> 0]

ComputeDearTier(u, m) ==                                                \* mutant
    LET price == MergedPrices(m)
        cost == [axis \in Axes |-> Tokens(u, axis) *
                    (IF axis = "cacheWrite" THEN price.cacheWrite1h ELSE price[axis])]
    IN  IF ~Valid(u) THEN Error("invalid_usage")
        ELSE IF price = NoEntry THEN Error("unknown_model")
        ELSE Ok(cost.input + cost.output + cost.cacheWrite + cost.cacheRead)
Compute(u, m) ==
    LET price == MergedPrices(m)
        cost == [axis \in Axes |-> Tokens(u, axis) *
                    (IF axis = "cacheWrite" THEN price.cacheWrite5m ELSE price[axis])]
    IN  IF ~Valid(u) THEN Error("invalid_usage")
        ELSE IF price = NoEntry THEN Error("unknown_model")
        ELSE Ok(cost.input + cost.output + cost.cacheWrite + cost.cacheRead)

NoBill == [total |-> 0, used |-> [axis \in Axes |-> 0]]
CostInit ==
    /\ custom \in [Models -> {NoEntry, CostOwn}] /\ events = <<>>
    /\ billed = [m \in Models |-> NoBill]
Call(u, m) ==
    /\ Len(events) < MaxCalls
    /\ LET cost == Compute(u, m) IN
       /\ events' = Append(events, [usage |-> u, model |-> m, cost |-> cost])
       /\ billed' = IF cost.code # "ok" THEN billed
                    ELSE [billed EXCEPT ![m] =
                            [total |-> @.total + cost.total,
                             used |-> [axis \in Axes |-> @.used[axis] + Tokens(u, axis)]]]
    /\ UNCHANGED custom
CostNext == \E u \in Usages, m \in Models: Call(u, m)

-----------------------------------------------------------------------------
(* The bill of a session adds up: for each model, what its calls cost comes  *)
(* to its tokens of each kind at the price the caller set for the model, or  *)
(* else the table's, cache writes at the five-minute tier; a call of a model *)
(* without a price, or with an impossible usage, has an error and no cost.   *)
BillAddsUp ==
    /\ \A m \in Models:
          LET price == IF custom[m] = NoEntry THEN PRICES[m] ELSE custom[m]
              used  == billed[m].used
          IN  IF price = NoEntry THEN billed[m] = NoBill
              ELSE billed[m].total = used["input"] * price.input + used["output"] * price.output
                                     + used["cacheWrite"] * price.cacheWrite5m
                                     + used["cacheRead"] * price.cacheRead
    /\ \A i \in DOMAIN events:
          /\ events[i].usage.input < 0 => events[i].cost.code = "invalid_usage"
          /\ events[i].cost.code # "ok" => events[i].cost.total = 0
==============================================================================
