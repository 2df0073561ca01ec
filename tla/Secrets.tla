------------------------------- MODULE Secrets -------------------------------
(***************************************************************************)
(* One secret behind createTtlResolver(createVersionAwareResolver(inner)), *)
(* the composition docs/spec-v1-cross-cutting.md (VIII-3) prescribes.      *)
(* inner is createEnvSecretsResolver, one of the workload identities of    *)
(* secrets-oidc, or createSopsSecretsResolver.  The secret is rotated at   *)
(* its source; resolve calls overlap at their awaits; invalidate is called *)
(* on the outer resolver, or on inner by whoever else holds it.            *)
(***************************************************************************)
EXTENDS Naturals, Sequences

CONSTANTS
    Resolvers,     \* callers of resolve
    Backends,      \* what inner is: "env", "oidc", "sops"
    TTL,           \* ttlMs
    MaxRotations,  \* bound: rotations of the secret
    MaxCalls,      \* bound: calls of resolve
    MaxBumps,      \* bound: calls of invalidate
    LastTime,      \* bound of the clock
    None

VARIABLES
    backend,
    cur,        \* the secret at its source: 1, 2, ...
    clock,      \* Date.now()
    last,       \* TTL wrapper: lastResolved
    cache,      \* version-aware wrapper: the entry, with its version
    count,      \* version-aware wrapper: readCounts
    version,    \* inner: its version counter, 0 while it shows none
    decode,     \* secrets-sops: cachedDecode
    pending,    \* secrets-sops: the process pendingDecode waits for
    sops,       \* secrets-sops: the processes, by the caller that spawned them
    call,       \* what each caller's resolve is doing, and returned last
    bumps,      \* calls of invalidate so far
    since,      \* history: cur when the outer resolver was last invalidated
    raced,      \* history: a resolve was in flight then
    answered,   \* history: when resolve last returned a value
    fetched     \* history: when the cached value came from inner

inner == <<version, decode, pending, sops>>
world == <<backend, cur, clock>>
history == <<since, raced, answered, fetched>>
vars == <<world, inner, last, cache, count, call, bumps, history>>

Failed == 0
Values == 1..(MaxRotations + 1)
Versions == 0..(MaxBumps + MaxCalls + 1)

TypeOK ==
    /\ backend \in Backends /\ cur \in Values /\ clock \in 0..LastTime
    /\ last \in 0..LastTime \cup {None}
    /\ cache \in [value : Values, version : Versions \ {0}] \cup {None}
    /\ count \in 0..MaxCalls /\ version \in Versions /\ bumps \in 0..MaxBumps
    /\ decode \in Values \cup {Failed, None}
    /\ pending \in Resolvers \cup {None}
    /\ sops \in [Resolvers -> Values \cup {Failed, None}]
    /\ call \in [Resolvers -> [at : {"idle", "waits", "answered", "done"},
                               from : Resolvers \cup {None},
                               stamp : Versions, count : 0..MaxCalls,
                               value : Values \cup {Failed},
                               floor : Values, quiet : BOOLEAN,
                               idle : BOOLEAN, asked : Values]]
    /\ since \in Values /\ raced \in BOOLEAN /\ answered \in 0..LastTime \cup {None}
    /\ fetched \in 0..LastTime \cup {None}

Init ==
    /\ backend \in Backends /\ cur = 1 /\ clock = 0
    /\ last = None /\ cache = None /\ count = 0 /\ bumps = 0
    /\ version = IF backend = "env" THEN 1 ELSE 0
    /\ decode = None /\ pending = None /\ sops = [r \in Resolvers |-> None]
    /\ call = [r \in Resolvers |-> [at |-> "idle", from |-> None, stamp |-> 0,
                                    count |-> 0, value |-> Failed,
                                    floor |-> 1, quiet |-> TRUE,
                                    idle |-> FALSE, asked |-> 1]]
    /\ since = 1 /\ raced = FALSE /\ answered = None /\ fetched = None

InFlight == \E r \in Resolvers : call[r].at \in {"waits", "answered"}

-----------------------------------------------------------------------------
(* resolve of the three resolvers, down to its first await.                *)

\* What is in the cache is served: inner shows no version, or the same one.
Hit(entry, v) == entry # None /\ (v = 0 \/ entry.version = v)

\* secrets-sops: the decoded file, the process that decodes it, or a new one.
Decode(r, c, d, p) ==
    CASE d # None -> /\ call' = [call EXCEPT ![r] = [c EXCEPT !.at = "answered", !.value = d]]
                     /\ decode' = d /\ pending' = p /\ UNCHANGED sops
      [] d = None /\ p # None ->
                     /\ call' = [call EXCEPT ![r] = [c EXCEPT !.from = p]]
                     /\ decode' = d /\ pending' = p /\ UNCHANGED sops
      [] OTHER    -> /\ call' = [call EXCEPT ![r] = [c EXCEPT !.from = r]]
                     /\ decode' = d /\ pending' = r /\ sops' = [sops EXCEPT ![r] = Failed]

\* inner.resolve with the state d, p of secrets-sops.
Ask(r, c, d, p) ==
    CASE backend = "env"  -> /\ call' = [call EXCEPT ![r] = [c EXCEPT !.at = "answered", !.value = cur]]
                             /\ UNCHANGED <<decode, pending, sops>>
      [] backend = "oidc" -> /\ call' = [call EXCEPT ![r] = c]
                             /\ UNCHANGED <<decode, pending, sops>>
      [] backend = "sops" -> Decode(r, c, d, p)

\* The version-aware resolve, with the state the TTL wrapper has left.
ResolveVersioned(r, c, entry, v, d, p) ==
    /\ version' = v
    /\ IF Hit(entry, v)
       THEN /\ call' = [call EXCEPT ![r] = [c EXCEPT !.at = "done", !.value = entry.value]]
            /\ cache' = entry /\ last' = clock /\ answered' = clock
            /\ decode' = d /\ pending' = p /\ UNCHANGED sops
       ELSE /\ cache' = None
            /\ Ask(r, [c EXCEPT !.stamp = IF entry = None THEN 0 ELSE v], d, p)
            /\ UNCHANGED answered

Outlived == clock > last + TTL                                          \* mutant
\* The TTL wrapper: the value was last resolved a TTL ago.
Expired == clock >= last + TTL

\* resolve of the TTL wrapper.
Resolve(r) ==
    LET idle == ~InFlight /\ answered # None /\ clock >= answered + TTL
        c == [at |-> "waits", from |-> None, stamp |-> 0, count |-> count + 1,
              value |-> Failed, floor |-> since, quiet |-> ~raced,
              idle |-> idle, asked |-> cur]
    IN  /\ call[r].at \in {"idle", "done"} /\ count < MaxCalls
        /\ count' = count + 1
        /\ IF last # None /\ Expired
           THEN /\ bumps < MaxBumps /\ bumps' = bumps + 1
                /\ since' = cur /\ raced' = InFlight
                /\ last' = None
                /\ ResolveVersioned(r, [c EXCEPT !.floor = cur, !.quiet = ~InFlight],
                                    None, version + 1, None, None)
           ELSE /\ ResolveVersioned(r, c, cache, version, decode, pending)
                /\ last' = IF Hit(cache, version) THEN clock ELSE last
                /\ UNCHANGED <<bumps, since, raced>>
        /\ UNCHANGED <<world, fetched>>

-----------------------------------------------------------------------------
(* What inner.resolve waits for.                                           *)

\* A workload identity answers with the token it has, or fails.
TokenArrives(r) ==
    /\ backend = "oidc" /\ call[r].at = "waits"
    /\ \E res \in {cur, Failed} :
           call' = [call EXCEPT ![r].at = "answered", ![r].value = res]
    /\ UNCHANGED <<world, inner, last, cache, count, bumps, history>>

\* sops reads the file.
SopsReads(p) ==
    /\ sops[p] = Failed /\ sops' = [sops EXCEPT ![p] = cur]
    /\ UNCHANGED <<world, version, decode, pending, last, cache, count, call, bumps, history>>

\* sops ends, fails or takes too long: the outcome is kept, whatever was
\* invalidated meanwhile, and handed to everyone who waits for this process.
SopsEnds(p) ==
    /\ sops[p] # None /\ sops' = [sops EXCEPT ![p] = None]
    /\ pending' = None
    /\ \E res \in {sops[p], Failed} :
        /\ call' = [c \in Resolvers |->
                      IF call[c].at = "waits" /\ call[c].from = p
                      THEN [call[c] EXCEPT !.at = "answered", !.value = res, !.from = None]
                      ELSE call[c]]
        /\ decode' = res
    /\ UNCHANGED <<world, version, last, cache, count, bumps, history>>

\* The rest of resolve: the value is cached under the version that was shown
\* when the old entry was found stale, or is shown now.
Finish(r) ==
    LET c == call[r]
        v == CASE c.stamp # 0 -> c.stamp
               [] c.stamp = 0 /\ version # 0 -> version
               [] OTHER -> c.count
    IN  /\ c.at = "answered"
        /\ call' = [call EXCEPT ![r].at = "done"]
        /\ IF c.value = Failed
           THEN UNCHANGED <<cache, last, answered, fetched>>
           ELSE /\ cache' = [value |-> c.value, version |-> v]
                /\ last' = clock /\ answered' = clock /\ fetched' = clock
        /\ UNCHANGED <<world, inner, count, bumps, since, raced>>

-----------------------------------------------------------------------------
KeepsDecode == version' = version + 1 /\ pending' = None /\ UNCHANGED decode  \* mutant
\* inner.invalidate.
InvalidateInner == version' = version + 1 /\ decode' = None /\ pending' = None

\* invalidate of the outer resolver.
Invalidate ==
    /\ bumps < MaxBumps /\ bumps' = bumps + 1
    /\ last' = None /\ cache' = None /\ InvalidateInner
    /\ since' = cur /\ raced' = InFlight
    /\ UNCHANGED <<world, sops, count, call, answered, fetched>>

\* invalidate of inner, by someone else who holds it.
InvalidateBehind ==
    /\ bumps < MaxBumps /\ bumps' = bumps + 1
    /\ InvalidateInner
    /\ UNCHANGED <<world, sops, last, cache, count, call, history>>

Rotate ==
    /\ cur <= MaxRotations /\ cur' = cur + 1
    /\ UNCHANGED <<backend, clock, inner, last, cache, count, call, bumps, history>>

Tick ==
    /\ clock < LastTime /\ clock' = clock + 1
    /\ UNCHANGED <<backend, cur, inner, last, cache, count, call, bumps, history>>

Next ==
    \/ \E r \in Resolvers : \/ Resolve(r) \/ TokenArrives(r) \/ Finish(r)
                            \/ SopsReads(r) \/ SopsEnds(r)
    \/ Invalidate \/ InvalidateBehind \/ Rotate \/ Tick

Spec == Init /\ [][Next]_vars

-----------------------------------------------------------------------------
Returned(r) == call[r].at = "done" /\ call[r].value # Failed

\* If no resolve was in flight when the secret was invalidated, every resolve
\* begun afterwards returns a value that was current then or later.
InvalidatedIsFresh ==
    \A r \in Resolvers :
        Returned(r) /\ call[r].quiet => call[r].value >= call[r].floor

\* A resolve that finds the secret unused for the TTL, and no other resolve in
\* flight, returns a value that is current when it is called or later.
IdleIsFresh ==
    \A r \in Resolvers : Returned(r) /\ call[r].idle => call[r].value >= call[r].asked

ResolvedIsFresh == InvalidatedIsFresh /\ IdleIsFresh

\* What the spec says of invalidate (docs/spec-v1-cross-cutting.md VIII-2:
\* "next-resolve sees fresh value"): every resolve begun after it returns a
\* value that was current then or later, whatever else is in flight.
InvalidateIsHeeded ==
    \A r \in Resolvers : Returned(r) => call[r].value >= call[r].floor

\* What the spec says of the TTL (VIII-3: "if now - lastFetch >= ttlMs"): what
\* the cache serves was fetched less than a TTL ago.
TokensAreRefetched ==
    [][\A r \in Resolvers :
         count' # count /\ call'[r] # call[r] /\ call'[r].at = "done"
            => clock < fetched + TTL]_vars

------------------------------------------------------------------------------
(***************************************************************************)
(* Several secrets of one backend, behind scope() and                      *)
(* createVersionAwareResolver: which secret a name stands for, and what an *)
(* answer says.  The backend is createEnvSecretsResolver, awsIrsa,         *)
(* azureWif, gcpWif or createSopsSecretsResolver (packages/secrets-env,    *)
(* secrets-oidc, secrets-sops).  All secrets of the backend are rotated    *)
(* together.  Calls follow each other; those of one name that overlap are  *)
(* above.                                                                  *)
(***************************************************************************)

CONSTANTS
    Sources,        \* of "env", "aws", "azure", "gcp", "sops"
    Prefixes, Names,    \* of scopes and in them: tuples of the parts a "-" joins
    MaxTurns    \* bound: rotations and invalidations

VARIABLES
    source,
    sdk,        \* of an identity: "there", given or installed, or "missing"
    held,       \* the names the source has a string under
    gen,        \* rotations so far
    decoded,     \* secrets-sops: cachedDecode, with the rotation it is of
    kept,       \* version-aware wrapper: the cached value of each name
    answer,     \* the last one: to which scope and name, what, and if it was asked for
    floor       \* history: gen when each name was last invalidated, or of the newest
                \* value it was answered with since

nameVars == <<source, sdk, held, gen, decoded, kept, answer, floor>>

-----------------------------------------------------------------------------
scopeDropsPrefix(prefix, name) == name                              \* mutant
\* scope: `${prefix}-${name}`
scope(prefix, name) == prefix \o name
Flat == {scope(p, n) : p \in Prefixes, n \in Names}

NotFound == [error |-> "secret_not_found"]
Unavailable == [error |-> "secret_unavailable"]
Value(name) == [of |-> name, gen |-> gen]
Token == Value(<<>>)        \* the identity has one, whatever the name

IsIdentity == source \in {"aws", "azure", "gcp"}

NameInit ==
    /\ source \in Sources /\ sdk \in IF IsIdentity THEN {"there", "missing"} ELSE {"none"}
    /\ held \in IF IsIdentity THEN {{}} ELSE SUBSET Flat
    /\ gen = 0 /\ decoded = None
    /\ kept = [f \in Flat |-> None] /\ answer = None
    /\ floor = [f \in Flat |-> 0]

-----------------------------------------------------------------------------
(* resolve of each backend: the answers it may give.                       *)

env(name) == IF name \in held THEN Value(name) ELSE NotFound

\* The SDK is imported at the first call, and at each until that succeeds.
Loaded == sdk # "missing"

awsIrsa(credentials) ==
    CASE ~Loaded \/ credentials = "throws" -> Unavailable
      [] credentials = "no session" -> NotFound     \* long-lived keys have none
      [] OTHER -> Token
azureWif(token) ==
    CASE ~Loaded \/ token = "throws" -> Unavailable
      [] token = "null" -> NotFound
      [] OTHER -> Token
\* The client is asked for with the import, and may be refused.
gcpWif(token) ==
    CASE ~Loaded \/ token \in {"no client", "throws"} -> Unavailable
      [] token = "no token" -> NotFound
      [] OTHER -> Token

\* What runSops settles with, whichever of the timer, the error and the close
\* of the process is first: the file, or an error, which is kept as well.
runSops == [ok : BOOLEAN, gen : {gen}]
sopsAnswers(name, d) ==
    CASE ~d.ok -> Unavailable
      [] d.ok /\ name \in held -> [of |-> name, gen |-> d.gen]
      [] OTHER -> NotFound

Answers(name) ==
    CASE source = "env" -> {env(name)}
      [] source = "aws" -> {awsIrsa(c) : c \in {"session", "no session", "throws"}}
      [] source = "azure" -> {azureWif(t) : t \in {"token", "null", "throws"}}
      [] source = "gcp" -> {gcpWif(t) : t \in {"token", "no token", "no client", "throws"}}
      [] source = "sops" -> {sopsAnswers(name, d) : d \in IF decoded = None THEN runSops ELSE {decoded}}

-----------------------------------------------------------------------------
IsValue(a) == a \notin {NotFound, Unavailable}

ResolveName(p, n) ==
    LET f == scope(p, n) IN
    \E a \in IF kept[f] # None THEN {kept[f]} ELSE Answers(f) :
        /\ answer' = [prefix |-> p, name |-> n, value |-> a, floor |-> floor[f],
                      fetched |-> kept[f] = None /\ ~(source = "sops" /\ decoded # None)]
        /\ kept' = IF IsValue(a) THEN [kept EXCEPT ![f] = a] ELSE kept
        /\ floor' = IF IsValue(a) THEN [floor EXCEPT ![f] = a.gen] ELSE floor
        /\ decoded' = CASE source # "sops" \/ kept[f] # None \/ decoded # None -> decoded
                       [] OTHER -> [ok |-> a # Unavailable, gen |-> gen]
        /\ UNCHANGED <<source, sdk, held, gen>>

InvalidateCacheOnly(p, n) ==                                        \* mutant
    /\ kept' = [kept EXCEPT ![scope(p, n)] = None]
    /\ floor' = [floor EXCEPT ![scope(p, n)] = gen]
    /\ UNCHANGED <<source, sdk, held, gen, decoded, answer>>
\* invalidate drops the one name, and the whole file of secrets-sops.
InvalidateName(p, n) ==
    /\ kept' = [kept EXCEPT ![scope(p, n)] = None]
    /\ decoded' = None
    /\ floor' = [floor EXCEPT ![scope(p, n)] = gen]
    /\ UNCHANGED <<source, sdk, held, gen, answer>>

RotateName ==
    /\ gen < MaxTurns /\ gen' = gen + 1
    /\ UNCHANGED <<source, sdk, held, decoded, kept, answer, floor>>

NameNext ==
    \/ \E p \in Prefixes, n \in Names : ResolveName(p, n) \/ InvalidateName(p, n)
    \/ RotateName

-----------------------------------------------------------------------------
(* A name is answered with its own secret, as it was when the name was last  *)
(* invalidated or later, and never with an older one than before, whichever  *)
(* other names are resolved and invalidated on the way (secrets/src/         *)
(* scope.ts, version-aware.ts 31-78; secrets-sops/src/index.ts 158-195).     *)
NamesAreTheirOwn ==
    (answer # None /\ IsValue(answer.value)) =>
        /\ answer.value.of \in {answer.prefix \o answer.name, <<>>}
        /\ answer.value.gen >= answer.floor

(* An error is not an answer to go by: it is never kept, except that of      *)
(* secrets-sops, where the file counts as read until something is            *)
(* invalidated (secrets-sops/src/index.ts:158).                              *)
ErrorsAreNotKept ==
    (answer # None /\ ~IsValue(answer.value)) => answer.fetched \/ source = "sops"

SecretsAreApart == NamesAreTheirOwn /\ ErrorsAreNotKept

(* Not so: secret_unavailable passes when its cause does.  secrets-sops      *)
(* answers with the error of one failed or slow process until invalidate;    *)
(* createTtlResolver never expires what has not been resolved (ttl.ts 9-17). *)
UnavailableIsAskedAgain ==
    (answer # None /\ answer.value = Unavailable) => answer.fetched
(* Not so: secrets that are rotated together are resolved together.          *)
PairsAreOfOneRotation ==
    \A f, g \in Flat : (kept[f] # None /\ kept[g] # None) => kept[f].gen = kept[g].gen
(* Not so: different scopes do not share a secret.                           *)
ScopesAreApart ==
    \A p, q \in Prefixes, n, m \in Names : scope(p, n) = scope(q, m) => p = q
==============================================================================
