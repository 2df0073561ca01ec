---------------------------- MODULE MCDependencies ----------------------------
(***************************************************************************)
(* Instances of what the stages of a run depend on, for TLC: the two       *)
(* rate-limit stores, secrets, memory and the registry of teardowns.  They *)
(* do not interact: a behaviour is one of the dependency that part names,  *)
(* and the others stay in one state.                                       *)
(***************************************************************************)
EXTENDS RateLimitRedis

CONSTANTS
    Keys, MaxKeys,                                                  \* RateLimitLog
    Resolvers, Backends, TTL, MaxRotations, MaxCalls, MaxBumps,     \* Secrets
    LastSecond, Sources, MaxTurns,
    Writers, Spaces, Memories, MaxWrites, MemorySpaces, MaxPuts,    \* SharedMemory
    MaxLaunches,
    MaxEntries, MaxTicks,                                           \* Disposal
    None

VARIABLES
    part,
    now, log, order, answer, admissions, others,
    backend, cur, second, last, cache, count, version, decode, pending, sops, resolve,
    bumps, since, raced, answered, fetched,
    source, sdk, held, gen, decoded, kept, told, floor,
    memory, space, rows, write, closed, shut, writes, newest, older, overlaps, failed,
    listed, table, puts, writing, off, list, stored, lost,
    cell, disk, proc, launches, known, acked, ended,
    entries, phase, at, torn, timedOut, report, from,
    design, pc, signal, written, errorCode, turns, state, errors, disposed, warned, timers,
    ticks, calls, stale, cut

Log      == INSTANCE RateLimitLog WITH hits <- admissions
\* The scopes "a" and "a-b", and in them "b-c" and "c".
MCPrefixes == {<<"a">>, <<"a", "b">>}
MCNames == {<<"b", "c">>, <<"c">>}
Secrets  == INSTANCE Secrets WITH
                clock <- second, LastTime <- LastSecond, call <- resolve,
                Prefixes <- MCPrefixes, Names <- MCNames, answer <- told
Memory   == INSTANCE SharedMemory WITH ListSpaces <- MemorySpaces, Keys <- {1, 2}
Registry == INSTANCE Disposal WITH write <- written

\* The backends there are; None is what nothing else is.
ASSUME DependencyAssumption ==
    /\ Backends \subseteq {"env", "oidc", "sops"} /\ TTL \in Nat
    /\ Sources \subseteq {"env", "aws", "azure", "gcp", "sops"}
    /\ MaxEntries \in Nat /\ MaxKeys \in Nat \ {0}
    /\ None \notin Nat /\ None \notin Resolvers
    /\ Memories \subseteq {"map", "sqlite", "orchestr8"}
    /\ None \notin {"running", "ok", "failed", "error", "timeout", "run-1", "run-2"}

logVars      == <<limit, now, log, order, answer, admissions, others>>
secretsVars  == <<backend, cur, second, last, cache, count, version, decode, pending, sops,
                  resolve, bumps, since, raced, answered, fetched>>
namedVars    == <<source, sdk, held, gen, decoded, kept, told, floor>>
memoryVars   == <<memory, space, rows, write, closed, shut, writes, newest, older, overlaps,
                  failed>>
listVars     == <<listed, table, puts, writing, off, list, stored, lost>>
crossVars    == <<cell, disk, proc, launches, known, acked, ended>>
registryVars == <<entries, phase, at, torn, timedOut, report, from>>
designVars   == <<design, pc, signal, written, errorCode, turns, state, errors, disposed, warned,
                  timers, ticks, calls, stale, cut>>
limitVars    == <<vars, logVars>>
allVars      == <<part, limitVars, secretsVars, namedVars, memoryVars, listVars, crossVars, registryVars,
                  designVars>>

SecretsIdle == backend = "env" /\ Secrets!Init
MemoryIdle  == /\ memory = "map" /\ Memory!Init
               /\ space = [w \in Writers |-> CHOOSE s \in Spaces : TRUE]

MCInit ==
    /\ part \in {"redis", "in-process", "secrets", "names", "memory", "lists", "processes",
                "registry", "designs"}
    /\ IF part \in {"redis", "in-process"} THEN TRUE ELSE limit = CHOOSE l \in Limits : TRUE
    /\ Init /\ Log!Init /\ Registry!Init
    /\ IF part = "designs" THEN TRUE ELSE design = "alpha"
    /\ Registry!DesignInit
    /\ IF part = "secrets" THEN Secrets!Init ELSE SecretsIdle
    /\ IF part = "names" THEN TRUE ELSE source = "env" /\ sdk = "none" /\ held = {}
    /\ Secrets!NameInit
    /\ IF part = "lists" THEN TRUE ELSE listed = "sqlite"
    /\ Memory!ListInit
    /\ IF part = "processes" THEN TRUE ELSE cell = "alpha"
    /\ Memory!CrossInit
    /\ IF part = "memory" THEN Memory!Init ELSE MemoryIdle

DependencyNext ==
    \/ /\ part = "redis" /\ Next
       /\ UNCHANGED <<logVars, secretsVars, namedVars, memoryVars, listVars, crossVars, registryVars>>
    \/ /\ part = "in-process" /\ Log!Next
       /\ UNCHANGED <<vars, secretsVars, namedVars, memoryVars, listVars, crossVars, registryVars>>
    \/ /\ part = "secrets" /\ Secrets!Next
       /\ UNCHANGED <<limitVars, namedVars, memoryVars, listVars, crossVars, registryVars>>
    \/ /\ part = "names" /\ Secrets!NameNext
       /\ UNCHANGED <<limitVars, secretsVars, memoryVars, listVars, crossVars, registryVars>>
    \/ /\ part = "memory" /\ Memory!Next
       /\ UNCHANGED <<limitVars, secretsVars, namedVars, listVars, crossVars, registryVars>>
    \/ /\ part = "lists" /\ Memory!ListNext
       /\ UNCHANGED <<limitVars, secretsVars, namedVars, memoryVars, crossVars, registryVars>>
    \/ /\ part = "processes" /\ Memory!CrossNext
       /\ UNCHANGED <<limitVars, secretsVars, namedVars, memoryVars, listVars, registryVars>>
    \/ /\ part = "registry" /\ Registry!Next
       /\ UNCHANGED <<limitVars, secretsVars, namedVars, memoryVars, listVars, crossVars>>

MCNext ==
    /\ UNCHANGED part
    /\ \/ /\ part = "designs" /\ Registry!DesignNext
          /\ UNCHANGED <<limitVars, secretsVars, namedVars, memoryVars, listVars, crossVars, registryVars>>
       \/ /\ part # "designs" /\ UNCHANGED designVars /\ DependencyNext

Disposing(A) ==
    part = "registry" /\ A /\ UNCHANGED <<part, limitVars, secretsVars, namedVars, memoryVars, listVars, crossVars,
                                             designVars>>
MCSpec ==
    /\ MCInit /\ [][MCNext]_allVars
    /\ WF_allVars(Disposing(Registry!Begin)) /\ WF_allVars(Disposing(Registry!Timeout))
    /\ WF_allVars(Disposing(Registry!RaceEnds)) /\ WF_allVars(Disposing(Registry!Return))

\* RateLimitRedis and RateLimitLog: a hint of when to come back is good, the
\* log admits what RateLimiter does, and forgets only keys not used of late.
LimitersKeepTheirWord == HintIsKept /\ Log!ImplementsLimiter /\ Log!ForgetsOnlyUnused

\* Secrets: no value older than an invalidation or the TTL allows, and none
\* that is another name's.
ResolvedIsFresh == Secrets!ResolvedIsFresh /\ Secrets!SecretsAreApart

\* SharedMemory: a reader sees the write that was acknowledged last, and a
\* list has the keys that can be read, in a later process too.
LastWriteIsRead ==
    Memory!LastWriteIsRead /\ Memory!KeysAreListed /\ Memory!RunsShareMemory

\* Disposal: teardowns begin in reverse order, none is passed over, and
\* disposeAll returns whatever they do; so do the designs it was chosen
\* from, but the one rejected.
DisposedInOrder ==
    Registry!DisposedInReverse /\ Registry!NothingIsPassedOver /\ Registry!AllAreClosed
DisposeReturns == Registry!DisposeReturns

ReadableIsListed == Memory!ReadableIsListed
OwnCloseOnly == Memory!OwnCloseOnly
RewriteIsRead == Memory!RewriteIsRead
LatestWriteWins == Memory!LatestWriteWins
NamespacesAreApart == Memory!NamespacesAreApart
UnavailableIsAskedAgain == Secrets!UnavailableIsAskedAgain
PairsAreOfOneRotation == Secrets!PairsAreOfOneRotation
ScopesAreApart == Secrets!ScopesAreApart
NeverStale == Registry!NeverStale
WritesAreDone == Registry!WritesAreDone
WarnedIfLate == Registry!WarnedIfLate
=============================================================================
