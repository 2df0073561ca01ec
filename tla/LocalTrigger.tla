---------------------------- MODULE LocalTrigger ----------------------------
(***************************************************************************)
(* The lifecycle of the local trigger adapter (packages/core/src/triggers/ *)
(* local-trigger-adapter.ts): register, start and stop share the server    *)
(* and the scheduler's interval, and each may be suspended at an await     *)
(* while another one runs.  With one caller the calls are serial.          *)
(***************************************************************************)
EXTENDS Naturals, FiniteSets

CONSTANTS
    Callers,        \* one call may be under way per caller
    MaxRegs,        \* bound: registrations of each kind
    MaxServers,     \* bound: servers made
    MaxTimers,      \* bound: intervals made
    MaxRequests     \* bound: requests handled by a server at a time

ASSUME TriggerAssumption ==
    /\ IsFiniteSet(Callers)
    /\ MaxRegs \in Nat /\ MaxServers \in Nat /\ MaxTimers \in Nat /\ MaxRequests \in Nat

Servers == 1..MaxServers
Timers == 1..MaxTimers
None == 0

VARIABLES
    started,    \* _started
    hooks,      \* _webhookRegs.length
    crons,      \* _cronRegs.length
    server,     \* _server
    interval,   \* _schedulerInterval
    address,    \* _address, the server it is the address of
    call,       \* the await each caller's call is suspended at, and its server
    made,       \* servers made
    open,       \* servers that listen
    set,        \* intervals set
    ticking,    \* intervals not cleared
    handling    \* requests each server has not answered

vars == <<started, hooks, crons, server, interval, address, call,
          made, open, set, ticking, handling>>

Done == [at |-> "done", srv |-> None]

TypeOK ==
    /\ started \in BOOLEAN
    /\ hooks \in 0..MaxRegs /\ crons \in 0..MaxRegs
    /\ server \in Servers \cup {None} /\ address \in Servers \cup {None}
    /\ interval \in Timers \cup {None}
    /\ call \in [Callers -> [at : {"register", "start", "stop"}, srv : Servers] \cup {Done}]
    /\ made \in 0..MaxServers /\ open \subseteq 1..made
    /\ set \in 0..MaxTimers /\ ticking \subseteq 1..set
    /\ handling \in [Servers -> 0..MaxRequests]

Init ==
    /\ started = FALSE /\ hooks = 0 /\ crons = 0
    /\ server = None /\ interval = None /\ address = None
    /\ call = [c \in Callers |-> Done]
    /\ made = 0 /\ open = {} /\ set = 0 /\ ticking = {}
    /\ handling = [s \in Servers |-> 0]

-----------------------------------------------------------------------------
\* _startScheduler: what the interval was before is overwritten, not cleared.
StartScheduler ==
    /\ set < MaxTimers /\ set' = set + 1
    /\ interval' = set + 1 /\ ticking' = ticking \cup {set + 1}

NoScheduler == UNCHANGED <<set, interval, ticking>>

\* _startServer up to its await: a call of `kind` waits for listen.
AwaitServer(c, kind) ==
    /\ made < MaxServers /\ made' = made + 1
    /\ call' = [call EXCEPT ![c] = [at |-> kind, srv |-> made + 1]]

\* register, kind "webhook".
RegisterWebhook(c) ==
    /\ call[c] = Done
    /\ hooks < MaxRegs /\ hooks' = hooks + 1
    /\ IF started /\ server = None
       THEN AwaitServer(c, "register")
       ELSE UNCHANGED <<call, made>>
    /\ UNCHANGED <<started, crons, server, address, open, handling>> /\ NoScheduler

RegisterCronOnly(c) ==                                              \* mutant
    /\ call[c] = Done
    /\ crons < MaxRegs /\ crons' = crons + 1
    /\ UNCHANGED <<started, hooks, server, address, call, made, open, handling>> /\ NoScheduler
\* register, kind "cron": no await.
RegisterCron(c) ==
    /\ call[c] = Done
    /\ crons < MaxRegs /\ crons' = crons + 1
    /\ IF started /\ interval = None THEN StartScheduler ELSE NoScheduler
    /\ UNCHANGED <<started, hooks, server, address, call, made, open, handling>>

\* start() up to its await, or to its end if there is no webhook.
Start(c) ==
    /\ call[c] = Done
    /\ ~started /\ started' = TRUE
    /\ IF hooks > 0
       THEN AwaitServer(c, "start") /\ NoScheduler
       ELSE /\ UNCHANGED <<call, made>>
            /\ IF crons > 0 THEN StartScheduler ELSE NoScheduler
    /\ UNCHANGED <<hooks, crons, server, address, open, handling>>

\* The server listens; register ends, start goes on to the scheduler.
Listens(c) ==
    /\ call[c].at \in {"register", "start"}
    /\ open' = open \cup {call[c].srv}
    /\ server' = call[c].srv /\ address' = call[c].srv
    /\ call' = [call EXCEPT ![c] = Done]
    /\ IF call[c].at = "start" /\ crons > 0 THEN StartScheduler ELSE NoScheduler
    /\ UNCHANGED <<started, hooks, crons, made, handling>>

StopKeepsListening(c) ==                                            \* mutant
    /\ call[c] = Done
    /\ started /\ started' = FALSE
    /\ interval' = None /\ ticking' = ticking \ {interval}
    /\ server' = None
    /\ IF server # None
       THEN call' = [call EXCEPT ![c] = [at |-> "stop", srv |-> server]] /\ UNCHANGED address
       ELSE address' = None /\ UNCHANGED call
    /\ UNCHANGED <<hooks, crons, made, open, set, handling>>
\* stop() up to its await, or to its end if there is no server.
Stop(c) ==
    /\ call[c] = Done
    /\ started /\ started' = FALSE
    /\ interval' = None /\ ticking' = ticking \ {interval}
    /\ server' = None /\ open' = open \ {server}
    /\ IF server # None
       THEN call' = [call EXCEPT ![c] = [at |-> "stop", srv |-> server]] /\ UNCHANGED address
       ELSE address' = None /\ UNCHANGED call
    /\ UNCHANGED <<hooks, crons, made, set, handling>>

ClosesAtOnce(c) ==                                                  \* mutant
    /\ call[c].at = "stop"
    /\ address' = None
    /\ call' = [call EXCEPT ![c] = Done]
    /\ UNCHANGED <<started, hooks, crons, server, made, open, handling>> /\ NoScheduler
\* srv.close() calls back once the requests of the server are answered.
Closes(c) ==
    /\ call[c].at = "stop" /\ handling[call[c].srv] = 0
    /\ address' = None
    /\ call' = [call EXCEPT ![c] = Done]
    /\ UNCHANGED <<started, hooks, crons, server, made, open, handling>> /\ NoScheduler

\* A POST to a registered path; every other request is refused at once.
Request(s) ==
    /\ s \in open /\ hooks > 0
    /\ handling[s] < MaxRequests /\ handling' = [handling EXCEPT ![s] = @ + 1]
    /\ UNCHANGED <<started, hooks, crons, server, address, call, made, open>> /\ NoScheduler

\* The handler settles, or the body is no JSON: the request is answered.
Answered(s) ==
    /\ handling[s] > 0 /\ handling' = [handling EXCEPT ![s] = @ - 1]
    /\ UNCHANGED <<started, hooks, crons, server, address, call, made, open>> /\ NoScheduler

Next ==
    \/ \E c \in Callers :
          \/ RegisterWebhook(c) \/ RegisterCron(c) \/ Start(c) \/ Listens(c)
          \/ Stop(c) \/ Closes(c)
    \/ \E s \in Servers : Request(s) \/ Answered(s)

Spec == Init /\ [][Next]_vars

\* The runtime calls back and handlers settle; nobody has to call anything.
Fairness ==
    /\ \A c \in Callers : WF_vars(Listens(c)) /\ WF_vars(Closes(c))
    /\ \A s \in Servers : WF_vars(Answered(s))

-----------------------------------------------------------------------------
(***************************************************************************)
(* Properties.                                                             *)
(***************************************************************************)
Quiet == \A c \in Callers : call[c] = Done

\* Once stop() has returned nothing is left of the adapter: no server, no
\* interval, no address and no request that is still handled (231-251).
StoppedIsClean ==
    Quiet /\ ~started =>
        /\ open = {} /\ server = None /\ address = None
        /\ ticking = {} /\ interval = None
        /\ \A s \in Servers : handling[s] = 0

\* Once the calls have returned, a started adapter serves what was registered,
\* in whatever order register and start were called, with one server and one
\* interval (184-185: "Safe to call before or after start()").
StartedServes ==
    Quiet /\ started =>
        /\ open = IF hooks > 0 THEN {server} ELSE {}
        /\ address = server /\ (server # None <=> hooks > 0)
        /\ ticking = IF crons > 0 THEN {interval} ELSE {}
        /\ (interval # None <=> crons > 0)

\* stop() returns: no new request can hold up a server that is closed.
StopReturns == \A c \in Callers : call[c].at = "stop" ~> call[c].at # "stop"

\* `address` is null once the adapter is stopped (178: "Null before start() or
\* after stop()").
StoppedHasNoAddress == Quiet /\ ~started => address = None

\* A started adapter never listens on two servers (184-185).
OneServer == Cardinality(open) <= 1
=============================================================================
