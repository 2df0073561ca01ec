------------------------- MODULE LocalTriggerProofs -------------------------
(***************************************************************************)
(* Theorems about the local trigger adapter, for any bounds: its lifecycle *)
(* with one caller (LocalTrigger); its overlapping ticks with any          *)
(* registrations and minutes that match, what a field of a cron expression *)
(* matches, and whom a request and an event reach (TriggerAdapters).       *)
(***************************************************************************)
EXTENDS MCLocalTrigger, FiniteSetTheorems, SequenceTheorems, WellFoundedInduction, TLAPS

\* Calls are made one after the other.
OneCaller == \A c, d \in Callers : c = d

Bounds == MaxRegs \in Nat /\ MaxServers \in Nat /\ MaxTimers \in Nat /\ MaxRequests \in Nat

LEMMA BoundsOfLife == Bounds
  BY TriggerAssumption DEF TriggerAssumption, Bounds

\* The types without that of `started`, which is a Boolean.
Typed ==
    /\ hooks \in 0..MaxRegs /\ crons \in 0..MaxRegs
    /\ server \in Servers \cup {None} /\ address \in Servers \cup {None}
    /\ interval \in Timers \cup {None}
    /\ call \in [Callers -> [at : {"register", "start", "stop"}, srv : Servers] \cup {Done}]
    /\ made \in 0..MaxServers /\ open \subseteq 1..made
    /\ set \in 0..MaxTimers /\ ticking \subseteq 1..set
    /\ handling \in [Servers -> 0..MaxRequests]

\* What is set up while a call is suspended at its await.
Pending ==
    \A c \in Callers :
        /\ call[c].at # "done" => call[c].srv <= made
        /\ call[c].at \in {"register", "start"} =>
               /\ started /\ server = None /\ address = None /\ open = {} /\ hooks > 0
        /\ call[c].at = "register" =>
               /\ ticking = IF crons > 0 THEN {interval} ELSE {}
               /\ interval # None <=> crons > 0
        /\ call[c].at = "start" => ticking = {} /\ interval = None
        /\ call[c].at = "stop" =>
               /\ ~started /\ server = None /\ open = {}
               /\ ticking = {} /\ interval = None

\* Requests are handled only by a server that listens or is being closed.
Handled ==
    \A s \in Servers : handling[s] > 0 =>
        s \in open \/ \E c \in Callers : call[c].at = "stop" /\ call[c].srv = s

Life == TypeOK /\ StoppedIsClean /\ StartedServes /\ Pending /\ Handled

-----------------------------------------------------------------------------
LEMMA LifeInit == Init => Life
  <1> SUFFICES ASSUME Init PROVE Life
    OBVIOUS
  <1>1. started \in BOOLEAN
    BY Zenon DEF Init
  <1>2. Bounds
    BY BoundsOfLife
  <1>3. Typed /\ StoppedIsClean /\ StartedServes /\ Pending /\ Handled
    BY <1>2
    DEF Bounds, Init, Typed, StoppedIsClean, StartedServes, Pending, Handled, Quiet, Done,
        None, Servers, Timers
  <1> QED
    BY <1>1, <1>3 DEF Life, TypeOK, Typed

LEMMA SchedulerTyped ==
    ASSUME Typed, StartScheduler \/ NoScheduler
    PROVE  /\ set' \in 0..MaxTimers /\ ticking' \subseteq 1..set'
           /\ interval' \in Timers \cup {None}
  <1>0. Bounds
    BY BoundsOfLife
  <1>1. CASE StartScheduler
    <2>1. set' \in 0..MaxTimers /\ set' \in Timers
      BY <1>0, <1>1 DEF Bounds, Typed, StartScheduler, Timers
    <2>2. \A t \in ticking' : t \in 1..set'
      BY <1>1 DEF Typed, StartScheduler
    <2> QED
      BY <1>1, <2>1, <2>2 DEF StartScheduler
  <1>2. CASE NoScheduler
    BY <1>2 DEF Typed, NoScheduler
  <1> QED
    BY <1>1, <1>2

\* The types are kept by any number of callers.
LEMMA TypedStep ==
    ASSUME Typed, Pending, [Next]_vars
    PROVE  Typed'
  <1>0. Bounds
    BY BoundsOfLife
  <1> USE <1>0 DEF Bounds, Servers, Timers, None, Done
  <1>1. CASE UNCHANGED vars
    BY <1>1 DEF Typed, vars
  <1>2. ASSUME NEW c \in Callers, RegisterWebhook(c) PROVE Typed'
    BY <1>2 DEF Typed, RegisterWebhook, AwaitServer, NoScheduler
  <1>3. ASSUME NEW c \in Callers, RegisterCron(c) PROVE Typed'
    <2>1. StartScheduler \/ NoScheduler
      BY <1>3 DEF RegisterCron
    <2> QED
      BY <1>3, <2>1, SchedulerTyped DEF Typed, RegisterCron
  <1>4. ASSUME NEW c \in Callers, Start(c) PROVE Typed'
    <2>1. StartScheduler \/ NoScheduler
      BY <1>4 DEF Start
    <2>2. made' \in 0..MaxServers /\ open' \subseteq 1..made'
      BY <1>4 DEF Typed, Start, AwaitServer
    <2>3. call' \in [Callers -> [at : {"register", "start", "stop"}, srv : Servers] \cup {Done}]
      BY <1>4 DEF Typed, Start, AwaitServer
    <2> QED
      BY <1>4, <2>1, <2>2, <2>3, SchedulerTyped DEF Typed, Start
  <1>5. ASSUME NEW c \in Callers, Listens(c) PROVE Typed'
    <2>1. StartScheduler \/ NoScheduler
      BY <1>5 DEF Listens
    <2>2. call[c].srv \in Servers /\ call[c].srv \in 1..made
      BY <1>5 DEF Typed, Pending, Listens
    <2> QED
      BY <1>5, <2>1, <2>2, SchedulerTyped DEF Typed, Listens
  <1>6. ASSUME NEW c \in Callers, Stop(c) PROVE Typed'
    <2>1. call' \in [Callers -> [at : {"register", "start", "stop"}, srv : Servers] \cup {Done}]
      BY <1>6 DEF Typed, Stop
    <2>2. open' \subseteq 1..made' /\ ticking' \subseteq 1..set'
      BY <1>6 DEF Typed, Stop
    <2>3. server' \in Servers \cup {None} /\ address' \in Servers \cup {None}
      BY <1>6 DEF Typed, Stop
    <2> QED
      BY <1>6, <2>1, <2>2, <2>3 DEF Typed, Stop
  <1>7. ASSUME NEW c \in Callers, Closes(c) PROVE Typed'
    BY <1>7 DEF Typed, Closes, NoScheduler
  <1>8. ASSUME NEW s \in Servers, Request(s) PROVE Typed'
    BY <1>8 DEF Typed, Request, NoScheduler
  <1>9. ASSUME NEW s \in Servers, Answered(s) PROVE Typed'
    BY <1>9 DEF Typed, Answered, NoScheduler
  <1> QED
    BY <1>1, <1>2, <1>3, <1>4, <1>5, <1>6, <1>7, <1>8, <1>9 DEF Next

LEMMA StartedStep ==
    ASSUME started \in BOOLEAN, [Next]_vars
    PROVE  started' \in BOOLEAN
  BY Zenon DEF Next, vars, RegisterWebhook, RegisterCron, Start, Listens, Stop, Closes,
               Request, Answered

LEMMA TypesStep ==
    ASSUME TypeOK, Pending, [Next]_vars
    PROVE  TypeOK'
  <1>1. started' \in BOOLEAN
    BY StartedStep DEF TypeOK
  <1>2. Typed'
    <2> Typed
      BY DEF Typed, TypeOK
    <2> QED
      BY TypedStep
  <1> QED
    BY <1>1, <1>2 DEF Typed, TypeOK

Rest == StoppedIsClean /\ StartedServes /\ Pending /\ Handled

\* With one caller, its call decides whether all is quiet.
LEMMA OnlyCall ==
    ASSUME OneCaller, NEW c \in Callers
    PROVE  (Quiet <=> call[c] = Done) /\ (Quiet' <=> call'[c] = Done)
  BY DEF OneCaller, Quiet

LEMMA RestStep ==
    ASSUME OneCaller, Life, [Next]_vars
    PROVE  Rest'
  <1>0. Bounds /\ Typed
    BY BoundsOfLife DEF Life, TypeOK, Typed
  <1> USE <1>0, OnlyCall
      DEF Bounds, Servers, Timers, None, Done, OneCaller, Life, Rest, Typed,
          StoppedIsClean, StartedServes, Pending, Handled
  <1>1. CASE UNCHANGED vars
    BY <1>1 DEF vars, Quiet
  <1>2. ASSUME NEW c \in Callers, RegisterWebhook(c) PROVE Rest'
    BY <1>2 DEF RegisterWebhook, AwaitServer, NoScheduler
  <1>3. ASSUME NEW c \in Callers, RegisterCron(c) PROVE Rest'
    <2>1. call[c] = Done /\ call' = call /\ crons' = crons + 1 /\ crons' > 0
      BY <1>3 DEF RegisterCron
    <2>2. UNCHANGED <<started, hooks, server, address, made, open, handling>>
      BY <1>3 DEF RegisterCron
    <2>3. \A d \in Callers : call[d] = Done
      BY <2>1, OnlyCall DEF Quiet
    <2>4. CASE started /\ interval = None
      <3>0. ticking = {}
        BY <2>3, <2>4 DEF Quiet
      <3>1. ticking' = {interval'} /\ interval' # None
        BY <1>3, <2>4, <3>0 DEF RegisterCron, StartScheduler
      <3> QED
        BY <2>1, <2>2, <2>3, <2>4, <3>1 DEF Quiet
    <2>5. CASE ~(started /\ interval = None)
      <3>1. NoScheduler
        BY <1>3, <2>5 DEF RegisterCron
      <3> QED
        BY <2>1, <2>2, <2>3, <2>5, <3>1 DEF Quiet, NoScheduler
    <2> QED
      BY <2>4, <2>5
  <1>4. ASSUME NEW c \in Callers, Start(c) PROVE Rest'
    <2>1. Quiet /\ ~started /\ started'
      BY <1>4 DEF Start
    <2>2. open = {} /\ server = None /\ address = None /\ ticking = {} /\ interval = None
      BY <2>1
    <2>3. UNCHANGED <<hooks, crons, server, address, open, handling>>
      BY <1>4 DEF Start
    <2>4. CASE hooks > 0
      <3>1. call'[c].at = "start" /\ call'[c].srv <= made' /\ NoScheduler
        BY <1>4, <2>4 DEF Start, AwaitServer
      <3> QED
        BY <2>1, <2>2, <2>3, <2>4, <3>1 DEF NoScheduler, Quiet
    <2>5. CASE ~(hooks > 0)
      <3>1. UNCHANGED <<call, made>>
        BY <1>4, <2>5 DEF Start
      <3>2. ticking' = IF crons > 0 THEN {interval'} ELSE {}
        BY <1>4, <2>2, <2>5 DEF Start, StartScheduler, NoScheduler
      <3>3. interval' # None <=> crons > 0
        BY <1>4, <2>2, <2>5 DEF Start, StartScheduler, NoScheduler
      <3> QED
        BY <2>1, <2>2, <2>3, <2>5, <3>1, <3>2, <3>3 DEF Quiet
    <2> QED
      BY <2>4, <2>5
  <1>5. ASSUME NEW c \in Callers, Listens(c) PROVE Rest'
    <2> DEFINE s == call[c].srv
    <2>1. s \in Servers /\ started /\ server = None /\ open = {} /\ hooks > 0
      BY <1>5 DEF Listens
    <2>2. open' = {s} /\ server' = s /\ address' = s /\ call'[c] = Done
      BY <1>5, <2>1 DEF Listens
    <2>3. UNCHANGED <<started, hooks, crons, made, handling>>
      BY <1>5 DEF Listens
    <2>4. ticking' = IF crons > 0 THEN {interval'} ELSE {}
      BY <1>5 DEF Listens, StartScheduler, NoScheduler
    <2>5. interval' # None <=> crons > 0
      BY <1>5 DEF Listens, StartScheduler, NoScheduler
    <2>6. \A t \in Servers : handling[t] = 0
      BY <1>5, <2>1 DEF Listens
    <2> HIDE DEF s
    <2> QED
      BY <2>1, <2>2, <2>3, <2>4, <2>5, <2>6, OnlyCall
  <1>6. ASSUME NEW c \in Callers, Stop(c) PROVE Rest'
    BY <1>6 DEF Stop
  <1>7. ASSUME NEW c \in Callers, Closes(c) PROVE Rest'
    BY <1>7 DEF Closes, NoScheduler
  <1>8. ASSUME NEW s \in Servers, Request(s) PROVE Rest'
    BY <1>8 DEF Request, NoScheduler, Quiet
  <1>9. ASSUME NEW s \in Servers, Answered(s) PROVE Rest'
    BY <1>9 DEF Answered, NoScheduler, Quiet
  <1> QED
    BY <1>1, <1>2, <1>3, <1>4, <1>5, <1>6, <1>7, <1>8, <1>9 DEF Next

LEMMA LifeStep == ASSUME OneCaller, Life, [Next]_vars PROVE Life'
  <1>1. TypeOK'
    BY TypesStep DEF Life
  <1> QED
    BY <1>1, RestStep DEF Life, Rest

-----------------------------------------------------------------------------
(***************************************************************************)
(* Ticks that overlap.                                                     *)
(***************************************************************************)
Minutes == Adapters!Minutes
Regs == Adapters!Regs
Never == Adapters!Never

\* The types without those of the four Booleans.
CronTyped ==
    /\ minute \in Minutes
    /\ nregs \in 0..NRegs
    /\ lastFired \in [Regs -> Minutes \cup {Never}]
    /\ tick \in [Ticks -> [key : Minutes, at : Regs] \cup {Adapters!Idle}]
    /\ \A t \in Ticks : tick[t].at <= nregs
    /\ fired \in [Regs \X Minutes -> Nat]
    /\ watched \subseteq 1..nregs
    /\ stops \in 0..MaxStops

Switches ==
    /\ prompt \in BOOLEAN /\ scheduled \in BOOLEAN
    /\ running \in BOOLEAN /\ (running => scheduled) /\ ticked \in BOOLEAN

\* A registration that has fired for this minute is marked with it, and none
\* has fired for a minute that has not begun.
Marked ==
    \A r \in Regs, m \in Minutes :
        (prompt \/ r = 1) /\ fired[<<r, m>>] > 0 =>
            /\ fired[<<r, m>>] = 1 /\ m <= minute
            /\ m = minute => lastFired[r] = m

\* What is awaited was fired in this minute.
InItsMinute == prompt => \A t \in Ticks : tick[t] # Adapters!Idle => tick[t].key = minute

Cron == CronTyped /\ Switches /\ Marked /\ InItsMinute

\* Min names an element of a set of numbers that is not empty.
LEMMA MinIsElement ==
    ASSUME NEW S, S \subseteq Nat, S # {}
    PROVE  Adapters!Min(S) \in S /\ \A y \in S : Adapters!Min(S) <= y
  <1>1. PICK x \in S : \A y \in S : ~ (<<y, x>> \in OpToRel(<, Nat))
    BY NatLessThanWellFounded, WFMin
  <1>2. OpToRel(<, Nat) = {p \in Nat \X Nat : p[1] < p[2]}
    BY Zenon DEF OpToRel
  <1>3. ASSUME NEW y \in S PROVE x <= y
    <2>1. x \in Nat /\ y \in Nat
      OBVIOUS
    <2>2. ~ (<<y, x>> \in {p \in Nat \X Nat : p[1] < p[2]})
      BY <1>1, <1>2
    <2>3. <<y, x>> \in Nat \X Nat /\ <<y, x>>[1] = y /\ <<y, x>>[2] = x
      BY <2>1
    <2>4. ~ (y < x)
      BY <2>2, <2>3
    <2> QED
      BY <2>1, <2>4
  <1> QED
    BY <1>3 DEF Adapters!Min

LEMMA CronInit == ASSUME Adapters!Init PROVE Cron
  <1>1. Switches
    BY Zenon DEF Adapters!Init, Switches
  <1>2. CronTyped /\ Marked /\ InItsMinute
    BY SchedulerAssumption
    DEF SchedulerAssumption, Adapters!Init, CronTyped, Marked, InItsMinute, Minutes, Regs, Never,
        Adapters!Minutes, Adapters!Regs, Adapters!Never, Adapters!Idle
  <1> QED
    BY <1>1, <1>2 DEF Cron

LEMMA SwitchesStep ==
    ASSUME CronTyped, Switches, [Adapters!Next]_cronVars
    PROVE  Switches'
  <1>1. ASSUME NEW n \in Nat PROVE (n > 0) \in BOOLEAN
    OBVIOUS
  <1>2. (nregs > 0) \in BOOLEAN
    BY <1>1 DEF CronTyped
  <1>3. CASE UNCHANGED cronVars
    BY <1>3, Zenon DEF Switches, cronVars
  <1>4. CASE Adapters!Register
    BY <1>4, Zenon DEF Switches, Adapters!Register
  <1>5. CASE Adapters!Start
    BY <1>2, <1>5, Zenon DEF Switches, Adapters!Start
  <1>6. CASE Adapters!Stop
    BY <1>6, Zenon DEF Switches, Adapters!Stop
  <1>7. CASE Adapters!Tick
    BY <1>7, Zenon DEF Switches, Adapters!Tick
  <1>8. CASE Adapters!HandlerSettles
    BY <1>8, Zenon DEF Switches, Adapters!HandlerSettles
  <1>9. CASE Adapters!MinutePasses
    BY <1>9, Zenon DEF Switches, Adapters!MinutePasses
  <1> QED
    BY <1>3, <1>4, <1>5, <1>6, <1>7, <1>8, <1>9, Zenon DEF Adapters!Next

\* What a tick does up to its next await: nothing but to end, or it fires one
\* registration that was not marked with its minute.
Ends(t) ==
    /\ tick' = [tick EXCEPT ![t] = Adapters!Idle]
    /\ UNCHANGED <<lastFired, fired>>

Fires(t, k, r) ==
    /\ lastFired[r] # k
    /\ tick' = [tick EXCEPT ![t] = [key |-> k, at |-> r]]
    /\ lastFired' = [lastFired EXCEPT ![r] = k]
    /\ fired' = [fired EXCEPT ![<<r, k>>] = @ + 1]

LEMMA Proceeds ==
    ASSUME CronTyped, NEW t \in Ticks, NEW k \in Minutes, NEW from \in Nat \ {0},
           Adapters!Proceed(t, k, from)
    PROVE  Ends(t) \/ \E r \in Regs : from <= r /\ r <= nregs /\ Fires(t, k, r)
  <1>1. CASE Adapters!Due(k, from) = {}
    BY <1>1 DEF Adapters!Proceed, Ends
  <1>2. CASE Adapters!Due(k, from) # {}
    <2> DEFINE r == Adapters!Min(Adapters!Due(k, from))
    <2>1. Adapters!Due(k, from) \subseteq Nat
      BY DEF Adapters!Due, CronTyped
    <2>2. r \in Adapters!Due(k, from)
      BY <1>2, <2>1, MinIsElement
    <2> HIDE DEF r
    <2>3. r \in Regs /\ from <= r /\ r <= nregs /\ lastFired[r] # k
      BY <2>2, SchedulerAssumption
      DEF SchedulerAssumption, Adapters!Due, CronTyped, Regs, Adapters!Regs
    <2>4. Fires(t, k, r)
      BY <1>2, <2>3 DEF Adapters!Proceed, Fires, r
    <2> QED
      BY <2>3, <2>4
  <1> QED
    BY <1>1, <1>2

LEMMA ProceedTyped ==
    ASSUME CronTyped, NEW t \in Ticks, NEW k \in Minutes, NEW from \in Nat \ {0},
           Adapters!Proceed(t, k, from),
           UNCHANGED <<minute, nregs, watched, stops>>
    PROVE  CronTyped'
  <1>1. CASE Ends(t)
    BY <1>1 DEF CronTyped, Adapters!Idle, Ends
  <1>2. ASSUME NEW r \in Regs, r <= nregs, Fires(t, k, r)
        PROVE  CronTyped'
    <2>1. lastFired' \in [Regs -> Minutes \cup {Never}]
      BY <1>2 DEF CronTyped, Fires
    <2>2. tick' \in [Ticks -> [key : Minutes, at : Regs] \cup {Adapters!Idle}]
      BY <1>2 DEF CronTyped, Fires
    <2>3. \A u \in Ticks : tick'[u].at <= nregs'
      BY <1>2 DEF CronTyped, Fires
    <2>4. fired' \in [Regs \X Minutes -> Nat]
      BY <1>2 DEF CronTyped, Fires
    <2> QED
      BY <2>1, <2>2, <2>3, <2>4 DEF CronTyped
  <1> QED
    BY <1>1, <1>2, Proceeds

LEMMA ProceedMarks ==
    ASSUME Cron, NEW t \in Ticks, NEW k \in Minutes, NEW from \in Nat \ {0},
           Adapters!Proceed(t, k, from),
           prompt => k = minute,
           k = minute \/ from > 1,
           UNCHANGED <<minute, prompt>>
    PROVE  Marked' /\ InItsMinute'
  <1>0. \A r \in Regs, m \in Minutes : fired[<<r, m>>] \in Nat
    BY DEF Cron, CronTyped
  <1>1. CASE Ends(t)
    BY <1>1 DEF Cron, CronTyped, Marked, InItsMinute, Adapters!Idle, Ends
  <1>2. ASSUME NEW r \in Regs, from <= r, Fires(t, k, r)
        PROVE  Marked' /\ InItsMinute'
    <2>1. InItsMinute'
      BY <1>2 DEF Cron, CronTyped, InItsMinute, Fires
    <2>2. ASSUME NEW q \in Regs, NEW m \in Minutes, prompt \/ q = 1, fired'[<<q, m>>] > 0
          PROVE  /\ fired'[<<q, m>>] = 1 /\ m <= minute
                 /\ m = minute => lastFired'[q] = m
      <3>1. CASE q = r /\ m = k
        <4>1. k = minute
          BY <2>2, <3>1, <1>2 DEF Regs, Adapters!Regs
        <4>2. fired[<<r, k>>] = 0
          BY <1>0, <1>2, <2>2, <3>1, <4>1 DEF Cron, Marked, Fires
        <4> QED
          BY <1>2, <3>1, <4>1, <4>2 DEF Cron, CronTyped, Minutes, Adapters!Minutes, Fires
      <3>2. CASE ~(q = r /\ m = k)
        <4>1. fired'[<<q, m>>] = fired[<<q, m>>]
          BY <1>2, <3>2 DEF Cron, CronTyped, Fires
        <4>2. fired[<<q, m>>] = 1 /\ m <= minute /\ (m = minute => lastFired[q] = m)
          BY <2>2, <4>1 DEF Cron, Marked
        <4>3. ASSUME m = minute, q = r PROVE FALSE
          BY <2>2, <1>2, <3>2, <4>3 DEF Regs, Adapters!Regs
        <4> QED
          BY <1>2, <4>1, <4>2, <4>3 DEF Cron, CronTyped, Fires
      <3> QED
        BY <3>1, <3>2
    <2> QED
      BY <2>1, <2>2 DEF Marked
  <1>3. CronTyped
    BY DEF Cron
  <1> QED
    BY <1>1, <1>2, <1>3, Proceeds

LEMMA CronStep == ASSUME Cron, [Adapters!Next]_cronVars PROVE Cron'
  <1> SUFFICES CronTyped' /\ Marked' /\ InItsMinute'
    BY SwitchesStep DEF Cron
  <1> USE SchedulerAssumption DEF SchedulerAssumption
  <1>1. CASE UNCHANGED cronVars
    BY <1>1 DEF cronVars, Cron, CronTyped, Marked, InItsMinute
  <1>2. CASE Adapters!Register
    <2>1. /\ nregs' \in 0..NRegs /\ nregs <= nregs'
          /\ UNCHANGED <<prompt, minute, lastFired, tick, fired, watched, stops>>
      BY <1>2 DEF Adapters!Register, Cron, CronTyped
    <2>2. \A t \in Ticks : tick[t].at <= nregs'
      BY <1>2 DEF Adapters!Register, Cron, CronTyped, Adapters!Idle, Regs, Adapters!Regs
    <2>3. watched \subseteq 1..nregs'
      BY <2>1 DEF Cron, CronTyped
    <2> QED
      BY <2>1, <2>2, <2>3 DEF Cron, CronTyped, Marked, InItsMinute
  <1>3. CASE Adapters!Start
    BY <1>3 DEF Adapters!Start, Cron, CronTyped, Marked, InItsMinute
  <1>4. CASE Adapters!Stop
    BY <1>4 DEF Adapters!Stop, Cron, CronTyped, Marked, InItsMinute
  <1>5. CASE Adapters!Tick
    <2>1. PICK t \in Ticks : tick[t] = Adapters!Idle /\ Adapters!Proceed(t, minute, 1)
      BY <1>5 DEF Adapters!Tick
    <2>2. UNCHANGED <<prompt, minute, nregs, watched, stops>>
      BY <1>5 DEF Adapters!Tick
    <2>3. minute \in Minutes /\ 1 \in Nat \ {0}
      BY DEF Cron, CronTyped
    <2> QED
      BY <2>1, <2>2, <2>3, ProceedTyped, ProceedMarks DEF Cron
  <1>6. CASE Adapters!HandlerSettles
    <2>1. PICK t \in Ticks :
            tick[t] # Adapters!Idle /\ Adapters!Proceed(t, tick[t].key, tick[t].at + 1)
      BY <1>6 DEF Adapters!HandlerSettles
    <2>2. UNCHANGED <<prompt, minute, nregs, watched, stops>>
      BY <1>6 DEF Adapters!HandlerSettles
    <2>3. tick[t].key \in Minutes /\ tick[t].at \in Regs
      BY <2>1 DEF Cron, CronTyped
    <2>4. tick[t].at + 1 \in Nat \ {0} /\ tick[t].at + 1 > 1
      BY <2>3 DEF Regs, Adapters!Regs
    <2>5. prompt => tick[t].key = minute
      BY <2>1 DEF Cron, InItsMinute
    <2> QED
      BY <2>1, <2>2, <2>3, <2>4, <2>5, ProceedTyped, ProceedMarks DEF Cron
  <1>7. CASE Adapters!MinutePasses
    <2>1. minute' = minute + 1 /\ minute' \in Minutes
      BY <1>7 DEF Adapters!MinutePasses, Cron, CronTyped, Minutes, Adapters!Minutes
    <2>2. CronTyped'
      BY <1>7, <2>1 DEF Adapters!MinutePasses, Cron, CronTyped
    <2>3. Marked'
      BY <1>7, <2>1 DEF Adapters!MinutePasses, Cron, CronTyped, Marked, Minutes, Adapters!Minutes
    <2>4. InItsMinute'
      BY <1>7 DEF Adapters!MinutePasses, InItsMinute
    <2> QED
      BY <2>2, <2>3, <2>4
  <1> QED
    BY <1>1, <1>2, <1>3, <1>4, <1>5, <1>6, <1>7 DEF Adapters!Next

-----------------------------------------------------------------------------
LEMMA Sound == ASSUME Life, Cron PROVE AdapterIsSound
  <1>1. Adapters!TypeOK
    BY DEF Cron, CronTyped, Switches, Adapters!TypeOK, Minutes, Regs, Never
  <1>2. Adapters!PromptFiresAtMostOnce
    <2> SUFFICES ASSUME NEW r \in Regs, NEW m \in Minutes, prompt \/ r = 1
                 PROVE  fired[<<r, m>>] <= 1
      BY DEF Adapters!PromptFiresAtMostOnce, Regs, Minutes
    <2> fired[<<r, m>>] \in Nat
      BY DEF Cron, CronTyped
    <2> QED
      BY DEF Cron, Marked
  <1> QED
    BY <1>1, <1>2 DEF AdapterIsSound, Life

\* With one caller, in whatever order it calls register, start and stop and
\* whatever requests come meanwhile, a started adapter serves just what is
\* registered and a stopped one has left nothing behind; and however many ticks
\* overlap, a handler that settles within its minute fires at most once in it
\* (local-trigger-adapter.ts 184-251 and 341-360).
THEOREM AdapterIsSoundAlways ==
    ASSUME \A c, d \in Callers : c = d
    PROVE  MCSpec => []AdapterIsSound
  <1>0. OneCaller
    BY DEF OneCaller
  <1>1. MCInit => Life /\ Cron
    BY LifeInit, CronInit DEF MCInit
  <1>2. Life /\ Cron /\ [MCNext]_<<part, vars, cronVars, dispatchVars>> => (Life /\ Cron)'
    <2> SUFFICES ASSUME Life, Cron, [MCNext]_<<part, vars, cronVars, dispatchVars>>
                 PROVE  Life' /\ Cron'
      OBVIOUS
    <2>1. [Next]_vars /\ [Adapters!Next]_cronVars
      BY DEF MCNext
    <2> QED
      BY <1>0, <2>1, LifeStep, CronStep
  <1>3. Life /\ Cron => AdapterIsSound
    BY Sound
  <1> QED
    BY <1>1, <1>2, <1>3, PTL DEF MCSpec

-----------------------------------------------------------------------------
(***************************************************************************)
(* Fields.                                                                 *)
(***************************************************************************)
\* The remainder of a sum of whole steps is 0.
LEMMA WholeSteps ==
    ASSUME NEW d \in Nat, NEW by \in Nat \ {0}
    PROVE  d % by = 0 <=> \E n \in 0..d : d = n * by
  <1>1. /\ d \div by \in Nat /\ d % by \in 0..(by - 1)
        /\ d = by * (d \div by) + (d % by)
    OBVIOUS
  <1>2. ASSUME d % by = 0 PROVE \E n \in 0..d : d = n * by
    <2> DEFINE q == d \div by
    <2>1. q \in Nat /\ d = by * q
      BY <1>1, <1>2
    <2> HIDE DEF q
    <2>2. by * q = q * by /\ q <= q * by
      BY <2>1
    <2> QED
      BY <2>1, <2>2
  <1>3. ASSUME NEW n \in 0..d, d = n * by PROVE d % by = 0
    <2> DEFINE q == d \div by
               r == d % by
               k == n - q
    <2>1. q \in Nat /\ r \in 0..(by - 1) /\ n * by = by * q + r
      BY <1>1, <1>3
    <2> HIDE DEF q, r
    <2>2. k \in Int /\ by * k = r
      BY <2>1
    <2> HIDE DEF k
    <2>3. k >= 1 => by * k >= by
      BY <2>2
    <2>4. k <= -1 => by * k < 0
      BY <2>2
    <2>5. k = 0
      BY <2>1, <2>2, <2>3, <2>4
    <2> QED
      BY <2>2, <2>5 DEF r
  <1> QED
    BY <1>2, <1>3

\* What a part that is not refused stands for is what it covers.
LEMMA PartsAreMeant ==
    ASSUME NEW p \in Adapters!Parts, ~Adapters!Bad(p), NEW v \in Low..High
    PROVE  v \in Adapters!Values(p) <=> Adapters!Covers(p, v)
  <1> USE FieldAssumption DEF FieldAssumption
  <1>1. p.form # "other"
    BY DEF Adapters!Bad
  <1>2. CASE p.form = "step"
    <2> DEFINE lo == p.over[1]
               hi == p.over[2]
               by == p.by
    <2>1. lo \in (Low - 1)..(High + 1) /\ hi \in Int /\ by \in Nat \ {0}
      BY <1>2 DEF Adapters!Parts, Adapters!Numbers, Adapters!Bad
    <2>2. v \in Adapters!Values(p) <=> v \in {w \in lo..hi : (w - lo) % by = 0}
      BY <1>2 DEF Adapters!Values
    <2>3. Adapters!Covers(p, v) <=> \E n \in 0..(High + 1) : v = lo + n * by /\ v <= hi
      BY <1>2 DEF Adapters!Covers
    <2> HIDE DEF lo, hi, by
    <2>4. CASE v < lo
      <3>1. \A n \in 0..(High + 1) : lo + n * by >= lo
        BY <2>1
      <3> QED
        BY <2>1, <2>2, <2>3, <2>4, <3>1
    <2>5. CASE lo <= v
      <3> DEFINE d == v - lo
      <3>1. d \in Nat /\ d <= High + 1
        BY <2>1, <2>5
      <3>2. d % by = 0 <=> \E n \in 0..d : d = n * by
        BY <2>1, <3>1, WholeSteps
      <3>3. \A n \in 0..(High + 1) : v = lo + n * by <=> d = n * by
        BY <2>1
      <3> HIDE DEF d
      <3>4. \A n \in 0..(High + 1) : d = n * by => n <= d
        BY <2>1, <3>1
      <3>5. (\E n \in 0..d : d = n * by) <=> \E n \in 0..(High + 1) : d = n * by
        BY <3>1, <3>4
      <3>6. v \in lo..hi <=> v <= hi
        BY <2>1, <2>5
      <3> QED
        BY <2>2, <2>3, <3>2, <3>3, <3>5, <3>6 DEF d
    <2> QED
      BY <2>1, <2>4, <2>5
  <1>3. CASE p.form = "range"
    BY <1>3 DEF Adapters!Parts, Adapters!Numbers, Adapters!Values, Adapters!Covers
  <1>4. CASE p.form = "number"
    BY <1>4 DEF Adapters!Parts, Adapters!Numbers, Adapters!Values, Adapters!Covers
  <1>5. p.form \in {"step", "range", "number", "other"}
    BY DEF Adapters!Parts
  <1> QED
    BY <1>1, <1>2, <1>3, <1>4, <1>5

\* A field is some number of parts.
Fields == \A i \in DOMAIN raw : raw[i] \in Adapters!Parts

LEMMA FieldsMean == ASSUME Fields PROVE Adapters!FieldsAreMeant
  <1> DEFINE field == Adapters!parseField(raw)
  <1> SUFFICES ASSUME field.is # "thrown", NEW v \in Low..High
               PROVE  Adapters!fieldMatches(field, v) <=>
                        (raw = Adapters!Wildcard \/ \E i \in DOMAIN raw : Adapters!Covers(raw[i], v))
    BY DEF Adapters!FieldsAreMeant
  <1>1. CASE raw = Adapters!Wildcard
    <2>1. field = [is |-> "null", values |-> {}]
      BY <1>1 DEF Adapters!parseField
    <2> HIDE DEF field
    <2> QED
      BY <1>1, <2>1 DEF Adapters!fieldMatches
  <1>2. CASE raw # Adapters!Wildcard
    <2>1. \A i \in DOMAIN raw : ~Adapters!Bad(raw[i])
      BY <1>2 DEF Adapters!parseField
    <2>2. field = [is |-> "set", values |-> UNION {Adapters!Values(raw[i]) : i \in DOMAIN raw}]
      BY <1>2, <2>1 DEF Adapters!parseField
    <2>3. \A i \in DOMAIN raw : v \in Adapters!Values(raw[i]) <=> Adapters!Covers(raw[i], v)
      BY <2>1, PartsAreMeant DEF Fields
    <2> HIDE DEF field
    <2>4. Adapters!fieldMatches(field, v) <=>
            v \in UNION {Adapters!Values(raw[i]) : i \in DOMAIN raw}
      BY <2>2 DEF Adapters!fieldMatches
    <2> QED
      BY <1>2, <2>3, <2>4
  <1> QED
    BY <1>1, <1>2

-----------------------------------------------------------------------------
(***************************************************************************)
(* Requests and events.                                                    *)
(***************************************************************************)
\* What was reached had been registered when the call was made.
Within ==
    /\ regs \in Seq(Targets) /\ reached \in Seq(Nat)
    /\ answer.op \in {"request", "fire"} =>
           /\ answer.made \in 0..Len(regs)
           /\ \A i \in DOMAIN reached : reached[i] \in 1..answer.made

Dispatched == Fields /\ Within /\ Adapters!EachReachesItsOwn

LEMMA DispatchStarts == ASSUME Adapters!DispatchInit PROVE Dispatched
  <1>1. Fields
    <2>1. PICK m \in 0..MaxParts : raw \in [1..m -> Adapters!Parts]
      BY DEF Adapters!DispatchInit, Adapters!BoundedSeq, Adapters!SeqOf
    <2> QED
      BY <2>1 DEF Fields
  <1>2. Within /\ Adapters!EachReachesItsOwn
    BY DEF Adapters!DispatchInit, Within, Adapters!EachReachesItsOwn
  <1> QED
    BY <1>1, <1>2 DEF Dispatched

\* A registration comes after those there are.
LEMMA RegisterKeeps ==
    ASSUME Dispatched, NEW t \in Targets, Adapters!RegisterTrigger(t)
    PROVE  Dispatched'
  <1>1. /\ regs \in Seq(Targets) /\ regs' = Append(regs, t)
        /\ UNCHANGED <<raw, reached, answer>>
    BY DEF Adapters!RegisterTrigger, Dispatched, Within
  <1>2. /\ regs' \in Seq(Targets) /\ Len(regs') = Len(regs) + 1 /\ Len(regs) \in Nat
        /\ \A i \in 1..Len(regs) : regs'[i] = regs[i]
    BY <1>1, AppendProperties
  <1>3. Fields'
    BY <1>1 DEF Dispatched, Fields
  <1>4. Within'
    BY <1>1, <1>2 DEF Dispatched, Within
  <1>5. answer.op \in {"request", "fire"} =>
          \A i \in 1..answer.made : regs'[i] = regs[i]
    BY <1>2 DEF Dispatched, Within
  <1>6. Adapters!EachReachesItsOwn'
    <2>1. ASSUME answer.op = "request"
          PROVE  /\ reached = <<>> <=> answer.status \in {400, 404, 405}
                 /\ answer.status = 404 <=>
                      \A i \in 1..answer.made : regs'[i] # <<"webhook", answer.path>>
                 /\ reached # <<>> =>
                      /\ Len(reached) = 1
                      /\ regs'[reached[1]] = <<"webhook", answer.path>>
                      /\ \A i \in 1..(reached[1] - 1) : regs'[i] # regs'[reached[1]]
                 /\ answer.method = "POST" /\ answer.json /\ reached = <<>> =>
                      answer.status = 404
      <3>1. reached # <<>> =>
              /\ Len(reached) = 1 /\ reached[1] \in 1..answer.made
              /\ \A i \in 1..(reached[1] - 1) : i \in 1..answer.made
        BY <2>1 DEF Dispatched, Within, Adapters!EachReachesItsOwn
      <3> QED
        BY <2>1, <1>5, <3>1 DEF Dispatched, Adapters!EachReachesItsOwn
    <2>2. ASSUME answer.op = "fire"
          PROVE  /\ Adapters!ToSet(reached) = {i \in 1..answer.made : regs'[i] = answer.target}
                 /\ \A i, j \in DOMAIN reached : i < j => reached[i] < reached[j]
      BY <2>2, <1>5 DEF Dispatched, Adapters!EachReachesItsOwn
    <2>3. answer' = answer /\ reached' = reached
      BY <1>1
    <2>4. CASE answer.op = "request"
      BY <2>1, <2>3, <2>4 DEF Adapters!EachReachesItsOwn
    <2>5. CASE answer.op = "fire"
      BY <2>2, <2>3, <2>5 DEF Adapters!EachReachesItsOwn
    <2> QED
      BY <2>3, <2>4, <2>5 DEF Adapters!EachReachesItsOwn
  <1> QED
    BY <1>3, <1>4, <1>6 DEF Dispatched

LEMMA RequestReaches ==
    ASSUME Dispatched, NEW path, NEW method, NEW json \in BOOLEAN,
           Adapters!Request(path, method, json)
    PROVE  Dispatched'
  <1> DEFINE hook == <<"webhook", path>>
             found == Adapters!For(hook)
             first == Adapters!Min(found)
  <1>1. /\ regs \in Seq(Targets) /\ Len(regs) \in Nat /\ UNCHANGED <<raw, regs>>
        /\ found = {i \in 1..Len(regs) : regs[i] = hook}
    BY DEF Dispatched, Within, Adapters!Request, Adapters!Called, Adapters!For
  <1>2. found # {} => /\ first \in 1..Len(regs) /\ regs[first] = hook
                      /\ \A i \in 1..(first - 1) : regs[i] # hook
    <2>1. found \subseteq Nat
      BY <1>1
    <2>2. found # {} => first \in found /\ \A y \in found : first <= y
      BY <2>1, MinIsElement
    <2> HIDE DEF first
    <2> QED
      BY <1>1, <2>2
  <1>3. PICK status \in {200, 400, 404, 405, 500} :
          /\ answer' = Adapters!Reply(path, method, json, status)
          /\ status = 404 <=> found = {}
          /\ status \in {400, 405} => method # "POST" \/ ~json
          /\ reached' = IF status \in {200, 500} THEN <<first>> ELSE <<>>
    <2> HIDE DEF found, first
    <2>1. CASE found = {}
      BY <2>1 DEF Adapters!Request, Adapters!Called, found, hook
    <2>2. CASE found # {} /\ method # "POST"
      BY <2>2 DEF Adapters!Request, Adapters!Called, found, hook
    <2>3. CASE found # {} /\ method = "POST" /\ ~json
      BY <2>3 DEF Adapters!Request, Adapters!Called, found, hook
    <2>4. CASE found # {} /\ method = "POST" /\ json
      <3>1. PICK status \in {200, 500} :
              Adapters!Called(Adapters!Reply(path, method, json, status), <<first>>)
        BY <2>4 DEF Adapters!Request, found, first, hook
      <3> QED
        <4>1. status \in {200, 400, 404, 405, 500}
          OBVIOUS
        <4>2. status = 404 <=> found = {}
          BY <2>4
        <4>3. status \in {400, 405} => method # "POST" \/ ~json
          OBVIOUS
        <4>4. reached' = IF status \in {200, 500} THEN <<first>> ELSE <<>>
          BY <3>1 DEF Adapters!Called
        <4>5. answer' = Adapters!Reply(path, method, json, status)
          BY <3>1 DEF Adapters!Called
        <4> QED
          BY <4>1, <4>2, <4>3, <4>4, <4>5
    <2> QED
      BY <2>1, <2>2, <2>3, <2>4
  <1>4. /\ answer'.op = "request" /\ answer'.path = path /\ answer'.made = Len(regs)
        /\ answer'.status = status /\ answer'.method = method /\ answer'.json = json
    BY <1>3 DEF Adapters!Reply
  <1>5. found = {} <=> \A i \in 1..Len(regs) : regs[i] # hook
    BY <1>1
  <1> HIDE DEF found, first
  <1>6. CASE status \in {200, 500}
    <2>1. found # {} /\ reached' = <<first>> /\ reached' # <<>> /\ Len(reached') = 1
          /\ reached'[1] = first /\ DOMAIN reached' = {1} /\ first \in Nat
      BY <1>2, <1>3, <1>6
    <2>2. Within'
      BY <1>1, <1>2, <1>4, <2>1 DEF Within
    <2>3. status \notin {400, 404, 405}
      BY <1>6
    <2>4. /\ answer'.status # 404 /\ ~ \A i \in 1..Len(regs) : regs[i] # hook
      BY <1>5, <1>4, <2>1, <2>3
    <2>5. \A i \in 1..(reached'[1] - 1) : regs'[i] # regs'[reached'[1]]
      BY <1>1, <1>2, <2>1
    <2>6. Adapters!EachReachesItsOwn'
      BY <1>1, <1>2, <1>4, <2>1, <2>3, <2>4, <2>5 DEF Adapters!EachReachesItsOwn
    <2> QED
      BY <1>1, <2>2, <2>6 DEF Dispatched, Fields
  <1>7. CASE status \in {400, 404, 405}
    <2>1. reached' = <<>>
      BY <1>3, <1>7
    <2>2. Within'
      BY <1>1, <1>4, <2>1 DEF Within
    <2>3. Adapters!EachReachesItsOwn'
      BY <1>1, <1>3, <1>4, <1>5, <1>7, <2>1 DEF Adapters!EachReachesItsOwn
    <2> QED
      BY <1>1, <2>2, <2>3 DEF Dispatched, Fields
  <1> QED
    BY <1>6, <1>7

\* An arrangement of indices in their order has each of them once.
LEMMA Ordered ==
    ASSUME NEW n \in Nat, NEW S \in SUBSET (1..n), NEW q \in Adapters!InOrder(S)
    PROVE  /\ q \in Seq(Nat) /\ Adapters!ToSet(q) = S
           /\ \A i, j \in DOMAIN q : i < j => q[i] < q[j]
  <1> DEFINE c == Cardinality(S)
  <1>1. IsFiniteSet(S) /\ c \in Nat
    <2>1. IsFiniteSet(1..n)
      BY FS_Interval
    <2>2. IsFiniteSet(S)
      BY <2>1, FS_Subset
    <2> QED
      BY <2>2, FS_CardinalityType
  <1>2. q \in [1..c -> S] /\ \A i, j \in 1..c : i # j => q[i] # q[j]
    <2>1. Adapters!Cardinality(S) = c
      BY DEF Adapters!Cardinality, Cardinality
    <2> QED
      BY <2>1 DEF Adapters!InOrder, Adapters!SetToSeqs
  <1>3. Cardinality(1..c) = c
    <2> DEFINE a == 1
               b == c
    <2>0. a \in Int /\ b \in Int /\ (IF a > b THEN 0 ELSE b - a + 1) = c
      BY <1>1
    <2> HIDE DEF a, b
    <2>1. Cardinality(a..b) = c
      BY <2>0, FS_Interval
    <2> QED
      BY <2>1 DEF a, b
  <1>4. q \in Injection(1..c, S)
    BY <1>2 DEF Injection, IsInjective
  <1>5. q \in Surjection(1..c, S)
    BY <1>1, <1>3, <1>4, FS_Injection
  <1>6. \A x \in S : \E i \in 1..c : q[i] = x
    BY <1>5 DEF Surjection
  <1> HIDE DEF c
  <1>7. q \in Seq(S) /\ DOMAIN q = 1..c
    BY <1>1, <1>2
  <1>8. q \in Seq(Nat)
    <2>1. S \subseteq Nat
      OBVIOUS
    <2>2. q \in [1..c -> Nat]
      BY <1>2, <2>1
    <2> QED
      BY <1>1, <2>2
  <1>9. \A i, j \in DOMAIN q : i < j => q[i] < q[j]
    BY DEF Adapters!InOrder
  <1> QED
    BY <1>2, <1>6, <1>7, <1>8, <1>9 DEF Adapters!ToSet

LEMMA EventsReach ==
    ASSUME Dispatched, NEW target, Adapters!Fire(target)
    PROVE  Dispatched'
  <1> DEFINE all == Adapters!For(target)
  <1>1. /\ regs \in Seq(Targets) /\ Len(regs) \in Nat /\ UNCHANGED <<raw, regs>>
        /\ all = {i \in 1..Len(regs) : regs[i] = target}
    BY DEF Dispatched, Within, Adapters!Fire, Adapters!Called, Adapters!For
  <1>2. PICK q \in Adapters!InOrder(all) :
          /\ reached' = q
          /\ answer' = [op |-> "fire", target |-> target, made |-> Len(regs)]
    BY DEF Adapters!Fire, Adapters!Called
  <1> HIDE DEF all
  <1>3. /\ q \in Seq(Nat) /\ Adapters!ToSet(q) = all
        /\ \A i, j \in DOMAIN q : i < j => q[i] < q[j]
    <2>1. all \in SUBSET (1..Len(regs))
      BY <1>1
    <2> QED
      BY <1>1, <2>1, Ordered
  <1>4. \A i \in DOMAIN q : q[i] \in 1..Len(regs)
    BY <1>1, <1>3 DEF Adapters!ToSet
  <1>5. Within'
    BY <1>1, <1>2, <1>3, <1>4 DEF Within
  <1>6. Adapters!ToSet(reached)' = all
    BY <1>2, <1>3 DEF Adapters!ToSet
  <1>7. Adapters!EachReachesItsOwn'
    BY <1>1, <1>2, <1>3, <1>6 DEF Adapters!EachReachesItsOwn
  <1> QED
    BY <1>1, <1>5, <1>7 DEF Dispatched, Fields

LEMMA DispatchStep ==
    ASSUME Dispatched, [Adapters!DispatchNext]_dispatchVars
    PROVE  Dispatched'
  <1>1. CASE UNCHANGED dispatchVars
    <2>1. raw' = raw /\ regs' = regs /\ reached' = reached /\ answer' = answer
      BY <1>1 DEF dispatchVars
    <2>2. Fields' /\ Within'
      BY <2>1 DEF Dispatched, Fields, Within
    <2>3. Adapters!EachReachesItsOwn'
      BY <2>1 DEF Dispatched, Adapters!EachReachesItsOwn
    <2> QED
      BY <2>2, <2>3 DEF Dispatched
  <1>2. ASSUME NEW t \in Targets, Adapters!RegisterTrigger(t) PROVE Dispatched'
    BY <1>2, RegisterKeeps
  <1>3. ASSUME NEW t \in Targets, Adapters!Fire(t) PROVE Dispatched'
    BY <1>3, EventsReach
  <1>4. ASSUME NEW t \in Targets, NEW method \in {"GET", "POST"}, NEW json \in BOOLEAN,
               Adapters!Request(t[2], method, json)
        PROVE  Dispatched'
    BY <1>4, RequestReaches
  <1> QED
    BY <1>1, <1>2, <1>3, <1>4 DEF Adapters!DispatchNext

\* Whatever the range of a field and its parts, a field that is accepted matches
\* just the values its parts cover; and whatever is registered, and in whatever
\* order with the calls, a request reaches the first registration of its path,
\* or is answered without, and an event all that were registered for it by then,
\* once each and in their order (local-trigger-adapter.ts 36-89, 115-117,
\* 187-216 and 253-337).
THEOREM TriggersFireAsMeantAlways == MCSpec => []TriggersFireAsMeant
  <1>1. MCInit => Dispatched
    BY DispatchStarts DEF MCInit
  <1>2. Dispatched /\ [MCNext]_<<part, vars, cronVars, dispatchVars>> => Dispatched'
    <2> SUFFICES ASSUME Dispatched, [MCNext]_<<part, vars, cronVars, dispatchVars>>
                 PROVE  Dispatched'
      OBVIOUS
    <2>1. [Adapters!DispatchNext]_dispatchVars
      BY DEF MCNext
    <2> QED
      BY <2>1, DispatchStep
  <1>3. Dispatched => TriggersFireAsMeant
    BY FieldsMean DEF TriggersFireAsMeant, Adapters!DispatchIsTrue, Dispatched
  <1> QED
    BY <1>1, <1>2, <1>3, PTL DEF MCSpec
=============================================================================
