------------------------------ MODULE MCInngest ------------------------------
(***************************************************************************)
(* Instances of InngestRun and KitFunction for TLC: a behaviour is one of  *)
(* the inside of a run or of the events that start runs.                   *)
(***************************************************************************)
EXTENDS InngestRun, Sequences

CONSTANTS Makers, Guards, Registered, Triggers, Keys, Pipelines, Window,
          MaxEvents, MaxCalls, MaxTime, Null

VARIABLES part, maker, guard, trigger, now, events, state, calls, began, ended

\* 0 stands for no limit, and for no dedup period.
ASSUME GuardsAssumption ==
    Window \in Nat /\ \A g \in Guards : g.limit \in Nat /\ g.period \in Nat

Function == INSTANCE KitFunction WITH None <- Null

functionVars == <<maker, guard, trigger, now, events, state, calls, began, ended>>

Guard(limit, overflow, period) == [limit |-> limit, overflow |-> overflow, period |-> period]
\* The shapes of buildFunctionConfig's comment, a rejecting limit of two, and
\* dedup periods shorter and longer than the Window, one beside a limit.
FiveShapes ==
    {Guard(0, "queue", 0), Guard(0, "queue", 1), Guard(1, "queue", 3), Guard(1, "reject", 1)}
    \cup {Guard(n, o, 0) : n \in 1..2, o \in {"queue", "reject"}}
OneTrigger == {<<"webhook", "x">>}
SomeTriggers == {<<"webhook", "x">>, <<"event", <<"webhook", "x">>>>, <<"event", <<"e">>>>}

MCInit ==
    /\ part \in {"run", "function"}
    /\ Init
    /\ IF part = "function" THEN request = "none"
       ELSE maker = "InngestTriggerAdapter" /\ trigger = <<"webhook", "x">>
    /\ maker = "createKitFunction" \/ guard = Guard(0, "queue", 0)
    /\ Function!Init

MCNext ==
    /\ \/ part = "run" /\ Next /\ UNCHANGED functionVars
       \/ part = "function" /\ (Function!Next \/ UNCHANGED functionVars) /\ UNCHANGED vars
    /\ UNCHANGED part

InRun(A) == part = "run" /\ A /\ UNCHANGED <<part, functionVars>>
MCSpec ==
    /\ MCInit /\ [][MCNext]_<<part, vars, functionVars>>
    /\ WF_vars(InRun(Next)) /\ WF_vars(InRun(TimesOut))

\* InngestRun: done means that all is ok, and a review that is answered once
\* it is waited for does not time out.
RunIsSound == DoneMeansAllOk /\ AnswerResumes

\* InngestRun: a replay repeats nothing, ends, and does not retry what is final.
ReplayIsSafe == StepsInOrder /\ FinalIsNotRetried /\ (part = "run" => RunEnds)

\* KitFunction: events start the runs they should, within the guard.
FunctionIsGuarded == Function!FunctionIsGuarded

SingletonIsSingle == Function!SingletonIsSingle
RunsAreSequential == Function!RunsAreSequential
PeriodIsWindow == Function!PeriodIsWindow
DedupHoldsForPeriod == Function!DedupHoldsForPeriod
ChildSeesItem == Function!ChildSeesItem
RunKeepsItsId == Function!RunKeepsItsId
EventsAreApart == Function!EventsAreApart
=============================================================================
