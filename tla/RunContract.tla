---------------------------- MODULE RunContract ----------------------------
(***************************************************************************)
(* What a caller of runComposer may rely on, whatever the pipeline does:   *)
(* units of work are finished one after the other, none once the signal    *)
(* has fired; the run decides on one outcome; then, and only then, its     *)
(* resources are released, once; then it returns.                          *)
(***************************************************************************)
EXTENDS Naturals

VARIABLES phase,      \* "running", "ending" or "returned"
          finished,   \* units of work that went through every step
          cancelled,  \* the signal has fired
          outcome,    \* "pending", "ok" or "error"
          releases    \* how often the registry was disposed

contract == <<phase, finished, cancelled, outcome, releases>>

CInit ==
    /\ phase = "running" /\ finished = 0 /\ cancelled \in BOOLEAN
    /\ outcome = "pending" /\ releases = 0

\* A unit of work passes its last step.
FinishUnit ==
    /\ phase = "running" /\ ~cancelled
    /\ finished' = finished + 1
    /\ UNCHANGED <<phase, cancelled, outcome, releases>>

\* Success needs at least one unit, the last of which may be this step's.
Succeed ==
    /\ phase = "running" /\ phase' = "ending" /\ outcome' = "ok"
    /\ \/ finished > 0 /\ UNCHANGED finished
       \/ ~cancelled /\ finished' = finished + 1
    /\ UNCHANGED <<cancelled, releases>>

Fail ==
    /\ phase = "running" /\ phase' = "ending" /\ outcome' = "error"
    /\ UNCHANGED <<finished, cancelled, releases>>

\* The run is refused before anything was acquired.
Refuse ==
    /\ phase = "running" /\ finished = 0
    /\ phase' = "returned" /\ outcome' = "error"
    /\ UNCHANGED <<finished, cancelled, releases>>

\* Ending the source goes wrong after the outcome was decided.
EndBadly ==
    /\ phase = "ending" /\ releases = 0 /\ outcome' = "error"
    /\ UNCHANGED <<phase, finished, cancelled, releases>>

Release ==
    /\ phase = "ending"
    /\ phase' = "returned" /\ releases' = releases + 1
    /\ UNCHANGED <<finished, cancelled, outcome>>

Cancel ==
    /\ ~cancelled /\ phase # "returned"
    /\ cancelled' = TRUE
    /\ UNCHANGED <<phase, finished, outcome, releases>>

CNext == FinishUnit \/ Succeed \/ Fail \/ Refuse \/ EndBadly \/ Release \/ Cancel

CSpec == CInit /\ [][CNext]_contract
=============================================================================
