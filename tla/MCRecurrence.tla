----------------------------- MODULE MCRecurrence -----------------------------
(***************************************************************************)
(* Recurrence on a small instance: at most MaxClock periods, MaxRequests    *)
(* requests, and MaxEvents moves of runs and faults.                        *)
(***************************************************************************)
EXTENDS Recurrence, TLC

CONSTANTS MaxClock, MaxRequests, MaxEvents

VARIABLES requests, events

mcVars == <<vars, requests, events>>

MCInit == Init /\ requests = 0 /\ events = 0

MCNext ==
    \/ Routine /\ UNCHANGED <<requests, events>>
    \/ clock < MaxClock /\ PeriodPasses /\ UNCHANGED <<requests, events>>
    \/ requests < MaxRequests /\ requests' = requests + 1 /\ Request /\ UNCHANGED events
    \/ events < MaxEvents /\ events' = events + 1 /\ (RunMoves \/ Fault)
       /\ UNCHANGED requests

MCSpec == MCInit /\ [][MCNext]_mcVars

Symmetry == Permutations(Process) \cup Permutations(Handler)
===============================================================================
