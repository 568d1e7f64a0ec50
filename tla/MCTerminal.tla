------------------------------ MODULE MCTerminal ------------------------------
(***************************************************************************)
(* Terminal on a small instance.  A behaviour holds at most MaxRequests     *)
(* requests to open a session (each spawns at most one object, so Session   *)
(* never runs out), MaxEvents events and MaxFaults faults.  What the service*)
(* does by itself, and viewers that leave, are not limited.                 *)
(***************************************************************************)
EXTENDS Terminal, TLC

CONSTANTS MaxRequests, MaxEvents, MaxFaults

VARIABLES requests, events, faults

mcVars == <<vars, requests, events, faults>>

MCInit == Init /\ requests = 0 /\ events = 0 /\ faults = 0

MCNext ==
    \/ (Routine \/ Leave) /\ UNCHANGED <<requests, events, faults>>
    \/ requests < MaxRequests /\ requests' = requests + 1 /\ Request
       /\ UNCHANGED <<events, faults>>
    \/ events < MaxEvents /\ events' = events + 1 /\ Event /\ UNCHANGED <<requests, faults>>
    \/ faults < MaxFaults /\ faults' = faults + 1 /\ Fault /\ UNCHANGED <<requests, events>>

MCSpec == MCInit /\ [][MCNext]_mcVars

Symmetry == Permutations(Handler) \cup Permutations(Config) \cup Permutations(Project)
            \cup Permutations(Session)
===============================================================================
