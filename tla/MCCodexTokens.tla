----------------------------- MODULE MCCodexTokens -----------------------------
(***************************************************************************)
(* CodexTokens on a small instance: at most MaxToken tokens, MaxRequests    *)
(* logins, executions and terminals, and MaxFaults faults.                 *)
(***************************************************************************)
EXTENDS CodexTokens, TLC

CONSTANTS MaxToken, MaxRequests, MaxFaults

VARIABLES requests, faults

mcVars == <<vars, requests, faults>>

MCInit == Init /\ requests = 0 /\ faults = 0

MCNext ==
    /\ \/ Routine /\ UNCHANGED <<requests, faults>>
       \/ requests < MaxRequests /\ requests' = requests + 1 /\ Request /\ UNCHANGED faults
       \/ faults < MaxFaults /\ faults' = faults + 1 /\ Fault /\ UNCHANGED requests
    /\ newest' <= MaxToken

MCSpec == MCInit /\ [][MCNext]_mcVars

Symmetry == Permutations(Agent) \cup Permutations(Replica)

(* After a lapse the properties say nothing of the tokens that are lost.    *)
NoLapse == lapses = {}
===============================================================================
