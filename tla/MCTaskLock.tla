------------------------------ MODULE MCTaskLock ------------------------------
(***************************************************************************)
(* TaskLock on a small instance: at most MaxFaults faults.                  *)
(***************************************************************************)
EXTENDS TaskLock, TLC

CONSTANTS p1, p2, c1, c2, c3, MaxFaults

VARIABLE faults

mcVars == <<vars, faults>>

(* Two connections for one process, one for the other. *)
Processes == {p1, p2}
Conns == {c1, c2, c3}
Pools == (p1 :> {c1, c2}) @@ (p2 :> {c3})

MCInit == Init /\ faults = 0

MCNext ==
    \/ Routine /\ UNCHANGED faults
    \/ faults < MaxFaults /\ Fault /\ faults' = faults + 1

MCSpec == MCInit /\ [][MCNext]_mcVars

Symmetry == Permutations(Dispatch) \cup Permutations(Task) \cup Permutations({c1, c2})
===============================================================================
