------------------------------ MODULE MCCodeIndex ------------------------------
(***************************************************************************)
(* CodeIndex on a small instance: as many requests as Op has elements, at   *)
(* most MaxEdits edits, and MaxFaults faults and expirations of the cache.  *)
(***************************************************************************)
EXTENDS CodeIndex, TLC

CONSTANTS MaxEdits, MaxFaults

VARIABLES edits, faults

mcVars == <<vars, edits, faults>>

MCInit == Init /\ edits = 0 /\ faults = 0

MCNext ==
    \/ ((\E o \in Op : Step(o)) \/ Start) /\ UNCHANGED <<edits, faults>>
    \/ edits < MaxEdits /\ edits' = edits + 1 /\ Edits /\ UNCHANGED faults
    \/ faults < MaxFaults /\ faults' = faults + 1 /\ (Fault \/ Expire) /\ UNCHANGED edits

MCSpec == MCInit /\ [][MCNext]_mcVars

Symmetry == Permutations(File) \cup Permutations(Content) \cup Permutations(Op)
===============================================================================
