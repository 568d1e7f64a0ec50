------------------------------- MODULE TaskMutex -------------------------------
(***************************************************************************)
(* What the advisory locks of tasks promise to the workflow's dispatches: a *)
(* task has one owner at a time, and passes to the next one only through    *)
(* nobody.  An owner may lose its task without knowing (its connection      *)
(* dies, its process dies), and a dispatch may always be refused.           *)
(***************************************************************************)
CONSTANTS Task, Dispatch, Nobody

VARIABLE owner  \* owner[t]: the dispatch that has task t

Init == owner = [t \in Task |-> Nobody]

(* A task without an owner goes to a dispatch that has none. *)
Grant(t, d) ==
    /\ owner[t] = Nobody /\ \A u \in Task : owner[u] # d
    /\ owner' = [owner EXCEPT ![t] = d]

(* Some tasks are released or lost, together if a process dies. *)
End(S) == owner' = [t \in Task |-> IF t \in S THEN Nobody ELSE owner[t]]

Next == \/ \E t \in Task, d \in Dispatch : Grant(t, d)
        \/ \E S \in SUBSET Task : End(S)

Spec == Init /\ [][Next]_owner
===============================================================================
