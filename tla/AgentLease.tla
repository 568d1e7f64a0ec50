------------------------------ MODULE AgentLease ------------------------------
(***************************************************************************)
(* What the run claims promise, without saying how: a lease ties one agent *)
(* to one task.  A lease is granted only when neither its agent nor its    *)
(* task is part of another one, and leases come and go one at a time.      *)
(*                                                                         *)
(* RunClaims implements this module: the leases are the rows of the tasks  *)
(* table with action_running set and not deleted                           *)
(* (src/api/src/services/database/tasks.ts, "Run claims: one live run per  *)
(* task AND per agent, enforced by the DB").                               *)
(***************************************************************************)
CONSTANTS Agent,  \* the agents, shared by every process
          Task    \* the task rows

VARIABLE leases   \* the set of <<agent, task>> leases in force

Init == leases = {}

(* Neither the agent nor the task is taken. *)
Available(a, t) == \A l \in leases : l[1] # a /\ l[2] # t

Grant(a, t) == /\ Available(a, t)
               /\ leases' = leases \cup {<<a, t>>}

End(l) == /\ l \in leases
          /\ leases' = leases \ {l}

Next == \/ \E a \in Agent, t \in Task : Grant(a, t)
        \/ \E l \in leases : End(l)

Spec == Init /\ [][Next]_leases

(* Two leases in force share neither their agent nor their task. *)
Exclusive == \A l, m \in leases : (l[1] = m[1] \/ l[2] = m[2]) => l = m
===============================================================================
