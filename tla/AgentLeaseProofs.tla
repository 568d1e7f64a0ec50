-------------------------- MODULE AgentLeaseProofs --------------------------
(***************************************************************************)
(* The lease protocol keeps its promise, for any agents and tasks.         *)
(***************************************************************************)
EXTENDS AgentLease, TLAPS

(* No agent has two leases and no task is leased twice: what the run claims *)
(* are for (claimTaskRun and uniq_tasks_running_agent).                     *)
THEOREM LeasesExclusive == Spec => []Exclusive
<1>1. Init => Exclusive
  BY DEF Init, Exclusive
<1>2. Exclusive /\ [Next]_leases => Exclusive'
  <2> SUFFICES ASSUME Exclusive, [Next]_leases  PROVE Exclusive'
    OBVIOUS
  <2>1. ASSUME NEW a \in Agent, NEW t \in Task, Grant(a, t)  PROVE Exclusive'
    BY <2>1 DEF Grant, Available, Exclusive
  <2>2. ASSUME NEW l \in leases, End(l)  PROVE Exclusive'
    BY <2>2 DEF End, Exclusive
  <2>3. CASE UNCHANGED leases
    BY <2>3 DEF Exclusive
  <2> QED  BY <2>1, <2>2, <2>3 DEF Next
<1> QED  BY <1>1, <1>2, PTL DEF Spec
===============================================================================
