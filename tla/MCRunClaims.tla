------------------------------ MODULE MCRunClaims ------------------------------
(***************************************************************************)
(* RunClaims on small instances.  A behaviour starts at most MaxStarts runs *)
(* and holds at most MaxEvents events of its environment: what users and    *)
(* other agents ask, lost replies and failed releases, a process that dies, *)
(* a live run whose heartbeats do not land.  What the runs, the handlers    *)
(* and the healer do by themselves is not limited.                          *)
(***************************************************************************)
EXTENDS RunClaims, Naturals, TLC

CONSTANTS MaxStarts, MaxEvents,
          Lag  \* whether the claim of a live run may go stale

VARIABLES starts, events

mcVars == <<vars, starts, events>>

MCInit == Init /\ starts = 0 /\ events = 0

Start ==
    \E r \in Run, p \in Process, a \in Agent, t \in Task : Dispatch(r, p, a, t)

(* A start a user asks for is an event as well.                             *)
Asked ==
    \E r \in Run, p \in Process, a \in Agent, t \in Task, c \in Column :
        \E mode \in {"resume", "explicit"} : Execute(r, p, a, t, c, mode)

Event ==
    \/ \E p \in Process, t \in Task :
         \/ Stop(p, t) \/ ClearStopped(p, t) \/ DropDeleted(p, t)
         \/ \E c \in Column : Move(p, t, c)
    \/ \E p \in Process, a \in Agent : Halt(p, a)
    \/ \E t \in Task, c \in Column : AgentMoves(t, c)
    \/ \E a \in Agent : TerminalPrints(a)
    \/ \E r \in Run : ClaimUnconfirmed(r) \/ ReleaseFails(r)
    \/ \E t \in Task : Delete(t) \/ HardDelete(t) \/ (Lag /\ Attended(t) /\ Age(t))
    \/ \E p \in Process : PurgeSignals(p) \/ Restart(p)

Routine ==
    \/ \E r \in Run : Advance(r) \/ AskEnds(r) \/ GiveUpBeforeClaim(r) \/ Heartbeat(r)
                      \/ HeartbeatLost(r) \/ TurnEnds(r) \/ Verdict(r) \/ Finish(r)
                      \/ Fail(r) \/ AbortedTurnEnds(r)
    \/ RequestStep
    \/ \E t \in Task : Restore(t) \/ (~Attended(t) /\ Age(t))
    \/ \E a \in Agent : TerminalQuiet(a)
    \/ \E p \in Process, t \in Task : Heal(p, t)

MCNext ==
    \/ Routine /\ UNCHANGED <<starts, events>>
    \/ starts < MaxStarts /\ Start /\ starts' = starts + 1 /\ UNCHANGED events
    \/ events < MaxEvents /\ Event /\ events' = events + 1 /\ UNCHANGED starts
    \/ /\ starts < MaxStarts /\ events < MaxEvents
       /\ Asked
       /\ starts' = starts + 1 /\ events' = events + 1

MCSpec == MCInit /\ [][MCNext]_mcVars

MCFairSpec == MCSpec /\ Fairness

Symmetry == Permutations(Process) \cup Permutations(Agent) \cup Permutations(Task)
            \cup Permutations(Run)
===============================================================================
