----------------------------- MODULE MCColumnChain ----------------------------
(***************************************************************************)
(* ColumnChain on small instances.  Events are what users and agents do,    *)
(* and crashes; each behaviour holds at most MaxEvents of them, MaxMoves    *)
(* moves by a user and MaxCrashes crashes among them.  What the chains, the *)
(* recheck and the healer do by themselves is not limited.                  *)
(***************************************************************************)
EXTENDS ColumnChain, TLC

CONSTANTS MaxEvents, MaxMoves, MaxCrashes,
          Return  \* whether the agent of a run may move its card twice

VARIABLES events, moves, crashes

mcVars == <<vars, events, moves, crashes>>

assign == [type |-> "assign"]
run == [type |-> "run"]
move(c) == [type |-> "move", to |-> c]
onEnter(actions) == [trigger |-> "on_enter", actions |-> actions]
whenMet(actions) == [trigger |-> "condition", actions |-> actions]

Columns == {"backlog", "doing", "review", "done", "error"}

(* A backlog that waits for a condition, a column that runs an agent and    *)
(* moves its card on, one that assigns; nothing to do for a closed card.    *)
Board == [c \in Columns |->
    CASE c = "backlog" -> << whenMet(<<assign, move("doing")>>) >>
      [] c = "doing" -> << onEnter(<<assign, run>>), onEnter(<<move("review")>>) >>
      [] c = "review" -> << onEnter(<<assign>>) >>
      [] OTHER -> << >>]

MCInit == Init /\ events = 0 /\ moves = 0 /\ crashes = 0

MoveEvent == \E f \in Fiber, p \in Process, c \in Column : UserMove(f, p, c)

CrashEvent == \E p \in Process : Crash(p)

OtherEvent ==
    \/ \E f \in Fiber, p \in Process :
         Reenter(f, p) \/ DirectRun(f, p) \/ \E c \in Column : ReserveRun(f, p, c)
    \/ \E f, g \in Fiber, c \in Column :
         /\ pc[f] \in {"run", "direct"} /\ (Return \/ row.status = frame[f].column)
         /\ AgentMoves(f, g, c)
    \/ UserStop \/ ClearStopped
    \/ \E p \in Process : EvictStaleLock(p)

MCNext ==
    \/ Routine /\ UNCHANGED <<events, moves, crashes>>
    \/ /\ events < MaxEvents /\ events' = events + 1
       /\ \/ moves < MaxMoves /\ MoveEvent /\ moves' = moves + 1 /\ UNCHANGED crashes
          \/ crashes < MaxCrashes /\ CrashEvent /\ crashes' = crashes + 1 /\ UNCHANGED moves
          \/ OtherEvent /\ UNCHANGED <<moves, crashes>>

MCSpec == MCInit /\ [][MCNext]_mcVars

MCFairSpec == MCSpec /\ Fairness

Symmetry == Permutations(Fiber) \cup Permutations(Process)
===============================================================================
