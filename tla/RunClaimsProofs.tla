---------------------------- MODULE RunClaimsProofs ----------------------------
(***************************************************************************)
(* Theorems of RunClaims, for any number of processes, agents, tasks,       *)
(* columns and runs.                                                       *)
(***************************************************************************)
EXTENDS RunClaims, TLAPS

(* A request that is about to move a card knows where to. *)
MoveHasTarget == Serving("move") => request.column # NoColumn

TypeInv == TypeOK /\ MoveHasTarget

RequestPhase == {"mark", "clear", "abort", "move", "signal", "unstop"}

(* The record of a request is one of Request as soon as a handler runs, and *)
(* stays one when its handler goes on.                                      *)
LEMMA RequestServed ==
    ASSUME request \in Request \cup {NoRequest}, NEW phase \in RequestPhase,
           Serving(phase)
    PROVE  /\ request \in Request
           /\ request.proc \in Process /\ request.tasks \in SUBSET Task
           /\ request.seen \in [Task -> Column] /\ request.column \in Column \cup {NoColumn}
           /\ request.agent \in Agent \cup {NoAgent}
  BY DEF Request, RequestPhase, NoRequest, Serving

LEMMA RequestContinues ==
    ASSUME request \in Request, NEW phase \in RequestPhase,
           Continue(phase)
    PROVE  request' \in Request /\ request'.phase = phase /\ request'.column = request.column
  BY DEF Request, RequestPhase, Continue

LEMMA RequestStarts ==
    ASSUME TypeOK, NEW phase \in RequestPhase,
           NEW p \in Process, NEW a \in Agent \cup {NoAgent}, NEW T \in SUBSET Task,
           NEW c \in Column \cup {NoColumn}, Serve(phase, p, a, T, c)
    PROVE  request' \in Request /\ request'.phase = phase /\ request'.column = c
  BY DEF Request, RequestPhase, Serve, TypeOK

(* A run that is not idle has its four coordinates. *)
LEMMA RunIsPlaced ==
    ASSUME TypeOK, NEW r \in Run, pc[r] # "idle"
    PROVE  /\ job[r] \in Job
           /\ Proc(r) \in Process /\ Agt(r) \in Agent /\ Tsk(r) \in Task
           /\ job[r].column \in Column
  BY DEF TypeOK, Job, Proc, Agt, Tsk

LEMMA TypeInit == Init => TypeInv
  BY ConstantsAssumption DEF Init, TypeInv, TypeOK, MoveHasTarget, Serving, NoRequest, Phase

-------------------------------------------------------------------------------
(* Typing, one lemma per group of actions. *)

LEMMA TypeBegin ==
    ASSUME TypeOK, NEW r \in Run, NEW p \in Process, NEW a \in Agent, NEW t \in Task,
           NEW c \in Column, NEW mode \in Mode, Begin(r, p, a, t, c, mode)
    PROVE  /\ job' \in [Run -> Job \cup {NoJob}] /\ job'[r] \in Job
           /\ job'[r].proc = p /\ job'[r].agent = a /\ job'[r].task = t
           /\ \A s \in Run \ {r} : job'[s] = job[s] /\ told'[s] = told[s]
           /\ told' \in [Run -> BOOLEAN] /\ ~told'[r]
           /\ aborted' \in SUBSET Run
<1> DEFINE j == [proc |-> p, agent |-> a, task |-> t, column |-> c, mode |-> mode,
                 terminal |-> FALSE]
<1>1. j \in Job /\ j.proc = p /\ j.agent = a /\ j.task = t
  BY DEF Job
<1>2. job' = [job EXCEPT ![r] = j] /\ told' = [told EXCEPT ![r] = FALSE]
      /\ aborted' = aborted \ {r}
  BY DEF Begin
<1> HIDE DEF j
<1> QED  BY <1>1, <1>2 DEF TypeOK

LEMMA TypeReserve ==
    ASSUME TypeOK, NEW r \in Run, NEW p \in Process, NEW a \in Agent, NEW t \in Task,
           Reserve(r, p, a, t)
    PROVE  /\ agentRuns' \in [Process -> [Agent -> Run \cup {NoRun}]]
           /\ taskRuns' \in [Process -> SUBSET Task]
<1>1. /\ agentRuns' = [agentRuns EXCEPT ![p] = [agentRuns[p] EXCEPT ![a] = r]]
      /\ taskRuns' = [taskRuns EXCEPT ![p] = taskRuns[p] \cup {t}]
  BY DEF Reserve
<1>2. agentRuns[p] \in [Agent -> Run \cup {NoRun}] /\ taskRuns[p] \in SUBSET Task
  BY DEF TypeOK
<1>3. [agentRuns[p] EXCEPT ![a] = r] \in [Agent -> Run \cup {NoRun}]
  BY <1>2
<1> QED  BY <1>1, <1>2, <1>3 DEF TypeOK

LEMMA TypeSignals ==
    ASSUME TypeOK, NEW p \in Process
    PROVE  /\ \A t \in Task : Without(signals, p, t) \in [Process -> SUBSET Task]
           /\ \A T \in SUBSET Task : Raised(signals, p, T) \in [Process -> SUBSET Task]
  BY DEF TypeOK, Without, Raised

LEMMA TypeDrop ==
    ASSUME TypeOK, NEW p \in Process, NEW T \in SUBSET Task, DropSignals(p, T)
    PROVE  /\ signals' \in [Process -> SUBSET Task]
           /\ dropped' \in SUBSET Run
  BY DEF TypeOK, DropSignals

LEMMA TypeNoClaim ==
    ASSUME TypeOK, NEW t \in Task, NoClaim(t)
    PROVE  /\ runner' \in [Task -> Agent \cup {NoAgent}]
           /\ heartbeat' \in [Task -> {"none", "fresh", "stale"}]
  BY DEF TypeOK, NoClaim

LEMMA TypeClose ==
    ASSUME TypeOK, NEW r \in Run, Proc(r) \in Process, Agt(r) \in Agent,
           CloseReservation(r)
    PROVE  /\ agentRuns' \in [Process -> [Agent -> Run \cup {NoRun}]]
           /\ taskRuns' \in [Process -> SUBSET Task]
<1>1. CASE agentRuns[Proc(r)][Agt(r)] = r
  <2>1. /\ agentRuns' = [agentRuns EXCEPT ![Proc(r)] =
                            [agentRuns[Proc(r)] EXCEPT ![Agt(r)] = NoRun]]
        /\ taskRuns' = [taskRuns EXCEPT ![Proc(r)] = taskRuns[Proc(r)] \ {Tsk(r)}]
    BY <1>1 DEF CloseReservation
  <2>2. agentRuns[Proc(r)] \in [Agent -> Run \cup {NoRun}] /\ taskRuns[Proc(r)] \in SUBSET Task
    BY DEF TypeOK
  <2>3. [agentRuns[Proc(r)] EXCEPT ![Agt(r)] = NoRun] \in [Agent -> Run \cup {NoRun}]
    BY <2>2
  <2> QED  BY <2>1, <2>2, <2>3 DEF TypeOK
<1>2. CASE agentRuns[Proc(r)][Agt(r)] # r
  BY <1>2 DEF CloseReservation, TypeOK
<1> QED  BY <1>1, <1>2

LEMMA TypeMoveHasTarget ==
    ASSUME MoveHasTarget, UNCHANGED request
    PROVE  MoveHasTarget'
  BY DEF MoveHasTarget, Serving

LEMMA TypeDispatch ==
    ASSUME TypeInv, NEW r \in Run, NEW p \in Process, NEW a \in Agent, NEW t \in Task
    PROVE  /\ Dispatch(r, p, a, t) => TypeInv'
           /\ \A c \in Column, mode \in {"resume", "explicit"} :
                Execute(r, p, a, t, c, mode) => TypeInv'
<1> TypeOK /\ MoveHasTarget  BY DEF TypeInv
<1>1. ASSUME ReserveForAction(r, p, a, t)  PROVE TypeInv'
  <2>1. status[t] \in Column /\ "workflow" \in Mode
    BY DEF TypeOK, Mode
  <2>2. Begin(r, p, a, t, status[t], "workflow") /\ Reserve(r, p, a, t)
    BY <1>1 DEF ReserveForAction
  <2>3. pc' \in [Run -> Phase] /\ \A s \in Run \ {r} : pc'[s] = pc[s]
    BY <1>1 DEF ReserveForAction, TypeOK, Phase
  <2>4. signals' \in [Process -> SUBSET Task]
    BY <1>1, TypeSignals DEF ReserveForAction
  <2>5. MoveHasTarget'
    BY <1>1, TypeMoveHasTarget DEF ReserveForAction
  <2>6. TypeOK'
    BY <1>1, <2>1, <2>2, <2>3, <2>4, TypeReserve, TypeBegin
    DEF ReserveForAction, TypeOK, rowVars, historyVars
  <2> QED  BY <2>5, <2>6 DEF TypeInv
<1>2. ASSUME ReserveForResume(r, p, a, t)  PROVE TypeInv'
  <2>1. status[t] \in Column /\ "resume" \in Mode
    BY DEF TypeOK, Mode
  <2>2. Begin(r, p, a, t, status[t], "resume") /\ Reserve(r, p, a, t)
    BY <1>2 DEF ReserveForResume
  <2>3. pc' \in [Run -> Phase] /\ \A s \in Run \ {r} : pc'[s] = pc[s]
    BY <1>2 DEF ReserveForResume, TypeOK, Phase
  <2>5. MoveHasTarget'
    BY <1>2, TypeMoveHasTarget DEF ReserveForResume
  <2>6. TypeOK'
    BY <1>2, <2>1, <2>2, <2>3, TypeReserve, TypeBegin
    DEF ReserveForResume, TypeOK, rowVars, historyVars
  <2> QED  BY <2>5, <2>6 DEF TypeInv
<1>3. ASSUME NEW c \in Column, NEW mode \in {"resume", "explicit"},
             Execute(r, p, a, t, c, mode)
      PROVE  TypeInv'
  <2>1. mode \in Mode
    BY DEF Mode
  <2>2. Begin(r, p, a, t, c, mode)
    BY <1>3 DEF Execute
  <2>3. pc' \in [Run -> Phase] /\ \A s \in Run \ {r} : pc'[s] = pc[s]
    BY <1>3 DEF Execute, TypeOK, Phase, Asking
  <2>5. MoveHasTarget'
    BY <1>3, TypeMoveHasTarget DEF Execute
  <2>6. TypeOK'
    BY <1>3, <2>1, <2>2, <2>3, TypeBegin
    DEF Execute, TypeOK, rowVars, memoryVars
  <2> QED  BY <2>5, <2>6 DEF TypeInv
<1> QED  BY <1>1, <1>2, <1>3 DEF Dispatch

(* The steps of a run that change its pc and, at most, a column of its row. *)
LEMMA TypeRunStep ==
    ASSUME TypeInv, NEW r \in Run, RunStep(r)
    PROVE  TypeInv'
<1> TypeOK /\ MoveHasTarget  BY DEF TypeInv
<1> USE DEF TypeInv, TypeOK, Phase, rowVars, memoryVars, historyVars
<1>1. CASE ReserveAsked(r)
  <2>1. pc[r] # "idle"  BY <1>1 DEF ReserveAsked
  <2>2. Proc(r) \in Process /\ Agt(r) \in Agent /\ Tsk(r) \in Task
    BY <2>1, RunIsPlaced
  <2>3. /\ agentRuns' \in [Process -> [Agent -> Run \cup {NoRun}]]
        /\ taskRuns' \in [Process -> SUBSET Task]
    <3>1. Reserve(r, Proc(r), Agt(r), Tsk(r))
      BY <1>1 DEF ReserveAsked
    <3> HIDE DEF TypeOK
    <3> QED  BY <2>2, <3>1, TypeReserve
  <2> QED  BY <1>1, <2>1, <2>3, TypeMoveHasTarget DEF ReserveAsked
<1>15. CASE PrepareRow(r)
  <2>1. pc[r] # "idle"  BY <1>15 DEF PrepareRow
  <2>2. job[r].column \in Column
    BY <2>1, RunIsPlaced
  <2> QED  BY <1>15, <2>1, <2>2, TypeMoveHasTarget DEF PrepareRow
<1>16. CASE ForgetSignal(r)
  <2>1. pc[r] # "idle"  BY <1>16 DEF ForgetSignal
  <2>2. Proc(r) \in Process /\ Tsk(r) \in Task /\ {Tsk(r)} \in SUBSET Task
    BY <2>1, RunIsPlaced
  <2>3. signals' \in [Process -> SUBSET Task] /\ dropped' \in SUBSET Run
    <3>1. \/ DropSignals(Proc(r), {Tsk(r)})
          \/ signals' = Without(signals, Proc(r), Tsk(r)) /\ UNCHANGED dropped
      BY <1>16 DEF ForgetSignal
    <3>2. dropped \in SUBSET Run
      OBVIOUS
    <3> HIDE DEF TypeOK
    <3> QED  BY <2>2, <3>1, <3>2, TypeSignals, TypeDrop
  <2> QED  BY <1>16, <2>1, <2>3, TypeMoveHasTarget DEF ForgetSignal, Asking
<1>17. CASE ForgetStop(r)
  <2>1. pc[r] # "idle"  BY <1>17 DEF ForgetStop
  <2> QED  BY <1>17, <2>1, TypeMoveHasTarget DEF ForgetStop, Asking
<1>2. CASE TakeClaim(r) /\ pc' \in [Run -> Phase] /\ pc' = [pc EXCEPT ![r] = pc'[r]]
  <2>1. pc[r] # "idle"  BY <1>2 DEF TakeClaim
  <2>2. Tsk(r) \in Task /\ Agt(r) \in Agent
    BY <2>1, RunIsPlaced
  <2> QED  BY <1>2, <2>1, <2>2, TypeMoveHasTarget DEF TakeClaim
<1>3. CASE Claim(r)
  BY <1>2, <1>3 DEF Claim
<1>4. CASE ClaimUnconfirmed(r)
  BY <1>2, <1>4 DEF ClaimUnconfirmed
<1>5. CASE ClaimRefused(r) \/ GiveUpBeforeClaim(r) \/ ReleaseFails(r)
  BY <1>5, TypeMoveHasTarget DEF ClaimRefused, GiveUpBeforeClaim, ReleaseFails
<1>6. CASE Prompt(r)
  <2>1. pc[r] # "idle"  BY <1>6 DEF Prompt
  <2>2. Tsk(r) \in Task /\ job[r] \in Job
    BY <2>1, RunIsPlaced
  <2>3. PICK terminal \in BOOLEAN :
          /\ pc' = [pc EXCEPT ![r] = IF terminal THEN "working" ELSE "turn"]
          /\ job' = [job EXCEPT ![r] = [job[r] EXCEPT !.terminal = terminal,
                                                      !.column = status[Tsk(r)]]]
    BY <1>6 DEF Prompt
  <2> DEFINE j == [job[r] EXCEPT !.terminal = terminal, !.column = status[Tsk(r)]]
  <2>4. j \in Job /\ job' = [job EXCEPT ![r] = j]
    BY <2>2, <2>3 DEF Job
  <2> HIDE DEF j
  <2>5. job' \in [Run -> Job \cup {NoJob}] /\ \A s \in Run : pc'[s] # "idle" => job'[s] \in Job
    BY <2>1, <2>3, <2>4
  <2>6. pc' \in [Run -> Phase]
    BY <2>3
  <2> QED  BY <1>6, <2>5, <2>6, TypeMoveHasTarget DEF Prompt
<1>18. CASE TurnEnds(r)
  <2>1. pc[r] # "idle"  BY <1>18 DEF TurnEnds
  <2>2. Tsk(r) \in Task /\ job[r] \in Job
    BY <2>1, RunIsPlaced
  <2> DEFINE j == [job[r] EXCEPT !.column = status[Tsk(r)]]
  <2>3. j \in Job
    BY <2>2 DEF Job
  <2>4. job' = job \/ job' = [job EXCEPT ![r] = j]
    BY <1>18 DEF TurnEnds
  <2> HIDE DEF j
  <2>5. job' \in [Run -> Job \cup {NoJob}] /\ \A s \in Run : pc'[s] # "idle" => job'[s] \in Job
    BY <1>18, <2>1, <2>3, <2>4 DEF TurnEnds
  <2>6. pc' \in [Run -> Phase]
    BY <1>18 DEF TurnEnds
  <2> QED  BY <1>18, <2>5, <2>6, TypeMoveHasTarget DEF TurnEnds
<1>19. CASE AskEnds(r)
  BY <1>19, TypeMoveHasTarget DEF AskEnds, Forget
<1>7. CASE CancelBeforePrompt(r) \/ Finish(r) \/ Drained(r)
  BY <1>7, TypeMoveHasTarget DEF CancelBeforePrompt, Finish, Drained, WaitEnds
<1>8. CASE Heartbeat(r)
  BY <1>8, TypeMoveHasTarget DEF Heartbeat, runVars
<1>9. CASE HeartbeatLost(r)
  <2>1. pc[r] # "idle"  BY <1>9 DEF HeartbeatLost, Beating
  <2>2. Tsk(r) \in Task /\ Proc(r) \in Process  BY <2>1, RunIsPlaced
  <2>3. signals' \in [Process -> SUBSET Task]
    BY <1>9, <2>2, TypeSignals DEF HeartbeatLost
  <2> QED  BY <1>9, <2>3, TypeMoveHasTarget DEF HeartbeatLost
<1>10. CASE Verdict(r)
  <2>1. pc[r] # "idle"  BY <1>10 DEF Verdict
  <2>2. Tsk(r) \in Task /\ Proc(r) \in Process  BY <2>1, RunIsPlaced
  <2>3. signals' \in [Process -> SUBSET Task]
    BY <1>10, <2>2, TypeSignals DEF Verdict
  <2> QED  BY <1>10, <2>1, <2>3, TypeMoveHasTarget DEF Verdict, WaitEnds
<1>11. CASE Fail(r)
  <2>1. ErrorColumn \in Column  BY ConstantsAssumption
  <2>2. pc[r] # "idle"  BY <1>11 DEF Fail
  <2> QED  BY <1>11, <2>1, <2>2, TypeMoveHasTarget DEF Fail
<1>12. CASE AbortedTurnEnds(r)
  <2>1. pc[r] # "idle"  BY <1>12 DEF AbortedTurnEnds
  <2>2. Tsk(r) \in Task /\ Proc(r) \in Process  BY <2>1, RunIsPlaced
  <2>3. signals' \in [Process -> SUBSET Task]
    BY <1>12, <2>2, TypeSignals DEF AbortedTurnEnds
  <2> QED  BY <1>12, <2>1, <2>3, TypeMoveHasTarget DEF AbortedTurnEnds
<1>13. CASE ReleaseClaim(r)
  <2>1. pc[r] # "idle"  BY <1>13 DEF ReleaseClaim
  <2>2. Tsk(r) \in Task  BY <2>1, RunIsPlaced
  <2> QED  BY <1>13, <2>1, <2>2, TypeNoClaim, TypeMoveHasTarget DEF ReleaseClaim
<1>14. CASE ReleaseReservation(r) \/ CloseExplicit(r)
  <2>1. pc[r] # "idle"  BY <1>14 DEF ReleaseReservation, CloseExplicit
  <2>2. Proc(r) \in Process /\ Agt(r) \in Agent  BY <2>1, RunIsPlaced
  <2>3. /\ agentRuns' \in [Process -> [Agent -> Run \cup {NoRun}]]
        /\ taskRuns' \in [Process -> SUBSET Task]
    <3>1. CloseReservation(r)
      BY <1>14 DEF ReleaseReservation, CloseExplicit
    <3> QED  BY <2>2, <3>1, TypeClose
  <2>4. CASE ReleaseReservation(r)
    <3>1. owner' \in [Task -> Run \cup {NoRun}]
      BY <2>4 DEF ReleaseReservation
    <3>2. pc' \in [Run -> Phase] /\ \A s \in Run : pc'[s] # "idle" => pc[s] # "idle"
      BY <2>4 DEF ReleaseReservation, Phase
    <3>3. /\ job' \in [Run -> Job \cup {NoJob}]
          /\ told' \in [Run -> BOOLEAN] /\ aborted' \in SUBSET Run
          /\ dropped' \in SUBSET Run
      <4>1. CASE UNCHANGED <<job, told, aborted, dropped>>
        BY <4>1
      <4>2. CASE Forget({r})
        <5>1. job' \in [Run -> Job \cup {NoJob}]  BY <4>2 DEF Forget
        <5>2. told' \in [Run -> BOOLEAN]           BY <4>2 DEF Forget
        <5>3. aborted' \in SUBSET Run             BY <4>2 DEF Forget
        <5>4. dropped' \in SUBSET Run             BY <4>2 DEF Forget
        <5> QED  BY <5>1, <5>2, <5>3, <5>4
      <4> QED  BY <2>4, <4>1, <4>2 DEF ReleaseReservation
    <3>4. \A s \in Run : pc'[s] # "idle" => job'[s] \in Job
      BY <2>4 DEF ReleaseReservation, Forget
    <3> QED  BY <2>3, <2>4, <3>1, <3>2, <3>3, <3>4, TypeMoveHasTarget
             DEF ReleaseReservation
  <2>5. CASE CloseExplicit(r)
    BY <2>1, <2>3, <2>5, TypeMoveHasTarget DEF CloseExplicit, Forget
  <2> QED  BY <1>14, <2>4, <2>5
<1> QED
  BY <1>1, <1>3, <1>4, <1>5, <1>6, <1>7, <1>8, <1>9, <1>10, <1>11, <1>12, <1>13, <1>14,
     <1>15, <1>16, <1>17, <1>18, <1>19
  DEF RunStep, Advance

LEMMA TypeRequestStep ==
    ASSUME TypeInv, RequestStep
    PROVE  TypeInv'
<1> TypeOK /\ MoveHasTarget  BY DEF TypeInv
<1> USE DEF TypeInv, TypeOK, rowVars, memoryVars, runVars, historyVars, RequestPhase
<1>1. CASE AbortTurn
  <2>1. /\ request \in Request
        /\ request.proc \in Process /\ request.tasks \in SUBSET Task
    BY <1>1, RequestServed DEF AbortTurn
  <2>2. signals' \in [Process -> SUBSET Task]
    BY <1>1, <2>1, TypeSignals DEF AbortTurn
  <2>3. aborted' \in SUBSET Run
    BY <1>1 DEF AbortTurn
  <2>4. request' \in Request \cup {NoRequest} /\ MoveHasTarget'
    <3>1. CASE request.column = NoColumn
      BY <1>1, <3>1 DEF AbortTurn, MoveHasTarget, Serving, NoRequest
    <3>2. CASE request.column # NoColumn
      BY <1>1, <2>1, <3>2, RequestContinues DEF AbortTurn, MoveHasTarget, Serving
    <3> QED  BY <3>1, <3>2
  <2> QED  BY <1>1, <2>2, <2>3, <2>4 DEF AbortTurn
<1>2. CASE MoveRow
  <2>1. request \in Request /\ request.column \in Column
    BY <1>2, RequestServed DEF MoveRow, MoveHasTarget
  <2>2. request' \in Request /\ MoveHasTarget'
    BY <1>2, <2>1, RequestContinues DEF MoveRow, MoveHasTarget, Serving
  <2> QED  BY <1>2, <2>1, <2>2 DEF MoveRow
<1>3. CASE HaltMark
  <2>1. request \in Request
    BY <1>3, RequestServed DEF HaltMark
  <2>2. request' \in Request /\ MoveHasTarget'
    BY <1>3, <2>1, RequestContinues DEF HaltMark, MoveHasTarget, Serving
  <2>3. stopped' \in [Task -> BOOLEAN] /\ stopAsked' \in [Task -> BOOLEAN]
    BY <1>3 DEF HaltMark
  <2> QED  BY <1>3, <2>2, <2>3 DEF HaltMark
<1>4. CASE HaltClear
  <2>1. request \in Request
    BY <1>4, RequestServed DEF HaltClear
  <2>2. request' \in Request /\ MoveHasTarget'
    BY <1>4, <2>1, RequestContinues DEF HaltClear, MoveHasTarget, Serving
  <2> QED  BY <1>4, <2>2 DEF HaltClear
<1>5. CASE RaiseSignals
  <2>1. request.proc \in Process /\ request.tasks \in SUBSET Task
    BY <1>5, RequestServed DEF RaiseSignals
  <2>2. signals' \in [Process -> SUBSET Task]
    BY <1>5, <2>1, TypeSignals DEF RaiseSignals
  <2>3. MoveHasTarget'
    BY <1>5 DEF RaiseSignals, MoveHasTarget, Serving, NoRequest
  <2> QED  BY <1>5, <2>2, <2>3 DEF RaiseSignals
<1>6. CASE UnstopRow
  BY <1>6 DEF UnstopRow, MoveHasTarget, Serving, NoRequest
<1> QED  BY <1>1, <1>2, <1>3, <1>4, <1>5, <1>6 DEF RequestStep

LEMMA TypeStopRow ==
    ASSUME TypeOK, NEW t \in Task, StopRow(t)
    PROVE  /\ runner' \in [Task -> Agent \cup {NoAgent}]
           /\ heartbeat' \in [Task -> {"none", "fresh", "stale"}]
           /\ stopped' \in [Task -> BOOLEAN] /\ stopAsked' \in [Task -> BOOLEAN]
<1>1. NoClaim(t)  BY DEF StopRow
<1> QED  BY <1>1, TypeNoClaim DEF StopRow, TypeOK

(* What a request starts with. *)
LEMMA TypeAsked ==
    ASSUME TypeInv, NEW p \in Process, NEW t \in Task
    PROVE  /\ Stop(p, t) => TypeInv'
           /\ \A c \in Column : Move(p, t, c) => TypeInv'
           /\ \A a \in Agent : Halt(p, a) => TypeInv'
           /\ ClearStopped(p, t) => TypeInv'
           /\ DropDeleted(p, t) => TypeInv'
           /\ Delete(t) => TypeInv'
           /\ HardDelete(t) => TypeInv'
           /\ Restore(t) => TypeInv'
<1> TypeOK /\ MoveHasTarget  BY DEF TypeInv
<1> USE DEF TypeInv, TypeOK, rowVars, memoryVars, runVars, historyVars, RequestPhase
<1>1. ASSUME Stop(p, t)  PROVE TypeInv'
  <2>1. request' \in Request /\ MoveHasTarget'
    BY <1>1, RequestStarts DEF Stop, MoveHasTarget, Serving
  <2> QED  BY <1>1, <2>1, TypeStopRow DEF Stop
<1>2. ASSUME NEW c \in Column, Move(p, t, c)  PROVE TypeInv'
  <2>1. c # NoColumn
    BY ConstantsAssumption
  <2>2. request' \in Request /\ MoveHasTarget'
    <3>1. /\ NoAgent \in Agent \cup {NoAgent} /\ {t} \in SUBSET Task
          /\ c \in Column \cup {NoColumn}
      OBVIOUS
    <3>2. CASE Serve("abort", p, NoAgent, {t}, c)
      <4>1. request' \in Request /\ request'.phase = "abort"
        BY <3>1, <3>2, RequestStarts
      <4> QED  BY <4>1 DEF MoveHasTarget, Serving
    <3>3. CASE Serve("move", p, NoAgent, {t}, c)
      <4> HIDE DEF TypeInv, TypeOK
      <4>1. request' \in Request /\ request'.column = c
        BY <3>1, <3>3, RequestStarts
      <4>2. request'.column # NoColumn
        BY <2>1, <4>1
      <4> QED  BY <4>1, <4>2 DEF MoveHasTarget, Serving
    <3> QED  BY <1>2, <3>2, <3>3 DEF Move
  <2>3. /\ runner' \in [Task -> Agent \cup {NoAgent}]
        /\ heartbeat' \in [Task -> {"none", "fresh", "stale"}]
        /\ stopped' \in [Task -> BOOLEAN] /\ stopAsked' \in [Task -> BOOLEAN]
    BY <1>2, TypeStopRow DEF Move
  <2> QED  BY <1>2, <2>2, <2>3 DEF Move
<1>3. ASSUME NEW a \in Agent, Halt(p, a)  PROVE TypeInv'
  <2>1. PICK assigned \in SUBSET Task :
          Serve("mark", p, a,
                {u \in Task : \/ \E r \in Run : agentRuns[p][a] = r /\ Tsk(r) = u
                              \/ runner[u] = a
                              \/ u \in assigned} \ {u \in Task : deleted[u]},
                NoColumn)
    BY <1>3 DEF Halt
  <2>2. request' \in Request /\ request'.phase = "mark"
    BY <2>1, RequestStarts
  <2>3. MoveHasTarget'
    BY <2>2 DEF MoveHasTarget, Serving
  <2>4. aborted' \in SUBSET Run
    BY <1>3 DEF Halt
  <2> QED  BY <1>3, <2>2, <2>3, <2>4 DEF Halt
<1>4. ASSUME Delete(t)  PROVE TypeInv'
  BY <1>4, TypeMoveHasTarget DEF Delete
<1>5. ASSUME Restore(t)  PROVE TypeInv'
  BY <1>5, TypeNoClaim, TypeMoveHasTarget DEF Restore
<1>6. ASSUME ClearStopped(p, t)  PROVE TypeInv'
  <2>1. /\ "unstop" \in RequestPhase /\ NoAgent \in Agent \cup {NoAgent}
        /\ {t} \in SUBSET Task /\ NoColumn \in Column \cup {NoColumn}
    OBVIOUS
  <2>2. request' \in Request /\ request'.phase = "unstop"
    BY <1>6, <2>1, RequestStarts DEF ClearStopped
  <2>3. MoveHasTarget'
    BY <2>2 DEF MoveHasTarget, Serving
  <2>4. signals' \in [Process -> SUBSET Task] /\ dropped' \in SUBSET Run
    BY <1>6, <2>1, TypeDrop DEF ClearStopped
  <2> QED  BY <1>6, <2>2, <2>3, <2>4 DEF ClearStopped
<1>7. ASSUME HardDelete(t)  PROVE TypeInv'
  BY <1>7, TypeNoClaim, TypeMoveHasTarget DEF HardDelete
<1>8. ASSUME DropDeleted(p, t)  PROVE TypeInv'
  <2>1. signals' \in [Process -> SUBSET Task] /\ dropped' \in SUBSET Run
    BY <1>8, TypeDrop DEF DropDeleted
  <2> QED  BY <1>8, <2>1, TypeMoveHasTarget DEF DropDeleted
<1> QED  BY <1>1, <1>2, <1>3, <1>4, <1>5, <1>6, <1>7, <1>8

(* What nobody asked for: another agent's move, time, the healer, a crash.  *)
LEMMA TypeEnvironment ==
    ASSUME TypeInv, NEW p \in Process, NEW t \in Task
    PROVE  /\ \A c \in Column : AgentMoves(t, c) => TypeInv'
           /\ Age(t) => TypeInv'
           /\ Heal(p, t) => TypeInv'
           /\ PurgeSignals(p) => TypeInv'
           /\ Restart(p) => TypeInv'
           /\ \A a \in Agent : TerminalPrints(a) \/ TerminalQuiet(a) => TypeInv'
<1> TypeOK /\ MoveHasTarget  BY DEF TypeInv
<1> USE DEF TypeInv, TypeOK, rowVars, memoryVars, runVars, historyVars, RequestPhase
<1>1. ASSUME NEW c \in Column, AgentMoves(t, c)  PROVE TypeInv'
  BY <1>1, TypeMoveHasTarget DEF AgentMoves
<1>2. ASSUME Age(t)  PROVE TypeInv'
  BY <1>2, TypeMoveHasTarget DEF Age
<1>3. ASSUME Heal(p, t)  PROVE TypeInv'
  BY <1>3, TypeNoClaim, TypeMoveHasTarget DEF Heal
<1>4. ASSUME Restart(p)  PROVE TypeInv'
  <2> DEFINE dead == {r \in Run : pc[r] # "idle" /\ Proc(r) = p}
  <2>1. pc' = [r \in Run |-> IF r \in dead THEN "idle" ELSE pc[r]] /\ Forget(dead)
    BY <1>4 DEF Restart
  <2>2. owner' = [u \in Task |-> IF owner[u] \in dead THEN NoRun ELSE owner[u]]
    BY <1>4 DEF Restart
  <2> HIDE DEF dead
  <2>3. pc' \in [Run -> Phase]
    BY <2>1 DEF Phase
  <2>4. /\ job' \in [Run -> Job \cup {NoJob}]
        /\ \A r \in Run : pc'[r] # "idle" => job'[r] \in Job
    BY <2>1 DEF Forget
  <2>5. told' \in [Run -> BOOLEAN] /\ aborted' \in SUBSET Run /\ dropped' \in SUBSET Run
    BY <2>1 DEF Forget
  <2>6. owner' \in [Task -> Run \cup {NoRun}]
    BY <2>2
  <2>7. request' \in Request \cup {NoRequest} /\ MoveHasTarget'
    <3>1. request' = request \/ request' = NoRequest
      BY <1>4 DEF Restart
    <3> QED  BY <3>1 DEF MoveHasTarget, Serving, NoRequest
  <2>8. /\ agentRuns' = [agentRuns EXCEPT ![p] = [a \in Agent |-> NoRun]]
        /\ taskRuns' = [taskRuns EXCEPT ![p] = {}]
        /\ signals' = [signals EXCEPT ![p] = {}]
    BY <1>4 DEF Restart
  <2>9. [a \in Agent |-> NoRun] \in [Agent -> Run \cup {NoRun}]
    OBVIOUS
  <2>10. /\ agentRuns' \in [Process -> [Agent -> Run \cup {NoRun}]]
         /\ taskRuns' \in [Process -> SUBSET Task]
         /\ signals' \in [Process -> SUBSET Task]
    BY <2>8, <2>9
  <2> QED  BY <1>4, <2>3, <2>4, <2>5, <2>6, <2>7, <2>10 DEF Restart
<1>5. ASSUME PurgeSignals(p)  PROVE TypeInv'
  <2>1. PICK T \in SUBSET Task : DropSignals(p, T)
    BY <1>5 DEF PurgeSignals
  <2>2. signals' \in [Process -> SUBSET Task] /\ dropped' \in SUBSET Run
    BY <2>1, TypeDrop
  <2> QED  BY <1>5, <2>2, TypeMoveHasTarget DEF PurgeSignals
<1>6. ASSUME NEW a \in Agent, TerminalPrints(a) \/ TerminalQuiet(a)  PROVE TypeInv'
  BY <1>6, TypeMoveHasTarget DEF TerminalPrints, TerminalQuiet
<1> QED  BY <1>1, <1>2, <1>3, <1>4, <1>5, <1>6

LEMMA TypeStep == TypeInv /\ [Next]_vars => TypeInv'
<1> SUFFICES ASSUME TypeInv, [Next]_vars  PROVE TypeInv'
  OBVIOUS
<1>1. CASE \E r \in Run : RunStep(r)
  BY <1>1, TypeRunStep
<1>2. CASE \E r \in Run, p \in Process, a \in Agent, t \in Task : Dispatch(r, p, a, t)
  BY <1>2, TypeDispatch
<1>3. CASE RequestStep
  BY <1>3, TypeRequestStep
<1>4. CASE UserAsks
  <2>1. CASE \E r \in Run, p \in Process, a \in Agent, t \in Task, c \in Column :
               \E mode \in {"resume", "explicit"} : Execute(r, p, a, t, c, mode)
    BY <2>1, TypeDispatch
  <2>2. CASE \E p \in Process, t \in Task :
               Stop(p, t) \/ ClearStopped(p, t) \/ DropDeleted(p, t)
    BY <2>2, TypeAsked
  <2>3. CASE \E p \in Process, t \in Task, c \in Column : Move(p, t, c)
    BY <2>3, TypeAsked
  <2>4. CASE \E p \in Process, a \in Agent : Halt(p, a)
    BY <2>4, TypeAsked, ConstantsAssumption
  <2>5. CASE \E t \in Task : Delete(t) \/ HardDelete(t) \/ Restore(t)
    BY <2>5, TypeAsked, ConstantsAssumption
  <2> QED  BY <1>4, <2>1, <2>2, <2>3, <2>4, <2>5 DEF UserAsks
<1>5. CASE \E t \in Task, c \in Column : AgentMoves(t, c)
  BY <1>5, TypeEnvironment, ConstantsAssumption
<1>6. CASE \E t \in Task : Age(t)
  BY <1>6, TypeEnvironment, ConstantsAssumption
<1>7. CASE \E p \in Process, t \in Task : Heal(p, t)
  BY <1>7, TypeEnvironment
<1>8. CASE \E p \in Process : PurgeSignals(p) \/ Restart(p)
  BY <1>8, TypeEnvironment, ConstantsAssumption
<1>10. CASE \E a \in Agent : TerminalPrints(a) \/ TerminalQuiet(a)
  BY <1>10, TypeEnvironment, ConstantsAssumption
<1>9. CASE UNCHANGED vars
  BY <1>9 DEF vars, rowVars, memoryVars, runVars, historyVars, TypeInv, TypeOK,
              MoveHasTarget, Serving
<1> QED  BY <1>1, <1>2, <1>3, <1>4, <1>5, <1>6, <1>7, <1>8, <1>9, <1>10 DEF Next

LEMMA TypeAlways == Spec => []TypeInv
  BY TypeInit, TypeStep, PTL DEF Spec

(* Every variable keeps its type (the rows, the memory of the processes,     *)
(* the runs), and a run that is not idle always has its job: whatever users, *)
(* crashes and lost replies do to the code of the run claims.                *)
THEOREM TypeCorrect == Spec => []TypeOK
<1>1. TypeInv => TypeOK
  BY DEF TypeInv
<1> QED  BY <1>1, TypeAlways, PTL

-------------------------------------------------------------------------------
(* The claims: what a step does to the leases they stand for. *)

Live(t) == runner[t] # NoAgent /\ ~deleted[t]

LeasesKept ==
    \A u \in Task : /\ Live(u)' <=> Live(u)
                    /\ Live(u) => runner'[u] = runner[u]

LeaseEnded(t) ==
    /\ Live(t) /\ ~Live(t)'
    /\ \A u \in Task \ {t} : /\ Live(u)' <=> Live(u)
                             /\ Live(u) => runner'[u] = runner[u]

LeaseGranted(a, t) ==
    /\ ~Live(t) /\ Live(t)' /\ runner'[t] = a
    /\ \A u \in Task : Live(u) => runner[u] # a
    /\ \A u \in Task \ {t} : /\ Live(u)' <=> Live(u)
                             /\ Live(u) => runner'[u] = runner[u]

LeaseEffect ==
    \/ LeasesKept
    \/ \E t \in Task : LeaseEnded(t)
    \/ \E a \in Agent, t \in Task : LeaseGranted(a, t)

LEMMA ClaimIsLease ==
    ASSUME TypeOK, NEW r \in Run, TakeClaim(r)
    PROVE  LeaseEffect
<1>1. Tsk(r) \in Task /\ Agt(r) \in Agent
  BY RunIsPlaced DEF TakeClaim
<1>2. PICK t \in Task, a \in Agent : t = Tsk(r) /\ a = Agt(r)
  BY <1>1
<1>3. /\ ~deleted[t] /\ runner[t] = NoAgent
      /\ \A u \in Task : runner[u] = a => deleted[u]
      /\ runner' = [runner EXCEPT ![t] = a] /\ deleted' = deleted
  BY <1>2 DEF TakeClaim, Claimable
<1>4. LeaseGranted(a, t)
  BY <1>2, <1>3, ConstantsAssumption DEF LeaseGranted, Live, TypeOK
<1> QED  BY <1>4 DEF LeaseEffect

LEMMA NoClaimEndsLease ==
    ASSUME TypeOK, NEW t \in Task, NoClaim(t), UNCHANGED deleted
    PROVE  LeaseEffect
<1>1. CASE Live(t)
  <2>1. LeaseEnded(t)
    BY <1>1 DEF NoClaim, LeaseEnded, Live, TypeOK
  <2> QED  BY <2>1 DEF LeaseEffect
<1>2. CASE ~Live(t)
  <2>1. LeasesKept
    BY <1>2 DEF NoClaim, LeasesKept, Live, TypeOK
  <2> QED  BY <2>1 DEF LeaseEffect
<1> QED  BY <1>1, <1>2

LEMMA RowsKeepLeases ==
    ASSUME UNCHANGED <<runner, deleted>>
    PROVE  LeaseEffect
  BY DEF LeaseEffect, LeasesKept, Live

LEMMA LeaseOfRunStep ==
    ASSUME TypeOK, NEW r \in Run, RunStep(r)
    PROVE  LeaseEffect
<1> USE DEF rowVars
<1>1. CASE TakeClaim(r)
  BY <1>1, ClaimIsLease
<1>2. CASE ReleaseClaim(r)
  <2>1. Tsk(r) \in Task
    BY <1>2, RunIsPlaced DEF ReleaseClaim
  <2> QED  BY <1>2, <2>1, NoClaimEndsLease, RowsKeepLeases DEF ReleaseClaim
<1>3. CASE \/ ClaimRefused(r) \/ Prompt(r) \/ CancelBeforePrompt(r)
           \/ Drained(r) \/ ReleaseReservation(r) \/ CloseExplicit(r)
  BY <1>3, RowsKeepLeases
  DEF ClaimRefused, Prompt, CancelBeforePrompt, Drained, ReleaseReservation, CloseExplicit
<1>5. CASE \/ ReserveAsked(r) \/ PrepareRow(r) \/ ForgetSignal(r) \/ ForgetStop(r)
           \/ AskEnds(r) \/ TurnEnds(r)
  BY <1>5, RowsKeepLeases
  DEF ReserveAsked, PrepareRow, ForgetSignal, ForgetStop, AskEnds, TurnEnds
<1>4. CASE \/ GiveUpBeforeClaim(r) \/ Heartbeat(r) \/ HeartbeatLost(r) \/ Verdict(r)
           \/ Finish(r) \/ Fail(r) \/ AbortedTurnEnds(r) \/ ReleaseFails(r)
  BY <1>4, RowsKeepLeases
  DEF GiveUpBeforeClaim, Heartbeat, HeartbeatLost, Verdict, Finish, Fail,
      AbortedTurnEnds, ReleaseFails
<1> QED  BY <1>1, <1>2, <1>3, <1>4, <1>5 DEF RunStep, Advance, Claim, ClaimUnconfirmed

(* An agent's Halt clears every claim of the agent: at most one of them is  *)
(* a live row's.                                                            *)
LEMMA LeaseOfHaltClear ==
    ASSUME TypeOK, ClaimExclusive, HaltClear
    PROVE  LeaseEffect
<1>1. /\ \A u \in Task : runner[u] = request.agent => runner'[u] = NoAgent
      /\ \A u \in Task : runner[u] # request.agent => runner'[u] = runner[u]
      /\ deleted' = deleted
  BY DEF HaltClear, TypeOK
<1>2. CASE \E t \in Task : Live(t) /\ runner[t] = request.agent
  <2>1. PICK t \in Task : Live(t) /\ runner[t] = request.agent
    BY <1>2
  <2>2. \A u \in Task \ {t} : Live(u) => runner[u] # request.agent
    BY <2>1 DEF Live, ClaimExclusive
  <2>3. LeaseEnded(t)
    BY <1>1, <2>1, <2>2 DEF LeaseEnded, Live
  <2> QED  BY <2>3 DEF LeaseEffect
<1>3. CASE ~ \E t \in Task : Live(t) /\ runner[t] = request.agent
  <2>1. LeasesKept
    BY <1>1, <1>3 DEF LeasesKept, Live
  <2> QED  BY <2>1 DEF LeaseEffect
<1> QED  BY <1>2, <1>3

LEMMA LeaseOfDelete ==
    ASSUME TypeOK, NEW t \in Task
    PROVE  /\ Delete(t) => LeaseEffect
           /\ HardDelete(t) => LeaseEffect
           /\ Restore(t) => LeaseEffect
<1>1. ASSUME Delete(t)  PROVE LeaseEffect
  <2>1. runner' = runner /\ deleted' = [deleted EXCEPT ![t] = TRUE] /\ ~deleted[t]
    BY <1>1 DEF Delete
  <2>2. CASE Live(t)
    <3>1. LeaseEnded(t)
      BY <2>1, <2>2 DEF LeaseEnded, Live, TypeOK
    <3> QED  BY <3>1 DEF LeaseEffect
  <2>3. CASE ~Live(t)
    <3>1. LeasesKept
      BY <2>1, <2>3 DEF LeasesKept, Live, TypeOK
    <3> QED  BY <3>1 DEF LeaseEffect
  <2> QED  BY <2>2, <2>3
<1>2. ASSUME Restore(t)  PROVE LeaseEffect
  <2>1. LeasesKept
    BY <1>2 DEF Restore, NoClaim, LeasesKept, Live, TypeOK
  <2> QED  BY <2>1 DEF LeaseEffect
<1>3. ASSUME HardDelete(t)  PROVE LeaseEffect
  <2>1. CASE Live(t)
    <3>1. LeaseEnded(t)
      BY <1>3, <2>1 DEF HardDelete, NoClaim, LeaseEnded, Live, TypeOK
    <3> QED  BY <3>1 DEF LeaseEffect
  <2>2. CASE ~Live(t)
    <3>1. LeasesKept
      BY <1>3, <2>2 DEF HardDelete, NoClaim, LeasesKept, Live, TypeOK
    <3> QED  BY <3>1 DEF LeaseEffect
  <2> QED  BY <2>1, <2>2
<1> QED  BY <1>1, <1>2, <1>3

LEMMA LeaseOfStep ==
    ASSUME TypeOK, ClaimExclusive, [Next]_vars
    PROVE  LeaseEffect
<1> USE DEF rowVars
<1>1. CASE \E r \in Run : RunStep(r)
  BY <1>1, LeaseOfRunStep
<1>2. CASE \E r \in Run, p \in Process, a \in Agent, t \in Task : Dispatch(r, p, a, t)
  BY <1>2, RowsKeepLeases DEF Dispatch, ReserveForAction, ReserveForResume
<1>3. CASE RequestStep
  <2>1. CASE HaltClear
    BY <2>1, LeaseOfHaltClear
  <2>2. CASE AbortTurn \/ MoveRow \/ HaltMark \/ RaiseSignals \/ UnstopRow
    BY <2>2, RowsKeepLeases DEF AbortTurn, MoveRow, HaltMark, RaiseSignals, UnstopRow
  <2> QED  BY <1>3, <2>1, <2>2 DEF RequestStep
<1>4. CASE UserAsks
  <2>1. CASE \/ \E r \in Run, p \in Process, a \in Agent, t \in Task, c \in Column :
                  \E mode \in {"resume", "explicit"} : Execute(r, p, a, t, c, mode)
             \/ \E p \in Process, t \in Task : ClearStopped(p, t) \/ DropDeleted(p, t)
             \/ \E p \in Process, a \in Agent : Halt(p, a)
    BY <2>1, RowsKeepLeases DEF Execute, ClearStopped, DropDeleted, Halt
  <2>2. ASSUME NEW p \in Process, NEW t \in Task, Stop(p, t)  PROVE LeaseEffect
    BY <2>2, NoClaimEndsLease DEF Stop, StopRow
  <2>3. ASSUME NEW p \in Process, NEW t \in Task, NEW c \in Column, Move(p, t, c)
        PROVE  LeaseEffect
    BY <2>3, NoClaimEndsLease, RowsKeepLeases DEF Move, StopRow
  <2> QED  BY <1>4, <2>1, <2>2, <2>3, LeaseOfDelete, ConstantsAssumption DEF UserAsks
<1>5. CASE \E p \in Process, t \in Task : Heal(p, t)
  BY <1>5, NoClaimEndsLease DEF Heal
<1>6. CASE \/ \E t \in Task, c \in Column : AgentMoves(t, c)
           \/ \E t \in Task : Age(t)
           \/ \E a \in Agent : TerminalPrints(a) \/ TerminalQuiet(a)
           \/ \E p \in Process : PurgeSignals(p) \/ Restart(p)
  BY <1>6, RowsKeepLeases DEF AgentMoves, Age, TerminalPrints, TerminalQuiet, PurgeSignals, Restart
<1>7. CASE UNCHANGED vars
  BY <1>7, RowsKeepLeases DEF vars
<1> QED  BY <1>1, <1>2, <1>3, <1>4, <1>5, <1>6, <1>7 DEF Next

LEMMA ExclusiveStep ==
    ASSUME TypeOK, ClaimExclusive, [Next]_vars
    PROVE  ClaimExclusive'
<1>1. LeaseEffect
  BY LeaseOfStep
<1>2. CASE LeasesKept
  BY <1>2 DEF LeasesKept, Live, ClaimExclusive
<1>3. ASSUME NEW t \in Task, LeaseEnded(t)  PROVE ClaimExclusive'
  BY <1>3 DEF LeaseEnded, Live, ClaimExclusive
<1>4. ASSUME NEW a \in Agent, NEW t \in Task, LeaseGranted(a, t)  PROVE ClaimExclusive'
  BY <1>4 DEF LeaseGranted, Live, ClaimExclusive
<1> QED  BY <1>1, <1>2, <1>3, <1>4 DEF LeaseEffect

(* No agent holds two claims over the live rows, whatever the processes do   *)
(* and however many of them crash (claimTaskRun, uniq_tasks_running_agent,   *)
(* restoreTaskFromDb).                                                       *)
THEOREM ClaimsExclusive == Spec => []ClaimExclusive
<1>1. Init => ClaimExclusive
  BY DEF Init, ClaimExclusive
<1>2. TypeInv /\ ClaimExclusive /\ [Next]_vars => ClaimExclusive'
  BY ExclusiveStep DEF TypeInv
<1> QED  BY <1>1, <1>2, TypeAlways, PTL DEF Spec

(* The set AgentLease speaks of. *)
Leases == {<<runner[t], t>> : t \in {u \in Task : runner[u] # NoAgent /\ ~deleted[u]}}

LEMMA LeasesAre == Leases = {<<runner[t], t>> : t \in {u \in Task : Live(u)}}
  BY DEF Leases, Live

LEMMA EffectOnLeases ==
    ASSUME TypeOK, LeaseEffect
    PROVE  \/ Leases' = Leases
           \/ \E l \in Leases : Leases' = Leases \ {l}
           \/ \E a \in Agent, t \in Task :
                /\ \A l \in Leases : l[1] # a /\ l[2] # t
                /\ Leases' = Leases \cup {<<a, t>>}
<1> DEFINE L  == {u \in Task : Live(u)}
           LL == {u \in Task : Live(u)'}
<1>1. Leases = {<<runner[t], t>> : t \in L} /\ Leases' = {<<runner'[t], t>> : t \in LL}
  BY DEF Leases, Live
<1>2. CASE LeasesKept
  <2>1. L = LL /\ \A t \in L : runner'[t] = runner[t]
    BY <1>2 DEF LeasesKept
  <2> HIDE DEF L, LL
  <2> QED  BY <1>1, <2>1
<1>3. ASSUME NEW t \in Task, LeaseEnded(t)
      PROVE  <<runner[t], t>> \in Leases /\ Leases' = Leases \ {<<runner[t], t>>}
  <2>1. t \in L /\ LL = L \ {t} /\ \A u \in LL : runner'[u] = runner[u]
    BY <1>3 DEF LeaseEnded
  <2> HIDE DEF L, LL
  <2> QED  BY <1>1, <2>1
<1>4. ASSUME NEW a \in Agent, NEW t \in Task, LeaseGranted(a, t)
      PROVE  /\ \A l \in Leases : l[1] # a /\ l[2] # t
             /\ Leases' = Leases \cup {<<a, t>>}
  <2>1. /\ t \notin L /\ LL = L \cup {t} /\ runner'[t] = a
        /\ \A u \in L : runner'[u] = runner[u] /\ runner[u] # a
    BY <1>4 DEF LeaseGranted
  <2> HIDE DEF L, LL
  <2> QED  BY <1>1, <2>1
<1> QED  BY <1>2, <1>3, <1>4 DEF LeaseEffect

(* The claims in the table are leases: each step of the code grants one      *)
(* lease whose agent and task are free, or ends one, or touches none, with   *)
(* every process, Stop, Halt, deletion and healer at work.                   *)
THEOREM ClaimsAreLeases == Spec => LeaseSpec
<1>1. Init => Lease!Init
  BY DEF Init, Lease!Init
<1>2. TypeInv /\ ClaimExclusive /\ [Next]_vars => [Lease!Next]_Leases
  <2> SUFFICES ASSUME TypeInv, ClaimExclusive, [Next]_vars
               PROVE  [Lease!Next]_Leases
    OBVIOUS
  <2>1. TypeOK /\ LeaseEffect
    BY LeaseOfStep DEF TypeInv
  <2>2. \/ Leases' = Leases
        \/ \E l \in Leases : Leases' = Leases \ {l}
        \/ \E a \in Agent, t \in Task :
             /\ \A l \in Leases : l[1] # a /\ l[2] # t
             /\ Leases' = Leases \cup {<<a, t>>}
    BY <2>1, EffectOnLeases
  <2> QED  BY <2>2 DEF Leases, Lease!Next, Lease!End, Lease!Grant, Lease!Available
<1>3. Spec => [](TypeInv /\ ClaimExclusive)
  BY TypeAlways, ClaimsExclusive, PTL
<1> QED  BY <1>1, <1>2, <1>3, PTL DEF Spec, LeaseSpec, Lease!Spec, Leases

-------------------------------------------------------------------------------
(* The reservations. *)

(* ReservationExclusive is inductive once it says where an entry of         *)
(* _agentRuns comes from, and that a run is told nothing before it claims.  *)
EntriesAreRuns ==
    \A p \in Process, a \in Agent, r \in Run :
        agentRuns[p][a] = r => Reserved(r) /\ Proc(r) = p /\ Agt(r) = a

ReservationInv == ReservationExclusive /\ EntriesAreRuns

SameRun(r) ==
    /\ Reserved(r)' <=> Reserved(r)
    /\ Reserved(r) => Proc(r)' = Proc(r) /\ Agt(r)' = Agt(r) /\ Tsk(r)' = Tsk(r)

ReservationsKept ==
    /\ UNCHANGED <<agentRuns, taskRuns>>
    /\ \A r \in Run : SameRun(r)

ReservationTaken(r, p, a, t) ==
    /\ ~Reserved(r) /\ Reserved(r)'
    /\ Proc(r)' = p /\ Agt(r)' = a /\ Tsk(r)' = t
    /\ CanReserve(p, a, t)
    /\ agentRuns' = [agentRuns EXCEPT ![p] = [agentRuns[p] EXCEPT ![a] = r]]
    /\ taskRuns' = [taskRuns EXCEPT ![p] = taskRuns[p] \cup {t}]
    /\ \A s \in Run \ {r} : SameRun(s)

(* The end of a run that holds a reservation. *)
ReservationFreed(r) ==
    /\ Reserved(r) /\ ~Reserved(r)'
    /\ CloseReservation(r)
    /\ \A s \in Run \ {r} : SameRun(s)

ReservationsLost(p) ==
    /\ agentRuns' = [agentRuns EXCEPT ![p] = [a \in Agent |-> NoRun]]
    /\ taskRuns' = [taskRuns EXCEPT ![p] = {}]
    /\ \A r \in Run : IF Reserved(r) /\ Proc(r) = p THEN ~Reserved(r)' ELSE SameRun(r)

ReservationEffect ==
    \/ ReservationsKept
    \/ \E r \in Run, p \in Process, a \in Agent, t \in Task : ReservationTaken(r, p, a, t)
    \/ \E r \in Run : ReservationFreed(r)
    \/ \E p \in Process : ReservationsLost(p)

LEMMA KeptByRows ==
    ASSUME UNCHANGED <<agentRuns, taskRuns, pc, job>>
    PROVE  ReservationEffect
  BY DEF ReservationEffect, ReservationsKept, SameRun, Reserved, Proc, Agt, Tsk

LEMMA KeptByPhase ==
    ASSUME TypeOK, NEW r \in Run, UNCHANGED <<agentRuns, taskRuns, job>>,
           Reserved(r), NEW phase \in Phase \ (Asking \cup {"idle", "closing"}),
           pc' = [pc EXCEPT ![r] = phase]
    PROVE  ReservationEffect
<1>1. ReservationsKept
  BY DEF ReservationsKept, SameRun, Reserved, Proc, Agt, Tsk, TypeOK
<1> QED  BY <1>1 DEF ReservationEffect

(* An executeTask that has reserved nothing yet may begin, go on or end.    *)
LEMMA KeptByAsking ==
    ASSUME TypeOK, NEW r \in Run, UNCHANGED <<agentRuns, taskRuns>>,
           ~Reserved(r), NEW phase \in Asking \cup {"idle"}, pc' = [pc EXCEPT ![r] = phase],
           \A s \in Run \ {r} : job'[s] = job[s]
    PROVE  ReservationEffect
<1>1. ReservationsKept
  BY DEF ReservationsKept, SameRun, Reserved, Proc, Agt, Tsk, TypeOK
<1> QED  BY <1>1 DEF ReservationEffect

LEMMA TakenByReserve ==
    ASSUME TypeOK, NEW r \in Run, NEW p \in Process, NEW a \in Agent, NEW t \in Task,
           Reserve(r, p, a, t), ~Reserved(r),
           job'[r].proc = p, job'[r].agent = a, job'[r].task = t,
           \A s \in Run \ {r} : job'[s] = job[s],
           NEW phase \in {"preparing", "reserved"}, pc' = [pc EXCEPT ![r] = phase]
    PROVE  ReservationEffect
<1>3. pc'[r] = phase /\ \A s \in Run \ {r} : pc'[s] = pc[s]
  BY DEF TypeOK
<1>4. Reserved(r)' /\ Proc(r)' = p /\ Agt(r)' = a /\ Tsk(r)' = t
  BY <1>3 DEF Reserved, Asking, Proc, Agt, Tsk
<1>5. \A s \in Run \ {r} : SameRun(s)
  BY <1>3 DEF SameRun, Reserved, Proc, Agt, Tsk
<1>6. /\ CanReserve(p, a, t)
      /\ agentRuns' = [agentRuns EXCEPT ![p] = [agentRuns[p] EXCEPT ![a] = r]]
      /\ taskRuns' = [taskRuns EXCEPT ![p] = taskRuns[p] \cup {t}]
  BY DEF Reserve
<1>7. ReservationTaken(r, p, a, t)
  BY <1>4, <1>5, <1>6 DEF ReservationTaken
<1> QED  BY <1>7 DEF ReservationEffect

(* A prompt moves the column its run waits on, nothing else of its job.     *)
LEMMA PromptKeepsPlace ==
    ASSUME TypeOK, NEW r \in Run, job[r] \in Job, Prompt(r) \/ TurnEnds(r)
    PROVE  \A s \in Run : Proc(s)' = Proc(s) /\ Agt(s)' = Agt(s) /\ Tsk(s)' = Tsk(s)
<1>1. ASSUME NEW j, job' = [job EXCEPT ![r] = j],
             j.proc = job[r].proc, j.agent = job[r].agent, j.task = job[r].task
      PROVE  \A s \in Run : Proc(s)' = Proc(s) /\ Agt(s)' = Agt(s) /\ Tsk(s)' = Tsk(s)
  BY <1>1 DEF Proc, Agt, Tsk, TypeOK
<1>2. CASE Prompt(r)
  <2>1. PICK terminal \in BOOLEAN :
          job' = [job EXCEPT ![r] = [job[r] EXCEPT !.terminal = terminal,
                                                   !.column = status[Tsk(r)]]]
    BY <1>2 DEF Prompt
  <2> DEFINE j == [job[r] EXCEPT !.terminal = terminal, !.column = status[Tsk(r)]]
  <2>2. /\ j.proc = job[r].proc /\ j.agent = job[r].agent /\ j.task = job[r].task
        /\ job' = [job EXCEPT ![r] = j]
    BY <2>1 DEF Job
  <2> HIDE DEF j
  <2> QED  BY <1>1, <2>2
<1>3. CASE TurnEnds(r)
  <2> DEFINE j == [job[r] EXCEPT !.column = status[Tsk(r)]]
  <2>1. /\ j.proc = job[r].proc /\ j.agent = job[r].agent /\ j.task = job[r].task
        /\ job' = job \/ job' = [job EXCEPT ![r] = j]
    BY <1>3 DEF TurnEnds, Job
  <2> HIDE DEF j
  <2>2. CASE job' = job
    BY <2>2 DEF Proc, Agt, Tsk
  <2> QED  BY <1>1, <2>1, <2>2
<1> QED  BY <1>2, <1>3

LEMMA ReservationOfRunStep ==
    ASSUME TypeInv, ReservationInv, NEW r \in Run, RunStep(r)
    PROVE  ReservationEffect
<1> TypeOK  BY DEF TypeInv
<1> USE DEF rowVars, memoryVars, Phase, Asking
<1>1. CASE ReserveAsked(r)
  <2>1. /\ pc[r] \in Asking /\ job' = job /\ Reserve(r, Proc(r), Agt(r), Tsk(r))
        /\ \E phase \in {"preparing", "reserved"} : pc' = [pc EXCEPT ![r] = phase]
    BY <1>1 DEF ReserveAsked
  <2>2. ~Reserved(r) /\ Proc(r) \in Process /\ Agt(r) \in Agent /\ Tsk(r) \in Task
    BY <2>1, RunIsPlaced DEF Reserved
  <2>3. job'[r].proc = Proc(r) /\ job'[r].agent = Agt(r) /\ job'[r].task = Tsk(r)
    BY <2>1 DEF Proc, Agt, Tsk
  <2> QED  BY <2>1, <2>2, <2>3, TakenByReserve
<1>12. CASE PrepareRow(r)
  BY <1>12, KeptByPhase DEF PrepareRow, Reserved
<1>13. CASE ForgetSignal(r) \/ ForgetStop(r)
  <2>1. CASE pc[r] \in Asking
    <3>1. /\ ~Reserved(r) /\ UNCHANGED <<agentRuns, taskRuns, job>>
          /\ pc' = [pc EXCEPT ![r] = "cleared"] \/ pc' = [pc EXCEPT ![r] = "ready"]
      BY <1>13, <2>1 DEF ForgetSignal, ForgetStop, Reserved
    <3> QED  BY <3>1, KeptByAsking
  <2>2. CASE pc[r] \notin Asking
    <3>1. /\ Reserved(r) /\ UNCHANGED <<agentRuns, taskRuns, job>>
          /\ pc' = [pc EXCEPT ![r] = "resetting"] \/ pc' = [pc EXCEPT ![r] = "reserved"]
      BY <1>13, <2>2 DEF ForgetSignal, ForgetStop, Reserved
    <3> QED  BY <3>1, KeptByPhase
  <2> QED  BY <2>1, <2>2
<1>14. CASE AskEnds(r)
  <2>1. /\ ~Reserved(r) /\ UNCHANGED <<agentRuns, taskRuns>>
        /\ pc' = [pc EXCEPT ![r] = "idle"] /\ \A s \in Run \ {r} : job'[s] = job[s]
    BY <1>14 DEF AskEnds, Forget, Reserved
  <2> QED  BY <2>1, KeptByAsking
<1>2. CASE TakeClaim(r) /\ \E phase \in {"claimed", "ending", "released"} :
                             pc' = [pc EXCEPT ![r] = phase]
  BY <1>2, KeptByPhase DEF TakeClaim, Reserved
<1>3. CASE Claim(r)
  BY <1>2, <1>3 DEF Claim
<1>4. CASE ClaimUnconfirmed(r)
  BY <1>2, <1>4 DEF ClaimUnconfirmed
<1>5. CASE ClaimRefused(r) \/ GiveUpBeforeClaim(r) \/ ReleaseFails(r) \/ ReleaseClaim(r)
  BY <1>5, KeptByPhase DEF ClaimRefused, GiveUpBeforeClaim, ReleaseFails, ReleaseClaim, Reserved
<1>6. CASE Prompt(r) \/ TurnEnds(r)
  <2>1. /\ pc[r] \in {"claimed", "turn"} /\ UNCHANGED <<agentRuns, taskRuns>>
        /\ \E phase \in {"working", "turn", "ending"} : pc' = [pc EXCEPT ![r] = phase]
    BY <1>6 DEF Prompt, TurnEnds
  <2>2. job[r] \in Job
    BY <2>1, RunIsPlaced
  <2>3. \A s \in Run : Proc(s)' = Proc(s) /\ Agt(s)' = Agt(s) /\ Tsk(s)' = Tsk(s)
    BY <1>6, <2>2, PromptKeepsPlace
  <2>4. \A s \in Run : SameRun(s)
    BY <2>1, <2>3 DEF SameRun, Reserved, TypeOK
  <2>5. ReservationsKept
    BY <2>1, <2>4 DEF ReservationsKept
  <2> QED  BY <2>5 DEF ReservationEffect
<1>7. CASE CancelBeforePrompt(r) \/ Finish(r) \/ Drained(r)
  BY <1>7, KeptByPhase DEF CancelBeforePrompt, Finish, Drained, WaitEnds, Reserved
<1>8. CASE Heartbeat(r) \/ HeartbeatLost(r)
  BY <1>8, KeptByRows DEF Heartbeat, HeartbeatLost, runVars
<1>9. CASE Verdict(r) \/ Fail(r) \/ AbortedTurnEnds(r)
  BY <1>9, KeptByPhase DEF Verdict, WaitEnds, Fail, AbortedTurnEnds, Reserved
<1>10. CASE ReleaseReservation(r)
  <2>1. /\ pc[r] = "released" /\ CloseReservation(r)
        /\ pc'[r] \in {"idle", "closing"}
        /\ \A s \in Run \ {r} : pc'[s] = pc[s] /\ job'[s] = job[s]
    BY <1>10 DEF ReleaseReservation, Forget, TypeOK
  <2>2. ReservationFreed(r)
    BY <2>1 DEF ReservationFreed, SameRun, Reserved, Proc, Agt, Tsk
  <2> QED  BY <2>2 DEF ReservationEffect
<1>11. CASE CloseExplicit(r)
  <2>1. /\ pc[r] = "closing" /\ CloseReservation(r) /\ pc'[r] = "idle"
        /\ \A s \in Run \ {r} : pc'[s] = pc[s] /\ job'[s] = job[s]
    BY <1>11 DEF CloseExplicit, Forget, TypeOK
  <2>2. Proc(r) \in Process /\ Agt(r) \in Agent /\ ~Reserved(r)
    BY <2>1, RunIsPlaced DEF Reserved
  <2>3. agentRuns[Proc(r)][Agt(r)] # r
    BY <2>2 DEF ReservationInv, EntriesAreRuns
  <2>4. ReservationsKept
    BY <2>1, <2>2, <2>3 DEF CloseReservation, ReservationsKept, SameRun, Reserved, Proc, Agt, Tsk
  <2> QED  BY <2>4 DEF ReservationEffect
<1> QED
  BY <1>1, <1>3, <1>4, <1>5, <1>6, <1>7, <1>8, <1>9, <1>10, <1>11,
     <1>12, <1>13, <1>14
  DEF RunStep, Advance

LEMMA ReservationOfRestart ==
    ASSUME TypeOK, NEW p \in Process, Restart(p)
    PROVE  ReservationEffect
<1> DEFINE dead == {r \in Run : pc[r] # "idle" /\ Proc(r) = p}
<1>1. /\ \A r \in Run : pc'[r] = IF r \in dead THEN "idle" ELSE pc[r]
      /\ \A r \in Run : job'[r] = IF r \in dead THEN NoJob ELSE job[r]
  BY DEF Restart, Forget
<1>2. \A r \in Run : Reserved(r) /\ Proc(r) = p => ~Reserved(r)'
  BY <1>1 DEF Reserved
<1>3. \A r \in Run : ~(Reserved(r) /\ Proc(r) = p) => SameRun(r)
  BY <1>1 DEF Reserved, SameRun, Proc, Agt, Tsk
<1>4. ReservationsLost(p)
  BY <1>2, <1>3 DEF ReservationsLost, Restart
<1> QED  BY <1>4 DEF ReservationEffect

LEMMA ReservationOfStep ==
    ASSUME TypeInv, ReservationInv, [Next]_vars
    PROVE  ReservationEffect
<1> TypeOK  BY DEF TypeInv
<1> USE DEF memoryVars, runVars
<1>1. CASE \E r \in Run : RunStep(r)
  BY <1>1, ReservationOfRunStep
<1>2. ASSUME NEW r \in Run, NEW p \in Process, NEW a \in Agent, NEW t \in Task,
             Dispatch(r, p, a, t)
      PROVE  ReservationEffect
  <2>1. status[t] \in Column /\ {"workflow", "resume"} \subseteq Mode
    BY DEF TypeOK, Mode
  <2>2. PICK mode \in Mode : Begin(r, p, a, t, status[t], mode) /\ Reserve(r, p, a, t)
    BY <1>2, <2>1 DEF Dispatch, ReserveForAction, ReserveForResume
  <2>3. pc' = [pc EXCEPT ![r] = "reserved"]
    BY <1>2 DEF Dispatch, ReserveForAction, ReserveForResume
  <2>4. ~Reserved(r)
    BY <2>2 DEF Begin, Reserved
  <2>5. /\ job'[r].proc = p /\ job'[r].agent = a /\ job'[r].task = t
        /\ \A s \in Run \ {r} : job'[s] = job[s]
    BY <2>1, <2>2, TypeBegin
  <2> QED  BY <2>2, <2>3, <2>4, <2>5, TakenByReserve
<1>3. CASE RequestStep
  BY <1>3, KeptByRows DEF RequestStep, AbortTurn, MoveRow, HaltMark, HaltClear, RaiseSignals, UnstopRow
<1>4. ASSUME NEW r \in Run, NEW p \in Process, NEW a \in Agent, NEW t \in Task,
             NEW c \in Column, NEW mode \in {"resume", "explicit"}, Execute(r, p, a, t, c, mode)
      PROVE  ReservationEffect
  <2>1. /\ mode \in Mode /\ Begin(r, p, a, t, c, mode) /\ ~Reserved(r)
        /\ UNCHANGED <<agentRuns, taskRuns>> /\ pc' = [pc EXCEPT ![r] = "asked"]
    BY <1>4 DEF Execute, Mode, Begin, Reserved
  <2>2. \A s \in Run \ {r} : job'[s] = job[s]
    BY <2>1, TypeBegin
  <2> QED  BY <2>1, <2>2, KeptByAsking DEF Asking
<1>5. CASE \E p \in Process, t \in Task :
             Stop(p, t) \/ ClearStopped(p, t) \/ DropDeleted(p, t)
  BY <1>5, KeptByRows DEF Stop, ClearStopped, DropDeleted
<1>6. CASE \/ \E p \in Process, t \in Task, c \in Column : Move(p, t, c)
           \/ \E p \in Process, a \in Agent : Halt(p, a)
           \/ \E t \in Task : Delete(t) \/ HardDelete(t) \/ Restore(t)
  BY <1>6, KeptByRows DEF Move, Halt, Delete, HardDelete, Restore
<1>7. CASE \/ \E t \in Task, c \in Column : AgentMoves(t, c)
           \/ \E t \in Task : Age(t)
           \/ \E a \in Agent : TerminalPrints(a) \/ TerminalQuiet(a)
           \/ \E p \in Process, t \in Task : Heal(p, t)
           \/ \E p \in Process : PurgeSignals(p)
  BY <1>7, KeptByRows DEF AgentMoves, Age, TerminalPrints, TerminalQuiet, Heal, PurgeSignals
<1>8. CASE \E p \in Process : Restart(p)
  BY <1>8, ReservationOfRestart
<1>9. CASE UNCHANGED vars
  BY <1>9, KeptByRows DEF vars
<1> QED  BY <1>1, <1>2, <1>3, <1>4, <1>5, <1>6, <1>7, <1>8, <1>9 DEF Next, UserAsks

LEMMA ReservationInvKept ==
    ASSUME TypeOK, ReservationInv, ReservationsKept
    PROVE  ReservationInv'
<1> USE DEF ReservationInv, ReservationsKept, SameRun
<1>1. EntriesAreRuns'
  BY DEF EntriesAreRuns
<1>2. ReservationExclusive'
  BY DEF ReservationExclusive
<1> QED  BY <1>1, <1>2

LEMMA ReservationInvTaken ==
    ASSUME TypeOK, ReservationInv, NEW r \in Run, NEW p \in Process, NEW a \in Agent,
           NEW t \in Task, ReservationTaken(r, p, a, t)
    PROVE  ReservationInv'
<1>1. /\ ~Reserved(r) /\ Reserved(r)' /\ Proc(r)' = p /\ Agt(r)' = a /\ Tsk(r)' = t
      /\ agentRuns[p][a] = NoRun /\ t \notin taskRuns[p]
      /\ \A s \in Run \ {r} : SameRun(s)
  BY DEF ReservationTaken, CanReserve
<1>2. /\ agentRuns'[p][a] = r
      /\ \A q \in Process, b \in Agent : (q # p \/ b # a) => agentRuns'[q][b] = agentRuns[q][b]
  BY DEF ReservationTaken, TypeOK
<1>3. /\ t \in taskRuns'[p]
      /\ \A q \in Process : taskRuns[q] \subseteq taskRuns'[q]
  BY DEF ReservationTaken, TypeOK
<1>4. \A s \in Run \ {r} : Reserved(s)' =>
        /\ Reserved(s) /\ Proc(s)' = Proc(s) /\ Agt(s)' = Agt(s) /\ Tsk(s)' = Tsk(s)
        /\ Proc(s) \in Process /\ Agt(s) \in Agent
        /\ agentRuns[Proc(s)][Agt(s)] = s /\ Tsk(s) \in taskRuns[Proc(s)]
        /\ s # NoRun
  BY <1>1, RunIsPlaced, ConstantsAssumption
  DEF SameRun, ReservationInv, ReservationExclusive, Reserved
<1>5. EntriesAreRuns'
  <2> SUFFICES ASSUME NEW q \in Process, NEW b \in Agent, NEW s \in Run, agentRuns'[q][b] = s
               PROVE  Reserved(s)' /\ Proc(s)' = q /\ Agt(s)' = b
    BY DEF EntriesAreRuns
  <2>1. CASE q = p /\ b = a
    BY <1>1, <1>2, <2>1
  <2>2. CASE q # p \/ b # a
    <3>1. agentRuns[q][b] = s
      BY <1>2, <2>2
    <3>2. Reserved(s) /\ Proc(s) = q /\ Agt(s) = b
      BY <3>1 DEF ReservationInv, EntriesAreRuns
    <3>3. s # r
      BY <1>1, <3>2
    <3> QED  BY <1>1, <3>2, <3>3 DEF SameRun
  <2> QED  BY <2>1, <2>2
<1>6. \A s \in Run : Reserved(s)' =>
        agentRuns'[Proc(s)'][Agt(s)'] = s /\ Tsk(s)' \in taskRuns'[Proc(s)']
  <2> SUFFICES ASSUME NEW s \in Run, Reserved(s)'
               PROVE  agentRuns'[Proc(s)'][Agt(s)'] = s /\ Tsk(s)' \in taskRuns'[Proc(s)']
    OBVIOUS
  <2>1. CASE s = r
    BY <1>1, <1>2, <1>3, <2>1
  <2>2. CASE s # r
    BY <1>1, <1>2, <1>3, <1>4, <2>2
  <2> QED  BY <2>1, <2>2
<1>7. \A s, u \in Run :
        (Reserved(s)' /\ Reserved(u)' /\ Proc(s)' = Proc(u)' /\ Tsk(s)' = Tsk(u)') => s = u
  <2> SUFFICES ASSUME NEW s \in Run, NEW u \in Run, Reserved(s)', Reserved(u)',
                      Proc(s)' = Proc(u)', Tsk(s)' = Tsk(u)'
               PROVE  s = u
    OBVIOUS
  <2>1. CASE s # r /\ u # r
    BY <1>4, <2>1 DEF ReservationInv, ReservationExclusive
  <2>2. CASE s = r /\ u # r
    BY <1>1, <1>4, <2>2
  <2>3. CASE s # r /\ u = r
    BY <1>1, <1>4, <2>3
  <2> QED  BY <2>1, <2>2, <2>3
<1>8. ReservationExclusive'
  BY <1>6, <1>7 DEF ReservationExclusive
<1> QED  BY <1>5, <1>8 DEF ReservationInv

LEMMA ReservationInvFreed ==
    ASSUME TypeOK, ReservationInv, NEW r \in Run, ReservationFreed(r)
    PROVE  ReservationInv'
<1>1. PICK p \in Process, a \in Agent, t \in Task : p = Proc(r) /\ a = Agt(r) /\ t = Tsk(r)
  BY RunIsPlaced DEF ReservationFreed, Reserved
<1>2. /\ Reserved(r) /\ ~Reserved(r)' /\ agentRuns[p][a] = r
      /\ \A s \in Run \ {r} : SameRun(s)
  BY <1>1 DEF ReservationFreed, ReservationInv, ReservationExclusive
<1>3. /\ agentRuns' = [agentRuns EXCEPT ![p] = [agentRuns[p] EXCEPT ![a] = NoRun]]
      /\ taskRuns' = [taskRuns EXCEPT ![p] = taskRuns[p] \ {t}]
  BY <1>1, <1>2 DEF ReservationFreed, CloseReservation
<1>4. /\ agentRuns'[p][a] = NoRun
      /\ \A q \in Process, b \in Agent : (q # p \/ b # a) => agentRuns'[q][b] = agentRuns[q][b]
      /\ taskRuns'[p] = taskRuns[p] \ {t}
      /\ \A q \in Process : q # p => taskRuns'[q] = taskRuns[q]
  BY <1>3 DEF TypeOK
<1>5. \A s \in Run : Reserved(s)' =>
        /\ s # r
        /\ Reserved(s) /\ Proc(s)' = Proc(s) /\ Agt(s)' = Agt(s) /\ Tsk(s)' = Tsk(s)
        /\ Proc(s) \in Process /\ Agt(s) \in Agent
        /\ agentRuns[Proc(s)][Agt(s)] = s /\ Tsk(s) \in taskRuns[Proc(s)]
        /\ ~(Proc(s) = p /\ Agt(s) = a) /\ ~(Proc(s) = p /\ Tsk(s) = t)
  BY <1>1, <1>2, RunIsPlaced DEF SameRun, ReservationInv, ReservationExclusive, Reserved
<1>6. EntriesAreRuns'
  <2> SUFFICES ASSUME NEW q \in Process, NEW b \in Agent, NEW s \in Run, agentRuns'[q][b] = s
               PROVE  Reserved(s)' /\ Proc(s)' = q /\ Agt(s)' = b
    BY DEF EntriesAreRuns
  <2>1. agentRuns[q][b] = s /\ ~(q = p /\ b = a)
    BY <1>4, ConstantsAssumption
  <2>2. s # r
    BY <1>1, <2>1 DEF ReservationInv, EntriesAreRuns
  <2> QED  BY <1>2, <2>1, <2>2 DEF ReservationInv, EntriesAreRuns, SameRun
<1>7. \A s \in Run : Reserved(s)' =>
        agentRuns'[Proc(s)'][Agt(s)'] = s /\ Tsk(s)' \in taskRuns'[Proc(s)']
  <2> SUFFICES ASSUME NEW s \in Run, Reserved(s)'
               PROVE  agentRuns'[Proc(s)'][Agt(s)'] = s /\ Tsk(s)' \in taskRuns'[Proc(s)']
    OBVIOUS
  <2> QED  BY <1>4, <1>5
<1>8. \A s, u \in Run :
        (Reserved(s)' /\ Reserved(u)' /\ Proc(s)' = Proc(u)' /\ Tsk(s)' = Tsk(u)') => s = u
  BY <1>5 DEF ReservationInv, ReservationExclusive
<1>9. ReservationExclusive'
  BY <1>7, <1>8 DEF ReservationExclusive
<1> QED  BY <1>6, <1>9 DEF ReservationInv

LEMMA ReservationInvLost ==
    ASSUME TypeOK, ReservationInv, NEW p \in Process, ReservationsLost(p)
    PROVE  ReservationInv'
<1>1. /\ \A b \in Agent : agentRuns'[p][b] = NoRun
      /\ \A q \in Process : q # p => agentRuns'[q] = agentRuns[q] /\ taskRuns'[q] = taskRuns[q]
  BY DEF ReservationsLost, TypeOK
<1>2. \A s \in Run : Reserved(s)' =>
        /\ Reserved(s) /\ Proc(s) # p
        /\ Proc(s)' = Proc(s) /\ Agt(s)' = Agt(s) /\ Tsk(s)' = Tsk(s)
        /\ Proc(s) \in Process /\ Agt(s) \in Agent
        /\ agentRuns[Proc(s)][Agt(s)] = s /\ Tsk(s) \in taskRuns[Proc(s)]
  BY RunIsPlaced
  DEF ReservationsLost, SameRun, ReservationInv, ReservationExclusive, Reserved
<1>3. EntriesAreRuns'
  <2> SUFFICES ASSUME NEW q \in Process, NEW b \in Agent, NEW s \in Run, agentRuns'[q][b] = s
               PROVE  Reserved(s)' /\ Proc(s)' = q /\ Agt(s)' = b
    BY DEF EntriesAreRuns
  <2>1. q # p /\ agentRuns[q][b] = s
    BY <1>1, ConstantsAssumption
  <2>2. Reserved(s) /\ Proc(s) = q /\ Agt(s) = b
    BY <2>1 DEF ReservationInv, EntriesAreRuns
  <2>3. SameRun(s)
    BY <2>1, <2>2 DEF ReservationsLost
  <2> QED  BY <2>2, <2>3 DEF SameRun
<1>4. ReservationExclusive'
  <2>1. \A s \in Run : Reserved(s)' =>
          agentRuns'[Proc(s)'][Agt(s)'] = s /\ Tsk(s)' \in taskRuns'[Proc(s)']
    <3> SUFFICES ASSUME NEW s \in Run, Reserved(s)'
                 PROVE  agentRuns'[Proc(s)'][Agt(s)'] = s /\ Tsk(s)' \in taskRuns'[Proc(s)']
      OBVIOUS
    <3> QED  BY <1>1, <1>2
  <2>2. \A s, u \in Run :
          (Reserved(s)' /\ Reserved(u)' /\ Proc(s)' = Proc(u)' /\ Tsk(s)' = Tsk(u)') => s = u
    BY <1>2 DEF ReservationInv, ReservationExclusive
  <2> QED  BY <2>1, <2>2 DEF ReservationExclusive
<1> QED  BY <1>3, <1>4 DEF ReservationInv

LEMMA ReservationInvStep == TypeInv /\ ReservationInv /\ [Next]_vars => ReservationInv'
<1> SUFFICES ASSUME TypeInv, ReservationInv, [Next]_vars  PROVE ReservationInv'
  OBVIOUS
<1>1. TypeOK /\ ReservationEffect
  BY ReservationOfStep DEF TypeInv
<1> QED
  BY <1>1, ReservationInvKept, ReservationInvTaken, ReservationInvFreed, ReservationInvLost
  DEF ReservationEffect

LEMMA ReservationInvAlways == Spec => []ReservationInv
<1>1. Init => ReservationInv
  BY ConstantsAssumption
  DEF Init, ReservationInv, ReservationExclusive, EntriesAreRuns, Reserved
<1> QED  BY <1>1, ReservationInvStep, TypeAlways, PTL DEF Spec

(* In the memory of any process, however its runs are interleaved, no two    *)
(* runs share an agent or a task and the maps name exactly the runs there    *)
(* are: the closures of reserveAgentForTask may be called late or twice.     *)
THEOREM ReservationsExclusive == Spec => []ReservationExclusive
<1>1. ReservationInv => ReservationExclusive
  BY DEF ReservationInv
<1> QED  BY <1>1, ReservationInvAlways, PTL

OneProcess == \A p, q \in Process : p = q

(* The invariant runClaims.ts opens with, for a deployment of one process:   *)
(* no two live turns drive one agent, even when Stop, Halt or the healer     *)
(* has cleared the claim of the first.                                       *)
THEOREM OneTaskAtOnce ==
    ASSUME OneProcess
    PROVE  Spec => []NeverTwoTasksAtOnce
<1>1. TypeInv /\ ReservationInv => NeverTwoTasksAtOnce
  <2> SUFFICES ASSUME TypeOK, ReservationInv, NEW r \in Run, NEW s \in Run,
                      Driving(r), Driving(s), Agt(r) = Agt(s)
               PROVE  r = s
    BY DEF NeverTwoTasksAtOnce, TypeInv
  <2>1. pc[r] # "idle" /\ pc[s] # "idle" /\ Reserved(r) /\ Reserved(s)
    BY DEF Driving, Reserved, Asking
  <2>2. Proc(r) \in Process /\ Proc(s) \in Process
    BY <2>1, RunIsPlaced
  <2>3. Proc(r) = Proc(s)
    BY <2>2 DEF OneProcess
  <2> QED  BY <2>1, <2>3 DEF ReservationInv, ReservationExclusive
<1> QED  BY <1>1, TypeAlways, ReservationInvAlways, PTL

-------------------------------------------------------------------------------
(* The loss of a claim is not forgotten. *)

Waiting     == {"claimed", "turn", "working"}
BeforeClaim == Asking \cup {"preparing", "prepared", "resetting", "reserved"}

LossKnown(r) ==
    /\ (told[r] /\ pc[r] \in Waiting /\ r \notin dropped) => StopSignalled(r)
    /\ pc[r] \in BeforeClaim => ~told[r]

LossInv == \A r \in Run : LossKnown(r)

Untouched(s) ==
    pc'[s] = pc[s] /\ job'[s] = job[s] /\ told'[s] = told[s] /\ (s \in dropped => s \in dropped')

(* A step that drops no signal of a task with a reservation in its process. *)
SignalsKept == \A q \in Process : signals[q] \cap taskRuns[q] \subseteq signals'[q]

LEMMA LossUntouched ==
    ASSUME TypeOK, ReservationInv, NEW s \in Run, LossKnown(s), Untouched(s), SignalsKept
    PROVE  LossKnown(s)'
<1>1. CASE pc[s] \in Waiting /\ told[s] /\ s \notin dropped
  <2>1. Reserved(s) /\ Proc(s) \in Process
    BY <1>1, RunIsPlaced DEF Reserved, Waiting, Asking
  <2>2. Tsk(s) \in taskRuns[Proc(s)] /\ StopSignalled(s)
    BY <1>1, <2>1 DEF ReservationInv, ReservationExclusive, LossKnown
  <2>3. StopSignalled(s)'
    BY <2>1, <2>2 DEF SignalsKept, Untouched, StopSignalled, Proc, Tsk
  <2> QED  BY <1>1, <2>3 DEF LossKnown, Untouched, Waiting, BeforeClaim, Asking
<1>2. CASE ~(pc[s] \in Waiting /\ told[s] /\ s \notin dropped)
  BY <1>2 DEF LossKnown, Untouched
<1> QED  BY <1>1, <1>2

(* A step that drops signals without looking says whose it dropped.         *)
LEMMA LossOfDrop ==
    ASSUME TypeOK, NEW p \in Process, NEW T \in SUBSET Task, DropSignals(p, T),
           NEW s \in Run, LossKnown(s),
           pc'[s] = pc[s], job'[s] = job[s], told'[s] = told[s]
    PROVE  LossKnown(s)'
<1>1. CASE pc[s] \in Waiting /\ told[s] /\ s \notin dropped'
  <2>1. Proc(s) \in Process /\ Tsk(s) \in Task
    BY <1>1, RunIsPlaced DEF Waiting
  <2>2. s \notin dropped /\ ~(Proc(s) = p /\ Tsk(s) \in T)
    BY <1>1 DEF DropSignals
  <2>3. Tsk(s) \in signals[Proc(s)]
    BY <1>1, <2>2 DEF LossKnown, StopSignalled
  <2>4. Tsk(s) \in signals'[Proc(s)]
    BY <2>1, <2>2, <2>3 DEF DropSignals, TypeOK
  <2>5. StopSignalled(s)'
    BY <2>4 DEF StopSignalled, Proc, Tsk
  <2> QED  BY <1>1, <2>5 DEF LossKnown, Waiting, BeforeClaim, Asking
<1>2. CASE ~(pc[s] \in Waiting /\ told[s] /\ s \notin dropped')
  BY <1>2 DEF LossKnown
<1> QED  BY <1>1, <1>2

(* A run's own step touches no signal but its own task's. *)
LEMMA LossOfOthers ==
    ASSUME TypeOK, ReservationInv, LossInv, NEW r \in Run, Reserved(r),
           \/ signals' = signals
           \/ signals' = Without(signals, Proc(r), Tsk(r))
           \/ signals' = Raised(signals, Proc(r), {Tsk(r)}),
           NEW s \in Run, s # r, Untouched(s)
    PROVE  LossKnown(s)'
<1>1. CASE pc[s] \in Waiting /\ told[s] /\ s \notin dropped
  <2>1. Reserved(s) /\ Proc(s) \in Process /\ Tsk(s) \in Task
    BY <1>1, RunIsPlaced DEF Reserved, Waiting, Asking
  <2>2. ~(Proc(s) = Proc(r) /\ Tsk(s) = Tsk(r))
    BY <2>1 DEF ReservationInv, ReservationExclusive
  <2>3. Tsk(s) \in signals[Proc(s)]
    BY <1>1 DEF LossInv, LossKnown, StopSignalled
  <2>4. Tsk(s) \in signals'[Proc(s)]
    BY <2>1, <2>2, <2>3 DEF Without, Raised, TypeOK
  <2>5. StopSignalled(s)'
    BY <2>4 DEF StopSignalled, Untouched, Proc, Tsk
  <2> QED  BY <1>1, <2>5 DEF LossKnown, Untouched, Waiting, BeforeClaim, Asking
<1>2. CASE ~(pc[s] \in Waiting /\ told[s] /\ s \notin dropped)
  BY <1>2 DEF LossInv, LossKnown, Untouched
<1> QED  BY <1>1, <1>2

LEMMA LossOfRows ==
    ASSUME TypeOK, ReservationInv, LossInv, UNCHANGED <<pc, job, told, dropped>>, SignalsKept
    PROVE  LossInv'
<1>1. \A s \in Run : Untouched(s)
  BY DEF Untouched
<1> QED  BY <1>1, LossUntouched DEF LossInv

LEMMA LossOfRunStep ==
    ASSUME TypeInv, ReservationInv, LossInv, NEW r \in Run, RunStep(r)
    PROVE  LossInv'
<1> TypeOK  BY DEF TypeInv
<1> USE DEF rowVars, memoryVars, runVars, historyVars
<1>1. ASSUME pc'[r] \notin Waiting \cup BeforeClaim
      PROVE  LossKnown(r)'
  BY <1>1 DEF LossKnown
<1>2. ASSUME pc[r] \in BeforeClaim, pc'[r] \in BeforeClaim, told' = told
      PROVE  LossKnown(r)'
  BY <1>2 DEF LossKnown, LossInv, Waiting, BeforeClaim, Asking
<1>3. CASE ReserveAsked(r) \/ PrepareRow(r) \/ ForgetStop(r)
  <2>1. /\ pc[r] \in BeforeClaim /\ pc'[r] \in BeforeClaim
        /\ \A s \in Run \ {r} : pc'[s] = pc[s]
    BY <1>3 DEF ReserveAsked, PrepareRow, ForgetStop, BeforeClaim, Asking, TypeOK
  <2>2. UNCHANGED <<signals, job, told, dropped>>
    BY <1>3 DEF ReserveAsked, PrepareRow, ForgetStop
  <2>3. SignalsKept /\ \A s \in Run \ {r} : Untouched(s)
    BY <2>1, <2>2 DEF SignalsKept, Untouched
  <2>4. LossKnown(r)'
    BY <1>2, <2>1, <2>2
  <2> QED  BY <2>3, <2>4, LossUntouched DEF LossInv
<1>4. CASE ForgetSignal(r)
  <2>1. /\ pc[r] \in BeforeClaim /\ pc'[r] \in BeforeClaim
        /\ \A s \in Run \ {r} : pc'[s] = pc[s]
        /\ UNCHANGED <<job, told>>
    BY <1>4 DEF ForgetSignal, BeforeClaim, Asking, TypeOK
  <2>2. LossKnown(r)'
    BY <1>2, <2>1
  <2>3. CASE DropSignals(Proc(r), {Tsk(r)})
    <3>1. Proc(r) \in Process /\ {Tsk(r)} \in SUBSET Task
      BY <1>4, RunIsPlaced DEF ForgetSignal
    <3> QED  BY <2>1, <2>2, <2>3, <3>1, LossOfDrop DEF LossInv
  <2>4. CASE ~DropSignals(Proc(r), {Tsk(r)})
    <3>1. /\ Reserved(r) /\ signals' = Without(signals, Proc(r), Tsk(r))
          /\ dropped' = dropped
      BY <1>4, <2>4 DEF ForgetSignal, Reserved, Asking
    <3>2. \A s \in Run \ {r} : Untouched(s)
      BY <2>1, <3>1 DEF Untouched
    <3> QED  BY <2>2, <3>1, <3>2, LossOfOthers DEF LossInv
  <2> QED  BY <2>3, <2>4
<1>5. CASE TakeClaim(r) /\ \E phase \in {"claimed", "ending", "released"} :
                             pc' = [pc EXCEPT ![r] = phase]
  <2>1. Reserved(r) /\ signals' = signals /\ ~told[r] /\ told' = told
    BY <1>5 DEF TakeClaim, Reserved, LossInv, LossKnown, BeforeClaim, Asking
  <2>2. \A s \in Run \ {r} : Untouched(s)
    BY <1>5 DEF TakeClaim, Untouched, TypeOK
  <2>3. LossKnown(r)'
    BY <2>1 DEF LossKnown
  <2> QED  BY <2>1, <2>2, <2>3, LossOfOthers DEF LossInv
<1>6. CASE Claim(r)
  BY <1>5, <1>6 DEF Claim
<1>7. CASE ClaimUnconfirmed(r)
  BY <1>5, <1>7 DEF ClaimUnconfirmed
<1>8. CASE \/ ClaimRefused(r) \/ GiveUpBeforeClaim(r) \/ ReleaseFails(r) \/ ReleaseClaim(r)
           \/ CancelBeforePrompt(r) \/ Finish(r) \/ Drained(r) \/ Verdict(r)
           \/ Fail(r) \/ AbortedTurnEnds(r)
  <2>1. /\ Reserved(r)
        /\ \/ signals' = signals
           \/ signals' = Without(signals, Proc(r), Tsk(r))
           \/ signals' = Raised(signals, Proc(r), {Tsk(r)})
    BY <1>8 DEF ClaimRefused, GiveUpBeforeClaim, ReleaseFails, ReleaseClaim,
                CancelBeforePrompt, Finish, Drained, Verdict, Fail, AbortedTurnEnds,
                Reserved, Asking
  <2>2. \A s \in Run \ {r} : Untouched(s)
    BY <1>8 DEF ClaimRefused, GiveUpBeforeClaim, ReleaseFails, ReleaseClaim,
                CancelBeforePrompt, Finish, Drained, Verdict, WaitEnds, Fail,
                AbortedTurnEnds, Untouched, TypeOK
  <2>3. pc'[r] \in {"released", "ending", "draining"}
    BY <1>8 DEF ClaimRefused, GiveUpBeforeClaim, ReleaseFails, ReleaseClaim,
                CancelBeforePrompt, Finish, Drained, Verdict, WaitEnds, Fail,
                AbortedTurnEnds, TypeOK
  <2>4. LossKnown(r)'
    BY <1>1, <2>3 DEF Waiting, BeforeClaim, Asking
  <2> QED  BY <2>1, <2>2, <2>4, LossOfOthers DEF LossInv
<1>9. CASE Prompt(r) \/ TurnEnds(r)
  <2>1. /\ Reserved(r) /\ pc[r] \in Waiting /\ UNCHANGED <<signals, told, dropped>>
        /\ \A s \in Run \ {r} : Untouched(s)
        /\ pc'[r] \in Waiting \cup {"ending"}
    BY <1>9 DEF Prompt, TurnEnds, Reserved, Asking, Waiting, Untouched, TypeOK
  <2>2. job[r] \in Job
    BY <2>1, RunIsPlaced DEF Waiting
  <2>3. Proc(r)' = Proc(r) /\ Tsk(r)' = Tsk(r)
    BY <1>9, <2>2, PromptKeepsPlace
  <2>4. LossKnown(r)'
    BY <2>1, <2>3 DEF LossKnown, LossInv, StopSignalled, Waiting, BeforeClaim, Asking
  <2> QED  BY <2>1, <2>4, LossOfOthers DEF LossInv
<1>10. CASE Heartbeat(r)
  BY <1>10, LossOfRows DEF Heartbeat, SignalsKept
<1>11. CASE HeartbeatLost(r)
  <2>1. /\ pc[r] # "idle" /\ Reserved(r)
        /\ signals' = Raised(signals, Proc(r), {Tsk(r)})
        /\ UNCHANGED <<pc, job>>
    BY <1>11 DEF HeartbeatLost, Beating, Reserved, Asking
  <2>2. \A s \in Run \ {r} : Untouched(s)
    BY <1>11 DEF HeartbeatLost, Untouched, TypeOK
  <2>3. Proc(r) \in Process /\ Tsk(r) \in Task
    BY <2>1, RunIsPlaced
  <2>4. Tsk(r) \in signals'[Proc(r)]
    BY <2>1, <2>3 DEF Raised, TypeOK
  <2>5. StopSignalled(r)' /\ pc'[r] \notin BeforeClaim
    BY <1>11, <2>1, <2>4 DEF HeartbeatLost, Beating, BeforeClaim, Asking, StopSignalled, Proc, Tsk
  <2>6. LossKnown(r)'
    BY <2>5 DEF LossKnown
  <2> QED  BY <2>1, <2>2, <2>6, LossOfOthers DEF LossInv
<1>12. CASE ReleaseReservation(r) \/ CloseExplicit(r) \/ AskEnds(r)
  <2>1. /\ pc'[r] \in {"idle", "closing"} /\ signals' = signals
        /\ \A s \in Run \ {r} : Untouched(s)
    BY <1>12 DEF ReleaseReservation, CloseExplicit, AskEnds, Forget, Untouched, TypeOK
  <2>2. SignalsKept
    BY <2>1 DEF SignalsKept
  <2>3. LossKnown(r)'
    BY <1>1, <2>1 DEF Waiting, BeforeClaim, Asking
  <2> QED  BY <2>1, <2>2, <2>3, LossUntouched DEF LossInv
<1> QED
  BY <1>3, <1>4, <1>6, <1>7, <1>8, <1>9, <1>10, <1>11, <1>12 DEF RunStep, Advance

(* A start that reserves at once drops the signals of a task nobody runs.   *)
LEMMA LossOfReserve ==
    ASSUME TypeOK, ReservationInv, LossInv, NEW r \in Run, NEW p \in Process,
           NEW a \in Agent, NEW t \in Task, NEW c \in Column, NEW mode \in Mode,
           Begin(r, p, a, t, c, mode), pc' = [pc EXCEPT ![r] = pc'[r]], UNCHANGED dropped,
           \/ signals' = signals
           \/ signals' = Without(signals, p, t) /\ CanReserve(p, a, t)
    PROVE  LossInv'
<1>1. ~told'[r] /\ \A s \in Run \ {r} : Untouched(s)
  BY TypeBegin DEF Untouched, TypeOK
<1>2. SignalsKept
  <2> SUFFICES ASSUME NEW q \in Process
               PROVE  signals[q] \cap taskRuns[q] \subseteq signals'[q]
    BY DEF SignalsKept
  <2>1. CASE signals' = signals
    BY <2>1
  <2>2. CASE signals' = Without(signals, p, t) /\ CanReserve(p, a, t)
    <3>1. /\ signals'[q] = IF q = p THEN signals[q] \ {t} ELSE signals[q]
          /\ t \notin taskRuns[p]
      BY <2>2 DEF Without, CanReserve, TypeOK
    <3> QED  BY <3>1
  <2> QED  BY <2>1, <2>2
<1>3. LossKnown(r)'
  BY <1>1 DEF LossKnown
<1> QED  BY <1>1, <1>2, <1>3, LossUntouched DEF LossInv

LEMMA SignalsKeptByRequests ==
    ASSUME TypeOK, RequestStep
    PROVE  SignalsKept
<1>1. ASSUME NEW p \in Process, NEW T \in SUBSET Task, signals' = Raised(signals, p, T)
      PROVE  SignalsKept
  BY <1>1 DEF Raised, SignalsKept, TypeOK
<1>2. CASE AbortTurn \/ RaiseSignals
  <2>1. /\ request.proc \in Process /\ request.tasks \in SUBSET Task
        /\ signals' = Raised(signals, request.proc, request.tasks)
    BY <1>2, RequestServed DEF AbortTurn, RaiseSignals, TypeOK, RequestPhase
  <2> QED  BY <1>1, <2>1
<1>3. CASE MoveRow \/ HaltMark \/ HaltClear \/ UnstopRow
  BY <1>3 DEF MoveRow, HaltMark, HaltClear, UnstopRow, memoryVars, SignalsKept
<1> QED  BY <1>2, <1>3 DEF RequestStep

LEMMA LossStep == TypeInv /\ ReservationInv /\ LossInv /\ [Next]_vars => LossInv'
<1> SUFFICES ASSUME TypeInv, ReservationInv, LossInv, [Next]_vars  PROVE LossInv'
  OBVIOUS
<1> TypeOK  BY DEF TypeInv
<1> USE DEF memoryVars, runVars, historyVars
<1>1. CASE \E r \in Run : RunStep(r)
  BY <1>1, LossOfRunStep
<1>2. ASSUME NEW r \in Run, NEW p \in Process, NEW a \in Agent, NEW t \in Task,
             Dispatch(r, p, a, t)
      PROVE  LossInv'
  <2>1. status[t] \in Column /\ {"workflow", "resume"} \subseteq Mode
    BY DEF TypeOK, Mode
  <2>2. PICK mode \in Mode : Begin(r, p, a, t, status[t], mode) /\ Reserve(r, p, a, t)
    BY <1>2, <2>1 DEF Dispatch, ReserveForAction, ReserveForResume
  <2>3. /\ pc' = [pc EXCEPT ![r] = pc'[r]] /\ UNCHANGED dropped
        /\ signals' = signals \/ signals' = Without(signals, p, t)
    BY <1>2 DEF Dispatch, ReserveForAction, ReserveForResume, TypeOK
  <2>4. CanReserve(p, a, t)
    BY <2>2 DEF Reserve
  <2> QED  BY <2>1, <2>2, <2>3, <2>4, LossOfReserve
<1>3. ASSUME NEW r \in Run, NEW p \in Process, NEW a \in Agent, NEW t \in Task,
             NEW c \in Column, NEW mode \in {"resume", "explicit"}, Execute(r, p, a, t, c, mode)
      PROVE  LossInv'
  <2>1. /\ mode \in Mode /\ Begin(r, p, a, t, c, mode)
        /\ pc' = [pc EXCEPT ![r] = pc'[r]] /\ UNCHANGED <<signals, dropped>>
    BY <1>3 DEF Execute, Mode, TypeOK
  <2> QED  BY <2>1, LossOfReserve
<1>4. CASE RequestStep
  <2>1. UNCHANGED <<pc, job, told, dropped>>
    BY <1>4 DEF RequestStep, AbortTurn, MoveRow, HaltMark, HaltClear, RaiseSignals, UnstopRow
  <2> QED  BY <1>4, <2>1, SignalsKeptByRequests, LossOfRows
<1>5. ASSUME NEW p \in Process, NEW T \in SUBSET Task, DropSignals(p, T),
             UNCHANGED <<pc, job, told>>
      PROVE  LossInv'
  BY <1>5, LossOfDrop DEF LossInv
<1>6. CASE UNCHANGED <<signals, pc, job, told, dropped>>
  BY <1>6, LossOfRows DEF SignalsKept
<1>7. ASSUME NEW p \in Process, NEW t \in Task,
             \/ ClearStopped(p, t) \/ DropDeleted(p, t)
             \/ Stop(p, t) \/ PurgeSignals(p)
      PROVE  LossInv'
  <2>1. UNCHANGED <<pc, job, told>>
    BY <1>7 DEF ClearStopped, DropDeleted, Stop, PurgeSignals
  <2>2. \/ UNCHANGED <<signals, dropped>>
        \/ \E T \in SUBSET Task : DropSignals(p, T)
    BY <1>7 DEF ClearStopped, DropDeleted, Stop, PurgeSignals
  <2> QED  BY <1>5, <1>6, <2>1, <2>2
<1>8. CASE \/ \E p \in Process, t \in Task, c \in Column : Move(p, t, c)
           \/ \E p \in Process, a \in Agent : Halt(p, a)
           \/ \E t \in Task : Delete(t) \/ HardDelete(t) \/ Restore(t)
           \/ \E t \in Task, c \in Column : AgentMoves(t, c)
           \/ \E t \in Task : Age(t)
           \/ \E a \in Agent : TerminalPrints(a) \/ TerminalQuiet(a)
           \/ \E p \in Process, t \in Task : Heal(p, t)
  BY <1>6, <1>8 DEF Move, Halt, Delete, HardDelete, Restore, AgentMoves, Age, TerminalPrints,
                    TerminalQuiet, Heal
<1>9. ASSUME NEW p \in Process, Restart(p)  PROVE LossInv'
  <2> SUFFICES ASSUME NEW s \in Run  PROVE LossKnown(s)'
    BY DEF LossInv
  <2> DEFINE dead == {r \in Run : pc[r] # "idle" /\ Proc(r) = p}
  <2>1. /\ pc'[s] = IF s \in dead THEN "idle" ELSE pc[s]
        /\ job'[s] = IF s \in dead THEN NoJob ELSE job[s]
        /\ told'[s] = (s \notin dead /\ told[s])
        /\ dropped' = dropped \ dead
        /\ \A q \in Process : q # p => signals'[q] = signals[q]
    BY <1>9 DEF Restart, Forget, TypeOK
  <2>2. CASE pc'[s] = "idle"
    BY <2>2 DEF LossKnown, Waiting, BeforeClaim, Asking
  <2>3. CASE pc'[s] # "idle"
    <3>1. s \notin dead /\ pc[s] # "idle"
      BY <2>1, <2>3
    <3>2. Proc(s) # p /\ Proc(s) \in Process
      BY <3>1, RunIsPlaced
    <3>3. StopSignalled(s)' <=> StopSignalled(s)
      BY <2>1, <3>1, <3>2 DEF StopSignalled, Proc, Tsk
    <3>4. pc'[s] = pc[s] /\ told'[s] = told[s] /\ (s \in dropped' <=> s \in dropped)
      BY <2>1, <3>1 DEF TypeOK
    <3> QED  BY <3>3, <3>4 DEF LossInv, LossKnown
  <2> QED  BY <2>2, <2>3
<1>10. CASE UNCHANGED vars
  BY <1>6, <1>10 DEF vars
<1>11. CASE UserAsks
  BY <1>3, <1>7, <1>8, <1>11 DEF UserAsks
<1>12. CASE \E p \in Process : PurgeSignals(p)
  BY <1>7, <1>12, ConstantsAssumption
<1> QED  BY <1>1, <1>2, <1>4, <1>8, <1>9, <1>10, <1>11, <1>12 DEF Next

(* A run that lost its claim finds the Stop signal when it looks, in every   *)
(* interleaving, unless one of the steps that do not look at the runs of     *)
(* their process took it (clear-stopped, a deletion, an overtaken start, a   *)
(* purge): a dispatch, an explicit run, another run's verdict, a Stop, Halt, *)
(* move or heal never does (onLost of claimRun, _clearTaskStoppedSignal).    *)
THEOREM LossesAreNotForgotten == Spec => []LossIsNotForgotten
<1>1. Init => LossInv
  BY DEF Init, LossInv, LossKnown
<1>2. LossInv => LossIsNotForgotten
  BY DEF LossInv, LossKnown, LossIsNotForgotten, Waiting
<1> QED  BY <1>1, <1>2, LossStep, TypeAlways, ReservationInvAlways, PTL DEF Spec

-------------------------------------------------------------------------------
(* Whose claim a run releases, when one process serves the table. *)

PastClaim(r) == pc[r] \in {"claimed", "turn", "working", "draining", "ending"}

OwnerInv == \A r \in Run : PastClaim(r) => owner[Tsk(r)] = r

(* No run begins to hold a claim, and the ones that do keep their task.     *)
NobodyClaims ==
    /\ UNCHANGED owner
    /\ \A s \in Run : PastClaim(s)' => PastClaim(s) /\ Tsk(s)' = Tsk(s)

LEMMA NobodyClaimsByPhase ==
    ASSUME TypeOK, NEW r \in Run, NEW phase \in Phase, pc' = [pc EXCEPT ![r] = phase],
           UNCHANGED owner, PastClaim(r)' => PastClaim(r),
           \A s \in Run : PastClaim(s) => Tsk(s)' = Tsk(s)
    PROVE  NobodyClaims
<1>1. \A s \in Run \ {r} : pc'[s] = pc[s]
  BY DEF TypeOK
<1> QED  BY <1>1 DEF NobodyClaims, PastClaim

LEMMA NobodyClaimsByRows ==
    ASSUME UNCHANGED <<pc, job, owner>>
    PROVE  NobodyClaims
  BY DEF NobodyClaims, PastClaim, Tsk

LEMMA OwnerOfRunStep ==
    ASSUME OneProcess, TypeInv, ReservationInv, OwnerInv, NEW r \in Run, RunStep(r)
    PROVE  OwnerInv'
<1> TypeOK  BY DEF TypeInv
<1> USE DEF rowVars, memoryVars, runVars, historyVars
<1>1. ASSUME NobodyClaims  PROVE OwnerInv'
  BY <1>1 DEF NobodyClaims, OwnerInv
<1>2. CASE TakeClaim(r) /\ \E phase \in {"claimed", "ending", "released"} :
                             pc' = [pc EXCEPT ![r] = phase]
  <2>1. /\ Reserved(r) /\ pc[r] = "reserved" /\ UNCHANGED job
        /\ owner' = [owner EXCEPT ![Tsk(r)] = r]
    BY <1>2 DEF TakeClaim, Reserved, Asking
  <2>2. Tsk(r) \in Task /\ Proc(r) \in Process
    BY <2>1, RunIsPlaced
  <2>3. \A s \in Run \ {r} : PastClaim(s)' => PastClaim(s)
    BY <1>2 DEF PastClaim, TypeOK
  <2>4. \A s \in Run \ {r} : PastClaim(s) => Tsk(s) # Tsk(r)
    <3> SUFFICES ASSUME NEW s \in Run \ {r}, PastClaim(s), Tsk(s) = Tsk(r)  PROVE FALSE
      OBVIOUS
    <3>1. Reserved(s) /\ Proc(s) \in Process
      BY RunIsPlaced DEF PastClaim, Reserved, Asking
    <3>2. Proc(s) = Proc(r)
      BY <2>2, <3>1 DEF OneProcess
    <3> QED  BY <2>1, <3>1, <3>2 DEF ReservationInv, ReservationExclusive
  <2>5. owner'[Tsk(r)] = r /\ \A t \in Task \ {Tsk(r)} : owner'[t] = owner[t]
    BY <2>1, <2>2 DEF TypeOK
  <2>6. \A s \in Run : Tsk(s)' = Tsk(s)
    BY <2>1 DEF Tsk
  <2>7. \A s \in Run \ {r} : PastClaim(s)' => owner'[Tsk(s)] = s
    <3> SUFFICES ASSUME NEW s \in Run \ {r}, PastClaim(s)'  PROVE owner'[Tsk(s)] = s
      OBVIOUS
    <3>1. PastClaim(s) /\ Tsk(s) # Tsk(r)
      BY <2>3, <2>4
    <3>2. Tsk(s) \in Task
      BY <3>1, RunIsPlaced DEF PastClaim
    <3> QED  BY <2>5, <3>1, <3>2 DEF OwnerInv
  <2> QED  BY <2>5, <2>6, <2>7 DEF OwnerInv
<1>3. CASE Claim(r)
  BY <1>2, <1>3 DEF Claim
<1>4. CASE ClaimUnconfirmed(r)
  BY <1>2, <1>4 DEF ClaimUnconfirmed
<1>5. CASE \/ ClaimRefused(r) \/ GiveUpBeforeClaim(r)
           \/ ReleaseFails(r) \/ ReleaseClaim(r) \/ CancelBeforePrompt(r) \/ Finish(r)
           \/ Drained(r) \/ Verdict(r) \/ Fail(r) \/ AbortedTurnEnds(r)
  <2>1. /\ UNCHANGED <<owner, job>>
        /\ \E phase \in {"released", "ending", "draining"} :
             pc' = [pc EXCEPT ![r] = phase]
        /\ pc'[r] = "released" \/ PastClaim(r)
    BY <1>5 DEF ClaimRefused, GiveUpBeforeClaim, ReleaseFails, ReleaseClaim,
                CancelBeforePrompt, Finish, Drained, Verdict, WaitEnds, Fail,
                AbortedTurnEnds, PastClaim, TypeOK
  <2> QED  BY <1>1, <2>1, NobodyClaimsByPhase DEF PastClaim, Phase, Tsk
<1>10. CASE ReserveAsked(r) \/ PrepareRow(r) \/ ForgetSignal(r) \/ ForgetStop(r)
  <2>1. /\ UNCHANGED <<owner, job>>
        /\ \E phase \in {"preparing", "prepared", "resetting", "reserved", "cleared",
                         "ready"} : pc' = [pc EXCEPT ![r] = phase]
    BY <1>10 DEF ReserveAsked, PrepareRow, ForgetSignal, ForgetStop
  <2>2. ~PastClaim(r)'
    BY <2>1 DEF PastClaim, TypeOK
  <2> QED  BY <1>1, <2>1, <2>2, NobodyClaimsByPhase DEF PastClaim, Phase, Asking, Tsk
<1>6. CASE Prompt(r) \/ TurnEnds(r)
  <2>1. /\ PastClaim(r) /\ UNCHANGED owner
        /\ \E phase \in {"working", "turn", "ending"} : pc' = [pc EXCEPT ![r] = phase]
    BY <1>6 DEF Prompt, TurnEnds, PastClaim
  <2>2. job[r] \in Job
    BY <2>1, RunIsPlaced DEF PastClaim
  <2>3. \A s \in Run : Tsk(s)' = Tsk(s)
    BY <1>6, <2>2, PromptKeepsPlace
  <2> QED  BY <1>1, <2>1, <2>3, NobodyClaimsByPhase DEF PastClaim, Phase
<1>7. CASE Heartbeat(r) \/ HeartbeatLost(r)
  BY <1>1, <1>7, NobodyClaimsByRows DEF Heartbeat, HeartbeatLost
<1>8. CASE ReleaseReservation(r)
  <2>1. /\ ~PastClaim(r)'
        /\ \A s \in Run \ {r} : pc'[s] = pc[s] /\ job'[s] = job[s]
        /\ owner' = [t \in Task |-> IF owner[t] = r THEN NoRun ELSE owner[t]]
    BY <1>8 DEF ReleaseReservation, Forget, PastClaim, TypeOK
  <2> SUFFICES ASSUME NEW s \in Run \ {r}, PastClaim(s)'  PROVE owner'[Tsk(s)'] = s
    BY <2>1 DEF OwnerInv
  <2>2. PastClaim(s) /\ Tsk(s)' = Tsk(s)
    BY <2>1 DEF PastClaim, Tsk
  <2>3. Tsk(s) \in Task
    BY <2>2, RunIsPlaced DEF PastClaim
  <2> QED  BY <2>1, <2>2, <2>3 DEF OwnerInv
<1>9. CASE CloseExplicit(r) \/ AskEnds(r)
  <2>1. /\ ~PastClaim(r)' /\ UNCHANGED owner
        /\ \A s \in Run \ {r} : pc'[s] = pc[s] /\ job'[s] = job[s]
    BY <1>9 DEF CloseExplicit, AskEnds, Forget, PastClaim, TypeOK
  <2> QED  BY <1>1, <2>1 DEF NobodyClaims, PastClaim, Tsk
<1> QED
  BY <1>3, <1>4, <1>5, <1>6, <1>7, <1>8, <1>9, <1>10 DEF RunStep, Advance

LEMMA OwnerStep ==
    ASSUME OneProcess, TypeInv, ReservationInv, OwnerInv, [Next]_vars
    PROVE  OwnerInv'
<1> TypeOK  BY DEF TypeInv
<1> USE DEF runVars, historyVars
<1>1. ASSUME NobodyClaims  PROVE OwnerInv'
  BY <1>1 DEF NobodyClaims, OwnerInv
<1>2. CASE \E r \in Run : RunStep(r)
  BY <1>2, OwnerOfRunStep
<1>3. ASSUME NEW r \in Run, NEW p \in Process, NEW a \in Agent, NEW t \in Task,
             NEW c \in Column, NEW mode \in Mode, Begin(r, p, a, t, c, mode), UNCHANGED owner,
             NEW phase \in {"asked", "reserved"}, pc' = [pc EXCEPT ![r] = phase]
      PROVE  OwnerInv'
  <2>1. \A s \in Run \ {r} : pc'[s] = pc[s] /\ job'[s] = job[s]
    BY <1>3, TypeBegin DEF TypeOK
  <2>2. ~PastClaim(r)'
    BY <1>3 DEF PastClaim, TypeOK
  <2> QED  BY <1>1, <1>3, <2>1, <2>2 DEF NobodyClaims, PastClaim, Tsk
<1>4. ASSUME NEW r \in Run, NEW p \in Process, NEW a \in Agent, NEW t \in Task,
             Dispatch(r, p, a, t)
      PROVE  OwnerInv'
  <2>1. status[t] \in Column /\ {"workflow", "resume"} \subseteq Mode
    BY DEF TypeOK, Mode
  <2> QED  BY <1>3, <1>4, <2>1 DEF Dispatch, ReserveForAction, ReserveForResume
<1>5. ASSUME NEW r \in Run, NEW p \in Process, NEW a \in Agent, NEW t \in Task,
             NEW c \in Column, NEW mode \in {"resume", "explicit"}, Execute(r, p, a, t, c, mode)
      PROVE  OwnerInv'
  BY <1>3, <1>5 DEF Execute, Mode
<1>6. CASE UNCHANGED <<pc, job, owner>>
  BY <1>1, <1>6, NobodyClaimsByRows
<1>7. CASE RequestStep
  BY <1>6, <1>7 DEF RequestStep, AbortTurn, MoveRow, HaltMark, HaltClear, RaiseSignals, UnstopRow
<1>8. CASE \/ \E p \in Process, t \in Task :
                Stop(p, t) \/ ClearStopped(p, t) \/ DropDeleted(p, t)
           \/ \E p \in Process, t \in Task, c \in Column : Move(p, t, c)
           \/ \E p \in Process, a \in Agent : Halt(p, a)
           \/ \E t \in Task : Delete(t) \/ HardDelete(t) \/ Restore(t)
           \/ \E t \in Task, c \in Column : AgentMoves(t, c)
           \/ \E t \in Task : Age(t)
           \/ \E a \in Agent : TerminalPrints(a) \/ TerminalQuiet(a)
           \/ \E p \in Process, t \in Task : Heal(p, t)
           \/ \E p \in Process : PurgeSignals(p)
  BY <1>6, <1>8 DEF Stop, ClearStopped, DropDeleted, Delete, HardDelete, Move, Halt, Restore, AgentMoves,
                    Age, TerminalPrints, TerminalQuiet, Heal, PurgeSignals
<1>9. ASSUME NEW p \in Process, Restart(p)  PROVE OwnerInv'
  <2> SUFFICES ASSUME NEW s \in Run, PastClaim(s)'  PROVE owner'[Tsk(s)'] = s
    BY DEF OwnerInv
  <2> DEFINE dead == {r \in Run : pc[r] # "idle" /\ Proc(r) = p}
  <2>1. /\ pc'[s] = IF s \in dead THEN "idle" ELSE pc[s]
        /\ job'[s] = IF s \in dead THEN NoJob ELSE job[s]
        /\ owner' = [t \in Task |-> IF owner[t] \in dead THEN NoRun ELSE owner[t]]
    BY <1>9 DEF Restart, Forget
  <2>2. s \notin dead /\ PastClaim(s) /\ Tsk(s)' = Tsk(s)
    BY <2>1 DEF PastClaim, Tsk
  <2>3. Tsk(s) \in Task /\ owner[Tsk(s)] = s
    BY <2>2, RunIsPlaced DEF PastClaim, OwnerInv
  <2> QED  BY <2>1, <2>2, <2>3
<1>10. CASE UNCHANGED vars
  BY <1>6, <1>10 DEF vars
<1> QED  BY <1>2, <1>4, <1>5, <1>7, <1>8, <1>9, <1>10 DEF Next, UserAsks

(* "Another run's claim must never be released by a finished one" holds in a *)
(* deployment of one process: there the reservation outlives every other way *)
(* the claim may be taken from a run, so nobody claims behind it.            *)
THEOREM ReleasesAreOwn ==
    ASSUME OneProcess
    PROVE  Spec => ReleasesOwnClaim
<1>1. Init => OwnerInv
  BY DEF Init, OwnerInv, PastClaim
<1>2. TypeInv /\ ReservationInv /\ OwnerInv /\ [Next]_vars => OwnerInv'
  BY OwnerStep
<1>3. OwnerInv /\ [Next]_vars =>
        [\A r \in Run :
           (pc[r] = "ending" /\ pc'[r] = "released" /\ runner'[Tsk(r)] # runner[Tsk(r)])
           => owner[Tsk(r)] = r]_vars
  BY DEF OwnerInv, PastClaim
<1> QED  BY <1>1, <1>2, <1>3, TypeAlways, ReservationInvAlways, PTL DEF Spec, ReleasesOwnClaim
===============================================================================
