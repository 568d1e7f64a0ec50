------------------------------- MODULE RunClaims ------------------------------
(***************************************************************************)
(* One live run per task and per agent.                                    *)
(*                                                                         *)
(* Several API processes (replicas of a rolling update, sibling stacks)    *)
(* share one database.  Each of them starts runs: a run drives one agent   *)
(* on one task.  A run goes through                                        *)
(*                                                                         *)
(*   reserve       in the process's memory (workflow/agentSelector.ts)     *)
(*   claim         in the task's row (database/tasks.ts claimTaskRun)      *)
(*   work          prompt, wait for a verdict, drain the CLI               *)
(*   release       the claim, then the reservation                         *)
(*                                                                         *)
(* while a timer refreshes the claim's heartbeat (workflow/runClaims.ts).  *)
(* Users stop runs, move, delete and restore cards, any process may die at *)
(* any moment, and the healer of any process clears the claims whose       *)
(* heartbeat is too old (workflow/workflowEngine.ts).                      *)
(*                                                                         *)
(* Of a row this module keeps the columns the claim protocol reads or      *)
(* writes.  pending_on_enter and completed_action_idx are modelled in      *)
(* ColumnChain; the 'watching' value of execution_status counts here as    *)
(* "not stopped", which is how every guard of the protocol treats it.      *)
(***************************************************************************)

CONSTANTS
    Process,      \* the API processes sharing the database
    Agent,        \* the agents, shared by every process
    Task,         \* the task rows
    Column,       \* the board's columns
    Closed,       \* the columns no run is started in ('done', 'error')
    ErrorColumn,  \* the one a failed task is sent to
    Run,          \* the executions that may be in progress at once
    NoAgent,      \* action_running_agent_id IS NULL
    NoRun,        \* no entry in _agentRuns
    NoColumn      \* a request that moves nothing

ASSUME ConstantsAssumption ==
    /\ Process # {} /\ Agent # {} /\ Task # {} /\ Column # {}
    /\ Closed \subseteq Column
    /\ ErrorColumn \in Closed
    /\ NoAgent \notin Agent
    /\ NoRun \notin Run
    /\ NoColumn \notin Column

VARIABLES
    \* The tasks table.
    status,     \* status[t]: the column of the card
    deleted,    \* deleted[t]: deleted_at IS NOT NULL
    runner,     \* runner[t]: action_running_agent_id while action_running
    heartbeat,  \* heartbeat[t]: action_heartbeat_at, by what the healer sees
    stopped,    \* stopped[t]: execution_status = 'stopped'
    \* The memory of each process.
    agentRuns,  \* agentRuns[p][a]: _agentRuns
    taskRuns,   \* taskRuns[p]: _taskRuns
    signals,    \* signals[p]: the tasks whose 'stopped' signal is raised
    \* The executions.
    pc,         \* pc[r]: where the run stands
    job,        \* job[r]: what it runs, on what, for whom
    told,       \* told[r]: its heartbeat found the claim gone (beating = false)
    aborted,    \* the runs whose turn was aborted (abortControllers)
    \* The Stop, Halt or move being served, if any.
    request,
    \* The runners, as their terminals answer.
    printing,   \* the agents whose terminal is active (~_isCliQuiet)
    \* History, read by the properties alone.
    dropped,    \* the runs that lost their claim and whose signal was taken away
    owner,      \* owner[t]: the run whose UPDATE wrote the claim
    stopAsked   \* stopAsked[t]: the last thing a user asked of t is to stop

rowVars     == <<status, deleted, runner, heartbeat, stopped>>
memoryVars  == <<agentRuns, taskRuns, signals>>
runVars     == <<pc, job, told, aborted>>
historyVars == <<dropped, owner, stopAsked>>
vars == <<rowVars, memoryVars, runVars, request, printing, historyVars>>

Mode == {"workflow", "resume", "explicit"}

(* `terminal`: its prompt was pasted into the agent's terminal, and it waits *)
(* for a verdict; a headless turn is awaited (sendMessage) and polls nothing. *)
Job == [proc : Process, agent : Agent, task : Task, column : Column, mode : Mode,
        terminal : BOOLEAN]

NoJob == [mode |-> "none"]

(* An executeTask between its checks and its reservation.                   *)
Asking == {"asked", "cleared", "ready"}

Phase == Asking \cup {"idle", "preparing", "prepared", "resetting", "reserved",
                      "claimed", "turn", "working", "draining", "ending", "released",
                      "closing"}

NoRequest == [phase |-> "none"]

(* A user's Stop, Halt, move or retry, as far as its handler has come: `tasks` are *)
(* the ones it is about, `seen` the columns it read, `column` the one a     *)
(* move leads to.                                                           *)
Request == [phase : {"mark", "clear", "abort", "move", "signal", "unstop"}, proc : Process,
            agent : Agent \cup {NoAgent}, tasks : SUBSET Task,
            seen : [Task -> Column], column : Column \cup {NoColumn}]

TypeOK ==
    /\ status \in [Task -> Column]
    /\ deleted \in [Task -> BOOLEAN]
    /\ runner \in [Task -> Agent \cup {NoAgent}]
    /\ heartbeat \in [Task -> {"none", "fresh", "stale"}]
    /\ stopped \in [Task -> BOOLEAN]
    /\ agentRuns \in [Process -> [Agent -> Run \cup {NoRun}]]
    /\ taskRuns \in [Process -> SUBSET Task]
    /\ signals \in [Process -> SUBSET Task]
    /\ pc \in [Run -> Phase]
    /\ job \in [Run -> Job \cup {NoJob}]
    /\ \A r \in Run : pc[r] # "idle" => job[r] \in Job
    /\ told \in [Run -> BOOLEAN]
    /\ aborted \in SUBSET Run
    /\ request \in Request \cup {NoRequest}
    /\ printing \in SUBSET Agent
    /\ dropped \in SUBSET Run
    /\ owner \in [Task -> Run \cup {NoRun}]
    /\ stopAsked \in [Task -> BOOLEAN]

Init ==
    /\ status \in [Task -> Column \ Closed]
    /\ deleted = [t \in Task |-> FALSE]
    /\ runner = [t \in Task |-> NoAgent]
    /\ heartbeat = [t \in Task |-> "none"]
    /\ stopped = [t \in Task |-> FALSE]
    /\ agentRuns = [p \in Process |-> [a \in Agent |-> NoRun]]
    /\ taskRuns = [p \in Process |-> {}]
    /\ signals = [p \in Process |-> {}]
    /\ pc = [r \in Run |-> "idle"]
    /\ job = [r \in Run |-> NoJob]
    /\ told = [r \in Run |-> FALSE]
    /\ aborted = {}
    /\ request = NoRequest
    /\ printing = {}
    /\ dropped = {}
    /\ owner = [t \in Task |-> NoRun]
    /\ stopAsked = [t \in Task |-> FALSE]

-------------------------------------------------------------------------------
(* Reading a run. *)

Proc(r)  == job[r].proc
Agt(r)   == job[r].agent
Tsk(r)   == job[r].task

(* The timer of claimRun is set once the claim is confirmed and cleared by *)
(* stopHeartbeat, before the release.                                      *)
Beating(r) == pc[r] \in {"claimed", "turn", "working", "draining"}

(* The agent has the prompt and acts on it. *)
Driving(r) == pc[r] \in {"turn", "working", "draining"}

(* The row still names this run's agent: what every guarded UPDATE of the  *)
(* run tests.  Nothing in the row names the run itself.                    *)
NamesAgent(r) == runner[Tsk(r)] = Agt(r)

StopSignalled(r) == Tsk(r) \in signals[Proc(r)]

(* Mutants of CanReserve: only the task, or only the agent, is looked up.  *)
CanReserve_TaskOnly(p, a, t) == t \notin taskRuns[p]

CanReserve_AgentOnly(p, a, t) == agentRuns[p][a] = NoRun

(* isAgentBusy / isTaskRunning as reserveAgentForTask asks them. *)
CanReserve(p, a, t) == agentRuns[p][a] = NoRun /\ t \notin taskRuns[p]

Without(signal, p, t) == [signal EXCEPT ![p] = @ \ {t}]
Raised(signal, p, T)  == [signal EXCEPT ![p] = @ \cup T]

NoClaim(t) == runner' = [runner EXCEPT ![t] = NoAgent]
              /\ heartbeat' = [heartbeat EXCEPT ![t] = "none"]

-------------------------------------------------------------------------------
(* Reservation: check and reserve in one synchronous step of the process.   *)

(* A run slot is given what it is asked to do. *)
Begin(r, p, a, t, c, mode) ==
    /\ pc[r] = "idle"
    /\ job' = [job EXCEPT ![r] = [proc |-> p, agent |-> a, task |-> t, column |-> c,
                                  mode |-> mode, terminal |-> FALSE]]
    /\ told' = [told EXCEPT ![r] = FALSE]
    /\ aborted' = aborted \ {r}

Reserve(r, p, a, t) ==
    /\ CanReserve(p, a, t)
    /\ agentRuns' = [agentRuns EXCEPT ![p][a] = r]
    /\ taskRuns' = [taskRuns EXCEPT ![p] = @ \cup {t}]

(* The row as the dispatchers select it; they read it before they reserve,  *)
(* so nothing of this needs to hold still when the run claims.              *)
Dispatchable(t) == ~deleted[t] /\ runner[t] = NoAgent /\ status[t] \notin Closed

(* executeRunAgent: the signals of a prior lifecycle are dropped here.      *)
ReserveForAction(r, p, a, t) ==
    /\ Dispatchable(t)
    /\ Begin(r, p, a, t, status[t], "workflow")
    /\ Reserve(r, p, a, t)
    /\ pc' = [pc EXCEPT ![r] = "reserved"]
    /\ signals' = Without(signals, p, t)
    /\ UNCHANGED <<rowVars, request, printing, historyVars>>

(* _processNextPendingTasks: the loop skips a task stopped in this process, *)
(* and clears nothing.                                                      *)
ReserveForResume(r, p, a, t) ==
    /\ Dispatchable(t)
    /\ ~stopped[t] /\ t \notin signals[p]
    /\ Begin(r, p, a, t, status[t], "resume")
    /\ Reserve(r, p, a, t)
    /\ pc' = [pc EXCEPT ![r] = "reserved"]
    /\ UNCHANGED <<rowVars, signals, request, printing, historyVars>>

(* executeTask, asked by a user, with a target column ("explicit") or       *)
(* without: the row it has read shows no run, and its process has none on   *)
(* the task or the agent.  It awaits the runner's answer next.              *)
Execute(r, p, a, t, c, mode) ==
    /\ ~deleted[t] /\ runner[t] = NoAgent
    /\ CanReserve(p, a, t)
    /\ \/ mode = "explicit" /\ c \notin Closed
       \/ mode = "resume" /\ c = status[t] /\ c \notin Closed \ {ErrorColumn}
    /\ Begin(r, p, a, t, c, mode)
    /\ pc' = [pc EXCEPT ![r] = "asked"]
    /\ stopAsked' = [stopAsked EXCEPT ![t] = FALSE]
    /\ UNCHANGED <<rowVars, memoryVars, request, printing, dropped, owner>>

(* With a target column the agent is reserved at once; without one, after   *)
(* the clears below, by _resumeActiveTask.                                  *)
ReserveAsked(r) ==
    /\ \/ pc[r] = "asked" /\ job[r].mode = "explicit" /\ pc' = [pc EXCEPT ![r] = "preparing"]
       \/ /\ pc[r] = "ready" /\ job[r].column \notin Closed
          /\ pc' = [pc EXCEPT ![r] = "reserved"]
    /\ Reserve(r, Proc(r), Agt(r), Tsk(r))
    /\ UNCHANGED <<rowVars, signals, job, told, aborted, request, printing,
                   historyVars>>

(* updateTaskFields of the explicit run. *)
PrepareRow(r) ==
    /\ pc[r] = "preparing"
    /\ status' = [status EXCEPT ![Tsk(r)] = job[r].column]
    /\ pc' = [pc EXCEPT ![r] = "prepared"]
    /\ UNCHANGED <<deleted, runner, heartbeat, stopped, memoryVars, job, told,
                   aborted, request, printing, historyVars>>

(* The signals of T are taken away in process p by a step that does not     *)
(* know whether one of its runs waits for them.                             *)
DropSignals(p, T) ==
    /\ signals' = [signals EXCEPT ![p] = @ \ T]
    /\ dropped' = dropped \cup {r \in Run : told[r] /\ Proc(r) = p /\ Tsk(r) \in T}

(* The Stop is forgotten: the signal of this process, then the row.         *)
ForgetSignal(r) ==
    /\ \/ /\ pc[r] = "asked" /\ job[r].mode = "resume"
          /\ pc' = [pc EXCEPT ![r] = "cleared"]
          /\ DropSignals(Proc(r), {Tsk(r)})
       \/ /\ pc[r] = "prepared"
          /\ pc' = [pc EXCEPT ![r] = "resetting"]
          /\ signals' = Without(signals, Proc(r), Tsk(r))
          /\ UNCHANGED dropped
    /\ UNCHANGED <<rowVars, agentRuns, taskRuns, job, told, aborted, request,
                   printing, owner, stopAsked>>

ForgetStop(r) ==
    /\ \/ pc[r] = "cleared" /\ pc' = [pc EXCEPT ![r] = "ready"]
       \/ pc[r] = "resetting" /\ pc' = [pc EXCEPT ![r] = "reserved"]
    /\ stopped' = [stopped EXCEPT ![Tsk(r)] = FALSE]
    /\ UNCHANGED <<status, deleted, runner, heartbeat, memoryVars, job, told,
                   aborted, request, printing, historyVars>>

-------------------------------------------------------------------------------
(* The claim. *)

(* The preparation failed, the CLI is busy, the database is out of reach.   *)
GiveUpBeforeClaim(r) ==
    /\ pc[r] \in {"preparing", "prepared", "resetting", "reserved"}
    /\ pc' = [pc EXCEPT ![r] = "released"]
    /\ UNCHANGED <<rowVars, memoryVars, job, told, aborted, request, printing,
                   historyVars>>

(* Mutant of Claimable: no unique index on the agent. *)
Claimable_NoIndex(t, a, c) ==
    ~deleted[t] /\ runner[t] = NoAgent /\ status[t] = c /\ ~stopped[t]

(* The WHERE of claimTaskRun, and uniq_tasks_running_agent: live rows.      *)
Claimable(t, a, c) ==
    /\ ~deleted[t] /\ runner[t] = NoAgent
    /\ status[t] = c
    /\ ~stopped[t]
    /\ \A u \in Task : runner[u] = a => deleted[u]

TakeClaim(r) ==
    /\ pc[r] = "reserved"
    /\ Claimable(Tsk(r), Agt(r), job[r].column)
    /\ runner' = [runner EXCEPT ![Tsk(r)] = Agt(r)]
    /\ heartbeat' = [heartbeat EXCEPT ![Tsk(r)] = "fresh"]
    /\ owner' = [owner EXCEPT ![Tsk(r)] = r]
    /\ UNCHANGED <<status, deleted, stopped, memoryVars, job, told, aborted,
                   request, printing, dropped, stopAsked>>

Claim(r) == TakeClaim(r) /\ pc' = [pc EXCEPT ![r] = "claimed"]

(* The UPDATE landed and the process does not know it has the claim: the    *)
(* row could not be read back (it is released at once) or the reply was     *)
(* lost (nobody releases it).                                               *)
ClaimUnconfirmed(r) ==
    /\ TakeClaim(r)
    /\ \E outcome \in {"ending", "released"} : pc' = [pc EXCEPT ![r] = outcome]

ClaimRefused(r) ==
    /\ pc[r] = "reserved"
    /\ ~Claimable(Tsk(r), Agt(r), job[r].column)
    /\ pc' = [pc EXCEPT ![r] = "released"]
    /\ UNCHANGED <<rowVars, memoryVars, job, told, aborted, request, printing,
                   historyVars>>

-------------------------------------------------------------------------------
(* The heartbeat timer of claimRun. *)

Heartbeat(r) ==
    /\ Beating(r) /\ NamesAgent(r)
    /\ heartbeat' = [heartbeat EXCEPT ![Tsk(r)] = "fresh"]
    /\ UNCHANGED <<status, deleted, runner, stopped, memoryVars, runVars, request,
                   printing, historyVars>>

(* Mutant of HeartbeatLost: onLost raises nothing. *)
HeartbeatLost_Silent(r) ==
    /\ Beating(r) /\ ~NamesAgent(r) /\ ~told[r]
    /\ told' = [told EXCEPT ![r] = TRUE]
    /\ UNCHANGED <<rowVars, memoryVars, pc, job, aborted, request, printing,
                   historyVars>>

(* onLost, once. *)
HeartbeatLost(r) ==
    /\ Beating(r) /\ ~NamesAgent(r) /\ ~told[r]
    /\ told' = [told EXCEPT ![r] = TRUE]
    /\ signals' = Raised(signals, Proc(r), {Tsk(r)})
    /\ UNCHANGED <<rowVars, agentRuns, taskRuns, pc, job, aborted, request,
                   printing, historyVars>>

-------------------------------------------------------------------------------
(* The work. *)

(* A resume, and a headless decide, look for a Stop right before the prompt; *)
(* a decide pasted into a terminal does not.  A pasted prompt returns, and   *)
(* the wait starts on the column the card is in now.                         *)
Prompt(r) ==
    /\ pc[r] = "claimed"
    /\ ~StopSignalled(r) \/ job[r].mode = "workflow"
    /\ \E terminal \in BOOLEAN :
         /\ pc' = [pc EXCEPT ![r] = IF terminal THEN "working" ELSE "turn"]
         /\ job' = [job EXCEPT ![r].terminal = terminal, ![r].column = status[Tsk(r)]]
    /\ UNCHANGED <<rowVars, memoryVars, told, aborted, request, printing,
                   historyVars>>

(* The answer of a headless turn: it was all of a workflow action; a resume *)
(* waits for its verdict from here.                                         *)
TurnEnds(r) ==
    /\ pc[r] = "turn"
    /\ IF job[r].mode = "workflow"
       THEN pc' = [pc EXCEPT ![r] = "ending"] /\ UNCHANGED job
       ELSE /\ pc' = [pc EXCEPT ![r] = "working"]
            /\ job' = [job EXCEPT ![r].column = status[Tsk(r)]]
    /\ UNCHANGED <<rowVars, memoryVars, told, aborted, request, printing,
                   historyVars>>

CancelBeforePrompt(r) ==
    /\ pc[r] = "claimed" /\ StopSignalled(r)
    /\ pc' = [pc EXCEPT ![r] = "ending"]
    /\ UNCHANGED <<rowVars, memoryVars, job, told, aborted, request, printing,
                   historyVars>>

(* Only a terminal is drained once the wait is over. *)
WaitEnds(r) == pc' = [pc EXCEPT ![r] = IF job[r].terminal THEN "draining" ELSE "ending"]

(* _pollTaskVerdict: the signal first (consumed), then the row.             *)
Verdict(r) ==
    /\ pc[r] = "working"
    /\ \/ /\ StopSignalled(r)
          /\ signals' = Without(signals, Proc(r), Tsk(r))
       \/ /\ ~StopSignalled(r)
          /\ \/ deleted[Tsk(r)]
             \/ stopped[Tsk(r)]
             \/ status[Tsk(r)] # job[r].column
          /\ UNCHANGED signals
    /\ WaitEnds(r)
    /\ UNCHANGED <<rowVars, agentRuns, taskRuns, job, told, aborted, request,
                   printing, historyVars>>

(* The agent records its completion, the wait runs out of reminders.        *)
Finish(r) ==
    /\ pc[r] = "working"
    /\ WaitEnds(r)
    /\ UNCHANGED <<rowVars, memoryVars, job, told, aborted, request, printing,
                   historyVars>>

(* The agent's terminal went quiet, or the drain's deadline passed. *)
Drained(r) ==
    /\ pc[r] = "draining"
    /\ pc' = [pc EXCEPT ![r] = "ending"]
    /\ UNCHANGED <<rowVars, memoryVars, job, told, aborted, request, printing,
                   historyVars>>

(* An error of the preparation or of the turn.  A resume puts its task in   *)
(* error itself (persistTaskError); a workflow action leaves it to its      *)
(* chain.  Neither touches the claim.                                       *)
Fail(r) ==
    /\ pc[r] \in {"claimed", "turn", "working"}
    /\ pc' = [pc EXCEPT ![r] = "ending"]
    /\ status' = IF job[r].mode = "workflow" \/ deleted[Tsk(r)] THEN status
                 ELSE [status EXCEPT ![Tsk(r)] = ErrorColumn]
    /\ UNCHANGED <<deleted, runner, heartbeat, stopped, memoryVars, job, told,
                   aborted, request, printing, historyVars>>

(* An aborted headless turn ends on "Agent stopped by user": the catch      *)
(* writes 'stopped' into the row, whatever became of the row since.         *)
AbortedTurnEnds(r) ==
    /\ pc[r] = "turn" /\ r \in aborted
    /\ pc' = [pc EXCEPT ![r] = "ending"]
    /\ stopped' = [stopped EXCEPT ![Tsk(r)] = TRUE]
    /\ signals' = IF job[r].mode = "workflow" THEN signals
                  ELSE Raised(signals, Proc(r), {Tsk(r)})
    /\ UNCHANGED <<status, deleted, runner, heartbeat, agentRuns, taskRuns, job,
                   told, aborted, request, printing, historyVars>>

-------------------------------------------------------------------------------
(* The release: stopHeartbeat and the claim first, the reservation after.   *)

(* releaseTaskRun: "only while it is still THIS agent's". *)
ReleaseClaim(r) ==
    /\ pc[r] = "ending"
    /\ pc' = [pc EXCEPT ![r] = "released"]
    /\ IF NamesAgent(r) THEN NoClaim(Tsk(r)) ELSE UNCHANGED <<runner, heartbeat>>
    /\ UNCHANGED <<status, deleted, stopped, memoryVars, job, told, aborted,
                   request, printing, historyVars>>

(* releaseRun gives up after its retries: the claim is left to the healer.  *)
ReleaseFails(r) ==
    /\ pc[r] = "ending"
    /\ pc' = [pc EXCEPT ![r] = "released"]
    /\ UNCHANGED <<rowVars, memoryVars, job, told, aborted, request, printing,
                   historyVars>>

(* Mutant of CloseReservation: the closure frees whatever is there. *)
CloseReservation_Anyone(r) ==
    /\ agentRuns' = [agentRuns EXCEPT ![Proc(r)][Agt(r)] = NoRun]
    /\ taskRuns' = [taskRuns EXCEPT ![Proc(r)] = @ \ {Tsk(r)}]

(* The closure reserveAgentForTask returned: void unless the entry is its.  *)
CloseReservation(r) ==
    IF agentRuns[Proc(r)][Agt(r)] = r
    THEN /\ agentRuns' = [agentRuns EXCEPT ![Proc(r)][Agt(r)] = NoRun]
         /\ taskRuns' = [taskRuns EXCEPT ![Proc(r)] = @ \ {Tsk(r)}]
    ELSE UNCHANGED <<agentRuns, taskRuns>>

(* The run is over: its slot may serve another one. *)
Forget(R) ==
    /\ job' = [r \in Run |-> IF r \in R THEN NoJob ELSE job[r]]
    /\ told' = [r \in Run |-> r \notin R /\ told[r]]
    /\ aborted' = aborted \ R
    /\ dropped' = dropped \ R

ReleaseReservation(r) ==
    /\ pc[r] = "released"
    /\ CloseReservation(r)
    /\ owner' = [t \in Task |-> IF owner[t] = r THEN NoRun ELSE owner[t]]
    /\ IF job[r].mode = "explicit"
       THEN pc' = [pc EXCEPT ![r] = "closing"] /\ UNCHANGED <<job, told, aborted,
                                                              dropped>>
       ELSE pc' = [pc EXCEPT ![r] = "idle"] /\ Forget({r})
    /\ UNCHANGED <<rowVars, signals, request, printing, stopAsked>>

(* executeTask's own finally calls the closure a second time.               *)
CloseExplicit(r) ==
    /\ pc[r] = "closing"
    /\ CloseReservation(r)
    /\ pc' = [pc EXCEPT ![r] = "idle"]
    /\ Forget({r})
    /\ UNCHANGED <<rowVars, signals, request, printing, owner, stopAsked>>

(* executeTask throws, or hands an inactive card to its column's workflow:  *)
(* nothing was reserved.                                                    *)
AskEnds(r) ==
    /\ pc[r] \in Asking
    /\ pc' = [pc EXCEPT ![r] = "idle"]
    /\ Forget({r})
    /\ UNCHANGED <<rowVars, memoryVars, request, printing, owner, stopAsked>>

-------------------------------------------------------------------------------
(* What the users and the other agents do.  One Stop, Halt, move or retry is served *)
(* at a time; its handler awaits between the steps below.                    *)

Serve(phase, p, a, T, c) ==
    request' = [phase |-> phase, proc |-> p, agent |-> a, tasks |-> T,
                seen |-> status, column |-> c]

Serving(phase) == request.phase = phase

Continue(phase) == request' = [request EXCEPT !.phase = phase]

(* The one write of stopTaskExecution, whoever holds the claim. *)
StopRow(t) ==
    /\ NoClaim(t)
    /\ stopped' = [stopped EXCEPT ![t] = TRUE]
    /\ stopAsked' = [stopAsked EXCEPT ![t] = TRUE]

Stop(p, t) ==
    /\ Serving("none") /\ ~deleted[t]
    /\ StopRow(t)
    /\ Serve("abort", p, NoAgent, {t}, NoColumn)
    /\ UNCHANGED <<status, deleted, memoryVars, runVars, printing, dropped, owner>>

(* PUT of a new column, or a bulk move: the card's run is stopped first.    *)
Move(p, t, c) ==
    /\ Serving("none") /\ ~deleted[t] /\ c # status[t]
    /\ IF runner[t] # NoAgent \/ t \in taskRuns[p]
       THEN StopRow(t) /\ Serve("abort", p, NoAgent, {t}, c)
       ELSE /\ Serve("move", p, NoAgent, {t}, c)
            /\ UNCHANGED <<runner, heartbeat, stopped, stopAsked>>
    /\ UNCHANGED <<status, deleted, memoryVars, runVars, printing, dropped, owner>>

(* Mutants of AbortTurn: every request goes on to move the card; a Stop     *)
(* frees the reservation of the run it stops.                               *)
AbortTurn_AlwaysMoves ==
    /\ Serving("abort")
    /\ signals' = Raised(signals, request.proc, request.tasks)
    /\ Continue("move")
    /\ UNCHANGED <<rowVars, agentRuns, taskRuns, runVars, printing, historyVars>>

AbortTurn_FreesReservation ==
    /\ Serving("abort")
    /\ signals' = Raised(signals, request.proc, request.tasks)
    /\ agentRuns' = [agentRuns EXCEPT ![request.proc] =
                       [a \in Agent |-> IF @[a] # NoRun /\ Tsk(@[a]) \in request.tasks
                                        THEN NoRun ELSE @[a]]]
    /\ taskRuns' = [taskRuns EXCEPT ![request.proc] = @ \ request.tasks]
    /\ IF request.column = NoColumn THEN request' = NoRequest ELSE Continue("move")
    /\ UNCHANGED <<rowVars, runVars, printing, historyVars>>

(* The second half of stopTaskExecution: abort this process's turn, raise   *)
(* the signal.                                                              *)
AbortTurn ==
    /\ Serving("abort")
    /\ signals' = Raised(signals, request.proc, request.tasks)
    /\ aborted' = aborted \cup {r \in Run : /\ pc[r] = "turn"
                                           /\ Proc(r) = request.proc
                                           /\ Tsk(r) \in request.tasks}
    /\ IF request.column = NoColumn THEN request' = NoRequest ELSE Continue("move")
    /\ UNCHANGED <<rowVars, agentRuns, taskRuns, pc, job, told, printing,
                   historyVars>>

(* applyTaskMove's write.  The claim is among the columns it never writes.  *)
MoveRow ==
    /\ Serving("move")
    /\ status' = [t \in Task |-> IF t \in request.tasks THEN request.column ELSE status[t]]
    /\ stopped' = [t \in Task |-> t \notin request.tasks /\ stopped[t]]
    /\ stopAsked' = [t \in Task |-> t \notin request.tasks /\ stopAsked[t]]
    /\ Continue("signal")
    /\ UNCHANGED <<deleted, runner, heartbeat, memoryVars, runVars, printing,
                   dropped, owner>>

(* stopAgent: the agent's turn is aborted and _haltAgentTasks reads what it *)
(* is about to halt.  The tasks merely assigned to the agent may be any.    *)
Halt(p, a) ==
    /\ Serving("none")
    /\ aborted' = aborted \cup {r \in Run : /\ pc[r] = "turn"
                                           /\ Proc(r) = p /\ Agt(r) = a}
    /\ \E assigned \in SUBSET Task :
         Serve("mark", p, a,
               {t \in Task : \/ \E r \in Run : agentRuns[p][a] = r /\ Tsk(r) = t
                            \/ runner[t] = a
                            \/ t \in assigned} \ {t \in Task : deleted[t]},
               NoColumn)
    /\ UNCHANGED <<rowVars, memoryVars, pc, job, told, printing, historyVars>>

(* _markTaskStopped, guarded by the column the task was read in. *)
HaltMark ==
    /\ Serving("mark")
    /\ LET marked == {t \in request.tasks : /\ status[t] = request.seen[t]
                                            /\ status[t] \notin Closed}
       IN  /\ stopped' = [t \in Task |-> t \in marked \/ stopped[t]]
           /\ stopAsked' = [t \in Task |-> t \in marked \/ stopAsked[t]]
    /\ Continue("clear")
    /\ UNCHANGED <<status, deleted, runner, heartbeat, memoryVars, runVars,
                   printing, dropped, owner>>

(* clearActionRunningForAgent: whatever the agent claims by now. *)
HaltClear ==
    /\ Serving("clear")
    /\ LET freed == {t \in Task : runner[t] = request.agent}
       IN  /\ runner' = [t \in Task |-> IF t \in freed THEN NoAgent ELSE runner[t]]
           /\ heartbeat' = [t \in Task |-> IF t \in freed THEN "none" ELSE heartbeat[t]]
    /\ Continue("signal")
    /\ UNCHANGED <<status, deleted, stopped, memoryVars, runVars, printing,
                   historyVars>>

RaiseSignals ==
    /\ Serving("signal")
    /\ signals' = Raised(signals, request.proc, request.tasks)
    /\ request' = NoRequest
    /\ UNCHANGED <<rowVars, agentRuns, taskRuns, runVars, printing, historyVars>>

(* setTaskStatus: an agent, or a workflow action, moves the card. *)
AgentMoves(t, c) ==
    /\ ~deleted[t] /\ c # status[t]
    /\ status' = [status EXCEPT ![t] = c]
    /\ stopped' = [stopped EXCEPT ![t] = FALSE]
    /\ stopAsked' = [stopAsked EXCEPT ![t] = FALSE]
    /\ UNCHANGED <<deleted, runner, heartbeat, memoryVars, runVars, request,
                   printing, dropped, owner>>

(* clear-stopped: the signal first, then the row.  (A card in error is then *)
(* put back in a column, by setTaskStatus.)                                 *)
ClearStopped(p, t) ==
    /\ Serving("none") /\ ~deleted[t]
    /\ DropSignals(p, {t})
    /\ Serve("unstop", p, NoAgent, {t}, NoColumn)
    /\ UNCHANGED <<rowVars, agentRuns, taskRuns, runVars, printing, owner,
                   stopAsked>>

UnstopRow ==
    /\ Serving("unstop")
    /\ stopped' = [t \in Task |-> t \notin request.tasks /\ stopped[t]]
    /\ stopAsked' = [t \in Task |-> t \notin request.tasks /\ stopAsked[t]]
    /\ request' = NoRequest
    /\ UNCHANGED <<status, deleted, runner, heartbeat, memoryVars, runVars,
                   printing, dropped, owner>>

(* deleteTask drops the signals of the task after it has deleted the row,    *)
(* hardDeleteTask before: an await lies between, so this and the two steps   *)
(* below are steps of their own.  None of them looks for a run (an agent's   *)
(* delete_task does not either).                                            *)
DropDeleted(p, t) ==
    /\ DropSignals(p, {t})
    /\ UNCHANGED <<rowVars, agentRuns, taskRuns, runVars, request, printing, owner,
                   stopAsked>>

(* A soft deletion, one of the bulk deletions too, which drop no signal: the *)
(* row keeps its claim.                                                     *)
Delete(t) ==
    /\ ~deleted[t]
    /\ deleted' = [deleted EXCEPT ![t] = TRUE]
    /\ UNCHANGED <<status, runner, heartbeat, stopped, memoryVars, runVars, request,
                   printing, historyVars>>

(* DELETE /:id/permanent, of any row: it names no agent from here.          *)
HardDelete(t) ==
    /\ deleted' = [deleted EXCEPT ![t] = TRUE]
    /\ NoClaim(t)
    /\ UNCHANGED <<status, stopped, memoryVars, runVars, request, printing, historyVars>>

(* purgeStaleTaskSignals: what getAllTaskIds does not return, which is every *)
(* task when its query fails.                                               *)
PurgeSignals(p) ==
    /\ \/ DropSignals(p, {t \in Task : deleted[t]})
       \/ DropSignals(p, Task)
    /\ UNCHANGED <<rowVars, agentRuns, taskRuns, runVars, request, printing, owner,
                   stopAsked>>

(* Mutant of Restore: the claim the row died with comes back. *)
Restore_KeepsClaim(t) ==
    /\ deleted[t]
    /\ deleted' = [deleted EXCEPT ![t] = FALSE]
    /\ UNCHANGED <<status, runner, heartbeat, stopped, memoryVars, runVars, request,
                   printing, historyVars>>

(* restoreTaskFromDb; of a row that was deleted for good, the INSERT of a   *)
(* save that was under way.  Neither brings a claim back.                   *)
Restore(t) ==
    /\ deleted[t]
    /\ deleted' = [deleted EXCEPT ![t] = FALSE]
    /\ NoClaim(t)
    /\ UNCHANGED <<status, stopped, memoryVars, runVars, request, printing,
                   historyVars>>

-------------------------------------------------------------------------------
(* Time, the healer, and the death of a process. *)

(* RUN_CLAIM_STALE_SECONDS without a heartbeat: the run is gone, or its     *)
(* process cannot reach the database.                                       *)
Age(t) ==
    /\ heartbeat[t] = "fresh"
    /\ heartbeat' = [heartbeat EXCEPT ![t] = "stale"]
    /\ UNCHANGED <<status, deleted, runner, stopped, memoryVars, runVars, request,
                   printing, historyVars>>

(* A CLI works on what was pasted, or on what a user types; it goes quiet,  *)
(* or counts as stalled, at any time.                                       *)
TerminalPrints(a) ==
    /\ printing' = printing \cup {a}
    /\ UNCHANGED <<rowVars, memoryVars, runVars, request, historyVars>>

TerminalQuiet(a) ==
    /\ printing' = printing \ {a}
    /\ UNCHANGED <<rowVars, memoryVars, runVars, request, historyVars>>

(* Mutant of Heal: only the columns work is done in are swept. *)
Heal_OpenColumnsOnly(p, t) ==
    /\ ~deleted[t] /\ heartbeat[t] = "stale"
    /\ t \notin taskRuns[p] /\ status[t] \notin Closed
    /\ runner[t] \notin printing
    /\ NoClaim(t)
    /\ UNCHANGED <<status, deleted, stopped, memoryVars, runVars, request, printing,
                   historyVars>>

(* reconcileStaleActionRunning, served by process p: the claim is kept      *)
(* while the process runs the task, or the agent's terminal is active.      *)
Heal(p, t) ==
    /\ ~deleted[t] /\ heartbeat[t] = "stale"
    /\ t \notin taskRuns[p] /\ runner[t] \notin printing
    /\ NoClaim(t)
    /\ UNCHANGED <<status, deleted, stopped, memoryVars, runVars, request, printing,
                   historyVars>>

(* The process dies and a new one takes its place: nothing of its memory,   *)
(* its runs or the request it was serving is left.                          *)
Restart(p) ==
    LET dead == {r \in Run : pc[r] # "idle" /\ Proc(r) = p}
    IN  /\ agentRuns' = [agentRuns EXCEPT ![p] = [a \in Agent |-> NoRun]]
        /\ taskRuns' = [taskRuns EXCEPT ![p] = {}]
        /\ signals' = [signals EXCEPT ![p] = {}]
        /\ pc' = [r \in Run |-> IF r \in dead THEN "idle" ELSE pc[r]]
        /\ Forget(dead)
        /\ owner' = [t \in Task |-> IF owner[t] \in dead THEN NoRun ELSE owner[t]]
        /\ request' = IF ~Serving("none") /\ request.proc = p THEN NoRequest ELSE request
        /\ UNCHANGED <<rowVars, printing, stopAsked>>

-------------------------------------------------------------------------------
(* What a run does by itself, and what is done to it. *)

Advance(r) ==
    \/ ReserveAsked(r) \/ PrepareRow(r) \/ ForgetSignal(r) \/ ForgetStop(r)
    \/ Claim(r) \/ ClaimRefused(r)
    \/ Prompt(r) \/ CancelBeforePrompt(r) \/ Drained(r)
    \/ ReleaseClaim(r) \/ ReleaseReservation(r) \/ CloseExplicit(r)

RunStep(r) ==
    \/ Advance(r)
    \/ AskEnds(r) \/ GiveUpBeforeClaim(r) \/ ClaimUnconfirmed(r)
    \/ Heartbeat(r) \/ HeartbeatLost(r)
    \/ TurnEnds(r) \/ Verdict(r) \/ Finish(r) \/ Fail(r) \/ AbortedTurnEnds(r)
    \/ ReleaseFails(r)

Dispatch(r, p, a, t) ==
    \/ ReserveForAction(r, p, a, t)
    \/ ReserveForResume(r, p, a, t)

RequestStep == AbortTurn \/ MoveRow \/ HaltMark \/ HaltClear \/ RaiseSignals \/ UnstopRow

UserAsks ==
    \/ \E r \in Run, p \in Process, a \in Agent, t \in Task, c \in Column :
         \E mode \in {"resume", "explicit"} : Execute(r, p, a, t, c, mode)
    \/ \E p \in Process, t \in Task :
         Stop(p, t) \/ ClearStopped(p, t) \/ DropDeleted(p, t)
    \/ \E p \in Process, t \in Task, c \in Column : Move(p, t, c)
    \/ \E p \in Process, a \in Agent : Halt(p, a)
    \/ \E t \in Task : Delete(t) \/ HardDelete(t) \/ Restore(t)

Next ==
    \/ \E r \in Run : RunStep(r)
    \/ \E r \in Run, p \in Process, a \in Agent, t \in Task : Dispatch(r, p, a, t)
    \/ RequestStep
    \/ UserAsks
    \/ \E t \in Task, c \in Column : AgentMoves(t, c)
    \/ \E t \in Task : Age(t)
    \/ \E a \in Agent : TerminalPrints(a) \/ TerminalQuiet(a)
    \/ \E p \in Process, t \in Task : Heal(p, t)
    \/ \E p \in Process : PurgeSignals(p) \/ Restart(p)

Spec == Init /\ [][Next]_vars

(* A run refreshes this claim, or is about to release it. *)
Attended(t) ==
    \E r \in Run : (Beating(r) \/ pc[r] = "ending") /\ Tsk(r) = t /\ NamesAgent(r)

(* Timers fire, awaited calls return, the wait for a terminal's verdict     *)
(* polls, and every process sweeps for stale claims once a minute.  No turn *)
(* has to end - a headless one, or a reminder sent headless during a wait,  *)
(* polls nothing - no terminal has to go quiet, no user has to act.         *)
Fairness ==
    /\ \A r \in Run : WF_vars(Advance(r))
    /\ \A r \in Run : WF_vars(HeartbeatLost(r))
    /\ \A r \in Run : WF_vars(pc[r] = "working" /\ job[r].terminal /\ Verdict(r))
    /\ \A t \in Task : WF_vars(~Attended(t) /\ Age(t))
    /\ \A t \in Task : WF_vars(\E p \in Process : Heal(p, t))

-------------------------------------------------------------------------------
(* Properties. *)

(* An agent holds at most one claim over the rows that are not deleted: two *)
(* processes never both believe the agent is theirs (claimTaskRun and the   *)
(* index uniq_tasks_running_agent; restoreTaskFromDb must not break it).    *)
ClaimExclusive ==
    \A t, u \in Task :
        (runner[t] # NoAgent /\ runner[t] = runner[u] /\ ~deleted[t] /\ ~deleted[u]) => t = u

(* The runs of one process that hold a reservation. *)
Reserved(r) == pc[r] \notin Asking \cup {"idle", "closing"}

(* Within a process no two runs share their agent or their task, and the    *)
(* maps of agentSelector.ts say exactly which runs there are: a closure     *)
(* called twice, or late, frees nothing that is not its own.                *)
ReservationExclusive ==
    /\ \A r \in Run : Reserved(r) =>
         agentRuns[Proc(r)][Agt(r)] = r /\ Tsk(r) \in taskRuns[Proc(r)]
    /\ \A r, s \in Run :
         (Reserved(r) /\ Reserved(s) /\ Proc(r) = Proc(s) /\ Tsk(r) = Tsk(s)) => r = s

(* A run told that its claim is gone finds the signal when it looks, unless *)
(* the signal was taken by a step that does not look at the runs: a user's  *)
(* clear-stopped or deletion, a start whose checks are overtaken while it   *)
(* awaits, a purge.  The starts that look - the dispatches, an explicit run *)
(* - and the verdicts of other runs leave it (onLost of claimRun against    *)
(* the clears of executeRunAgent, executeTask and _pollTaskVerdict).        *)
LossIsNotForgotten ==
    \A r \in Run : (told[r] /\ pc[r] \in {"claimed", "turn", "working"} /\ r \notin dropped)
                        => StopSignalled(r)

(* No two live turns ever drive one agent (the invariant runClaims.ts opens *)
(* with): what a single process guarantees, whatever becomes of the claims. *)
NeverTwoTasksAtOnce ==
    \A r, s \in Run : (Driving(r) /\ Driving(s) /\ Agt(r) = Agt(s)) => r = s

(* "Another run's claim must never be released by a finished one"           *)
(* (releaseTaskRun): a release clears the claim its own run wrote.          *)
ReleasesOwnClaim ==
    [][\A r \in Run :
         (pc[r] = "ending" /\ pc'[r] = "released" /\ runner'[Tsk(r)] # runner[Tsk(r)])
         => owner[Tsk(r)] = r]_vars

(* A Stop is what was last asked of t, or an agent's Halt that covers t is  *)
(* being served.                                                            *)
StopRequested(t) ==
    stopAsked[t] \/ (~Serving("none") /\ request.agent # NoAgent /\ t \in request.tasks)

(* "A column move starts the new column fresh: no run state" (applyTaskMove): *)
(* a card becomes stopped only while a Stop is requested of it, never by    *)
(* what is left of the run it had in an earlier column.                     *)
StoppedOnRequest ==
    [][\A t \in Task : (~stopped[t] /\ stopped'[t]) =>
                           StopRequested(t) \/ StopRequested(t)']_vars

(* The claims of the live rows are leases: granted only while neither the   *)
(* agent nor the task is taken, one at a time.                              *)
Lease == INSTANCE AgentLease
             WITH leases <- {<<runner[t], t>> : t \in {u \in Task : runner[u] # NoAgent
                                                                /\ ~deleted[u]}}
LeaseSpec == Lease!Spec

(* A terminal run whose claim was taken from it does not drive its agent    *)
(* for ever: it ends, or finds its agent named by the row again, unless the *)
(* signal raised for it is dropped (onLost of claimRun is called once).  A  *)
(* headless turn promises nothing of the kind: it ends when it ends.        *)
LostRunEnds ==
    \A r \in Run :
        (Driving(r) /\ job[r].terminal /\ ~NamesAgent(r))
            ~> (~Driving(r) \/ NamesAgent(r) \/ r \in dropped)

(* A claim no run attends to is healed, unless its row is deleted or its    *)
(* agent's terminal is found active again and again                         *)
(* (reconcileStaleActionRunning).                                           *)
OrphanClaimHealed ==
    \A t \in Task :
        <>[](runner[t] # NoAgent /\ ~Attended(t) /\ ~deleted[t])
            => []<>(runner[t] \in printing)
===============================================================================
