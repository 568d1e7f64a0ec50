# TLA+ models of PulsarTeam

PulsarTeam runs a swarm of AI agents over Kanban boards.  A column of a board
may carry actions ("run an agent of this role"), an agent may move the card it
works on, and users stop, move, delete, restore and start cards at any moment.
Several API processes (replicas of a rolling update, sibling stacks) may share
one PostgreSQL database.  The hard question of the code is: **who is running
what, right now, and how does everybody else find out when that changes** - and
that is what most of these modules are about.  The agents themselves run in
terminals of a runner service, with rotating credentials and an index of the
code they work on: three smaller systems of their own, with a module each.

Everything below is under `src/api/src/services/` unless a path says otherwise.

## 1. Inventory

### 1.1 Components

| component | state it keeps | operations that change it |
| --- | --- | --- |
| Run claims (`workflow/runClaims.ts`, SQL in `database/tasks.ts`) | four columns of the task row: `action_running`, `action_running_agent_id`, `action_running_mode`, `action_heartbeat_at`; the partial unique index `uniq_tasks_running_agent` | `claimRun`, heartbeat timer, `releaseRun`, the healer's clear |
| Reservations (`workflow/agentSelector.ts`) | `_agentRuns`, `_taskRuns` (memory of one process) | `reserveAgentForTask` and the closure it returns |
| Task execution (`agentManager/tasks.ts`, `workflow/actionExecutor.ts`) | the stack of an async function; `_taskSignals`; `abortControllers` | `executeTask`, `_resumeActiveTask`, `executeRunAgent`, `_runDecideMode`, the verdict poll, the CLI drain, their error paths |
| Task control (`taskControl.ts`, `taskMutations.ts`, `agentManager/status.ts`, `src/api/src/routes/tasks.ts`) | `execution_status`, `status`, `deleted_at` | Stop, Halt of an agent, move, delete, restore |
| Column chain (`workflow/workflowEngine.ts`) | `_processingTasks`, `_conditionProcessing`; `pending_on_enter`, `completed_action_idx` of the row | `processColumnEntry`, `recheckPendingTransitions`, boot-time re-arming, the claim healer |
| Task locks (`database/locks.ts`) | `_heldLocks`, `_acquiringLocks`; PostgreSQL session locks | `tryAcquireTaskLock`, `releaseTaskLock` |
| Recurrence (`agentManager/tasks.ts`, `taskRecurrence.ts`) | recurrence columns of a template row, its occurrence rows | the tick, `claimRecurrenceCycle`, `_spawnOccurrence`, `setTaskRecurrence` |
| Terminals (`src/runner-service/src/pty_session.py`, `routes_terminal.py`) | `_SESSIONS`; the `PtySession` objects; the tmux session and the selected project of an agent; detached credentials watchers | view, input, delete, switch of project; the reader and the idle reaper of each session |
| Codex credentials (`src/runner-service/src/backends/codex*.py`, `src/api/src/routes/internalTokenStore.ts`, `database/oauthTokens.ts`) | the CLIs' `auth.json`; the runner's blob cache; `tokenCache` of each replica; the row of `oauth_tokens` | login, load, refresh, the watchers, the save with its retries, LISTEN/NOTIFY |
| Code index (`codeIndexService.ts`, `codeSearch/`) | `index.json`; the parsed index all operations share; the vectors | index, sync, update, deletion, search, reading |
| Chat, tools, providers, MCP, integrations, WebSocket, I/O limiter, browser, office, desktop, frontend | conversations, caches, sockets | listed in `PROJECT.json` with the reason each is left out |

### 1.2 How they interact

- The **row is the truth between processes**: a claim is one conditional
  `UPDATE`, and every later write of a run is guarded by "the row still names
  this agent".  Nothing in the row names the run.
- The **memory is the truth inside a process**: a reservation is taken
  synchronously, before the first `await`, and held until the run's `finally`.
- **Signals** (`_taskSignals`) carry a Stop from the handler that serves it, or
  from a heartbeat that found its claim gone, to the run that has to end.  They
  live in one process; a run consumes its signal when it polls.
- The **healer** of every process clears, once a minute, the claims whose
  heartbeat is two minutes old, except those of its own runs.
- The recheck of the column chain dispatches a card under a **task lock**, a
  session lock of PostgreSQL; entries asked for by users take none.
- The **recurrence tick** of every process reads all rules and claims a cycle
  with one conditional `UPDATE`; the cards it spawns enter their column like any
  other.
- A run that drives a CLI reaches the runner service, which **opens a terminal**
  or attaches to one; the viewers of the page share it.
- The CLIs rewrite their **credentials** when they refresh them, and the old
  ones are revoked; watchers carry them to the API, whose replicas cache them.

### 1.3 What is hard

Between reservation, claim, prompt, verdict, drain and release there are awaits,
and at each one a user, an agent, another process or a crash may come.  The
claim may disappear under a live run; the row may be given to the next run while
the previous one still has writes to do; a handler that serves a Stop or a move
itself takes several steps; a reply of the database may be lost after its
commit; a process may die holding anything.  In the runner service one event
loop interleaves the handlers of viewers, readers, reapers and closes at each
`await`, and two of them hold no lock.  A rotated credential lives in one file
until a poll, two requests and a notification have spread it.  The index of a
repository is edited in place while readers without a lock hold the same object
and an editor changes the files under both.  `PROJECT.json` lists these hazards
one by one at the line where they bite.

## 2. The modules

| module | models | role |
| --- | --- | --- |
| `AgentLease` | what the claims promise | abstract specification: leases of an agent to a task, granted only when both are free, one at a time |
| `RunClaims` | reservations, claims, signals, runs, Stop/Halt/move/delete/restore, healer, crashes, over several processes | the core; shown to implement `AgentLease` |
| `MCRunClaims` | - | small instances of `RunClaims` for TLC |
| `ColumnChain` | the actions of the column a card is in: entries, chains, markers, deferral, continuation, recheck, boot re-arm, healer, with users, agents and crashes around them | one card in depth, where `RunClaims` has many cards in breadth |
| `MCColumnChain` | - | two boards and the bounds of `ColumnChain` for TLC |
| `TaskMutex` | what the task locks promise | abstract specification: one owner per task, passing through nobody |
| `TaskLock` | `database/locks.ts` and the dispatch that uses it, over the sessions and pools it needs | shown to implement `TaskMutex` |
| `Recurrence` | one recurring rule: its ticks in several processes, its runs, the requests that edit, run, create and delete it | time counted in periods |
| `Terminal` | the terminal of one agent: sessions, tmux, project switches, closing | one event loop: a step is what a coroutine does between two awaits |
| `CodexTokens` | the ChatGPT credentials of one owner, from the CLIs' files to the replicas' caches | a token is its rank in the order of issue |
| `CodeIndex` | the index of one folder, the files under it and the vectors beside it | one process, one symbol per file |
| `MCTaskLock`, `MCRecurrence`, `MCTerminal`, `MCCodexTokens`, `MCCodeIndex` | - | their small instances for TLC |
| `AgentLeaseProofs`, `RunClaimsProofs`, `ColumnChainProofs`, `TaskLockProofs`, `RecurrenceProofs`, `TerminalProofs`, `CodexTokensProofs`, `CodeIndexProofs` | - | the theorems |

`RunClaims` and `ColumnChain` meet in the run of an agent.  `RunClaims` follows
a run through reservation, claim, prompt, verdict and release, for several
agents and cards, and treats the workflow as a choice of the card's column.
`ColumnChain` follows the workflow, and treats a run as one claim
(`StartRun`) and one release (`RunSucceeds`, `RunAborts`, `RunFails`).  Its
`lock` is a mutex that may refuse and may be lost, which is what `TaskLock` is
shown to implement.  The other modules share no state with these: `Recurrence`
ends where a run has been inserted, `Terminal` begins where a run asks for a
terminal, `CodexTokens` takes of a terminal and of an execution only when its
CLI may write.

### 2.1 RunClaims: state

| variable | in the code |
| --- | --- |
| `status`, `deleted` | `status`, `deleted_at` of the row |
| `runner` | `action_running_agent_id` while `action_running`, else `NoAgent` |
| `heartbeat` | `action_heartbeat_at`, as the healer's `WHERE` sees it: none, fresh, stale |
| `stopped` | `execution_status = 'stopped'` |
| `agentRuns`, `taskRuns` | `_agentRuns`, `_taskRuns` of each process |
| `signals` | the tasks whose `_taskSignals` entry is `'stopped'`, per process |
| `pc`, `job`, `told`, `aborted` | the async function of one execution: where it stands, its agent, task, column and mode, and whether its prompt was pasted into a terminal; whether `onLost` fired; whether its turn was aborted |
| `request` | the Stop, Halt, move or clear-stopped being served, between the awaits of its handler |
| `printing` | the agents whose terminal is active, as `_isCliQuiet` sees it |
| `dropped`, `owner`, `stopAsked` | history, read by properties only: the runs that lost their claim and whose signal was then taken away; which run wrote the claim; whether stopping is the last thing a user asked of the task |

### 2.2 RunClaims: actions

A run is reserved by `ReserveForAction` (`executeRunAgent`), by
`ReserveForResume` (`_processNextPendingTasks`), or asked for by a user:
`Execute` is `executeTask` up to its checks.  With a target column it goes on
with `ReserveAsked`, `PrepareRow`, `ForgetSignal`, `ForgetStop`; without one
with `ForgetSignal`, `ForgetStop`, and `ReserveAsked` in `_resumeActiveTask`;
`AskEnds` is where it throws or hands the card to its column.  A run goes on
with `Claim`, or `ClaimRefused`, or `ClaimUnconfirmed` (the `UPDATE` landed and
the process does not know), or `GiveUpBeforeClaim`; then `Prompt` or
`CancelBeforePrompt`.  A prompt pasted into a terminal returns at once and the
run polls for its verdict; a headless turn is awaited, polls nothing, and ends
with `TurnEnds` (or `AbortedTurnEnds`), after which only a resume polls.
`Verdict`, `Finish` and `Fail` end the wait; a terminal is then `Drained`.  Then
the two releases, `ReleaseClaim` (or `ReleaseFails`) and `ReleaseReservation`
(+ `CloseExplicit`, because `executeTask`'s `finally` calls the closure again).
`Heartbeat` and `HeartbeatLost` are the timer.  `Stop`, `Move`, `Halt` and
`ClearStopped` start a request whose handler continues with `AbortTurn`,
`MoveRow`, `HaltMark`, `HaltClear`, `RaiseSignals`, `UnstopRow`.  `Delete` and
`HardDelete` write the row, `DropDeleted` drops the signals of a deleted task -
after the soft deletion, before the other -, `PurgeSignals` those of tasks the
process no longer knows.  `Restore`, `AgentMoves`, `Age`, `TerminalPrints`,
`TerminalQuiet`, `Heal` and `Restart` complete the environment.

Each action is one stretch of code without an `await`, or one SQL statement.

### 2.3 Decisions

- One Stop, Halt, move or clear-stopped is in flight at a time; deletions,
  purges and starts are not limited by it.
- Which free agent is chosen (role, board, load) is any free agent; which task
  is dispatched is any dispatchable one.  The selectors read before the
  reservation, so nothing they read holds at the claim anyway.
- The tasks `assigned` to a halted agent are any set of tasks.
- The CLI quiet check is a choice: it lets the run claim, or makes it give up.
- A live run whose heartbeats do not land for two minutes is `Age` on an
  attended claim (`Lag`): its process is cut off from the database, and comes
  back.
- `'watching'` counts as not stopped, as in every guard of the protocol.
- One environment: the `environment` filters of the queries are left out.
- `persistTaskError`'s read and write are one step; `DELETE`'s guard and its
  soft delete are one step.
- The healer looks at the terminal of the claim's agent (`workflowEngine.ts:725`);
  a terminal prints and falls silent at any time, whoever types into it.
- Left out: assignee, dates, history, commit runs, legacy claims without a
  heartbeat, a swallowed failure of the Stop's write.

### 2.4 ColumnChain: state

| variable | in the code |
| --- | --- |
| `row` | `status`; `pending_on_enter`; `point` = (`resume_transition_idx`, `completed_action_idx` + 1), both from 1, `NoPoint` for NULL; `stopped` = `execution_status = 'stopped'`; `claim` = the run whose claim the row holds, `Orphan` once its process died |
| `lock` | the advisory lock of the card (`database/locks.ts`) |
| `processing`, `checking` | the card's entry of `_processingTasks` and `_conditionProcessing`, per process |
| `running` | the reservation of the card in `_taskRuns`, per process |
| `rearmed` | `_startupReArmDone` |
| `printing` | whether the terminal of a run whose process died is still active (`_isCliQuiet` of the claim's agent) |
| `pc`, `frame` | the async functions at work on the card ("fibers") and their locals: the column whose actions run, the status of the working copy, the resume point read, the transition and the action reached |
| `effects`, `recorded`, `owed` | history, read by properties only: the actions performed since their transition was last begun from its first action (`Mark`), those the row has recorded since the card entered its column (or was entered again, `Reenter`), and whether the column has on_enter actions that did not begin |

### 2.5 ColumnChain: actions

Events: `UserMove`, `UserStop`, `ClearStopped`, `Reenter` and `DirectRun`
(`executeTask` without a column), `ReserveRun` (`executeTask` with one, which
goes on with `PrepareRow`, `UnstopRow` and `ClaimRow`, or `Decline`: it clears
the markers and enters nothing), `AgentMoves` (`update_task` during a run), `EvictStaleLock`,
`Crash`.  Every move starts an entry beside its caller, in a fiber of its own
(`EnterBeside`, `_checkAutoRefine`).

An entry (`Enter`, the synchronous start of `processColumnEntry`) takes
`_processingTasks`, or defers (`Defer`), or is dropped because its column is the
one being processed.  Then `Read`, `Turned` or `Unreadable` (+ `Rearm`), and for
each transition `NextTransition` and its chain: `Mark`, then for each action
`Assign`, `StartRun` ... `RunSucceeds`, `DecideMove` + `MoveCard` (or `NoMove`,
`MovedMeanwhile`), followed by `Record` and `Sync`; or `Unable` / `RunAborts`,
`Flag`, `Skipped`; or `RunFails`, `FailCard`.  `TransitionEnds` and `ChainEnds`
clear the markers; `Leave` frees the card and, if the working copy is in another
column, `Continue` enters it.

`Recheck` is one pass of the tick over the card: it dispatches a retry
(`RetryLocked`) or the chain of a condition (`ConditionLocked`) under the
advisory lock, which may be refused (`LockDenied`).  `ReArm` is the boot's
one-shot pass, `Heal` the stale-claim healer for this card, which waits for the
terminal of the lost run to be quiet (`TerminalTurns`).

### 2.6 ColumnChain: decisions

- One card; the agents are the choice between `StartRun` and `Unable`.  A
  condition is met or not, each time it is evaluated; so is the recheck's test
  of a busy assignee (it may skip any tick: fairness asks for no single one).
- The tick's query and its pass over the card are one step: the dispatch it
  starts works on this snapshot after waiting for the lock, and that gap is kept.
- A run's reservation and its claim are one step (`RunClaims` separates them);
  so are an aborted turn's 'stopped' write, its release and its reservation.
- `setTaskStatus`'s read, its write and the start of the new entry are one step.
  The end of a chain, the release of its lock and of `_conditionProcessing` are
  one step; the continuation's read comes after it.
- A user's move stops the card's run first (`claim` is cleared); a card in
  error that is cleared or retried is restored by a move.
- A Stop cancels what the column owed: `clear-stopped` hands the card to the
  task loop, not to the workflow.
- Left out: the cooldown of retries, `_autoAssignByColumn`, manual, untrusted
  and deleted cards, other environments, the halt of a decision model, a
  workflow edited under a resume point, markers of another column (`MarkersFit`
  shows there are none), misconfigured actions, moves to another board.

### 2.7 TaskLock: state and actions

| variable | in the code |
| --- | --- |
| `conn` | the connections of the pools: free, checked out, or checked out and dead |
| `locks` | PostgreSQL's session locks, counted: `locks[c][t]` is how often the session of `c` holds the lock of `t` |
| `held`, `acquiring` | `_heldLocks`, `_acquiringLocks` of each process |
| `unlocking` | the releases that wait for `pg_advisory_unlock` |
| `pc`, `frame` | the dispatches (`_dispatchUnderLock`): process, task, connection, and the flag that makes the early release count once |

`Reserve` is the synchronous test of the cap and of the two maps; `Connect` or
`ConnectFails` checks a connection out; `Granted`, `Denied` or `QueryFails` is
the answer of `pg_try_advisory_lock`; `RunClaimed` and `ChainEnds` are the two
releases, of which the second to come does nothing; `Unlocked` ends one.  Faults
are `LockLeaks` (a statement cancelled after it took the lock), `UnlockFails`
(the session goes back to the pool with the lock), `ConnDies` and `Crash`.

Decisions: a pool never closes an idle connection by itself; the connection that
replaces a dead one is the same model value; what the dispatch does under the
lock is `ColumnChain`.

### 2.8 Recurrence: state

| variable | in the code |
| --- | --- |
| `clock` | the time in periods of the rule, so "due" is `clock > last` |
| `rule` | the template row: its `recurrence` (`lastResetAt`, `occurrenceCount`, `onOverlap`) and whether it is deleted (`deleted_at`) or removed (gone) |
| `runs` | the occurrence rows: number, who spawned it, and what the overlap query and the purge see of it |
| `ticking` | `_recurrenceTickRunning` of each process |
| `pc`, `frame` | the ticks and the requests at work, with the configuration they have read |
| `fired` | history: the cycles claimed, each taken for a period |
| `lapses` | history: a step trusted a configuration another write had overtaken (`stale`), a count failed and counts as none (`uncounted`), a period passed under a tick or a request (`slow`) |

### 2.9 Recurrence: actions and decisions

`Tick` reads the rule and, if it is due, goes on to `Count` (or `CountFails`),
`Claim` or `ClaimRefused` (`claimRecurrenceCycle`, the compare-and-set on
`lastResetAt`), `Insert` and `Save` (`_spawnOccurrence`, which writes the whole
row back), and its sweep.  `Create` + `First` + `Insert` + `Save`, `Adopt` + `Link`,
`Load` + `Edit` or + `Insert` + `Save`, `Delete`, `Restore` and `HardDelete` are
the requests.  `SaveRule` is the upsert of every write of the rule: it leaves
`deleted_at` alone, and makes a new row, not deleted, of one that is gone.  A card that is
adopted exists before the rule does, so `Adopt` takes the next place in the order
of creation for it (state `card`) and `Link` makes it the first run.  `Moves` is what users and agents do to
the runs, `PeriodPasses` the clock, `Fails` and `Crash` the faults.

One rule; periods have one length; a tick that finds several periods passed
claims one cycle.  Left out: retention by age, the filter on environments, a
first write that fails silently, and two requests that
adopt one card at once.

### 2.10 Terminal: state

| variable | in the code |
| --- | --- |
| `project` | the agent's selected working copy |
| `tmux` | the agent's tmux session: no pane, a CLI that runs, or a dead pane, and its directory |
| `detached` | a watcher of credentials that survived its session |
| `orphaned` | history: a CLI was left running without a watcher by a probe that gave no answer, an open that failed or a restart |
| `registry` | `_SESSIONS[agent]` |
| `lock` | the agent's project lock, then its session lock |
| `session` | the `PtySession` objects: `_closed`, `_pane_dead_handled`, the tmux client, directory, configuration, viewers |
| `pc`, `frame` | the coroutines - request handlers, and the reader and the idle reaper of each session - and the handlers' locals |

### 2.11 Terminal: actions and decisions

Opening: `Connect`, then under the lock `Reuse`, or `Replace` (which closes the
registered object) and `Spawn`, `Prepare`, `EnsureTmux`, `AttachBroker`,
`Publish`, or `SpawnFails` at any of these; then `Attach` for a viewer, `Inject` for a task.
Closing, from wherever it comes: `MarkClosed`, `Kill` (or `KillFails`),
`HandOver` or `ProbeFails`, `EndClose`.  `_tmux_session_alive` takes an error or
five seconds without an answer for "no session" (`pty_session.py:859`), also
against the busy server that made the kill time out: then no watcher is handed
over (`ProbeFails`), and one that was detached before ends (`DetachedFails`).
Closing comes from `Delete`, `Switch` + `Select`, `Reap`,
the reader (`Eof`, `Exited`, `PaneExited`, `ReaderEnds`) and `Replace`.
`Detach` and `Evict` are viewers that leave, `CliExits` and `DetachedEnds` what
the CLI does.  `RunnerRestart` is the death of the runner's process, which the
tmux server may survive (`pty_session.py:876`).  A request that names no
configuration takes any live session (`Fits`).

One agent; a session object is used for one spawn.  What is typed and shown,
sizes, a `list-panes` that fails under a session that lives, and the registry
entry of a detached watcher - which the `finally` of a cancelled one may take
from its successor (`pty_session.py:602`) - are left out.  Two requests can race on
the fingerprint of the configuration (`routes_terminal.py:328`), which only
costs a restart.

### 2.12 CodexTokens: state

| variable | in the code |
| --- | --- |
| `newest` | the last token issued; only this one can be refreshed |
| `db`, `cache` | the row of `oauth_tokens`; `tokenCache` of each replica |
| `notices`, `reading`, `inserts` | notifications under way, reloads that have read the row, writes at work |
| `behind` | history: the replicas that may have missed a write: their last notice was lost, or they have read the row twice at a time |
| `rcache` | `_owner_blob_cache` of the runner |
| `get` | the GETs that found nothing in a cache, with the replica that serves them and what it has read |
| `file` | `auth.json` of each agent |
| `exec`, `term` | an agent's execution or the opening of its terminal, and its terminal, by phase |
| `key` | the token a watcher noted |
| `save` | the saves at work: their phase, token, replica and attempt |
| `lapses` | history: the losses the code leaves open |

### 2.13 CodexTokens: actions and decisions

An execution: `Open`, `LoadCached` or `Load`, `Write`, `Expire`, `Refreshed` or
`Refused`, `Ready`, `RunEnds`, or for a terminal `ReadyTerminal` or
`StartFails`, which replace the watcher of an earlier session.  A terminal:
`Baseline`, `Poll`, `Close`, `Killed`; or `Survives` when the kill fails and tmux
says so, then `LooksAway`; and `Left` when the probe has failed and the CLI is
alive.  `CliRotates` comes at any time.  A save: `Fetch`, `Post`, `Verify`, and
in the replica `Insert`, `Notified`, `Loaded`.  A GET is answered from the
replica's cache, or the replica reads the row (`Asks`) and caches and answers
what it has read some awaits later (`Answers`), when the row and the cache may
be others; a runner that gives up leaves it at work (`GivesUp`).  Logins write
the store whatever it holds; an agent's (`AgentLogin`) writes the file first.
`RunnerRestarts` is the end of the runner's process, which CLIs may survive, or
of its container.

Each step by which the code leaves a token to be lost records its kind in
`lapses`: a hydration wrote over a file that had been rotated since it compared
(`overwritten`), an older token was inserted over a newer one (`backward`:
`save_owner_blob_if_newer` compares with an earlier answer), a save gave up
(`unsaved`), was told by a replica of a token the row did not have (`unstored`),
a CLI rotated, or a watcher ended over a change, with nobody to see it
(`unwatched`), the provider's answer was lost (`lost`), the runner died
(`died`).  `NewestIsMirrored` says what holds without them.  `CachesSettle` does
not look at them: it leaves out the replicas that are `behind`, no others.

Left out: disconnection and deletion, an upload of an old blob, API keys, a
failed write of the file after a refresh or a login, polls that overlap or are
cancelled half way, several runners.

### 2.14 CodeIndex: state

| variable | in the code |
| --- | --- |
| `disk`, `mtime` | the files of the folder with their mtimes; each edit has a new one |
| `saved` | `index.json` |
| `heap`, `cache` | the parsed indexes that operations hold, and the one of them `_getCachedRepo` hands out: several operations share, and edit, one object |
| `vectors`, `backend`, `rebuilt` | the vectors by the content they were made of; the store in memory or zvec; the entry of `_memoryVectorRebuilds` |
| `lock` | the operation that has the repository (`_repoLocks`) |
| `pc`, `frame` | the operations and their locals, among them what they have seen of the disk |
| `drift` | history: the files changed since the index spoke for them |
| `lapses` | history: a reader cached an index that was replaced or deleted (`overtaken`), an update read content and mtime around an edit (`skewed`), a search put back an older vector (`outdated`), a write failed half way (`failed`) |

### 2.15 CodeIndex: actions and decisions

`Request`, then `Lock` for a writer, then `LoadCached`, or `LoadFile` and
`Parse`, or `LoadFails`.  An index from scratch and a sync go through `Discover`
(listing and mtimes), `ReadFiles`, `Remove`, `Push`; an update of a file through
`Splice`, `FetchContent` and `FetchStat` in either order, `PushUpdate`; all end
with `Save` and `Publish`, or `Fails`.  A deletion is `Forget` and `Drop`, a
search `Rebuild`.  `Edit`, `Expire` and `Restart` are the rest of the world.

One folder and one process; a file holds one symbol; files have equal sizes, so
only the mtime tells an edit from none.  The update that
`_codeIndexPending` delays is an update requested later, `ensureIndexed` a read
followed by a request.  Left out: what is extracted from a file and how results
are ranked, the five-second cache of `getFreshness`, updates of several files,
limits on sizes and numbers, files that cannot be read.

## 3. What TLC checks

| run | expects | properties | what it shows |
| --- | --- | --- | --- |
| `two_processes` | pass | `TypeOK`, `ClaimExclusive`, `ReservationExclusive`, `LeaseSpec` | Two processes share one agent and two tasks, with Stop, Halt, moves, deletions for a while and for good, crashes, lost replies and lagging heartbeats: the claims stay exclusive and implement AgentLease, and each process's reservations name exactly its runs. |
| `one_process` | pass | `NeverTwoTasksAtOnce`, `LossIsNotForgotten`, `ReleasesOwnClaim` | A deployment of one process, two agents and two tasks, two environment events: no agent is ever driven by two runs; the Stop signal of a lost claim stays until the run looks, unless a clear-stopped, a deletion, a purge or an overtaken start dropped it; a release clears the run's own claim only. |
| `liveness` | pass | `LostRunEnds`, `OrphanClaimHealed` | Under the fairness of timers, polls and sweeps, a terminal run whose claim was taken ends unless its signal is dropped, and a claim no run attends to is healed unless its agent's terminal is found active again and again. |
| `late_stop` | violation | `StoppedOnRequest` | A card moved while its turn is live becomes 'stopped' in its new column, by the unguarded write of the aborted run's catch. |
| `column_chain` | pass | `TypeOK`, `ChainExclusive`, `MarkersFit`, `NothingLeftOut`, `NothingSkipped`, `NothingRepeated` | One card, one process, two async functions at a time, three events (moves, Stop, resumes, executions asked for in a column, the agent's own moves, an evicted dispatch, a crash and restart): one chain at a time, markers that are always those of the card's column, a resumed chain that skips nothing and repeats nothing the row recorded, and one that clears its markers only when nothing of it is left. |
| `column_entry` | pass | `EntryHandled`, `ArmedIsRetried` | Under the fairness of awaited calls, the recheck and the healer, the on_enter actions of a column a card entered begin, through deferrals, retries and continuations, and a flagged chain is taken up again. Left out by the bounds: a card that comes back into a column whose chain is still ending (the code drops that entry, workflowEngine.ts:171), moves by a user, and crashes. |
| `chain_twice` | violation | `NeverTwoChains` | With two processes, a condition chain dispatched under the advisory lock and an entry a user starts in the other process, which takes no lock, perform the actions of one column at the same time. |
| `terminal` | pass | `TypeOK`, `IdleIsTimed`, `CredentialsWatched`, `RightProject` | The terminal of one agent in the runner service, with viewers, injections, DELETE, project switches, evictions, idle reaping and exits in any order, and with failed opens, failed kills, unanswered probes of tmux and restarts of the runner: a session nobody looks at is always about to be reaped, a CLI that runs has its credentials mirrored unless a failed probe, a failed open or a restart has left it behind, and what is handed out runs in the selected project. |
| `task_lock` | pass | `TypeOK`, `ReleasesOwnLock`, `SlotsAreUsed`, `ConnsAccountedFor`, `MutexSpec` | Dispatches of two processes over shared tasks and small pools, with dying connections, cancelled statements, failed unlocks and dying processes: a release only ever releases its own lock, the cap counts exactly what is in use, no connection is lost, and the locks implement TaskMutex. |
| `recurrence` | pass | `TypeOK`, `CycleFiresOnce`, `FlagIsATick`, `SkipNeverOverlaps`, `StaysDeleted`, `PurgeKeepsNewest` | One rule, the ticks of two processes, a request that creates, edits, runs, deletes, restores or removes it, two periods, runs that finish and strand, failures and crashes: a cycle fires once, with 'skip' a tick never starts a run beside an unfinished one, a deleted rule stays deleted until it is restored, one whose row is removed stays away once nothing that has read it is left to write it, and the retention sweep keeps the newest runs. |
| `codex_tokens` | pass | `TypeOK`, `NewestIsMirrored`, `CachesSettle` | Two agents of one owner and two replicas of the API, with executions, terminals, refreshes by the service and by the CLIs, logins, slow reads of the row, and a fault (a lost request, answer or notice, a failed write, open or probe of tmux, a restart): as long as no loss the code leaves open has happened, the one token the provider still honours is in the store or on its way there, and no replica that has settled serves a token older than the row's, unless its last notice was lost or it read the row twice at a time. |
| `code_index` | pass | `TypeOK`, `MatchedIsRead`, `SyncedAgrees`, `CacheIsSaved`, `VectorsFollow` | Two operations of any kind on one folder - an index, a sync, an update, a deletion, a search, a reader - with two edits of its files between any of their steps, and a failed write, a restart or an expired cache: a record with a file's mtime has its content, a sync leaves no file behind, the shared object is what is saved, and the vectors follow the index. |

Bounds.  `MCRunClaims` limits how many runs a behaviour starts (`MaxStarts`)
and how many events its environment produces (`MaxEvents`): user requests,
lost replies, failed releases, deaths, lags.  Everything the runs, the handlers
and the healer do by themselves is unlimited.  Two runs are what every property
of this module is about (it is violated by a pair of runs, or by a run and its
successor on the same row), two tasks and two processes are the least that lets
them differ, and a third start is the successor of one of them.  One event is
enough for a run to lose its claim; two let a loss meet a Stop, a deletion or a
restart.  Each property has a mutant of the code that violates it under the same
bounds.  Symmetry is used in the runs that check safety only.

`MCColumnChain` works on a board with a column that waits for a condition and
moves its card on, one that assigns, runs an agent and moves on in a second
transition, and one that assigns.  The card may have two functions at work at once: the parent chain and the entry its
move starts, or a dispatch and a direct run.  A process has one entry of
`_processingTasks` for the card, so a third function can add only a deferral or
a run beside them; the safety properties also hold with three functions and two
events, in a search that is too long to repeat each time.  Three events
let a move, the return of the card and a crash, a Stop or another move fall into
one chain, which is what the mutants of `MarkersFit` and `NothingSkipped` need.
The run `column_entry` has two events, no move by a user, one move per run and
no crash.  These bounds are part of its claim: the code drops the entry of a card
that leaves its column and comes back while the chain of its first stay is
ending, so with such a return `EntryHandled` does not hold, and with a crash
right after a move it cannot (section 6).  What the run shows is that deferrals,
retries, continuations and the recheck do not leave an entry to one another
where no card comes back that soon.

`MCTaskLock` has two processes with pools of two connections and one, three
tasks and three dispatches, a cap of two locks and two faults: a process that
reaches its cap, one that waits for a connection, and a task that is wanted by
both; the second fault lets an unlock fail on a connection whose process then
dies.  The cap of the code, six, only enlarges the sets.

`MCRecurrence` has two processes whose ticks race, one request at a time beside
them, four runs - enough for two cycles, a manual run and an adopted card -
retention of one run, two periods and two requests (a rule, and what changes,
runs, deletes or removes it), and two events (a run that
moves, a write that fails, a process that dies).

`MCTerminal` has three requests in flight at once, two of them opening a
session, two sessions, so that one replaces or outlives the other, two projects,
one configuration beside none, two events (a deletion, a switch, an idle timer,
an exit) and two faults (a failed open, a failed kill, an unanswered probe, a
restart): a kill that fails and the probe after it, or a failure and a restart.

`MCCodexTokens` has two agents and two replicas, two tokens, two requests, one
fault and two attempts of a save: a login and a rotation, or two rotations, are
what the properties tell apart, and a fault may be a lost notice, a failed
probe, a request that ends without an answer.  Its constraint `NoLapse` cuts a history at
its first lapse (section 2.13), because `NewestIsMirrored` says
nothing of it afterwards; that `CachesSettle` holds beyond it is proved.

`MCCodeIndex` has two files, two contents, two operations of any kind, two edits
and one fault: an edit and its revert around the two halves of a sync, or two
files that change while the one that is read does not.

Deadlock is not checked: a system whose cards are all closed, or whose budgets
are used up, has nothing left to do.

Fairness (`RunClaims!Fairness`).  Weak fairness on what a run does by itself
(awaited calls return), on its heartbeat finding the claim gone, on the verdict
poll of a run that waits for a terminal (timers), on time passing over an
unattended claim, and on the healer, which sweeps every minute in every process:
it has to heal only a claim that it could heal from some moment on.  No turn has
to end, no terminal to fall silent, no user has to do anything, no agent has to
answer.  So `LostRunEnds` promises an end to the runs that wait for a terminal
only (a headless turn awaits `sendMessage` and sees no signal before it returns),
and `OrphanClaimHealed` heals a claim no run attends to unless its agent's
terminal is found active again and again.

Fairness (`ColumnChain!Fairness`).  Weak fairness on the steps of an entry, of a
chain and of a dispatch (awaited calls return) and on the boot's re-arm; weak
fairness on the healer; strong fairness on reading the row and the workflow (a
workflow that cannot be read is not unreadable for ever), on being granted the
advisory lock (free again and again) and on the recheck (every five seconds,
while other functions come and go).  No run has to end, no terminal to fall
silent, no action has to find an agent: an action
that is `Unable` for ever is retried for ever.

## 4. What is proved

`tlapm` checks every leaf of the theorems below, for any sets of processes,
agents, tasks, columns, runs and fibers that satisfy the named assumptions of the
modules.

| theorem | module | what it establishes |
| --- | --- | --- |
| `TypeCorrect` | `RunClaimsProofs` | Every variable keeps its type for any number of processes, agents, tasks and runs; a run that is not idle always has its job. |
| `ClaimsExclusive` | `RunClaimsProofs` | No agent ever holds two claims over live rows, for any number of processes and any pattern of crashes, stops and restores. |
| `ClaimsAreLeases` | `RunClaimsProofs` | The claims in the tasks table implement AgentLease: each step grants one free lease, ends one, or touches none. |
| `ReservationsExclusive` | `RunClaimsProofs` | In each process no two runs share an agent or a task, and the maps of agentSelector.ts name exactly the runs there are. |
| `OneTaskAtOnce` | `RunClaimsProofs` | With one process, no two live turns ever drive one agent, whatever becomes of the claims. |
| `LossesAreNotForgotten` | `RunClaimsProofs` | A run whose heartbeat found its claim gone still finds the Stop signal until it looks, in every interleaving of any number of processes, unless clear-stopped, a deletion, a purge or an overtaken start took the signal; no dispatch, explicit start, other run, Stop, move, Halt or heal does. |
| `ReleasesAreOwn` | `RunClaimsProofs` | With one process, a release clears only the claim its own run wrote. |
| `LeasesExclusive` | `AgentLeaseProofs` | AgentLease keeps its promise: no agent has two leases and no task is leased twice. |
| `TypeSafe` | `ColumnChainProofs` | The row, the maps and the local variables of the fibers keep their types for every workflow, any number of processes and fibers; a chain at an action always stands inside its workflow. |
| `ChainIsExclusive` | `ColumnChainProofs` | In no process are two chains of a card ever at work, in any interleaving of entries, rechecks, continuations, runs and crashes. |
| `MarkersAlwaysFit` | `ColumnChainProofs` | The pending marker and the resume point of a row are always those of the column it is in, whoever writes them and however late. |
| `NothingIsSkipped` | `ColumnChainProofs` | While one process serves the board, on any board and in any interleaving of entries, retries, condition chains, moves, users and crashes, an action is performed only when all those before it in its transition took effect. |
| `NothingIsLeftOut` | `ColumnChainProofs` | While one process serves the board, a chain that ends in its column without a move has performed every action of its transition: no resumption, deferral, abort or restart leaves one behind a point that is then cleared. |
| `NothingIsRepeated` | `ColumnChainProofs` | While one process serves the board, no action of an on_enter chain that the row holds to be complete is performed again, whatever was deferred, retried, healed or restarted in between. |
| `TypeCorrect` | `TerminalProofs` | Sessions, coroutines, locals and the tmux session keep their types, for any number of sessions, requests, projects and configurations. |
| `HandedOutInProject` | `TerminalProofs` | A session is handed to a viewer or a task only in the working copy the agent is on, also when opening one may fail, for any number of sessions and requests. |
| `IdleAreTimed` | `TerminalProofs` | A live session nobody looks at has its idle timer armed or is being closed, whatever the order of viewers, evictions, exits and closes, also when opening one may fail, for any number of sessions and requests. |
| `CredentialsAreWatched` | `TerminalProofs` | Unless a CLI was left behind by an unanswered probe, by an open that failed or by a restart of the runner, its credentials are mirrored for as long as it runs, whoever closes, replaces or takes over its sessions, for any number of sessions and requests. |
| `TypeCorrect` | `TaskLockProofs` | Connections, session locks, maps and dispatches keep their types, for any pools, processes and tasks; the count of a lock is never negative. |
| `LocksAreOwn` | `TaskLockProofs` | What a dispatch is about to release is always the lock it took, whatever connections and processes die and however the pools are shared. |
| `SlotsWithinCap` | `TaskLockProofs` | No process ever holds or acquires more locks than the cap, and every slot taken is that of a dispatch at work. |
| `ConnectionsAccountedFor` | `TaskLockProofs` | A connection is checked out of its pool exactly while one dispatch or one unlock uses it. |
| `LocksAreMutex` | `TaskLockProofs` | The locks of database/locks.ts implement TaskMutex: in every step a free task is granted to one dispatch, or owners end, for any number of processes and faults. |
| `TypeCorrect` | `RecurrenceProofs` | The rule, its runs, the ticks and the requests keep their types, for any number of processes, requests and runs and without a bound on time. |
| `FlagsAreTicks` | `RecurrenceProofs` | In every process the flag of the tick is up exactly while a tick is at work, whichever of its steps fails and whenever the process dies. |
| `DeletedForGood` | `RecurrenceProofs` | No spawn, edit or tick that has read the rule before it was deleted brings it back or claims a cycle of it, until an administrator restores it; and a rule whose row is removed is neither written nor claimed again once the spawns and edits that had read it are over. |
| `CyclesFireOnce` | `RecurrenceProofs` | As long as no step has trusted an overtaken read of the rule, every cycle that was claimed took a period of its own, for any number of racing ticks. |
| `SkippedRunsNeverOverlap` | `RecurrenceProofs` | With the policy 'skip' no tick starts a run while one that a tick started is unfinished, in any number of processes, as long as nothing the code takes for unlikely has happened. |
| `NewestAreKept` | `RecurrenceProofs` | As long as nothing the code takes for unlikely has happened, every run the retention sweep deletes leaves Keep finished runs behind that were created after it: the order of the numbers is that of creation, also with an adopted card among the runs. |
| `TypeCorrect` | `CodexTokensProofs` | The store, the caches, the files, the watchers and the saves keep their types, for any number of agents and replicas; no token is ahead of the provider's. |
| `NewestMirrored` | `CodexTokensProofs` | As long as no loss the code leaves open has happened (the lapses README section 6 lists), the token the provider still honours is in the row or on its way there, for any number of agents, replicas, refreshes and attempts. |
| `CachesAreFresh` | `CodexTokensProofs` | A replica with nothing to hear, to read or to insert serves no token older than the row's, for any number of replicas, however long a GET takes to cache what it read: unless its last notice was lost or it read the row twice at a time. |
| `TypeCorrect` | `CodeIndexProofs` | Nothing that is missing is ever used as an index, for any number of operations, files and edits. |
| `CacheSaved` | `CodeIndexProofs` | The object the operations share is what index.json says whenever nobody is writing, whatever failed before. |
| `MatchesAreRead` | `CodeIndexProofs` | A record with a file's mtime has its content, whatever edits fall between the listing and the reading of files. |
| `SyncsAgree` | `CodeIndexProofs` | Every file that was not changed since the last index, sync or update of it looked agrees with index.json, whatever failed in between. |
| `VectorsKeepUp` | `CodeIndexProofs` | When nobody writes, every symbol of the index has the vector of its content, or it has none and the next search finds too few and adds it, for any number of files, operations, searches and restarts. |

The argument.  `TypeInv` is `TypeOK` plus "a request in the phase that writes a
column has one", without which the write of a move is not well typed.
`ReservationInv` strengthens `ReservationExclusive` with its converse, "an entry
of the maps is a run in progress": without it a closure called twice might free
an entry that was taken again.  `LossInv` says that a told run whose
signal nobody dropped still has it, and that a run is told of a loss only once
it has claimed.  The clears of the dispatches, of an explicit start and of other
runs come after the reservation of their task, and `ReservationInv` says that
nobody else of the process has that reservation; the clears that look at no
reservation - `DropSignals` - record in `dropped` whose signal they took.  What
the theorem says is that these are all.  `OwnerInv` ties the history variable to the run whose reservation
covers the row; with one process the reservation outlives the claim, so nobody
else can have written it.  The steps are classified once by what they do to the
claims (`LeaseEffect`), to the reservations (`ReservationEffect`) and to the
signals (`SignalsKept`, `LossOfDrop`), and each invariant is proved over the classes.

`OneTaskAtOnce` and `ReleasesAreOwn` assume `OneProcess`.  The assumption is
needed: with two processes a late release makes the second one false (section
6), and a run whose heartbeats do not land may be healed by a sibling while it
still drives its agent, which makes the first one false.

For `ColumnChain` the invariant `IInv` has two halves.  `TypeInv` types the
state and places the fibers in the workflow: a fiber at an action stands at an
action that exists (`FrameFits`), without which what it writes to the row would
not be a resume point of the column, and one about to move the card stands at a
change of status.  Its row half, `RowInv`, is `MarkersFit`: it is inductive with
`FrameFits`, because every write of a chain is guarded by the column of its
frame (`MarkersWritten`) and every move clears what was there (`RowMoved`).
`ChainInv` strengthens `ChainExclusive` with "a fiber at work finds its
process's `_processingTasks` taken": without it a fiber could enter beside one
at work.  The lemmas `EnterEffect`, `BesideEffect`, `LeaveEffect`, `BeginEffect`
and `FiberAdvances` prove the invariant once for each way a fiber starts, ends
or goes on, and the steps cite them.  The workflow is any function from columns
to sequences of transitions, with any number of processes and fibers.

`NothingIsSkipped` rests on `OrderInv`: the resume point in the row, and the one
each fiber has in its own memory, never lie beyond the actions that took effect
(`PointFollows`, `Follows`), for each phase a fiber may stand in.  The row half
holds because a move clears the point, whoever makes it; the step that could
break the memory half is `Mark`, the only one that forgets effects, and there
`OneProcess` and `ChainInv` leave no other fiber that remembers one.
The same invariant says of a chain about to clear its markers, still in its
column and with no move, that it took effect to its last action
(`NothingIsLeftOut`).  `NothingSkipped` cannot see this: an action that is left
out at the end has none performed after it, and once the markers are cleared
nothing would retry it.
`NothingIsRepeated` rests on `RecordInv`, in the other direction: the recorded
on_enter actions lie behind the resume point, of the row and of the fiber at
work (`Behind`, `Beyond`), or that point is a condition's, whose end ends the
chain; and where something is recorded the row is armed, unless a chain is at
work or all its fibers have died, so that no chain begins there without reading
the point.  `RecordInv` assumes nothing about the board: columns may mix
on_enter transitions and conditions in any order.  The theorems on order assume
`OneProcess`, and need it: with two processes TLC finds `NothingSkipped` and
`NothingRepeated` violated, by two chains that write the markers of one row in
turns - the disagreement of the run `chain_twice`.

`TaskLock`.  `SlotInv` says that a slot - an entry of `acquiring` or of `held` -
belongs to one dispatch, which is `ReleasesOwnLock` with what makes it inductive;
`CapInv` is the cap over both kinds of slot, tested before anything is awaited.
`OwnConn` and `ConnInv` give each connection that is out of its pool one user, a
dispatch or an unlock.  `LockInv` says that the session of an owner has the lock
of its task and that the server gives a lock to one session at a time, whatever
leaked ones have.  The refinement of `TaskMutex` follows: a step of a dispatch or
a fault is one `Grant` or one `End`.

`Recurrence`.  `DueInv` bounds `fired` by the reference time a tick has read, as
long as no stale row was written back: the compare-and-set lets one of the ticks
that have read the same reference pass.  `SpawnInv` follows that cycle to its
run, and `SkipInv` says a tick about to insert under the policy `skip` has seen
every earlier run of a tick out of the way, because no cycle was claimed since.
`DeletedForGood` needs no invariant but types: each step from a deleted rule
leaves it so or is a restoration, and once the row is removed and no spawn or
edit that had read it is left (`GoneForGood`) nothing can read it again.  Before
that such a write makes the rule anew, and the theorem does not say otherwise.
`NewestAreKept` rests on `NumberInv`: the runs are created one after the other
(`CreatedInv`), and while no rule was written back from a stale read their
numbers follow that order (`OrderInv`), the adopted card, numbered late, being
the oldest.  A sweep deletes every run that `Keep` finished ones are newer than:
`Keep` of them are newer than the last one it deletes, and they stay
(`SweepKeeps`).

`Terminal`.  `Locals` says what each coroutine at work has; `LockInv` that only
the holder of the agent's lock opens and switches; `ProjectInv` that what an
opener prepared is of the project selected, from the moment it took the lock to
the moment the session is handed out (`HandingOut`), since a switch needs the
same lock.
`StructInv` adds what the last two theorems rest on: a
close past its last look has closed its session, a viewer is one of one session
only, a session being opened is out of reach of every close (`FreshInv`), and a
reaper is armed, closing or gone.  With it `IdleIsTimed` is inductive.
`WatchInv` strengthens `CredentialsWatched` with the session that was closed
while it was being opened: its CLI has died, is watched, or a close at work is
about to hand it over.  Both excuse a CLI that was left behind
(`orphaned`), which ends when a session attaches to it, when it is killed or
replaced, or when a probe answers.

`CodexTokens`.  `WatchInv`: an agent whose CLI may write is watched or will be
compared when its execution ends.  `MirrorInv` is `NewestIsMirrored`
without the inserts: a save waits for its own insert, so that it, a file or the
row has the token throughout.  Both hold as long as `lapses` is empty.
`CacheInv` holds whatever has lapsed.  A replica that is not behind reads the row
once at a time (`One`), for a notice or for a GET, and what it has read is the
row's, or a notice is under way that will make it read again (`Current`); so is
what it has cached, unless it is about to insert that token or to overwrite it
with what it reads (`Fresh`).  A late write of a GET is covered by this: the row
it read was overtaken by an insert, and the insert has notified the replica.

`CodeIndex`.  `LockInv` gives the repository to one writer; `MadeInv` says an
operation works on an object some operation has made, or shares the cached one.
`CacheInv` extends `CacheIsSaved` to a writer at work (`Dirty` objects).
`MatchInv` carries "a record with the mtime of the file has its content" through
everything that may become an index: `index.json`, all parsed objects, what a
sync has seen and is about to read (`Sound`), with the mtimes of the disk unique
to a content (`DiskInv`).
`SyncInv` rests on all three: `LooksRight` follows what an operation has seen of
the files nobody has changed since, and needs `MatchInv` for those a sync takes
for unchanged; `SavesRight` says what it will save, and needs `CacheInv` for an
update, which speaks for one file and repeats the index for the others.
`VectorsKeepUp` rests on `VectorInv`, about the index whose vectors those of the
store are (`Current`): the saved one, or the object of a writer once it has
removed from the vectors what it will add again; an index from scratch is
nobody's before it has all its vectors.  Of that index every symbol has its
vector (`Complete`), or (`Partial`) the store is in memory, nothing was rebuilt,
no vector is of anything else, and every object a search may fill it from
(`Source`: the saved index, the cached one, those searches hold) has the content
that is missing.  `Ready` adds where a writer begins, with the saved index, which
it has from `CacheInv`.  A search that fills the store turns `Partial` into
`Complete`; a restart turns `Complete` back, in memory only.  Since the vectors of
`Partial` are a proper subset of the symbols, the comparison of two counts by
which `_ensureMemoryVectors` decides finds them missing (the theorem on
cardinalities of finite sets).


## 5. What is only model-checked, and what is not modelled

Liveness (`LostRunEnds`, `OrphanClaimHealed`) is out of reach of the prover and
rests on the run `liveness`, as do `EntryHandled` and `ArmedIsRetried` on the
run `column_entry`.  Every safety property and action property of the runs that
pass is proved, those those that need it with one process (`OneProcess`).  The findings are counterexamples on small
instances.

Not modelled, beyond what sections 2.3 to 2.15 leave out: the polls and reminders
of a run that waits for its verdict; the gap between the guard of `DELETE` and its soft delete (`routes/tasks.ts:1056`);
the sliding window of `rateLimiter.ts`; the accounting of tokens from the CLIs'
logs (`src/runner-service/src/usage_watcher.py`).  The greater part of the
repository is not protocol: prompts and their parsing, HTTP clients of vendors,
CRUD, and a frontend that renders what the server decides.  `PROJECT.json` lists
each component that has no module, with the reason.

## 6. Findings

- **StoppedOnRequest** (`src/api/src/services/workflow/actionExecutor.ts:1017`, run `late_stop`). The catch of an aborted run writes execution_status = 'stopped' with no guard (actionExecutor.ts:1017, and agentManager/tasks.ts:2513 for a resume). A user's move of a running card first stops the run (persist, abort), then resets execution_status with the new column; the aborted turn's catch may come after that write and marks the moved card stopped in its new column, where neither the workflow nor a claim will touch it any more. The move's own comment says (src/api/src/services/taskMutations.ts:362) "A column move starts the new column fresh: no run state".
- **NeverTwoChains** (`src/api/src/services/workflow/workflowEngine.ts:176`, run `chain_twice`). The advisory lock is taken by the recheck's dispatches only (_dispatchUnderLock). A direct column entry - a move, an execution asked by a user in another process - takes the card in its own process's _processingTasks, without the lock, and evaluates and performs the transitions of the same column, so both processes are in one chain at once and an assignment or a change of status is performed twice. The comment of recheckPendingTransitions says (src/api/src/services/workflow/workflowEngine.ts:818) the lock "makes the loop above safe when replicas share the DB: every replica sees the same DB tasks, and only the lock holder processes a given task".

Other behaviours of the code that the modules have, and that the properties
exclude by their statement or their bounds:

- **A lost claim that is forgotten.**  A heartbeat that finds its claim gone
  raises the signal once (`workflow/runClaims.ts:71`).  PATCH `clear-stopped`
  (`src/api/src/routes/tasks.ts:961`), both deletions
  (`agentManager/tasks.ts:932`, `956`) and the purge (`1525`, which takes every
  signal when its query of the tasks fails) drop the signal without looking at
  the runs.  So does `executeTask`: it checks that no run of the task is in
  progress, awaits the runner (`1066`) and then clears (`1118`), although the
  comment above says a rejected resume "must not disturb the workflow"
  (`agentManager/tasks.ts:1044`).  A run that had been told goes on until its own
  end.  `LossIsNotForgotten` and `LostRunEnds` excuse these runs (`dropped`).
- **A claim kept by a terminal.**  The healer keeps a stale claim while the
  terminal of its agent is active (`workflow/workflowEngine.ts:725`), also when
  what is active is not the lost run but a user who types: the agent stays
  claimed.  `OrphanClaimHealed` excuses it.
- **A Stop that lands in `executeTask`.**  With a target column, `executeTask`
  reserves, awaits the write that prepares the task, then drops the signal
  'stopped' and resets `execution_status` (`agentManager/tasks.ts:1118`).  A Stop
  in between is erased in both places and the claim succeeds, although
  `database/tasks.ts:1657` says "A task the user stopped is never claimed (its
  Stop may land before the claim)".  `RunClaims!PrepareRow`,
  `ForgetSignal`, `ForgetStop`.
- **A late release, with two processes.**  A run stopped through another process
  releases after the task's next run was claimed there for the same agent: the
  guard of the release is the agent, so it clears that claim
  (`database/tasks.ts:1742`).  `ReleasesOwnClaim` is checked and proved with one
  process.
- **A card that comes back.**  A card that leaves its column and returns while
  the chain of its first stay is ending finds itself processed "in the same
  column", and its entry is dropped (`workflow/workflowEngine.ts:171`).  Two moves
  by a user do it, or a move by an agent at work in a card its user resumed.
- **Actions of the closed column.**  If 'done' has actions, the entry of a card
  that a resumed agent closes is deferred, no chain is there to continue with it,
  and the recheck does not read closed cards (`database/tasks.ts:755`).
- **A crash after a move.**  Nothing in the row tells a card whose new column was
  never begun from one whose actions are over (`workflow/workflowEngine.ts:340`).
- **A slow close.**  A close without the agent's lock may end after an opener,
  finding the closing session not alive, has registered its replacement: it then
  removes the replacement from the registry, or kills its tmux session
  (`src/runner-service/src/pty_session.py:2205`).
- **A CLI left behind.**  A CLI that survives a failed kill is handed to a
  detached watcher only if `has-session` answers, and a detached watcher ends the
  first time it does not (`src/runner-service/src/pty_session.py:859`, `593`);
  opening cancels the detached watcher before the new session has one (`2321`)
  and may then fail; and a tmux server that survives the runner's process has
  nobody who watches it (`876`).  The CLI then runs, and rotates its token,
  unwatched until a session attaches to it.  `Terminal!CredentialsWatched`
  excuses it as `orphaned`, `CodexTokens!NewestIsMirrored` as the lapse
  `unwatched`.
- **A rule rewound.**  A manual run or an edit writes back the whole row it has
  read, with the reference time a tick has claimed in between: the cycle fires
  again (`agentManager/tasks.ts:781`).
- **A removed rule that comes back.**  `saveTaskToDb` is an upsert
  (`database/tasks.ts:514`): a spawn or an edit that has read a rule before an
  administrator removes its row (`src/api/src/routes/tasks.ts:1111`) inserts it
  again, not deleted, and it fires.  `Recurrence!SaveRule`; `StaysDeleted` speaks
  of a removed rule only once such writers are over.
- **An older token saved over a newer one.**  Two saves that overlap are each
  newer than what they compared with (`codex_token_store.py:151`).
- **A cache that falls back.**  Two readings of the row at one replica may end in
  the other order: a GET that has read it before a login and caches it after the
  reload the login's NOTIFY started (`database/oauthTokens.ts:98`, `442`) puts
  the older token over the newer, and it is served until the next notice.
  `CachesSettle` leaves these replicas out (`behind`), with those whose notice
  was lost.
- **A record stale for ever.**  An update reads the content and the mtime of its
  file in parallel (`codeIndexService.ts:1744`): an edit in between records the
  new mtime with the old content, and no sync reads the file again.  The comment
  above it says the mtime is recorded only with the content on disk.
- **A deleted index that answers.**  A reader that takes no lock caches the index
  it has read after a writer dropped the cache (`codeIndexService.ts:648`).

## 7. Plan

The order follows the damage a fault would do: who runs what (`RunClaims`),
then what a card's column does (`ColumnChain`), then what both rest on, then the
service the agents run in.

| step | module | what it models | state |
| --- | --- | --- | --- |
| 1 | `AgentLease`, `RunClaims` | claims, reservations, signals, healer | done: runs `two_processes`, `one_process`, `liveness`, `late_stop`; seven theorems |
| 2 | `ColumnChain` | chains of actions, markers, deferral, recheck, continuation | done: runs `column_chain`, `column_entry`, `chain_twice`; six theorems, every safety property proved |
| 3 | `TaskMutex`, `TaskLock` | the locks of `database/locks.ts` under `_dispatchUnderLock` | done, with the refinement proved |
| 4 | `Recurrence` | the tick, the claim of a cycle, the spawn, the skip policy, retention | done: every property proved |
| 5 | `Terminal` | the sessions of an agent's terminal | done: every property proved |
| 6 | `CodexTokens` | the mirroring of rotating credentials | done: every property proved |
| 7 | `CodeIndex` | the index of a folder and its vectors | done: every property proved |
| 8 | `ExecutionWait` | `_waitForExecutionComplete`, `_pollTaskVerdict`, reminders, `_drainCliRun` against verdicts, Stop and timeouts | open: a verdict is consumed once and by the run it was given to; a wait ends; no reminder after the verdict |
| 9 | `ColumnChain` | two cards competing for one agent (`ColumnChain` over `AgentLease`) | open: the abstract specification of a column, "its actions, in order, each at least once, begun after every entry", and the refinement |
| 10 | proofs | `NothingSkipped` and `NothingRepeated` with one process, `PurgeKeepsNewest`, `VectorsFollow` | done: `OrderInv`, `RecordInv`, `NumberInv`, `VectorInv` (section 4) |
| 11 | token usage | `usage_watcher.py`, `jsonl_tail.py`, `usage_reporter.py`, `database/tokenUsage.ts` | open: each entry of a CLI's log is counted once, through restarts and failed reports |
| 12 | rate limiter | the sliding window of `rateLimiter.ts` and its queue | open |

