------------------------------ MODULE ColumnChain -----------------------------
(***************************************************************************)
(* The actions of the column a card is in (workflow/workflowEngine.ts).     *)
(*                                                                         *)
(* When a card enters a column, the column's transitions fire one after     *)
(* the other; each is a chain of actions.  The chain leaves markers in the  *)
(* row as it goes (pending_on_enter, resume_transition_idx,                 *)
(* completed_action_idx), so that an action that could not run is retried   *)
(* by the periodic recheck, and a chain whose process died resumes where it *)
(* stopped.  A chain that moves the card goes on in the new column.         *)
(*                                                                         *)
(* One card, any number of processes sharing its row.  The async functions  *)
(* at work on it are fibers; a step of a fiber is one stretch of code       *)
(* without an await, or one SQL statement.                                  *)
(***************************************************************************)
EXTENDS Integers, Sequences

CONSTANTS
    Process,      \* the API processes of the card's environment
    Fiber,        \* the async functions that may be at work at once
    Column,       \* the columns of the board
    Active,       \* the columns of work: neither backlog, done nor error
    DoneColumn,   \* 'done'
    ErrorColumn,  \* 'error'
    FirstColumn,  \* where cards are added
    Workflow,     \* Workflow[c]: the transitions out of column c
    NoColumn,     \* NULL in a column of the row, no entry in a map
    NoFiber,      \* no run, no lock
    Orphan        \* the claim of a process that died

(* An action is an assignment, the run of an agent, or a change of status. *)
Action == [type : {"assign", "run"}] \cup [type : {"move"}, to : Column]

Transition == [trigger : {"on_enter", "condition"}, actions : Seq(Action)]

ASSUME ConstantsAssumption ==
    /\ Active \subseteq Column \ {DoneColumn, ErrorColumn}
    /\ {DoneColumn, ErrorColumn, FirstColumn} \subseteq Column
    /\ DoneColumn # ErrorColumn /\ FirstColumn # ErrorColumn
    /\ Workflow \in [Column -> Seq(Transition)]
    /\ NoColumn \notin Column
    /\ NoFiber \notin Fiber /\ Orphan \notin Fiber /\ Orphan # NoFiber

VARIABLES
    row,         \* the card's row
    lock,        \* the fiber holding the card's advisory lock
    processing,  \* processing[p]: the card's entry in _processingTasks
    checking,    \* checking[p]: it has one in _conditionProcessing
    running,     \* running[p]: the fiber of p that reserved the card
    rearmed,     \* rearmed[p]: the one-shot re-arm of the boot is done
    printing,    \* the terminal of a run whose process died is still at work
    pc, frame,   \* the fibers: where each stands, and its local variables
    \* History, read by the properties alone.
    effects,     \* the actions that ran since their chain last began
    recorded,    \* those the row has recorded since it entered its column
    owed         \* the card is in a column whose actions have not begun

memoryVars == <<processing, checking, running, rearmed, printing>>
fiberVars == <<pc, frame>>
historyVars == <<effects, recorded, owed>>
vars == <<row, lock, memoryVars, fiberVars, historyVars>>

(* A resume point: the transition that was interrupted and how many of its *)
(* actions are complete (completed_action_idx + 1).                        *)
NoPoint == [transition |-> 0, completed |-> 0]
Point == [transition : Nat, completed : Nat]

Row == [status : Column, pending : Column \cup {NoColumn}, point : Point,
        stopped : BOOLEAN, claim : Fiber \cup {NoFiber, Orphan}]

Kind == {"entry", "retry", "condition", "direct"}

(* column: the one whose actions the fiber runs; work: the status of its   *)
(* working copy of the card; moved: its action reported a change of status.*)
Frame == [proc : Process, kind : Kind, column : Column, work : Column,
          resume : Point, transition : Nat, action : Nat, moved : BOOLEAN]
NoFrame == [kind |-> "none"]

(* The phases in which a fiber holds the card's entry of _processingTasks. *)
ChainPhase == {"read", "rearm", "next", "mark", "act", "run", "move", "record",
               "sync", "flag", "skipped", "fail", "clear"}
Phase == {"idle", "defer", "lock", "prepare", "unstop", "claim", "direct",
          "continue", "release"} \cup ChainPhase

TypeOK ==
    /\ row \in Row
    /\ lock \in Fiber \cup {NoFiber}
    /\ processing \in [Process -> Column \cup {NoColumn}]
    /\ checking \in [Process -> BOOLEAN]
    /\ running \in [Process -> Fiber \cup {NoFiber}]
    /\ rearmed \in [Process -> BOOLEAN]
    /\ printing \in BOOLEAN
    /\ pc \in [Fiber -> Phase]
    /\ frame \in [Fiber -> Frame \cup {NoFrame}]
    /\ \A f \in Fiber : pc[f] # "idle" => frame[f] \in Frame

Init ==
    /\ row = [status |-> FirstColumn, pending |-> NoColumn, point |-> NoPoint,
              stopped |-> FALSE, claim |-> NoFiber]
    /\ lock = NoFiber
    /\ processing = [p \in Process |-> NoColumn]
    /\ checking = [p \in Process |-> FALSE]
    /\ running = [p \in Process |-> NoFiber]
    /\ rearmed = [p \in Process |-> FALSE]
    /\ printing = FALSE
    /\ pc = [f \in Fiber |-> "idle"]
    /\ frame = [f \in Fiber |-> NoFrame]
    /\ effects = {} /\ recorded = {} /\ owed = FALSE

-----------------------------------------------------------------------------
(* What the steps are made of.                                             *)

Transitions(c) == Workflow[c]
Actions(c, t) == Workflow[c][t].actions
OnEnter(c) == \E t \in DOMAIN Workflow[c] : Workflow[c][t].trigger = "on_enter"

(* The chain of a fiber, and the action it has come to. *)
Chain(f) == Actions(frame[f].column, frame[f].transition)
Step(f) == Chain(f)[frame[f].action]
Position(f) == <<frame[f].column, frame[f].transition, frame[f].action>>

(* A fiber that has the card's entry of its process's _processingTasks. *)
InChain(f) == \/ pc[f] \in ChainPhase
              \/ pc[f] = "lock" /\ frame[f].kind = "condition"

Occupied(p) == processing[p] # NoColumn \/ running[p] # NoFiber

(* The card is one the recheck looks at: the query, and the tests on top.  *)
Open == row.status \notin {DoneColumn, ErrorColumn} /\ ~row.stopped

ResumePoint(r) == IF r.pending = r.status THEN r.point ELSE NoPoint

Goto(f, phase) == pc' = [pc EXCEPT ![f] = phase]

(* Mutant of WriteMarkers: the update names the task alone. *)
WriteMarkers_Unguarded(f, pending, point) ==
    row' = [row EXCEPT !.pending = pending, !.point = point]

(* updateTaskFields with an expected status: a no-op once the card left.   *)
WriteMarkers(f, pending, point) ==
    row' = IF row.status = frame[f].column
           THEN [row EXCEPT !.pending = pending, !.point = point]
           ELSE row

(* Mutant of Moved: the resume point survives the move. *)
Moved_KeepsPoint(r, c) == [r EXCEPT !.status = c, !.pending = NoColumn,
                                    !.stopped = FALSE]

(* What a change of column writes. *)
Moved(r, c) == [r EXCEPT !.status = c, !.pending = NoColumn, !.point = NoPoint,
                         !.stopped = FALSE]

EntersColumn(c) == /\ recorded' = {}
                   /\ owed' = OnEnter(c)
                   /\ UNCHANGED effects

(* Mutant of EntryPhase: only a run of the card defers its entry. *)
EntryPhase_RunsOnly(p, c, kind) ==
    IF c # ErrorColumn /\ running[p] = NoFiber THEN "read"
    ELSE IF c # ErrorColumn /\ c # processing[p] THEN "defer"
    ELSE IF kind = "retry" THEN "release" ELSE "idle"

(* The synchronous start of processColumnEntry, in fiber f of process p, on *)
(* a snapshot of the card in column c: take the card, or leave a marker     *)
(* unless the column is the one being processed.  A retry has its dispatch  *)
(* to close when it ends here.                                             *)
EntryPhase(p, c, kind) ==
    IF c # ErrorColumn /\ ~Occupied(p) THEN "read"
    ELSE IF c # ErrorColumn /\ c # processing[p] THEN "defer"
    ELSE IF kind = "retry" THEN "release" ELSE "idle"

NewFrame(p, c, kind, resume, t) ==
    [proc |-> p, kind |-> kind, column |-> c, work |-> c, resume |-> resume,
     transition |-> t, action |-> 0, moved |-> FALSE]

Enter(f, p, c, kind) ==
    LET phase == EntryPhase(p, c, kind)
    IN  /\ Goto(f, phase)
        /\ frame' = [frame EXCEPT ![f] = IF phase = "idle" THEN NoFrame
                                         ELSE NewFrame(p, c, kind, NoPoint, 0)]
        /\ processing' = IF phase = "read" THEN [processing EXCEPT ![p] = c]
                         ELSE processing

(* The caller g of a move goes on at `phase` while the entry of the new     *)
(* column starts in a fiber of its own.                                     *)
EnterBeside(f, g, c, phase, next) ==
    LET p == frame[g].proc
        at == EntryPhase(p, c, "entry")
    IN  /\ pc' = [pc EXCEPT ![f] = at, ![g] = phase]
        /\ frame' = [frame EXCEPT ![g] = next,
                        ![f] = IF at = "idle" THEN NoFrame
                               ELSE NewFrame(p, c, "entry", NoPoint, 0)]
        /\ processing' = IF at = "read" THEN [processing EXCEPT ![p] = c]
                         ELSE processing

(* The fiber lets go of the card, and of its dispatch if it has one; when   *)
(* its working copy says the card is elsewhere, it continues there.         *)
Dispatched(f) == frame[f].kind \in {"retry", "condition"}

Leave(f, goOn) ==
    /\ processing' = [processing EXCEPT ![frame[f].proc] = NoColumn]
    /\ lock' = IF lock = f THEN NoFiber ELSE lock
    /\ checking' = IF Dispatched(f) THEN [checking EXCEPT ![frame[f].proc] = FALSE]
                   ELSE checking
    /\ Goto(f, IF goOn THEN "continue" ELSE "idle")
    /\ frame' = [frame EXCEPT ![f] = IF goOn THEN @ ELSE NoFrame]
    /\ UNCHANGED <<running, rearmed, printing>>

-----------------------------------------------------------------------------
(* What users and the task loop do to the card.                            *)

UserMove(f, p, c) ==
    /\ pc[f] = "idle"
    /\ row.status # c
    /\ row' = [Moved(row, c) EXCEPT !.claim = NoFiber]
    /\ EntersColumn(c)
    /\ Enter(f, p, c, "entry")
    /\ UNCHANGED <<lock, checking, running, rearmed, printing>>

UserStop ==
    /\ ~row.stopped
    /\ row' = [row EXCEPT !.stopped = TRUE, !.claim = NoFiber]
    /\ owed' = FALSE
    /\ UNCHANGED <<lock, memoryVars, fiberVars, effects, recorded>>

(* A card in error is restored by a move instead. *)
ClearStopped ==
    /\ row.stopped /\ row.status # ErrorColumn
    /\ row' = [row EXCEPT !.stopped = FALSE]
    /\ UNCHANGED <<lock, memoryVars, fiberVars, historyVars>>

(* A user executes a card that lies in a column of no work. *)
Reenter(f, p) ==
    /\ pc[f] = "idle"
    /\ row.status \notin Active
    /\ running[p] = NoFiber /\ row.claim = NoFiber
    /\ row' = [row EXCEPT !.stopped = FALSE]
    /\ recorded' = {}
    /\ Enter(f, p, row.status, "entry")
    /\ UNCHANGED <<lock, checking, running, rearmed, printing, effects, owed>>

(* A run outside any chain: the task loop, or a user who names no column,   *)
(* resumes an active card.                                                 *)
Claimable(p) == row.claim = NoFiber /\ ~row.stopped /\ running[p] = NoFiber

DirectRun(f, p) ==
    /\ pc[f] = "idle"
    /\ row.status \in Active
    /\ Claimable(p)
    /\ row' = [row EXCEPT !.claim = f]
    /\ running' = [running EXCEPT ![p] = f]
    /\ Goto(f, "direct")
    /\ frame' = [frame EXCEPT ![f] = NewFrame(p, row.status, "direct", NoPoint, 0)]
    /\ UNCHANGED <<lock, processing, checking, rearmed, printing, historyVars>>

(* A user has the card executed in a column of work: it is reserved, put    *)
(* there with its markers cleared and no entry, no longer stopped, claimed. *)
ReserveRun(f, p, c) ==
    /\ pc[f] = "idle"
    /\ c \in Active
    /\ running[p] = NoFiber /\ row.claim = NoFiber
    /\ running' = [running EXCEPT ![p] = f]
    /\ Goto(f, "prepare")
    /\ frame' = [frame EXCEPT ![f] = NewFrame(p, c, "direct", NoPoint, 0)]
    /\ UNCHANGED <<row, lock, processing, checking, rearmed, printing,
                   historyVars>>

PrepareRow(f) ==
    /\ pc[f] = "prepare"
    /\ row' = [row EXCEPT !.status = frame[f].column, !.pending = NoColumn,
                          !.point = NoPoint]
    /\ recorded' = {} /\ owed' = FALSE
    /\ Goto(f, "unstop")
    /\ UNCHANGED <<lock, memoryVars, frame, effects>>

UnstopRow(f) ==
    /\ pc[f] = "unstop"
    /\ row' = [row EXCEPT !.stopped = FALSE]
    /\ Goto(f, "claim")
    /\ UNCHANGED <<lock, memoryVars, frame, historyVars>>

ClaimRow(f) ==
    /\ pc[f] = "claim"
    /\ row.claim = NoFiber /\ ~row.stopped /\ row.status = frame[f].column
    /\ row' = [row EXCEPT !.claim = f]
    /\ Goto(f, "direct")
    /\ UNCHANGED <<lock, memoryVars, frame, historyVars>>

(* The write failed, the executor is busy, the claim was refused. *)
Decline(f) ==
    /\ pc[f] \in {"prepare", "unstop", "claim"}
    /\ running' = [running EXCEPT ![frame[f].proc] = NoFiber]
    /\ Goto(f, "idle")
    /\ frame' = [frame EXCEPT ![f] = NoFrame]
    /\ UNCHANGED <<row, lock, processing, checking, rearmed, printing,
                   historyVars>>

(* The run's claim and its reservation are given back.  A turn that a user   *)
(* aborted - the Stop, or the stop of a move, took its claim away first -   *)
(* marks the card stopped, in whatever column it is by now.                *)
ReleaseRun(f, aborted) ==
    /\ aborted => row.claim # f
    /\ row' = [row EXCEPT !.claim = IF @ = f THEN NoFiber ELSE @,
                          !.stopped = @ \/ aborted]
    /\ running' = [running EXCEPT ![frame[f].proc] = NoFiber]

DirectRunEnds(f) ==
    /\ pc[f] = "direct"
    /\ \E aborted \in BOOLEAN : ReleaseRun(f, aborted) /\ owed' = (owed /\ ~aborted)
    /\ Goto(f, "idle")
    /\ frame' = [frame EXCEPT ![f] = NoFrame]
    /\ UNCHANGED <<lock, processing, checking, rearmed, printing, effects,
                   recorded>>

(* The agent of a run moves the card it works on. *)
AgentMoves(f, g, c) ==
    /\ pc[f] \in {"run", "direct"}
    /\ pc[g] = "idle"
    /\ row.status # c
    /\ row' = Moved(row, c)
    /\ EntersColumn(c)
    /\ EnterBeside(g, f, c, pc[f], frame[f])
    /\ UNCHANGED <<lock, checking, running, rearmed, printing>>

-----------------------------------------------------------------------------
(* The recheck of a process, once every few seconds.                       *)

(* The first of the column's transitions that fires: an on_enter that is    *)
(* armed, a condition that is met - which one being resumed is held to be.  *)
Fires(t) ==
    LET ts == Transitions(row.status)
        armed == row.pending = row.status
    IN  /\ ts[t].trigger = "on_enter" => armed
        /\ \A u \in 1 .. t - 1 :
             /\ ts[u].trigger = "on_enter" => ~armed
             /\ ts[u].trigger = "condition" => ResumePoint(row).transition # u

Recheck(f, p) ==
    /\ pc[f] = "idle"
    /\ Open /\ row.claim = NoFiber
    /\ ~Occupied(p) /\ ~checking[p]
    /\ \E t \in DOMAIN Transitions(row.status) :
        /\ Fires(t)
        /\ LET retry == Transitions(row.status)[t].trigger = "on_enter"
               point == ResumePoint(row)
           IN  /\ frame' = [frame EXCEPT ![f] =
                    IF retry THEN NewFrame(p, row.status, "retry", NoPoint, 0)
                    ELSE NewFrame(p, row.status, "condition",
                                  IF point.transition = t THEN point ELSE NoPoint, t)]
               /\ processing' = IF retry THEN processing
                                ELSE [processing EXCEPT ![p] = row.status]
    /\ checking' = [checking EXCEPT ![p] = TRUE]
    /\ Goto(f, "lock")
    /\ UNCHANGED <<row, lock, running, rearmed, printing, historyVars>>

(* Mutant of LockDenied: the early return forgets the condition lock. *)
LockDenied_KeepsChecking(f) ==
    /\ pc[f] = "lock"
    /\ processing' = IF InChain(f)
                     THEN [processing EXCEPT ![frame[f].proc] = NoColumn]
                     ELSE processing
    /\ Goto(f, "idle")
    /\ frame' = [frame EXCEPT ![f] = NoFrame]
    /\ UNCHANGED <<row, lock, checking, running, rearmed, printing,
                   historyVars>>

(* The dispatch asks for the card's advisory lock; without it the card is   *)
(* left to a later tick.                                                   *)
LockDenied(f) ==
    /\ pc[f] = "lock"
    /\ checking' = [checking EXCEPT ![frame[f].proc] = FALSE]
    /\ processing' = IF InChain(f)
                     THEN [processing EXCEPT ![frame[f].proc] = NoColumn]
                     ELSE processing
    /\ Goto(f, "idle")
    /\ frame' = [frame EXCEPT ![f] = NoFrame]
    /\ UNCHANGED <<row, lock, running, rearmed, printing, historyVars>>

RetryLocked(f) ==
    /\ pc[f] = "lock" /\ frame[f].kind = "retry"
    /\ lock = NoFiber
    /\ lock' = f
    /\ Enter(f, frame[f].proc, frame[f].column, "retry")
    /\ UNCHANGED <<row, checking, running, rearmed, printing, historyVars>>

Release(f) ==
    /\ pc[f] = "release"
    /\ lock' = IF lock = f THEN NoFiber ELSE lock
    /\ checking' = [checking EXCEPT ![frame[f].proc] = FALSE]
    /\ Goto(f, "idle")
    /\ frame' = [frame EXCEPT ![f] = NoFrame]
    /\ UNCHANGED <<row, processing, running, rearmed, printing, historyVars>>

(* A dispatch older than two minutes is no longer waited for, unless a run  *)
(* of the card is in progress here.                                        *)
EvictStaleLock(p) ==
    /\ checking[p] /\ running[p] = NoFiber
    /\ checking' = [checking EXCEPT ![p] = FALSE]
    /\ UNCHANGED <<row, lock, processing, running, rearmed, printing,
                   fiberVars, historyVars>>

ReArm(p) ==
    /\ ~rearmed[p]
    /\ rearmed' = [rearmed EXCEPT ![p] = TRUE]
    /\ row' = IF /\ processing[p] = NoColumn /\ row.claim = NoFiber
                 /\ row.status \in Active /\ ~row.stopped
                 /\ row.pending # row.status /\ row.point # NoPoint
              THEN [row EXCEPT !.pending = row.status]
              ELSE row
    /\ UNCHANGED <<lock, processing, checking, running, printing, fiberVars,
                   historyVars>>

(* The CLI of a run that lost its process may go on, and fall silent.      *)
TerminalTurns ==
    /\ row.claim = Orphan
    /\ printing' = ~printing
    /\ UNCHANGED <<row, lock, processing, checking, running, rearmed,
                   fiberVars, historyVars>>

(* A claim without a run is kept while the terminal of its agent is active. *)
Heal(p) ==
    /\ row.claim = Orphan /\ running[p] = NoFiber
    /\ ~printing
    /\ row' = [row EXCEPT !.claim = NoFiber,
                          !.pending = IF Open THEN row.status ELSE @]
    /\ UNCHANGED <<lock, memoryVars, fiberVars, historyVars>>

Crash(p) ==
    LET dead == {f \in Fiber : pc[f] # "idle" /\ frame[f].proc = p}
    IN  /\ pc' = [f \in Fiber |-> IF f \in dead THEN "idle" ELSE pc[f]]
        /\ frame' = [f \in Fiber |-> IF f \in dead THEN NoFrame ELSE frame[f]]
        /\ processing' = [processing EXCEPT ![p] = NoColumn]
        /\ checking' = [checking EXCEPT ![p] = FALSE]
        /\ running' = [running EXCEPT ![p] = NoFiber]
        /\ rearmed' = [rearmed EXCEPT ![p] = FALSE]
        /\ lock' = IF lock \in dead THEN NoFiber ELSE lock
        /\ row' = [row EXCEPT !.claim = IF @ \in dead THEN Orphan ELSE @]
        /\ printing' \in IF row.claim \in dead THEN BOOLEAN ELSE {printing}
        /\ UNCHANGED historyVars

-----------------------------------------------------------------------------
(* processColumnEntry.                                                     *)

(* Mutant of Defer: the marker is not durable. *)
Defer_NoMarker(f) ==
    /\ pc[f] = "defer"
    /\ IF frame[f].kind = "retry"
       THEN Goto(f, "release") /\ UNCHANGED frame
       ELSE Goto(f, "idle") /\ frame' = [frame EXCEPT ![f] = NoFrame]
    /\ UNCHANGED <<row, lock, memoryVars, historyVars>>

Defer(f) ==
    /\ pc[f] = "defer"
    /\ WriteMarkers(f, frame[f].column, row.point)
    /\ IF frame[f].kind = "retry"
       THEN Goto(f, "release") /\ UNCHANGED frame
       ELSE Goto(f, "idle") /\ frame' = [frame EXCEPT ![f] = NoFrame]
    /\ UNCHANGED <<lock, memoryVars, historyVars>>

(* The current row decides: it left the column, or its user stopped it. *)
Turned(f) ==
    /\ pc[f] = "read"
    /\ row.status # frame[f].column \/ row.stopped
    /\ Leave(f, FALSE)
    /\ UNCHANGED <<row, historyVars>>

Read(f) ==
    /\ pc[f] = "read"
    /\ row.status = frame[f].column /\ ~row.stopped
    /\ Goto(f, "next")
    /\ frame' = [frame EXCEPT ![f].resume = ResumePoint(row), ![f].transition = 1]
    /\ UNCHANGED <<row, lock, memoryVars, historyVars>>

(* The board's workflow could not be loaded: the entry stays armed. *)
Unreadable(f) ==
    /\ pc[f] = "read"
    /\ row.status = frame[f].column /\ ~row.stopped
    /\ Goto(f, "rearm")
    /\ UNCHANGED <<row, lock, memoryVars, frame, historyVars>>

(* Mutant of Rearm: the deferral drops the resume point. *)
Rearm_StartsOver(f) ==
    /\ pc[f] = "rearm"
    /\ WriteMarkers(f, frame[f].column, NoPoint)
    /\ Leave(f, FALSE)
    /\ UNCHANGED historyVars

Rearm(f) ==
    /\ pc[f] = "rearm"
    /\ WriteMarkers(f, frame[f].column, row.point)
    /\ Leave(f, FALSE)
    /\ UNCHANGED historyVars

(* The transition t of the fiber's column begins, after `done` actions. *)
Begin(f, t, done) ==
    LET fr == frame[f]
        n == Len(Actions(fr.column, t))
    IN  /\ Goto(f, IF done = 0 /\ n > 0 THEN "mark"
                   ELSE IF done < n THEN "act" ELSE "clear")
        /\ frame' = [frame EXCEPT ![f].transition = t, ![f].action = done + 1,
                                  ![f].moved = FALSE]
        /\ owed' = (owed /\ ~(/\ row.status = fr.column
                             /\ Transitions(fr.column)[t].trigger = "on_enter"))
        /\ UNCHANGED <<effects, recorded>>

(* Conditions are met or not; those of a transition being resumed are met. *)
Skippable(f, t) ==
    \/ t < frame[f].resume.transition
    \/ /\ Transitions(frame[f].column)[t].trigger = "condition"
       /\ t # frame[f].resume.transition

NextTransition(f) ==
    /\ pc[f] = "next"
    /\ \E t \in DOMAIN Transitions(frame[f].column) :
        /\ t >= frame[f].transition /\ t >= frame[f].resume.transition
        /\ \A u \in frame[f].transition .. t - 1 : Skippable(f, u)
        /\ Begin(f, t, IF t = frame[f].resume.transition
                       THEN frame[f].resume.completed ELSE 0)
    /\ UNCHANGED <<row, lock, memoryVars>>

NoTransitionLeft(f) ==
    /\ pc[f] = "next"
    /\ \A t \in DOMAIN Transitions(frame[f].column) :
         t >= frame[f].transition => Skippable(f, t)
    /\ Leave(f, FALSE)
    /\ UNCHANGED <<row, historyVars>>

(* The condition chain of a dispatch: it has no look at the current row. *)
ConditionLocked(f) ==
    /\ pc[f] = "lock" /\ frame[f].kind = "condition"
    /\ lock = NoFiber
    /\ lock' = f
    /\ Begin(f, frame[f].transition, frame[f].resume.completed)
    /\ UNCHANGED <<row, memoryVars>>

(* The continuation of a chain in the column its card is in now. *)
Continue(f) ==
    LET p == frame[f].proc
    IN  /\ pc[f] = "continue"
        /\ IF row.status \in {frame[f].column, ErrorColumn} \/ processing[p] # NoColumn
           THEN /\ Goto(f, "idle")
                /\ frame' = [frame EXCEPT ![f] = NoFrame]
                /\ UNCHANGED processing
           ELSE Enter(f, p, row.status, "entry")
        /\ UNCHANGED <<row, lock, checking, running, rearmed, printing,
                       historyVars>>

-----------------------------------------------------------------------------
(* _executeActionChain, and the actions themselves.                        *)

Mark(f) ==
    /\ pc[f] = "mark"
    /\ WriteMarkers(f, row.pending, [transition |-> frame[f].transition, completed |-> 0])
    /\ effects' = {e \in effects : <<e[1], e[2]>> # <<frame[f].column, frame[f].transition>>}
    /\ Goto(f, "act")
    /\ UNCHANGED <<lock, memoryVars, frame, recorded, owed>>

(* The action took effect; `moved` is what it reports. *)
Executed(f, moved) ==
    /\ Goto(f, "record")
    /\ frame' = [frame EXCEPT ![f].moved = moved]
    /\ effects' = effects \cup {Position(f)}
    /\ UNCHANGED <<recorded, owed>>

Assign(f) ==
    /\ pc[f] = "act" /\ Step(f).type = "assign"
    /\ Executed(f, FALSE)
    /\ UNCHANGED <<row, lock, memoryVars>>

(* No agent of the role is free, or the claim was refused. *)
Unable(f) ==
    /\ pc[f] = "act" /\ Step(f).type \in {"assign", "run"}
    /\ Goto(f, "flag")
    /\ UNCHANGED <<row, lock, memoryVars, frame, historyVars>>

(* The claim is refused once the card left the column of the working copy,  *)
(* which at an action is the chain's (Sync).  It takes the retry marker     *)
(* with it, and fences the card, so the dispatch gives its lock back.      *)
StartRun(f) ==
    /\ pc[f] = "act" /\ Step(f).type = "run"
    /\ Claimable(frame[f].proc) /\ row.status = frame[f].column
    /\ row' = [row EXCEPT !.claim = f, !.pending = NoColumn]
    /\ running' = [running EXCEPT ![frame[f].proc] = f]
    /\ lock' = IF lock = f THEN NoFiber ELSE lock
    /\ Goto(f, "run")
    /\ UNCHANGED <<processing, checking, rearmed, printing, frame, historyVars>>

RunSucceeds(f) ==
    /\ pc[f] = "run"
    /\ ReleaseRun(f, FALSE)
    /\ Executed(f, FALSE)
    /\ UNCHANGED <<lock, processing, checking, rearmed, printing>>

(* A Stop, no verdict, a lost claim: retried later. *)
RunAborts(f) ==
    /\ pc[f] = "run"
    /\ \E aborted \in BOOLEAN : ReleaseRun(f, aborted) /\ owed' = (owed /\ ~aborted)
    /\ Goto(f, "flag")
    /\ UNCHANGED <<lock, processing, checking, rearmed, printing, frame,
                   effects, recorded>>

RunFails(f) ==
    /\ pc[f] = "run"
    /\ ReleaseRun(f, FALSE)
    /\ Goto(f, "fail")
    /\ UNCHANGED <<lock, processing, checking, rearmed, printing, frame,
                   historyVars>>

(* change_status to where the card already is. *)
NoMove(f) ==
    /\ pc[f] = "act" /\ Step(f).type = "move"
    /\ \/ Step(f).to = frame[f].work /\ Executed(f, FALSE)
       \/ /\ Step(f).to # frame[f].work /\ row.status = Step(f).to
          /\ Executed(f, TRUE)
    /\ UNCHANGED <<row, lock, memoryVars>>

DecideMove(f) ==
    /\ pc[f] = "act" /\ Step(f).type = "move"
    /\ Step(f).to \notin {frame[f].work, row.status}
    /\ Goto(f, "move")
    /\ UNCHANGED <<row, lock, memoryVars, frame, historyVars>>

(* setTaskStatus: no expected status; the entry of the new column starts    *)
(* beside the chain.                                                       *)
MoveCard(f, g) ==
    LET to == Step(f).to
    IN  /\ pc[f] = "move" /\ row.status # to
        /\ pc[g] = "idle"
        /\ row' = Moved(row, to)
        /\ effects' = effects \cup {Position(f)}
        /\ recorded' = {} /\ owed' = OnEnter(to)
        /\ EnterBeside(g, f, to, "record", [frame[f] EXCEPT !.moved = TRUE])
        /\ UNCHANGED <<lock, checking, running, rearmed, printing>>

MovedMeanwhile(f) ==
    /\ pc[f] = "move" /\ row.status = Step(f).to
    /\ Executed(f, TRUE)
    /\ UNCHANGED <<row, lock, memoryVars>>

Record(f) ==
    /\ pc[f] = "record"
    /\ WriteMarkers(f, NoColumn, [transition |-> frame[f].transition,
                                  completed |-> frame[f].action])
    /\ recorded' = IF row.status = frame[f].column THEN recorded \cup {Position(f)}
                   ELSE recorded
    /\ Goto(f, "sync")
    /\ UNCHANGED <<lock, memoryVars, frame, effects, owed>>

Sync(f) ==
    LET ends == \/ row.status # frame[f].column \/ frame[f].moved
                \/ frame[f].action = Len(Chain(f))
    IN  /\ pc[f] = "sync"
        /\ Goto(f, IF ends THEN "clear" ELSE "act")
        /\ frame' = [frame EXCEPT ![f].work = row.status,
                                  ![f].action = IF ends THEN @ ELSE @ + 1]
        /\ UNCHANGED <<row, lock, memoryVars, historyVars>>

(* Mutant of Flag: the resume point is one action too early. *)
Flag_OffByOne(f) ==
    /\ pc[f] = "flag"
    /\ WriteMarkers(f, frame[f].column, [transition |-> frame[f].transition,
                                         completed |-> frame[f].action - 2])
    /\ Goto(f, "skipped")
    /\ UNCHANGED <<lock, memoryVars, frame, historyVars>>

(* Mutant of Flag: the resume point counts the action that could not run.  *)
Flag_CountsIt(f) ==
    /\ pc[f] = "flag"
    /\ WriteMarkers(f, frame[f].column, [transition |-> frame[f].transition,
                                         completed |-> frame[f].action])
    /\ Goto(f, "skipped")
    /\ UNCHANGED <<lock, memoryVars, frame, historyVars>>

Flag(f) ==
    /\ pc[f] = "flag"
    /\ WriteMarkers(f, frame[f].column, [transition |-> frame[f].transition,
                                         completed |-> frame[f].action - 1])
    /\ Goto(f, "skipped")
    /\ UNCHANGED <<lock, memoryVars, frame, historyVars>>

Skipped(f) ==
    /\ pc[f] = "skipped"
    /\ Leave(f, frame[f].kind = "condition" \/ row.status # frame[f].column)
    /\ UNCHANGED <<row, historyVars>>

(* persistTaskError: wherever the card is. *)
FailCard(f) ==
    /\ pc[f] = "fail"
    /\ row' = [row EXCEPT !.status = ErrorColumn]
    /\ recorded' = {} /\ owed' = FALSE
    /\ frame' = [frame EXCEPT ![f].work = ErrorColumn]
    /\ Goto(f, "clear")
    /\ UNCHANGED <<lock, memoryVars, effects>>

ClearMarkers(f) ==
    /\ pc[f] = "clear"
    /\ WriteMarkers(f, NoColumn, NoPoint)
    /\ recorded' = IF row.status = frame[f].column THEN {} ELSE recorded
    /\ UNCHANGED <<effects, owed>>

ChainEnds(f) ==
    /\ ClearMarkers(f)
    /\ frame[f].kind = "condition" \/ frame[f].work # frame[f].column
    /\ Leave(f, TRUE)

TransitionEnds(f) ==
    /\ ClearMarkers(f)
    /\ frame[f].kind # "condition" /\ frame[f].work = frame[f].column
    /\ Goto(f, "next")
    /\ frame' = [frame EXCEPT ![f].transition = @ + 1]
    /\ UNCHANGED <<lock, memoryVars>>

-----------------------------------------------------------------------------

EntryStep(f) ==
    \/ Defer(f) \/ Turned(f) \/ Read(f) \/ Unreadable(f) \/ Rearm(f)
    \/ NextTransition(f) \/ NoTransitionLeft(f) \/ Continue(f)

ActionStep(f) ==
    \/ Assign(f) \/ Unable(f) \/ StartRun(f) \/ NoMove(f) \/ DecideMove(f)
    \/ MovedMeanwhile(f) \/ \E g \in Fiber : MoveCard(f, g)

ChainStep(f) ==
    \/ Mark(f) \/ ActionStep(f) \/ Record(f) \/ Sync(f) \/ Flag(f) \/ Skipped(f)
    \/ FailCard(f) \/ ChainEnds(f) \/ TransitionEnds(f)

LockStep(f) == RetryLocked(f) \/ ConditionLocked(f) \/ LockDenied(f) \/ Release(f)

AskStep(f) == PrepareRow(f) \/ UnstopRow(f) \/ ClaimRow(f) \/ Decline(f)

RunEnds(f) == RunSucceeds(f) \/ RunAborts(f) \/ RunFails(f) \/ DirectRunEnds(f)

(* What happens without anybody asking. *)
Routine ==
    \/ \E f \in Fiber :
         EntryStep(f) \/ ChainStep(f) \/ LockStep(f) \/ AskStep(f) \/ RunEnds(f)
    \/ \E f \in Fiber, p \in Process : Recheck(f, p)
    \/ \E p \in Process : ReArm(p) \/ Heal(p)
    \/ TerminalTurns

(* What users, agents and the operating system do. *)
Event ==
    \/ \E f \in Fiber, p \in Process :
         \/ Reenter(f, p) \/ DirectRun(f, p)
         \/ \E c \in Column : UserMove(f, p, c) \/ ReserveRun(f, p, c)
    \/ \E f, g \in Fiber, c \in Column : AgentMoves(f, g, c)
    \/ UserStop \/ ClearStopped
    \/ \E p \in Process : EvictStaleLock(p) \/ Crash(p)

Next == Routine \/ Event

Spec == Init /\ [][Next]_vars

(* Awaited calls return; the recheck, the boot's re-arm and the healer come *)
(* round for ever; a workflow that cannot be read and a lock that is denied *)
(* are not so for ever.  No run has to end, no terminal to fall silent, no  *)
(* action has to find an agent, nobody has to do anything.                 *)
Fairness ==
    /\ \A f \in Fiber :
        /\ WF_vars(EntryStep(f)) /\ WF_vars(ChainStep(f)) /\ WF_vars(LockStep(f))
        /\ WF_vars(AskStep(f))
        /\ SF_vars(Read(f)) /\ SF_vars(RetryLocked(f) \/ ConditionLocked(f))
    /\ \A p \in Process :
        /\ SF_vars(\E f \in Fiber : Recheck(f, p))
        /\ WF_vars(ReArm(p)) /\ WF_vars(Heal(p))

FairSpec == Spec /\ Fairness

-----------------------------------------------------------------------------
(* Properties.                                                             *)

(* A process never works twice on one card: _processingTasks names exactly  *)
(* the fiber that runs the column's chain, through deferrals, retries,      *)
(* condition chains, continuations and restarts.                           *)
ChainExclusive ==
    \A f, g \in Fiber :
        InChain(f) /\ InChain(g) /\ frame[f].proc = frame[g].proc => f = g

(* The actions of a column are performed by one process at a time: what the *)
(* advisory lock of the recheck is for ("only the lock holder processes a   *)
(* given task").                                                           *)
NeverTwoChains ==
    \A f, g \in Fiber :
        /\ {pc[f], pc[g]} \subseteq {"act", "run", "move"}
        /\ frame[f].column = frame[g].column
        => f = g

(* The markers of a row are those of the column it is in, and its resume    *)
(* point exists there: no late write of a chain whose card left may put     *)
(* another column's index into the row.  ('error' runs no chain, and keeps  *)
(* what the failed one left until the card is moved.)                      *)
MarkersFit ==
    row.status # ErrorColumn =>
        /\ row.pending \in {NoColumn, row.status}
        /\ row.point # NoPoint =>
            /\ row.point.transition \in DOMAIN Transitions(row.status)
            /\ row.point.completed <= Len(Actions(row.status, row.point.transition))

(* Whether the step performs action e of a chain. *)
Performs(e) == \E f \in Fiber : /\ pc[f] \in {"act", "run", "move"}
                                 /\ pc'[f] = "record"
                                 /\ Position(f) = e

(* An action runs only after all the actions before it in its chain ran: a  *)
(* resumed chain never skips one, whatever was interrupted, moved or        *)
(* restarted in between.                                                   *)
NothingSkipped ==
    [][\A c \in Column : \A t \in DOMAIN Workflow[c] : \A i \in DOMAIN Actions(c, t) :
        Performs(<<c, t, i>>) => \A j \in 1 .. i - 1 : <<c, t, j>> \in effects]_vars

(* A chain that ends in its column, with no action that moved its card, has *)
(* performed all its actions: what was deferred, aborted or interrupted is  *)
(* not behind the point it resumed at when its markers are cleared, after   *)
(* which nothing would retry it.                                           *)
NothingLeftOut ==
    \A f \in Fiber :
        pc[f] = "clear" /\ frame[f].work = frame[f].column /\ ~frame[f].moved =>
            \A i \in 1 .. Len(Chain(f)) : <<frame[f].column, frame[f].transition, i>> \in effects

(* An action of an on_enter chain that the row has recorded as complete is  *)
(* not performed again until the card enters a column or the chain is over: *)
(* deferrals, retries, heals and restarts keep the resume point.  (The      *)
(* chain of a condition has no such promise: after a restart the recheck    *)
(* may find the condition met before the row is re-armed.)                  *)
NothingRepeated ==
    [][\A e \in recorded :
        Transitions(e[1])[e[2]].trigger = "on_enter" => ~Performs(e)]_vars

(* The actions of a column begin once a card has entered it, or the card    *)
(* leaves, or a user stops it, or an agent is at work on it: no entry is    *)
(* lost between a chain and its continuation, a deferral and the recheck.   *)
(* Where no card comes back into a column whose chain is still ending and   *)
(* no process dies: the code drops the second entry of such a return        *)
(* (EntryPhase: "the column is the one being processed"), and a process     *)
(* that dies between a move and its entry leaves no marker.                *)
EntryHandled ==
    owed ~> \/ ~owed \/ row.claim # NoFiber
            \/ \E p \in Process : running[p] # NoFiber

(* A chain flagged for retry is taken up again. *)
Armed == /\ Open /\ row.pending = row.status /\ OnEnter(row.status)
         /\ row.claim = NoFiber /\ \A p \in Process : running[p] = NoFiber

ArmedIsRetried == Armed ~> ~Armed \/ \E f \in Fiber : pc[f] \in {"mark", "act"}
===============================================================================
