------------------------------- MODULE Recurrence ------------------------------
(***************************************************************************)
(* A recurring task: the rule, the runs it spawns, the scheduler ticks of   *)
(* the processes that share it, and the requests that edit, run, create and *)
(* delete it (agentManager/tasks.ts, routes/tasks.ts, database/tasks.ts).   *)
(*                                                                         *)
(* Time is counted in periods of the rule.  A tick and a request work on    *)
(* the rule they have read, and write it back whole; only the claim of a    *)
(* cycle compares what it read with the row, and only its reference time.   *)
(***************************************************************************)
EXTENDS Integers, FiniteSets

CONSTANTS
    Process, Handler,  \* the API's processes, and the requests they serve
    Run,               \* runs, numbered in the order of their creation
    Keep               \* keepLastOccurrences; 0: no limit

Fiber == Process \cup Handler

ASSUME ConstantsAssumption ==
    /\ Process \cap Handler = {}
    /\ Run \subseteq Nat /\ IsFiniteSet(Run)
    /\ Keep \in Nat

VARIABLES
    clock,     \* the time, in periods
    rule,      \* the rule's row
    runs,      \* the rows of its runs
    ticking,   \* _recurrenceTickRunning of each process
    pc, frame, \* ticks and requests, and their locals
    fired,     \* history: the last cycle, if each claim took a period of its own
    lapses     \* history: what has happened that the code takes for unlikely

vars == <<clock, rule, runs, ticking, pc, frame, fired, lapses>>

Policy == {"skip", "spawn"}

(* recurrence: lastResetAt, occurrenceCount, onOverlap. *)
Config == [last : Nat, count : Nat, policy : Policy]
NoConfig == [last |-> 0, count |-> 0, policy |-> "skip"]

(* open: claimed by an execution, or moved lately, in a column of its board;*)
(* stale: stranded, or in a last column that is not called done; again:     *)
(* taken up after it was stale or done; card: about to become a run.        *)
RunState == {"none", "card", "open", "stale", "again", "done", "purged"}

(* deleted: marked so, the row is kept; gone: the row is removed, its        *)
(* configuration is what it last held.                                     *)
RuleState == {"none", "live", "deleted", "gone"}

Frame == [config : Config, now : Nat, skip : BOOLEAN]
NoFrame == [config |-> NoConfig, now |-> 0, skip |-> FALSE]

Spawning == {"first", "insert", "save", "link"}
Phase == {"idle", "count", "claim", "edit"} \cup Spawning

TypeOK ==
    /\ clock \in Nat
    /\ rule \in [state : RuleState, config : Config]
    /\ runs \in [Run -> [state : RunState, seq : Nat, by : {"tick", "user"}]]
    /\ ticking \in [Process -> BOOLEAN]
    /\ pc \in [Fiber -> Phase]
    /\ frame \in [Fiber -> Frame]
    /\ fired \in Nat
    /\ lapses \subseteq {"stale", "uncounted", "slow"}

Init ==
    /\ clock = 0
    /\ rule = [state |-> "none", config |-> NoConfig]
    /\ runs = [o \in Run |-> [state |-> "none", seq |-> 0, by |-> "user"]]
    /\ ticking = [p \in Process |-> FALSE]
    /\ pc = [f \in Fiber |-> "idle"]
    /\ frame = [f \in Fiber |-> NoFrame]
    /\ fired = 0
    /\ lapses = {}

-----------------------------------------------------------------------------
(* What the steps are made of.                                             *)

(* A step that trusts a configuration its fiber has read. *)
Trusting(config) ==
    lapses' = lapses \cup IF config # rule.config THEN {"stale"} ELSE {}

IsNext(o) == /\ runs[o].state = "none"
             /\ \A q \in Run : runs[q].state = "none" => o <= q

(* Mutant of Blocking: only the newest run is looked at. *)
Blocking_Newest(o) ==
    /\ runs[o].state \in {"open", "again"}
    /\ \A q \in Run : runs[q].state # "none" => q <= o

Blocking(o) == runs[o].state \in {"open", "again"}

Ends(f) == /\ pc' = [pc EXCEPT ![f] = "idle"]
           /\ frame' = [frame EXCEPT ![f] = NoFrame]
           /\ ticking' = IF f \in Process THEN [ticking EXCEPT ![f] = FALSE] ELSE ticking

Goes(f, phase) == /\ pc' = [pc EXCEPT ![f] = phase]
                  /\ UNCHANGED ticking

-----------------------------------------------------------------------------
(* The tick of a process: _processRecurringTasks.                          *)

(* The finished runs that more than Keep others precede in the order of     *)
(* their numbers, then of their creation.                                  *)
Newer(q, o) == \/ runs[q].seq > runs[o].seq
               \/ runs[q].seq = runs[o].seq /\ q > o
Finished == {o \in Run : runs[o].state = "done"}

(* Mutant of Expired: the oldest runs are kept. *)
Expired_Newest(o) ==
    /\ Keep > 0 /\ o \in Finished
    /\ Cardinality({q \in Finished : Newer(o, q)}) >= Keep

Expired(o) ==
    /\ Keep > 0 /\ o \in Finished
    /\ Cardinality({q \in Finished : Newer(q, o)}) >= Keep

Swept == [o \in Run |-> IF Expired(o) THEN [runs[o] EXCEPT !.state = "purged"] ELSE runs[o]]

(* One tick at a time.  It notes the time and reads the rule, sweeps its    *)
(* runs, which may fail, and if the rule is due goes on with what it read.  *)
Tick(p) ==
    /\ pc[p] = "idle" /\ ~ticking[p] /\ rule.state = "live"
    /\ runs' \in {runs, Swept}
    /\ IF clock <= rule.config.last THEN UNCHANGED <<ticking, pc, frame>>
       ELSE /\ ticking' = [ticking EXCEPT ![p] = TRUE]
            /\ pc' = [pc EXCEPT ![p] =
                 IF rule.config.policy = "skip" THEN "count" ELSE "claim"]
            /\ frame' = [frame EXCEPT ![p].config = rule.config, ![p].now = clock]
    /\ UNCHANGED <<clock, rule, fired, lapses>>

Count(p) ==
    /\ pc[p] = "count"
    /\ frame' = [frame EXCEPT ![p].skip = \E o \in Run : Blocking(o)]
    /\ Goes(p, "claim")
    /\ UNCHANGED <<clock, rule, runs, fired, lapses>>

(* A count that cannot be read is zero. *)
CountFails(p) ==
    /\ pc[p] = "count"
    /\ Goes(p, "claim")
    /\ lapses' = lapses \cup {"uncounted"}
    /\ UNCHANGED <<clock, rule, runs, frame, fired>>

(* Mutant of Claimable: any cycle of a rule that is live is claimed.        *)
Claimable_Unread(p) == rule.state = "live"

Claimable(p) == rule.state = "live" /\ rule.config.last = frame[p].config.last

(* claimRecurrenceCycle writes the configuration the tick has read, with a  *)
(* new reference; the cycle is skipped, or its run is spawned.              *)
Claim(p) ==
    LET claimed == [frame[p].config EXCEPT !.last = frame[p].now]
    IN  /\ pc[p] = "claim" /\ Claimable(p)
        /\ rule' = [rule EXCEPT !.config = claimed]
        /\ fired' = fired + 1
        /\ Trusting([frame[p].config EXCEPT !.last = rule.config.last])
        /\ IF frame[p].skip THEN Ends(p)
           ELSE /\ frame' = [frame EXCEPT ![p] = [NoFrame EXCEPT !.config = claimed]]
                /\ Goes(p, "insert")
        /\ UNCHANGED <<clock, runs>>

ClaimRefused(p) ==
    /\ pc[p] = "claim" /\ ~Claimable(p)
    /\ Ends(p)
    /\ UNCHANGED <<clock, rule, runs, fired, lapses>>

-----------------------------------------------------------------------------
(* _spawnOccurrence, called by a tick, by a manual run and by addTask.      *)

Insert(f, o) ==
    /\ pc[f] = "insert" /\ IsNext(o)
    /\ runs' = [runs EXCEPT ![o] =
         [state |-> "open", seq |-> frame[f].config.count + 1,
          by |-> IF f \in Process THEN "tick" ELSE "user"]]
    /\ Trusting(frame[f].config)
    /\ Goes(f, "save")
    /\ UNCHANGED <<clock, rule, frame, fired>>

(* Mutant of SaveRule: the saved row is not deleted any more. *)
SaveRule_Restores(config) == rule' = [state |-> "live", config |-> config]

(* saveTaskToDb of a rule, INSERT ... ON CONFLICT DO UPDATE: every column   *)
(* of the row, but deleted_at; of a row that is gone, a new one, not deleted.*)
SaveRule(config) ==
    rule' = [state |-> IF rule.state = "gone" THEN "live" ELSE rule.state,
             config |-> config]

(* The first run of a new rule notes the time (advanceClock)...             *)
First(h) ==
    /\ pc[h] = "first"
    /\ frame' = [frame EXCEPT ![h].now = clock]
    /\ Goes(h, "insert")
    /\ UNCHANGED <<clock, rule, runs, fired, lapses>>

(* ... which is the rule's reference, when it is written with its counters  *)
(* after the attachments are copied.                                       *)
Reference(f) ==
    IF frame[f].now > frame[f].config.last THEN frame[f].now ELSE frame[f].config.last

Save(f) ==
    LET config == frame[f].config
    IN  /\ pc[f] = "save"
        /\ SaveRule([config EXCEPT !.count = @ + 1, !.last = Reference(f)])
        /\ Trusting(config)
        /\ Ends(f)
        /\ UNCHANGED <<clock, runs, fired>>

-----------------------------------------------------------------------------
(* Requests.                                                               *)

Begins(h, phase, config) ==
    /\ pc[h] = "idle"
    /\ Goes(h, phase)
    /\ frame' = [frame EXCEPT ![h] = [NoFrame EXCEPT !.config = config]]
    /\ UNCHANGED <<clock, lapses>>

(* A new rule runs at once (addTask)... *)
Create(h, policy) ==
    LET config == [last |-> clock, count |-> 0, policy |-> policy]
    IN  /\ rule.state = "none"
        /\ rule' = [state |-> "live", config |-> config]
        /\ fired' = clock
        /\ Begins(h, "first", config)
        /\ UNCHANGED runs

(* ... or is made of a card, older than all its runs, that becomes its first*)
(* run in whatever state it is by then (_createTemplateFromTask).           *)
Adopt(h, policy) ==
    LET config == [last |-> clock, count |-> 1, policy |-> policy]
    IN  /\ rule.state = "none"
        /\ rule' = [state |-> "live", config |-> config]
        /\ fired' = clock
        /\ Begins(h, "link", config)
        /\ \E o \in Run : IsNext(o) /\ runs' = [runs EXCEPT ![o].state = "card"]

Link(h, o) ==
    /\ pc[h] = "link" /\ runs[o].state = "card"
    /\ \E state \in {"open", "done"} :
         runs' = [runs EXCEPT ![o] = [state |-> state, seq |-> 1, by |-> "user"]]
    /\ Ends(h)
    /\ UNCHANGED <<clock, rule, fired, lapses>>

(* PUT of a template, set_task_recurrence, a renamed column: read ... *)
Load(h, phase) ==
    /\ rule.state = "live"
    /\ Begins(h, phase, rule.config)
    /\ UNCHANGED <<rule, runs, fired>>

(* ... and written with another policy (buildRecurrenceConfig).             *)
Edit(h) ==
    /\ pc[h] = "edit"
    /\ \E policy \in Policy : SaveRule([frame[h].config EXCEPT !.policy = policy])
    /\ Trusting(frame[h].config)
    /\ Ends(h)
    /\ UNCHANGED <<clock, runs, fired>>

(* DELETE, and recurrence turned off, mark the row; an administrator may    *)
(* take the mark away again, or remove the row.                            *)
Marks(h, old, new) ==
    /\ pc[h] = "idle" /\ rule.state \in old
    /\ rule' = [rule EXCEPT !.state = new]
    /\ UNCHANGED <<clock, runs, ticking, pc, frame, fired, lapses>>

Delete(h) == Marks(h, {"live"}, "deleted")

Restore(h) == Marks(h, {"deleted"}, "live")

HardDelete(h) == Marks(h, {"live", "deleted"}, "gone")

-----------------------------------------------------------------------------
(* The runs, the time and the faults.                                      *)

(* A run is executed, finished, stranded (its execution dies, its column is *)
(* removed, nothing moves it for long), or taken up again.                  *)
Fate(state) ==
    CASE state = "open" -> {"stale", "done"}
      [] state = "stale" -> {"again", "done"}
      [] state = "again" -> {"stale", "done"}
      [] state = "done" -> {"again"}
      [] OTHER -> {}

Moves(o, state) ==
    /\ state \in Fate(runs[o].state)
    /\ runs' = [runs EXCEPT ![o].state = state]
    /\ UNCHANGED <<clock, rule, ticking, pc, frame, fired, lapses>>

(* Mutant of PeriodPasses: the clock is set back. *)
PeriodPasses_Back ==
    /\ clock' = clock - 1
    /\ UNCHANGED <<rule, runs, ticking, pc, frame, fired, lapses>>

PeriodPasses ==
    /\ clock' = clock + 1
    /\ lapses' = lapses \cup
         IF \E f \in Fiber : pc[f] # "idle" THEN {"slow"} ELSE {}
    /\ UNCHANGED <<rule, runs, ticking, pc, frame, fired>>

(* Mutant of Fails: the flag of the tick stays. *)
Fails_Ticking(f) ==
    /\ pc[f] \in {"claim", "edit"} \cup Spawning
    /\ pc' = [pc EXCEPT ![f] = "idle"]
    /\ frame' = [frame EXCEPT ![f] = NoFrame]
    /\ UNCHANGED <<clock, rule, runs, ticking, fired, lapses>>

(* A write fails: the tick leaves the rule to the next one, the request is  *)
(* answered with an error.                                                  *)
Fails(f) ==
    /\ pc[f] \in {"claim", "edit"} \cup Spawning
    /\ Ends(f)
    /\ UNCHANGED <<clock, rule, runs, fired, lapses>>

(* A process dies, with its tick and the requests H it serves. *)
Crash(p, H) ==
    /\ ticking' = [ticking EXCEPT ![p] = FALSE]
    /\ pc' = [f \in Fiber |-> IF f \in {p} \cup H THEN "idle" ELSE pc[f]]
    /\ frame' = [f \in Fiber |-> IF f \in {p} \cup H THEN NoFrame ELSE frame[f]]
    /\ UNCHANGED <<clock, rule, runs, fired, lapses>>

-----------------------------------------------------------------------------
TickStep(p) ==
    \/ Tick(p) \/ Count(p) \/ Claim(p) \/ ClaimRefused(p)

SpawnStep(f) == Save(f) \/ \E o \in Run : Insert(f, o)

Routine ==
    \/ \E p \in Process : TickStep(p)
    \/ \E f \in Fiber : SpawnStep(f)
    \/ \E h \in Handler : First(h) \/ Edit(h) \/ \E o \in Run : Link(h, o)

Request ==
    \E h \in Handler :
        \/ \E policy \in Policy : Create(h, policy) \/ Adopt(h, policy)
        \/ \E phase \in {"edit", "insert"} : Load(h, phase)
        \/ Delete(h) \/ Restore(h) \/ HardDelete(h)

RunMoves == \E o \in Run, state \in RunState : Moves(o, state)

Fault ==
    \/ \E p \in Process : CountFails(p) \/ \E H \in SUBSET Handler : Crash(p, H)
    \/ \E f \in Fiber : Fails(f)

Next == Routine \/ Request \/ RunMoves \/ PeriodPasses \/ Fault

Spec == Init /\ [][Next]_vars

-----------------------------------------------------------------------------
(* Properties.                                                             *)

(* "So each cycle fires exactly once" (database/tasks.ts:1283): whatever    *)
(* ticks of whatever processes race, a rule takes at least a period for     *)
(* each cycle it has claimed - unless the row was written back from a read  *)
(* that another write has overtaken, which may rewind its reference.        *)
CycleFiresOnce ==
    "stale" \notin lapses /\ rule.state # "none" => fired <= rule.config.last

(* "Drop this cycle rather than queue it" (agentManager/tasks.ts:1395): with*)
(* the policy skip, a tick starts no run while one an earlier tick started  *)
(* is still unfinished, in whatever process the two tick and however the    *)
(* policy and the runs change meanwhile.                                    *)
StartsRun(p) == pc[p] = "insert" /\ pc'[p] = "save"
SkipNeverOverlaps ==
    [][\A p \in Process :
         StartsRun(p) /\ frame[p].config.policy = "skip" /\ lapses = {} =>
             \A o \in Run : runs[o].by = "tick" => runs[o].state # "open"]_vars

(* A deleted rule stays deleted and its cycles are not claimed any more,    *)
(* also when a spawn or an edit that began before writes it back, unless an *)
(* administrator restores it.  One whose row is removed is gone for good    *)
(* only once everything that has read it and will write it is over: until   *)
(* then such a write makes a new row of it.                                *)
WritesBack(f) == pc[f] \in {"first", "insert", "save", "edit"}
GoneForGood == rule.state = "gone" /\ \A f \in Fiber : ~WritesBack(f)
StaysDeleted ==
    [][/\ rule.state = "deleted" /\ (\A h \in Handler : ~Restore(h)) =>
             rule'.state \in {"deleted", "gone"} /\ fired' = fired
       /\ GoneForGood => GoneForGood' /\ fired' = fired]_vars

(* "Keep the N most recent runs" (database/tasks.ts:1307): the sweep deletes*)
(* a run only if Keep finished runs that were created after it remain.      *)
Purged(o) == runs[o].state # "purged" /\ runs'[o].state = "purged"
PurgeKeepsNewest ==
    [][lapses = {} =>
         \A o \in Run : Purged(o) =>
             Cardinality({q \in Run : q > o /\ runs'[q].state = "done"}) >= Keep]_vars

(* "One tick at a time" (agentManager/tasks.ts:1335), but never none: the   *)
(* flag that keeps the next tick from starting is up exactly while a tick   *)
(* is at work on the rule, also when a step of it throws.                   *)
FlagIsATick == \A p \in Process : ticking[p] <=> pc[p] # "idle"
===============================================================================
