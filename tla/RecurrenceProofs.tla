---------------------------- MODULE RecurrenceProofs ---------------------------
(***************************************************************************)
(* A cycle of a rule fires once, a tick's flag is up while it works, with   *)
(* the policy skip its runs never overlap, a deleted rule stays deleted, and*)
(* the sweep keeps the newest runs: for any number of processes, requests,  *)
(* runs and periods.                                                       *)
(***************************************************************************)
EXTENDS Recurrence, FiniteSetTheorems, TLAPS

(* A tick whose rule is not claimed yet has read it before it noted that it *)
(* was due, and not in the future; in the present, while nothing is slow.   *)
DueInv ==
    \A p \in Process : pc[p] \in {"count", "claim"} =>
        /\ frame[p].config.last < frame[p].now /\ frame[p].now <= clock
        /\ lapses = {} => frame[p].now = clock

(* While nothing unlikely has happened, a tick that spawns has claimed the  *)
(* period the clock shows, and is the only one to do so.                    *)
Spawns(p) == pc[p] \in {"insert", "save"}
SpawnInv ==
    lapses = {} => \A p \in Process : Spawns(p) =>
        /\ rule.config.last >= clock
        /\ \A q \in Process : Spawns(q) => q = p

(* A tick of the policy skip that will insert a run has seen none open, and *)
(* none has come since.                                                    *)
NoOpenTickRun == \A o \in Run : runs[o].by = "tick" => runs[o].state # "open"
WillInsert(p) ==
    \/ pc[p] = "insert"
    \/ pc[p] = "claim" /\ ~frame[p].skip /\ frame[p].config.last = rule.config.last
SkipInv ==
    lapses = {} => \A p \in Process :
        frame[p].config.policy = "skip" /\ WillInsert(p) => NoOpenTickRun

(* While nothing unlikely has happened, the first run of a rule notes the   *)
(* time the rule has for its reference.                                    *)
NotedInv ==
    lapses = {} => \A f \in Fiber :
        /\ pc[f] = "first" => frame[f].config.last = clock
        /\ pc[f] \in {"insert", "save"} => frame[f].now <= frame[f].config.last

IInv == TypeOK /\ DueInv /\ SpawnInv /\ SkipInv /\ NotedInv

-----------------------------------------------------------------------------
(* Types.                                                                  *)

(* Processes and handlers are different fibers. *)
LEMMA FibersDiffer ==
    ASSUME NEW p \in Process, NEW h \in Handler
    PROVE  p # h /\ p \in Fiber /\ h \in Fiber
BY ConstantsAssumption DEF ConstantsAssumption, Fiber

(* The sweep changes the state of runs only, and only to "purged". *)
LEMMA SweptRuns ==
    ASSUME TypeOK, NEW o \in Run
    PROVE  Swept[o] \in {runs[o], [runs[o] EXCEPT !.state = "purged"]}
BY DEF Swept

LEMMA SweptTyped ==
    ASSUME TypeOK
    PROVE  Swept \in [Run -> [state : RunState, seq : Nat, by : {"tick", "user"}]]
<1>1. \A o \in Run : runs[o] \in [state : RunState, seq : Nat, by : {"tick", "user"}]
  BY DEF TypeOK
<1>2. \A o \in Run :
        Swept[o] \in [state : RunState, seq : Nat, by : {"tick", "user"}]
  BY <1>1, SweptRuns DEF RunState
<1> QED
  BY <1>2 DEF Swept

(* Where a fiber ends its work, it forgets what it has read. *)
LEMMA EndsTyped ==
    ASSUME TypeOK, NEW f \in Fiber, Ends(f)
    PROVE  /\ pc' \in [Fiber -> Phase]
           /\ frame' \in [Fiber -> Frame]
           /\ ticking' \in [Process -> BOOLEAN]
<1>1. NoFrame \in Frame
  BY DEF NoFrame, Frame, NoConfig, Config, Policy
<1>2. "idle" \in Phase
  BY DEF Phase
<1> QED
  BY <1>1, <1>2 DEF Ends, TypeOK

LEMMA GoesTyped ==
    ASSUME TypeOK, NEW f \in Fiber, NEW phase \in Phase, Goes(f, phase)
    PROVE  pc' \in [Fiber -> Phase] /\ ticking' \in [Process -> BOOLEAN]
BY DEF Goes, TypeOK

LEMMA TrustingTyped ==
    ASSUME TypeOK, NEW config, Trusting(config)
    PROVE  lapses' \subseteq {"stale", "uncounted", "slow"}
BY DEF Trusting, TypeOK

(* The reference that is saved with the counters is no earlier than the one *)
(* that was read.                                                          *)
LEMMA SavedConfig ==
    ASSUME TypeOK, NEW f \in Fiber,
           NEW config, config = [frame[f].config EXCEPT !.count = @ + 1, !.last = Reference(f)]
    PROVE  /\ config \in Config
           /\ config.last = Reference(f) /\ config.last >= frame[f].config.last
           /\ config.count >= frame[f].config.count
<1>1. frame[f].config \in Config /\ frame[f].now \in Nat
  BY DEF TypeOK, Frame
<1>2. /\ frame[f].config.last \in Nat /\ frame[f].config.count \in Nat
      /\ frame[f].config.policy \in Policy
  BY <1>1 DEF Config
<1>3. Reference(f) \in Nat /\ Reference(f) >= frame[f].config.last
  BY <1>1, <1>2 DEF Reference
<1>4. config = [last |-> Reference(f), count |-> frame[f].config.count + 1,
                policy |-> frame[f].config.policy]
  BY <1>1 DEF Config
<1>5. /\ config.last = Reference(f) /\ config.count = frame[f].config.count + 1
      /\ config.policy = frame[f].config.policy
  BY <1>4
<1>6. config \in Config
  <2> DEFINE reference == Reference(f)
  <2>1. reference \in Nat
    BY <1>3
  <2> HIDE DEF reference
  <2>2. [last |-> reference, count |-> frame[f].config.count + 1,
         policy |-> frame[f].config.policy] \in Config
    BY <1>2, <2>1 DEF Config
  <2> QED
    BY <1>4, <2>2 DEF reference
<1> QED
  BY <1>2, <1>3, <1>5, <1>6

LEMMA TypeStep ==
    ASSUME TypeOK, [Next]_vars
    PROVE  TypeOK'
<1> USE DEF TypeOK
<1> DEFINE Runs == [Run -> [state : RunState, seq : Nat, by : {"tick", "user"}]]
           Rule == [state : RuleState, config : Config]
<1>1. CASE UNCHANGED vars
  BY <1>1 DEF vars
<1>2. ASSUME NEW p \in Process, Tick(p) PROVE TypeOK'
  <2>1. runs' \in Runs
    BY <1>2, SweptTyped DEF Tick
  <2>2. p \in Fiber
    BY DEF Fiber
  <2>3. frame' \in [Fiber -> Frame]
    <3>1. frame[p] \in Frame /\ rule.config \in Config
      BY <2>2
    <3>2. [frame[p] EXCEPT !.config = rule.config, !.now = clock] \in Frame
      BY <3>1 DEF Frame
    <3> QED
      BY <1>2, <2>2, <3>2 DEF Tick
  <2>4. pc' \in [Fiber -> Phase] /\ ticking' \in [Process -> BOOLEAN]
    BY <1>2, <2>2 DEF Tick, Phase
  <2> QED
    BY <1>2, <2>1, <2>3, <2>4 DEF Tick
<1>3. ASSUME NEW p \in Process, Count(p) PROVE TypeOK'
  <2>1. p \in Fiber /\ "claim" \in Phase
    BY DEF Fiber, Phase
  <2>2. [frame[p] EXCEPT !.skip = \E o \in Run : Blocking(o)] \in Frame
    BY <2>1, ZenonT(80) DEF Frame
  <2>3. frame' \in [Fiber -> Frame]
    BY <1>3, <2>1, <2>2 DEF Count
  <2> QED
    BY <1>3, <2>1, <2>3, GoesTyped DEF Count
<1>4. ASSUME NEW p \in Process, CountFails(p) PROVE TypeOK'
  <2>1. p \in Fiber /\ "claim" \in Phase
    BY DEF Fiber, Phase
  <2> QED
    BY <1>4, <2>1, GoesTyped DEF CountFails
<1>5. ASSUME NEW p \in Process, Claim(p) PROVE TypeOK'
  <2>1. p \in Fiber /\ "insert" \in Phase
    BY DEF Fiber, Phase, Spawning
  <2> DEFINE claimed == [frame[p].config EXCEPT !.last = frame[p].now]
  <2>2. claimed \in Config
    BY <2>1 DEF Frame, Config
  <2>3. rule' \in Rule
    BY <1>5, <2>2 DEF Claim
  <2>4. frame' \in [Fiber -> Frame] /\ pc' \in [Fiber -> Phase] /\ ticking' \in [Process -> BOOLEAN]
    <3>1. CASE frame[p].skip
      BY <1>5, <2>1, <3>1, EndsTyped DEF Claim
    <3>2. CASE ~frame[p].skip
      <4>1. [NoFrame EXCEPT !.config = claimed] \in Frame
        BY <2>2 DEF NoFrame, Frame
      <4> QED
        BY <1>5, <2>1, <3>2, <4>1, GoesTyped DEF Claim
    <3> QED
      BY <3>1, <3>2
  <2>5. lapses' \subseteq {"stale", "uncounted", "slow"}
    BY <1>5, TrustingTyped DEF Claim
  <2> QED
    BY <1>5, <2>3, <2>4, <2>5 DEF Claim
<1>6. ASSUME NEW p \in Process, ClaimRefused(p) PROVE TypeOK'
  BY <1>6, EndsTyped DEF ClaimRefused, Fiber
<1>7. ASSUME NEW f \in Fiber, NEW o \in Run, Insert(f, o) PROVE TypeOK'
  <2>1. [state |-> "open", seq |-> frame[f].config.count + 1,
         by |-> IF f \in Process THEN "tick" ELSE "user"]
            \in [state : RunState, seq : Nat, by : {"tick", "user"}]
    BY DEF RunState, Frame, Config
  <2>2. runs' \in Runs
    BY <1>7, <2>1 DEF Insert
  <2>3. "save" \in Phase
    BY DEF Phase, Spawning
  <2>4. lapses' \subseteq {"stale", "uncounted", "slow"}
    BY <1>7, TrustingTyped DEF Insert
  <2> QED
    BY <1>7, <2>2, <2>3, <2>4, GoesTyped DEF Insert
<1>8. ASSUME NEW f \in Fiber, Save(f) PROVE TypeOK'
  <2>1. [frame[f].config EXCEPT !.count = @ + 1, !.last = Reference(f)] \in Config
    BY SavedConfig
  <2>2. rule' \in Rule
    BY <1>8, <2>1 DEF Save, SaveRule, RuleState
  <2>3. lapses' \subseteq {"stale", "uncounted", "slow"}
    BY <1>8, TrustingTyped DEF Save
  <2> QED
    BY <1>8, <2>2, <2>3, EndsTyped DEF Save
<1>9. ASSUME NEW h \in Handler, Edit(h) PROVE TypeOK'
  <2>1. h \in Fiber
    BY DEF Fiber
  <2>2. \A policy \in Policy : [frame[h].config EXCEPT !.policy = policy] \in Config
    BY <2>1 DEF Frame, Config
  <2>3. rule' \in Rule
    BY <1>9, <2>2 DEF Edit, SaveRule, RuleState
  <2>4. lapses' \subseteq {"stale", "uncounted", "slow"}
    BY <1>9, TrustingTyped DEF Edit
  <2> QED
    BY <1>9, <2>1, <2>3, <2>4, EndsTyped DEF Edit
<1>10. ASSUME NEW h \in Handler, NEW o \in Run, Link(h, o) PROVE TypeOK'
  <2>1. runs' \in Runs
    BY <1>10 DEF Link, RunState
  <2> QED
    BY <1>10, <2>1, EndsTyped DEF Link, Fiber
<1>11. ASSUME NEW h \in Handler, NEW phase \in Phase, NEW config \in Config,
              Begins(h, phase, config)
       PROVE  /\ pc' \in [Fiber -> Phase] /\ ticking' \in [Process -> BOOLEAN]
              /\ frame' \in [Fiber -> Frame] /\ clock' = clock /\ lapses' = lapses
  <2>1. h \in Fiber
    BY DEF Fiber
  <2>2. [NoFrame EXCEPT !.config = config] \in Frame
    BY DEF Frame, NoFrame
  <2> QED
    BY <1>11, <2>1, <2>2, GoesTyped DEF Begins
<1>12. ASSUME NEW h \in Handler, NEW policy \in Policy, Create(h, policy) \/ Adopt(h, policy)
       PROVE TypeOK'
  <2>1. /\ [last |-> clock, count |-> 0, policy |-> policy] \in Config
        /\ [last |-> clock, count |-> 1, policy |-> policy] \in Config
        /\ "first" \in Phase /\ "link" \in Phase
    BY DEF Config, Phase, Spawning
  <2>2. CASE Create(h, policy)
    BY <1>11, <2>1, <2>2 DEF Create, RuleState
  <2>3. CASE Adopt(h, policy)
    <3>1. runs' \in Runs
      BY <2>3 DEF Adopt, RunState
    <3> QED
      BY <1>11, <2>1, <2>3, <3>1 DEF Adopt, RuleState
  <2> QED
    BY <1>12, <2>2, <2>3
<1>13. ASSUME NEW h \in Handler, NEW phase \in {"edit", "insert"}, Load(h, phase) PROVE TypeOK'
  <2>1. phase \in Phase /\ rule.config \in Config
    BY DEF Phase, Spawning
  <2> QED
    BY <1>11, <1>13, <2>1 DEF Load
<1>14. ASSUME NEW h \in Handler, Delete(h) \/ Restore(h) \/ HardDelete(h) PROVE TypeOK'
  BY <1>14 DEF Delete, Restore, HardDelete, Marks, RuleState
<1>19. ASSUME NEW h \in Handler, First(h) PROVE TypeOK'
  <2>1. h \in Fiber /\ "insert" \in Phase
    BY DEF Fiber, Phase, Spawning
  <2>2. [frame[h] EXCEPT !.now = clock] \in Frame
    BY <2>1 DEF Frame
  <2>3. frame' \in [Fiber -> Frame]
    BY <1>19, <2>1, <2>2 DEF First
  <2> QED
    BY <1>19, <2>1, <2>3, GoesTyped DEF First
<1>15. ASSUME NEW o \in Run, NEW state \in RunState, Moves(o, state) PROVE TypeOK'
  BY <1>15 DEF Moves
<1>16. ASSUME PeriodPasses PROVE TypeOK'
  BY <1>16 DEF PeriodPasses
<1>17. ASSUME NEW f \in Fiber, Fails(f) PROVE TypeOK'
  BY <1>17, EndsTyped DEF Fails
<1>18. ASSUME NEW p \in Process, NEW H \in SUBSET Handler, Crash(p, H) PROVE TypeOK'
  <2>1. NoFrame \in Frame /\ "idle" \in Phase
    BY DEF NoFrame, Frame, NoConfig, Config, Policy, Phase
  <2> QED
    BY <1>18, <2>1 DEF Crash
<1> QED
  BY <1>1, <1>2, <1>3, <1>4, <1>5, <1>6, <1>7, <1>8, <1>9, <1>10, <1>12, <1>13, <1>14,
     <1>15, <1>16, <1>17, <1>18, <1>19
     DEF Next, Routine, TickStep, SpawnStep, Request, RunMoves, Fault

(* The row, the runs, the flags and the locals keep their types. *)
THEOREM TypeCorrect == Spec => []TypeOK
<1>1. Init => TypeOK
  BY DEF Init, TypeOK, NoConfig, NoFrame, Config, Frame, Policy, Phase, RunState, RuleState
<1>2. TypeOK /\ [Next]_vars => TypeOK'
  BY TypeStep
<1> QED
  BY <1>1, <1>2, PTL DEF Spec

-----------------------------------------------------------------------------
(* The flag of a tick.                                                     *)

(* A fiber that ends lowers its flag, one that goes on keeps it, and a      *)
(* handler has none.                                                       *)
LEMMA FlagKept ==
    ASSUME TypeOK, FlagIsATick, NEW f \in Fiber,
           Ends(f) \/ \E phase \in Phase \ {"idle"} :
                        Goes(f, phase) /\ (pc[f] # "idle" \/ f \in Handler)
    PROVE  FlagIsATick'
<1> SUFFICES ASSUME NEW p \in Process PROVE (ticking[p] <=> pc[p] # "idle")'
  BY DEF FlagIsATick
<1>1. p \in Fiber /\ (f \in Handler => f # p)
  BY FibersDiffer DEF Fiber
<1>2. ticking[p] <=> pc[p] # "idle"
  BY DEF FlagIsATick
<1> QED
  BY <1>1, <1>2 DEF Ends, Goes, TypeOK

LEMMA FlagStep ==
    ASSUME TypeOK, FlagIsATick, [Next]_vars
    PROVE  FlagIsATick'
<1>1. CASE UNCHANGED vars
  BY <1>1 DEF vars, FlagIsATick
<1>2. ASSUME NEW p \in Process, Tick(p) PROVE FlagIsATick'
  BY <1>2 DEF Tick, FlagIsATick, TypeOK, Fiber
<1>3. ASSUME NEW p \in Process,
             Count(p) \/ CountFails(p) \/ Claim(p) \/ ClaimRefused(p)
      PROVE FlagIsATick'
  <2>1. p \in Fiber /\ {"claim", "insert"} \subseteq Phase \ {"idle"}
    BY DEF Fiber, Phase, Spawning
  <2>2. \/ Ends(p)
        \/ \E phase \in {"claim", "insert"} : Goes(p, phase) /\ pc[p] # "idle"
    BY <1>3 DEF Count, CountFails, Claim, ClaimRefused
  <2> QED
    BY <2>1, <2>2, FlagKept
<1>4. ASSUME NEW f \in Fiber, NEW o \in Run, Insert(f, o) PROVE FlagIsATick'
  BY <1>4, FlagKept DEF Insert, Phase, Spawning
<1>5. ASSUME NEW f \in Fiber, Save(f) \/ Fails(f) PROVE FlagIsATick'
  BY <1>5, FlagKept DEF Save, Fails
<1>6. ASSUME NEW h \in Handler, First(h) \/ Edit(h) \/ \E o \in Run : Link(h, o)
      PROVE FlagIsATick'
  <2>1. CASE First(h)
    BY <2>1, FlagKept DEF First, Fiber, Phase, Spawning
  <2>2. CASE Edit(h) \/ \E o \in Run : Link(h, o)
    BY <2>2, FlagKept DEF Edit, Link, Fiber
  <2> QED
    BY <1>6, <2>1, <2>2
<1>7. ASSUME NEW h \in Handler,
             \/ \E policy \in Policy : Create(h, policy) \/ Adopt(h, policy)
             \/ \E phase \in {"edit", "insert"} : Load(h, phase)
      PROVE FlagIsATick'
  <2>1. \E ph \in {"edit", "insert", "first", "link"} : Goes(h, ph)
    BY <1>7 DEF Create, Adopt, Load, Begins
  <2>2. {"edit", "insert", "first", "link"} \subseteq Phase \ {"idle"} /\ h \in Fiber
    BY DEF Phase, Spawning, Fiber
  <2> QED
    BY <2>1, <2>2, FlagKept
<1>8. ASSUME NEW h \in Handler, Delete(h) \/ Restore(h) \/ HardDelete(h) PROVE FlagIsATick'
  BY <1>8 DEF Delete, Restore, HardDelete, Marks, FlagIsATick
<1>9. ASSUME NEW o \in Run, NEW state \in RunState, Moves(o, state) PROVE FlagIsATick'
  BY <1>9 DEF Moves, FlagIsATick
<1>10. ASSUME PeriodPasses PROVE FlagIsATick'
  BY <1>10 DEF PeriodPasses, FlagIsATick
<1>11. ASSUME NEW p \in Process, NEW H \in SUBSET Handler, Crash(p, H) PROVE FlagIsATick'
  <2>1. \A q \in Process : q \in Fiber /\ q \notin H
    BY FibersDiffer DEF Fiber
  <2> QED
    BY <1>11, <2>1 DEF Crash, FlagIsATick, TypeOK
<1> QED
  BY <1>1, <1>2, <1>3, <1>4, <1>5, <1>6, <1>7, <1>8, <1>9, <1>10, <1>11
     DEF Next, Routine, TickStep, SpawnStep, Request, RunMoves, Fault

(* _recurrenceTickRunning is up exactly while a tick is at work on the rule,*)
(* whatever fails or dies (FlagIsATick).                                   *)
THEOREM FlagsAreTicks == Spec => []FlagIsATick
<1>1. Init => FlagIsATick
  BY DEF Init, FlagIsATick, Fiber
<1>2. TypeOK /\ FlagIsATick /\ [Next]_vars => FlagIsATick'
  BY FlagStep
<1> QED
  BY <1>1, <1>2, TypeCorrect, PTL DEF Spec

-----------------------------------------------------------------------------
(* Deletion.                                                               *)

(* A step from a deleted rule claims nothing, and leaves it deleted or      *)
(* removes its row, unless it restores it.                                 *)
LEMMA DeletedStep ==
    ASSUME TypeOK, [Next]_vars, rule.state = "deleted", \A h \in Handler : ~Restore(h)
    PROVE  rule'.state \in {"deleted", "gone"} /\ fired' = fired
<1> USE DEF TypeOK
<1>1. CASE UNCHANGED vars
  BY <1>1 DEF vars
<1>2. ASSUME NEW p \in Process, TickStep(p) \/ CountFails(p)
      PROVE rule' = rule /\ fired' = fired
  BY <1>2 DEF TickStep, CountFails, Tick, Count, Claim, Claimable, ClaimRefused
<1>3. ASSUME NEW f \in Fiber, SpawnStep(f) \/ Fails(f)
      PROVE rule'.state = "deleted" /\ fired' = fired
  BY <1>3 DEF SpawnStep, Fails, Save, SaveRule, Insert
<1>4. ASSUME NEW h \in Handler, First(h) \/ Edit(h) \/ \E o \in Run : Link(h, o)
      PROVE rule'.state = "deleted" /\ fired' = fired
  BY <1>4 DEF First, Edit, SaveRule, Link
<1>5. CASE Request
  BY <1>5 DEF Request, Create, Adopt, Load, Delete, HardDelete, Marks
<1>6. CASE RunMoves \/ PeriodPasses
  BY <1>6 DEF RunMoves, Moves, PeriodPasses
<1>7. ASSUME NEW p \in Process, NEW H \in SUBSET Handler, Crash(p, H)
      PROVE rule' = rule /\ fired' = fired
  BY <1>7 DEF Crash
<1> QED
  BY <1>1, <1>2, <1>3, <1>4, <1>5, <1>6, <1>7 DEF Next, Routine, Fault

(* Once the row is removed and nothing that will write it is left, nothing  *)
(* reads, claims or writes it any more.                                    *)
LEMMA GoneStep ==
    ASSUME TypeOK, [Next]_vars, GoneForGood
    PROVE  GoneForGood' /\ fired' = fired
<1> USE DEF TypeOK
<1>1. CASE UNCHANGED vars
  BY <1>1 DEF vars, GoneForGood, WritesBack
<1>2. ASSUME rule' = rule, fired' = fired,
             \A f \in Fiber : pc'[f] = pc[f] \/ pc'[f] \in {"idle", "claim"}
      PROVE  GoneForGood' /\ fired' = fired
  <2>1. \A f \in Fiber : ~WritesBack(f)'
    BY <1>2 DEF GoneForGood, WritesBack
  <2> QED
    BY <1>2, <2>1 DEF GoneForGood
<1>3. ASSUME NEW p \in Process, TickStep(p) \/ CountFails(p)
      PROVE  GoneForGood' /\ fired' = fired
  <2>1. ~Tick(p) /\ ~Claim(p)
    BY DEF Tick, Claim, Claimable, GoneForGood
  <2>2. /\ rule' = rule /\ fired' = fired
        /\ \A f \in Fiber : pc'[f] = pc[f] \/ pc'[f] \in {"idle", "claim"}
    BY <1>3, <2>1 DEF TickStep, CountFails, Count, ClaimRefused, Goes, Ends
  <2> QED
    BY <1>2, <2>2
<1>4. ASSUME NEW f \in Fiber, SpawnStep(f) PROVE FALSE
  BY <1>4 DEF SpawnStep, Save, Insert, GoneForGood, WritesBack
<1>5. ASSUME NEW h \in Handler, First(h) \/ Edit(h) PROVE FALSE
  BY <1>5 DEF First, Edit, GoneForGood, WritesBack, Fiber
<1>6. ASSUME NEW h \in Handler, NEW o \in Run, Link(h, o)
      PROVE  GoneForGood' /\ fired' = fired
  BY <1>2, <1>6 DEF Link, Ends
<1>7. CASE Request
  BY <1>7 DEF Request, Create, Adopt, Load, Delete, Restore, HardDelete, Marks, GoneForGood
<1>8. CASE RunMoves \/ PeriodPasses
  BY <1>2, <1>8 DEF RunMoves, Moves, PeriodPasses
<1>9. ASSUME NEW f \in Fiber, Fails(f) PROVE GoneForGood' /\ fired' = fired
  BY <1>2, <1>9 DEF Fails, Ends
<1>10. ASSUME NEW p \in Process, NEW H \in SUBSET Handler, Crash(p, H)
       PROVE  GoneForGood' /\ fired' = fired
  BY <1>2, <1>10 DEF Crash
<1> QED
  BY <1>1, <1>3, <1>4, <1>5, <1>6, <1>7, <1>8, <1>9, <1>10 DEF Next, Routine, Fault

(* A deleted rule stays deleted until it is restored, and one whose row is  *)
(* removed is gone for good once what had read it is over; in neither is a  *)
(* cycle claimed (StaysDeleted).                                           *)
THEOREM DeletedForGood == Spec => StaysDeleted
<1>1. TypeOK /\ [Next]_vars =>
        [/\ rule.state = "deleted" /\ (\A h \in Handler : ~Restore(h)) =>
              rule'.state \in {"deleted", "gone"} /\ fired' = fired
         /\ GoneForGood => GoneForGood' /\ fired' = fired]_vars
  BY DeletedStep, GoneStep
<1> QED
  BY <1>1, TypeCorrect, PTL DEF Spec, StaysDeleted

-----------------------------------------------------------------------------
(* Cycles.                                                                 *)

(* A step that takes no tick towards a claim or an insertion, moves neither *)
(* the clock nor the reference of the rule, and opens no run of a tick,     *)
(* keeps the invariants.                                                   *)
Rests(p) ==
    \/ pc'[p] = "idle"
    \/ pc[p] = "insert" /\ pc'[p] = "save"
    \/ pc'[p] = pc[p] /\ frame'[p] = frame[p]

LEMMA QuietStep ==
    ASSUME IInv, lapses \subseteq lapses', clock' = clock,
           \A p \in Process : Rests(p),
           lapses' = {} => rule'.config.last = rule.config.last,
           lapses' = {} /\ NoOpenTickRun => NoOpenTickRun'
    PROVE  DueInv' /\ SpawnInv' /\ SkipInv'
<1>1. DueInv'
  BY DEF IInv, DueInv, Rests
<1>2. SpawnInv'
  <2> SUFFICES ASSUME lapses' = {}, NEW p \in Process, Spawns(p)'
               PROVE  (rule.config.last >= clock)' /\ \A q \in Process : Spawns(q)' => q = p
    BY DEF SpawnInv
  <2>1. lapses = {} /\ rule'.config.last = rule.config.last
    OBVIOUS
  <2>2. \A q \in Process : Spawns(q)' => Spawns(q)
    BY DEF Rests, Spawns
  <2> QED
    BY <2>1, <2>2 DEF IInv, SpawnInv
<1>3. SkipInv'
  <2> SUFFICES ASSUME lapses' = {}, NEW p \in Process,
                      frame'[p].config.policy = "skip", WillInsert(p)'
               PROVE  NoOpenTickRun'
    BY DEF SkipInv
  <2>1. lapses = {} /\ rule'.config.last = rule.config.last
    OBVIOUS
  <2>2. pc'[p] = pc[p] /\ frame'[p] = frame[p]
    BY DEF Rests, WillInsert
  <2> QED
    BY <2>1, <2>2 DEF IInv, SkipInv, WillInsert
<1> QED
  BY <1>1, <1>2, <1>3

(* What a step does to the other fibers: nothing. *)
LEMMA EndsRests ==
    ASSUME TypeOK, NEW f \in Fiber, Ends(f)
    PROVE  \A p \in Process : Rests(p)
BY DEF TypeOK, Ends, Rests, Fiber

LEMMA HandlerRests ==
    ASSUME TypeOK, NEW h \in Handler, NEW phase, Goes(h, phase),
           \A p \in Process : frame'[p] = frame[p]
    PROVE  \A p \in Process : Rests(p)
BY FibersDiffer DEF TypeOK, Goes, Rests

(* Trusting what it has read, a step writes the reference that was there. *)
LEMMA TrustedReference ==
    ASSUME TypeOK, NEW config \in Config, Trusting(config)
    PROVE  /\ lapses \subseteq lapses'
           /\ "stale" \notin lapses' => config = rule.config
BY DEF Trusting

(* The claim moves the reference to the period the tick has noted. *)
LEMMA ClaimStep ==
    ASSUME IInv, NEW p \in Process, Claim(p)
    PROVE  /\ DueInv' /\ SpawnInv' /\ SkipInv'
           /\ rule'.config.last > rule.config.last
<1> USE DEF IInv
<1>1. /\ p \in Fiber /\ frame[p] \in Frame /\ rule.config \in Config
      /\ clock' = clock /\ lapses \subseteq lapses' /\ runs' = runs
      /\ frame[p].config.last = rule.config.last
      /\ rule'.config.last = frame[p].now /\ pc[p] = "claim"
  BY DEF TypeOK, Fiber, Claim, Claimable, Trusting, Frame, Config
<1>2. /\ frame[p].config.last < frame[p].now /\ frame[p].now <= clock
      /\ lapses = {} => frame[p].now = clock
  BY <1>1 DEF DueInv
<1>3. \A q \in Process : q # p => pc'[q] = pc[q] /\ frame'[q] = frame[q]
  BY DEF Claim, Ends, Goes, TypeOK, Fiber
<1>4. \/ pc'[p] = "idle"
      \/ /\ pc'[p] = "insert" /\ ~frame[p].skip
         /\ frame'[p].config.policy = frame[p].config.policy
  BY <1>1 DEF Claim, Ends, Goes, TypeOK, NoFrame, Frame, Config
<1>5. DueInv'
  BY <1>1, <1>3, <1>4 DEF DueInv
<1>6. SpawnInv'
  <2> SUFFICES ASSUME lapses' = {}
               PROVE  /\ (rule.config.last >= clock)'
                      /\ \A q \in Process : Spawns(q)' => q = p
    BY DEF SpawnInv
  <2>1. lapses = {} /\ frame[p].now = clock
    BY <1>1, <1>2
  <2>2. clock \in Nat /\ rule.config.last \in Nat
    BY <1>1 DEF TypeOK, Config
  <2>3. \A q \in Process : ~Spawns(q)
    BY <1>1, <1>2, <2>1, <2>2 DEF SpawnInv
  <2> QED
    BY <1>1, <1>3, <2>1, <2>2, <2>3 DEF Spawns
<1>7. SkipInv'
  <2> SUFFICES ASSUME lapses' = {}, NEW q \in Process,
                      frame'[q].config.policy = "skip", WillInsert(q)'
               PROVE  NoOpenTickRun
    BY <1>1 DEF SkipInv, NoOpenTickRun
  <2>1. lapses = {} /\ frame[p].now = clock
    BY <1>1, <1>2
  <2>2. CASE q = p
    BY <1>1, <1>4, <2>1, <2>2 DEF SkipInv, WillInsert
  <2>3. CASE q # p
    <3>1. pc[q] = pc'[q] /\ frame[q] = frame'[q] /\ frame[q] \in Frame /\ clock \in Nat
      BY <1>3, <2>3 DEF TypeOK, Fiber
    <3>2. pc[q] # "claim" \/ frame[q].config.last # rule'.config.last
      BY <1>1, <2>1, <3>1 DEF DueInv, Frame, Config
    <3>3. pc[q] = "insert"
      BY <3>1, <3>2 DEF WillInsert
    <3> QED
      BY <2>1, <3>1, <3>3 DEF SkipInv, WillInsert
  <2> QED
    BY <2>2, <2>3
<1> QED
  BY <1>1, <1>2, <1>5, <1>6, <1>7

(* The insertion of a tick makes its run the open one. *)
LEMMA InsertStep ==
    ASSUME IInv, NEW f \in Fiber, NEW o \in Run, Insert(f, o)
    PROVE  DueInv' /\ SpawnInv' /\ SkipInv'
<1> USE DEF IInv
<1>1. clock' = clock /\ lapses \subseteq lapses' /\ rule' = rule /\ frame' = frame
  BY DEF Insert, Trusting
<1>2. \A p \in Process : Rests(p)
  BY DEF Insert, Goes, Rests, TypeOK
<1>3. CASE f \in Process /\ lapses' = {}
  <2>1. rule.config.last >= clock /\ \A q \in Process : Spawns(q) => q = f
    BY <1>1, <1>3 DEF SpawnInv, Insert, Spawns
  <2>2. \A q \in Process : ~WillInsert(q)'
    <3> SUFFICES ASSUME NEW q \in Process, WillInsert(q)' PROVE FALSE
      OBVIOUS
    <3>1. pc'[f] = "save" /\ (q # f => pc'[q] = pc[q])
      BY DEF Insert, Goes, TypeOK, Fiber
    <3>2. q # f /\ WillInsert(q)
      BY <1>1, <3>1 DEF WillInsert
    <3>3. /\ frame[q].config.last \in Nat /\ frame[q].now \in Nat
          /\ rule.config.last \in Nat /\ clock \in Nat
      BY DEF TypeOK, Fiber, Frame, Config
    <3> QED
      BY <2>1, <3>2, <3>3 DEF WillInsert, Spawns, DueInv
  <2>3. SkipInv'
    BY <2>2 DEF SkipInv
  <2>4. DueInv'
    BY <1>1, <1>2 DEF DueInv, Rests
  <2>5. \A q \in Process : Spawns(q)' => Spawns(q)
    BY <1>2 DEF Rests, Spawns
  <2>6. SpawnInv'
    BY <1>1, <1>3, <2>5 DEF SpawnInv
  <2> QED
    BY <2>3, <2>4, <2>6
<1>4. CASE f \in Handler \/ lapses' # {}
  <2>1. lapses' = {} /\ NoOpenTickRun => NoOpenTickRun'
    <3>1. CASE f \in Handler
      <4>1. f \notin Process
        BY <3>1, ConstantsAssumption DEF ConstantsAssumption
      <4> QED
        BY <4>1 DEF NoOpenTickRun, Insert, TypeOK
    <3> QED
      BY <1>4, <3>1
  <2> QED
    BY <1>1, <1>2, <2>1, QuietStep
<1> QED
  BY <1>3, <1>4 DEF Fiber

(* A new rule has the clock for its reference. *)
LEMMA CreateStep ==
    ASSUME IInv, NEW h \in Handler, NEW policy \in Policy, Create(h, policy) \/ Adopt(h, policy)
    PROVE  /\ DueInv' /\ SpawnInv' /\ SkipInv'
           /\ fired' = rule'.config.last
<1> USE DEF IInv
<1>1. /\ clock' = clock /\ lapses' = lapses /\ clock \in Nat
      /\ rule'.config.last = clock /\ fired' = clock
  BY DEF Create, Adopt, Begins, TypeOK
<1>0. NoOpenTickRun => NoOpenTickRun'
  <2>1. CASE Create(h, policy)
    BY <2>1 DEF Create, NoOpenTickRun
  <2>2. CASE Adopt(h, policy)
    BY <2>2 DEF Adopt, TypeOK, NoOpenTickRun
  <2> QED
    BY <2>1, <2>2
<1>2. \A p \in Process : pc'[p] = pc[p] /\ frame'[p] = frame[p] /\ frame[p] \in Frame
  BY FibersDiffer DEF Create, Adopt, Begins, Goes, TypeOK
<1>3. DueInv'
  BY <1>1, <1>2 DEF DueInv
<1>4. SpawnInv'
  BY <1>1, <1>2 DEF SpawnInv, Spawns
<1>5. SkipInv'
  <2> SUFFICES ASSUME lapses' = {}, NEW q \in Process,
                      frame'[q].config.policy = "skip", WillInsert(q)'
               PROVE  NoOpenTickRun
    BY <1>0 DEF SkipInv
  <2>1. pc[q] # "claim" \/ frame[q].config.last # clock
    BY <1>1, <1>2 DEF DueInv, Frame, Config
  <2>2. pc[q] = "insert"
    BY <1>1, <1>2, <2>1 DEF WillInsert
  <2> QED
    BY <1>1, <1>2, <2>2 DEF SkipInv, WillInsert
<1> QED
  BY <1>1, <1>3, <1>4, <1>5

(* The first run notes the clock, and no other step notes any. *)
LEMMA NotedStep ==
    ASSUME IInv, [Next]_vars
    PROVE  NotedInv'
<1> USE DEF IInv
<1> DEFINE Kept(f) == pc'[f] = pc[f] /\ frame'[f] = frame[f]
           Free(f) == /\ pc'[f] \notin {"first", "save"}
                      /\ pc'[f] = "insert" => frame'[f].now <= frame'[f].config.last
<1>1. ASSUME lapses \subseteq lapses', clock' = clock, \A f \in Fiber : Kept(f) \/ Free(f)
      PROVE  NotedInv'
  BY <1>1 DEF NotedInv
<1>2. ASSUME NEW config \in Config PROVE [NoFrame EXCEPT !.config = config].now <= config.last
                                    /\ [NoFrame EXCEPT !.config = config].config = config
  BY DEF NoFrame, Config
<1>3. CASE UNCHANGED vars
  BY <1>3 DEF vars, NotedInv
<1>4. ASSUME NEW f \in Fiber, Ends(f), lapses \subseteq lapses', clock' = clock PROVE NotedInv'
  <2>1. \A g \in Fiber : Kept(g) \/ Free(g)
    BY <1>4 DEF Ends, TypeOK
  <2> QED
    BY <1>1, <1>4, <2>1
<1>5. ASSUME NEW p \in Process, Tick(p) \/ Count(p) \/ CountFails(p) PROVE NotedInv'
  <2>1. \A f \in Fiber : Kept(f) \/ Free(f)
    BY <1>5 DEF Tick, Count, CountFails, Goes, TypeOK
  <2> QED
    BY <1>1, <1>5, <2>1 DEF Tick, Count, CountFails
<1>6. ASSUME NEW p \in Process, Claim(p) PROVE NotedInv'
  <2> DEFINE claimed == [frame[p].config EXCEPT !.last = frame[p].now]
  <2>1. p \in Fiber /\ claimed \in Config
    BY DEF TypeOK, Fiber, Frame, Config
  <2>2. lapses \subseteq lapses' /\ clock' = clock
    BY <1>6 DEF Claim, Trusting
  <2>3. CASE frame[p].skip
    BY <1>4, <1>6, <2>1, <2>2, <2>3 DEF Claim
  <2>4. CASE ~frame[p].skip
    <3>1. /\ frame' = [frame EXCEPT ![p] = [NoFrame EXCEPT !.config = claimed]]
          /\ pc' = [pc EXCEPT ![p] = "insert"]
      BY <1>6, <2>4 DEF Claim, Goes
    <3>2. \A f \in Fiber : Kept(f) \/ Free(f)
      <4> HIDE DEF claimed
      <4> QED
        BY <1>2, <2>1, <3>1 DEF TypeOK
    <3> QED
      BY <1>1, <2>2, <3>2
  <2> QED
    BY <2>3, <2>4
<1>7. ASSUME NEW p \in Process, ClaimRefused(p) PROVE NotedInv'
  BY <1>4, <1>7 DEF ClaimRefused, Fiber
<1>8. ASSUME NEW f \in Fiber, NEW o \in Run, Insert(f, o) PROVE NotedInv'
  <2>1. /\ frame' = frame /\ clock' = clock /\ lapses \subseteq lapses' /\ pc[f] = "insert"
        /\ pc' = [pc EXCEPT ![f] = "save"]
    BY <1>8 DEF Insert, Goes, Trusting
  <2> QED
    BY <2>1 DEF NotedInv, TypeOK
<1>9. ASSUME NEW f \in Fiber, Save(f) \/ Fails(f) PROVE NotedInv'
  BY <1>4, <1>9 DEF Save, Fails, Trusting
<1>10. ASSUME NEW h \in Handler, Edit(h) \/ \E o \in Run : Link(h, o) PROVE NotedInv'
  BY <1>4, <1>10 DEF Edit, Link, Trusting, Fiber
<1>11. ASSUME NEW h \in Handler, First(h) PROVE NotedInv'
  <2>1. h \in Fiber /\ frame[h] \in Frame /\ clock \in Nat
    BY DEF TypeOK, Fiber
  <2>2. /\ frame' = [frame EXCEPT ![h].now = clock] /\ pc' = [pc EXCEPT ![h] = "insert"]
        /\ clock' = clock /\ lapses' = lapses /\ pc[h] = "first"
    BY <1>11 DEF First, Goes
  <2>3. lapses = {} => frame'[h].now <= frame'[h].config.last
    BY <2>1, <2>2 DEF NotedInv, TypeOK, Frame
  <2> QED
    BY <2>1, <2>2, <2>3 DEF NotedInv, TypeOK
<1>12. ASSUME NEW h \in Handler, NEW phase, NEW config \in Config, Begins(h, phase, config),
              phase = "first" => config.last = clock, phase # "save", clock' = clock
       PROVE  NotedInv'
  <2>1. h \in Fiber
    BY DEF Fiber
  <2>2. /\ frame' = [frame EXCEPT ![h] = [NoFrame EXCEPT !.config = config]]
        /\ pc' = [pc EXCEPT ![h] = phase] /\ lapses' = lapses
    BY <1>12 DEF Begins, Goes
  <2>3. \A f \in Fiber \ {h} : Kept(f)
    BY <2>1, <2>2 DEF TypeOK
  <2>4. /\ pc'[h] = phase /\ frame'[h].config = config
        /\ frame'[h].now <= frame'[h].config.last
    BY <1>2, <2>1, <2>2 DEF TypeOK
  <2> QED
    BY <1>12, <2>1, <2>2, <2>3, <2>4 DEF NotedInv
<1>13. ASSUME NEW h \in Handler, NEW policy \in Policy, Create(h, policy) \/ Adopt(h, policy)
       PROVE  NotedInv'
  <2>1. /\ [last |-> clock, count |-> 0, policy |-> policy] \in Config
        /\ [last |-> clock, count |-> 1, policy |-> policy] \in Config
    BY DEF TypeOK, Config
  <2>2. CASE Create(h, policy)
    BY <1>12, <2>1, <2>2 DEF Create, Begins
  <2>3. CASE Adopt(h, policy)
    BY <1>12, <2>1, <2>3 DEF Adopt, Begins
  <2> QED
    BY <1>13, <2>2, <2>3
<1>14. ASSUME NEW h \in Handler, NEW phase \in {"edit", "insert"}, Load(h, phase) PROVE NotedInv'
  BY <1>12, <1>14 DEF Load, Begins, TypeOK
<1>15. ASSUME NEW h \in Handler, Delete(h) \/ Restore(h) \/ HardDelete(h) PROVE NotedInv'
  BY <1>15 DEF Delete, Restore, HardDelete, Marks, NotedInv
<1>16. CASE RunMoves
  BY <1>16 DEF RunMoves, Moves, NotedInv
<1>17. CASE PeriodPasses
  BY <1>17 DEF PeriodPasses, NotedInv
<1>18. ASSUME NEW p \in Process, NEW H \in SUBSET Handler, Crash(p, H) PROVE NotedInv'
  <2>1. \A f \in Fiber : Kept(f) \/ Free(f)
    BY <1>18 DEF Crash
  <2> QED
    BY <1>1, <1>18, <2>1 DEF Crash
<1> QED
  BY <1>3, <1>5, <1>6, <1>7, <1>8, <1>9, <1>10, <1>11, <1>13, <1>14, <1>15, <1>16, <1>17, <1>18
     DEF Next, Routine, TickStep, SpawnStep, Request, Fault

LEMMA InvStep ==
    ASSUME IInv, [Next]_vars
    PROVE  IInv'
<1> USE DEF IInv
<1>0. TypeOK'
  BY TypeStep
<1>1. CASE UNCHANGED vars
  BY <1>0, <1>1
     DEF vars, DueInv, SpawnInv, Spawns, SkipInv, WillInsert, NoOpenTickRun, NotedInv
<1>2. ASSUME NEW p \in Process, Tick(p) PROVE DueInv' /\ SpawnInv' /\ SkipInv'
  <2>1. /\ clock' = clock /\ lapses' = lapses /\ rule' = rule
        /\ \A q \in Process : q # p => pc'[q] = pc[q] /\ frame'[q] = frame[q]
    BY <1>2 DEF Tick, TypeOK, Fiber
  <2>2. NoOpenTickRun => NoOpenTickRun'
    <3>1. CASE runs' = runs
      BY <3>1 DEF NoOpenTickRun
    <3>2. CASE runs' = Swept
      BY <3>2, SweptRuns DEF NoOpenTickRun, TypeOK
    <3> QED
      BY <1>2, <3>1, <3>2 DEF Tick
  <2>3. CASE clock <= rule.config.last
    <3>1. \A q \in Process : Rests(q)
      BY <1>2, <2>3 DEF Tick, Rests
    <3> QED
      BY <2>1, <2>2, <3>1, QuietStep
  <2>4. CASE ~(clock <= rule.config.last)
    <3>1. /\ frame'[p].config = rule.config /\ frame'[p].now = clock
          /\ pc'[p] = IF rule.config.policy = "skip" THEN "count" ELSE "claim"
      BY <1>2, <2>4 DEF Tick, TypeOK, Fiber, Frame
    <3>2. clock \in Nat /\ rule.config.last \in Nat
      BY DEF TypeOK, Config
    <3>3. DueInv'
      BY <2>1, <2>4, <3>1, <3>2 DEF DueInv
    <3>4. SpawnInv'
      BY <2>1, <3>1 DEF SpawnInv, Spawns
    <3>5. SkipInv'
      <4> SUFFICES ASSUME lapses' = {}, NEW q \in Process,
                          frame'[q].config.policy = "skip", WillInsert(q)'
                   PROVE  NoOpenTickRun
        BY <2>2 DEF SkipInv
      <4>1. q # p
        BY <3>1 DEF WillInsert
      <4> QED
        BY <2>1, <4>1 DEF SkipInv, WillInsert
    <3> QED
      BY <3>3, <3>4, <3>5
  <2> QED
    BY <2>3, <2>4
<1>3. ASSUME NEW p \in Process, Count(p) \/ CountFails(p)
      PROVE  DueInv' /\ SpawnInv' /\ SkipInv'
  <2>1. /\ clock' = clock /\ lapses \subseteq lapses' /\ rule' = rule /\ runs' = runs
        /\ \A q \in Process : q # p => pc'[q] = pc[q] /\ frame'[q] = frame[q]
        /\ pc[p] = "count" /\ pc'[p] = "claim"
        /\ frame'[p].config = frame[p].config /\ frame'[p].now = frame[p].now
    BY <1>3 DEF Count, CountFails, Goes, TypeOK, Fiber, Frame
  <2>2. DueInv'
    BY <2>1 DEF DueInv
  <2>3. SpawnInv'
    BY <2>1 DEF SpawnInv, Spawns
  <2>4. lapses' = {} => frame'[p].skip \/ NoOpenTickRun
    BY <1>3 DEF Count, CountFails, TypeOK, Fiber, Frame, Blocking, NoOpenTickRun
  <2>5. SkipInv'
    BY <2>1, <2>4 DEF SkipInv, WillInsert, NoOpenTickRun
  <2> QED
    BY <2>2, <2>3, <2>5
<1>4. ASSUME NEW p \in Process, Claim(p) \/ ClaimRefused(p)
      PROVE  DueInv' /\ SpawnInv' /\ SkipInv'
  <2>1. CASE ClaimRefused(p)
    BY <2>1, EndsRests, QuietStep DEF ClaimRefused, NoOpenTickRun, Fiber
  <2> QED
    BY <1>4, <2>1, ClaimStep
<1>5. ASSUME NEW f \in Fiber, Save(f) PROVE DueInv' /\ SpawnInv' /\ SkipInv'
  <2>1. /\ frame[f].config \in Config /\ rule.config \in Config
        /\ frame[f].now \in Nat /\ frame[f].config.last \in Nat
    BY DEF TypeOK, Frame, Config
  <2>2. lapses' = {} => rule'.config.last = frame[f].config.last
    <3>1. rule'.config.last = Reference(f)
      BY <1>5, <2>1 DEF Save, SaveRule, TypeOK, Config
    <3>2. lapses' = {} => lapses = {}
      BY <1>5, <2>1, TrustedReference DEF Save
    <3> QED
      BY <1>5, <2>1, <3>1, <3>2 DEF Save, NotedInv, Reference
  <2>3. lapses \subseteq lapses' /\ (lapses' = {} => rule'.config.last = rule.config.last)
    BY <1>5, <2>1, <2>2, TrustedReference DEF Save
  <2> QED
    BY <1>5, <2>3, EndsRests, QuietStep DEF Save, NoOpenTickRun
<1>6. ASSUME NEW h \in Handler, Edit(h) PROVE DueInv' /\ SpawnInv' /\ SkipInv'
  <2>1. h \in Fiber /\ frame[h].config \in Config /\ rule.config \in Config
    BY DEF TypeOK, Frame, Fiber
  <2>2. rule'.config.last = frame[h].config.last
    BY <1>6, <2>1 DEF Edit, SaveRule, TypeOK, Config
  <2>3. lapses \subseteq lapses' /\ (lapses' = {} => rule'.config.last = rule.config.last)
    BY <1>6, <2>1, <2>2, TrustedReference DEF Edit
  <2> QED
    BY <1>6, <2>1, <2>3, EndsRests, QuietStep DEF Edit, NoOpenTickRun
<1>7. ASSUME NEW h \in Handler, NEW o \in Run, Link(h, o)
      PROVE  DueInv' /\ SpawnInv' /\ SkipInv'
  <2>1. NoOpenTickRun => NoOpenTickRun'
    BY <1>7 DEF Link, NoOpenTickRun, TypeOK
  <2> QED
    BY <1>7, <2>1, FibersDiffer, EndsRests, QuietStep DEF Link, Fiber
<1>8. ASSUME NEW h \in Handler, NEW phase, Load(h, phase)
      PROVE  DueInv' /\ SpawnInv' /\ SkipInv'
  <2>1. \A p \in Process : frame'[p] = frame[p]
    BY <1>8, FibersDiffer DEF Load, Begins, TypeOK
  <2> QED
    BY <1>8, <2>1, HandlerRests, QuietStep DEF Load, Begins, NoOpenTickRun
<1>9. ASSUME NEW h \in Handler, Delete(h) \/ Restore(h) \/ HardDelete(h)
      PROVE  DueInv' /\ SpawnInv' /\ SkipInv'
  BY <1>9, QuietStep DEF Delete, Restore, HardDelete, Marks, Rests, NoOpenTickRun, TypeOK
<1>14. ASSUME NEW h \in Handler, First(h) PROVE DueInv' /\ SpawnInv' /\ SkipInv'
  <2>1. \A p \in Process : frame'[p] = frame[p]
    BY <1>14, FibersDiffer DEF First, TypeOK
  <2> QED
    BY <1>14, <2>1, HandlerRests, QuietStep DEF First, NoOpenTickRun
<1>10. ASSUME NEW o \in Run, NEW state \in RunState, Moves(o, state)
       PROVE  DueInv' /\ SpawnInv' /\ SkipInv'
  <2>1. state # "open"
    BY <1>10 DEF Moves, Fate
  <2>2. NoOpenTickRun => NoOpenTickRun'
    BY <1>10, <2>1 DEF Moves, NoOpenTickRun, TypeOK
  <2> QED
    BY <1>10, <2>2, QuietStep DEF Moves, Rests
<1>11. ASSUME PeriodPasses PROVE DueInv' /\ SpawnInv' /\ SkipInv'
  <2>1. clock' = clock + 1 /\ lapses \subseteq lapses' /\ clock \in Nat
    BY <1>11 DEF PeriodPasses, TypeOK
  <2>2. \A p \in Process : lapses' = {} => pc'[p] = "idle"
    BY <1>11 DEF PeriodPasses, Fiber
  <2>3. DueInv'
    <3>1. \A p \in Process : frame[p].now \in Nat
      BY DEF TypeOK, Frame, Fiber
    <3> QED
      BY <1>11, <2>1, <2>2, <3>1 DEF DueInv, PeriodPasses
  <2> QED
    BY <2>2, <2>3 DEF SpawnInv, Spawns, SkipInv, WillInsert
<1>12. ASSUME NEW f \in Fiber, Fails(f) PROVE DueInv' /\ SpawnInv' /\ SkipInv'
  BY <1>12, EndsRests, QuietStep DEF Fails, NoOpenTickRun
<1>13. ASSUME NEW p \in Process, NEW H \in SUBSET Handler, Crash(p, H)
       PROVE  DueInv' /\ SpawnInv' /\ SkipInv'
  <2>1. \A q \in Process : Rests(q)
    BY <1>13 DEF Crash, Rests, Fiber
  <2> QED
    BY <1>13, <2>1, QuietStep DEF Crash, NoOpenTickRun
<1> QED
  BY <1>0, <1>1, <1>2, <1>3, <1>4, <1>5, <1>6, <1>7, <1>8, <1>9, <1>10, <1>11, <1>12, <1>13,
     <1>14, InsertStep, CreateStep, NotedStep
     DEF Next, Routine, TickStep, SpawnStep, Request, RunMoves, Fault

LEMMA Invariants == Spec => []IInv
<1>1. Init => IInv
  <2>1. Init => TypeOK
    BY DEF Init, TypeOK, NoConfig, NoFrame, Config, Frame, Policy, Phase, RunState, RuleState
  <2> QED
    BY <2>1 DEF Init, IInv, DueInv, SpawnInv, Spawns, SkipInv, WillInsert, NotedInv, Fiber
<1> QED
  BY <1>1, InvStep, PTL DEF Spec

(* What a rule has claimed stays within its reference. *)
LEMMA FiredStep ==
    ASSUME IInv, CycleFiresOnce, [Next]_vars
    PROVE  CycleFiresOnce'
<1> USE DEF IInv
<1>1. CASE UNCHANGED vars
  BY <1>1 DEF vars, CycleFiresOnce
<1>2. ASSUME NEW p \in Process, Tick(p) \/ Count(p) \/ CountFails(p) \/ ClaimRefused(p)
      PROVE  CycleFiresOnce'
  BY <1>2 DEF CycleFiresOnce, Tick, Count, CountFails, ClaimRefused
<1>3. ASSUME NEW p \in Process, Claim(p) PROVE CycleFiresOnce'
  <2>1. /\ rule'.config.last > rule.config.last
        /\ rule.config.last \in Nat /\ rule'.config.last \in Nat
    BY <1>3, ClaimStep, TypeStep DEF TypeOK, Config, Next, Routine, TickStep
  <2>2. fired' = fired + 1 /\ lapses \subseteq lapses' /\ rule.state = "live" /\ fired \in Nat
    BY <1>3 DEF Claim, Claimable, Trusting, TypeOK
  <2> QED
    BY <2>1, <2>2 DEF CycleFiresOnce
<1>4. ASSUME NEW f \in Fiber, NEW o \in Run, Insert(f, o) PROVE CycleFiresOnce'
  BY <1>4 DEF CycleFiresOnce, Insert, Trusting
<1>5. ASSUME NEW f \in Fiber, NEW config \in Config,
             config.last >= frame[f].config.last, SaveRule(config),
             Trusting(frame[f].config), fired' = fired
      PROVE  CycleFiresOnce'
  <2>1. /\ frame[f].config \in Config /\ frame[f].config.last \in Nat
        /\ config.last \in Nat /\ fired \in Nat
    BY DEF TypeOK, Frame, Config
  <2>2. (rule'.state # "none" => rule.state # "none") /\ rule'.config = config
    BY <1>5 DEF SaveRule, TypeOK
  <2> QED
    BY <1>5, <2>1, <2>2, TrustedReference DEF CycleFiresOnce
<1>6. ASSUME NEW f \in Fiber, Save(f) PROVE CycleFiresOnce'
  <2> DEFINE config == [frame[f].config EXCEPT !.count = @ + 1, !.last = Reference(f)]
  <2>1. config \in Config /\ config.last >= frame[f].config.last
    BY SavedConfig
  <2> QED
    BY <1>5, <1>6, <2>1 DEF Save
<1>7. ASSUME NEW h \in Handler, Edit(h) PROVE CycleFiresOnce'
  <2>1. PICK policy \in Policy : SaveRule([frame[h].config EXCEPT !.policy = policy])
    BY <1>7 DEF Edit
  <2> DEFINE config == [frame[h].config EXCEPT !.policy = policy]
  <2>2. h \in Fiber /\ config \in Config /\ config.last >= frame[h].config.last
    BY DEF TypeOK, Frame, Config, Fiber
  <2> QED
    BY <1>5, <1>7, <2>1, <2>2 DEF Edit
<1>8. ASSUME NEW h \in Handler, Delete(h) \/ Restore(h) \/ HardDelete(h) PROVE CycleFiresOnce'
  BY <1>8 DEF Delete, Restore, HardDelete, Marks, CycleFiresOnce, TypeOK
<1>9. ASSUME NEW h \in Handler, NEW policy \in Policy, Create(h, policy) \/ Adopt(h, policy)
      PROVE  CycleFiresOnce'
  <2>1. fired' = rule'.config.last /\ rule'.config.last \in Nat
    BY <1>9, CreateStep DEF Create, Adopt, TypeOK
  <2> QED
    BY <2>1 DEF CycleFiresOnce
<1>10. ASSUME \/ \E h \in Handler, phase \in {"edit", "insert"} : Load(h, phase)
              \/ \E h \in Handler : First(h) \/ \E o \in Run : Link(h, o)
              \/ \E f \in Fiber : Fails(f)
              \/ \E p \in Process, H \in SUBSET Handler : Crash(p, H)
              \/ RunMoves
       PROVE  CycleFiresOnce'
  BY <1>10 DEF CycleFiresOnce, Load, Begins, First, Link, Fails, Crash, RunMoves, Moves
<1>11. ASSUME PeriodPasses PROVE CycleFiresOnce'
  BY <1>11 DEF PeriodPasses, CycleFiresOnce
<1> QED
  BY <1>1, <1>2, <1>3, <1>4, <1>6, <1>7, <1>8, <1>9, <1>10, <1>11
     DEF Next, Routine, TickStep, SpawnStep, Request, Fault

(* Whatever ticks race, a rule takes at least a period for each cycle that  *)
(* was claimed, unless a stale read was written back (CycleFiresOnce).      *)
THEOREM CyclesFireOnce == Spec => []CycleFiresOnce
<1>1. Init => CycleFiresOnce
  BY DEF Init, CycleFiresOnce
<1> QED
  BY <1>1, FiredStep, Invariants, PTL DEF Spec

(* With the policy skip a tick starts no run while one that an earlier tick *)
(* started is unfinished, unless something unlikely has happened            *)
(* (SkipNeverOverlaps).                                                    *)
THEOREM SkippedRunsNeverOverlap == Spec => SkipNeverOverlaps
<1>1. IInv /\ [Next]_vars =>
        [\A p \in Process :
           StartsRun(p) /\ frame[p].config.policy = "skip" /\ lapses = {} =>
               \A o \in Run : runs[o].by = "tick" => runs[o].state # "open"]_vars
  BY DEF IInv, SkipInv, StartsRun, WillInsert, NoOpenTickRun
<1> QED
  BY <1>1, Invariants, PTL DEF Spec, SkipNeverOverlaps

-----------------------------------------------------------------------------
(* Retention.                                                              *)

(* The runs are created one after the other, and only once there is a rule. *)
Created(o) == runs[o].state # "none"
CreatedInv ==
    /\ \A o, q \in Run : Created(q) /\ ~Created(o) => q < o
    /\ \A o \in Run : ~Created(o) => runs[o].seq = 0
    /\ rule.state = "none" =>
         /\ \A o \in Run : ~Created(o)
         /\ \A f \in Fiber : pc[f] = "idle"

(* While no rule is written back from a stale read its counter only grows,  *)
(* so that the numbers of the runs are in the order of their creation: the  *)
(* adopted card, which is numbered late, came before all of them.           *)
OrderInv ==
    lapses = {} =>
        /\ \A o \in Run : Created(o) => runs[o].seq <= rule.config.count + 1
        /\ \A o, q \in Run : Created(o) /\ Created(q) /\ o < q => runs[o].seq <= runs[q].seq
        /\ \A o, q \in Run : runs[o].state = "card" /\ Created(q) /\ o # q =>
             o < q /\ runs[q].seq >= 1

NumberInv == CreatedInv /\ OrderInv

(* A fiber at work has a rule. *)
LEMMA WorkHasRule ==
    ASSUME NumberInv, NEW f \in Fiber, pc[f] # "idle"
    PROVE  rule.state # "none"
BY DEF NumberInv, CreatedInv

(* A step that creates and numbers no run, and begins nothing before there  *)
(* is a rule, keeps the order.                                             *)
LEMMA NumberKept ==
    ASSUME TypeOK, TypeOK', NumberInv, lapses \subseteq lapses',
           \A o \in Run : /\ runs'[o].seq = runs[o].seq
                          /\ runs'[o].state = "none" <=> runs[o].state = "none"
                          /\ runs'[o].state = "card" => runs[o].state = "card",
           lapses' = {} => rule'.config.count >= rule.config.count,
           rule'.state = "none" =>
               rule.state = "none" /\ \A f \in Fiber : pc'[f] \in {pc[f], "idle"}
    PROVE  NumberInv'
<1>1. \A o \in Run : Created(o)' <=> Created(o)
  BY DEF Created
<1>2. CreatedInv'
  BY <1>1 DEF NumberInv, CreatedInv
<1>3. OrderInv'
  <2> SUFFICES ASSUME lapses' = {}
               PROVE  OrderInv'
    BY DEF OrderInv
  <2>1. /\ rule'.config.count \in Nat /\ rule.config.count \in Nat
        /\ \A o \in Run : runs[o].seq \in Nat
    BY DEF TypeOK, Config
  <2>2. \A o \in Run : Created(o)' => runs'[o].seq <= rule'.config.count + 1
    BY <1>1, <2>1 DEF NumberInv, OrderInv
  <2> QED
    BY <1>1, <2>2 DEF NumberInv, OrderInv
<1> QED
  BY <1>2, <1>3 DEF NumberInv

(* Of the configurations trusted the counter is the row's.                  *)
LEMMA TrustedCount ==
    ASSUME TypeOK, NEW config, Trusting(config), lapses' = {}
    PROVE  config = rule.config /\ lapses = {}
BY DEF Trusting

(* The run inserted has the number after the counter. *)
LEMMA InsertOrders ==
    ASSUME TypeOK, TypeOK', NumberInv, NEW f \in Fiber, NEW o \in Run, Insert(f, o)
    PROVE  NumberInv'
<1>1. /\ \A q \in Run \ {o} : runs'[q] = runs[q]
      /\ runs'[o].state = "open" /\ runs'[o].seq = frame[f].config.count + 1
      /\ rule' = rule /\ rule.state # "none"
  BY WorkHasRule DEF Insert, TypeOK
<1>2. \A q \in Run : Created(q)' <=> Created(q) \/ q = o
  BY <1>1 DEF Created
<1>3. /\ ~Created(o) /\ \A q \in Run : ~Created(q) => o <= q
      /\ \A q \in Run : Created(q) => q < o
  BY DEF Insert, IsNext, Created, NumberInv, CreatedInv
<1>4. \A q \in Run : q \in Nat
  BY ConstantsAssumption DEF ConstantsAssumption
<1>5. CreatedInv'
  <2>1. \A q, r \in Run : Created(r)' /\ ~Created(q)' => r < q
    BY <1>2, <1>3, <1>4 DEF NumberInv, CreatedInv
  <2>2. \A q \in Run : ~Created(q)' => runs'[q].seq = 0
    BY <1>1, <1>2 DEF NumberInv, CreatedInv
  <2> QED
    BY <1>1, <2>1, <2>2 DEF CreatedInv
<1>6. OrderInv'
  <2> SUFFICES ASSUME lapses' = {} PROVE OrderInv'
    BY DEF OrderInv
  <2>1. frame[f].config = rule.config /\ lapses = {}
    BY TrustedCount DEF Insert
  <2>2. /\ runs'[o].seq = rule.config.count + 1 /\ rule.config.count \in Nat
        /\ \A q \in Run : runs'[q].seq \in Nat /\ runs[q].seq \in Nat
    BY <1>1, <2>1 DEF TypeOK, Config
  <2>3. \A q \in Run : Created(q) => runs[q].seq <= rule.config.count + 1
    BY <2>1 DEF NumberInv, OrderInv
  <2>4. \A q \in Run : Created(q)' => runs'[q].seq <= rule'.config.count + 1
    BY <1>1, <1>2, <2>2, <2>3
  <2>5. \A q, r \in Run : Created(q)' /\ Created(r)' /\ q < r => runs'[q].seq <= runs'[r].seq
    <3> SUFFICES ASSUME NEW q \in Run, NEW r \in Run, Created(q)', Created(r)', q < r
                 PROVE  runs'[q].seq <= runs'[r].seq
      OBVIOUS
    <3>1. q # o
      BY <1>2, <1>3, <1>4
    <3>2. CASE r = o
      BY <1>1, <1>2, <2>2, <2>3, <3>1, <3>2
    <3>3. CASE r # o
      BY <1>1, <1>2, <2>1, <3>1, <3>3 DEF NumberInv, OrderInv
    <3> QED
      BY <3>2, <3>3
  <2>6. \A q, r \in Run : runs'[q].state = "card" /\ Created(r)' /\ q # r =>
          q < r /\ runs'[r].seq >= 1
    <3> SUFFICES ASSUME NEW q \in Run, NEW r \in Run, runs'[q].state = "card", Created(r)', q # r
                 PROVE  q < r /\ runs'[r].seq >= 1
      OBVIOUS
    <3>1. q # o /\ runs[q].state = "card" /\ Created(q)
      BY <1>1 DEF Created
    <3>2. CASE r = o
      BY <1>3, <2>2, <3>1, <3>2
    <3>3. CASE r # o
      BY <1>1, <1>2, <2>1, <3>1, <3>3 DEF NumberInv, OrderInv
    <3> QED
      BY <3>2, <3>3
  <2> QED
    BY <2>4, <2>5, <2>6 DEF OrderInv
<1> QED
  BY <1>5, <1>6 DEF NumberInv

(* The card that is linked came before all runs. *)
LEMMA LinkOrders ==
    ASSUME TypeOK, TypeOK', NumberInv, NEW h \in Handler, NEW o \in Run, Link(h, o)
    PROVE  NumberInv'
<1>1. /\ \A q \in Run \ {o} : runs'[q] = runs[q]
      /\ runs'[o].state \in {"open", "done"} /\ runs'[o].seq = 1
      /\ rule' = rule /\ lapses' = lapses /\ runs[o].state = "card"
  BY DEF Link, TypeOK
<1>2. rule.state # "none"
  BY WorkHasRule DEF Link, Fiber
<1>3. \A q \in Run : Created(q)' <=> Created(q)
  BY <1>1 DEF Created
<1>4. CreatedInv'
  <2>1. \A q \in Run : ~Created(q)' => runs'[q].seq = 0
    BY <1>1, <1>3 DEF NumberInv, CreatedInv, Created
  <2>2. \A q, r \in Run : Created(r)' /\ ~Created(q)' => r < q
    BY <1>3 DEF NumberInv, CreatedInv
  <2> QED
    BY <1>1, <1>2, <2>1, <2>2 DEF CreatedInv
<1>5. OrderInv'
  <2> SUFFICES ASSUME lapses' = {} PROVE OrderInv'
    BY DEF OrderInv
  <2>1. \A q \in Run : Created(q) /\ q # o => o < q /\ runs[q].seq >= 1
    BY <1>1 DEF NumberInv, OrderInv
  <2>2. /\ rule.config.count \in Nat
        /\ \A q \in Run : q \in Nat /\ runs'[q].seq \in Nat
    BY ConstantsAssumption DEF ConstantsAssumption, TypeOK, Config
  <2>3. \A q \in Run : Created(q)' => runs'[q].seq <= rule'.config.count + 1
    BY <1>1, <1>3, <2>2 DEF NumberInv, OrderInv
  <2>4. \A q, r \in Run : Created(q)' /\ Created(r)' /\ q < r => runs'[q].seq <= runs'[r].seq
    <3> SUFFICES ASSUME NEW q \in Run, NEW r \in Run, Created(q)', Created(r)', q < r
                 PROVE  runs'[q].seq <= runs'[r].seq
      OBVIOUS
    <3>1. r # o
      BY <1>3, <2>1, <2>2
    <3>2. CASE q = o
      BY <1>1, <1>3, <2>1, <3>1, <3>2
    <3>3. CASE q # o
      BY <1>1, <1>3, <3>1, <3>3 DEF NumberInv, OrderInv
    <3> QED
      BY <3>2, <3>3
  <2>5. \A q, r \in Run : runs'[q].state = "card" /\ Created(r)' /\ q # r =>
          q < r /\ runs'[r].seq >= 1
    BY <1>1, <1>3, <2>1, <2>2 DEF NumberInv, OrderInv, Created
  <2> QED
    BY <2>3, <2>4, <2>5 DEF OrderInv
<1> QED
  BY <1>4, <1>5 DEF NumberInv

(* Before there is a rule there is no run, and no card of it. *)
LEMMA CreateOrders ==
    ASSUME TypeOK, TypeOK', NumberInv, NEW h \in Handler, NEW policy \in Policy,
           Create(h, policy) \/ Adopt(h, policy)
    PROVE  NumberInv'
<1>1. (\A o \in Run : ~Created(o)) /\ rule'.state # "none" /\ rule'.config.count \in Nat
  BY DEF Create, Adopt, NumberInv, CreatedInv, TypeOK, Config
<1>2. CASE Create(h, policy)
  BY <1>1, <1>2 DEF Create, NumberInv, CreatedInv, OrderInv, Created
<1>3. CASE Adopt(h, policy)
  <2>1. PICK o \in Run : IsNext(o) /\ runs' = [runs EXCEPT ![o].state = "card"]
    BY <1>3 DEF Adopt
  <2>2. \A q \in Run : Created(q)' <=> q = o
    BY <1>1, <2>1 DEF Created, TypeOK
  <2>3. \A q \in Run : q \in Nat /\ q >= o /\ (q # o => o < q)
    BY <1>1, <2>1, ConstantsAssumption DEF ConstantsAssumption, IsNext, Created
  <2>4. CreatedInv'
    BY <1>1, <2>1, <2>2, <2>3 DEF CreatedInv, NumberInv, TypeOK
  <2>5. rule'.config.count = 1 /\ \A q \in Run : runs'[q].seq = runs[q].seq /\ runs[q].seq \in Nat
    BY <1>3, <2>1 DEF Adopt, TypeOK
  <2>6. \A q \in Run : Created(q)' => runs'[q].seq <= rule'.config.count + 1
    <3>1. runs'[o].seq = 0
      BY <1>1, <2>5 DEF NumberInv, CreatedInv
    <3> QED
      BY <2>2, <2>5, <3>1
  <2>7. OrderInv'
    <3>1. \A q, r \in Run : Created(q)' /\ Created(r)' => ~(q < r) /\ q = r
      BY <2>2, <2>3
    <3> QED
      BY <2>6, <3>1 DEF OrderInv, Created
  <2> QED
    BY <2>4, <2>7 DEF NumberInv
<1> QED
  BY <1>2, <1>3

LEMMA NumberStep ==
    ASSUME TypeOK, NumberInv, [Next]_vars
    PROVE  NumberInv'
<1>0. TypeOK'
  BY TypeStep
<1> DEFINE Quiet == /\ lapses \subseteq lapses'
                    /\ \A o \in Run :
                         /\ runs'[o].seq = runs[o].seq
                         /\ runs'[o].state = "none" <=> runs[o].state = "none"
                         /\ runs'[o].state = "card" => runs[o].state = "card"
           Counts == lapses' = {} => rule'.config.count >= rule.config.count
           Begun == rule'.state = "none" =>
                      rule.state = "none" /\ \A f \in Fiber : pc'[f] \in {pc[f], "idle"}
<1>1. ASSUME Quiet, Counts, Begun PROVE NumberInv'
  BY <1>0, <1>1, NumberKept
<1>2. rule.config.count \in Nat
  BY DEF TypeOK, Config
<1>3. CASE UNCHANGED vars
  <2>1. Quiet /\ Counts /\ Begun
    BY <1>2, <1>3 DEF vars
  <2> QED
    BY <1>1, <2>1
<1>4. ASSUME NEW p \in Process, Tick(p) PROVE NumberInv'
  <2>1. Counts /\ Begun
    BY <1>2, <1>4 DEF Tick
  <2>2. \A o \in Run : runs'[o] \in {runs[o], [runs[o] EXCEPT !.state = "purged"]}
    BY <1>4, SweptRuns DEF Tick
  <2>3. \A o \in Run : runs'[o].state = "purged" /\ runs[o].state # "purged" => runs[o].state = "done"
    BY <1>4 DEF Tick, Swept, Expired, Finished
  <2>4. Quiet
    BY <1>4, <2>2, <2>3 DEF Tick, TypeOK
  <2> QED
    BY <1>1, <2>1, <2>4
<1>5. ASSUME NEW p \in Process, Count(p) \/ CountFails(p) \/ ClaimRefused(p)
      PROVE  NumberInv'
  <2>1. rule.state # "none"
    BY <1>5, WorkHasRule DEF Count, CountFails, ClaimRefused, Fiber
  <2>2. Quiet /\ Counts /\ Begun
    BY <1>2, <1>5, <2>1 DEF Count, CountFails, ClaimRefused
  <2> QED
    BY <1>1, <2>2
<1>6. ASSUME NEW p \in Process, Claim(p) PROVE NumberInv'
  <2>1. rule'.state # "none" /\ Quiet
    BY <1>6 DEF Claim, Claimable, Trusting, TypeOK
  <2>2. rule'.config.count = frame[p].config.count
    <3>1. frame[p].config \in Config
      BY DEF TypeOK, Frame, Fiber
    <3> QED
      BY <1>6, <3>1 DEF Claim, TypeOK, Config
  <2>3. lapses' = {} => [frame[p].config EXCEPT !.last = rule.config.last] = rule.config
    BY <1>6, TrustedCount DEF Claim
  <2>4. lapses' = {} => frame[p].config.count = rule.config.count
    <3>1. frame[p].config \in Config
      BY DEF TypeOK, Frame, Fiber
    <3> QED
      BY <2>3, <3>1 DEF Config
  <2>5. Counts /\ Begun
    BY <1>2, <2>1, <2>2, <2>4
  <2> QED
    BY <1>1, <2>1, <2>5
<1>7. ASSUME NEW f \in Fiber, NEW config \in Config, pc[f] # "idle", SaveRule(config),
             Trusting(frame[f].config), config.count >= frame[f].config.count, runs' = runs
      PROVE  NumberInv'
  <2>1. rule'.state # "none" /\ rule'.config = config
    BY <1>7, WorkHasRule DEF SaveRule, TypeOK
  <2>2. Quiet /\ Counts /\ Begun
    BY <1>2, <1>7, <2>1, TrustedCount DEF Trusting
  <2> QED
    BY <1>1, <2>2
<1>8. ASSUME NEW f \in Fiber, Save(f) PROVE NumberInv'
  <2> DEFINE config == [frame[f].config EXCEPT !.count = @ + 1, !.last = Reference(f)]
  <2>1. config \in Config /\ config.count >= frame[f].config.count
    BY SavedConfig
  <2> QED
    BY <1>7, <1>8, <2>1 DEF Save
<1>9. ASSUME NEW h \in Handler, Edit(h) PROVE NumberInv'
  <2>1. PICK policy \in Policy : SaveRule([frame[h].config EXCEPT !.policy = policy])
    BY <1>9 DEF Edit
  <2> DEFINE config == [frame[h].config EXCEPT !.policy = policy]
  <2>2. h \in Fiber /\ config \in Config /\ config.count >= frame[h].config.count
    BY DEF TypeOK, Frame, Config, Fiber
  <2> QED
    BY <1>7, <1>9, <2>1, <2>2 DEF Edit
<1>10. ASSUME \/ \E h \in Handler, phase \in {"edit", "insert"} : Load(h, phase)
              \/ \E h \in Handler : Delete(h) \/ Restore(h) \/ HardDelete(h)
       PROVE  NumberInv'
  <2>1. Quiet /\ Counts /\ Begun
    BY <1>2, <1>10 DEF Load, Begins, Delete, Restore, HardDelete, Marks, TypeOK
  <2> QED
    BY <1>1, <2>1
<1>11. CASE RunMoves
  <2>1. PICK o \in Run, state \in RunState : Moves(o, state)
    BY <1>11 DEF RunMoves
  <2>2. state \notin {"none", "card"} /\ runs[o].state # "none"
    BY <2>1 DEF Moves, Fate
  <2>3. Quiet
    BY <2>1, <2>2 DEF Moves, TypeOK
  <2>4. Counts /\ Begun
    BY <1>2, <2>1 DEF Moves
  <2> QED
    BY <1>1, <2>3, <2>4
<1>12. CASE PeriodPasses
  <2>1. Quiet /\ Counts /\ Begun
    BY <1>2, <1>12 DEF PeriodPasses
  <2> QED
    BY <1>1, <2>1
<1>13. ASSUME \/ \E f \in Fiber : Fails(f)
              \/ \E p \in Process, H \in SUBSET Handler : Crash(p, H)
       PROVE  NumberInv'
  <2>1. rule' = rule /\ \A f \in Fiber : pc'[f] \in {pc[f], "idle"}
    BY <1>13 DEF Fails, Ends, Crash, TypeOK
  <2>2. Quiet /\ Counts /\ Begun
    BY <1>2, <1>13, <2>1 DEF Fails, Crash
  <2> QED
    BY <1>1, <2>2
<1>14. ASSUME NEW h \in Handler, First(h) PROVE NumberInv'
  <2>1. rule.state # "none"
    BY <1>14, WorkHasRule DEF First, Fiber
  <2>2. Quiet /\ Counts /\ Begun
    BY <1>2, <1>14, <2>1 DEF First
  <2> QED
    BY <1>1, <2>2
<1> QED
  BY <1>0, <1>3, <1>4, <1>5, <1>6, <1>8, <1>9, <1>10, <1>11, <1>12, <1>13, <1>14,
     InsertOrders, LinkOrders, CreateOrders
     DEF Next, Routine, TickStep, SpawnStep, Request, Fault

(* Of finitely many sets one contains no other. *)
LEMMA LeastSet ==
    ASSUME NEW U, IsFiniteSet(U)
    PROVE  \A F : F \subseteq SUBSET U /\ F # {} =>
             \E m \in F : \A k \in F : k \subseteq m => k = m
<1> SUFFICES ASSUME NEW F, F \subseteq SUBSET U, F # {}
             PROVE  \E m \in F : \A k \in F : k \subseteq m => k = m
  OBVIOUS
<1>1. IsWellFoundedOn(StrictSubsetOrdering(U), FiniteSubsetsOf(U))
  BY FS_StrictSubsetOrderingWellFounded
<1>2. F \subseteq FiniteSubsetsOf(U)
  BY FS_FiniteSubsetsOfFinite
<1>3. \E m \in F : \A k \in F : ~(<<k, m>> \in StrictSubsetOrdering(U))
  BY <1>1, <1>2, WFMin
<1> QED
  BY <1>3 DEF StrictSubsetOrdering

(* A sweep that deletes a run keeps Keep finished ones created after it:    *)
(* those that are newer than the last one it deletes.                      *)
LEMMA SweepKeeps ==
    ASSUME TypeOK, NumberInv, lapses = {}, runs' = Swept, NEW o \in Run, Purged(o)
    PROVE  Cardinality({q \in Run : q > o /\ runs'[q].state = "done"}) >= Keep
<1> DEFINE N(q) == {r \in Finished : Newer(r, q)}
           E == {q \in Finished : Expired(q) /\ q >= o}
           F == {N(q) : q \in E}
           T == {q \in Run : q > o /\ runs'[q].state = "done"}
<1>1. Run \subseteq Nat /\ IsFiniteSet(Run) /\ Keep \in Nat
  BY ConstantsAssumption DEF ConstantsAssumption
<1>2. Finished \subseteq Run /\ o \in E
  BY <1>1 DEF Purged, Swept, Expired, Finished
<1>3. \A q, r \in Finished : Newer(r, q) <=> r > q
  <2> SUFFICES ASSUME NEW q \in Finished, NEW r \in Finished
               PROVE  Newer(r, q) <=> r > q
    OBVIOUS
  <2>1. /\ q \in Nat /\ r \in Nat /\ runs[q].seq \in Nat /\ runs[r].seq \in Nat
        /\ q < r => runs[q].seq <= runs[r].seq
        /\ r < q => runs[r].seq <= runs[q].seq
    BY <1>1 DEF Finished, NumberInv, OrderInv, Created, TypeOK
  <2> QED
    BY <2>1 DEF Newer
<1>4. \E m \in E : \A k \in E : N(k) \subseteq N(m) => N(k) = N(m)
  <2>0. F # {}
    BY <1>2
  <2>1. F \subseteq SUBSET Run
    BY <1>2
  <2> HIDE DEF F
  <2>2. \E M \in F : \A K \in F : K \subseteq M => K = M
    <3>0. IsFiniteSet(Run)
      BY <1>1
    <3>1. \A G : G \subseteq SUBSET Run /\ G # {} =>
              \E M \in G : \A K \in G : K \subseteq M => K = M
      BY <3>0, LeastSet
    <3> QED
      BY <2>0, <2>1, <3>1
  <2>3. \E m \in E : \A K \in F : K \subseteq N(m) => K = N(m)
    BY <2>2 DEF F
  <2>4. \A k \in E : N(k) \in F
    BY DEF F
  <2> HIDE DEF N, E
  <2> QED
    BY <2>3, <2>4
<1>5. PICK m \in E : \A k \in E : N(k) \subseteq N(m) => N(k) = N(m)
  BY <1>4
<1>6. \A r \in N(m) : ~Expired(r)
  <2> SUFFICES ASSUME NEW r \in N(m), Expired(r) PROVE FALSE
    OBVIOUS
  <2>1. r \in Finished /\ r > m /\ r \in Nat /\ m \in Nat /\ m >= o /\ o \in Nat
    BY <1>1, <1>2, <1>3
  <2>2. r \in E
    BY <2>1
  <2>3. N(r) \subseteq N(m)
    <3> SUFFICES ASSUME NEW x \in N(r) PROVE Newer(x, m)
      OBVIOUS
    <3>1. x \in Finished /\ x > r /\ x \in Nat
      BY <1>1, <1>2, <1>3, <2>1
    <3> QED
      BY <1>3, <2>1, <3>1
  <2>4. r \notin N(r)
    BY <1>3, <2>1
  <2> QED
    BY <1>5, <2>2, <2>3, <2>4
<1>7. N(m) \subseteq T
  <2> SUFFICES ASSUME NEW r \in N(m) PROVE r \in T
    OBVIOUS
  <2>1. r \in Run /\ r > o
    BY <1>1, <1>2, <1>3
  <2>2. runs'[r] = runs[r] /\ runs[r].state = "done"
    BY <1>6, <2>1 DEF Swept, Finished
  <2> QED
    BY <2>1, <2>2
<1>8. IsFiniteSet(T)
  BY <1>1, FS_Subset
<1>9. Cardinality(N(m)) >= Keep
  BY DEF Expired
<1>10. Cardinality(N(m)) <= Cardinality(T) /\ Cardinality(T) \in Nat /\ Cardinality(N(m)) \in Nat
  BY <1>7, <1>8, FS_Subset, FS_CardinalityType
<1> QED
  BY <1>1, <1>9, <1>10

(* The sweep deletes a run only if Keep finished runs that were created     *)
(* after it remain, whatever ticks, requests and failures number the runs   *)
(* (PurgeKeepsNewest).                                                     *)
THEOREM NewestAreKept == Spec => PurgeKeepsNewest
<1>1. Init => NumberInv
  BY DEF Init, NumberInv, CreatedInv, OrderInv, Created, NoConfig, Fiber
<1>2. TypeOK /\ NumberInv /\ [Next]_vars => NumberInv'
  BY NumberStep
<1>3. TypeOK /\ NumberInv /\ [Next]_vars =>
        [lapses = {} =>
           \A o \in Run : Purged(o) =>
               Cardinality({q \in Run : q > o /\ runs'[q].state = "done"}) >= Keep]_vars
  <2> SUFFICES ASSUME TypeOK, NumberInv, Next, lapses = {}, NEW o \in Run, Purged(o)
               PROVE  Cardinality({q \in Run : q > o /\ runs'[q].state = "done"}) >= Keep
    BY DEF vars, Purged
  <2>1. \E p \in Process : Tick(p)
    <3> SUFFICES ASSUME ~\E p \in Process : Tick(p) PROVE FALSE
      OBVIOUS
    <3>1. runs' # runs
      BY DEF Purged
    <3>2. \/ \E f \in Fiber, q \in Run : Insert(f, q)
          \/ \E h \in Handler, q \in Run : Link(h, q)
          \/ \E h \in Handler, policy \in Policy : Adopt(h, policy)
          \/ RunMoves
      BY <3>1 DEF Next, Routine, TickStep, SpawnStep, Request, PeriodPasses, Fault,
           Count, Claim, ClaimRefused, Save, First, Edit, Create, Load, Begins,
           Delete, Restore, HardDelete, Marks,
           CountFails, Crash, Fails
    <3>3. \A q \in Run, state \in RunState : Moves(q, state) => state # "purged"
      BY DEF Moves, Fate
    <3>4. \A q \in Run : runs'[q].state = "purged" => runs[q].state = "purged"
      <4> SUFFICES ASSUME NEW q \in Run, runs'[q].state = "purged"
                   PROVE  runs[q].state = "purged"
        OBVIOUS
      <4>1. CASE \E f \in Fiber, r \in Run : Insert(f, r)
        BY <4>1 DEF Insert, TypeOK
      <4>2. CASE \E h \in Handler, r \in Run : Link(h, r)
        BY <4>2 DEF Link, TypeOK
      <4>3. CASE \E h \in Handler, policy \in Policy : Adopt(h, policy)
        BY <4>3 DEF Adopt, TypeOK
      <4>4. CASE RunMoves
        <5>1. PICK r \in Run, state \in RunState : Moves(r, state)
          BY <4>4 DEF RunMoves
        <5>2. state # "purged" /\ runs' = [runs EXCEPT ![r].state = state]
          BY <3>3, <5>1 DEF Moves
        <5> QED
          BY <5>2 DEF TypeOK
      <4> QED
        BY <3>2, <4>1, <4>2, <4>3, <4>4
    <3> QED
      BY <3>4 DEF Purged
  <2>2. runs' \in {runs, Swept}
    BY <2>1 DEF Tick
  <2>3. runs' = Swept
    BY <2>2 DEF Purged
  <2> QED
    BY <2>3, SweepKeeps
<1> QED
  BY <1>1, <1>2, <1>3, TypeCorrect, PTL DEF Spec, PurgeKeepsNewest
===============================================================================
