--------------------------- MODULE ColumnChainProofs ---------------------------
(***************************************************************************)
(* A process never works twice on one card, and the markers of a row are    *)
(* those of its column, for every workflow, every number of processes and   *)
(* fibers, and any interleaving of users, agents, rechecks and crashes.     *)
(* While one process serves the board, a chain skips no action and leaves   *)
(* none out at its end, and an on_enter chain repeats none the row has      *)
(* recorded.                                                               *)
(*                                                                         *)
(* RowInv and FiberInv type the state, with the positions of the fibers in  *)
(* the workflow; ChainInv ties the fibers at work to _processingTasks.      *)
(* OrderInv and RecordInv bound the resume points, in the row and in the    *)
(* memory of the fibers, by the actions that took effect from above and by  *)
(* those the row has recorded from below.                                  *)
(***************************************************************************)
EXTENDS ColumnChain, TLAPS

(* The phases in which a fiber stands at an action of its chain. *)
AtAction == {"mark", "act", "run", "move", "record", "sync", "flag"}

(* A frame in a phase stands inside the workflow. *)
FrameFits(phase, fr) ==
    /\ fr \in Frame
    /\ phase \in AtAction =>
         /\ fr.transition \in DOMAIN Workflow[fr.column]
         /\ fr.action \in 1 .. Len(Workflow[fr.column][fr.transition].actions)
    /\ phase = "move" =>
         Workflow[fr.column][fr.transition].actions[fr.action].type = "move"
    /\ phase = "lock" /\ fr.kind = "condition" =>
         fr.transition \in DOMAIN Workflow[fr.column]

FiberInv ==
    /\ pc \in [Fiber -> Phase]
    /\ frame \in [Fiber -> Frame \cup {NoFrame}]
    /\ \A f \in Fiber : pc[f] # "idle" => FrameFits(pc[f], frame[f])

MemoryInv ==
    /\ lock \in Fiber \cup {NoFiber}
    /\ processing \in [Process -> Column \cup {NoColumn}]
    /\ checking \in [Process -> BOOLEAN]
    /\ running \in [Process -> Fiber \cup {NoFiber}]
    /\ rearmed \in [Process -> BOOLEAN]
    /\ printing \in BOOLEAN

RowInv == row \in Row /\ MarkersFit

TypeInv == RowInv /\ FiberInv /\ MemoryInv

(* A fiber at work holds its process's entry for the card, alone. *)
ChainInv ==
    \A f \in Fiber : InChain(f) =>
        /\ processing[frame[f].proc] # NoColumn
        /\ \A g \in Fiber : InChain(g) /\ frame[g].proc = frame[f].proc => g = f

IInv == TypeInv /\ ChainInv

-----------------------------------------------------------------------------
(* The workflow.                                                           *)

(* The transitions of a column and their actions have the types they are   *)
(* declared with (getMatchingTransitions).                                 *)
LEMMA WorkflowTyped ==
    ASSUME NEW c \in Column, NEW t \in DOMAIN Workflow[c]
    PROVE  /\ Workflow[c] \in Seq(Transition)
           /\ t \in Nat \ {0}
           /\ Workflow[c][t].actions \in Seq(Action)
           /\ Len(Workflow[c][t].actions) \in Nat
<1>1. Workflow[c] \in Seq(Transition)
  BY ConstantsAssumption DEF ConstantsAssumption
<1>2. t \in 1 .. Len(Workflow[c])
  BY <1>1
<1>3. t \in Nat \ {0}
  BY <1>1, <1>2
<1>4. Workflow[c][t] \in Transition
  BY <1>1, <1>2
<1>5. Workflow[c][t].actions \in Seq(Action)
  BY <1>4 DEF Transition
<1> QED
  BY <1>1, <1>3, <1>5

(* The target of a change_status is a column. *)
LEMMA TargetIsColumn ==
    ASSUME FiberInv, NEW f \in Fiber, pc[f] \in {"act", "move"}, Step(f).type = "move"
    PROVE  Step(f).to \in Column
<1>1. /\ frame[f].column \in Column
      /\ frame[f].transition \in DOMAIN Workflow[frame[f].column]
      /\ frame[f].action \in 1 .. Len(Chain(f))
  BY DEF FiberInv, FrameFits, AtAction, Frame, Chain, Actions
<1>2. Chain(f) \in Seq(Action)
  BY <1>1, WorkflowTyped DEF Chain, Actions
<1>3. Step(f) \in Action
  BY <1>1, <1>2 DEF Step
<1> QED
  BY <1>3 DEF Action

-----------------------------------------------------------------------------
(* Fibers that go on, and what it does to the invariants.                  *)

(* One fiber takes a phase and a frame that fit. *)
LEMMA FiberUpdate ==
    ASSUME FiberInv, NEW f \in Fiber, NEW ph \in Phase, NEW fr \in Frame \cup {NoFrame},
           ph # "idle" => FrameFits(ph, fr),
           pc' = [pc EXCEPT ![f] = ph], frame' = [frame EXCEPT ![f] = fr]
    PROVE  /\ FiberInv'
           /\ pc'[f] = ph /\ frame'[f] = fr
           /\ \A h \in Fiber \ {f} : pc'[h] = pc[h] /\ frame'[h] = frame[h]
<1>1. /\ pc' \in [Fiber -> Phase]
      /\ frame' \in [Fiber -> Frame \cup {NoFrame}]
      /\ pc'[f] = ph /\ frame'[f] = fr
      /\ \A h \in Fiber \ {f} : pc'[h] = pc[h] /\ frame'[h] = frame[h]
  BY DEF FiberInv
<1>2. ASSUME NEW h \in Fiber, pc'[h] # "idle"
      PROVE  FrameFits(pc'[h], frame'[h])
  BY <1>1, <1>2 DEF FiberInv
<1> QED
  BY <1>1, <1>2 DEF FiberInv, FrameFits

(* Nobody takes the card. *)
LEMMA ChainKept ==
    ASSUME ChainInv, processing' = processing,
           \A h \in Fiber : InChain(h)' => InChain(h) /\ frame'[h].proc = frame[h].proc
    PROVE  ChainInv'
  BY DEF ChainInv

(* One fiber takes it where nobody has it. *)
LEMMA ChainTaken ==
    ASSUME ChainInv, MemoryInv, NEW f \in Fiber, NEW p \in Process, NEW c \in Column,
           processing[p] = NoColumn, processing' = [processing EXCEPT ![p] = c],
           frame'[f].proc = p,
           \A h \in Fiber \ {f} : InChain(h)' => InChain(h) /\ frame'[h].proc = frame[h].proc,
           \A h \in Fiber \ {f} : InChain(h) => frame[h].proc \in Process
    PROVE  ChainInv'
<1>1. c # NoColumn /\ processing'[p] = c
  BY ConstantsAssumption DEF ConstantsAssumption, MemoryInv
<1>2. ASSUME NEW h \in Fiber \ {f}, InChain(h)'
      PROVE  frame'[h].proc # p /\ processing'[frame'[h].proc] # NoColumn
  BY <1>2 DEF ChainInv, MemoryInv
<1>3. ASSUME NEW h \in Fiber \ {f}, InChain(h)', NEW g \in Fiber \ {f}, InChain(g)',
             frame'[g].proc = frame'[h].proc
      PROVE  g = h
  BY <1>3 DEF ChainInv
<1> QED
  BY <1>1, <1>2, <1>3 DEF ChainInv

(* The fiber that has it lets go. *)
LEMMA ChainLeft ==
    ASSUME ChainInv, MemoryInv, NEW f \in Fiber, InChain(f), frame[f].proc \in Process,
           processing' = [processing EXCEPT ![frame[f].proc] = NoColumn], ~InChain(f)',
           \A h \in Fiber \ {f} : InChain(h)' => InChain(h) /\ frame'[h].proc = frame[h].proc
    PROVE  ChainInv'
<1>1. ASSUME NEW h \in Fiber, InChain(h)'
      PROVE  h # f /\ InChain(h) /\ frame'[h].proc = frame[h].proc
  BY <1>1
<1>2. ASSUME NEW h \in Fiber, InChain(h)'
      PROVE  frame[h].proc # frame[f].proc /\ processing'[frame'[h].proc] # NoColumn
  <2>1. h # f /\ InChain(h) /\ frame'[h].proc = frame[h].proc
    BY <1>1, <1>2
  <2>2. frame[h].proc # frame[f].proc
    BY <2>1 DEF ChainInv
  <2> QED
    BY <2>1, <2>2 DEF ChainInv, MemoryInv
<1> QED
  BY <1>1, <1>2 DEF ChainInv

(* A fiber at work, or one that is not and will not be, takes a step. *)
LEMMA FiberAdvances ==
    ASSUME FiberInv, ChainInv, NEW f \in Fiber, NEW ph \in Phase,
           NEW fr \in Frame \cup {NoFrame},
           ph # "idle" => FrameFits(ph, fr),
           ph \in ChainPhase \/ (ph = "lock" /\ fr.kind = "condition") =>
               InChain(f) /\ fr.proc = frame[f].proc,
           pc' = [pc EXCEPT ![f] = ph], frame' = [frame EXCEPT ![f] = fr],
           processing' = processing
    PROVE  FiberInv' /\ ChainInv'
<1>1. /\ FiberInv' /\ pc'[f] = ph /\ frame'[f] = fr
      /\ \A h \in Fiber \ {f} : pc'[h] = pc[h] /\ frame'[h] = frame[h]
  BY FiberUpdate
<1>2. ASSUME NEW h \in Fiber, InChain(h)'
      PROVE  InChain(h) /\ frame'[h].proc = frame[h].proc
  <2>1. CASE h = f
    BY <1>1, <1>2, <2>1 DEF InChain
  <2>2. CASE h # f
    BY <1>1, <1>2, <2>2 DEF InChain
  <2> QED
    BY <2>1, <2>2
<1> QED
  BY <1>1, <1>2, ChainKept

-----------------------------------------------------------------------------
(* What a write does to the row.                                           *)

(* A claim, a flag, a marker for the column the card is in: still fitting. *)
LEMMA RowTouched ==
    ASSUME RowInv, row' \in Row, row'.status = row.status, row'.point = row.point,
           row'.pending \in {NoColumn, row.pending, row.status}
    PROVE  RowInv'
BY DEF RowInv, MarkersFit, Transitions, Actions

(* A move leaves no marker behind. *)
LEMMA RowMoved ==
    ASSUME row' \in Row, row'.pending = NoColumn, row'.point = NoPoint
    PROVE  RowInv'
BY DEF RowInv, MarkersFit

(* A fiber's markers are written only while the card is in its column. *)
LEMMA MarkersWritten ==
    ASSUME RowInv, NEW f \in Fiber, frame[f].column \in Column,
           NEW pending \in {NoColumn, row.pending, frame[f].column},
           NEW point \in Point,
           \/ point \in {NoPoint, row.point}
           \/ /\ point.transition \in DOMAIN Workflow[frame[f].column]
              /\ point.completed <=
                   Len(Workflow[frame[f].column][point.transition].actions),
           WriteMarkers(f, pending, point)
    PROVE  RowInv'
<1>1. CASE row.status # frame[f].column
  BY <1>1, RowTouched DEF WriteMarkers, RowInv
<1>2. CASE row.status = frame[f].column
  <2>1. /\ row' \in Row /\ row'.status = row.status
        /\ row'.pending = pending /\ row'.point = point
    BY <1>2 DEF WriteMarkers, RowInv, Row
  <2>2. row'.status # ErrorColumn => row'.pending \in {NoColumn, row'.status}
    BY <1>2, <2>1 DEF RowInv, MarkersFit
  <2>3. row'.status # ErrorColumn /\ row'.point # NoPoint =>
          /\ row'.point.transition \in DOMAIN Transitions(row'.status)
          /\ row'.point.completed <= Len(Actions(row'.status, row'.point.transition))
    BY <1>2, <2>1 DEF RowInv, MarkersFit, Transitions, Actions
  <2> QED
    BY <2>1, <2>2, <2>3 DEF RowInv, MarkersFit, Transitions, Actions
<1> QED
  BY <1>1, <1>2

-----------------------------------------------------------------------------
(* The start of an entry, and the end of a chain.                          *)

(* The frame of a fiber that starts. *)
LEMMA NewFrameTyped ==
    ASSUME NEW p \in Process, NEW c \in Column, NEW kind \in Kind,
           NEW resume \in Point, NEW t \in Nat
    PROVE  /\ NewFrame(p, c, kind, resume, t) \in Frame
           /\ NewFrame(p, c, kind, resume, t).proc = p
           /\ NewFrame(p, c, kind, resume, t).kind = kind
           /\ NewFrame(p, c, kind, resume, t).column = c
           /\ NewFrame(p, c, kind, resume, t).transition = t
BY DEF NewFrame, Frame

(* An entry is taken only in a process that has no entry for the card. *)
LEMMA EntryPhaseTyped ==
    ASSUME MemoryInv, NEW p \in Process, NEW c \in Column, NEW kind \in {"entry", "retry"}
    PROVE  /\ EntryPhase(p, c, kind) \in {"read", "defer", "release", "idle"}
           /\ EntryPhase(p, c, kind) = "read" => processing[p] = NoColumn
BY DEF EntryPhase, Occupied

(* processColumnEntry starts in a fiber that holds no chain. *)
LEMMA EnterEffect ==
    ASSUME FiberInv, MemoryInv, ChainInv, NEW f \in Fiber, NEW p \in Process,
           NEW c \in Column, NEW kind \in {"entry", "retry"}, ~InChain(f),
           Enter(f, p, c, kind)
    PROVE  /\ FiberInv' /\ ChainInv'
           /\ processing' \in [Process -> Column \cup {NoColumn}]
<1> DEFINE phase == EntryPhase(p, c, kind)
           new == NewFrame(p, c, kind, NoPoint, 0)
           fr == IF phase = "idle" THEN NoFrame ELSE new
<1>1. /\ phase \in {"read", "defer", "release", "idle"}
      /\ phase = "read" => processing[p] = NoColumn
  BY EntryPhaseTyped
<1>2. new \in Frame /\ new.proc = p
  BY NewFrameTyped DEF Kind, Point, NoPoint
<1>3. /\ pc' = [pc EXCEPT ![f] = phase]
      /\ frame' = [frame EXCEPT ![f] = fr]
      /\ processing' = IF phase = "read" THEN [processing EXCEPT ![p] = c]
                       ELSE processing
  BY DEF Enter, Goto
<1>4. /\ phase \in Phase /\ fr \in Frame \cup {NoFrame}
      /\ phase # "idle" => FrameFits(phase, fr)
  <2> HIDE DEF phase, new
  <2> QED
    BY <1>1, <1>2 DEF Phase, ChainPhase, FrameFits, AtAction
<1> HIDE DEF phase, fr, new
<1>5. CASE phase = "read"
  <2>1. /\ FiberInv' /\ pc'[f] = phase /\ frame'[f] = fr
        /\ \A h \in Fiber \ {f} : pc'[h] = pc[h] /\ frame'[h] = frame[h]
    BY <1>3, <1>4, FiberUpdate, ZenonT(80)
  <2>2. frame'[f].proc = p
    BY <1>2, <1>5, <2>1 DEF fr
  <2>3. \A h \in Fiber \ {f} : InChain(h)' => InChain(h) /\ frame'[h].proc = frame[h].proc
    BY <2>1 DEF InChain
  <2>4. \A h \in Fiber \ {f} : InChain(h) => frame[h].proc \in Process
    BY DEF InChain, FiberInv, FrameFits, Frame, ChainPhase
  <2>5. processing' = [processing EXCEPT ![p] = c] /\ processing[p] = NoColumn
    BY <1>1, <1>3, <1>5
  <2>6. ChainInv'
    BY <2>2, <2>3, <2>4, <2>5, ChainTaken
  <2> QED
    BY <2>1, <2>5, <2>6 DEF MemoryInv
<1>6. CASE phase # "read"
  <2>1. processing' = processing
    BY <1>3, <1>6
  <2>2. ~(phase \in ChainPhase \/ (phase = "lock" /\ fr.kind = "condition"))
    BY <1>1, <1>6 DEF ChainPhase
  <2>3. FiberInv' /\ ChainInv'
    BY <1>3, <1>4, <2>1, <2>2, FiberAdvances
  <2> QED
    BY <2>1, <2>3 DEF MemoryInv
<1> QED
  BY <1>5, <1>6

(* The entry of a move starts beside the fiber that moved the card. *)
LEMMA BesideEffect ==
    ASSUME FiberInv, MemoryInv, ChainInv, NEW f \in Fiber, NEW g \in Fiber,
           NEW c \in Column, NEW phase \in Phase, NEW next \in Frame,
           pc[f] = "idle", pc[g] # "idle",
           FrameFits(phase, next), phase # "lock", phase \in ChainPhase => InChain(g),
           next.proc = frame[g].proc, EnterBeside(f, g, c, phase, next)
    PROVE  /\ FiberInv' /\ ChainInv'
           /\ processing' \in [Process -> Column \cup {NoColumn}]
<1> DEFINE p == frame[g].proc
           at == EntryPhase(p, c, "entry")
           new == NewFrame(p, c, "entry", NoPoint, 0)
           fr == IF at = "idle" THEN NoFrame ELSE new
<1>1. f # g /\ p \in Process /\ frame[g] \in Frame
  BY DEF FiberInv, FrameFits, Frame
<1>2. /\ at \in {"read", "defer", "release", "idle"}
      /\ at = "read" => processing[p] = NoColumn
  BY <1>1, EntryPhaseTyped
<1>3. new \in Frame /\ new.proc = p
  BY <1>1, NewFrameTyped DEF Kind, Point, NoPoint
<1>4. /\ pc' = [pc EXCEPT ![f] = at, ![g] = phase]
      /\ frame' = [frame EXCEPT ![g] = next, ![f] = fr]
      /\ processing' = IF at = "read" THEN [processing EXCEPT ![p] = c]
                       ELSE processing
  BY DEF EnterBeside
<1>5. /\ at \in Phase /\ fr \in Frame \cup {NoFrame}
      /\ at # "idle" => FrameFits(at, fr)
      /\ at = "read" => fr.proc = p
  <2> HIDE DEF at, new, p
  <2> QED
    BY <1>2, <1>3 DEF Phase, ChainPhase, FrameFits, AtAction
<1> HIDE DEF at, fr, new
<1>6. /\ pc' \in [Fiber -> Phase]
      /\ frame' \in [Fiber -> Frame \cup {NoFrame}]
      /\ pc'[f] = at /\ frame'[f] = fr
      /\ pc'[g] = phase /\ frame'[g] = next
      /\ \A h \in Fiber \ {f, g} : pc'[h] = pc[h] /\ frame'[h] = frame[h]
  BY <1>1, <1>4, <1>5 DEF FiberInv
<1>7. ASSUME NEW h \in Fiber, pc'[h] # "idle"
      PROVE  FrameFits(pc'[h], frame'[h])
  <2>1. CASE h = f
    BY <1>5, <1>6, <1>7, <2>1
  <2>2. CASE h = g
    BY <1>6, <2>2
  <2>3. CASE h \notin {f, g}
    BY <1>6, <1>7, <2>3 DEF FiberInv
  <2> QED
    BY <2>1, <2>2, <2>3
<1>8. FiberInv'
  BY <1>6, <1>7 DEF FiberInv, FrameFits
<1>9. \A h \in Fiber \ {f} : InChain(h)' => InChain(h) /\ frame'[h].proc = frame[h].proc
  BY <1>6 DEF InChain
<1>10. CASE at = "read"
  <2>1. frame'[f].proc = p /\ processing[p] = NoColumn
    BY <1>2, <1>5, <1>6, <1>10
  <2>2. processing' = [processing EXCEPT ![p] = c]
    BY <1>4, <1>10
  <2>3. \A h \in Fiber \ {f} : InChain(h) => frame[h].proc \in Process
    BY DEF InChain, FiberInv, FrameFits, Frame, ChainPhase
  <2>4. ChainInv'
    BY <1>1, <1>9, <2>1, <2>2, <2>3, ChainTaken
  <2> QED
    BY <1>1, <1>8, <2>2, <2>4 DEF MemoryInv
<1>11. CASE at # "read"
  <2>1. processing' = processing
    BY <1>4, <1>11
  <2>2. ~InChain(f)'
    BY <1>2, <1>6, <1>11 DEF InChain, ChainPhase
  <2>3. ChainInv'
    BY <1>9, <2>1, <2>2, ChainKept
  <2> QED
    BY <1>8, <2>1, <2>3 DEF MemoryInv
<1> QED
  BY <1>10, <1>11

(* A chain that ends gives everything back. *)
LEMMA LeaveEffect ==
    ASSUME FiberInv, MemoryInv, ChainInv, NEW f \in Fiber, pc[f] \in ChainPhase,
           NEW goOn \in BOOLEAN, Leave(f, goOn)
    PROVE  FiberInv' /\ ChainInv' /\ MemoryInv'
<1> DEFINE ph == IF goOn THEN "continue" ELSE "idle"
           fr == IF goOn THEN frame[f] ELSE NoFrame
<1>1. frame[f] \in Frame /\ frame[f].proc \in Process /\ InChain(f)
  BY DEF FiberInv, FrameFits, Frame, ChainPhase, InChain
<1>2. pc' = [pc EXCEPT ![f] = ph] /\ frame' = [frame EXCEPT ![f] = fr]
  BY DEF Leave, Goto, FiberInv
<1>3. /\ ph \in Phase /\ fr \in Frame \cup {NoFrame}
      /\ ph # "idle" => FrameFits(ph, fr)
  BY <1>1 DEF Phase, FrameFits, AtAction
<1> HIDE DEF ph, fr
<1>4. /\ FiberInv' /\ pc'[f] = ph /\ frame'[f] = fr
      /\ \A h \in Fiber \ {f} : pc'[h] = pc[h] /\ frame'[h] = frame[h]
  BY <1>2, <1>3, FiberUpdate, ZenonT(80)
<1>5. ~InChain(f)'
  BY <1>4 DEF InChain, ChainPhase, ph
<1>6. \A h \in Fiber \ {f} : InChain(h)' => InChain(h) /\ frame'[h].proc = frame[h].proc
  BY <1>4 DEF InChain
<1>7. processing' = [processing EXCEPT ![frame[f].proc] = NoColumn]
  BY DEF Leave
<1>8. ChainInv'
  BY <1>1, <1>5, <1>6, <1>7, ChainLeft
<1>9. MemoryInv'
  BY <1>1, <1>7 DEF Leave, MemoryInv
<1> QED
  BY <1>4, <1>8, <1>9

(* A transition that begins stands at an action of its chain, or past it. *)
LEMMA BeginEffect ==
    ASSUME FiberInv, ChainInv, NEW f \in Fiber, InChain(f),
           NEW t \in DOMAIN Workflow[frame[f].column], NEW done \in Nat,
           Begin(f, t, done), processing' = processing
    PROVE  FiberInv' /\ ChainInv'
<1> DEFINE n == Len(Actions(frame[f].column, t))
           ph == IF done = 0 /\ n > 0 THEN "mark" ELSE IF done < n THEN "act" ELSE "clear"
           there == [frame[f] EXCEPT !.transition = t]
           at == [there EXCEPT !.action = done + 1]
           fr == [at EXCEPT !.moved = FALSE]
<1>1. /\ frame[f] \in Frame /\ frame[f].column \in Column
      /\ pc[f] # "idle"
  BY DEF FiberInv, FrameFits, Frame, InChain, ChainPhase
<1>2. t \in Nat /\ n \in Nat
  BY <1>1, WorkflowTyped DEF Actions
<1>3. /\ pc' = [pc EXCEPT ![f] = ph]
      /\ frame' = [frame EXCEPT ![f] = fr]
  BY DEF Begin, Goto, FiberInv
<1>4. fr \in Frame /\ fr.column = frame[f].column /\ fr.proc = frame[f].proc
      /\ fr.transition = t /\ fr.action = done + 1
  <2>1. /\ there \in Frame /\ there.column = frame[f].column
        /\ there.proc = frame[f].proc /\ there.transition = t
    BY <1>1, <1>2 DEF Frame
  <2> HIDE DEF there
  <2>2. /\ at \in Frame /\ at.column = frame[f].column /\ at.proc = frame[f].proc
        /\ at.transition = t /\ at.action = done + 1
    BY <2>1 DEF Frame
  <2> HIDE DEF at
  <2> QED
    BY <2>2 DEF Frame
<1>5. ph \in {"mark", "act", "clear"} /\ (ph \in {"mark", "act"} => done + 1 \in 1 .. n)
  BY <1>2
<1>6. FrameFits(ph, fr)
  <2> HIDE DEF ph, fr
  <2> QED
    BY <1>4, <1>5 DEF FrameFits, AtAction, Actions
<1>7. ph \in Phase
  BY <1>5 DEF Phase, ChainPhase
<1> HIDE DEF ph, fr
<1> QED
  BY <1>3, <1>4, <1>6, <1>7, FiberAdvances

(* A fiber goes on with the frame it has. *)
LEMMA PhaseAdvances ==
    ASSUME FiberInv, ChainInv, NEW f \in Fiber, pc[f] # "idle",
           NEW ph \in Phase \ {"idle", "lock", "move"}, ph \in ChainPhase => InChain(f),
           ph \in AtAction => pc[f] \in AtAction,
           pc' = [pc EXCEPT ![f] = ph], frame' = frame, processing' = processing
    PROVE  FiberInv' /\ ChainInv'
<1>1. frame' = [frame EXCEPT ![f] = frame[f]] /\ frame[f] \in Frame
  BY DEF FiberInv, FrameFits
<1>2. FrameFits(ph, frame[f])
  BY DEF FiberInv, FrameFits
<1> QED
  BY <1>1, <1>2, FiberAdvances

(* A fiber without a chain is done. *)
LEMMA FiberEnds ==
    ASSUME FiberInv, ChainInv, NEW f \in Fiber,
           pc' = [pc EXCEPT ![f] = "idle"], frame' = [frame EXCEPT ![f] = NoFrame],
           processing' = processing
    PROVE  FiberInv' /\ ChainInv'
<1>1. "idle" \in Phase /\ "idle" \notin ChainPhase
  BY DEF Phase, ChainPhase
<1> QED
  BY <1>1, FiberAdvances

-----------------------------------------------------------------------------
(* The steps.                                                              *)

(* Users stop the card and clear the mark. *)
LEMMA StopSteps ==
    ASSUME IInv, UserStop \/ ClearStopped
    PROVE  IInv'
<1> USE DEF IInv, TypeInv
<1>1. RowInv'
  BY RowTouched DEF UserStop, ClearStopped, RowInv, Row
<1>2. /\ lock' = lock /\ processing' = processing /\ checking' = checking
      /\ running' = running /\ rearmed' = rearmed /\ printing' = printing
      /\ pc' = pc /\ frame' = frame
  BY DEF UserStop, ClearStopped, memoryVars, fiberVars
<1>3. MemoryInv'
  BY <1>2 DEF MemoryInv
<1>4. FiberInv'
  BY <1>2 DEF FiberInv, FrameFits
<1>5. ChainInv'
  BY <1>2 DEF ChainInv, InChain
<1> QED
  BY <1>1, <1>3, <1>4, <1>5

(* Users move and execute the card; the task loop resumes it. *)
LEMMA UserSteps ==
    ASSUME IInv, NEW f \in Fiber, NEW p \in Process,
           \/ \E c \in Column : UserMove(f, p, c) \/ ReserveRun(f, p, c)
           \/ Reenter(f, p) \/ DirectRun(f, p)
    PROVE  IInv'
<1> USE DEF IInv, TypeInv
<1>1. ASSUME NEW c \in Column, UserMove(f, p, c)
      PROVE  IInv'
  <2>1. /\ row' \in Row /\ row'.pending = NoColumn /\ row'.point = NoPoint
    BY <1>1 DEF UserMove, Moved, RowInv, Row, Point, NoPoint
  <2>2. ~InChain(f) /\ Enter(f, p, c, "entry")
    BY <1>1 DEF UserMove, InChain, ChainPhase
  <2>3. /\ FiberInv' /\ ChainInv'
        /\ processing' \in [Process -> Column \cup {NoColumn}]
    BY <2>2, EnterEffect
  <2> QED
    BY <1>1, <2>1, <2>3, RowMoved DEF UserMove, MemoryInv
<1>2. ASSUME Reenter(f, p)
      PROVE  IInv'
  <2>1. RowInv' /\ row.status \in Column
    BY <1>2, RowTouched DEF Reenter, RowInv, Row
  <2>2. ~InChain(f) /\ Enter(f, p, row.status, "entry")
    BY <1>2 DEF Reenter, InChain, ChainPhase
  <2>3. /\ FiberInv' /\ ChainInv'
        /\ processing' \in [Process -> Column \cup {NoColumn}]
    BY <2>1, <2>2, EnterEffect
  <2> QED
    BY <1>2, <2>1, <2>3 DEF Reenter, MemoryInv
<1>3. ASSUME DirectRun(f, p)
      PROVE  IInv'
  <2>1. RowInv' /\ row.status \in Column
    BY <1>3, RowTouched DEF DirectRun, RowInv, Row
  <2>2. NewFrame(p, row.status, "direct", NoPoint, 0) \in Frame
    BY <2>1, NewFrameTyped DEF Kind, Point, NoPoint
  <2>3. /\ "direct" \in Phase
        /\ "direct" \notin ChainPhase \cup AtAction \cup {"lock"}
    BY DEF Phase, ChainPhase, AtAction
  <2>4. FiberInv' /\ ChainInv'
    BY <1>3, <2>2, <2>3, FiberAdvances DEF DirectRun, Goto, FrameFits
  <2> QED
    BY <1>3, <2>1, <2>4 DEF DirectRun, MemoryInv
<1>4. ASSUME NEW c \in Column, ReserveRun(f, p, c)
      PROVE  IInv'
  <2>1. RowInv'
    BY <1>4, RowTouched DEF ReserveRun, RowInv
  <2>2. NewFrame(p, c, "direct", NoPoint, 0) \in Frame
    BY NewFrameTyped DEF Kind, Point, NoPoint
  <2>3. /\ "prepare" \in Phase
        /\ "prepare" \notin ChainPhase \cup AtAction \cup {"lock"}
    BY DEF Phase, ChainPhase, AtAction
  <2>4. FiberInv' /\ ChainInv'
    BY <1>4, <2>2, <2>3, FiberAdvances DEF ReserveRun, Goto, FrameFits
  <2> QED
    BY <1>4, <2>1, <2>4 DEF ReserveRun, MemoryInv
<1> QED
  BY <1>1, <1>2, <1>3, <1>4

(* An explicit execution on its way to its claim. *)
LEMMA AskSteps ==
    ASSUME IInv, NEW f \in Fiber, AskStep(f)
    PROVE  IInv'
<1> USE DEF IInv, TypeInv
<1>1. ASSUME PrepareRow(f) \/ UnstopRow(f) \/ ClaimRow(f)
      PROVE  IInv'
  <2>1. PICK ph \in {"unstop", "claim", "direct"} : pc' = [pc EXCEPT ![f] = ph]
    BY <1>1 DEF PrepareRow, UnstopRow, ClaimRow, Goto
  <2>2. /\ ph \in Phase \ {"idle", "lock", "move"} /\ ph \notin ChainPhase \cup AtAction
        /\ pc[f] # "idle" /\ UNCHANGED <<lock, memoryVars, frame>>
    BY <1>1 DEF PrepareRow, UnstopRow, ClaimRow, Phase, ChainPhase, AtAction
  <2>3. FiberInv' /\ ChainInv'
    BY <2>1, <2>2, PhaseAdvances DEF memoryVars
  <2>4. CASE PrepareRow(f)
    <3>1. frame[f].column \in Column
      BY <2>2 DEF FiberInv, FrameFits, Frame
    <3>2. /\ row' \in Row /\ row'.pending = NoColumn /\ row'.point = NoPoint
      BY <2>4, <3>1 DEF PrepareRow, RowInv, Row, Point, NoPoint
    <3> QED
      BY <2>2, <2>3, <3>2, RowMoved DEF memoryVars, MemoryInv
  <2>5. CASE UnstopRow(f) \/ ClaimRow(f)
    <3>1. RowInv'
      BY <2>5, RowTouched DEF UnstopRow, ClaimRow, RowInv, Row
    <3> QED
      BY <2>2, <2>3, <3>1 DEF memoryVars, MemoryInv
  <2> QED
    BY <1>1, <2>4, <2>5
<1>2. ASSUME Decline(f)
      PROVE  IInv'
  <2>1. RowInv'
    BY <1>2, RowTouched DEF Decline, RowInv
  <2>2. FiberInv' /\ ChainInv'
    BY <1>2, FiberEnds DEF Decline, Goto
  <2> QED
    BY <1>2, <2>1, <2>2 DEF Decline, MemoryInv
<1> QED
  BY <1>1, <1>2 DEF AskStep

(* What the runs of the card do: its agent moves it, the claim is released. *)
LEMMA RunSteps ==
    ASSUME IInv, NEW f \in Fiber, RunEnds(f) \/ \E g \in Fiber, c \in Column : AgentMoves(f, g, c)
    PROVE  IInv'
<1> USE DEF IInv, TypeInv
<1>1. ASSUME NEW g \in Fiber, NEW c \in Column, AgentMoves(f, g, c)
      PROVE  IInv'
  <2>1. /\ row' \in Row /\ row'.pending = NoColumn /\ row'.point = NoPoint
    BY <1>1 DEF AgentMoves, Moved, RowInv, Row, Point, NoPoint
  <2>2. /\ pc[f] \in {"run", "direct"} /\ pc[g] = "idle"
        /\ EnterBeside(g, f, c, pc[f], frame[f])
    BY <1>1 DEF AgentMoves
  <2>3. /\ FrameFits(pc[f], frame[f]) /\ frame[f] \in Frame
        /\ pc[f] \in Phase /\ (pc[f] \in ChainPhase => InChain(f))
    BY <2>2 DEF FiberInv, FrameFits, InChain
  <2>4. /\ FiberInv' /\ ChainInv'
        /\ processing' \in [Process -> Column \cup {NoColumn}]
    BY <2>2, <2>3, BesideEffect
  <2> QED
    BY <1>1, <2>1, <2>4, RowMoved DEF AgentMoves, MemoryInv
<1>2. ASSUME NEW aborted \in BOOLEAN, ReleaseRun(f, aborted), pc[f] # "idle"
      PROVE  RowInv' /\ running' \in [Process -> Fiber \cup {NoFiber}]
  BY <1>2, RowTouched DEF ReleaseRun, RowInv, Row, MemoryInv, FiberInv, FrameFits, Frame
<1>3. ASSUME DirectRunEnds(f)
      PROVE  IInv'
  <2>1. FiberInv' /\ ChainInv'
    BY <1>3, FiberEnds DEF DirectRunEnds, Goto
  <2> QED
    BY <1>2, <1>3, <2>1 DEF DirectRunEnds, MemoryInv
<1>4. ASSUME RunSucceeds(f)
      PROVE  IInv'
  <2>1. /\ pc[f] = "run" /\ frame[f] \in Frame /\ FrameFits("run", frame[f])
        /\ pc' = [pc EXCEPT ![f] = "record"]
        /\ frame' = [frame EXCEPT ![f] = [frame[f] EXCEPT !.moved = FALSE]]
        /\ InChain(f)
    BY <1>4 DEF RunSucceeds, Executed, Goto, FiberInv, FrameFits, InChain, ChainPhase
  <2>2. /\ [frame[f] EXCEPT !.moved = FALSE] \in Frame
        /\ FrameFits("record", [frame[f] EXCEPT !.moved = FALSE])
        /\ [frame[f] EXCEPT !.moved = FALSE].proc = frame[f].proc
    BY <2>1 DEF Frame, FrameFits, AtAction
  <2>3. "record" \in Phase
    BY DEF Phase, ChainPhase
  <2>4. FiberInv' /\ ChainInv'
    BY <1>4, <2>1, <2>2, <2>3, FiberAdvances DEF RunSucceeds
  <2> QED
    BY <1>2, <1>4, <2>1, <2>4 DEF RunSucceeds, MemoryInv
<1>5. ASSUME RunAborts(f) \/ RunFails(f)
      PROVE  IInv'
  <2>1. PICK phase \in {"flag", "fail"} : pc' = [pc EXCEPT ![f] = phase]
    BY <1>5 DEF RunAborts, RunFails, Goto
  <2>2. /\ phase \in Phase \ {"idle", "lock", "move"} /\ pc[f] = "run"
        /\ InChain(f) /\ pc[f] \in AtAction
    BY <1>5 DEF RunAborts, RunFails, Phase, ChainPhase, AtAction, InChain
  <2>3. FiberInv' /\ ChainInv'
    BY <1>5, <2>1, <2>2, PhaseAdvances DEF RunAborts, RunFails
  <2> QED
    BY <1>2, <1>5, <2>2, <2>3 DEF RunAborts, RunFails, MemoryInv
<1> QED
  BY <1>1, <1>3, <1>4, <1>5 DEF RunEnds

(* The recheck, what it does with the advisory lock, and the boot's work. *)
LEMMA RecheckStep ==
    ASSUME IInv, NEW f \in Fiber, NEW p \in Process, Recheck(f, p)
    PROVE  IInv'
<1> USE DEF IInv, TypeInv
<1> DEFINE c == row.status
<1>1. PICK t \in DOMAIN Transitions(c) :
        LET retry == Transitions(c)[t].trigger = "on_enter"
            point == ResumePoint(row)
        IN  /\ frame' = [frame EXCEPT ![f] =
                 IF retry THEN NewFrame(p, c, "retry", NoPoint, 0)
                 ELSE NewFrame(p, c, "condition",
                               IF point.transition = t THEN point ELSE NoPoint, t)]
            /\ processing' = IF retry THEN processing
                             ELSE [processing EXCEPT ![p] = c]
  BY DEF Recheck
<1>2. /\ c \in Column /\ ResumePoint(row) \in Point /\ NoPoint \in Point
  BY DEF RowInv, Row, ResumePoint, Point, NoPoint
<1>3. t \in Nat /\ t \in DOMAIN Workflow[c]
  BY <1>2, WorkflowTyped DEF Transitions
<1>4. /\ pc' = [pc EXCEPT ![f] = "lock"] /\ "lock" \in Phase /\ "lock" \notin ChainPhase
      /\ "lock" \notin AtAction /\ pc[f] = "idle"
  BY DEF Recheck, Goto, Phase, ChainPhase, AtAction
<1>5. RowInv' /\ row' = row /\ processing[p] = NoColumn
  BY RowTouched DEF Recheck, RowInv, Occupied
<1> HIDE DEF c
<1>6. CASE Transitions(c)[t].trigger = "on_enter"
  <2> DEFINE fr == NewFrame(p, c, "retry", NoPoint, 0)
  <2>1. fr \in Frame /\ fr.kind = "retry"
    BY <1>2, NewFrameTyped DEF Kind
  <2>2. frame' = [frame EXCEPT ![f] = fr] /\ processing' = processing
    BY <1>1, <1>6
  <2> HIDE DEF fr
  <2>3. FrameFits("lock", fr)
    BY <1>4, <2>1 DEF FrameFits
  <2>4. FiberInv' /\ ChainInv'
    BY <1>4, <2>1, <2>2, <2>3, FiberAdvances
  <2> QED
    BY <1>5, <2>2, <2>4 DEF Recheck, MemoryInv
<1>7. CASE Transitions(c)[t].trigger # "on_enter"
  <2> DEFINE point == IF ResumePoint(row).transition = t THEN ResumePoint(row) ELSE NoPoint
             fr == NewFrame(p, c, "condition", point, t)
  <2>1. /\ fr \in Frame /\ fr.kind = "condition" /\ fr.proc = p
        /\ fr.column = c /\ fr.transition = t
    BY <1>2, <1>3, NewFrameTyped DEF Kind
  <2>2. /\ frame' = [frame EXCEPT ![f] = fr]
        /\ processing' = [processing EXCEPT ![p] = c]
    BY <1>1, <1>7
  <2> HIDE DEF fr, point
  <2>3. FrameFits("lock", fr)
    BY <1>3, <1>4, <2>1 DEF FrameFits
  <2>4. /\ FiberInv' /\ frame'[f] = fr
        /\ \A h \in Fiber \ {f} : pc'[h] = pc[h] /\ frame'[h] = frame[h]
    BY <1>4, <2>1, <2>2, <2>3, FiberUpdate
  <2>5. \A h \in Fiber \ {f} : InChain(h)' => InChain(h) /\ frame'[h].proc = frame[h].proc
    BY <2>4 DEF InChain
  <2>6. \A h \in Fiber \ {f} : InChain(h) => frame[h].proc \in Process
    BY DEF InChain, FiberInv, FrameFits, Frame, ChainPhase
  <2>7. ChainInv'
    BY <1>2, <1>5, <2>1, <2>2, <2>4, <2>5, <2>6, ChainTaken
  <2> QED
    BY <1>2, <1>5, <2>2, <2>4, <2>7 DEF Recheck, MemoryInv
<1> QED
  BY <1>6, <1>7

(* The lock is granted or not, the dispatch ends. *)
LEMMA LockSteps ==
    ASSUME IInv, NEW f \in Fiber, LockStep(f)
    PROVE  IInv'
<1> USE DEF IInv, TypeInv
<1>1. ASSUME row' = row
      PROVE  RowInv'
  BY <1>1, RowTouched DEF RowInv
<1>2. ASSUME RetryLocked(f)
      PROVE  IInv'
  <2>1. ~InChain(f) /\ pc[f] # "idle" /\ frame[f].kind = "retry"
    BY <1>2 DEF RetryLocked, InChain, ChainPhase
  <2>2. frame[f].proc \in Process /\ frame[f].column \in Column
    BY <2>1 DEF FiberInv, FrameFits, Frame
  <2>3. /\ FiberInv' /\ ChainInv'
        /\ processing' \in [Process -> Column \cup {NoColumn}]
    BY <1>2, <2>1, <2>2, EnterEffect DEF RetryLocked
  <2> QED
    BY <1>1, <1>2, <2>3 DEF RetryLocked, MemoryInv
<1>3. ASSUME ConditionLocked(f)
      PROVE  IInv'
  <2>1. /\ InChain(f) /\ frame[f].resume.completed \in Nat
        /\ frame[f].transition \in DOMAIN Workflow[frame[f].column]
    BY <1>3 DEF ConditionLocked, InChain, FiberInv, FrameFits, Frame, Point
  <2>2. FiberInv' /\ ChainInv'
    BY <1>3, <2>1, BeginEffect DEF ConditionLocked, memoryVars
  <2> QED
    BY <1>1, <1>3, <2>2 DEF ConditionLocked, memoryVars, MemoryInv
<1>4. ASSUME Release(f)
      PROVE  IInv'
  <2>1. FiberInv' /\ ChainInv'
    BY <1>4, FiberEnds DEF Release, Goto
  <2> QED
    BY <1>1, <1>4, <2>1 DEF Release, MemoryInv, FiberInv, FrameFits, Frame
<1>5. ASSUME LockDenied(f)
      PROVE  IInv'
  <2>1. frame[f].proc \in Process /\ frame[f] \in Frame /\ pc[f] = "lock"
    BY <1>5 DEF LockDenied, FiberInv, FrameFits, Frame
  <2>2. /\ pc' = [pc EXCEPT ![f] = "idle"] /\ frame' = [frame EXCEPT ![f] = NoFrame]
        /\ "idle" \in Phase
    BY <1>5 DEF LockDenied, Goto, Phase
  <2>3. CASE InChain(f)
    <3>1. processing' = [processing EXCEPT ![frame[f].proc] = NoColumn]
      BY <1>5, <2>3 DEF LockDenied
    <3>2. /\ FiberInv' /\ pc'[f] = "idle"
          /\ \A h \in Fiber \ {f} : pc'[h] = pc[h] /\ frame'[h] = frame[h]
      BY <2>2, FiberUpdate
    <3>3. ~InChain(f)'
      BY <3>2 DEF InChain, ChainPhase
    <3>4. \A h \in Fiber \ {f} : InChain(h)' => InChain(h) /\ frame'[h].proc = frame[h].proc
      BY <3>2 DEF InChain
    <3>5. ChainInv'
      BY <2>1, <2>3, <3>1, <3>3, <3>4, ChainLeft
    <3> QED
      BY <1>1, <1>5, <2>1, <3>1, <3>2, <3>5 DEF LockDenied, MemoryInv
  <2>4. CASE ~InChain(f)
    <3>1. processing' = processing
      BY <1>5, <2>4 DEF LockDenied
    <3>2. FiberInv' /\ ChainInv'
      BY <2>2, <3>1, FiberEnds
    <3> QED
      BY <1>1, <1>5, <2>1, <3>1, <3>2 DEF LockDenied, MemoryInv
  <2> QED
    BY <2>3, <2>4
<1> QED
  BY <1>2, <1>3, <1>4, <1>5 DEF LockStep

(* The re-arm of the boot, the healer, the eviction of a stale dispatch. *)
LEMMA ProcessSteps ==
    ASSUME IInv, NEW p \in Process,
           ReArm(p) \/ Heal(p) \/ EvictStaleLock(p) \/ TerminalTurns
    PROVE  IInv'
<1> USE DEF IInv, TypeInv
<1>1. ASSUME UNCHANGED <<processing, fiberVars>>
      PROVE  FiberInv' /\ ChainInv'
  BY <1>1 DEF fiberVars, FiberInv, FrameFits, ChainInv, InChain
<1>2. ASSUME ReArm(p)
      PROVE  IInv'
  <2>1. RowInv'
    BY <1>2, RowTouched DEF ReArm, RowInv, Row
  <2> QED
    BY <1>1, <1>2, <2>1 DEF ReArm, MemoryInv
<1>3. ASSUME Heal(p)
      PROVE  IInv'
  <2>1. RowInv'
    BY <1>3, RowTouched DEF Heal, RowInv, Row
  <2> QED
    BY <1>1, <1>3, <2>1 DEF Heal, memoryVars, MemoryInv
<1>4. ASSUME EvictStaleLock(p)
      PROVE  IInv'
  <2>1. RowInv'
    BY <1>4, RowTouched DEF EvictStaleLock, RowInv
  <2> QED
    BY <1>1, <1>4, <2>1 DEF EvictStaleLock, MemoryInv
<1>5. ASSUME TerminalTurns
      PROVE  IInv'
  <2>1. RowInv'
    BY <1>5, RowTouched DEF TerminalTurns, RowInv
  <2> QED
    BY <1>1, <1>5, <2>1 DEF TerminalTurns, MemoryInv
<1> QED
  BY <1>2, <1>3, <1>4, <1>5

(* A crash takes all the fibers of its process, and its entry. *)
LEMMA CrashStep ==
    ASSUME IInv, NEW p \in Process, Crash(p)
    PROVE  IInv'
<1> USE DEF IInv, TypeInv
<1> DEFINE dead == {f \in Fiber : pc[f] # "idle" /\ frame[f].proc = p}
<1>1. RowInv'
  <2>1. row' = [row EXCEPT !.claim = IF row.claim \in dead THEN Orphan ELSE row.claim]
    BY DEF Crash, RowInv, Row
  <2> HIDE DEF dead
  <2> QED
    BY <2>1, RowTouched DEF RowInv, Row
<1>2. MemoryInv'
  BY DEF Crash, MemoryInv
<1>3. FiberInv'
  BY DEF Crash, FiberInv, FrameFits, Phase
<1>4. ASSUME NEW f \in Fiber, InChain(f)'
      PROVE  /\ InChain(f) /\ frame'[f] = frame[f] /\ frame[f].proc # p
             /\ frame[f].proc \in Process
  <2>1. /\ pc'[f] = IF f \in dead THEN "idle" ELSE pc[f]
        /\ frame'[f] = IF f \in dead THEN NoFrame ELSE frame[f]
    BY DEF Crash
  <2>2. f \notin dead
    BY <1>4, <2>1 DEF InChain, ChainPhase
  <2>3. pc'[f] = pc[f] /\ frame'[f] = frame[f]
    BY <2>1, <2>2
  <2>4. InChain(f) /\ pc[f] # "idle"
    BY <1>4, <2>3 DEF InChain, ChainPhase
  <2>5. frame[f].proc # p
    BY <2>2, <2>4
  <2> QED
    BY <2>3, <2>4, <2>5 DEF FiberInv, FrameFits, Frame
<1>5. \A q \in Process \ {p} : processing'[q] = processing[q]
  BY DEF Crash, MemoryInv
<1>6. ChainInv'
  BY <1>4, <1>5 DEF ChainInv
<1> QED
  BY <1>1, <1>2, <1>3, <1>6

(* processColumnEntry, from its snapshot to the end of its transitions. *)
LEMMA EntrySteps ==
    ASSUME IInv, NEW f \in Fiber, EntryStep(f)
    PROVE  IInv'
<1> USE DEF IInv, TypeInv
<1>1. ASSUME row' = row
      PROVE  RowInv'
  BY <1>1, RowTouched DEF RowInv
<1>2. ASSUME pc[f] # "idle"
      PROVE  /\ frame[f] \in Frame /\ frame[f].proc \in Process
             /\ frame[f].column \in Column /\ row.point \in Point
             /\ frame[f].resume.completed \in Nat
  BY <1>2 DEF FiberInv, FrameFits, Frame, RowInv, Row, Point
<1>3. ASSUME Defer(f)
      PROVE  IInv'
  <2>1. pc[f] = "defer" /\ RowInv'
    BY <1>2, <1>3, MarkersWritten DEF Defer
  <2>2. FiberInv' /\ ChainInv'
    <3>1. CASE frame[f].kind = "retry"
      <4>1. /\ "release" \in Phase \ {"idle", "lock", "move"}
            /\ "release" \notin ChainPhase \cup AtAction
        BY DEF Phase, ChainPhase, AtAction
      <4> QED
        BY <1>3, <2>1, <3>1, <4>1, PhaseAdvances DEF Defer, Goto, memoryVars
    <3>2. CASE frame[f].kind # "retry"
      BY <1>3, <3>2, FiberEnds DEF Defer, Goto, memoryVars
    <3> QED
      BY <3>1, <3>2
  <2> QED
    BY <1>3, <2>1, <2>2 DEF Defer, memoryVars, MemoryInv
<1>4. ASSUME Turned(f) \/ NoTransitionLeft(f)
      PROVE  IInv'
  <2>1. pc[f] \in ChainPhase /\ Leave(f, FALSE) /\ row' = row
    BY <1>4 DEF Turned, NoTransitionLeft, ChainPhase
  <2> QED
    BY <1>1, <2>1, LeaveEffect
<1>5. ASSUME Read(f)
      PROVE  IInv'
  <2> DEFINE there == [frame[f] EXCEPT !.resume = ResumePoint(row)]
             fr == [there EXCEPT !.transition = 1]
  <2>1. /\ pc' = [pc EXCEPT ![f] = "next"] /\ pc[f] = "read"
        /\ frame' = [frame EXCEPT ![f] = fr]
    BY <1>5 DEF Read, Goto, FiberInv
  <2>2. fr \in Frame /\ fr.proc = frame[f].proc
    <3>1. ResumePoint(row) \in Point
      BY DEF RowInv, Row, ResumePoint, Point, NoPoint
    <3>2. there \in Frame /\ there.proc = frame[f].proc
      BY <1>2, <2>1, <3>1 DEF Frame
    <3> HIDE DEF there
    <3> QED
      BY <3>2 DEF Frame
  <2> HIDE DEF fr
  <2>3. FrameFits("next", fr) /\ "next" \in Phase /\ InChain(f)
    BY <2>1, <2>2 DEF FrameFits, AtAction, Phase, ChainPhase, InChain
  <2>4. FiberInv' /\ ChainInv'
    BY <1>5, <2>1, <2>2, <2>3, FiberAdvances DEF Read, memoryVars
  <2> QED
    BY <1>1, <1>5, <2>4 DEF Read, memoryVars, MemoryInv
<1>6. ASSUME Unreadable(f)
      PROVE  IInv'
  <2>1. /\ pc[f] # "idle" /\ InChain(f)
        /\ "rearm" \in Phase \ {"idle", "lock", "move"} /\ "rearm" \notin AtAction
    BY <1>6 DEF Unreadable, InChain, Phase, ChainPhase, AtAction
  <2>2. FiberInv' /\ ChainInv'
    BY <1>6, <2>1, PhaseAdvances DEF Unreadable, Goto, memoryVars
  <2> QED
    BY <1>1, <1>6, <2>2 DEF Unreadable, memoryVars, MemoryInv
<1>7. ASSUME Rearm(f)
      PROVE  IInv'
  <2>1. pc[f] \in ChainPhase /\ Leave(f, FALSE)
    BY <1>7 DEF Rearm, ChainPhase
  <2>2. RowInv'
    BY <1>2, <1>7, MarkersWritten DEF Rearm
  <2> QED
    BY <2>1, <2>2, LeaveEffect
<1>8. ASSUME NextTransition(f)
      PROVE  IInv'
  <2>1. PICK t \in DOMAIN Workflow[frame[f].column] :
          Begin(f, t, IF t = frame[f].resume.transition
                      THEN frame[f].resume.completed ELSE 0)
    BY <1>8 DEF NextTransition, Transitions
  <2>2. /\ InChain(f)
        /\ (IF t = frame[f].resume.transition THEN frame[f].resume.completed ELSE 0) \in Nat
    BY <1>2, <1>8 DEF NextTransition, InChain, ChainPhase
  <2>3. FiberInv' /\ ChainInv'
    BY <1>8, <2>1, <2>2, BeginEffect DEF NextTransition, memoryVars
  <2> QED
    BY <1>1, <1>8, <2>3 DEF NextTransition, memoryVars, MemoryInv
<1>9. ASSUME Continue(f)
      PROVE  IInv'
  <2>1. pc[f] = "continue" /\ row' = row
    BY <1>9 DEF Continue
  <2>2. /\ FiberInv' /\ ChainInv'
        /\ processing' \in [Process -> Column \cup {NoColumn}]
    <3>1. CASE \/ row.status \in {frame[f].column, ErrorColumn}
               \/ processing[frame[f].proc] # NoColumn
      BY <1>9, <3>1, FiberEnds DEF Continue, Goto, MemoryInv
    <3>2. CASE ~(\/ row.status \in {frame[f].column, ErrorColumn}
                 \/ processing[frame[f].proc] # NoColumn)
      <4>1. ~InChain(f) /\ row.status \in Column
        BY <2>1 DEF InChain, ChainPhase, RowInv, Row
      <4> QED
        BY <1>2, <1>9, <2>1, <3>2, <4>1, EnterEffect DEF Continue
    <3> QED
      BY <3>1, <3>2
  <2> QED
    BY <1>1, <1>9, <2>1, <2>2 DEF Continue, MemoryInv
<1> QED
  BY <1>3, <1>4, <1>5, <1>6, <1>7, <1>8, <1>9 DEF EntryStep

(* An action that took effect is recorded next. *)
LEMMA ExecutedEffect ==
    ASSUME FiberInv, ChainInv, NEW f \in Fiber, NEW moved \in BOOLEAN,
           pc[f] \in AtAction, Executed(f, moved), processing' = processing
    PROVE  FiberInv' /\ ChainInv'
<1> DEFINE fr == [frame[f] EXCEPT !.moved = moved]
<1>1. /\ pc' = [pc EXCEPT ![f] = "record"]
      /\ frame' = [frame EXCEPT ![f] = fr]
  BY DEF Executed, Goto, FiberInv
<1>2. /\ frame[f] \in Frame /\ FrameFits(pc[f], frame[f]) /\ InChain(f)
      /\ pc[f] # "lock"
  BY DEF FiberInv, FrameFits, InChain, AtAction, ChainPhase
<1>3. /\ fr \in Frame /\ fr.proc = frame[f].proc /\ fr.column = frame[f].column
      /\ fr.transition = frame[f].transition /\ fr.action = frame[f].action
  BY <1>2 DEF Frame
<1> HIDE DEF fr
<1>4. FrameFits("record", fr) /\ "record" \in Phase
  BY <1>2, <1>3 DEF FrameFits, Phase, ChainPhase
<1> QED
  BY <1>1, <1>2, <1>3, <1>4, FiberAdvances

(* The actions of a chain. *)
LEMMA ActionSteps ==
    ASSUME IInv, NEW f \in Fiber, ActionStep(f)
    PROVE  IInv'
<1> USE DEF IInv, TypeInv
<1>1. ASSUME row' = row
      PROVE  RowInv'
  BY <1>1, RowTouched DEF RowInv
<1>2. ASSUME Assign(f) \/ NoMove(f) \/ MovedMeanwhile(f)
      PROVE  IInv'
  <2>1. PICK moved \in BOOLEAN : Executed(f, moved)
    BY <1>2 DEF Assign, NoMove, MovedMeanwhile
  <2>2. pc[f] \in AtAction /\ UNCHANGED <<row, lock, memoryVars>>
    BY <1>2 DEF Assign, NoMove, MovedMeanwhile, AtAction
  <2>3. FiberInv' /\ ChainInv'
    BY <2>1, <2>2, ExecutedEffect DEF memoryVars
  <2> QED
    BY <1>1, <2>2, <2>3 DEF memoryVars, MemoryInv
<1>3. ASSUME Unable(f)
      PROVE  IInv'
  <2>1. /\ pc' = [pc EXCEPT ![f] = "flag"] /\ "flag" \in Phase \ {"idle", "lock", "move"}
        /\ pc[f] \in AtAction /\ pc[f] # "idle" /\ InChain(f)
    BY <1>3 DEF Unable, Goto, Phase, ChainPhase, AtAction, InChain
  <2>2. FiberInv' /\ ChainInv'
    BY <1>3, <2>1, PhaseAdvances DEF Unable, memoryVars
  <2> QED
    BY <1>1, <1>3, <2>2 DEF Unable, memoryVars, MemoryInv
<1>4. ASSUME DecideMove(f)
      PROVE  IInv'
  <2>1. /\ pc' = [pc EXCEPT ![f] = "move"] /\ "move" \in Phase
        /\ pc[f] = "act" /\ InChain(f) /\ Step(f).type = "move"
    BY <1>4 DEF DecideMove, Goto, Phase, ChainPhase, InChain
  <2>2. /\ frame[f] \in Frame /\ FrameFits("act", frame[f])
        /\ frame' = [frame EXCEPT ![f] = frame[f]]
    BY <1>4, <2>1 DEF DecideMove, FiberInv, FrameFits
  <2>3. FrameFits("move", frame[f])
    BY <2>1, <2>2 DEF FrameFits, AtAction, Step, Chain, Actions
  <2>4. FiberInv' /\ ChainInv'
    BY <1>4, <2>1, <2>2, <2>3, FiberAdvances DEF DecideMove, memoryVars
  <2> QED
    BY <1>1, <1>4, <2>4 DEF DecideMove, memoryVars, MemoryInv
<1>5. ASSUME StartRun(f)
      PROVE  IInv'
  <2>1. RowInv'
    BY <1>5, RowTouched DEF StartRun, RowInv, Row
  <2>2. /\ pc' = [pc EXCEPT ![f] = "run"] /\ "run" \in Phase \ {"idle", "lock", "move"}
        /\ pc[f] \in AtAction /\ pc[f] # "idle" /\ InChain(f)
    BY <1>5 DEF StartRun, Goto, Phase, ChainPhase, AtAction, InChain
  <2>3. FiberInv' /\ ChainInv'
    BY <1>5, <2>2, PhaseAdvances DEF StartRun
  <2> QED
    BY <1>5, <2>1, <2>3 DEF StartRun, MemoryInv
<1>6. ASSUME NEW g \in Fiber, MoveCard(f, g)
      PROVE  IInv'
  <2> DEFINE to == Step(f).to
             fr == [frame[f] EXCEPT !.moved = TRUE]
  <2>1. /\ pc[f] = "move" /\ pc[g] = "idle" /\ row' = Moved(row, to)
        /\ EnterBeside(g, f, to, "record", fr)
        /\ UNCHANGED <<lock, checking, running, rearmed, printing>>
    BY <1>6 DEF MoveCard
  <2>2. frame[f] \in Frame /\ FrameFits("move", frame[f]) /\ InChain(f)
    BY <2>1 DEF FiberInv, FrameFits, InChain, ChainPhase
  <2>3. to \in Column
    BY <2>1, <2>2, TargetIsColumn DEF FrameFits, Step, Chain, Actions
  <2> HIDE DEF to
  <2>4. row' \in Row /\ row'.pending = NoColumn /\ row'.point = NoPoint
    BY <2>1, <2>3 DEF Moved, RowInv, Row, Point, NoPoint
  <2>5. /\ fr \in Frame /\ fr.proc = frame[f].proc /\ fr.column = frame[f].column
        /\ fr.transition = frame[f].transition /\ fr.action = frame[f].action
    BY <2>2 DEF Frame
  <2> HIDE DEF fr
  <2>6. FrameFits("record", fr) /\ "record" \in Phase
    BY <2>2, <2>5 DEF FrameFits, AtAction, Phase, ChainPhase
  <2>7. /\ FiberInv' /\ ChainInv'
        /\ processing' \in [Process -> Column \cup {NoColumn}]
    BY <2>1, <2>2, <2>3, <2>5, <2>6, BesideEffect
  <2> QED
    BY <2>1, <2>4, <2>7, RowMoved DEF MemoryInv
<1> QED
  BY <1>2, <1>3, <1>4, <1>5, <1>6 DEF ActionStep

(* A chain, between its actions. *)
LEMMA ChainSteps ==
    ASSUME IInv, NEW f \in Fiber, ChainStep(f)
    PROVE  IInv'
<1> USE DEF IInv, TypeInv
<1>1. ASSUME pc[f] \in AtAction
      PROVE  /\ frame[f] \in Frame /\ frame[f].column \in Column
             /\ frame[f].transition \in DOMAIN Workflow[frame[f].column]
             /\ frame[f].transition \in Nat /\ frame[f].action \in Nat \ {0}
             /\ Len(Workflow[frame[f].column][frame[f].transition].actions) \in Nat
             /\ frame[f].action <=
                  Len(Workflow[frame[f].column][frame[f].transition].actions)
  <2>1. /\ frame[f] \in Frame /\ frame[f].column \in Column
        /\ frame[f].transition \in DOMAIN Workflow[frame[f].column]
        /\ frame[f].action \in 1 .. Len(Workflow[frame[f].column][frame[f].transition].actions)
    BY <1>1 DEF FiberInv, FrameFits, Frame, AtAction
  <2> QED
    BY <2>1, WorkflowTyped
<1>2. \A n \in Nat : [transition |-> frame[f].transition, completed |-> n].transition
                      = frame[f].transition
  OBVIOUS
<1>3. ASSUME pc[f] \in AtAction, NEW n \in Nat, n <= frame[f].action,
             NEW pending \in {NoColumn, row.pending, frame[f].column},
             WriteMarkers(f, pending, [transition |-> frame[f].transition, completed |-> n])
      PROVE  RowInv'
  <2> DEFINE point == [transition |-> frame[f].transition, completed |-> n]
  <2>1. /\ point \in Point /\ point.transition = frame[f].transition
        /\ point.completed = n
    BY <1>1, <1>3 DEF Point
  <2>2. n <= Len(Workflow[frame[f].column][frame[f].transition].actions)
    BY <1>1, <1>3
  <2> HIDE DEF point
  <2>3. WriteMarkers(f, pending, point)
    BY <1>3 DEF point
  <2> QED
    BY <1>1, <1>3, <2>1, <2>2, <2>3, MarkersWritten
<1>4. ASSUME Mark(f) \/ Record(f) \/ Flag(f)
      PROVE  IInv'
  <2>1. pc[f] \in AtAction
    BY <1>4 DEF Mark, Record, Flag, AtAction
  <2>2. RowInv'
    <3>1. CASE Mark(f)
      BY <1>1, <1>3, <2>1, <3>1 DEF Mark
    <3>2. CASE Record(f)
      BY <1>1, <1>3, <2>1, <3>2 DEF Record
    <3>3. CASE Flag(f)
      BY <1>1, <1>3, <2>1, <3>3 DEF Flag
    <3> QED
      BY <1>4, <3>1, <3>2, <3>3
  <2>3. PICK ph \in {"act", "sync", "skipped"} : pc' = [pc EXCEPT ![f] = ph]
    BY <1>4 DEF Mark, Record, Flag, Goto
  <2>4. /\ ph \in Phase \ {"idle", "lock", "move"} /\ pc[f] # "idle" /\ InChain(f)
    BY <2>1, <2>3 DEF Phase, ChainPhase, AtAction, InChain
  <2>5. UNCHANGED <<lock, memoryVars, frame>>
    BY <1>4 DEF Mark, Record, Flag
  <2>6. FiberInv' /\ ChainInv'
    BY <2>1, <2>3, <2>4, <2>5, PhaseAdvances DEF memoryVars
  <2> QED
    BY <2>2, <2>5, <2>6 DEF memoryVars, MemoryInv
<1>5. ASSUME Sync(f)
      PROVE  IInv'
  <2> DEFINE ends == \/ row.status # frame[f].column \/ frame[f].moved
                     \/ frame[f].action = Len(Chain(f))
             i == IF ends THEN frame[f].action ELSE frame[f].action + 1
             ph == IF ends THEN "clear" ELSE "act"
             there == [frame[f] EXCEPT !.work = row.status]
             fr == [there EXCEPT !.action = i]
  <2>1. /\ pc[f] \in AtAction /\ pc[f] # "idle" /\ InChain(f)
        /\ UNCHANGED <<row, lock, memoryVars>>
    BY <1>5 DEF Sync, AtAction, InChain, ChainPhase
  <2>2. pc' = [pc EXCEPT ![f] = ph] /\ frame' = [frame EXCEPT ![f] = fr]
    BY <1>1, <1>5, <2>1 DEF Sync, Goto, FiberInv
  <2>3. /\ i \in Nat
        /\ ~ends => i \in 1 .. Len(Workflow[frame[f].column][frame[f].transition].actions)
    BY <1>1, <2>1 DEF Chain, Actions
  <2>4. ph \in Phase /\ ph # "lock" /\ ph # "move" /\ (ph \in AtAction => ~ends)
    BY DEF Phase, ChainPhase, AtAction
  <2> HIDE DEF ends, i, ph
  <2>5. /\ there \in Frame /\ there.proc = frame[f].proc
        /\ there.column = frame[f].column /\ there.transition = frame[f].transition
    BY <1>1, <2>1 DEF Frame, RowInv, Row
  <2> HIDE DEF there
  <2>6. /\ fr \in Frame /\ fr.proc = frame[f].proc /\ fr.column = frame[f].column
        /\ fr.transition = frame[f].transition /\ fr.action = i
    BY <2>3, <2>5 DEF Frame
  <2> HIDE DEF fr
  <2>7. FrameFits(ph, fr)
    BY <1>1, <2>1, <2>3, <2>4, <2>6 DEF FrameFits
  <2>8. FiberInv' /\ ChainInv'
    BY <2>1, <2>2, <2>4, <2>6, <2>7, FiberAdvances DEF memoryVars
  <2> QED
    BY <2>1, <2>8, RowTouched DEF memoryVars, MemoryInv, RowInv
<1>6. ASSUME Skipped(f)
      PROVE  IInv'
  <2>1. /\ pc[f] \in ChainPhase /\ RowInv'
        /\ Leave(f, frame[f].kind = "condition" \/ row.status # frame[f].column)
    BY <1>6, RowTouched DEF Skipped, ChainPhase, RowInv
  <2> QED
    BY <2>1, LeaveEffect
<1>7. ASSUME FailCard(f)
      PROVE  IInv'
  <2>1. row' \in Row /\ row'.status = ErrorColumn
    BY <1>7, ConstantsAssumption DEF FailCard, RowInv, Row, ConstantsAssumption
  <2>2. RowInv'
    BY <2>1 DEF RowInv, MarkersFit
  <2> DEFINE fr == [frame[f] EXCEPT !.work = ErrorColumn]
  <2>3. /\ pc[f] = "fail" /\ frame[f] \in Frame /\ InChain(f)
        /\ pc' = [pc EXCEPT ![f] = "clear"] /\ frame' = [frame EXCEPT ![f] = fr]
    BY <1>7 DEF FailCard, Goto, FiberInv, FrameFits, InChain, ChainPhase
  <2>4. fr \in Frame /\ fr.proc = frame[f].proc
    BY <2>3, ConstantsAssumption DEF Frame, ConstantsAssumption
  <2> HIDE DEF fr
  <2>5. FrameFits("clear", fr) /\ "clear" \in Phase
    BY <2>4 DEF FrameFits, AtAction, Phase, ChainPhase
  <2>6. FiberInv' /\ ChainInv'
    BY <1>7, <2>3, <2>4, <2>5, FiberAdvances DEF FailCard, memoryVars
  <2> QED
    BY <1>7, <2>2, <2>6 DEF FailCard, memoryVars, MemoryInv
<1>8. ASSUME ClearMarkers(f)
      PROVE  RowInv' /\ frame[f] \in Frame
  <2>1. pc[f] = "clear" /\ WriteMarkers(f, NoColumn, NoPoint)
    BY <1>8 DEF ClearMarkers
  <2>2. frame[f] \in Frame /\ frame[f].column \in Column /\ NoPoint \in Point
    BY <2>1 DEF FiberInv, FrameFits, Frame, Point, NoPoint
  <2> QED
    BY <2>1, <2>2, MarkersWritten
<1>9. ASSUME ChainEnds(f)
      PROVE  IInv'
  <2>1. pc[f] \in ChainPhase /\ Leave(f, TRUE) /\ ClearMarkers(f)
    BY <1>9 DEF ChainEnds, ClearMarkers, ChainPhase
  <2> QED
    BY <1>8, <2>1, LeaveEffect
<1>10. ASSUME TransitionEnds(f)
       PROVE  IInv'
  <2> DEFINE fr == [frame[f] EXCEPT !.transition = frame[f].transition + 1]
  <2>1. /\ pc[f] = "clear" /\ RowInv' /\ frame[f] \in Frame /\ InChain(f)
        /\ UNCHANGED <<lock, memoryVars>>
    BY <1>8, <1>10 DEF TransitionEnds, ClearMarkers, InChain, ChainPhase
  <2>2. /\ pc' = [pc EXCEPT ![f] = "next"] /\ frame' = [frame EXCEPT ![f] = fr]
    BY <1>10 DEF TransitionEnds, Goto, FiberInv
  <2>3. fr \in Frame /\ fr.proc = frame[f].proc
    BY <2>1 DEF Frame
  <2> HIDE DEF fr
  <2>4. FrameFits("next", fr) /\ "next" \in Phase
    BY <2>3 DEF FrameFits, AtAction, Phase, ChainPhase
  <2>5. FiberInv' /\ ChainInv'
    BY <2>1, <2>2, <2>3, <2>4, FiberAdvances DEF memoryVars
  <2> QED
    BY <2>1, <2>5 DEF memoryVars, MemoryInv
<1> QED
  BY <1>4, <1>5, <1>6, <1>7, <1>9, <1>10, ActionSteps DEF ChainStep

-----------------------------------------------------------------------------
(* The invariant, and what follows from it.                                *)

(* The invariant holds at the start: nothing is at work on a new card. *)
LEMMA InitInv == Init => IInv
<1> SUFFICES ASSUME Init PROVE IInv
  OBVIOUS
<1>1. RowInv
  BY ConstantsAssumption DEF Init, RowInv, MarkersFit, Row, Point, NoPoint,
                             ConstantsAssumption
<1>2. FiberInv /\ MemoryInv
  BY DEF Init, FiberInv, MemoryInv, Phase
<1>3. ChainInv
  BY DEF Init, ChainInv, InChain, ChainPhase
<1> QED
  BY <1>1, <1>2, <1>3 DEF IInv, TypeInv

(* Every step keeps it. *)
LEMMA NextInv == IInv /\ [Next]_vars => IInv'
<1> SUFFICES ASSUME IInv, [Next]_vars PROVE IInv'
  OBVIOUS
<1>1. CASE UNCHANGED vars
  BY <1>1 DEF vars, memoryVars, fiberVars, IInv, TypeInv, RowInv, MarkersFit,
              FiberInv, FrameFits, MemoryInv, ChainInv, InChain, Transitions, Actions
<1>2. CASE Routine
  <2>1. CASE TerminalTurns
    <3>1. CASE Process = {}
      BY <2>1, <3>1 DEF TerminalTurns, fiberVars, IInv, TypeInv, RowInv, MarkersFit,
             FiberInv, FrameFits, MemoryInv, ChainInv, InChain, Transitions, Actions
    <3>2. CASE Process # {}
      BY <2>1, <3>2, ProcessSteps
    <3> QED
      BY <3>1, <3>2
  <2>2. CASE ~TerminalTurns
    BY <1>2, <2>2, EntrySteps, ChainSteps, LockSteps, AskSteps, RunSteps, RecheckStep,
       ProcessSteps DEF Routine
  <2> QED
    BY <2>1, <2>2
<1>3. CASE Event
  BY <1>3, UserSteps, StopSteps, RunSteps, ProcessSteps, CrashStep DEF Event
<1> QED
  BY <1>1, <1>2, <1>3 DEF Next

(* The invariant is an invariant. *)
LEMMA Invariance == Spec => []IInv
  BY InitInv, NextInv, PTL DEF Spec

(* The card's row, the maps of the processes and the local variables of the *)
(* fibers have the types they are used with.                               *)
THEOREM TypeSafe == Spec => []TypeOK
<1>1. IInv => TypeOK
  BY DEF IInv, TypeInv, RowInv, FiberInv, FrameFits, MemoryInv, TypeOK
<1> QED
  BY <1>1, Invariance, PTL

(* In no process are two chains ever at work on the card: whatever starts   *)
(* one - an entry, a recheck, a continuation - finds _processingTasks free, *)
(* and only the one that took it lets it go.                               *)
THEOREM ChainIsExclusive == Spec => []ChainExclusive
<1>1. IInv => ChainExclusive
  BY DEF IInv, ChainInv, ChainExclusive
<1> QED
  BY <1>1, Invariance, PTL

(* The pending marker and the resume point of the row always are those of   *)
(* the column the card is in: a chain whose card left it in the middle of   *)
(* an action writes nothing.                                               *)
THEOREM MarkersAlwaysFit == Spec => []MarkersFit
<1>1. IInv => MarkersFit
  BY DEF IInv, TypeInv, RowInv
<1> QED
  BY <1>1, Invariance, PTL

-----------------------------------------------------------------------------
(* No action is skipped.                                                   *)

(* With one process, its map of the chains at work is all there is. *)
OneProcess == \A p, q \in Process : p = q

(* The first k actions of transition t of column c took effect. *)
Did(c, t, k, E) == \A j \in 1 .. k : <<c, t, j>> \in E

(* A fiber at an action has the ones before it behind it, in its own memory *)
(* and in what it has read of the row.                                     *)
Follows(phase, fr, E) ==
    /\ fr.column # ErrorColumn
    /\ phase \in ChainPhase \/ (phase = "lock" /\ fr.kind = "condition") =>
         Did(fr.column, fr.resume.transition, fr.resume.completed, E)
    /\ phase = "lock" /\ fr.kind = "condition" =>
         fr.resume.transition = fr.transition \/ fr.resume.completed = 0
    /\ phase = "mark" =>
         /\ fr.action = 1
         /\ fr.resume.transition = fr.transition => fr.resume.completed = 0
    /\ phase \in {"act", "run", "move", "flag"} =>
         Did(fr.column, fr.transition, fr.action - 1, E)
    /\ phase \in {"record", "sync"} => Did(fr.column, fr.transition, fr.action, E)
    /\ phase = "clear" /\ fr.work = fr.column /\ ~fr.moved =>
         Did(fr.column, fr.transition, Len(Actions(fr.column, fr.transition)), E)

(* So has the resume point of the row, whether it is armed or not.          *)
PointFollows(r, E) ==
    r.status # ErrorColumn => Did(r.status, r.point.transition, r.point.completed, E)

OrderInv ==
    /\ PointFollows(row, effects)
    /\ \A f \in Fiber : pc[f] # "idle" => Follows(pc[f], frame[f], effects)

(* More effects leave a fiber where it is. *)
LEMMA FollowsMore ==
    ASSUME NEW E, NEW F, E \subseteq F, NEW phase, NEW fr, Follows(phase, fr, E)
    PROVE  Follows(phase, fr, F)
BY DEF Follows, Did

(* A fiber that starts has nothing behind it. *)
LEMMA NewFollows ==
    ASSUME NEW p, NEW c, c # ErrorColumn, NEW kind, NEW t, NEW E,
           NEW phase \in {"read", "defer", "release", "lock", "prepare", "direct"}
    PROVE  Follows(phase, NewFrame(p, c, kind, NoPoint, t), E)
BY DEF Follows, Did, NewFrame, NoPoint

(* What has been done stays done, and one fiber goes on. *)
LEMMA OneFollows ==
    ASSUME IInv, OrderInv, effects \subseteq effects', PointFollows(row', effects'),
           NEW f \in Fiber, NEW ph, NEW fr,
           ph # "idle" => Follows(ph, fr, effects'),
           pc' = [pc EXCEPT ![f] = ph], frame' = [frame EXCEPT ![f] = fr]
    PROVE  OrderInv'
<1> SUFFICES ASSUME NEW h \in Fiber, pc'[h] # "idle"
             PROVE  Follows(pc'[h], frame'[h], effects')
  BY DEF OrderInv, PointFollows, Did
<1>1. pc \in [Fiber -> Phase] /\ DOMAIN frame = Fiber
  BY DEF IInv, TypeInv, FiberInv
<1>2. CASE h = f
  BY <1>1, <1>2
<1>3. CASE h # f
  <2>1. pc'[h] = pc[h] /\ frame'[h] = frame[h]
    BY <1>1, <1>3
  <2> QED
    BY <2>1, FollowsMore DEF OrderInv
<1> QED
  BY <1>2, <1>3

(* A row that keeps its column and its point, and whose fibers keep still. *)
LEMMA PointKept ==
    ASSUME OrderInv, row'.status = row.status, row'.point = row.point, effects \subseteq effects'
    PROVE  PointFollows(row', effects')
BY DEF OrderInv, PointFollows, Did

(* A move leaves no resume point. *)
LEMMA PointMoved ==
    ASSUME row'.status = ErrorColumn \/ row'.point = NoPoint
    PROVE  PointFollows(row', effects')
BY DEF PointFollows, Did, NoPoint

(* The point a chain writes is the one it stands at. *)
LEMMA PointWritten ==
    ASSUME IInv, OrderInv, NEW f \in Fiber, NEW pending, NEW point,
           WriteMarkers(f, pending, point), effects \subseteq effects',
           point = row.point \/ Did(frame[f].column, point.transition, point.completed, effects')
    PROVE  PointFollows(row', effects')
<1>1. CASE row.status # frame[f].column \/ point = row.point
  BY <1>1, PointKept DEF WriteMarkers, IInv, TypeInv, RowInv, Row
<1>2. CASE row.status = frame[f].column /\ point # row.point
  BY <1>2 DEF PointFollows, WriteMarkers, IInv, TypeInv, RowInv, Row
<1> QED
  BY <1>1, <1>2

(* An entry starts. *)
LEMMA EnterFollows ==
    ASSUME IInv, OrderInv, NEW f \in Fiber, NEW p, NEW c, NEW kind,
           c # ErrorColumn \/ kind # "retry",
           Enter(f, p, c, kind), effects' = effects, PointFollows(row', effects')
    PROVE  OrderInv'
<1> DEFINE phase == EntryPhase(p, c, kind)
           fr == IF phase = "idle" THEN NoFrame ELSE NewFrame(p, c, kind, NoPoint, 0)
<1>1. phase \in {"read", "defer", "release", "idle"} /\ (phase # "idle" => c # ErrorColumn)
  BY DEF EntryPhase
<1>2. pc' = [pc EXCEPT ![f] = phase] /\ frame' = [frame EXCEPT ![f] = fr]
  BY DEF Enter, Goto
<1>3. phase # "idle" => Follows(phase, fr, effects')
  BY <1>1, NewFollows
<1> HIDE DEF phase, fr
<1> QED
  BY <1>2, <1>3, OneFollows

(* ... beside the fiber that moved the card.                               *)
LEMMA BesideFollows ==
    ASSUME IInv, OrderInv, NEW f \in Fiber, NEW g \in Fiber, f # g, NEW c, NEW phase, NEW next,
           EnterBeside(f, g, c, phase, next), effects \subseteq effects',
           PointFollows(row', effects'), Follows(phase, next, effects')
    PROVE  OrderInv'
<1> DEFINE at == EntryPhase(frame[g].proc, c, "entry")
           fr == IF at = "idle" THEN NoFrame
                 ELSE NewFrame(frame[g].proc, c, "entry", NoPoint, 0)
<1>1. at \in {"read", "defer", "idle"} /\ (at # "idle" => c # ErrorColumn)
  BY DEF EntryPhase
<1>2. /\ pc' = [pc EXCEPT ![f] = at, ![g] = phase]
      /\ frame' = [frame EXCEPT ![g] = next, ![f] = fr]
  BY DEF EnterBeside
<1>3. at # "idle" => Follows(at, fr, effects')
  BY <1>1, NewFollows
<1> HIDE DEF at, fr
<1> SUFFICES ASSUME NEW h \in Fiber, pc'[h] # "idle"
             PROVE  Follows(pc'[h], frame'[h], effects')
  BY DEF OrderInv, PointFollows, Did
<1>4. pc \in [Fiber -> Phase] /\ DOMAIN frame = Fiber
  BY DEF IInv, TypeInv, FiberInv
<1>5. CASE h = f
  BY <1>2, <1>3, <1>4, <1>5
<1>6. CASE h = g
  BY <1>2, <1>4, <1>6
<1>7. CASE h \notin {f, g}
  <2>1. pc'[h] = pc[h] /\ frame'[h] = frame[h]
    BY <1>2, <1>4, <1>7
  <2> QED
    BY <2>1, FollowsMore DEF OrderInv
<1> QED
  BY <1>5, <1>6, <1>7

(* A chain ends. *)
LEMMA LeaveFollows ==
    ASSUME IInv, OrderInv, NEW f \in Fiber, pc[f] # "idle", NEW goOn \in BOOLEAN,
           Leave(f, goOn), effects \subseteq effects', PointFollows(row', effects')
    PROVE  OrderInv'
<1> DEFINE ph == IF goOn THEN "continue" ELSE "idle"
           fr == IF goOn THEN frame[f] ELSE NoFrame
<1>1. pc' = [pc EXCEPT ![f] = ph] /\ frame' = [frame EXCEPT ![f] = fr]
  BY DEF Leave, Goto, IInv, TypeInv, FiberInv
<1>2. ph # "idle" => Follows(ph, fr, effects')
  BY DEF OrderInv, Follows, ChainPhase
<1> HIDE DEF ph, fr
<1> QED
  BY <1>1, <1>2, OneFollows

(* A transition begins at the first of its actions, or behind those of the  *)
(* resume point.                                                           *)
LEMMA BeginFollows ==
    ASSUME IInv, OrderInv, NEW f \in Fiber, InChain(f),
           NEW t \in DOMAIN Workflow[frame[f].column], NEW done \in Nat,
           Begin(f, t, done), row' = row,
           done = 0 \/ (frame[f].resume.transition = t /\ done = frame[f].resume.completed),
           frame[f].resume.transition = t => done = frame[f].resume.completed
    PROVE  OrderInv'
<1> DEFINE n == Len(Actions(frame[f].column, t))
           ph == IF done = 0 /\ n > 0 THEN "mark" ELSE IF done < n THEN "act" ELSE "clear"
           fr == [frame[f] EXCEPT !.transition = t, !.action = done + 1, !.moved = FALSE]
<1>1. /\ frame[f] \in Frame /\ pc[f] # "idle" /\ frame[f].column \in Column
      /\ Follows(pc[f], frame[f], effects)
      /\ Did(frame[f].column, frame[f].resume.transition, frame[f].resume.completed, effects)
  BY DEF InChain, IInv, TypeInv, FiberInv, FrameFits, Frame, OrderInv, Follows, ChainPhase
<1>2. t \in Nat /\ n \in Nat
  BY <1>1, WorkflowTyped DEF Actions
<1>3. /\ pc' = [pc EXCEPT ![f] = ph] /\ frame' = [frame EXCEPT ![f] = fr]
      /\ effects' = effects
  BY DEF Begin, Goto, IInv, TypeInv, FiberInv
<1>4. /\ fr.column = frame[f].column /\ fr.resume = frame[f].resume
      /\ fr.transition = t /\ fr.action = done + 1
  BY <1>1 DEF Frame
<1>5. /\ ph \in {"mark", "act", "clear"}
      /\ ph = "mark" => done = 0
      /\ ph = "act" => done # 0
  BY <1>2
<1>6. ph = "clear" => n <= done
  BY <1>2
<1> HIDE DEF ph, fr
<1>7. Follows(ph, fr, effects)
  <2>1. fr.column # ErrorColumn
    BY <1>1, <1>4 DEF Follows
  <2>2. Did(fr.column, fr.resume.transition, fr.resume.completed, effects)
    BY <1>1, <1>4
  <2>3. ph = "act" => Did(fr.column, fr.transition, fr.action - 1, effects)
    BY <1>1, <1>4, <1>5
  <2>4. ph = "mark" => /\ fr.action = 1
                       /\ fr.resume.transition = fr.transition => fr.resume.completed = 0
    BY <1>4, <1>5
  <2>5. ph = "clear" => Did(fr.column, t, n, effects)
    <3>1. ph = "clear" => Did(frame[f].column, t, done, effects)
      BY <1>1 DEF Did
    <3> QED
      BY <1>2, <1>4, <1>6, <3>1 DEF Did
  <2>6. ph = "clear" => Did(fr.column, fr.transition, Len(Actions(fr.column, fr.transition)), effects)
    BY <1>4, <2>5
  <2> QED
    BY <1>5, <2>1, <2>2, <2>3, <2>4, <2>6 DEF Follows
<1>8. PointFollows(row', effects')
  BY <1>3 DEF OrderInv
<1> QED
  BY <1>3, <1>7, <1>8, OneFollows

(* A fiber goes on with the frame it has. *)
LEMMA PhaseFollows ==
    ASSUME IInv, OrderInv, NEW f \in Fiber, pc[f] # "idle",
           NEW ph \in {"flag", "fail", "run", "move", "rearm", "skipped", "release"},
           ph \in {"flag", "run", "move"} => pc[f] \in {"act", "run"},
           ph # "release" => InChain(f),
           pc' = [pc EXCEPT ![f] = ph], frame' = frame,
           effects' = effects, PointFollows(row', effects')
    PROVE  OrderInv'
<1>1. frame' = [frame EXCEPT ![f] = frame[f]]
  BY DEF IInv, TypeInv, FiberInv
<1>2. Follows(pc[f], frame[f], effects)
  BY DEF OrderInv
<1>3. Follows(ph, frame[f], effects')
  BY <1>2 DEF Follows, InChain, ChainPhase
<1> QED
  BY <1>1, <1>3, OneFollows

(* The action at which a fiber stands is numbered from 1. *)
LEMMA StandsAtAction ==
    ASSUME FiberInv, NEW f \in Fiber, pc[f] \in AtAction
    PROVE  frame[f].action \in Nat \ {0}
<1>1. FrameFits(pc[f], frame[f])
  BY DEF FiberInv, AtAction
<1>2. /\ frame[f].column \in Column /\ frame[f].action \in Nat
      /\ frame[f].transition \in DOMAIN Workflow[frame[f].column]
      /\ frame[f].action \in 1 .. Len(Workflow[frame[f].column][frame[f].transition].actions)
  BY <1>1 DEF FrameFits, Frame
<1>3. Len(Workflow[frame[f].column][frame[f].transition].actions) \in Nat
  BY <1>2, WorkflowTyped
<1> QED
  BY <1>2, <1>3

(* An action that took effect is behind the fiber. *)
LEMMA ExecutedFollows ==
    ASSUME IInv, OrderInv, NEW f \in Fiber, pc[f] \in {"act", "run", "move"},
           NEW fr, fr.column = frame[f].column, fr.resume = frame[f].resume,
           fr.transition = frame[f].transition, fr.action = frame[f].action,
           effects' = effects \cup {Position(f)}
    PROVE  Follows("record", fr, effects')
<1>1. /\ frame[f].action \in Nat \ {0}
      /\ frame[f].column # ErrorColumn
      /\ Did(frame[f].column, frame[f].resume.transition, frame[f].resume.completed, effects)
      /\ Did(frame[f].column, frame[f].transition, frame[f].action - 1, effects)
  <2>1. frame[f].action \in Nat \ {0}
    BY StandsAtAction DEF IInv, TypeInv, AtAction
  <2>2. Follows(pc[f], frame[f], effects)
    BY DEF OrderInv
  <2>3. /\ frame[f].column # ErrorColumn
        /\ Did(frame[f].column, frame[f].resume.transition, frame[f].resume.completed, effects)
    BY <2>2 DEF Follows, ChainPhase
  <2>4. Did(frame[f].column, frame[f].transition, frame[f].action - 1, effects)
    BY <2>2 DEF Follows
  <2> QED
    BY <2>1, <2>3, <2>4
<1>2. Did(frame[f].column, frame[f].transition, frame[f].action, effects')
  BY <1>1 DEF Did, Position
<1>3. Did(frame[f].column, frame[f].resume.transition, frame[f].resume.completed, effects')
  BY <1>1 DEF Did
<1> QED
  BY <1>1, <1>2, <1>3 DEF Follows

(* What users and agents do to the card. *)
LEMMA EventsFollow ==
    ASSUME IInv, OrderInv, Event
    PROVE  OrderInv'
<1> USE DEF IInv, TypeInv
<1>1. ASSUME NEW f \in Fiber, NEW p \in Process, NEW c \in Column, UserMove(f, p, c)
      PROVE  OrderInv'
  <2>1. row'.point = NoPoint /\ effects' = effects /\ Enter(f, p, c, "entry")
    BY <1>1 DEF UserMove, Moved, RowInv, Row, EntersColumn
  <2> QED
    BY <2>1, PointMoved, EnterFollows
<1>2. ASSUME NEW f \in Fiber, NEW p \in Process, Reenter(f, p)
      PROVE  OrderInv'
  <2>1. /\ row'.status = row.status /\ row'.point = row.point /\ effects' = effects
        /\ Enter(f, p, row.status, "entry")
    BY <1>2 DEF Reenter, RowInv, Row
  <2> QED
    BY <2>1, PointKept, EnterFollows
<1>3. ASSUME NEW f \in Fiber, NEW p \in Process, DirectRun(f, p)
      PROVE  OrderInv'
  <2> DEFINE fr == NewFrame(p, row.status, "direct", NoPoint, 0)
  <2>1. row.status # ErrorColumn
    BY <1>3, ConstantsAssumption DEF DirectRun, ConstantsAssumption
  <2>2. /\ row'.status = row.status /\ row'.point = row.point /\ effects' = effects
        /\ pc' = [pc EXCEPT ![f] = "direct"] /\ frame' = [frame EXCEPT ![f] = fr]
    BY <1>3 DEF DirectRun, Goto, RowInv, Row, historyVars
  <2>3. Follows("direct", fr, effects')
    BY <2>1, NewFollows
  <2> HIDE DEF fr
  <2> QED
    BY <2>2, <2>3, PointKept, OneFollows
<1>4. ASSUME NEW f \in Fiber, NEW g \in Fiber, NEW c \in Column, AgentMoves(f, g, c)
      PROVE  OrderInv'
  <2>1. /\ row'.point = NoPoint /\ effects' = effects /\ f # g
        /\ EnterBeside(g, f, c, pc[f], frame[f]) /\ pc[f] # "idle"
    BY <1>4 DEF AgentMoves, Moved, RowInv, Row, EntersColumn
  <2>2. Follows(pc[f], frame[f], effects')
    BY <2>1 DEF OrderInv
  <2> QED
    BY <2>1, <2>2, PointMoved, BesideFollows
<1>5. ASSUME UserStop \/ ClearStopped \/ \E p \in Process : EvictStaleLock(p)
      PROVE  OrderInv'
  <2>1. row'.status = row.status /\ row'.point = row.point
    BY <1>5 DEF UserStop, ClearStopped, EvictStaleLock, RowInv, Row
  <2>2. pc' = pc /\ frame' = frame /\ effects' = effects
    BY <1>5 DEF UserStop, ClearStopped, EvictStaleLock, fiberVars, historyVars
  <2> QED
    BY <2>1, <2>2 DEF OrderInv, PointFollows, Follows, Did
<1>6. ASSUME NEW p \in Process, Crash(p)
      PROVE  OrderInv'
  <2>1. row'.status = row.status /\ row'.point = row.point /\ effects' = effects
    BY <1>6 DEF Crash, RowInv, Row, historyVars
  <2>2. \A h \in Fiber : pc'[h] # "idle" => pc'[h] = pc[h] /\ frame'[h] = frame[h]
    BY <1>6 DEF Crash
  <2> QED
    BY <2>1, <2>2 DEF OrderInv, PointFollows, Follows, Did
<1>7. ASSUME NEW f \in Fiber, NEW p \in Process, NEW c \in Column, ReserveRun(f, p, c)
      PROVE  OrderInv'
  <2> DEFINE fr == NewFrame(p, c, "direct", NoPoint, 0)
  <2>1. c # ErrorColumn
    BY <1>7, ConstantsAssumption DEF ReserveRun, ConstantsAssumption
  <2>2. /\ row'.status = row.status /\ row'.point = row.point /\ effects' = effects
        /\ pc' = [pc EXCEPT ![f] = "prepare"] /\ frame' = [frame EXCEPT ![f] = fr]
    BY <1>7 DEF ReserveRun, Goto, historyVars
  <2>3. Follows("prepare", fr, effects')
    BY <2>1, NewFollows
  <2> HIDE DEF fr
  <2> QED
    BY <2>2, <2>3, PointKept, OneFollows
<1> QED
  BY <1>1, <1>2, <1>3, <1>4, <1>5, <1>6, <1>7 DEF Event

(* An explicit execution performs no action, and leaves no resume point. *)
LEMMA AsksFollow ==
    ASSUME IInv, OrderInv, NEW f \in Fiber, AskStep(f)
    PROVE  OrderInv'
<1> USE DEF IInv, TypeInv
<1>1. ASSUME PrepareRow(f) \/ UnstopRow(f) \/ ClaimRow(f)
      PROVE  OrderInv'
  <2>1. PICK ph \in {"unstop", "claim", "direct"} : pc' = [pc EXCEPT ![f] = ph]
    BY <1>1 DEF PrepareRow, UnstopRow, ClaimRow, Goto
  <2>2. /\ pc[f] # "idle" /\ effects' = effects
        /\ frame' = [frame EXCEPT ![f] = frame[f]]
        /\ \/ row'.point = NoPoint
           \/ row'.status = row.status /\ row'.point = row.point
    BY <1>1 DEF PrepareRow, UnstopRow, ClaimRow, RowInv, Row, FiberInv, historyVars
  <2>3. Follows(ph, frame[f], effects')
    BY <2>2 DEF OrderInv, Follows, ChainPhase
  <2>4. PointFollows(row', effects')
    BY <2>2, PointKept, PointMoved
  <2> QED
    BY <2>1, <2>2, <2>3, <2>4, OneFollows
<1>2. ASSUME Decline(f)
      PROVE  OrderInv'
  <2>1. /\ row' = row /\ effects' = effects
        /\ pc' = [pc EXCEPT ![f] = "idle"] /\ frame' = [frame EXCEPT ![f] = NoFrame]
    BY <1>2 DEF Decline, Goto, historyVars
  <2> QED
    BY <2>1, PointKept, OneFollows
<1> QED
  BY <1>1, <1>2 DEF AskStep

(* The ends of runs. *)
LEMMA RunsFollow ==
    ASSUME IInv, OrderInv, NEW f \in Fiber, RunEnds(f)
    PROVE  OrderInv'
<1> USE DEF IInv, TypeInv
<1>1. ASSUME NEW aborted \in BOOLEAN, ReleaseRun(f, aborted)
      PROVE  row'.status = row.status /\ row'.point = row.point
  BY <1>1 DEF ReleaseRun, RowInv, Row
<1>2. ASSUME DirectRunEnds(f) PROVE OrderInv'
  <2>1. /\ row'.status = row.status /\ row'.point = row.point /\ effects' = effects
        /\ pc' = [pc EXCEPT ![f] = "idle"] /\ frame' = [frame EXCEPT ![f] = NoFrame]
    BY <1>1, <1>2 DEF DirectRunEnds, Goto
  <2> QED
    BY <2>1, PointKept, OneFollows
<1>3. ASSUME RunSucceeds(f) PROVE OrderInv'
  <2> DEFINE fr == [frame[f] EXCEPT !.moved = FALSE]
  <2>1. /\ row'.status = row.status /\ row'.point = row.point
        /\ effects' = effects \cup {Position(f)} /\ pc[f] = "run"
        /\ pc' = [pc EXCEPT ![f] = "record"] /\ frame' = [frame EXCEPT ![f] = fr]
    BY <1>1, <1>3 DEF RunSucceeds, Executed, Goto, FiberInv
  <2>2. Follows("record", fr, effects')
    <3>1. frame[f] \in Frame
      BY <2>1 DEF FiberInv, FrameFits
    <3>2. /\ fr.column = frame[f].column /\ fr.resume = frame[f].resume
          /\ fr.transition = frame[f].transition /\ fr.action = frame[f].action
      BY <3>1 DEF Frame
    <3> HIDE DEF fr
    <3> QED
      BY <2>1, <3>2, ExecutedFollows
  <2> HIDE DEF fr
  <2> QED
    BY <2>1, <2>2, PointKept, OneFollows
<1>4. ASSUME RunAborts(f) \/ RunFails(f) PROVE OrderInv'
  <2>1. /\ row'.status = row.status /\ row'.point = row.point /\ effects' = effects
        /\ pc[f] = "run" /\ frame' = frame
        /\ \E ph \in {"flag", "fail"} : pc' = [pc EXCEPT ![f] = ph]
    BY <1>1, <1>4 DEF RunAborts, RunFails, Goto, historyVars
  <2>2. InChain(f)
    BY <2>1 DEF InChain, ChainPhase
  <2> QED
    BY <2>1, <2>2, PointKept, PhaseFollows
<1> QED
  BY <1>2, <1>3, <1>4 DEF RunEnds

(* The recheck, its dispatches, the boot and the healer. *)
LEMMA DispatchesFollow ==
    ASSUME IInv, OrderInv,
           \/ \E f \in Fiber : LockStep(f) \/ \E p \in Process : Recheck(f, p)
           \/ \E p \in Process : ReArm(p) \/ Heal(p)
           \/ TerminalTurns
    PROVE  OrderInv'
<1> USE DEF IInv, TypeInv
<1>1. ASSUME TerminalTurns \/ \E p \in Process : ReArm(p) \/ Heal(p)
      PROVE  OrderInv'
  <2>1. row'.status = row.status /\ row'.point = row.point
    BY <1>1 DEF ReArm, Heal, TerminalTurns, RowInv, Row
  <2>2. pc' = pc /\ frame' = frame /\ effects' = effects
    BY <1>1 DEF ReArm, Heal, TerminalTurns, fiberVars, historyVars
  <2> QED
    BY <2>1, <2>2 DEF OrderInv, PointFollows, Follows, Did
<1>2. ASSUME NEW f \in Fiber, LockDenied(f) \/ Release(f)
      PROVE  OrderInv'
  <2>1. /\ row' = row /\ effects' = effects
        /\ pc' = [pc EXCEPT ![f] = "idle"] /\ frame' = [frame EXCEPT ![f] = NoFrame]
    BY <1>2 DEF LockDenied, Release, Goto, historyVars
  <2> QED
    BY <2>1, PointKept, OneFollows
<1>3. ASSUME NEW f \in Fiber, RetryLocked(f)
      PROVE  OrderInv'
  <2>1. /\ row' = row /\ effects' = effects /\ pc[f] # "idle"
        /\ Enter(f, frame[f].proc, frame[f].column, "retry")
    BY <1>3 DEF RetryLocked, historyVars
  <2>2. frame[f].column # ErrorColumn
    BY <2>1 DEF OrderInv, Follows
  <2> QED
    BY <2>1, <2>2, PointKept, EnterFollows
<1>4. ASSUME NEW f \in Fiber, ConditionLocked(f)
      PROVE  OrderInv'
  <2> DEFINE t == frame[f].transition
             done == frame[f].resume.completed
  <2>1. /\ row' = row /\ InChain(f) /\ pc[f] = "lock" /\ frame[f].kind = "condition"
        /\ Begin(f, t, done)
    BY <1>4 DEF ConditionLocked, InChain
  <2>2. /\ frame[f] \in Frame /\ t \in DOMAIN Workflow[frame[f].column]
        /\ Follows("lock", frame[f], effects)
    BY <2>1 DEF FiberInv, FrameFits, OrderInv
  <2>3. done \in Nat
    BY <2>2 DEF Frame, Point
  <2>4. frame[f].resume.transition = t \/ done = 0
    BY <2>1, <2>2 DEF Follows
  <2> HIDE DEF t, done
  <2>5. /\ done = 0 \/ (frame[f].resume.transition = t /\ done = frame[f].resume.completed)
        /\ frame[f].resume.transition = t => done = frame[f].resume.completed
    BY <2>4 DEF done
  <2> QED
    BY <2>1, <2>2, <2>3, <2>5, BeginFollows
<1>5. ASSUME NEW f \in Fiber, NEW p \in Process, Recheck(f, p)
      PROVE  OrderInv'
  <2>1. /\ row' = row /\ effects' = effects /\ row.status # ErrorColumn
        /\ pc' = [pc EXCEPT ![f] = "lock"]
    BY <1>5 DEF Recheck, Open, Goto, historyVars
  <2>2. \/ frame' = [frame EXCEPT ![f] = NewFrame(p, row.status, "retry", NoPoint, 0)]
        \/ \E t \in Nat, point \in {NoPoint, ResumePoint(row)} :
             /\ frame' = [frame EXCEPT ![f] = NewFrame(p, row.status, "condition", point, t)]
             /\ point = NoPoint \/ point.transition = t
    <3>1. PICK t \in DOMAIN Transitions(row.status) :
            frame' = [frame EXCEPT ![f] =
              IF Transitions(row.status)[t].trigger = "on_enter"
              THEN NewFrame(p, row.status, "retry", NoPoint, 0)
              ELSE NewFrame(p, row.status, "condition",
                     IF ResumePoint(row).transition = t THEN ResumePoint(row) ELSE NoPoint, t)]
      BY <1>5 DEF Recheck
    <3>2. t \in Nat
      BY WorkflowTyped DEF Transitions, RowInv, Row
    <3> QED
      BY <3>1, <3>2
  <2>3. CASE frame' = [frame EXCEPT ![f] = NewFrame(p, row.status, "retry", NoPoint, 0)]
    BY <2>1, <2>3, PointKept, NewFollows, OneFollows
  <2>4. ASSUME NEW t \in Nat, NEW point \in {NoPoint, ResumePoint(row)},
               frame' = [frame EXCEPT ![f] = NewFrame(p, row.status, "condition", point, t)],
               point = NoPoint \/ point.transition = t
        PROVE  OrderInv'
    <3> DEFINE fr == NewFrame(p, row.status, "condition", point, t)
    <3>1. Did(row.status, point.transition, point.completed, effects)
      BY <2>1 DEF OrderInv, PointFollows, ResumePoint, Did, NoPoint
    <3>2. point.transition = t \/ point.completed = 0
      BY <2>4 DEF NoPoint
    <3>3. Follows("lock", fr, effects')
      BY <2>1, <3>1, <3>2 DEF Follows, NewFrame
    <3> HIDE DEF fr
    <3> QED
      BY <2>1, <2>4, <3>3, PointKept, OneFollows DEF fr
  <2> QED
    BY <2>2, <2>3, <2>4
<1> QED
  BY <1>1, <1>2, <1>3, <1>4, <1>5 DEF LockStep

(* The steps of an entry. *)
LEMMA EntriesFollow ==
    ASSUME IInv, OrderInv, NEW f \in Fiber, EntryStep(f)
    PROVE  OrderInv'
<1> USE DEF IInv, TypeInv
<1>1. ASSUME row' = row, effects' = effects
      PROVE  PointFollows(row', effects')
  BY <1>1 DEF OrderInv
<1>2. ASSUME effects' = effects, WriteMarkers(f, frame[f].column, row.point)
      PROVE  PointFollows(row', effects')
  BY <1>2, PointWritten
<1>3. ASSUME Defer(f) PROVE OrderInv'
  <2>1. PointFollows(row', effects') /\ effects' = effects /\ pc[f] = "defer"
    BY <1>2, <1>3 DEF Defer, historyVars
  <2>2. CASE frame[f].kind = "retry"
    <3>1. pc' = [pc EXCEPT ![f] = "release"] /\ frame' = frame
      BY <1>3, <2>2 DEF Defer, Goto
    <3> QED
      BY <2>1, <3>1, PhaseFollows
  <2>3. CASE frame[f].kind # "retry"
    <3>1. pc' = [pc EXCEPT ![f] = "idle"] /\ frame' = [frame EXCEPT ![f] = NoFrame]
      BY <1>3, <2>3 DEF Defer, Goto
    <3> QED
      BY <2>1, <3>1, OneFollows
  <2> QED
    BY <2>2, <2>3
<1>4. ASSUME Turned(f) \/ NoTransitionLeft(f) \/ Rearm(f) PROVE OrderInv'
  <2>1. pc[f] # "idle" /\ Leave(f, FALSE) /\ effects' = effects
    BY <1>4 DEF Turned, NoTransitionLeft, Rearm, historyVars
  <2>2. PointFollows(row', effects')
    BY <1>1, <1>2, <1>4, <2>1 DEF Turned, NoTransitionLeft, Rearm
  <2> QED
    BY <2>1, <2>2, LeaveFollows
<1>5. ASSUME Unreadable(f) PROVE OrderInv'
  <2>1. /\ row' = row /\ effects' = effects /\ frame' = frame
        /\ pc[f] = "read" /\ pc' = [pc EXCEPT ![f] = "rearm"]
    BY <1>5 DEF Unreadable, Goto, historyVars
  <2>2. InChain(f)
    BY <2>1 DEF InChain, ChainPhase
  <2> QED
    BY <1>1, <2>1, <2>2, PhaseFollows
<1>6. ASSUME Read(f) PROVE OrderInv'
  <2> DEFINE point == ResumePoint(row)
             read == [frame[f] EXCEPT !.resume = point]
             fr == [read EXCEPT !.transition = 1]
  <2>1. /\ row' = row /\ effects' = effects /\ pc[f] = "read"
        /\ row.status = frame[f].column
        /\ pc' = [pc EXCEPT ![f] = "next"] /\ frame' = [frame EXCEPT ![f] = fr]
    BY <1>6 DEF Read, Goto, historyVars, FiberInv
  <2>2. frame[f] \in Frame /\ frame[f].column # ErrorColumn
    BY <2>1 DEF FiberInv, FrameFits, OrderInv, Follows
  <2>3. Did(row.status, point.transition, point.completed, effects)
    BY <2>1, <2>2 DEF OrderInv, PointFollows, ResumePoint, Did, NoPoint
  <2> HIDE DEF point
  <2>4. fr.column = frame[f].column /\ fr.resume = point
    BY <2>2 DEF Frame
  <2> HIDE DEF fr, read
  <2>5. Follows("next", fr, effects')
    BY <2>1, <2>2, <2>3, <2>4 DEF Follows
  <2> QED
    BY <1>1, <2>1, <2>5, OneFollows
<1>7. ASSUME NextTransition(f) PROVE OrderInv'
  <2>1. PICK t \in DOMAIN Workflow[frame[f].column] :
          Begin(f, t, IF t = frame[f].resume.transition
                      THEN frame[f].resume.completed ELSE 0)
    BY <1>7 DEF NextTransition, Transitions
  <2> DEFINE done == IF t = frame[f].resume.transition THEN frame[f].resume.completed ELSE 0
  <2>2. InChain(f) /\ row' = row /\ frame[f] \in Frame
    BY <1>7 DEF NextTransition, InChain, ChainPhase, FiberInv, FrameFits
  <2>3. /\ done \in Nat
        /\ done = 0 \/ (frame[f].resume.transition = t /\ done = frame[f].resume.completed)
        /\ frame[f].resume.transition = t => done = frame[f].resume.completed
    BY <2>2 DEF Frame, Point
  <2>4. Begin(f, t, done)
    BY <2>1
  <2> HIDE DEF done
  <2> QED
    BY <2>2, <2>3, <2>4, BeginFollows
<1>8. ASSUME Continue(f) PROVE OrderInv'
  <2>1. row' = row /\ effects' = effects
    BY <1>8 DEF Continue, historyVars
  <2>2. CASE \/ row.status \in {frame[f].column, ErrorColumn}
             \/ processing[frame[f].proc] # NoColumn
    <3>1. pc' = [pc EXCEPT ![f] = "idle"] /\ frame' = [frame EXCEPT ![f] = NoFrame]
      BY <1>8, <2>2 DEF Continue, Goto
    <3> QED
      BY <1>1, <2>1, <3>1, OneFollows
  <2>3. CASE ~(\/ row.status \in {frame[f].column, ErrorColumn}
               \/ processing[frame[f].proc] # NoColumn)
    <3>1. Enter(f, frame[f].proc, row.status, "entry")
      BY <1>8, <2>3 DEF Continue
    <3> QED
      BY <1>1, <2>1, <3>1, EnterFollows
  <2> QED
    BY <2>2, <2>3
<1> QED
  BY <1>3, <1>4, <1>5, <1>6, <1>7, <1>8 DEF EntryStep

(* The chain begins anew: what its earlier rounds did counts no more, for    *)
(* the row and for the one fiber that could remember it.                   *)
LEMMA MarkFollows ==
    ASSUME OneProcess, IInv, OrderInv, NEW f \in Fiber, Mark(f)
    PROVE  OrderInv'
<1> USE DEF IInv, TypeInv
<1> DEFINE c == frame[f].column
           t == frame[f].transition
<1>1. /\ pc[f] = "mark" /\ frame' = frame /\ pc' = [pc EXCEPT ![f] = "act"]
      /\ effects' = {e \in effects : <<e[1], e[2]>> # <<c, t>>}
      /\ WriteMarkers(f, row.pending, [transition |-> t, completed |-> 0])
  BY DEF Mark, Goto, memoryVars
<1>2. frame[f] \in Frame /\ Follows("mark", frame[f], effects) /\ InChain(f)
  BY <1>1 DEF FiberInv, FrameFits, OrderInv, InChain, ChainPhase
<1>3. ASSUME NEW d, NEW u, NEW k, Did(d, u, k, effects), <<d, u>> # <<c, t>>
      PROVE  Did(d, u, k, effects')
  <2> SUFFICES ASSUME NEW j \in 1 .. k PROVE <<d, u, j>> \in effects'
    BY DEF Did
  <2>1. <<d, u, j>> \in effects
    BY <1>3 DEF Did
  <2> QED
    BY <1>1, <1>3, <2>1
<1>4. \A d, u : Did(d, u, 0, effects')
  BY DEF Did
<1>5. PointFollows(row', effects')
  <2>1. CASE row.status = c
    <3>1. row'.status = c /\ row'.point = [transition |-> t, completed |-> 0]
      BY <1>1, <2>1 DEF WriteMarkers, RowInv, Row
    <3> QED
      BY <1>4, <3>1 DEF PointFollows
  <2>2. CASE row.status # c
    <3>1. row' = row
      BY <1>1, <2>2 DEF WriteMarkers
    <3>2. row.status # ErrorColumn =>
            Did(row.status, row.point.transition, row.point.completed, effects)
      BY DEF OrderInv, PointFollows
    <3> HIDE DEF t, c
    <3>3. \A u : <<row.status, u>> # <<c, t>>
      BY <2>2
    <3>4. row.status # ErrorColumn =>
            Did(row.status, row.point.transition, row.point.completed, effects')
      BY <1>3, <3>2, <3>3
    <3> QED
      BY <3>1, <3>4 DEF PointFollows
  <2> QED
    BY <2>1, <2>2
<1>6. Follows("act", frame[f], effects')
  <2>1. /\ c # ErrorColumn /\ frame[f].action = 1
        /\ Did(c, frame[f].resume.transition, frame[f].resume.completed, effects)
        /\ frame[f].resume.transition = t => frame[f].resume.completed = 0
    BY <1>2 DEF Follows, ChainPhase
  <2>2. Did(c, frame[f].resume.transition, frame[f].resume.completed, effects')
    BY <1>3, <1>4, <2>1
  <2>3. Did(c, t, frame[f].action - 1, effects')
    BY <1>4, <2>1
  <2> QED
    BY <2>1, <2>2, <2>3 DEF Follows
<1>7. ASSUME NEW h \in Fiber, h # f, pc[h] # "idle"
      PROVE  Follows(pc[h], frame[h], effects')
  <2>1. frame[h].proc = frame[f].proc
    BY <1>2, <1>7 DEF OneProcess, FiberInv, FrameFits, Frame
  <2>2. ~InChain(h)
    BY <1>2, <1>7, <2>1 DEF ChainInv
  <2>3. Follows(pc[h], frame[h], effects)
    BY <1>7 DEF OrderInv
  <2> QED
    BY <2>2, <2>3 DEF Follows, InChain, ChainPhase
<1>8. pc \in [Fiber -> Phase]
  BY DEF FiberInv
<1> HIDE DEF c, t
<1>9. ASSUME NEW h \in Fiber, pc'[h] # "idle"
      PROVE  Follows(pc'[h], frame'[h], effects')
  <2>1. CASE h = f
    <3>1. pc'[h] = "act" /\ frame'[h] = frame[f]
      BY <1>1, <1>8, <2>1
    <3> QED
      BY <1>6, <3>1
  <2>2. CASE h # f
    <3>1. pc'[h] = pc[h] /\ frame'[h] = frame[h]
      BY <1>1, <1>8, <2>2
    <3> QED
      BY <1>7, <1>9, <2>2, <3>1
  <2> QED
    BY <2>1, <2>2
<1> QED
  BY <1>5, <1>9 DEF OrderInv, PointFollows, Follows, Did

(* The actions of a chain. *)
LEMMA ActionsFollow ==
    ASSUME IInv, OrderInv, NEW f \in Fiber, ActionStep(f)
    PROVE  OrderInv'
<1> USE DEF IInv, TypeInv
<1>1. ASSUME NEW moved \in BOOLEAN, pc[f] \in {"act", "move"}
      PROVE  /\ Executed(f, moved) =>
                  Follows("record", [frame[f] EXCEPT !.moved = moved], effects')
             /\ effects' = effects \cup {Position(f)} =>
                  Follows("record", [frame[f] EXCEPT !.moved = moved], effects')
  <2> DEFINE fr == [frame[f] EXCEPT !.moved = moved]
  <2>1. frame[f] \in Frame
    BY <1>1 DEF FiberInv, FrameFits
  <2>2. /\ fr.column = frame[f].column /\ fr.resume = frame[f].resume
        /\ fr.transition = frame[f].transition /\ fr.action = frame[f].action
    BY <2>1 DEF Frame
  <2> HIDE DEF fr
  <2>3. effects' = effects \cup {Position(f)} => Follows("record", fr, effects')
    BY <1>1, <2>2, ExecutedFollows
  <2>4. Executed(f, moved) => effects' = effects \cup {Position(f)}
    BY DEF Executed
  <2> QED
    BY <2>3, <2>4 DEF fr
<1>2. ASSUME Assign(f) \/ NoMove(f) \/ MovedMeanwhile(f)
      PROVE  OrderInv'
  <2>1. PICK moved \in BOOLEAN : Executed(f, moved)
    BY <1>2 DEF Assign, NoMove, MovedMeanwhile
  <2>2. row' = row /\ pc[f] \in {"act", "move"}
    BY <1>2 DEF Assign, NoMove, MovedMeanwhile
  <2> DEFINE fr == [frame[f] EXCEPT !.moved = moved]
  <2>3. /\ pc' = [pc EXCEPT ![f] = "record"] /\ frame' = [frame EXCEPT ![f] = fr]
        /\ effects \subseteq effects'
    BY <2>1 DEF Executed, Goto, FiberInv
  <2>4. Follows("record", fr, effects')
    BY <1>1, <2>1, <2>2
  <2>5. PointFollows(row', effects')
    BY <2>2, <2>3, PointKept
  <2> HIDE DEF fr
  <2> QED
    BY <2>3, <2>4, <2>5, OneFollows
<1>3. ASSUME Unable(f) \/ StartRun(f) \/ DecideMove(f)
      PROVE  OrderInv'
  <2>1. /\ row'.status = row.status /\ row'.point = row.point /\ effects' = effects
        /\ pc[f] = "act" /\ frame' = frame
        /\ \E ph \in {"flag", "run", "move"} : pc' = [pc EXCEPT ![f] = ph]
    BY <1>3 DEF Unable, StartRun, DecideMove, Goto, RowInv, Row, historyVars
  <2>2. InChain(f)
    BY <2>1 DEF InChain, ChainPhase
  <2> QED
    BY <2>1, <2>2, PointKept, PhaseFollows
<1>4. ASSUME NEW g \in Fiber, MoveCard(f, g)
      PROVE  OrderInv'
  <2> DEFINE to == Step(f).to
             fr == [frame[f] EXCEPT !.moved = TRUE]
  <2>1. /\ row'.point = NoPoint /\ effects' = effects \cup {Position(f)}
        /\ pc[f] = "move" /\ f # g /\ EnterBeside(g, f, to, "record", fr)
    BY <1>4 DEF MoveCard, Moved, RowInv, Row
  <2>2. Follows("record", fr, effects')
    BY <1>1, <2>1
  <2> HIDE DEF fr, to
  <2> QED
    BY <2>1, <2>2, PointMoved, BesideFollows
<1> QED
  BY <1>2, <1>3, <1>4 DEF ActionStep

(* The other steps of a chain. *)
LEMMA ChainsFollow ==
    ASSUME OneProcess, IInv, OrderInv, NEW f \in Fiber, ChainStep(f)
    PROVE  OrderInv'
<1> USE DEF IInv, TypeInv
<1>1. ASSUME pc[f] \in ChainPhase
      PROVE  /\ frame[f] \in Frame /\ frame[f].column # ErrorColumn
             /\ Follows(pc[f], frame[f], effects)
             /\ Did(frame[f].column, frame[f].resume.transition, frame[f].resume.completed, effects)
             /\ frame' = [frame EXCEPT ![f] = frame[f]] <=> frame' = frame
  BY <1>1 DEF FiberInv, FrameFits, OrderInv, Follows, ChainPhase
<1>2. ASSUME Record(f) \/ Flag(f)
      PROVE  OrderInv'
  <2> DEFINE k == IF pc[f] = "record" THEN frame[f].action ELSE frame[f].action - 1
             point == [transition |-> frame[f].transition, completed |-> k]
             ph == IF pc[f] = "record" THEN "sync" ELSE "skipped"
  <2>1. /\ pc[f] \in {"record", "flag"} /\ frame' = frame /\ effects' = effects
        /\ \E pending : WriteMarkers(f, pending, point)
        /\ pc' = [pc EXCEPT ![f] = ph]
    BY <1>2 DEF Record, Flag, Goto, historyVars
  <2>2. pc[f] \in ChainPhase
    BY <2>1 DEF ChainPhase
  <2>3. Did(frame[f].column, frame[f].transition, k, effects)
    BY <1>1, <2>1, <2>2 DEF Follows
  <2>4. point.transition = frame[f].transition /\ point.completed = k
    OBVIOUS
  <2>5. Follows(ph, frame[f], effects')
    BY <1>1, <2>1, <2>2, <2>3 DEF Follows
  <2> HIDE DEF point, k, ph
  <2>6. PointFollows(row', effects')
    BY <2>1, <2>3, <2>4, PointWritten
  <2> QED
    BY <1>1, <2>1, <2>2, <2>5, <2>6, OneFollows
<1>3. ASSUME Sync(f)
      PROVE  OrderInv'
  <2> DEFINE ends == \/ row.status # frame[f].column \/ frame[f].moved
                     \/ frame[f].action = Len(Chain(f))
             i == IF ends THEN frame[f].action ELSE frame[f].action + 1
             ph == IF ends THEN "clear" ELSE "act"
             there == [frame[f] EXCEPT !.work = row.status]
             fr == [there EXCEPT !.action = i]
  <2>1. pc[f] = "sync" /\ pc[f] \in ChainPhase /\ row' = row /\ effects' = effects
    BY <1>3 DEF Sync, historyVars, ChainPhase
  <2>2. pc' = [pc EXCEPT ![f] = ph] /\ frame' = [frame EXCEPT ![f] = fr]
    BY <1>3 DEF Sync, Goto, FiberInv
  <2>3. /\ ph \in {"clear", "act"} /\ (ph = "act" => i = frame[f].action + 1)
        /\ ph = "clear" /\ row.status = frame[f].column /\ ~frame[f].moved =>
             frame[f].action = Len(Chain(f))
    OBVIOUS
  <2> HIDE DEF ends, i, ph
  <2>4. /\ there \in Frame /\ there.column = frame[f].column /\ there.resume = frame[f].resume
        /\ there.transition = frame[f].transition
        /\ there.work = row.status /\ there.moved = frame[f].moved
    BY <1>1, <2>1 DEF Frame, RowInv, Row
  <2> HIDE DEF there
  <2>5. /\ fr.column = frame[f].column /\ fr.resume = frame[f].resume
        /\ fr.transition = frame[f].transition /\ fr.action = i
        /\ fr.work = row.status /\ fr.moved = frame[f].moved
    BY <1>1, <2>1, <2>4 DEF Frame
  <2> HIDE DEF fr
  <2>6. Did(frame[f].column, frame[f].transition, frame[f].action, effects)
    BY <1>1, <2>1 DEF Follows
  <2>7. frame[f].action \in Nat
    BY <1>1, <2>1 DEF Frame
  <2>8. ph = "act" => Did(fr.column, fr.transition, fr.action - 1, effects)
    BY <2>3, <2>5, <2>6, <2>7 DEF Did
  <2>9. ph = "clear" /\ fr.work = fr.column /\ ~fr.moved =>
          Did(fr.column, fr.transition, Len(Actions(fr.column, fr.transition)), effects)
    BY <2>3, <2>5, <2>6 DEF Chain
  <2>10. Follows(ph, fr, effects')
    BY <1>1, <2>1, <2>3, <2>5, <2>8, <2>9 DEF Follows
  <2> QED
    BY <2>1, <2>2, <2>10, PointKept, OneFollows
<1>4. ASSUME Skipped(f)
      PROVE  OrderInv'
  <2>1. /\ pc[f] # "idle" /\ row' = row /\ effects' = effects
        /\ \E goOn \in BOOLEAN : Leave(f, goOn)
    BY <1>4 DEF Skipped, historyVars
  <2> QED
    BY <2>1, PointKept, LeaveFollows
<1>5. ASSUME FailCard(f)
      PROVE  OrderInv'
  <2> DEFINE fr == [frame[f] EXCEPT !.work = ErrorColumn]
  <2>1. /\ pc[f] = "fail" /\ pc[f] \in ChainPhase /\ effects' = effects
        /\ row'.status = ErrorColumn
        /\ pc' = [pc EXCEPT ![f] = "clear"] /\ frame' = [frame EXCEPT ![f] = fr]
    BY <1>5 DEF FailCard, Goto, FiberInv, RowInv, Row, ChainPhase
  <2>2. fr.column = frame[f].column /\ fr.resume = frame[f].resume /\ fr.work = ErrorColumn
    BY <1>1, <2>1 DEF Frame
  <2> HIDE DEF fr
  <2>3. Follows("clear", fr, effects')
    BY <1>1, <2>1, <2>2 DEF Follows
  <2> QED
    BY <2>1, <2>3, PointMoved, OneFollows
<1>6. ASSUME ClearMarkers(f)
      PROVE  /\ PointFollows(row', effects') /\ effects' = effects
             /\ pc[f] = "clear" /\ pc[f] \in ChainPhase
  <2>1. WriteMarkers(f, NoColumn, NoPoint) /\ effects' = effects /\ pc[f] = "clear"
    BY <1>6 DEF ClearMarkers
  <2>2. Did(frame[f].column, NoPoint.transition, NoPoint.completed, effects')
    BY DEF Did, NoPoint
  <2> QED
    BY <2>1, <2>2, PointWritten DEF ChainPhase
<1>7. ASSUME ChainEnds(f)
      PROVE  OrderInv'
  <2>1. pc[f] # "idle" /\ Leave(f, TRUE) /\ effects' = effects /\ PointFollows(row', effects')
    BY <1>6, <1>7 DEF ChainEnds
  <2> QED
    BY <2>1, LeaveFollows
<1>8. ASSUME TransitionEnds(f)
      PROVE  OrderInv'
  <2> DEFINE fr == [frame[f] EXCEPT !.transition = frame[f].transition + 1]
  <2>1. /\ PointFollows(row', effects') /\ effects' = effects
        /\ pc[f] = "clear" /\ pc[f] \in ChainPhase
        /\ pc' = [pc EXCEPT ![f] = "next"] /\ frame' = [frame EXCEPT ![f] = fr]
    BY <1>6, <1>8 DEF TransitionEnds, Goto, FiberInv
  <2>2. fr.column = frame[f].column /\ fr.resume = frame[f].resume
    BY <1>1, <2>1 DEF Frame
  <2> HIDE DEF fr
  <2>3. Follows("next", fr, effects')
    BY <1>1, <2>1, <2>2 DEF Follows
  <2> QED
    BY <2>1, <2>3, OneFollows
<1> QED
  BY <1>2, <1>3, <1>4, <1>5, <1>7, <1>8, MarkFollows, ActionsFollow DEF ChainStep

(* A new card has done nothing, and no marker says it has. *)
LEMMA InitFollows == Init => OrderInv
BY DEF Init, OrderInv, PointFollows, Did, NoPoint

(* Every step. *)
LEMMA NextFollows ==
    ASSUME OneProcess, IInv, OrderInv, [Next]_vars
    PROVE  OrderInv'
<1>1. CASE UNCHANGED vars
  BY <1>1 DEF vars, fiberVars, historyVars, OrderInv, PointFollows, Follows, Did
<1>2. CASE Routine
  BY <1>2, EntriesFollow, ChainsFollow, AsksFollow, RunsFollow, DispatchesFollow DEF Routine
<1>3. CASE Event
  BY <1>3, EventsFollow
<1> QED
  BY <1>1, <1>2, <1>3 DEF Next

(* While one process serves the board, no action runs before the ones ahead *)
(* of it in its chain did, whatever deferrals, aborted runs, moves, rechecks *)
(* and restarts came in between: the point a chain resumes at - in the row, *)
(* or in the memory of the fiber that read it there - never is beyond the   *)
(* actions that took effect.                                               *)
THEOREM NothingIsSkipped == OneProcess => (Spec => NothingSkipped)
<1> SUFFICES ASSUME OneProcess PROVE Spec => NothingSkipped
  OBVIOUS
<1>1. Init => IInv /\ OrderInv
  BY InitInv, InitFollows
<1>2. IInv /\ OrderInv /\ [Next]_vars => IInv' /\ OrderInv'
  BY NextInv, NextFollows
<1>3. IInv /\ OrderInv =>
        \A c \in Column : \A t \in DOMAIN Workflow[c] : \A i \in DOMAIN Actions(c, t) :
          Performs(<<c, t, i>>) => \A j \in 1 .. i - 1 : <<c, t, j>> \in effects
  BY DEF OrderInv, Performs, Follows, Did, Position
<1> QED
  BY <1>1, <1>2, <1>3, PTL DEF Spec, NothingSkipped

(* While one process serves the board, a chain that ends in its column,     *)
(* with no action that moved its card, has run all its actions: when it     *)
(* clears its markers, nothing is left that a deferral, an aborted run or a *)
(* restart kept from running.                                              *)
THEOREM NothingIsLeftOut == OneProcess => (Spec => []NothingLeftOut)
<1> SUFFICES ASSUME OneProcess PROVE Spec => []NothingLeftOut
  OBVIOUS
<1>1. Init => IInv /\ OrderInv
  BY InitInv, InitFollows
<1>2. IInv /\ OrderInv /\ [Next]_vars => IInv' /\ OrderInv'
  BY NextInv, NextFollows
<1>3. OrderInv => NothingLeftOut
  BY DEF OrderInv, NothingLeftOut, Follows, Did, Chain
<1> QED
  BY <1>1, <1>2, <1>3, PTL DEF Spec

-----------------------------------------------------------------------------
(* No action is repeated.                                                  *)

IsCondition(c, t) == t \in DOMAIN Workflow[c] /\ Workflow[c][t].trigger = "condition"

(* Those of the recorded actions that belong to an on_enter chain. *)
Entered(R) == {e \in R : Transitions(e[1])[e[2]].trigger = "on_enter"}

(* They lie in the transitions before t, or among the first k actions of t. *)
Behind(t, k, R) == \A e \in Entered(R) : e[2] < t \/ (e[2] = t /\ e[3] <= k)

(* A fiber in the card's column has them behind it, or stands at a          *)
(* condition - or will, which no other transition comes before.  ...        *)
Beyond(phase, fr, R) ==
    /\ phase = "next" =>
         \/ Behind(fr.resume.transition, fr.resume.completed, R)
         \/ /\ IsCondition(fr.column, fr.resume.transition)
            /\ fr.transition <= fr.resume.transition
    /\ ~IsCondition(fr.column, fr.transition) =>
         /\ phase = "mark" => Behind(fr.transition, 0, R)
         /\ phase \in {"act", "run", "move", "flag", "record"} =>
              Behind(fr.transition, fr.action - 1, R)
         /\ phase = "sync" => Behind(fr.transition, fr.action, R)

WorkPhase == {"mark", "act", "run", "move", "record", "sync", "flag", "fail", "clear"}

Busy(f) == pc[f] \in WorkPhase /\ frame[f].column = row.status

(* A fiber that will not read the row's resume point. *)
Waits(phase, fr) == phase = "lock" /\ fr.kind = "condition"
Direct == {"prepare", "unstop", "claim", "direct"}
Quiet(phase, fr) == phase \in Direct \cup {"idle"} \/ Waits(phase, fr)

PointBehind(r, R) ==
    IsCondition(r.status, r.point.transition) \/ Behind(r.point.transition, r.point.completed, R)

(* ... and so has the row's resume point; which the next chain reads, since *)
(* the row is armed unless a chain is at work - or died, with its process.  *)
RecordInv ==
    /\ recorded \subseteq {row.status} \X Nat \X Nat
    /\ PointBehind(row, recorded)
    /\ \A f \in Fiber : pc[f] # "idle" =>
         /\ frame[f].column = row.status => Beyond(pc[f], frame[f], recorded)
         /\ Waits(pc[f], frame[f]) =>
              /\ IsCondition(frame[f].column, frame[f].transition)
              /\ frame[f].column = row.status \/ recorded = {}
    /\ \/ recorded = {}
       \/ row.pending = row.status
       \/ \E f \in Fiber : Busy(f)
       \/ \A f \in Fiber : Quiet(pc[f], frame[f])

(* Of all fibers, one at most is at work. *)
LEMMA OneAtWork ==
    ASSUME OneProcess, IInv, NEW f \in Fiber, NEW g \in Fiber, InChain(f), InChain(g)
    PROVE  f = g
<1>1. frame[f].proc \in Process /\ frame[g].proc \in Process
  BY DEF IInv, TypeInv, FiberInv, FrameFits, Frame, InChain, ChainPhase
<1> QED
  BY <1>1 DEF OneProcess, IInv, ChainInv

(* The trigger of a transition is one of two. *)
LEMMA OtherwiseCondition ==
    ASSUME NEW c \in Column, NEW t \in DOMAIN Workflow[c], Workflow[c][t].trigger # "on_enter"
    PROVE  IsCondition(c, t)
<1>1. Workflow[c] \in Seq(Transition)
  BY WorkflowTyped
<1>2. Workflow[c][t] \in Transition
  BY <1>1
<1> QED
  BY <1>2 DEF IsCondition, Transition

(* Where nothing is recorded, everything has it behind. *)
LEMMA NothingBehind == \A t, k : Behind(t, k, {})
BY DEF Behind, Entered

(* ... and so has every fiber. *)
LEMMA NothingBeyond ==
    ASSUME NEW phase, NEW fr
    PROVE  Beyond(phase, fr, {})
BY NothingBehind DEF Beyond

(* A card enters a column, or the chain of its column is over. *)
LEMMA Forgotten ==
    ASSUME recorded' = {},
           \A f \in Fiber : pc'[f] # "idle" /\ Waits(pc'[f], frame'[f]) =>
             IsCondition(frame'[f].column, frame'[f].transition)
    PROVE  RecordInv'
<1>1. PointBehind(row', recorded')
  BY NothingBehind DEF PointBehind
<1>2. \A f \in Fiber : Beyond(pc'[f], frame'[f], recorded')
  BY NothingBeyond
<1> QED
  BY <1>1, <1>2 DEF RecordInv

(* One fiber goes on, and nothing new is recorded: the row gets armed, the  *)
(* fiber is at work, or it was not and the row stays as it is.             *)
LEMMA OneKeeps ==
    ASSUME IInv, RecordInv, NEW f \in Fiber, NEW ph, NEW fr,
           pc' = [pc EXCEPT ![f] = ph], frame' = [frame EXCEPT ![f] = fr],
           recorded' = recorded, row'.status = row.status,
           PointBehind(row', recorded),
           ph # "idle" =>
             /\ fr.column = row.status => Beyond(ph, fr, recorded)
             /\ Waits(ph, fr) => /\ IsCondition(fr.column, fr.transition)
                                 /\ fr.column = row.status \/ recorded = {},
           \/ recorded = {}
           \/ row'.pending = row.status
           \/ ph \in WorkPhase /\ fr.column = row.status
           \/ /\ row'.pending = row.pending
              /\ ~Busy(f) /\ (Quiet(pc[f], frame[f]) => Quiet(ph, fr))
    PROVE  RecordInv'
<1>1. pc \in [Fiber -> Phase] /\ DOMAIN frame = Fiber
  BY DEF IInv, TypeInv, FiberInv
<1>2. pc'[f] = ph /\ frame'[f] = fr
  BY <1>1
<1>3. \A h \in Fiber \ {f} : pc'[h] = pc[h] /\ frame'[h] = frame[h]
  BY <1>1
<1>4. recorded' \subseteq {row'.status} \X Nat \X Nat
  BY DEF RecordInv
<1>5. ASSUME NEW h \in Fiber, pc'[h] # "idle"
      PROVE  /\ frame'[h].column = row'.status => Beyond(pc'[h], frame'[h], recorded')
             /\ Waits(pc'[h], frame'[h]) =>
                  /\ IsCondition(frame'[h].column, frame'[h].transition)
                  /\ frame'[h].column = row'.status \/ recorded' = {}
  <2>1. CASE h = f
    BY <1>2, <1>5, <2>1
  <2>2. CASE h # f
    <3>1. pc'[h] = pc[h] /\ frame'[h] = frame[h]
      BY <1>3, <2>2
    <3> QED
      BY <1>5, <3>1 DEF RecordInv
  <2> QED
    BY <2>1, <2>2
<1>6. \/ recorded' = {}
      \/ row'.pending = row'.status
      \/ \E h \in Fiber : Busy(h)'
      \/ \A h \in Fiber : Quiet(pc'[h], frame'[h])
  <2>1. CASE recorded = {} \/ row'.pending = row.status
    BY <2>1
  <2>2. CASE ph \in WorkPhase /\ fr.column = row.status
    BY <1>2, <2>2 DEF Busy
  <2>3. CASE /\ row'.pending = row.pending
             /\ ~Busy(f) /\ (Quiet(pc[f], frame[f]) => Quiet(ph, fr))
    <3>1. \A h \in Fiber : Busy(h) => Busy(h)'
      BY <1>3, <2>3 DEF Busy
    <3>2. (\A h \in Fiber : Quiet(pc[h], frame[h])) => \A h \in Fiber : Quiet(pc'[h], frame'[h])
      BY <1>2, <1>3, <2>3
    <3> QED
      BY <2>3, <3>1, <3>2 DEF RecordInv
  <2> QED
    BY <2>1, <2>2, <2>3
<1> QED
  BY <1>4, <1>5, <1>6 DEF RecordInv

(* A fiber that starts, or ends, knows nothing of what is recorded. *)
LEMMA NewIsBeyond ==
    ASSUME NEW fr, NEW R,
           NEW phase \in Direct \cup {"read", "defer", "release", "continue", "idle",
                                     "rearm", "skipped", "fail", "clear"}
    PROVE  Beyond(phase, fr, R) /\ ~Waits(phase, fr)
BY DEF Beyond, Waits, Direct

(* A row that keeps its point keeps what is behind it. *)
LEMMA PointStays ==
    ASSUME RecordInv, row'.status = row.status, row'.point = row.point
    PROVE  PointBehind(row', recorded)
BY DEF RecordInv, PointBehind

(* A fiber that is not at work goes on to a phase in which it knows nothing. *)
LEMMA StartKeeps ==
    ASSUME IInv, RecordInv, NEW f \in Fiber, pc[f] \notin WorkPhase,
           NEW ph \in Direct \cup {"read", "defer", "release", "continue", "idle",
                                  "rearm", "skipped", "fail", "clear"}, NEW fr,
           Quiet(pc[f], frame[f]) => ph \in Direct \cup {"idle"},
           pc' = [pc EXCEPT ![f] = ph], frame' = [frame EXCEPT ![f] = fr],
           recorded' = recorded, row'.status = row.status, row'.point = row.point,
           row'.pending = row.pending
    PROVE  RecordInv'
<1>1. ~Busy(f) /\ (Quiet(pc[f], frame[f]) => Quiet(ph, fr))
  BY DEF Busy, Quiet, Direct
<1>2. PointBehind(row', recorded)
  BY PointStays
<1>3. Beyond(ph, fr, recorded) /\ ~Waits(ph, fr)
  BY NewIsBeyond
<1> QED
  BY <1>1, <1>2, <1>3, OneKeeps

(* A fiber at work goes on with it. *)
LEMMA WorkKeeps ==
    ASSUME IInv, RecordInv, NEW f \in Fiber, pc[f] \in WorkPhase,
           NEW ph \in WorkPhase, NEW fr, fr.column = frame[f].column,
           frame[f].column = row.status => Beyond(ph, fr, recorded),
           pc' = [pc EXCEPT ![f] = ph], frame' = [frame EXCEPT ![f] = fr],
           recorded' = recorded, row'.status = row.status, row'.pending = row.pending,
           row'.point = row.point \/ PointBehind(row', recorded)
    PROVE  RecordInv'
<1>1. ~Quiet(pc[f], frame[f]) /\ ~Waits(ph, fr)
  BY DEF Quiet, Direct, Waits, WorkPhase
<1>2. PointBehind(row', recorded)
  BY PointStays
<1>3. CASE frame[f].column = row.status
  BY <1>1, <1>2, <1>3, OneKeeps
<1>4. CASE frame[f].column # row.status
  <2>1. ~Busy(f)
    BY <1>4 DEF Busy
  <2> QED
    BY <1>1, <1>2, <1>4, <2>1, OneKeeps
<1> QED
  BY <1>3, <1>4

(* A transition begins behind what is recorded, or it is a condition. *)
LEMMA BeginKeeps ==
    ASSUME IInv, RecordInv, NEW f \in Fiber, InChain(f), pc[f] \in {"lock", "next"},
           NEW t \in DOMAIN Workflow[frame[f].column], NEW done \in Nat,
           Begin(f, t, done), row' = row,
           frame[f].column = row.status => IsCondition(row.status, t) \/ Behind(t, done, recorded)
    PROVE  RecordInv'
<1> DEFINE n == Len(Actions(frame[f].column, t))
           ph == IF done = 0 /\ n > 0 THEN "mark" ELSE IF done < n THEN "act" ELSE "clear"
           fr == [frame[f] EXCEPT !.transition = t, !.action = done + 1, !.moved = FALSE]
<1>1. frame[f] \in Frame /\ frame[f].column \in Column
  BY DEF InChain, IInv, TypeInv, FiberInv, FrameFits, Frame, ChainPhase
<1>2. t \in Nat /\ n \in Nat
  BY <1>1, WorkflowTyped DEF Actions
<1>3. /\ pc' = [pc EXCEPT ![f] = ph] /\ frame' = [frame EXCEPT ![f] = fr]
      /\ recorded' = recorded
  BY DEF Begin, Goto, IInv, TypeInv, FiberInv
<1>4. fr.column = frame[f].column /\ fr.transition = t /\ fr.action - 1 = done
  BY <1>1 DEF Frame
<1>5. /\ ph \in {"mark", "act", "clear"}
      /\ ph = "mark" => done = 0
  BY <1>2
<1> HIDE DEF ph, fr
<1>6. fr.column = row.status => Beyond(ph, fr, recorded)
  BY <1>4, <1>5 DEF Beyond
<1>7. ph \in WorkPhase /\ ~Waits(ph, fr) /\ ~Busy(f)
  BY <1>5 DEF Busy, Waits, WorkPhase
<1>8. PointBehind(row', recorded)
  BY PointStays
<1>9. CASE frame[f].column = row.status
  BY <1>3, <1>4, <1>6, <1>7, <1>8, <1>9, OneKeeps
<1>10. CASE frame[f].column # row.status
  <2>1. Waits(pc[f], frame[f]) => recorded = {}
    BY <1>10 DEF RecordInv, Waits
  <2>2. Quiet(pc[f], frame[f]) => Waits(pc[f], frame[f])
    BY DEF Quiet, Direct
  <2>3. \/ recorded = {} 
        \/ row'.pending = row.pending /\ ~Busy(f) /\ ~Quiet(pc[f], frame[f])
    BY <1>7, <2>1, <2>2
  <2> QED
    BY <1>3, <1>4, <1>6, <1>7, <1>8, <2>3, OneKeeps
<1> QED
  BY <1>9, <1>10

(* A fiber that enters a column knows nothing yet. *)
LEMMA EnterKeeps ==
    ASSUME IInv, RecordInv, NEW f \in Fiber, NEW p, NEW c, NEW kind,
           pc[f] \in {"lock", "continue"}, ~InChain(f), Enter(f, p, c, kind),
           row' = row, recorded' = recorded
    PROVE  RecordInv'
<1> DEFINE phase == EntryPhase(p, c, kind)
           fr == IF phase = "idle" THEN NoFrame ELSE NewFrame(p, c, kind, NoPoint, 0)
<1>1. phase \in {"read", "defer", "release", "idle"}
  BY DEF EntryPhase
<1>2. pc' = [pc EXCEPT ![f] = phase] /\ frame' = [frame EXCEPT ![f] = fr]
  BY DEF Enter, Goto
<1>3. pc[f] \notin WorkPhase /\ ~Quiet(pc[f], frame[f])
  BY DEF WorkPhase, Quiet, Direct, Waits, InChain
<1> HIDE DEF phase, fr
<1> QED
  BY <1>1, <1>2, <1>3, StartKeeps

(* What is done to the row or the fibers at large. *)
LEMMA OthersKeep ==
    ASSUME OneProcess, IInv, RecordInv,
           \/ UserStop \/ ClearStopped \/ TerminalTurns
           \/ \E p \in Process : EvictStaleLock(p) \/ ReArm(p) \/ Heal(p) \/ Crash(p)
    PROVE  RecordInv'
<1> USE DEF IInv, TypeInv
<1>1. ASSUME \/ UserStop \/ ClearStopped \/ TerminalTurns
             \/ \E p \in Process : EvictStaleLock(p) \/ ReArm(p) \/ Heal(p)
      PROVE  RecordInv'
  <2>1. /\ row'.status = row.status /\ row'.point = row.point
        /\ row'.pending \in {row.pending, row.status}
    BY <1>1 DEF UserStop, ClearStopped, TerminalTurns, EvictStaleLock, ReArm, Heal,
                 RowInv, Row
  <2>2. pc' = pc /\ frame' = frame /\ recorded' = recorded
    BY <1>1 DEF UserStop, ClearStopped, TerminalTurns, EvictStaleLock, ReArm, Heal,
                 fiberVars, historyVars
  <2>3. \A h \in Fiber : Busy(h)' <=> Busy(h)
    BY <2>1, <2>2 DEF Busy
  <2>4. PointBehind(row', recorded')
    BY <2>1, <2>2, PointStays
  <2> QED
    BY <2>1, <2>2, <2>3, <2>4 DEF RecordInv
<1>2. ASSUME NEW p \in Process, Crash(p)
      PROVE  RecordInv'
  <2>1. /\ row'.status = row.status /\ row'.point = row.point /\ recorded' = recorded
    BY <1>2 DEF Crash, RowInv, Row, historyVars
  <2>2. \A h \in Fiber : pc[h] # "idle" => frame[h].proc = p
    BY <1>2 DEF OneProcess, FiberInv, FrameFits, Frame
  <2>3. \A h \in Fiber : pc'[h] = "idle"
    BY <1>2, <2>2 DEF Crash
  <2>4. \A h \in Fiber : Quiet(pc'[h], frame'[h])
    BY <2>3 DEF Quiet, Direct
  <2>5. PointBehind(row', recorded')
    BY <2>1, PointStays
  <2> QED
    BY <2>1, <2>3, <2>4, <2>5 DEF RecordInv
<1> QED
  BY <1>1, <1>2

(* The card enters a column. *)
LEMMA MovesForget ==
    ASSUME IInv, RecordInv,
           \/ \E f \in Fiber, p \in Process : Reenter(f, p) \/ \E c \in Column : UserMove(f, p, c)
           \/ \E f, g \in Fiber, c \in Column : AgentMoves(f, g, c)
           \/ \E f, g \in Fiber : MoveCard(f, g)
           \/ \E f \in Fiber : FailCard(f)
    PROVE  RecordInv'
<1>1. recorded' = {}
  BY DEF Reenter, UserMove, AgentMoves, MoveCard, FailCard, EntersColumn
<1>2. pc \in [Fiber -> Phase] /\ DOMAIN frame = Fiber
  BY DEF IInv, TypeInv, FiberInv
<1>3. \A p, c, kind : EntryPhase(p, c, kind) # "lock"
  BY DEF EntryPhase
<1>4. \A h \in Fiber : pc'[h] = "lock" => pc[h] = "lock" /\ frame'[h] = frame[h]
  <2>1. ASSUME NEW f \in Fiber, NEW p, NEW c, Enter(f, p, c, "entry"),
               NEW h \in Fiber, pc'[h] = "lock"
        PROVE  pc[h] = "lock" /\ frame'[h] = frame[h]
    <3>1. h # f
      BY <1>2, <1>3, <2>1 DEF Enter, Goto
    <3> QED
      BY <1>2, <2>1, <3>1 DEF Enter, Goto
  <2>2. ASSUME NEW f \in Fiber, NEW g \in Fiber, NEW c, NEW phase, phase # "lock", NEW next,
               EnterBeside(f, g, c, phase, next), f # g,
               NEW h \in Fiber, pc'[h] = "lock"
        PROVE  pc[h] = "lock" /\ frame'[h] = frame[h]
    <3>1. h # f /\ h # g
      BY <1>2, <1>3, <2>2 DEF EnterBeside
    <3> QED
      BY <1>2, <2>2, <3>1 DEF EnterBeside
  <2>3. ASSUME NEW f \in Fiber, NEW p \in Process,
               Reenter(f, p) \/ \E c \in Column : UserMove(f, p, c)
        PROVE  \E c \in {row.status} \cup Column : Enter(f, p, c, "entry")
    BY <2>3 DEF Reenter, UserMove
  <2>4. ASSUME \/ \E f, g \in Fiber, c \in Column : AgentMoves(f, g, c)
               \/ \E f, g \in Fiber : MoveCard(f, g)
        PROVE  \E f, g \in Fiber : /\ f # g
                                  /\ \E c, phase, next : phase # "lock" /\ EnterBeside(f, g, c, phase, next)
    <3>1. ASSUME NEW f \in Fiber, NEW g \in Fiber, NEW c \in Column, AgentMoves(f, g, c)
          PROVE  g # f /\ pc[f] # "lock" /\ EnterBeside(g, f, c, pc[f], frame[f])
      BY <3>1 DEF AgentMoves
    <3>2. ASSUME NEW f \in Fiber, NEW g \in Fiber, MoveCard(f, g)
          PROVE  g # f /\ EnterBeside(g, f, Step(f).to, "record", [frame[f] EXCEPT !.moved = TRUE])
      BY <3>2 DEF MoveCard
    <3> QED
      BY <2>4, <3>1, <3>2
  <2>5. ASSUME NEW f \in Fiber, FailCard(f), NEW h \in Fiber, pc'[h] = "lock"
        PROVE  pc[h] = "lock" /\ frame'[h] = frame[h]
    BY <1>2, <2>5 DEF FailCard, Goto
  <2> QED
    BY <2>1, <2>2, <2>3, <2>4, <2>5
<1>5. \A f \in Fiber : pc'[f] # "idle" /\ Waits(pc'[f], frame'[f]) =>
        IsCondition(frame'[f].column, frame'[f].transition)
  BY <1>4 DEF RecordInv, Waits
<1> QED
  BY <1>1, <1>5, Forgotten

(* The ends of runs. *)
LEMMA RunsKeep ==
    ASSUME IInv, RecordInv, NEW f \in Fiber,
           \/ RunEnds(f)
           \/ \E p \in Process : DirectRun(f, p) \/ \E c \in Column : ReserveRun(f, p, c)
    PROVE  RecordInv'
<1> USE DEF IInv, TypeInv
<1>1. ASSUME NEW aborted \in BOOLEAN, ReleaseRun(f, aborted)
      PROVE  /\ row'.status = row.status /\ row'.point = row.point
             /\ row'.pending = row.pending
  BY <1>1 DEF ReleaseRun, RowInv, Row
<1>2. ASSUME DirectRunEnds(f)
      PROVE  RecordInv'
  <2>1. /\ row'.status = row.status /\ row'.point = row.point
        /\ row'.pending = row.pending /\ recorded' = recorded /\ pc[f] \notin WorkPhase
        /\ pc' = [pc EXCEPT ![f] = "idle"] /\ frame' = [frame EXCEPT ![f] = NoFrame]
    BY <1>1, <1>2 DEF DirectRunEnds, Goto, WorkPhase
  <2> QED
    BY <2>1, StartKeeps DEF Direct
<1>3. ASSUME NEW p \in Process, DirectRun(f, p)
      PROVE  RecordInv'
  <2>1. /\ row'.status = row.status /\ row'.point = row.point
        /\ row'.pending = row.pending /\ recorded' = recorded /\ pc[f] \notin WorkPhase
        /\ pc' = [pc EXCEPT ![f] = "direct"]
        /\ frame' = [frame EXCEPT ![f] = NewFrame(p, row.status, "direct", NoPoint, 0)]
    BY <1>3 DEF DirectRun, Goto, RowInv, Row, historyVars, WorkPhase
  <2> QED
    BY <2>1, StartKeeps DEF Direct
<1>4. ASSUME RunSucceeds(f)
      PROVE  RecordInv'
  <2> DEFINE fr == [frame[f] EXCEPT !.moved = FALSE]
  <2>1. /\ row'.status = row.status /\ row'.point = row.point
        /\ row'.pending = row.pending /\ recorded' = recorded
        /\ pc[f] = "run" /\ pc[f] \in WorkPhase /\ "record" \in WorkPhase
        /\ pc' = [pc EXCEPT ![f] = "record"] /\ frame' = [frame EXCEPT ![f] = fr]
    BY <1>1, <1>4 DEF RunSucceeds, Executed, Goto, FiberInv, WorkPhase
  <2>2. frame[f] \in Frame
    BY <2>1 DEF FiberInv, FrameFits
  <2>3. /\ fr.column = frame[f].column /\ fr.transition = frame[f].transition
        /\ fr.action = frame[f].action
    BY <2>2 DEF Frame
  <2> HIDE DEF fr
  <2>4. frame[f].column = row.status => Beyond("record", fr, recorded)
    BY <2>1, <2>3 DEF RecordInv, Beyond
  <2> QED
    BY <2>1, <2>3, <2>4, WorkKeeps
<1>5. ASSUME RunAborts(f) \/ RunFails(f)
      PROVE  RecordInv'
  <2>1. PICK ph \in {"flag", "fail"} : pc' = [pc EXCEPT ![f] = ph]
    BY <1>5 DEF RunAborts, RunFails, Goto
  <2>2. /\ row'.status = row.status /\ row'.point = row.point
        /\ row'.pending = row.pending /\ recorded' = recorded
        /\ pc[f] = "run" /\ pc[f] \in WorkPhase /\ ph \in WorkPhase
        /\ frame' = [frame EXCEPT ![f] = frame[f]]
    BY <1>1, <1>5, <2>1 DEF RunAborts, RunFails, FiberInv, historyVars, WorkPhase
  <2>3. frame[f].column = row.status => Beyond(ph, frame[f], recorded)
    BY <2>1, <2>2 DEF RecordInv, Beyond
  <2> QED
    BY <2>1, <2>2, <2>3, WorkKeeps
<1>6. ASSUME NEW p \in Process, NEW c \in Column, ReserveRun(f, p, c)
      PROVE  RecordInv'
  <2>1. /\ row' = row /\ recorded' = recorded /\ pc[f] \notin WorkPhase
        /\ pc' = [pc EXCEPT ![f] = "prepare"]
        /\ frame' = [frame EXCEPT ![f] = NewFrame(p, c, "direct", NoPoint, 0)]
    BY <1>6 DEF ReserveRun, Goto, historyVars, WorkPhase
  <2> QED
    BY <2>1, StartKeeps DEF Direct
<1> QED
  BY <1>2, <1>3, <1>4, <1>5, <1>6 DEF RunEnds

(* An explicit execution waits for nothing of the row, and clears it. *)
LEMMA AsksKeep ==
    ASSUME IInv, RecordInv, NEW f \in Fiber, AskStep(f)
    PROVE  RecordInv'
<1> USE DEF IInv, TypeInv
<1>1. ASSUME PrepareRow(f)
      PROVE  RecordInv'
  <2>1. /\ recorded' = {} /\ frame' = frame
        /\ \A h \in Fiber : pc'[h] = "lock" => pc[h] = "lock"
    BY <1>1 DEF PrepareRow, Goto, FiberInv
  <2>2. \A h \in Fiber : pc'[h] # "idle" /\ Waits(pc'[h], frame'[h]) =>
          IsCondition(frame'[h].column, frame'[h].transition)
    BY <2>1 DEF RecordInv, Waits
  <2> QED
    BY <2>1, <2>2, Forgotten
<1>2. ASSUME UnstopRow(f) \/ ClaimRow(f) \/ Decline(f)
      PROVE  RecordInv'
  <2>1. PICK ph \in {"claim", "direct", "idle"} : pc' = [pc EXCEPT ![f] = ph]
    BY <1>2 DEF UnstopRow, ClaimRow, Decline, Goto
  <2>2. PICK fr \in {frame[f], NoFrame} : frame' = [frame EXCEPT ![f] = fr]
    BY <1>2 DEF UnstopRow, ClaimRow, Decline, FiberInv
  <2>3. /\ row'.status = row.status /\ row'.point = row.point
        /\ row'.pending = row.pending /\ recorded' = recorded /\ pc[f] \notin WorkPhase
    BY <1>2 DEF UnstopRow, ClaimRow, Decline, RowInv, Row, historyVars, WorkPhase
  <2> QED
    BY <2>1, <2>2, <2>3, StartKeeps DEF Direct
<1> QED
  BY <1>1, <1>2 DEF AskStep

(* The recheck starts an on_enter chain only for a row that is armed. *)
LEMMA DispatchesKeep ==
    ASSUME IInv, RecordInv, NEW f \in Fiber, LockStep(f) \/ \E p \in Process : Recheck(f, p)
    PROVE  RecordInv'
<1> USE DEF IInv, TypeInv
<1>1. ASSUME LockDenied(f) \/ Release(f)
      PROVE  RecordInv'
  <2>1. /\ row' = row /\ recorded' = recorded /\ ~Busy(f)
        /\ pc' = [pc EXCEPT ![f] = "idle"] /\ frame' = [frame EXCEPT ![f] = NoFrame]
    BY <1>1 DEF LockDenied, Release, Goto, historyVars, WorkPhase, Busy
  <2>2. PointBehind(row', recorded) /\ Quiet("idle", NoFrame)
    BY <2>1, PointStays DEF Quiet, Direct
  <2> QED
    BY <2>1, <2>2, OneKeeps
<1>2. ASSUME RetryLocked(f)
      PROVE  RecordInv'
  <2>1. /\ row' = row /\ recorded' = recorded /\ pc[f] = "lock" /\ ~InChain(f)
        /\ Enter(f, frame[f].proc, frame[f].column, "retry")
    BY <1>2 DEF RetryLocked, historyVars, InChain, ChainPhase
  <2> QED
    BY <2>1, EnterKeeps
<1>3. ASSUME ConditionLocked(f)
      PROVE  RecordInv'
  <2> DEFINE t == frame[f].transition
             done == frame[f].resume.completed
  <2>1. /\ row' = row /\ InChain(f) /\ pc[f] = "lock" /\ frame[f].kind = "condition"
        /\ Begin(f, t, done)
    BY <1>3 DEF ConditionLocked, InChain
  <2>2. t \in DOMAIN Workflow[frame[f].column] /\ done \in Nat
    BY <2>1 DEF FiberInv, FrameFits, Frame, Point
  <2>3. frame[f].column = row.status => IsCondition(row.status, t)
    BY <2>1 DEF RecordInv, Waits
  <2> HIDE DEF t, done
  <2> QED
    BY <2>1, <2>2, <2>3, BeginKeeps
<1>4. ASSUME NEW p \in Process, Recheck(f, p)
      PROVE  RecordInv'
  <2>1. /\ row' = row /\ recorded' = recorded /\ row.status \in Column
        /\ pc[f] = "idle" /\ pc' = [pc EXCEPT ![f] = "lock"]
    BY <1>4 DEF Recheck, Goto, historyVars, RowInv, Row
  <2>2. PICK t \in DOMAIN Workflow[row.status] :
          /\ Workflow[row.status][t].trigger = "on_enter" => row.pending = row.status
          /\ IF Workflow[row.status][t].trigger = "on_enter"
             THEN frame' = [frame EXCEPT ![f] = NewFrame(p, row.status, "retry", NoPoint, 0)]
             ELSE \E point : frame' = [frame EXCEPT ![f] =
                                       NewFrame(p, row.status, "condition", point, t)]
    BY <1>4 DEF Recheck, Fires, Transitions
  <2>3. PointBehind(row', recorded) /\ ~Busy(f)
    BY <2>1, PointStays DEF Busy, WorkPhase
  <2>4. \A fr : Beyond("lock", fr, recorded)
    BY DEF Beyond
  <2>5. CASE Workflow[row.status][t].trigger = "on_enter"
    <3> DEFINE fr == NewFrame(p, row.status, "retry", NoPoint, 0)
    <3>1. ~Waits("lock", fr)
      BY DEF Waits, NewFrame
    <3>2. frame' = [frame EXCEPT ![f] = fr] /\ row'.pending = row.status
      BY <2>1, <2>2, <2>5
    <3> HIDE DEF fr
    <3> QED
      BY <2>1, <2>3, <2>4, <3>1, <3>2, OneKeeps
  <2>6. CASE Workflow[row.status][t].trigger # "on_enter"
    <3>1. PICK point : frame' = [frame EXCEPT ![f] =
                                 NewFrame(p, row.status, "condition", point, t)]
      BY <2>2, <2>6
    <3> DEFINE fr == NewFrame(p, row.status, "condition", point, t)
    <3>2. fr.column = row.status /\ fr.transition = t /\ Quiet("lock", fr)
      BY DEF Quiet, Direct, Waits, NewFrame
    <3>3. IsCondition(row.status, t)
      BY <2>1, <2>2, <2>6, OtherwiseCondition
    <3>4. frame' = [frame EXCEPT ![f] = fr]
      BY <3>1
    <3> HIDE DEF fr
    <3> QED
      BY <2>1, <2>3, <2>4, <3>2, <3>3, <3>4, OneKeeps
  <2> QED
    BY <2>5, <2>6
<1> QED
  BY <1>1, <1>2, <1>3, <1>4 DEF LockStep

(* The steps of an entry. *)
LEMMA EntriesKeep ==
    ASSUME OneProcess, IInv, RecordInv, NEW f \in Fiber, EntryStep(f)
    PROVE  RecordInv'
<1> USE DEF IInv, TypeInv
<1>1. ASSUME WriteMarkers(f, frame[f].column, row.point), pc[f] \in {"defer", "rearm"},
             NEW ph \in {"release", "idle"}, NEW fr,
             pc' = [pc EXCEPT ![f] = ph], frame' = [frame EXCEPT ![f] = fr],
             recorded' = recorded
      PROVE  RecordInv'
  <2>1. /\ row'.status = row.status /\ row'.point = row.point
        /\ row'.pending = row.status \/ row' = row
    BY <1>1 DEF WriteMarkers, RowInv, Row
  <2>2. ~Busy(f) /\ ~Quiet(pc[f], frame[f])
    BY <1>1 DEF Busy, Quiet, Direct, Waits, WorkPhase
  <2>3. PointBehind(row', recorded) /\ Beyond(ph, fr, recorded) /\ ~Waits(ph, fr)
    BY <2>1, PointStays, NewIsBeyond
  <2>4. CASE row'.pending = row.status
    BY <1>1, <2>1, <2>3, <2>4, OneKeeps
  <2>5. CASE row' = row
    BY <1>1, <2>1, <2>2, <2>3, <2>5, OneKeeps
  <2> QED
    BY <2>1, <2>4, <2>5
<1>2. ASSUME Defer(f)
      PROVE  RecordInv'
  <2>1. /\ WriteMarkers(f, frame[f].column, row.point) /\ pc[f] = "defer"
        /\ recorded' = recorded
    BY <1>2 DEF Defer, historyVars
  <2>2. \E ph \in {"release", "idle"}, fr \in {frame[f], NoFrame} :
          pc' = [pc EXCEPT ![f] = ph] /\ frame' = [frame EXCEPT ![f] = fr]
    <3>1. CASE frame[f].kind = "retry"
      BY <1>2, <3>1 DEF Defer, Goto, FiberInv
    <3>2. CASE frame[f].kind # "retry"
      BY <1>2, <3>2 DEF Defer, Goto
    <3> QED
      BY <3>1, <3>2
  <2> QED
    BY <1>1, <2>1, <2>2
<1>3. ASSUME Rearm(f)
      PROVE  RecordInv'
  <2>1. /\ WriteMarkers(f, frame[f].column, row.point) /\ pc[f] = "rearm"
        /\ recorded' = recorded
        /\ pc' = [pc EXCEPT ![f] = "idle"] /\ frame' = [frame EXCEPT ![f] = NoFrame]
    BY <1>3 DEF Rearm, Leave, Goto, historyVars
  <2> QED
    BY <1>1, <2>1
<1>4. ASSUME Turned(f) \/ NoTransitionLeft(f) \/ Unreadable(f)
      PROVE  RecordInv'
  <2>1. /\ row' = row /\ recorded' = recorded
        /\ pc[f] \notin WorkPhase /\ ~Quiet(pc[f], frame[f])
    BY <1>4 DEF Turned, NoTransitionLeft, Unreadable, historyVars, WorkPhase, Quiet, Direct, Waits
  <2>2. \E ph \in {"rearm", "idle"}, fr \in {frame[f], NoFrame} :
          pc' = [pc EXCEPT ![f] = ph] /\ frame' = [frame EXCEPT ![f] = fr]
    BY <1>4 DEF Turned, NoTransitionLeft, Unreadable, Leave, Goto, FiberInv
  <2> QED
    BY <2>1, <2>2, StartKeeps
<1>5. ASSUME Read(f)
      PROVE  RecordInv'
  <2> DEFINE point == ResumePoint(row)
             read == [frame[f] EXCEPT !.resume = point]
             fr == [read EXCEPT !.transition = 1]
  <2>1. /\ row' = row /\ recorded' = recorded /\ pc[f] = "read"
        /\ row.status = frame[f].column
        /\ pc' = [pc EXCEPT ![f] = "next"] /\ frame' = [frame EXCEPT ![f] = fr]
    BY <1>5 DEF Read, Goto, historyVars, FiberInv
  <2>2. ~Busy(f) /\ ~Quiet(pc[f], frame[f]) /\ InChain(f)
    BY <2>1 DEF Busy, Quiet, Direct, Waits, WorkPhase, InChain, ChainPhase
  <2>3. \A g \in Fiber : ~Busy(g)
    <3>1. \A g \in Fiber : Busy(g) => InChain(g)
      BY DEF Busy, WorkPhase, InChain, ChainPhase
    <3> QED
      BY <2>2, <3>1, OneAtWork
  <2>4. \/ Behind(point.transition, point.completed, recorded)
        \/ IsCondition(row.status, point.transition)
    <3>1. recorded = {} \/ row.pending = row.status
      BY <2>2, <2>3 DEF RecordInv
    <3>2. CASE recorded = {}
      BY <3>2, NothingBehind
    <3>3. CASE row.pending = row.status
      BY <3>3 DEF RecordInv, PointBehind, ResumePoint
    <3> QED
      BY <3>1, <3>2, <3>3
  <2>5. frame[f] \in Frame /\ row.status \in Column /\ point \in Point
    BY <2>1 DEF FiberInv, FrameFits, RowInv, Row, ResumePoint, Point, NoPoint
  <2> HIDE DEF point
  <2>6. read \in Frame /\ read.column = frame[f].column /\ read.resume = point
    BY <2>5 DEF Frame
  <2> HIDE DEF read
  <2>7. fr.resume = point /\ fr.transition = 1 /\ fr.column = frame[f].column
    BY <2>5, <2>6 DEF Frame
  <2> HIDE DEF fr
  <2>8. IsCondition(row.status, point.transition) => 1 <= point.transition
    BY <2>5, WorkflowTyped DEF IsCondition
  <2>9. Beyond("next", fr, recorded) /\ ~Waits("next", fr)
    BY <2>1, <2>4, <2>7, <2>8 DEF Beyond, Waits
  <2>10. PointBehind(row', recorded)
    BY <2>1, PointStays
  <2> QED
    BY <2>1, <2>2, <2>9, <2>10, OneKeeps
<1>6. ASSUME NextTransition(f)
      PROVE  RecordInv'
  <2> DEFINE resume == frame[f].resume
             done(t) == IF t = resume.transition THEN resume.completed ELSE 0
  <2>1. /\ InChain(f) /\ pc[f] = "next" /\ row' = row /\ frame[f] \in Frame
    BY <1>6 DEF NextTransition, InChain, ChainPhase, FiberInv, FrameFits
  <2>2. PICK t \in DOMAIN Workflow[frame[f].column] :
          /\ Begin(f, t, done(t)) /\ t >= resume.transition
          /\ \A u \in frame[f].transition .. t - 1 : Skippable(f, u)
    BY <1>6 DEF NextTransition, Transitions
  <2>3. resume.transition \in Nat /\ resume.completed \in Nat /\ done(t) \in Nat
    BY <2>1 DEF Frame, Point
  <2>4. t \in Nat /\ frame[f].column \in Column
    BY <2>1, WorkflowTyped DEF Frame
  <2>5. ASSUME Behind(resume.transition, resume.completed, recorded)
        PROVE  Behind(t, done(t), recorded)
    <3> SUFFICES ASSUME NEW e \in Entered(recorded)
                 PROVE  e[2] < t \/ (e[2] = t /\ e[3] <= done(t))
      BY DEF Behind
    <3>1. e[2] \in Nat /\ e[3] \in Nat
      BY DEF RecordInv, Entered
    <3>2. e[2] < resume.transition \/ (e[2] = resume.transition /\ e[3] <= resume.completed)
      BY <2>5 DEF Behind
    <3> HIDE DEF resume
    <3> QED
      BY <2>2, <2>3, <2>4, <3>1, <3>2
  <2>6. ASSUME IsCondition(frame[f].column, resume.transition),
               frame[f].transition <= resume.transition
        PROVE  IsCondition(frame[f].column, t)
    <3>1. \A u \in frame[f].transition .. t - 1 : Skippable(f, u)
      BY <2>2
    <3>2. ~Skippable(f, resume.transition)
      BY <2>3 DEF Skippable
    <3>3. frame[f].transition \in Nat
      BY <2>1 DEF Frame
    <3> HIDE DEF resume
    <3>4. t = resume.transition
      BY <2>2, <2>3, <2>4, <2>6, <3>1, <3>2, <3>3
    <3> QED
      BY <2>6, <3>4
  <2>7. frame[f].column = row.status => IsCondition(row.status, t) \/ Behind(t, done(t), recorded)
    BY <2>1, <2>5, <2>6 DEF RecordInv, Beyond
  <2> HIDE DEF resume, done
  <2> QED
    BY <2>1, <2>2, <2>3, <2>7, BeginKeeps
<1>7. ASSUME Continue(f)
      PROVE  RecordInv'
  <2>1. row' = row /\ recorded' = recorded /\ pc[f] = "continue"
    BY <1>7 DEF Continue, historyVars
  <2>2. CASE \/ row.status \in {frame[f].column, ErrorColumn}
             \/ processing[frame[f].proc] # NoColumn
    <3>1. /\ pc' = [pc EXCEPT ![f] = "idle"] /\ frame' = [frame EXCEPT ![f] = NoFrame]
          /\ pc[f] \notin WorkPhase /\ ~Quiet(pc[f], frame[f])
      BY <1>7, <2>1, <2>2 DEF Continue, Goto, WorkPhase, Quiet, Direct, Waits
    <3> QED
      BY <2>1, <3>1, StartKeeps
  <2>3. CASE ~(\/ row.status \in {frame[f].column, ErrorColumn}
               \/ processing[frame[f].proc] # NoColumn)
    <3>1. Enter(f, frame[f].proc, row.status, "entry") /\ ~InChain(f)
      BY <1>7, <2>1, <2>3 DEF Continue, InChain, ChainPhase
    <3> QED
      BY <2>1, <3>1, EnterKeeps
  <2> QED
    BY <2>2, <2>3
<1> QED
  BY <1>2, <1>3, <1>4, <1>5, <1>6, <1>7 DEF EntryStep

(* The actions of a chain. *)
LEMMA ActionsKeep ==
    ASSUME OneProcess, IInv, RecordInv, NEW f \in Fiber, ActionStep(f)
    PROVE  RecordInv'
<1> USE DEF IInv, TypeInv
<1>1. ASSUME Assign(f) \/ NoMove(f) \/ MovedMeanwhile(f)
      PROVE  RecordInv'
  <2>1. PICK moved \in BOOLEAN : Executed(f, moved)
    BY <1>1 DEF Assign, NoMove, MovedMeanwhile
  <2> DEFINE fr == [frame[f] EXCEPT !.moved = moved]
  <2>2. /\ row' = row /\ pc[f] \in {"act", "move"} /\ recorded' = recorded
        /\ pc[f] \in WorkPhase /\ "record" \in WorkPhase
        /\ pc' = [pc EXCEPT ![f] = "record"] /\ frame' = [frame EXCEPT ![f] = fr]
    BY <1>1, <2>1 DEF Assign, NoMove, MovedMeanwhile, Executed, Goto, FiberInv, WorkPhase
  <2>3. frame[f] \in Frame
    BY <2>2 DEF FiberInv, FrameFits
  <2>4. /\ fr.column = frame[f].column /\ fr.transition = frame[f].transition
        /\ fr.action = frame[f].action
    BY <2>3 DEF Frame
  <2> HIDE DEF fr
  <2>5. frame[f].column = row.status => Beyond("record", fr, recorded)
    BY <2>2, <2>4 DEF RecordInv, Beyond
  <2> QED
    BY <2>2, <2>4, <2>5, WorkKeeps
<1>2. ASSUME Unable(f) \/ DecideMove(f)
      PROVE  RecordInv'
  <2>1. /\ row'.status = row.status /\ row'.point = row.point
        /\ row'.pending = row.pending /\ recorded' = recorded
        /\ pc[f] = "act" /\ frame' = [frame EXCEPT ![f] = frame[f]]
    BY <1>2 DEF Unable, DecideMove, FiberInv, historyVars
  <2>2. PICK ph \in {"flag", "move"} : pc' = [pc EXCEPT ![f] = ph]
    BY <1>2 DEF Unable, DecideMove, Goto
  <2>3. pc[f] \in WorkPhase /\ ph \in WorkPhase
    BY <2>1, <2>2 DEF WorkPhase
  <2>4. frame[f].column = row.status => Beyond(ph, frame[f], recorded)
    BY <2>1, <2>2 DEF RecordInv, Beyond
  <2> QED
    BY <2>1, <2>2, <2>3, <2>4, WorkKeeps
<1>3. ASSUME StartRun(f)
      PROVE  RecordInv'
  <2>1. /\ row'.status = row.status /\ row'.point = row.point /\ recorded' = recorded
        /\ pc[f] = "act" /\ frame[f].column = row.status
        /\ pc' = [pc EXCEPT ![f] = "run"] /\ frame' = [frame EXCEPT ![f] = frame[f]]
    BY <1>3 DEF StartRun, Goto, RowInv, Row, FiberInv, historyVars
  <2>2. Beyond("run", frame[f], recorded) /\ ~Waits("run", frame[f]) /\ "run" \in WorkPhase
    BY <2>1 DEF RecordInv, Beyond, Waits, WorkPhase
  <2>3. PointBehind(row', recorded)
    BY <2>1, PointStays
  <2> QED
    BY <2>1, <2>2, <2>3, OneKeeps
<1> QED
  BY <1>1, <1>2, <1>3, MovesForget DEF ActionStep

(* The one step that records: behind the action are those recorded before.  *)
LEMMA RecordKeeps ==
    ASSUME OneProcess, IInv, RecordInv, NEW f \in Fiber, Record(f)
    PROVE  RecordInv'
<1> USE DEF IInv, TypeInv
<1> DEFINE t == frame[f].transition
           a == frame[f].action
           point == [transition |-> t, completed |-> a]
<1>1. /\ pc[f] = "record" /\ pc' = [pc EXCEPT ![f] = "sync"]
      /\ frame' = [frame EXCEPT ![f] = frame[f]]
      /\ WriteMarkers(f, NoColumn, point)
  BY DEF Record, Goto, FiberInv
<1>2. /\ frame[f] \in Frame /\ t \in Nat /\ a \in Nat /\ InChain(f)
      /\ pc[f] \in WorkPhase /\ "sync" \in WorkPhase
  BY <1>1 DEF FiberInv, FrameFits, Frame, InChain, ChainPhase, WorkPhase
<1>3. CASE row.status # frame[f].column
  <2>1. row' = row /\ recorded' = recorded
    BY <1>1, <1>3 DEF WriteMarkers, Record
  <2> QED
    BY <1>1, <1>2, <1>3, <2>1, WorkKeeps
<1>4. CASE row.status = frame[f].column
  <2>1. /\ row'.status = row.status /\ row'.point.transition = t /\ row'.point.completed = a
        /\ recorded' = recorded \cup {<<row.status, t, a>>}
    BY <1>1, <1>4 DEF WriteMarkers, Record, RowInv, Row, Position
  <2>2. recorded' \subseteq {row'.status} \X Nat \X Nat
    BY <1>2, <2>1 DEF RecordInv
  <2>3. IsCondition(row.status, t) \/ Behind(t, a, recorded')
    <3> SUFFICES ASSUME ~IsCondition(row.status, t), NEW e \in Entered(recorded')
                 PROVE  e[2] < t \/ (e[2] = t /\ e[3] <= a)
      BY DEF Behind
    <3>1. Behind(t, a - 1, recorded)
      BY <1>1, <1>4 DEF RecordInv, Beyond
    <3>2. CASE e \in recorded
      <4>1. e[2] \in Nat /\ e[3] \in Nat
        BY <3>2 DEF RecordInv
      <4>2. e[2] < t \/ (e[2] = t /\ e[3] <= a - 1)
        BY <3>1, <3>2 DEF Behind, Entered
      <4> HIDE DEF t, a
      <4> QED
        BY <1>2, <4>1, <4>2
    <3>3. CASE e \notin recorded
      <4>1. e = <<row.status, t, a>>
        BY <2>1, <3>3 DEF Entered
      <4> QED
        BY <1>2, <4>1
    <3> QED
      BY <3>2, <3>3
  <2>4. pc'[f] = "sync" /\ frame'[f] = frame[f] /\ frame[f].column = row.status
    BY <1>1, <1>4 DEF FiberInv
  <2>5. ASSUME NEW h \in Fiber, pc'[h] # "idle"
        PROVE  Beyond(pc'[h], frame'[h], recorded') /\ ~Waits(pc'[h], frame'[h])
    <3>1. CASE h = f
      BY <2>3, <2>4, <3>1 DEF Beyond, Waits
    <3>2. CASE h # f
      <4>1. ~InChain(h) /\ pc'[h] = pc[h] /\ frame'[h] = frame[h]
        BY <1>1, <1>2, <3>2, OneAtWork DEF FiberInv
      <4> QED
        BY <4>1 DEF Beyond, Waits, InChain, ChainPhase
    <3> QED
      BY <3>1, <3>2
  <2>6. Busy(f)'
    BY <1>2, <2>1, <2>4 DEF Busy
  <2>7. PointBehind(row', recorded')
    BY <2>1, <2>3 DEF PointBehind
  <2> HIDE DEF t, a, point
  <2> QED
    BY <2>2, <2>5, <2>6, <2>7 DEF RecordInv
<1> QED
  BY <1>3, <1>4

(* The other steps of a chain. *)
LEMMA ChainsKeep ==
    ASSUME OneProcess, IInv, RecordInv, NEW f \in Fiber, ChainStep(f)
    PROVE  RecordInv'
<1> USE DEF IInv, TypeInv
<1>1. ASSUME Mark(f)
      PROVE  RecordInv'
  <2> DEFINE point == [transition |-> frame[f].transition, completed |-> 0]
  <2>1. /\ pc[f] = "mark" /\ pc[f] \in WorkPhase /\ "act" \in WorkPhase
        /\ recorded' = recorded /\ WriteMarkers(f, row.pending, point)
        /\ pc' = [pc EXCEPT ![f] = "act"] /\ frame' = [frame EXCEPT ![f] = frame[f]]
    BY <1>1 DEF Mark, Goto, FiberInv, WorkPhase
  <2>2. /\ row'.status = row.status /\ row'.pending = row.pending
        /\ frame[f].column = row.status =>
             row'.point.transition = frame[f].transition /\ row'.point.completed = 0
        /\ frame[f].column # row.status => row'.point = row.point
    BY <2>1 DEF WriteMarkers, RowInv, Row
  <2>3. frame[f].column = row.status =>
          \/ IsCondition(row.status, frame[f].transition)
          \/ Behind(frame[f].transition, 0, recorded)
    BY <2>1 DEF RecordInv, Beyond
  <2>4. row'.point = row.point \/ PointBehind(row', recorded)
    BY <2>2, <2>3 DEF PointBehind
  <2>5. Behind(frame[f].transition, 0, recorded) =>
          Behind(frame[f].transition, frame[f].action - 1, recorded)
    <3>1. \A e \in Entered(recorded) : e[2] \in Nat /\ e[3] \in Nat
      BY DEF RecordInv, Entered
    <3>2. frame[f].action \in Nat \ {0}
      BY <2>1, StandsAtAction DEF AtAction
    <3>3. frame[f].action - 1 \in Nat /\ 0 <= frame[f].action - 1
      BY <3>2
    <3> QED
      BY <3>1, <3>3 DEF Behind
  <2>6. frame[f].column = row.status => Beyond("act", frame[f], recorded)
    BY <2>3, <2>5 DEF Beyond
  <2> HIDE DEF point
  <2> QED
    BY <2>1, <2>2, <2>4, <2>6, WorkKeeps
<1>2. ASSUME Sync(f)
      PROVE  RecordInv'
  <2> DEFINE ends == \/ row.status # frame[f].column \/ frame[f].moved
                     \/ frame[f].action = Len(Chain(f))
             i == IF ends THEN frame[f].action ELSE frame[f].action + 1
             ph == IF ends THEN "clear" ELSE "act"
             there == [frame[f] EXCEPT !.work = row.status]
             fr == [there EXCEPT !.action = i]
  <2>1. /\ pc[f] = "sync" /\ pc[f] \in WorkPhase /\ row' = row /\ recorded' = recorded
    BY <1>2 DEF Sync, historyVars, WorkPhase
  <2>2. pc' = [pc EXCEPT ![f] = ph] /\ frame' = [frame EXCEPT ![f] = fr]
    BY <1>2 DEF Sync, Goto, FiberInv
  <2>3. ph \in {"clear", "act"} /\ (ph = "act" => i = frame[f].action + 1)
    OBVIOUS
  <2>4. ph \in WorkPhase
    BY <2>3 DEF WorkPhase
  <2> HIDE DEF ends, i, ph
  <2>5. frame[f] \in Frame /\ frame[f].action \in Nat
    BY <2>1 DEF FiberInv, FrameFits, Frame
  <2>6. /\ there \in Frame /\ there.column = frame[f].column
        /\ there.transition = frame[f].transition
    BY <2>5 DEF Frame, RowInv, Row
  <2> HIDE DEF there
  <2>7. /\ fr.column = frame[f].column /\ fr.transition = frame[f].transition
        /\ fr.action = i
    BY <2>6 DEF Frame
  <2> HIDE DEF fr
  <2>8. frame[f].column = row.status /\ ~IsCondition(frame[f].column, frame[f].transition) =>
          Behind(frame[f].transition, frame[f].action, recorded)
    BY <2>1 DEF RecordInv, Beyond
  <2>9. ph = "act" => fr.action - 1 = frame[f].action
    BY <2>3, <2>5, <2>7
  <2>10. frame[f].column = row.status => Beyond(ph, fr, recorded)
    BY <2>3, <2>7, <2>8, <2>9 DEF Beyond
  <2> QED
    BY <2>1, <2>2, <2>4, <2>7, <2>10, WorkKeeps
<1>3. ASSUME Flag(f)
      PROVE  RecordInv'
  <2> DEFINE point == [transition |-> frame[f].transition,
                       completed |-> frame[f].action - 1]
  <2>1. /\ pc[f] = "flag" /\ recorded' = recorded
        /\ WriteMarkers(f, frame[f].column, point)
        /\ pc' = [pc EXCEPT ![f] = "skipped"] /\ frame' = [frame EXCEPT ![f] = frame[f]]
    BY <1>3 DEF Flag, Goto, FiberInv, historyVars
  <2>2. ~Quiet(pc[f], frame[f])
    BY <2>1 DEF Quiet, Direct, Waits
  <2>3. CASE frame[f].column # row.status
    <3>1. row' = row /\ ~Busy(f)
      BY <2>1, <2>3 DEF WriteMarkers, Busy
    <3>2. PointBehind(row', recorded)
      BY <3>1, PointStays
    <3> HIDE DEF point
    <3> QED
      BY <2>1, <2>2, <3>1, <3>2, NewIsBeyond, OneKeeps
  <2>4. CASE frame[f].column = row.status
    <3>1. /\ row'.status = row.status /\ row'.pending = row.status
          /\ row'.point.transition = frame[f].transition
          /\ row'.point.completed = frame[f].action - 1
      BY <2>1, <2>4 DEF WriteMarkers, RowInv, Row
    <3>2. PointBehind(row', recorded)
      BY <2>1, <2>4, <3>1 DEF RecordInv, Beyond, PointBehind
    <3> HIDE DEF point
    <3> QED
      BY <2>1, <3>1, <3>2, NewIsBeyond, OneKeeps
  <2> QED
    BY <2>3, <2>4
<1>4. ASSUME Skipped(f)
      PROVE  RecordInv'
  <2>1. /\ row' = row /\ recorded' = recorded
        /\ pc[f] \notin WorkPhase /\ ~Quiet(pc[f], frame[f])
    BY <1>4 DEF Skipped, historyVars, WorkPhase, Quiet, Direct, Waits
  <2>2. \E ph \in {"continue", "idle"}, fr \in {frame[f], NoFrame} :
          pc' = [pc EXCEPT ![f] = ph] /\ frame' = [frame EXCEPT ![f] = fr]
    BY <1>4 DEF Skipped, Leave, Goto, FiberInv
  <2> QED
    BY <2>1, <2>2, StartKeeps
<1>5. ASSUME ChainEnds(f) \/ TransitionEnds(f)
      PROVE  RecordInv'
  <2>1. /\ pc[f] = "clear" /\ WriteMarkers(f, NoColumn, NoPoint)
        /\ recorded' = IF row.status = frame[f].column THEN {} ELSE recorded
    BY <1>5 DEF ChainEnds, TransitionEnds, ClearMarkers
  <2>2. PICK ph \in {"continue", "next"}, fr \in Frame :
          /\ pc' = [pc EXCEPT ![f] = ph] /\ frame' = [frame EXCEPT ![f] = fr]
          /\ fr.column = frame[f].column
    <3>1. CASE ChainEnds(f)
      BY <2>1, <3>1 DEF ChainEnds, Leave, Goto, FiberInv, FrameFits
    <3>2. CASE TransitionEnds(f)
      <4> DEFINE fr == [frame[f] EXCEPT !.transition = frame[f].transition + 1]
      <4>1. fr \in Frame /\ fr.column = frame[f].column
        BY <2>1 DEF FiberInv, FrameFits, Frame
      <4>2. pc' = [pc EXCEPT ![f] = "next"] /\ frame' = [frame EXCEPT ![f] = fr]
        BY <3>2 DEF TransitionEnds, Goto, FiberInv
      <4> HIDE DEF fr
      <4> QED
        BY <4>1, <4>2
    <3> QED
      BY <1>5, <3>1, <3>2
  <2>3. CASE row.status = frame[f].column
    <3>1. \A h \in Fiber : pc'[h] = "lock" => pc[h] = "lock" /\ frame'[h] = frame[h]
      BY <2>1, <2>2 DEF FiberInv
    <3>2. \A h \in Fiber : pc'[h] # "idle" /\ Waits(pc'[h], frame'[h]) =>
            IsCondition(frame'[h].column, frame'[h].transition)
      BY <3>1 DEF RecordInv, Waits
    <3> QED
      BY <2>1, <2>3, <3>2, Forgotten
  <2>4. CASE row.status # frame[f].column
    <3>1. /\ row' = row /\ recorded' = recorded
          /\ ~Busy(f) /\ ~Quiet(pc[f], frame[f])
      BY <2>1, <2>4 DEF WriteMarkers, Busy, Quiet, Direct, Waits
    <3>2. PointBehind(row', recorded)
      BY <3>1, PointStays
    <3>3. ~Waits(ph, fr)
      BY DEF Waits
    <3> QED
      BY <2>2, <2>4, <3>1, <3>2, <3>3, OneKeeps
  <2> QED
    BY <2>3, <2>4
<1> QED
  BY <1>1, <1>2, <1>3, <1>4, <1>5, RecordKeeps, ActionsKeep, MovesForget DEF ChainStep

(* A new card has recorded nothing. *)
LEMMA InitKeeps == Init => RecordInv
BY DEF Init, RecordInv, PointBehind, Behind, Entered

(* Every step. *)
LEMMA NextKeeps ==
    ASSUME OneProcess, IInv, RecordInv, [Next]_vars
    PROVE  RecordInv'
<1>1. CASE UNCHANGED vars
  <2>1. row' = row /\ recorded' = recorded /\ pc' = pc /\ frame' = frame
    BY <1>1 DEF vars, fiberVars, historyVars
  <2>2. PointBehind(row, recorded)' = PointBehind(row, recorded)
    BY <2>1 DEF PointBehind, Behind, Entered, IsCondition, Transitions
  <2>3. \A f \in Fiber : /\ Beyond(pc[f], frame[f], recorded)'
                              = Beyond(pc[f], frame[f], recorded)
                         /\ Waits(pc[f], frame[f])' = Waits(pc[f], frame[f])
                         /\ IsCondition(frame[f].column, frame[f].transition)'
                              = IsCondition(frame[f].column, frame[f].transition)
    BY <2>1
  <2>4. \A f \in Fiber : /\ Busy(f)' = Busy(f)
                         /\ Quiet(pc[f], frame[f])' = Quiet(pc[f], frame[f])
    BY <2>1 DEF Busy, Quiet, Direct, Waits
  <2> QED
    BY <2>1, <2>2, <2>3, <2>4 DEF RecordInv
<1>2. CASE Routine
  BY <1>2, EntriesKeep, ChainsKeep, AsksKeep, RunsKeep, DispatchesKeep, OthersKeep DEF Routine
<1>3. CASE Event
  BY <1>3, RunsKeep, MovesForget, OthersKeep DEF Event
<1> QED
  BY <1>1, <1>2, <1>3 DEF Next

(* While one process serves the board, no action of an on_enter chain that  *)
(* the row holds to be complete is performed again: the resume point is     *)
(* behind no recorded action, or it is that of a condition, whose end ends  *)
(* the chain; and a chain begins without a point only where nothing is      *)
(* recorded.                                                               *)
THEOREM NothingIsRepeated == OneProcess => (Spec => NothingRepeated)
<1> SUFFICES ASSUME OneProcess PROVE Spec => NothingRepeated
  OBVIOUS
<1>1. Init => IInv /\ RecordInv
  BY InitInv, InitKeeps
<1>2. IInv /\ RecordInv /\ [Next]_vars => IInv' /\ RecordInv'
  BY NextInv, NextKeeps
<1>3. ASSUME IInv, RecordInv, NEW e \in recorded,
             Transitions(e[1])[e[2]].trigger = "on_enter", Performs(e)
      PROVE  FALSE
  <2>1. PICK f \in Fiber : pc[f] \in {"act", "run", "move"} /\ Position(f) = e
    BY <1>3 DEF Performs
  <2>2. e[1] = row.status /\ e[2] \in Nat /\ e[3] \in Nat
    BY <1>3 DEF RecordInv
  <2>3. /\ frame[f].column = row.status /\ frame[f].transition = e[2]
        /\ frame[f].action = e[3]
    BY <2>1, <2>2 DEF Position
  <2>4. ~IsCondition(row.status, e[2]) /\ e \in Entered(recorded)
    BY <1>3, <2>2 DEF IsCondition, Transitions, Entered
  <2>5. Behind(e[2], e[3] - 1, recorded)
    BY <1>3, <2>1, <2>3, <2>4 DEF RecordInv, Beyond
  <2> QED
    BY <2>2, <2>4, <2>5 DEF Behind
<1>4. IInv /\ RecordInv =>
        \A e \in recorded : Transitions(e[1])[e[2]].trigger = "on_enter" => ~Performs(e)
  BY <1>3
<1> QED
  BY <1>1, <1>2, <1>4, PTL DEF Spec, NothingRepeated
===============================================================================
