----------------------------- MODULE TaskLockProofs ----------------------------
(***************************************************************************)
(* The advisory locks of tasks give a task one owner at a time, and neither *)
(* a slot nor a connection is lost: for any number of processes, tasks,     *)
(* dispatches and connections, whatever dies and whatever fails.            *)
(***************************************************************************)
EXTENDS TaskLock, FiniteSetTheorems, TLAPS

Acquiring(d) == pc[d] \in {"connect", "query"}
Holding(d) == pc[d] = "chain" /\ ~frame[d].released
Slotted(d) == Acquiring(d) \/ Holding(d)

SameSlot(d, e) == frame[d].proc = frame[e].proc /\ frame[d].task = frame[e].task

(* A slot belongs to one dispatch: in acquiring while it acquires, in the   *)
(* map, with its connection (ReleasesOwnLock), while it has the lock.       *)
SlotInv ==
    /\ \A d \in Dispatch : Acquiring(d) => frame[d].task \in acquiring[frame[d].proc]
    /\ ReleasesOwnLock
    /\ \A d, e \in Dispatch :
         Slotted(d) /\ Slotted(e) /\ SameSlot(d, e) => d = e
    /\ \A p \in Process : \A t \in acquiring[p] :
         \E d \in Dispatch : Acquiring(d) /\ frame[d].proc = p /\ frame[d].task = t
    /\ \A p \in Process, t \in Task : held[p][t] # NoConn =>
         \E d \in Dispatch : Holding(d) /\ frame[d].proc = p /\ frame[d].task = t

(* A dispatch uses a connection of its process, and its flag is down until  *)
(* it is in its chain.                                                     *)
OwnConn ==
    \A d \in Dispatch :
        /\ pc[d] \in {"query", "chain"} => frame[d].conn \in Pool[frame[d].proc]
        /\ pc[d] \in {"connect", "query"} => ~frame[d].released

-----------------------------------------------------------------------------
(* Types.                                                                  *)

(* The locals of a dispatch at work. *)
LEMMA FrameTyped ==
    ASSUME TypeOK, NEW d \in Dispatch, pc[d] # "idle"
    PROVE  /\ frame[d].proc \in Process /\ frame[d].task \in Task
           /\ frame[d].conn \in Conn \cup {NoConn} /\ frame[d].released \in BOOLEAN
           /\ frame[d] \in Frame
BY DEF TypeOK, Frame

(* Where a dispatch ends, it forgets its locals; its slot is given back.    *)
LEMMA EndTyped ==
    ASSUME TypeOK, NEW d \in Dispatch, End(d)
    PROVE  /\ pc' \in [Dispatch -> {"idle", "connect", "query", "chain"}]
           /\ frame' \in [Dispatch -> Frame \cup {NoFrame}]
           /\ \A e \in Dispatch : pc'[e] # "idle" => frame'[e] \in Frame
BY DEF TypeOK, End

LEMMA GiveBackTyped ==
    ASSUME TypeOK, NEW d \in Dispatch, GiveBackSlot(d)
    PROVE  acquiring' \in [Process -> SUBSET Task]
BY DEF TypeOK, GiveBackSlot

LEMMA ReleaseTyped ==
    ASSUME TypeOK, NEW p \in Process, NEW t \in Task, Release(p, t)
    PROVE  /\ held' \in [Process -> [Task -> Conn \cup {NoConn}]]
           /\ unlocking' \subseteq Unlock
BY DEF TypeOK, Release, Unlock

LEMMA LocksTyped ==
    ASSUME TypeOK, NEW c \in Conn \cup {NoConn}, NEW t \in Task
    PROVE  /\ [locks EXCEPT ![c][t] = @ + 1] \in [Conn -> [Task -> Nat]]
           /\ [locks EXCEPT ![c][t] = IF @ = 0 THEN 0 ELSE @ - 1] \in [Conn -> [Task -> Nat]]
<1>1. CASE c \in Conn
  <2>1. locks[c] \in [Task -> Nat] /\ locks[c][t] \in Nat
    BY <1>1 DEF TypeOK
  <2>2. /\ [locks[c] EXCEPT ![t] = @ + 1] \in [Task -> Nat]
        /\ [locks[c] EXCEPT ![t] = IF @ = 0 THEN 0 ELSE @ - 1] \in [Task -> Nat]
    BY <2>1
  <2> QED
    BY <1>1, <2>2 DEF TypeOK
<1>2. CASE c \notin Conn
  BY <1>2 DEF TypeOK
<1> QED
  BY <1>1, <1>2

LEMMA TypeStep ==
    ASSUME TypeOK, [Next]_vars
    PROVE  TypeOK'
<1>1. CASE UNCHANGED vars
  BY <1>1 DEF vars, TypeOK
<1>2. ASSUME NEW d \in Dispatch, NEW p \in Process, NEW t \in Task, Reserve(d, p, t)
      PROVE TypeOK'
  <2>1. [proc |-> p, task |-> t, conn |-> NoConn, released |-> FALSE] \in Frame
    BY DEF Frame
  <2> QED
    BY <1>2, <2>1 DEF Reserve, TypeOK
<1>3. ASSUME NEW d \in Dispatch, NEW c \in Conn, Connect(d, c) PROVE TypeOK'
  <2>1. [frame[d] EXCEPT !.conn = c] \in Frame
    BY <1>3, FrameTyped DEF Connect, Frame
  <2> QED
    BY <1>3, <2>1 DEF Connect, TypeOK
<1>4. ASSUME NEW d \in Dispatch, ConnectFails(d) PROVE TypeOK'
  BY <1>4, EndTyped, GiveBackTyped DEF ConnectFails, TypeOK
<1>5. ASSUME NEW d \in Dispatch, Granted(d) PROVE TypeOK'
  <2>1. acquiring' \in [Process -> SUBSET Task]
    BY <1>5, GiveBackTyped DEF Granted
  <2>2. locks' \in [Conn -> [Task -> Nat]]
    BY <1>5, FrameTyped, LocksTyped DEF Granted
  <2>3. held' \in [Process -> [Task -> Conn \cup {NoConn}]]
    BY <1>5, FrameTyped DEF Granted, TypeOK
  <2> QED
    BY <1>5, <2>1, <2>2, <2>3 DEF Granted, TypeOK
<1>6. ASSUME NEW d \in Dispatch, Denied(d) \/ QueryFails(d) PROVE TypeOK'
  BY <1>6, EndTyped, GiveBackTyped DEF Denied, QueryFails, ReturnConn, TypeOK
<1>7. ASSUME NEW d \in Dispatch, LockLeaks(d) PROVE TypeOK'
  <2>1. locks' \in [Conn -> [Task -> Nat]]
    BY <1>7, FrameTyped, LocksTyped DEF LockLeaks
  <2> QED
    BY <1>7, <2>1, EndTyped, GiveBackTyped DEF LockLeaks, ReturnConn, TypeOK
<1>8. ASSUME NEW d \in Dispatch, RunClaimed(d) PROVE TypeOK'
  <2>1. [frame[d] EXCEPT !.released = TRUE] \in Frame
    BY <1>8, FrameTyped DEF RunClaimed, Frame
  <2> QED
    BY <1>8, <2>1, FrameTyped, ReleaseTyped DEF RunClaimed, TypeOK
<1>9. ASSUME NEW d \in Dispatch, ChainEnds(d) PROVE TypeOK'
  <2>1. /\ held' \in [Process -> [Task -> Conn \cup {NoConn}]]
        /\ unlocking' \subseteq Unlock
    BY <1>9, FrameTyped, ReleaseTyped DEF ChainEnds, TypeOK
  <2> QED
    BY <1>9, <2>1, EndTyped DEF ChainEnds, TypeOK
<1>10. ASSUME NEW u \in unlocking, Unlocked(u) PROVE TypeOK'
  <2>1. u.conn \in Conn /\ u.task \in Task
    BY DEF TypeOK, Unlock
  <2>2. locks' \in [Conn -> [Task -> Nat]]
    BY <1>10, <2>1, LocksTyped DEF Unlocked
  <2> QED
    BY <1>10, <2>2 DEF Unlocked, ReturnConn, TypeOK
<1>11. ASSUME NEW u \in unlocking, UnlockFails(u) PROVE TypeOK'
  BY <1>11 DEF UnlockFails, ReturnConn, TypeOK
<1>12. ASSUME NEW c \in Conn, ConnDies(c) PROVE TypeOK'
  BY <1>12 DEF ConnDies, TypeOK
<1>13. ASSUME NEW p \in Process, Crash(p) PROVE TypeOK'
  BY <1>13 DEF Crash, TypeOK
<1> QED
  BY <1>1, <1>2, <1>3, <1>4, <1>5, <1>6, <1>7, <1>8, <1>9, <1>10, <1>11, <1>12, <1>13
     DEF Next, Routine, Acquire, Fault

(* The pool, the session locks, the slots and the locals keep their types. *)
THEOREM TypeCorrect == Spec => []TypeOK
<1>1. Init => TypeOK
  BY DEF Init, TypeOK
<1> QED
  BY <1>1, TypeStep, PTL DEF Spec

-----------------------------------------------------------------------------
(* Slots.                                                                  *)

(* What an action of a dispatch leaves alone. *)
Others(d) == \A e \in Dispatch : e # d => pc'[e] = pc[e] /\ frame'[e] = frame[e]

(* A slot has one dispatch. *)
LEMMA OneSlot ==
    ASSUME SlotInv, NEW d \in Dispatch, NEW e \in Dispatch,
           Slotted(d), Slotted(e), SameSlot(d, e)
    PROVE  d = e
BY DEF SlotInv

(* A dispatch that ends its acquisition gives back its slot alone. *)
LEMMA AcquisitionEnds ==
    ASSUME TypeOK, SlotInv, NEW d \in Dispatch, Acquiring(d),
           GiveBackSlot(d), End(d), held' = held
    PROVE  SlotInv'
<1>1. /\ Others(d) /\ pc'[d] = "idle"
      /\ \A p \in Process : acquiring'[p] =
           acquiring[p] \ (IF p = frame[d].proc THEN {frame[d].task} ELSE {})
  BY DEF TypeOK, End, GiveBackSlot, Others
<1>2. \A e \in Dispatch : Acquiring(e)' => Acquiring(e) /\ e # d /\ frame'[e] = frame[e]
  BY <1>1 DEF Acquiring, Others
<1>3. \A e \in Dispatch : Holding(e) => e # d
  BY DEF Acquiring, Holding
<1>4. \A e \in Dispatch : Holding(e)' <=> Holding(e)
  BY <1>1 DEF Acquiring, Holding, Others
<1>5. \A e \in Dispatch : Holding(e) => frame'[e] = frame[e]
  BY <1>1, <1>3 DEF Others
<1>6. \A e \in Dispatch : Acquiring(e)' => frame'[e].task \in acquiring'[frame'[e].proc]
  <2> SUFFICES ASSUME NEW e \in Dispatch, Acquiring(e)'
               PROVE  frame'[e].task \in acquiring'[frame'[e].proc]
    OBVIOUS
  <2>1. /\ frame[e].proc \in Process /\ frame[e].task \in acquiring[frame[e].proc]
        /\ Acquiring(e) /\ e # d /\ frame'[e] = frame[e]
    BY <1>2, FrameTyped DEF SlotInv, Acquiring
  <2>2. frame[e].proc # frame[d].proc \/ frame[e].task # frame[d].task
    BY <2>1, OneSlot DEF Slotted, SameSlot
  <2> QED
    BY <1>1, <2>1, <2>2
<1>7. \A p \in Process : \A t \in acquiring'[p] :
        \E e \in Dispatch : Acquiring(e)' /\ frame'[e].proc = p /\ frame'[e].task = t
  <2> SUFFICES ASSUME NEW p \in Process, NEW t \in acquiring'[p]
               PROVE  \E e \in Dispatch : Acquiring(e)' /\ frame'[e].proc = p /\ frame'[e].task = t
    OBVIOUS
  <2>1. t \in acquiring[p] /\ (p # frame[d].proc \/ t # frame[d].task)
    BY <1>1
  <2>2. PICK e \in Dispatch : Acquiring(e) /\ frame[e].proc = p /\ frame[e].task = t
    BY <2>1 DEF SlotInv
  <2> QED
    BY <1>1, <2>1, <2>2 DEF Acquiring, Others
<1>8. ReleasesOwnLock'
  BY <1>4, <1>5 DEF SlotInv, ReleasesOwnLock, Holding
<1> QED
  <2>1. \A e, g \in Dispatch :
          Slotted(e)' /\ Slotted(g)' /\ SameSlot(e, g)' => e = g
    <3>1. \A e \in Dispatch : Slotted(e)' => Slotted(e) /\ frame'[e] = frame[e]
      BY <1>2, <1>4, <1>5 DEF Slotted
    <3> QED
      BY <3>1, OneSlot DEF SameSlot
  <2>2. \A p \in Process, t \in Task : held'[p][t] # NoConn =>
          \E e \in Dispatch : Holding(e)' /\ frame'[e].proc = p /\ frame'[e].task = t
    BY <1>4, <1>5 DEF SlotInv
  <2> QED
    BY <1>6, <1>7, <1>8, <2>1, <2>2 DEF SlotInv

LEMMA ConnectionKnown ==
    ASSUME TypeOK, OwnConn, NEW d \in Dispatch, pc[d] \in {"query", "chain"}
    PROVE  frame[d].conn \in Conn /\ frame[d].conn # NoConn
BY FrameTyped, ConstantsAssumption DEF ConstantsAssumption, OwnConn

LEMMA OwnConnStep ==
    ASSUME TypeOK, OwnConn, [Next]_vars
    PROVE  OwnConn'
<1>2. ASSUME UNCHANGED <<pc, frame>> PROVE OwnConn'
  BY <1>2 DEF OwnConn
<1>3. ASSUME NEW d \in Dispatch, NEW p \in Process, NEW t \in Task, Reserve(d, p, t)
      PROVE OwnConn'
  BY <1>3 DEF Reserve, OwnConn, TypeOK
<1>4. ASSUME NEW d \in Dispatch, NEW c \in Conn, Connect(d, c) PROVE OwnConn'
  <2>1. frame[d] \in Frame /\ c \in Pool[frame[d].proc] /\ ~frame[d].released
    BY <1>4, FrameTyped DEF Connect, OwnConn
  <2>2. /\ frame'[d].conn = c /\ frame'[d].proc = frame[d].proc
        /\ frame'[d].released = frame[d].released
    BY <1>4, <2>1 DEF Connect, TypeOK, Frame
  <2>3. \A e \in Dispatch : e # d => pc'[e] = pc[e] /\ frame'[e] = frame[e]
    BY <1>4 DEF Connect, TypeOK
  <2> QED
    BY <2>1, <2>2, <2>3 DEF OwnConn
<1>5. ASSUME NEW d \in Dispatch, End(d) PROVE OwnConn'
  BY <1>5 DEF End, OwnConn, TypeOK
<1>6. ASSUME NEW d \in Dispatch, Granted(d) PROVE OwnConn'
  BY <1>6 DEF Granted, OwnConn, TypeOK
<1>7. ASSUME NEW d \in Dispatch, RunClaimed(d) PROVE OwnConn'
  <2>1. frame[d] \in Frame
    BY <1>7, FrameTyped DEF RunClaimed
  <2>2. frame'[d].conn = frame[d].conn /\ frame'[d].proc = frame[d].proc
    BY <1>7, <2>1 DEF RunClaimed, TypeOK, Frame
  <2> QED
    BY <1>7, <2>2 DEF RunClaimed, OwnConn, TypeOK
<1>8. ASSUME NEW p \in Process, Crash(p) PROVE OwnConn'
  BY <1>8 DEF Crash, OwnConn
<1> QED
  BY <1>2, <1>3, <1>4, <1>5, <1>6, <1>7, <1>8
     DEF vars, Next, Routine, Acquire, Fault, ConnectFails, Denied, QueryFails, LockLeaks,
         ChainEnds, Unlocked, UnlockFails, ConnDies

(* A step that moves no slot and no dispatch. *)
LEMMA SlotsStay ==
    ASSUME SlotInv, held' = held, acquiring' = acquiring, pc' = pc, frame' = frame
    PROVE  SlotInv'
BY DEF SlotInv, ReleasesOwnLock, Slotted, Acquiring, Holding, SameSlot

(* A dispatch is admitted to a slot that nobody has. *)
LEMMA ReserveSlot ==
    ASSUME TypeOK, OwnConn, SlotInv,
           NEW d \in Dispatch, NEW p \in Process, NEW t \in Task, Reserve(d, p, t)
    PROVE  SlotInv'
<1>1. /\ Others(d) /\ held' = held /\ pc[d] = "idle" /\ pc'[d] = "connect"
      /\ frame'[d].proc = p /\ frame'[d].task = t
      /\ \A q \in Process : acquiring'[q] = acquiring[q] \cup (IF q = p THEN {t} ELSE {})
  BY DEF Reserve, TypeOK, Others
<1>2. \A e \in Dispatch :
        /\ Acquiring(e)' <=> Acquiring(e) \/ e = d
        /\ Holding(e)' <=> Holding(e)
        /\ Slotted(e) => e # d /\ frame'[e] = frame[e]
  BY <1>1 DEF Acquiring, Holding, Slotted, Others
<1>3. \A e \in Dispatch : Slotted(e) =>
        frame[e].proc \in Process /\ frame[e].task \in Task /\ pc[e] # "idle"
  BY FrameTyped DEF Slotted, Acquiring, Holding
<1>4. \A e \in Dispatch : Slotted(e) => frame[e].proc # p \/ frame[e].task # t
  <2> SUFFICES ASSUME NEW e \in Dispatch, Slotted(e), frame[e].proc = p, frame[e].task = t
               PROVE  FALSE
    OBVIOUS
  <2>1. t \notin acquiring[p] /\ held[p][t] = NoConn
    BY DEF Reserve, Admit, Slots, HeldTasks
  <2>2. Holding(e)
    BY <2>1 DEF SlotInv, Slotted
  <2>3. held[p][t] = frame[e].conn
    BY <2>2 DEF SlotInv, ReleasesOwnLock, Holding
  <2>4. frame[e].conn # NoConn
    BY <2>2, ConnectionKnown DEF Holding
  <2> QED
    BY <2>1, <2>3, <2>4
<1>5. \A e \in Dispatch : Acquiring(e)' => frame'[e].task \in acquiring'[frame'[e].proc]
  BY <1>1, <1>2, <1>3 DEF SlotInv, Slotted
<1>6. ReleasesOwnLock'
  BY <1>1, <1>2 DEF SlotInv, ReleasesOwnLock, Holding, Slotted
<1>7. \A e, g \in Dispatch : Slotted(e)' /\ Slotted(g)' /\ SameSlot(e, g)' => e = g
  <2>1. \A e \in Dispatch : Slotted(e)' => Slotted(e) \/ e = d
    BY <1>2 DEF Slotted
  <2> QED
    BY <1>1, <1>2, <1>4, <2>1, OneSlot DEF SameSlot
<1>8. \A q \in Process : \A s \in acquiring'[q] :
        \E e \in Dispatch : Acquiring(e)' /\ frame'[e].proc = q /\ frame'[e].task = s
  <2> SUFFICES ASSUME NEW q \in Process, NEW s \in acquiring'[q]
               PROVE  \E e \in Dispatch : Acquiring(e)' /\ frame'[e].proc = q /\ frame'[e].task = s
    OBVIOUS
  <2>1. CASE s \in acquiring[q]
    <3>1. PICK e \in Dispatch : Acquiring(e) /\ frame[e].proc = q /\ frame[e].task = s
      BY <2>1 DEF SlotInv
    <3> QED
      BY <1>2, <3>1 DEF Slotted
  <2>2. CASE s \notin acquiring[q]
    BY <1>1, <1>2, <2>2
  <2> QED
    BY <2>1, <2>2
<1>9. \A q \in Process, s \in Task : held'[q][s] # NoConn =>
        \E e \in Dispatch : Holding(e)' /\ frame'[e].proc = q /\ frame'[e].task = s
  <2> SUFFICES ASSUME NEW q \in Process, NEW s \in Task, held[q][s] # NoConn
               PROVE  \E e \in Dispatch : Holding(e)' /\ frame'[e].proc = q /\ frame'[e].task = s
    BY <1>1
  <2>1. PICK e \in Dispatch : Holding(e) /\ frame[e].proc = q /\ frame[e].task = s
    BY DEF SlotInv
  <2> QED
    BY <1>2, <2>1 DEF Slotted
<1> QED
  BY <1>5, <1>6, <1>7, <1>8, <1>9 DEF SlotInv

(* A dispatch that gets its connection keeps its slot. *)
LEMMA ConnectSlot ==
    ASSUME TypeOK, SlotInv, NEW d \in Dispatch, NEW c \in Conn, Connect(d, c)
    PROVE  SlotInv'
<1>1. /\ Others(d) /\ held' = held /\ acquiring' = acquiring
      /\ pc[d] = "connect" /\ pc'[d] = "query"
  BY DEF Connect, TypeOK, Others
<1>2. frame'[d].proc = frame[d].proc /\ frame'[d].task = frame[d].task
  BY FrameTyped DEF Connect, TypeOK, Frame
<1>3. \A e \in Dispatch :
        /\ frame'[e].proc = frame[e].proc /\ frame'[e].task = frame[e].task
        /\ Acquiring(e)' <=> Acquiring(e)
        /\ Holding(e)' <=> Holding(e)
        /\ Holding(e) => e # d /\ frame'[e] = frame[e]
  BY <1>1, <1>2 DEF Others, Acquiring, Holding
<1>4. ReleasesOwnLock'
  BY <1>1, <1>3 DEF SlotInv, ReleasesOwnLock, Holding
<1>5. \A e, g \in Dispatch : Slotted(e)' /\ Slotted(g)' /\ SameSlot(e, g)' => e = g
  BY <1>3, OneSlot DEF Slotted, SameSlot
<1>6. \A e \in Dispatch : Acquiring(e)' => frame'[e].task \in acquiring'[frame'[e].proc]
  BY <1>1, <1>3 DEF SlotInv
<1>7. \A q \in Process : \A s \in acquiring'[q] :
        \E e \in Dispatch : Acquiring(e)' /\ frame'[e].proc = q /\ frame'[e].task = s
  BY <1>1, <1>3 DEF SlotInv
<1>8. \A q \in Process, s \in Task : held'[q][s] # NoConn =>
        \E e \in Dispatch : Holding(e)' /\ frame'[e].proc = q /\ frame'[e].task = s
  BY <1>1, <1>3 DEF SlotInv
<1> QED
  BY <1>4, <1>5, <1>6, <1>7, <1>8 DEF SlotInv

(* A dispatch that gets its lock turns its reservation into an entry.       *)
LEMMA GrantedSlot ==
    ASSUME TypeOK, OwnConn, SlotInv, NEW d \in Dispatch, Granted(d)
    PROVE  SlotInv'
<1>1. /\ \A e \in Dispatch : e # d => pc'[e] = pc[e]
      /\ frame' = frame /\ pc[d] = "query" /\ pc'[d] = "chain"
      /\ Acquiring(d) /\ Slotted(d) /\ ~Acquiring(d)'
  BY DEF Granted, TypeOK, Acquiring, Slotted
<1>2. /\ frame[d].proc \in Process /\ frame[d].task \in Task /\ frame[d].conn # NoConn
  BY <1>1, FrameTyped, ConnectionKnown
<1>3. \A q \in Process, s \in Task :
        held'[q][s] = IF q = frame[d].proc /\ s = frame[d].task THEN frame[d].conn ELSE held[q][s]
  BY <1>2 DEF Granted, TypeOK
<1>4. \A q \in Process :
        acquiring'[q] = acquiring[q] \ (IF q = frame[d].proc THEN {frame[d].task} ELSE {})
  BY DEF Granted, GiveBackSlot, TypeOK
<1>5. \A e \in Dispatch : e # d =>
        (Acquiring(e)' <=> Acquiring(e)) /\ (Holding(e)' <=> Holding(e))
  BY <1>1 DEF Acquiring, Holding
<1>6. \A e \in Dispatch : Slotted(e) =>
        frame[e].proc \in Process /\ frame[e].task \in Task
  BY FrameTyped DEF Slotted, Acquiring, Holding
<1>7. \A e \in Dispatch : Slotted(e)' => Slotted(e)
  BY <1>1, <1>5 DEF Slotted
<1>8. \A e \in Dispatch : Slotted(e) /\ e # d =>
        frame[e].proc # frame[d].proc \/ frame[e].task # frame[d].task
  BY <1>1, OneSlot DEF SameSlot
<1>9. \A e \in Dispatch : Acquiring(e)' => frame'[e].task \in acquiring'[frame'[e].proc]
  BY <1>1, <1>4, <1>5, <1>6, <1>8 DEF SlotInv, Slotted
<1>10. ReleasesOwnLock'
  <2> SUFFICES ASSUME NEW e \in Dispatch, Holding(e)'
               PROVE  held'[frame[e].proc][frame[e].task] = frame[e].conn
    BY <1>1 DEF ReleasesOwnLock, Holding
  <2>1. CASE e = d
    BY <1>2, <1>3, <2>1
  <2>2. CASE e # d
    <3>1. Slotted(e) /\ held[frame[e].proc][frame[e].task] = frame[e].conn
      BY <1>5, <2>2 DEF SlotInv, ReleasesOwnLock, Holding, Slotted
    <3> QED
      BY <1>3, <1>6, <1>8, <2>2, <3>1
  <2> QED
    BY <2>1, <2>2
<1>11. \A e, g \in Dispatch : Slotted(e)' /\ Slotted(g)' /\ SameSlot(e, g)' => e = g
  BY <1>1, <1>7, OneSlot DEF SameSlot
<1>12. \A q \in Process : \A s \in acquiring'[q] :
        \E e \in Dispatch : Acquiring(e)' /\ frame'[e].proc = q /\ frame'[e].task = s
  <2> SUFFICES ASSUME NEW q \in Process, NEW s \in acquiring'[q]
               PROVE  \E e \in Dispatch : Acquiring(e)' /\ frame'[e].proc = q /\ frame'[e].task = s
    OBVIOUS
  <2>1. s \in acquiring[q] /\ (q # frame[d].proc \/ s # frame[d].task)
    BY <1>4
  <2>2. PICK e \in Dispatch : Acquiring(e) /\ frame[e].proc = q /\ frame[e].task = s
    BY <2>1 DEF SlotInv
  <2> QED
    BY <1>1, <1>5, <2>1, <2>2
<1>13. \A q \in Process, s \in Task : held'[q][s] # NoConn =>
        \E e \in Dispatch : Holding(e)' /\ frame'[e].proc = q /\ frame'[e].task = s
  <2> SUFFICES ASSUME NEW q \in Process, NEW s \in Task, held'[q][s] # NoConn
               PROVE  \E e \in Dispatch : Holding(e)' /\ frame'[e].proc = q /\ frame'[e].task = s
    OBVIOUS
  <2>1. CASE q = frame[d].proc /\ s = frame[d].task
    <3>1. ~frame[d].released
      BY <1>1 DEF OwnConn
    <3> QED
      BY <1>1, <2>1, <3>1 DEF Holding
  <2>2. CASE ~(q = frame[d].proc /\ s = frame[d].task)
    <3>1. PICK e \in Dispatch : Holding(e) /\ frame[e].proc = q /\ frame[e].task = s
      BY <1>3, <2>2 DEF SlotInv
    <3> QED
      BY <1>1, <1>5, <2>2, <3>1
  <2> QED
    BY <2>1, <2>2
<1> QED
  BY <1>9, <1>10, <1>11, <1>12, <1>13 DEF SlotInv

(* Dispatches leave their slots, and those slots, held or not, are given    *)
(* back: what remains is as it was.                                        *)
LEMMA SlotsLeft ==
    ASSUME TypeOK, SlotInv, NEW S \in SUBSET Dispatch,
           \A d \in S : ~Slotted(d)' /\ ~Acquiring(d)' /\ ~Holding(d)',
           \A e \in Dispatch \ S : pc'[e] = pc[e] /\ frame'[e] = frame[e],
           \A q \in Process, t \in Task :
              \/ \E d \in S : Slotted(d) /\ frame[d].proc = q /\ frame[d].task = t
              \/ held'[q][t] = held[q][t] /\ (t \in acquiring'[q] <=> t \in acquiring[q]),
           \A q \in Process, t \in Task :
              (\E d \in S : Slotted(d) /\ frame[d].proc = q /\ frame[d].task = t)
              => held'[q][t] = NoConn /\ t \notin acquiring'[q],
           acquiring' \in [Process -> SUBSET Task]
    PROVE  SlotInv'
<1>1. \A e \in Dispatch :
        /\ Slotted(e)' => e \notin S /\ Slotted(e) /\ frame'[e] = frame[e]
        /\ Acquiring(e)' => e \notin S /\ Acquiring(e) /\ frame'[e] = frame[e]
        /\ Holding(e)' => e \notin S /\ Holding(e) /\ frame'[e] = frame[e]
  BY DEF Slotted, Acquiring, Holding
<1>2. \A e \in Dispatch \ S :
        /\ (Acquiring(e)' <=> Acquiring(e)) /\ (Holding(e)' <=> Holding(e))
        /\ frame'[e] = frame[e]
  BY DEF Acquiring, Holding
<1>3. \A e \in Dispatch : Slotted(e) => frame[e].proc \in Process /\ frame[e].task \in Task
  BY FrameTyped DEF Slotted, Acquiring, Holding
<1>4. \A e \in Dispatch \ S : Slotted(e) =>
        ~\E d \in S : Slotted(d) /\ frame[d].proc = frame[e].proc /\ frame[d].task = frame[e].task
  BY OneSlot DEF SameSlot
<1>5. \A e \in Dispatch : Acquiring(e)' => frame'[e].task \in acquiring'[frame'[e].proc]
  BY <1>1, <1>3, <1>4 DEF SlotInv, Slotted
<1>6. ReleasesOwnLock'
  <2> SUFFICES ASSUME NEW e \in Dispatch, Holding(e)'
               PROVE  held'[frame'[e].proc][frame'[e].task] = frame'[e].conn
    BY DEF ReleasesOwnLock, Holding
  <2>1. e \notin S /\ Holding(e) /\ Slotted(e) /\ frame'[e] = frame[e]
    BY <1>1 DEF Slotted
  <2>2. held[frame[e].proc][frame[e].task] = frame[e].conn
    BY <2>1 DEF SlotInv, ReleasesOwnLock, Holding
  <2> QED
    BY <1>3, <1>4, <2>1, <2>2
<1>7. \A e, g \in Dispatch : Slotted(e)' /\ Slotted(g)' /\ SameSlot(e, g)' => e = g
  BY <1>1, OneSlot DEF SameSlot
<1>8. \A q \in Process : \A t \in acquiring'[q] :
        \E e \in Dispatch : Acquiring(e)' /\ frame'[e].proc = q /\ frame'[e].task = t
  <2> SUFFICES ASSUME NEW q \in Process, NEW t \in acquiring'[q]
               PROVE  \E e \in Dispatch : Acquiring(e)' /\ frame'[e].proc = q /\ frame'[e].task = t
    OBVIOUS
  <2>1. t \in Task /\ t \in acquiring[q]
       /\ ~\E d \in S : Slotted(d) /\ frame[d].proc = q /\ frame[d].task = t
    OBVIOUS
  <2>2. PICK e \in Dispatch : Acquiring(e) /\ frame[e].proc = q /\ frame[e].task = t
    BY <2>1 DEF SlotInv
  <2>3. e \notin S
    BY <2>1, <2>2 DEF Slotted
  <2> QED
    BY <1>2, <2>2, <2>3
<1>9. \A q \in Process, t \in Task : held'[q][t] # NoConn =>
        \E e \in Dispatch : Holding(e)' /\ frame'[e].proc = q /\ frame'[e].task = t
  <2> SUFFICES ASSUME NEW q \in Process, NEW t \in Task, held'[q][t] # NoConn
               PROVE  \E e \in Dispatch : Holding(e)' /\ frame'[e].proc = q /\ frame'[e].task = t
    OBVIOUS
  <2>1. /\ held[q][t] # NoConn
        /\ ~\E d \in S : Slotted(d) /\ frame[d].proc = q /\ frame[d].task = t
    OBVIOUS
  <2>2. PICK e \in Dispatch : Holding(e) /\ frame[e].proc = q /\ frame[e].task = t
    BY <2>1 DEF SlotInv
  <2>3. e \notin S
    BY <2>1, <2>2 DEF Slotted
  <2> QED
    BY <1>2, <2>2, <2>3
<1> QED
  BY <1>5, <1>6, <1>7, <1>8, <1>9 DEF SlotInv

(* The slot a release frees is the dispatch's own. *)
LEMMA ReleaseSlot ==
    ASSUME TypeOK, SlotInv, NEW d \in Dispatch, RunClaimed(d) \/ ChainEnds(d)
    PROVE  SlotInv'
<1>1. /\ Others(d) /\ pc[d] = "chain" /\ acquiring' = acquiring
      /\ ~Acquiring(d)' /\ ~Holding(d)'
  BY FrameTyped DEF RunClaimed, ChainEnds, End, TypeOK, Others, Acquiring, Holding, Frame, NoFrame
<1>2. Slotted(d) <=> ~frame[d].released
  BY <1>1 DEF Slotted, Acquiring, Holding
<1>3. frame[d].proc \in Process /\ frame[d].task \in Task
  BY <1>1, FrameTyped
<1>4. \A q \in Process, t \in Task :
        held'[q][t] = IF ~frame[d].released /\ q = frame[d].proc /\ t = frame[d].task
                      THEN NoConn ELSE held[q][t]
  BY <1>3 DEF RunClaimed, ChainEnds, Release, TypeOK
<1>5. Slotted(d) => frame[d].task \notin acquiring[frame[d].proc]
  <2> SUFFICES ASSUME Slotted(d), frame[d].task \in acquiring[frame[d].proc] PROVE FALSE
    OBVIOUS
  <2>1. PICK e \in Dispatch :
          Acquiring(e) /\ frame[e].proc = frame[d].proc /\ frame[e].task = frame[d].task
    BY <1>3 DEF SlotInv
  <2>2. e = d
    BY <2>1, OneSlot DEF Slotted, SameSlot
  <2> QED
    BY <1>1, <2>1, <2>2 DEF Acquiring
<1> DEFINE S == {d}
<1>6. /\ \A e \in S : ~Slotted(e)' /\ ~Acquiring(e)' /\ ~Holding(e)'
      /\ \A e \in Dispatch \ S : pc'[e] = pc[e] /\ frame'[e] = frame[e]
      /\ \A q \in Process, t \in Task :
           \/ \E e \in S : Slotted(e) /\ frame[e].proc = q /\ frame[e].task = t
           \/ held'[q][t] = held[q][t] /\ (t \in acquiring'[q] <=> t \in acquiring[q])
      /\ \A q \in Process, t \in Task :
           (\E e \in S : Slotted(e) /\ frame[e].proc = q /\ frame[e].task = t)
           => held'[q][t] = NoConn /\ t \notin acquiring'[q]
  BY <1>1, <1>2, <1>4, <1>5 DEF Others, Slotted
<1>7. acquiring' \in [Process -> SUBSET Task]
  BY <1>1 DEF TypeOK
<1> HIDE DEF S
<1>8. S \in SUBSET Dispatch
  BY DEF S
<1> QED
  BY <1>6, <1>7, <1>8, SlotsLeft

(* A process that dies gives back all its slots, and no other. *)
LEMMA CrashSlots ==
    ASSUME TypeOK, SlotInv, NEW p \in Process, Crash(p)
    PROVE  SlotInv'
<1> DEFINE S == {d \in Dispatch : pc[d] # "idle" /\ frame[d].proc = p}
<1>1. \A d \in S : ~Slotted(d)' /\ ~Acquiring(d)' /\ ~Holding(d)'
  BY DEF Crash, Slotted, Acquiring, Holding
<1>2. \A e \in Dispatch \ S : pc'[e] = pc[e] /\ frame'[e] = frame[e]
  BY DEF Crash
<1>3. \A q \in Process, t \in Task :
        /\ held'[q][t] = IF q = p THEN NoConn ELSE held[q][t]
        /\ acquiring'[q] = IF q = p THEN {} ELSE acquiring[q]
  BY DEF Crash, TypeOK
<1>4. acquiring' \in [Process -> SUBSET Task]
  BY DEF Crash, TypeOK
<1>5. \A t \in Task :
        \/ \E d \in S : Slotted(d) /\ frame[d].proc = p /\ frame[d].task = t
        \/ held[p][t] = NoConn /\ t \notin acquiring[p]
  BY DEF SlotInv, Slotted, Acquiring, Holding
<1>6. \A q \in Process, t \in Task :
        \/ \E d \in S : Slotted(d) /\ frame[d].proc = q /\ frame[d].task = t
        \/ held'[q][t] = held[q][t] /\ (t \in acquiring'[q] <=> t \in acquiring[q])
  BY <1>3, <1>5
<1>7. \A q \in Process, t \in Task :
        (\E d \in S : Slotted(d) /\ frame[d].proc = q /\ frame[d].task = t)
        => held'[q][t] = NoConn /\ t \notin acquiring'[q]
  BY <1>3
<1> HIDE DEF S
<1>8. S \in SUBSET Dispatch
  BY DEF S
<1> QED
  BY <1>1, <1>2, <1>4, <1>6, <1>7, <1>8, SlotsLeft

LEMMA SlotStep ==
    ASSUME TypeOK, OwnConn, SlotInv, [Next]_vars
    PROVE  SlotInv'
<1>1. ASSUME NEW d \in Dispatch,
             ConnectFails(d) \/ Denied(d) \/ QueryFails(d) \/ LockLeaks(d)
      PROVE SlotInv'
  <2>1. Acquiring(d) /\ GiveBackSlot(d) /\ End(d) /\ held' = held
    BY <1>1 DEF ConnectFails, Denied, QueryFails, LockLeaks, Acquiring
  <2> QED
    BY <2>1, AcquisitionEnds
<1>2. ASSUME \/ \E u \in unlocking : Unlocked(u) \/ UnlockFails(u)
             \/ \E c \in Conn : ConnDies(c)
             \/ UNCHANGED vars
      PROVE SlotInv'
  BY <1>2, SlotsStay DEF Unlocked, UnlockFails, ConnDies, vars
<1> QED
  BY <1>1, <1>2, ReserveSlot, ConnectSlot, GrantedSlot, ReleaseSlot, CrashSlots
     DEF Next, Routine, Acquire, Fault

LEMMA SlotInvariant == Spec => [](TypeOK /\ OwnConn /\ SlotInv)
<1>1. Init => OwnConn /\ SlotInv
  BY DEF Init, OwnConn, SlotInv, ReleasesOwnLock, Slotted, Acquiring, Holding
<1> QED
  BY <1>1, TypeCorrect, OwnConnStep, SlotStep, PTL DEF Spec

(* The lock that a dispatch is about to release is the one it has taken     *)
(* (ReleasesOwnLock).                                                      *)
THEOREM LocksAreOwn == Spec => []ReleasesOwnLock
<1>1. SlotInv => ReleasesOwnLock
  BY DEF SlotInv
<1> QED
  BY <1>1, SlotInvariant, PTL

-----------------------------------------------------------------------------
(* The cap.                                                                *)

CapInv == \A p \in Process : IsFiniteSet(Slots(p)) /\ Cardinality(Slots(p)) <= MaxLocks

(* Only an admission takes a slot. *)
LEMMA CapStep ==
    ASSUME TypeOK, SlotInv, CapInv, [Next]_vars
    PROVE  CapInv'
<1>1. ASSUME \A q \in Process : Slots(q)' \subseteq Slots(q)
      PROVE  CapInv'
  <2> SUFFICES ASSUME NEW q \in Process
               PROVE  IsFiniteSet(Slots(q)') /\ Cardinality(Slots(q)') <= MaxLocks
    BY DEF CapInv
  <2>1. IsFiniteSet(Slots(q)) /\ Cardinality(Slots(q)) <= MaxLocks
    BY DEF CapInv
  <2>2. IsFiniteSet(Slots(q)') /\ Cardinality(Slots(q)') <= Cardinality(Slots(q))
    BY <1>1, <2>1, FS_Subset
  <2>3. Cardinality(Slots(q)) \in Nat /\ Cardinality(Slots(q)') \in Nat /\ MaxLocks \in Nat
    BY <2>1, <2>2, FS_CardinalityType, ConstantsAssumption DEF ConstantsAssumption
  <2> QED
    BY <2>1, <2>2, <2>3
<1>2. ASSUME NEW d \in Dispatch, NEW p \in Process, NEW t \in Task, Reserve(d, p, t)
      PROVE  CapInv'
  <2>1. \A q \in Process : Slots(q)' = Slots(q) \cup (IF q = p THEN {t} ELSE {})
    BY <1>2 DEF Reserve, Slots, HeldTasks, TypeOK
  <2>2. t \notin Slots(p) /\ Cardinality(Slots(p)) < MaxLocks
    BY <1>2 DEF Reserve, Admit
  <2>3. /\ IsFiniteSet(Slots(p) \cup {t})
        /\ Cardinality(Slots(p) \cup {t}) = Cardinality(Slots(p)) + 1
    BY <2>2, FS_AddElement DEF CapInv
  <2>4. Cardinality(Slots(p)) \in Nat /\ MaxLocks \in Nat
    BY FS_CardinalityType, ConstantsAssumption DEF ConstantsAssumption, CapInv
  <2> SUFFICES ASSUME NEW q \in Process
               PROVE  IsFiniteSet(Slots(q)') /\ Cardinality(Slots(q)') <= MaxLocks
    BY DEF CapInv
  <2>6. CASE q = p
    <3>1. Slots(q)' = Slots(p) \cup {t}
      BY <2>1, <2>6
    <3> QED
      BY <2>2, <2>3, <2>4, <3>1
  <2>7. CASE q # p
    <3>1. Slots(q)' = Slots(q)
      BY <2>1, <2>7
    <3> QED
      BY <3>1 DEF CapInv
  <2> QED
    BY <2>6, <2>7
<1>3. ASSUME NEW d \in Dispatch, Acquiring(d),
             \/ held' = held
             \/ held' = [held EXCEPT ![frame[d].proc][frame[d].task] = frame[d].conn],
             GiveBackSlot(d)
      PROVE  CapInv'
  <2>1. frame[d].proc \in Process /\ frame[d].task \in acquiring[frame[d].proc]
    BY <1>3, FrameTyped DEF SlotInv, Acquiring
  <2>2. \A q \in Process : acquiring'[q] \subseteq acquiring[q]
    BY <1>3 DEF GiveBackSlot, TypeOK
  <2>3. \A q \in Process : HeldTasks(q)' \subseteq Slots(q)
    BY <1>3, <2>1 DEF HeldTasks, Slots, TypeOK
  <2> QED
    BY <1>1, <2>2, <2>3 DEF Slots
<1>4. ASSUME NEW d \in Dispatch, RunClaimed(d) \/ ChainEnds(d)
      PROVE  CapInv'
  <2>1. \A q \in Process : HeldTasks(q)' \subseteq HeldTasks(q)
    BY <1>4 DEF RunClaimed, ChainEnds, Release, HeldTasks, TypeOK
  <2>2. acquiring' = acquiring
    BY <1>4 DEF RunClaimed, ChainEnds
  <2> QED
    BY <1>1, <2>1, <2>2 DEF Slots
<1>5. ASSUME NEW p \in Process, Crash(p) PROVE CapInv'
  <2>1. \A q \in Process : HeldTasks(q)' \subseteq HeldTasks(q) /\ acquiring'[q] \subseteq acquiring[q]
    BY <1>5 DEF Crash, HeldTasks, TypeOK
  <2> QED
    BY <1>1, <2>1 DEF Slots
<1>6. ASSUME held' = held, acquiring' = acquiring
      PROVE  CapInv'
  BY <1>1, <1>6 DEF Slots, HeldTasks
<1>7. ASSUME NEW d \in Dispatch, Acquire(d) \/ LockLeaks(d) PROVE CapInv'
  BY <1>3, <1>6, <1>7
     DEF Acquire, Connect, ConnectFails, Granted, Denied, QueryFails, LockLeaks, Acquiring
<1>8. ASSUME \/ \E u \in unlocking : Unlocked(u) \/ UnlockFails(u)
             \/ \E c \in Conn : ConnDies(c)
             \/ UNCHANGED vars
      PROVE CapInv'
  BY <1>6, <1>8 DEF Unlocked, UnlockFails, ConnDies, vars
<1> QED
  BY <1>2, <1>4, <1>5, <1>7, <1>8 DEF Next, Routine, Fault

(* The slots of a process are those of its dispatches at work, and never    *)
(* more than the cap (SlotsAreUsed).                                       *)
THEOREM SlotsWithinCap == Spec => []SlotsAreUsed
<1>1. Init => CapInv
  <2> SUFFICES ASSUME Init, NEW p \in Process
               PROVE  IsFiniteSet(Slots(p)) /\ Cardinality(Slots(p)) <= MaxLocks
    BY DEF CapInv
  <2>1. Slots(p) = {}
    BY DEF Init, Slots, HeldTasks
  <2> QED
    BY <2>1, FS_EmptySet, ConstantsAssumption DEF ConstantsAssumption
<1>2. TypeOK /\ SlotInv /\ CapInv => SlotsAreUsed
  <2> SUFFICES ASSUME TypeOK, SlotInv, CapInv, NEW p \in Process, NEW t \in Slots(p)
               PROVE  \E d \in Dispatch : pc[d] # "idle" /\ frame[d].proc = p /\ frame[d].task = t
    BY DEF SlotsAreUsed, CapInv
  <2>1. \E d \in Dispatch : (Acquiring(d) \/ Holding(d)) /\ frame[d].proc = p /\ frame[d].task = t
    BY DEF SlotInv, Slots, HeldTasks
  <2> QED
    BY <2>1 DEF Acquiring, Holding
<1> QED
  BY <1>1, <1>2, CapStep, SlotInvariant, PTL DEF Spec

-----------------------------------------------------------------------------
(* Connections.                                                            *)

Using(d) == pc[d] \in {"query", "chain"} /\ ~frame[d].released

(* A connection out of its pool has one user, a connection in it none.      *)
ConnInv ==
    /\ \A d \in Dispatch : Using(d) => conn[frame[d].conn] # "free"
    /\ \A d, e \in Dispatch : Using(d) /\ Using(e) /\ frame[d].conn = frame[e].conn => d = e
    /\ \A u \in unlocking : conn[u.conn] # "free" /\ u.conn \in Pool[u.proc]
    /\ \A d \in Dispatch, u \in unlocking : Using(d) => frame[d].conn # u.conn
    /\ \A u, v \in unlocking : u.conn = v.conn => u = v
    /\ \A c \in Conn : conn[c] # "free" =>
         \/ \E d \in Dispatch : Using(d) /\ frame[d].conn = c
         \/ \E u \in unlocking : u.conn = c

Inv == TypeOK /\ OwnConn /\ SlotInv /\ ConnInv

(* A step after which the same dispatches and unlocks use the same          *)
(* connections, and these are out of their pools.                          *)
LEMMA ConnsStay ==
    ASSUME Inv, unlocking' = unlocking,
           \A c \in Conn : conn'[c] = "free" <=> conn[c] = "free",
           \A d \in Dispatch : (Using(d)' <=> Using(d))
                               /\ (Using(d) => frame'[d].conn = frame[d].conn)
    PROVE  ConnInv'
<1>1. \A d \in Dispatch : Using(d) => frame[d].conn \in Conn
  BY ConnectionKnown DEF Inv, Using
<1>2. \A u \in unlocking : u.conn \in Conn
  BY DEF Inv, TypeOK, Unlock
<1> QED
  BY <1>1, <1>2 DEF Inv, ConnInv

(* A dispatch takes a free connection. *)
LEMMA ConnectConn ==
    ASSUME Inv, NEW d \in Dispatch, NEW c \in Conn, Connect(d, c)
    PROVE  ConnInv'
<1> USE DEF Inv
<1>1. /\ Others(d) /\ pc[d] = "connect" /\ pc'[d] = "query" /\ unlocking' = unlocking
      /\ frame'[d].conn = c /\ frame'[d].released = frame[d].released /\ conn[c] = "free"
  BY FrameTyped DEF Connect, TypeOK, Others, Frame
<1>2. \A e \in Conn : conn'[e] = IF e = c THEN "used" ELSE conn[e]
  BY DEF Connect, TypeOK
<1>3. /\ Using(d)' /\ ~Using(d)
      /\ \A e \in Dispatch : e # d => (Using(e)' <=> Using(e)) /\ frame'[e] = frame[e]
  BY <1>1 DEF Using, Others, OwnConn
<1>4. \A e \in Dispatch : Using(e) => frame[e].conn \in Conn /\ frame[e].conn # c
  BY <1>1, ConnectionKnown DEF ConnInv, Using
<1>5. \A u \in unlocking : u.conn \in Conn /\ u.conn # c
  BY <1>1 DEF ConnInv, TypeOK, Unlock
<1>6. \A e \in Conn : conn'[e] # "free" =>
        \/ \E g \in Dispatch : Using(g)' /\ frame'[g].conn = e
        \/ \E u \in unlocking : u.conn = e
  <2> SUFFICES ASSUME NEW e \in Conn, conn'[e] # "free"
               PROVE  \/ \E g \in Dispatch : Using(g)' /\ frame'[g].conn = e
                      \/ \E u \in unlocking : u.conn = e
    OBVIOUS
  <2>1. CASE e = c
    BY <1>1, <1>3, <2>1
  <2>2. CASE e # c
    BY <1>2, <1>3, <2>2 DEF ConnInv
  <2> QED
    BY <2>1, <2>2
<1>7. \A e \in Dispatch : Using(e)' => conn'[frame'[e].conn] # "free"
  BY <1>1, <1>2, <1>3, <1>4 DEF ConnInv
<1>8. \A e, g \in Dispatch : Using(e)' /\ Using(g)' /\ frame'[e].conn = frame'[g].conn => e = g
  BY <1>1, <1>3, <1>4 DEF ConnInv
<1>9. \A u \in unlocking' : conn'[u.conn] # "free" /\ u.conn \in Pool[u.proc]
  BY <1>1, <1>2, <1>5 DEF ConnInv
<1>10. \A e \in Dispatch, u \in unlocking' : Using(e)' => frame'[e].conn # u.conn
  BY <1>1, <1>3, <1>5 DEF ConnInv
<1>11. \A u, v \in unlocking' : u.conn = v.conn => u = v
  BY <1>1 DEF ConnInv
<1> QED
  BY <1>1, <1>6, <1>7, <1>8, <1>9, <1>10, <1>11 DEF ConnInv

(* Some users give their connections back to their pools: the others keep   *)
(* theirs.                                                                 *)
LEMMA ConnsReturned ==
    ASSUME Inv, NEW S, NEW R,
           \A d \in Dispatch \ S : (Using(d)' <=> Using(d)) /\ frame'[d] = frame[d],
           \A d \in S : ~Using(d)',
           unlocking' = unlocking \ R,
           \A c \in Conn :
              IF \/ \E d \in Dispatch \cap S : Using(d) /\ frame[d].conn = c
                 \/ \E u \in unlocking \cap R : u.conn = c
              THEN conn'[c] = "free" ELSE conn'[c] = conn[c]
    PROVE  ConnInv'
<1> USE DEF Inv
<1>1. \A d \in Dispatch : Using(d)' => d \notin S /\ Using(d) /\ frame'[d] = frame[d]
  OBVIOUS
<1>2. \A d \in Dispatch : Using(d) => frame[d].conn \in Conn
  BY ConnectionKnown DEF Using
<1>3. \A u \in unlocking : u.conn \in Conn
  BY DEF TypeOK, Unlock
<1>4. \A d \in Dispatch : Using(d)' => conn'[frame'[d].conn] # "free"
  <2> SUFFICES ASSUME NEW d \in Dispatch, Using(d)' PROVE conn'[frame[d].conn] # "free"
    BY <1>1
  <2>1. d \notin S /\ Using(d) /\ frame[d].conn \in Conn /\ conn[frame[d].conn] # "free"
    BY <1>1, <1>2 DEF ConnInv
  <2>2. ~\E e \in Dispatch \cap S : Using(e) /\ frame[e].conn = frame[d].conn
    BY <2>1 DEF ConnInv
  <2>3. ~\E u \in unlocking \cap R : u.conn = frame[d].conn
    BY <2>1 DEF ConnInv
  <2> QED
    BY <2>1, <2>2, <2>3
<1>5. \A u \in unlocking' : conn'[u.conn] # "free" /\ u.conn \in Pool[u.proc]
  <2> SUFFICES ASSUME NEW u \in unlocking' PROVE conn'[u.conn] # "free" /\ u.conn \in Pool[u.proc]
    OBVIOUS
  <2>1. u \in unlocking /\ u \notin R /\ u.conn \in Conn /\ conn[u.conn] # "free"
        /\ u.conn \in Pool[u.proc]
    BY <1>3 DEF ConnInv
  <2>2. ~\E e \in Dispatch \cap S : Using(e) /\ frame[e].conn = u.conn
    BY <2>1 DEF ConnInv
  <2>3. ~\E v \in unlocking \cap R : v.conn = u.conn
    BY <2>1 DEF ConnInv
  <2> QED
    BY <2>1, <2>2, <2>3
<1>6. \A c \in Conn : conn'[c] # "free" =>
        \/ \E d \in Dispatch : Using(d)' /\ frame'[d].conn = c
        \/ \E u \in unlocking' : u.conn = c
  <2> SUFFICES ASSUME NEW c \in Conn, conn'[c] # "free"
               PROVE  \/ \E d \in Dispatch : Using(d)' /\ frame'[d].conn = c
                      \/ \E u \in unlocking' : u.conn = c
    OBVIOUS
  <2>1. /\ conn[c] # "free"
        /\ ~\E d \in Dispatch \cap S : Using(d) /\ frame[d].conn = c
        /\ ~\E u \in unlocking \cap R : u.conn = c
    OBVIOUS
  <2> QED
    BY <2>1 DEF ConnInv
<1>7. \A d, e \in Dispatch : Using(d)' /\ Using(e)' /\ frame'[d].conn = frame'[e].conn => d = e
  BY <1>1 DEF ConnInv
<1>8. \A d \in Dispatch, u \in unlocking' : Using(d)' => frame'[d].conn # u.conn
  BY <1>1 DEF ConnInv
<1>9. \A u, v \in unlocking' : u.conn = v.conn => u = v
  BY DEF ConnInv
<1> QED
  BY <1>4, <1>5, <1>6, <1>7, <1>8, <1>9 DEF ConnInv

(* The connection of a released lock goes from the dispatch to the unlock.  *)
LEMMA ReleaseConn ==
    ASSUME Inv, NEW d \in Dispatch, RunClaimed(d) \/ ChainEnds(d), Holding(d)
    PROVE  ConnInv'
<1> USE DEF Inv
<1> DEFINE u == [proc |-> frame[d].proc, task |-> frame[d].task, conn |-> frame[d].conn]
<1>1. /\ frame[d].proc \in Process /\ frame[d].task \in Task
      /\ frame[d].conn \in Conn /\ frame[d].conn # NoConn
      /\ frame[d].conn \in Pool[frame[d].proc] /\ Using(d)
      /\ held[frame[d].proc][frame[d].task] = frame[d].conn
  BY FrameTyped, ConnectionKnown DEF Holding, Using, OwnConn, SlotInv, ReleasesOwnLock
<1>2. unlocking' = unlocking \cup {u} /\ conn' = conn
  BY <1>1 DEF RunClaimed, ChainEnds, Release, Holding
<1>3. Others(d) /\ ~Using(d)'
  BY FrameTyped DEF RunClaimed, ChainEnds, End, TypeOK, Others, Using, Frame, NoFrame
<1>4. \A e \in Dispatch : Using(e)' => e # d /\ Using(e) /\ frame'[e] = frame[e]
  BY <1>3 DEF Using, Others
<1>5. u.conn = frame[d].conn /\ u.proc = frame[d].proc
  OBVIOUS
<1> HIDE DEF u
<1>6. \A e \in Dispatch : Using(e)' => conn'[frame'[e].conn] # "free"
  BY <1>2, <1>4 DEF ConnInv
<1>7. \A e, g \in Dispatch : Using(e)' /\ Using(g)' /\ frame'[e].conn = frame'[g].conn => e = g
  BY <1>4 DEF ConnInv
<1>8. \A v \in unlocking' : conn'[v.conn] # "free" /\ v.conn \in Pool[v.proc]
  BY <1>1, <1>2, <1>5 DEF ConnInv
<1>9. \A e \in Dispatch, v \in unlocking' : Using(e)' => frame'[e].conn # v.conn
  BY <1>1, <1>2, <1>4, <1>5 DEF ConnInv
<1>10. \A v, w \in unlocking' : v.conn = w.conn => v = w
  BY <1>1, <1>2, <1>5 DEF ConnInv
<1>11. \A c \in Conn : conn'[c] # "free" =>
         \/ \E e \in Dispatch : Using(e)' /\ frame'[e].conn = c
         \/ \E v \in unlocking' : v.conn = c
  <2> SUFFICES ASSUME NEW c \in Conn, conn[c] # "free"
               PROVE  \/ \E e \in Dispatch : Using(e)' /\ frame'[e].conn = c
                      \/ \E v \in unlocking' : v.conn = c
    BY <1>2
  <2>1. CASE c = frame[d].conn
    BY <1>2, <1>5, <2>1
  <2>2. CASE c # frame[d].conn
    <3>1. \A e \in Dispatch : Using(e) /\ e # d => Using(e)' /\ frame'[e] = frame[e]
      BY <1>3 DEF Using, Others
    <3>2. \/ \E e \in Dispatch : Using(e) /\ frame[e].conn = c
          \/ \E v \in unlocking : v.conn = c
      BY DEF ConnInv
    <3> QED
      BY <1>2, <2>2, <3>1, <3>2
  <2> QED
    BY <2>1, <2>2
<1> QED
  BY <1>6, <1>7, <1>8, <1>9, <1>10, <1>11 DEF ConnInv

(* A dispatch that is refused, or whose query fails, returns its own.       *)
LEMMA RefusedConn ==
    ASSUME Inv, NEW d \in Dispatch, Denied(d) \/ QueryFails(d) \/ LockLeaks(d)
    PROVE  ConnInv'
<1> USE DEF Inv
<1> DEFINE S == {d}  R == {}
<1>1. /\ Others(d) /\ Using(d) /\ ~Using(d)' /\ unlocking' = unlocking
      /\ conn' = [conn EXCEPT ![frame[d].conn] = "free"]
  BY DEF Denied, QueryFails, LockLeaks, End, ReturnConn, Using, Others, TypeOK, OwnConn
<1>2. /\ \A e \in Dispatch \ S : (Using(e)' <=> Using(e)) /\ frame'[e] = frame[e]
      /\ \A e \in S : ~Using(e)'
      /\ unlocking' = unlocking \ R
      /\ \A c \in Conn :
           IF \/ \E e \in Dispatch \cap S : Using(e) /\ frame[e].conn = c
              \/ \E u \in unlocking \cap R : u.conn = c
           THEN conn'[c] = "free" ELSE conn'[c] = conn[c]
  BY <1>1 DEF Others, Using, TypeOK
<1> HIDE DEF S, R
<1> QED
  BY <1>2, ConnsReturned, SMTT(40)

LEMMA UnlockedConn ==
    ASSUME Inv, NEW u \in unlocking, Unlocked(u) \/ UnlockFails(u)
    PROVE  ConnInv'
<1> USE DEF Inv
<1> DEFINE S == {}  R == {u}
<1>1. /\ pc' = pc /\ frame' = frame /\ unlocking' = unlocking \ {u}
      /\ conn' = [conn EXCEPT ![u.conn] = "free"]
  BY DEF Unlocked, UnlockFails, ReturnConn
<1>2. /\ \A e \in Dispatch \ S : (Using(e)' <=> Using(e)) /\ frame'[e] = frame[e]
      /\ \A e \in S : ~Using(e)'
      /\ unlocking' = unlocking \ R
      /\ \A c \in Conn :
           IF \/ \E e \in Dispatch \cap S : Using(e) /\ frame[e].conn = c
              \/ \E v \in unlocking \cap R : v.conn = c
           THEN conn'[c] = "free" ELSE conn'[c] = conn[c]
  BY <1>1 DEF Using, TypeOK
<1> HIDE DEF S, R
<1> QED
  BY <1>2, ConnsReturned

(* A process that dies takes its pool, its dispatches and its unlocks along.*)
LEMMA CrashConn ==
    ASSUME Inv, NEW p \in Process, Crash(p)
    PROVE  ConnInv'
<1> USE DEF Inv
<1> DEFINE S == {d \in Dispatch : pc[d] # "idle" /\ frame[d].proc = p}
           R == {u \in unlocking : u.proc = p}
<1>1. /\ \A e \in Dispatch \ S : (Using(e)' <=> Using(e)) /\ frame'[e] = frame[e]
      /\ \A e \in S : ~Using(e)'
      /\ unlocking' = unlocking \ R
  BY DEF Crash, Using
<1>2. \A d \in Dispatch : Using(d) =>
        /\ frame[d].conn \in Pool[frame[d].proc] /\ pc[d] # "idle"
        /\ frame[d].proc \in Process
  BY FrameTyped DEF Using, OwnConn
<1>3. \A u \in unlocking : u.conn \in Pool[u.proc] /\ u.proc \in Process
  BY DEF ConnInv, TypeOK, Unlock
<1>4. \A q \in Process : q # p => Pool[p] \cap Pool[q] = {}
  BY ConstantsAssumption DEF ConstantsAssumption
<1>5. ASSUME NEW c \in Conn
      PROVE  IF \/ \E e \in Dispatch \cap S : Using(e) /\ frame[e].conn = c
                \/ \E v \in unlocking \cap R : v.conn = c
             THEN conn'[c] = "free" ELSE conn'[c] = conn[c]
  <2>1. conn'[c] = IF c \in Pool[p] THEN "free" ELSE conn[c]
    BY DEF Crash
  <2>2. CASE conn[c] = "free"
    BY <2>1, <2>2
  <2>3. CASE conn[c] # "free"
    <3>1. \/ \E d \in Dispatch : Using(d) /\ frame[d].conn = c
          \/ \E u \in unlocking : u.conn = c
      BY <2>3 DEF ConnInv
    <3>2. c \in Pool[p] <=> \/ \E e \in Dispatch \cap S : Using(e) /\ frame[e].conn = c
                            \/ \E v \in unlocking \cap R : v.conn = c
      BY <1>2, <1>3, <1>4, <3>1
    <3> QED
      BY <2>1, <3>2
  <2> QED
    BY <2>2, <2>3
<1> HIDE DEF S, R
<1> QED
  BY <1>1, <1>5, ConnsReturned, SMTT(40)

LEMMA ConnStep ==
    ASSUME Inv, [Next]_vars
    PROVE  ConnInv'
<1> USE DEF Inv
<1>1. CASE UNCHANGED vars
  BY <1>1, ConnsStay DEF vars, Using
<1>2. ASSUME NEW d \in Dispatch, NEW p \in Process, NEW t \in Task, Reserve(d, p, t)
      PROVE ConnInv'
  BY <1>2, ConnsStay DEF Reserve, Using, TypeOK
<1>3. ASSUME NEW d \in Dispatch, ConnectFails(d) PROVE ConnInv'
  BY <1>3, ConnsStay DEF ConnectFails, End, Using, TypeOK
<1>4. ASSUME NEW d \in Dispatch, Granted(d) PROVE ConnInv'
  BY <1>4, ConnsStay DEF Granted, Using, TypeOK
<1>5. ASSUME NEW d \in Dispatch, RunClaimed(d) \/ ChainEnds(d) PROVE ConnInv'
  <2>1. CASE Holding(d)
    BY <1>5, <2>1, ReleaseConn
  <2>2. CASE ~Holding(d)
    <3>1. ChainEnds(d) /\ frame[d].released
      BY <1>5, <2>2, FrameTyped DEF RunClaimed, ChainEnds, Holding
    <3>2. /\ ~Using(d) /\ ~Using(d)' /\ Others(d) /\ unlocking' = unlocking /\ conn' = conn
      BY <3>1 DEF ChainEnds, End, Using, Others, TypeOK
    <3> QED
      BY <3>2, ConnsStay DEF Others, Using
  <2> QED
    BY <2>1, <2>2
<1>6. ASSUME NEW c \in Conn, ConnDies(c) PROVE ConnInv'
  BY <1>6, ConnsStay DEF ConnDies, Using, TypeOK
<1> QED
  BY <1>1, <1>2, <1>3, <1>4, <1>5, <1>6, ConnectConn, RefusedConn, UnlockedConn, CrashConn
     DEF Next, Routine, Acquire, Fault

LEMMA Invariants == Spec => []Inv
<1>1. Init => ConnInv
  BY DEF Init, ConnInv, Using
<1>2. TypeOK /\ OwnConn /\ SlotInv /\ ConnInv => Inv
  BY DEF Inv
<1> QED
  BY <1>1, <1>2, ConnStep, SlotInvariant, PTL DEF Spec

(* No connection is lost to its pool, and none has two users                *)
(* (ConnsAccountedFor).                                                    *)
THEOREM ConnectionsAccountedFor == Spec => []ConnsAccountedFor
<1>1. Inv => ConnsAccountedFor
  <2> SUFFICES ASSUME Inv, NEW c \in Conn
               PROVE  Cardinality(Users(c)) = IF conn[c] = "free" THEN 0 ELSE 1
    BY DEF ConnsAccountedFor
  <2>1. Users(c) = {d \in Dispatch : Using(d) /\ frame[d].conn = c}
                   \cup {u \in unlocking : u.conn = c}
    BY DEF Users, Using
  <2>2. CASE conn[c] = "free"
    <3>1. Users(c) = {}
      BY <2>1, <2>2 DEF Inv, ConnInv
    <3> QED
      BY <2>2, <3>1, FS_EmptySet
  <2>3. CASE conn[c] # "free"
    <3>1. PICK x \in Users(c) : TRUE
      BY <2>1, <2>3 DEF Inv, ConnInv
    <3>2. Users(c) = {x}
      BY <2>1, <3>1 DEF Inv, ConnInv
    <3> QED
      BY <2>3, <3>2, FS_Singleton
  <2> QED
    BY <2>2, <2>3
<1> QED
  BY <1>1, Invariants, PTL

-----------------------------------------------------------------------------
(* Mutual exclusion.                                                       *)

(* The server gives a lock to one session, and the session of an owner has  *)
(* the lock of its task.                                                   *)
LockInv ==
    /\ \A t \in Task : \A c, e \in Conn : c # e => locks[c][t] = 0 \/ locks[e][t] = 0
    /\ \A d \in Dispatch : Owns(d) => locks[frame[d].conn][frame[d].task] # 0

(* An owner and its session. *)
LEMMA OwnerTyped ==
    ASSUME Inv, NEW d \in Dispatch, Owns(d)
    PROVE  frame[d].task \in Task /\ frame[d].conn \in Conn /\ Using(d)
BY FrameTyped, ConnectionKnown DEF Inv, Owns, Using

(* Who owns a task after a step that grants nothing owned it before. *)
Keeps == \A d \in Dispatch : Owns(d)' =>
            /\ Owns(d) /\ frame'[d].task = frame[d].task /\ frame'[d].conn = frame[d].conn

LEMMA KeepsStep ==
    ASSUME Inv, [Next]_vars, ~\E d \in Dispatch : Granted(d)
    PROVE  Keeps
<1> USE DEF Inv
<1>1. ASSUME NEW d \in Dispatch, Others(d), ~Owns(d)',
             \A c \in Conn : conn'[c] = "used" => conn[c] = "used" \/ ~\E e \in Dispatch : Owns(e)' /\ frame[e].conn = c
      PROVE  Keeps
  <2> SUFFICES ASSUME NEW e \in Dispatch, Owns(e)'
               PROVE  /\ Owns(e) /\ frame'[e].task = frame[e].task /\ frame'[e].conn = frame[e].conn
    BY DEF Keeps
  <2>1. e # d /\ pc'[e] = pc[e] /\ frame'[e] = frame[e]
    BY <1>1 DEF Others
  <2>2. pc[e] = "chain" /\ ~frame[e].released /\ conn'[frame[e].conn] = "used"
    BY <2>1 DEF Owns
  <2>3. frame[e].conn \in Conn
    BY <2>2, ConnectionKnown
  <2> QED
    BY <1>1, <2>1, <2>2, <2>3 DEF Owns
<1>2. ASSUME pc' = pc, frame' = frame,
             \A c \in Conn : conn'[c] = "used" => conn[c] = "used"
      PROVE  Keeps
  BY <1>2, ConnectionKnown DEF Keeps, Owns
<1>3. ASSUME NEW d \in Dispatch, NEW p \in Process, NEW t \in Task, Reserve(d, p, t)
      PROVE Keeps
  BY <1>1, <1>3 DEF Reserve, Others, Owns, TypeOK
<1>4. ASSUME NEW d \in Dispatch, NEW c \in Conn, Connect(d, c) PROVE Keeps
  <2>1. /\ Others(d) /\ ~Owns(d)' /\ conn[c] = "free"
        /\ \A e \in Conn : e # c => conn'[e] = conn[e]
    BY <1>4 DEF Connect, Others, Owns, TypeOK
  <2>2. \A e \in Dispatch : Owns(e)' => Using(e) /\ e # d
    BY <2>1 DEF Owns, Using, Others
  <2>3. \A e \in Dispatch : Owns(e)' => frame[e].conn # c
    BY <2>1, <2>2 DEF ConnInv
  <2> QED
    BY <1>1, <2>1, <2>3
<1>5. ASSUME NEW d \in Dispatch,
             \/ ConnectFails(d) \/ Denied(d) \/ QueryFails(d) \/ LockLeaks(d)
             \/ RunClaimed(d) \/ ChainEnds(d)
      PROVE Keeps
  <2>1. Others(d) /\ ~Owns(d)'
    BY <1>5, FrameTyped DEF ConnectFails, Denied, QueryFails, LockLeaks, RunClaimed, ChainEnds,
                            End, Others, Owns, TypeOK, Frame
  <2>2. \A c \in Conn : conn'[c] = "used" => conn[c] = "used"
    BY <1>5 DEF ConnectFails, Denied, QueryFails, LockLeaks, RunClaimed, ChainEnds, ReturnConn, TypeOK
  <2> QED
    BY <1>1, <2>1, <2>2
<1>6. ASSUME \/ \E u \in unlocking : Unlocked(u) \/ UnlockFails(u)
             \/ \E c \in Conn : ConnDies(c)
             \/ UNCHANGED vars
      PROVE Keeps
  BY <1>2, <1>6 DEF Unlocked, UnlockFails, ReturnConn, ConnDies, vars, TypeOK
<1>7. ASSUME NEW p \in Process, Crash(p) PROVE Keeps
  <2> SUFFICES ASSUME NEW e \in Dispatch, Owns(e)'
               PROVE  /\ Owns(e) /\ frame'[e].task = frame[e].task /\ frame'[e].conn = frame[e].conn
    BY DEF Keeps
  <2>1. pc'[e] = pc[e] /\ frame'[e] = frame[e] /\ pc[e] = "chain" /\ ~frame[e].released
    BY <1>7 DEF Crash, Owns, NoFrame
  <2>2. frame[e].conn \in Conn
    BY <2>1, ConnectionKnown
  <2> QED
    BY <1>7, <2>1, <2>2 DEF Crash, Owns
<1> QED
  BY <1>3, <1>4, <1>5, <1>6, <1>7 DEF Next, Routine, Acquire, Fault

LEMMA LockStep ==
    ASSUME Inv, LockInv, [Next]_vars
    PROVE  LockInv'
<1> USE DEF Inv
<1> DEFINE Exclusive == \A t \in Task : \A c, e \in Conn : c # e => locks[c][t] = 0 \/ locks[e][t] = 0
           Owned == \A d \in Dispatch : Owns(d) => locks[frame[d].conn][frame[d].task] # 0
<1>1. \A d \in Dispatch : Owns(d) =>
        frame[d].task \in Task /\ frame[d].conn \in Conn /\ Using(d)
  BY OwnerTyped
<1>2. ASSUME NEW c \in Conn, NEW t \in Task, Lockable(c, t), locks' = [locks EXCEPT ![c][t] = @ + 1]
      PROVE  /\ Exclusive' /\ locks'[c][t] # 0
             /\ \A e \in Conn, s \in Task : locks[e][s] # 0 => locks'[e][s] # 0
  <2>1. locks[c][t] \in Nat /\ locks[c] \in [Task -> Nat]
    BY DEF TypeOK
  <2>2. /\ locks'[c][t] = locks[c][t] + 1
        /\ \A e \in Conn, s \in Task : e # c \/ s # t => locks'[e][s] = locks[e][s]
    BY <1>2, <2>1 DEF TypeOK
  <2> QED
    BY <1>2, <2>1, <2>2 DEF LockInv, Lockable
<1>3. ASSUME NEW d \in Dispatch, Granted(d) PROVE LockInv'
  <2>1. frame[d].conn \in Conn /\ frame[d].task \in Task /\ frame' = frame /\ conn' = conn
    BY <1>3, FrameTyped, ConnectionKnown DEF Granted
  <2>2. \A e \in Dispatch : Owns(e)' => Owns(e) \/ e = d
    BY <1>3, <2>1 DEF Granted, Owns, TypeOK
  <2>3. /\ Lockable(frame[d].conn, frame[d].task)
        /\ locks' = [locks EXCEPT ![frame[d].conn][frame[d].task] = @ + 1]
    BY <1>3 DEF Granted
  <2>4. /\ Exclusive' /\ locks'[frame[d].conn][frame[d].task] # 0
        /\ \A e \in Conn, t \in Task : locks[e][t] # 0 => locks'[e][t] # 0
    BY <1>2, <2>1, <2>3
  <2>5. Owned'
    BY <1>1, <2>1, <2>2, <2>4 DEF LockInv
  <2> QED
    BY <2>4, <2>5 DEF LockInv
<1>4. ASSUME Keeps, NEW d \in Dispatch, LockLeaks(d) PROVE LockInv'
  <2>1. frame[d].conn \in Conn /\ frame[d].task \in Task
    BY <1>4, FrameTyped, ConnectionKnown DEF LockLeaks
  <2>2. /\ Lockable(frame[d].conn, frame[d].task)
        /\ locks' = [locks EXCEPT ![frame[d].conn][frame[d].task] = @ + 1]
    BY <1>4 DEF LockLeaks
  <2>3. /\ Exclusive'
        /\ \A e \in Conn, t \in Task : locks[e][t] # 0 => locks'[e][t] # 0
    BY <1>2, <2>1, <2>2
  <2>4. Owned'
    BY <1>1, <1>4, <2>3 DEF LockInv, Keeps
  <2> QED
    BY <2>3, <2>4 DEF LockInv
<1>5. ASSUME Keeps, locks' = locks PROVE LockInv'
  BY <1>5 DEF LockInv, Keeps
<1>6. ASSUME Keeps,
             \A c \in Conn, t \in Task : locks[c][t] = 0 => locks'[c][t] = 0,
             \A d \in Dispatch : Owns(d)' => locks'[frame[d].conn][frame[d].task]
                                          = locks[frame[d].conn][frame[d].task]
      PROVE LockInv'
  <2>1. Exclusive'
    BY <1>6 DEF LockInv
  <2>2. Owned'
    BY <1>6 DEF LockInv, Keeps
  <2> QED
    BY <2>1, <2>2 DEF LockInv
<1>7. ASSUME Keeps, NEW u \in unlocking, Unlocked(u) PROVE LockInv'
  <2>1. u.conn \in Conn /\ u.task \in Task /\ \A d \in Dispatch : Owns(d)' => frame[d].conn # u.conn
    BY <1>1, <1>7 DEF Keeps, ConnInv, TypeOK, Unlock
  <2>2. locks[u.conn] \in [Task -> Nat] /\ locks \in [Conn -> [Task -> Nat]]
    BY <2>1 DEF TypeOK
  <2>3. \A c \in Conn, t \in Task :
          locks'[c][t] = IF c = u.conn /\ t = u.task
                         THEN IF locks[c][t] = 0 THEN 0 ELSE locks[c][t] - 1 ELSE locks[c][t]
    BY <1>7, <2>1, <2>2 DEF Unlocked
  <2> QED
    BY <1>1, <1>6, <1>7, <2>1, <2>3 DEF Keeps
<1>8. ASSUME Keeps, NEW c \in Conn, ConnDies(c) PROVE LockInv'
  <2>1. \A e \in Conn, t \in Task : locks'[e][t] = IF e = c THEN 0 ELSE locks[e][t]
    BY <1>8 DEF ConnDies, TypeOK
  <2>2. \A d \in Dispatch : Owns(d)' => frame[d].conn # c
    BY <1>8 DEF ConnDies, Owns, TypeOK
  <2> QED
    BY <1>1, <1>6, <1>8, <2>1, <2>2 DEF Keeps
<1>9. ASSUME Keeps, NEW p \in Process, Crash(p) PROVE LockInv'
  <2>1. \A e \in Conn, t \in Task : locks'[e][t] = IF e \in Pool[p] THEN 0 ELSE locks[e][t]
    BY <1>9 DEF Crash
  <2>2. \A d \in Dispatch : Owns(d)' => frame[d].conn \notin Pool[p]
    BY <1>1, <1>9 DEF Crash, Owns, Keeps
  <2> QED
    BY <1>1, <1>6, <1>9, <2>1, <2>2 DEF Keeps
<1>10. CASE \E d \in Dispatch : Granted(d)
  BY <1>3, <1>10
<1>11. CASE ~\E d \in Dispatch : Granted(d)
  <2>1. Keeps
    BY <1>11, KeepsStep
  <2>2. CASE \/ UNCHANGED vars
             \/ \E d \in Dispatch, p \in Process, t \in Task : Reserve(d, p, t)
             \/ \E d \in Dispatch : Acquire(d) \/ RunClaimed(d) \/ ChainEnds(d)
             \/ \E u \in unlocking : UnlockFails(u)
    <3>1. locks' = locks
      BY <1>11, <2>2 DEF vars, Reserve, Acquire, Connect, ConnectFails, Denied, QueryFails,
                         RunClaimed, ChainEnds, UnlockFails
    <3> QED
      BY <1>5, <2>1, <3>1
  <2> QED
    BY <1>4, <1>7, <1>8, <1>9, <2>1, <2>2 DEF Next, Routine, Fault
<1> QED
  BY <1>10, <1>11

(* Two owners of a task would have its lock in two sessions. *)
LEMMA OneOwner ==
    ASSUME Inv, LockInv, NEW d \in Dispatch, NEW e \in Dispatch, Owns(d), Owns(e),
           frame[d].task = frame[e].task
    PROVE  d = e
BY OwnerTyped DEF Inv, ConnInv, LockInv

LEMMA OwnerIs ==
    Inv /\ LockInv => \A t \in Task :
        /\ \A d \in Dispatch : Owns(d) /\ frame[d].task = t => Owner[t] = d
        /\ ~(\E d \in Dispatch : Owns(d) /\ frame[d].task = t) => Owner[t] = NoDispatch
<1> SUFFICES ASSUME Inv, LockInv, NEW t \in Task
             PROVE  /\ \A d \in Dispatch : Owns(d) /\ frame[d].task = t => Owner[t] = d
                    /\ ~(\E d \in Dispatch : Owns(d) /\ frame[d].task = t) => Owner[t] = NoDispatch
  OBVIOUS
<1>1. \A d, e \in Dispatch : Owns(d) /\ Owns(e) /\ frame[d].task = t /\ frame[e].task = t => d = e
  BY OneOwner
<1> QED
  BY <1>1 DEF Owner

(* A step that grants a task gives it to one that had none, any other ends  *)
(* what it ends.                                                           *)
LEMMA MutexStep ==
    ASSUME Inv, LockInv, [Next]_vars, Inv', LockInv'
    PROVE  [Mutex!Next]_Owner
<1> USE DEF Inv
<1>1. /\ Owner = [t \in Task |-> Owner[t]]
      /\ Owner' = [t \in Task |-> Owner'[t]]
  BY DEF Owner
<1>2. \A t \in Task :
        /\ \A d \in Dispatch : Owns(d) /\ frame[d].task = t => Owner[t] = d
        /\ ~(\E d \in Dispatch : Owns(d) /\ frame[d].task = t) => Owner[t] = NoDispatch
  BY OwnerIs
<1>3. (\A t \in Task :
        /\ \A d \in Dispatch : Owns(d) /\ frame[d].task = t => Owner[t] = d
        /\ ~(\E d \in Dispatch : Owns(d) /\ frame[d].task = t) => Owner[t] = NoDispatch)'
  BY OwnerIs, PTL
<1>4. NoDispatch \notin Dispatch
  BY ConstantsAssumption DEF ConstantsAssumption
<1>5. CASE Keeps
  <2> DEFINE S == {t \in Task : Owner'[t] # Owner[t]}
  <2>1. \A t \in S : Owner'[t] = NoDispatch
    BY <1>2, <1>3, <1>5 DEF Keeps
  <2>2. Owner' = [t \in Task |-> IF t \in S THEN NoDispatch ELSE Owner[t]]
    BY <1>1, <2>1
  <2>3. Mutex!End(S)
    BY <2>2 DEF Mutex!End
  <2> QED
    BY <2>3 DEF Mutex!Next
<1>6. ASSUME NEW d \in Dispatch, Granted(d) PROVE [Mutex!Next]_Owner
  <2> DEFINE t == frame[d].task
  <2>1. t \in Task /\ frame[d].conn \in Conn /\ pc[d] = "query" /\ frame' = frame /\ conn' = conn
        /\ Lockable(frame[d].conn, t) /\ conn[frame[d].conn] = "used" /\ ~frame[d].released
        /\ pc' = [pc EXCEPT ![d] = "chain"]
    BY <1>6, FrameTyped, ConnectionKnown DEF Granted, OwnConn
  <2>2. ~Owns(d) /\ Owns(d)' /\ \A e \in Dispatch : e # d => (Owns(e)' <=> Owns(e))
    BY <2>1 DEF Owns, TypeOK
  <2>3. ~\E e \in Dispatch : Owns(e) /\ frame[e].task = t
    <3> SUFFICES ASSUME NEW e \in Dispatch, Owns(e), frame[e].task = t PROVE FALSE
      OBVIOUS
    <3>1. e # d /\ Using(d) /\ Using(e) /\ frame[e].conn \in Conn
      BY <2>1, <2>2, OwnerTyped DEF Using
    <3>2. frame[e].conn # frame[d].conn
      BY <3>1 DEF ConnInv
    <3> QED
      BY <2>1, <3>1, <3>2 DEF Lockable, LockInv
  <2>4. Owner[t] = NoDispatch /\ Owner'[t] = d
    BY <1>2, <1>3, <2>1, <2>2, <2>3
  <2>5. \A u \in Task : u # t => Owner'[u] = Owner[u]
    BY <1>2, <1>3, <2>1, <2>2
  <2>6. \A u \in Task : Owner[u] # d
    BY <1>2, <1>4, <2>2
  <2>7. Owner' = [Owner EXCEPT ![t] = d]
    BY <1>1, <2>4, <2>5
  <2>8. Mutex!Grant(t, d)
    BY <2>4, <2>6, <2>7 DEF Mutex!Grant
  <2> QED
    BY <2>1, <2>8 DEF Mutex!Next
<1> QED
  BY <1>5, <1>6, KeepsStep

(* The locks implement the mutual exclusion of tasks (MutexSpec).           *)
THEOREM LocksAreMutex == Spec => MutexSpec
<1>1. Init => Mutex!Init
  BY DEF Init, Owner, Owns, Mutex!Init
<1>2. Init => LockInv
  BY DEF Init, LockInv, Owns
<1>3. Spec => [](Inv /\ LockInv)
  BY <1>2, LockStep, Invariants, PTL DEF Spec
<1> QED
  BY <1>1, <1>3, MutexStep, PTL DEF Spec, MutexSpec, Mutex!Spec
===============================================================================
