-------------------------------- MODULE TaskLock -------------------------------
(***************************************************************************)
(* The advisory locks under which the workflow's recheck dispatches a task  *)
(* (database/locks.ts, _dispatchUnderLock of workflow/workflowEngine.ts).   *)
(*                                                                         *)
(* A lock belongs to a PostgreSQL session, so a dispatch keeps a connection *)
(* of its process's pool for as long as it has its task.  The process caps  *)
(* how many it keeps that way.  Session locks are counted: a session may    *)
(* take one again, and keeps it until it has unlocked it as often.          *)
(***************************************************************************)
EXTENDS Integers, FiniteSets

CONSTANTS
    Process, Task, Dispatch,
    Conn,          \* the connections of all pools
    Pool,          \* Pool[p]: those of process p
    MaxLocks,      \* MAX_CONCURRENT_TASK_LOCKS
    NoConn, NoDispatch

ASSUME ConstantsAssumption ==
    /\ Pool \in [Process -> SUBSET Conn]
    /\ \A p, q \in Process : p # q => Pool[p] \cap Pool[q] = {}
    /\ MaxLocks \in Nat
    /\ NoConn \notin Conn /\ NoDispatch \notin Dispatch

VARIABLES
    conn,       \* a connection is free in its pool, in use, or in use and dead
    locks,      \* locks[c][t]: how often the session of c has the lock of t
    held,       \* _heldLocks of each process
    acquiring,  \* _acquiringLocks of each process
    unlocking,  \* the releases waiting for their unlock
    pc, frame   \* the dispatches, and their locals

vars == <<conn, locks, held, acquiring, unlocking, pc, frame>>

Frame == [proc : Process, task : Task, conn : Conn \cup {NoConn}, released : BOOLEAN]
NoFrame == [released |-> TRUE]

Unlock == [proc : Process, task : Task, conn : Conn]

TypeOK ==
    /\ conn \in [Conn -> {"free", "used", "dead"}]
    /\ locks \in [Conn -> [Task -> Nat]]
    /\ held \in [Process -> [Task -> Conn \cup {NoConn}]]
    /\ acquiring \in [Process -> SUBSET Task]
    /\ unlocking \subseteq Unlock
    /\ pc \in [Dispatch -> {"idle", "connect", "query", "chain"}]
    /\ frame \in [Dispatch -> Frame \cup {NoFrame}]
    /\ \A d \in Dispatch : pc[d] # "idle" => frame[d] \in Frame

Init ==
    /\ conn = [c \in Conn |-> "free"]
    /\ locks = [c \in Conn |-> [t \in Task |-> 0]]
    /\ held = [p \in Process |-> [t \in Task |-> NoConn]]
    /\ acquiring = [p \in Process |-> {}]
    /\ unlocking = {}
    /\ pc = [d \in Dispatch |-> "idle"]
    /\ frame = [d \in Dispatch |-> NoFrame]

-----------------------------------------------------------------------------
HeldTasks(p) == {t \in Task : held[p][t] # NoConn}
Slots(p) == HeldTasks(p) \cup acquiring[p]

(* No other session has the lock. *)
Lockable(c, t) == \A e \in Conn \ {c} : locks[e][t] = 0

GiveBackSlot(d) ==
    acquiring' = [acquiring EXCEPT ![frame[d].proc] = @ \ {frame[d].task}]

End(d) == /\ pc' = [pc EXCEPT ![d] = "idle"]
          /\ frame' = [frame EXCEPT ![d] = NoFrame]

(* The session of a connection that died has no locks; the pool opens a new *)
(* one in its place.                                                       *)
ReturnConn(c) == conn' = [conn EXCEPT ![c] = "free"]

(* Mutant of Admit: the slots of acquisitions in flight are not counted.    *)
Admit_HeldOnly(p, t) ==
    /\ t \notin Slots(p)
    /\ Cardinality(HeldTasks(p)) < MaxLocks

(* The test tryAcquireTaskLock makes before its first await. *)
Admit(p, t) ==
    /\ t \notin Slots(p)
    /\ Cardinality(Slots(p)) < MaxLocks

(* The recheck dispatches a task; a refused dispatch leaves no trace.       *)
Reserve(d, p, t) ==
    /\ pc[d] = "idle" /\ Admit(p, t)
    /\ acquiring' = [acquiring EXCEPT ![p] = @ \cup {t}]
    /\ pc' = [pc EXCEPT ![d] = "connect"]
    /\ frame' = [frame EXCEPT ![d] =
         [proc |-> p, task |-> t, conn |-> NoConn, released |-> FALSE]]
    /\ UNCHANGED <<conn, locks, held, unlocking>>

Connect(d, c) ==
    /\ pc[d] = "connect" /\ c \in Pool[frame[d].proc] /\ conn[c] = "free"
    /\ conn' = [conn EXCEPT ![c] = "used"]
    /\ pc' = [pc EXCEPT ![d] = "query"]
    /\ frame' = [frame EXCEPT ![d].conn = c]
    /\ UNCHANGED <<locks, held, acquiring, unlocking>>

(* The pool is exhausted, or the checkout timed out. *)
ConnectFails(d) ==
    /\ pc[d] = "connect"
    /\ GiveBackSlot(d) /\ End(d)
    /\ UNCHANGED <<conn, locks, held, unlocking>>

Granted(d) ==
    LET c == frame[d].conn  t == frame[d].task
    IN  /\ pc[d] = "query" /\ conn[c] = "used" /\ Lockable(c, t)
        /\ locks' = [locks EXCEPT ![c][t] = @ + 1]
        /\ held' = [held EXCEPT ![frame[d].proc][t] = c]
        /\ GiveBackSlot(d)
        /\ pc' = [pc EXCEPT ![d] = "chain"]
        /\ UNCHANGED <<conn, unlocking, frame>>

(* Mutant of Denied: the connection is not returned. *)
Denied_KeepsConn(d) ==
    LET c == frame[d].conn
    IN  /\ pc[d] = "query" /\ conn[c] = "used" /\ ~Lockable(c, frame[d].task)
        /\ GiveBackSlot(d) /\ End(d)
        /\ UNCHANGED <<conn, locks, held, unlocking>>

(* A sibling has the lock. *)
Denied(d) ==
    LET c == frame[d].conn
    IN  /\ pc[d] = "query" /\ conn[c] = "used" /\ ~Lockable(c, frame[d].task)
        /\ ReturnConn(c)
        /\ GiveBackSlot(d) /\ End(d)
        /\ UNCHANGED <<locks, held, unlocking>>

(* The connection died under the query... *)
QueryFails(d) ==
    LET c == frame[d].conn
    IN  /\ pc[d] = "query" /\ conn[c] = "dead"
        /\ ReturnConn(c)
        /\ GiveBackSlot(d) /\ End(d)
        /\ UNCHANGED <<locks, held, unlocking>>

(* ... or the statement was cancelled after it had taken the lock: the      *)
(* session goes back to the pool with it.                                   *)
LockLeaks(d) ==
    LET c == frame[d].conn  t == frame[d].task
    IN  /\ pc[d] = "query" /\ conn[c] = "used" /\ Lockable(c, t)
        /\ locks' = [locks EXCEPT ![c][t] = @ + 1]
        /\ ReturnConn(c)
        /\ GiveBackSlot(d) /\ End(d)
        /\ UNCHANGED <<held, unlocking>>

(* releaseTaskLock, up to its first await: the entry of the map goes first. *)
Release(p, t) ==
    /\ held' = [held EXCEPT ![p][t] = NoConn]
    /\ unlocking' = IF held[p][t] = NoConn THEN unlocking
                    ELSE unlocking \cup {[proc |-> p, task |-> t, conn |-> held[p][t]]}

(* Mutant of RunClaimed: the flag is not set. *)
RunClaimed_Unflagged(d) ==
    /\ pc[d] = "chain" /\ ~frame[d].released
    /\ Release(frame[d].proc, frame[d].task)
    /\ UNCHANGED <<conn, locks, acquiring, pc, frame>>

(* A run of the chain has its claim, which fences the task from now on: the *)
(* lock is released, once, and the chain goes on.                           *)
RunClaimed(d) ==
    /\ pc[d] = "chain" /\ ~frame[d].released
    /\ Release(frame[d].proc, frame[d].task)
    /\ frame' = [frame EXCEPT ![d].released = TRUE]
    /\ UNCHANGED <<conn, locks, acquiring, pc>>

(* Mutant of ChainEnds: the lock is released again when the chain settles.  *)
ChainEnds_ReleasesAgain(d) ==
    /\ pc[d] = "chain"
    /\ Release(frame[d].proc, frame[d].task)
    /\ End(d)
    /\ UNCHANGED <<conn, locks, acquiring>>

(* The chain settles; its finally releases what was not released before.    *)
ChainEnds(d) ==
    /\ pc[d] = "chain"
    /\ IF frame[d].released THEN UNCHANGED <<held, unlocking>>
       ELSE Release(frame[d].proc, frame[d].task)
    /\ End(d)
    /\ UNCHANGED <<conn, locks, acquiring>>

(* Mutant of Unlocked: what an unlock removes is assumed to be there.       *)
Unlocked_Blind(u) ==
    /\ u \in unlocking
    /\ locks' = [locks EXCEPT ![u.conn][u.task] = @ - 1]
    /\ ReturnConn(u.conn)
    /\ unlocking' = unlocking \ {u}
    /\ UNCHANGED <<held, acquiring, pc, frame>>

(* pg_advisory_unlock and the return of the connection; on one that died,   *)
(* the return alone.                                                       *)
Unlocked(u) ==
    /\ u \in unlocking
    /\ locks' = [locks EXCEPT ![u.conn][u.task] = IF @ = 0 THEN 0 ELSE @ - 1]
    /\ ReturnConn(u.conn)
    /\ unlocking' = unlocking \ {u}
    /\ UNCHANGED <<held, acquiring, pc, frame>>

(* The unlock is cancelled: the session goes back to the pool with the lock.*)
UnlockFails(u) ==
    /\ u \in unlocking /\ conn[u.conn] = "used"
    /\ ReturnConn(u.conn)
    /\ unlocking' = unlocking \ {u}
    /\ UNCHANGED <<locks, held, acquiring, pc, frame>>

(* A session ends, in the pool or in use, and its locks with it.            *)
ConnDies(c) ==
    /\ conn' = [conn EXCEPT ![c] = IF @ = "used" THEN "dead" ELSE @]
    /\ locks' = [locks EXCEPT ![c] = [t \in Task |-> 0]]
    /\ UNCHANGED <<held, acquiring, unlocking, pc, frame>>

(* A process dies, and its connections with it. *)
Crash(p) ==
    LET dead == {d \in Dispatch : pc[d] # "idle" /\ frame[d].proc = p}
    IN  /\ conn' = [c \in Conn |-> IF c \in Pool[p] THEN "free" ELSE conn[c]]
        /\ locks' = [c \in Conn |-> IF c \in Pool[p] THEN [t \in Task |-> 0] ELSE locks[c]]
        /\ held' = [held EXCEPT ![p] = [t \in Task |-> NoConn]]
        /\ acquiring' = [acquiring EXCEPT ![p] = {}]
        /\ unlocking' = {u \in unlocking : u.proc # p}
        /\ pc' = [d \in Dispatch |-> IF d \in dead THEN "idle" ELSE pc[d]]
        /\ frame' = [d \in Dispatch |-> IF d \in dead THEN NoFrame ELSE frame[d]]

-----------------------------------------------------------------------------
Acquire(d) ==
    \/ \E c \in Conn : Connect(d, c)
    \/ ConnectFails(d) \/ Granted(d) \/ Denied(d) \/ QueryFails(d)

Routine ==
    \/ \E d \in Dispatch, p \in Process, t \in Task : Reserve(d, p, t)
    \/ \E d \in Dispatch : Acquire(d) \/ RunClaimed(d) \/ ChainEnds(d)
    \/ \E u \in unlocking : Unlocked(u)

Fault ==
    \/ \E d \in Dispatch : LockLeaks(d)
    \/ \E u \in unlocking : UnlockFails(u)
    \/ \E c \in Conn : ConnDies(c)
    \/ \E p \in Process : Crash(p)

Next == Routine \/ Fault

Spec == Init /\ [][Next]_vars

-----------------------------------------------------------------------------
(* Properties.                                                             *)

(* The dispatch has its task: it is in its chain, it has not released the   *)
(* lock, and the session that has the lock lives.                           *)
Owns(d) == pc[d] = "chain" /\ ~frame[d].released /\ conn[frame[d].conn] = "used"

(* The lock a dispatch is about to release is its own: the map still names  *)
(* the connection it took for its task (the flag of _dispatchUnderLock, the *)
(* deletion before the unlock in releaseTaskLock).                          *)
ReleasesOwnLock ==
    \A d \in Dispatch : pc[d] = "chain" /\ ~frame[d].released =>
        held[frame[d].proc][frame[d].task] = frame[d].conn

(* "A counter that leaks is worse than no counter" (locks.ts:99): the slots *)
(* taken are those of the dispatches that are acquiring or have a lock, and *)
(* they never exceed the cap that protects the shared pool.                 *)
SlotsAreUsed ==
    \A p \in Process :
        /\ Cardinality(Slots(p)) <= MaxLocks
        /\ \A t \in Slots(p) : \E d \in Dispatch :
             pc[d] # "idle" /\ frame[d].proc = p /\ frame[d].task = t

(* No connection is lost to the pool: one that is checked out is used by    *)
(* exactly one dispatch or one unlock.                                      *)
Users(c) == {d \in Dispatch : pc[d] \in {"query", "chain"} /\ ~frame[d].released
                               /\ frame[d].conn = c}
            \cup {u \in unlocking : u.conn = c}
ConnsAccountedFor ==
    \A c \in Conn : Cardinality(Users(c)) = IF conn[c] = "free" THEN 0 ELSE 1

(* The locks implement TaskMutex: a task has one owner at a time, over all  *)
(* processes, whatever sessions and processes die and however releases fail *)
(* ("only the lock holder processes a given task", workflowEngine.ts:820).  *)
Owner == [t \in Task |->
    IF \E d \in Dispatch : Owns(d) /\ frame[d].task = t
    THEN CHOOSE d \in Dispatch : Owns(d) /\ frame[d].task = t ELSE NoDispatch]
Mutex == INSTANCE TaskMutex WITH owner <- Owner, Nobody <- NoDispatch
MutexSpec == Mutex!Spec
===============================================================================
