----------------------------- MODULE TerminalProofs ----------------------------
(***************************************************************************)
(* A terminal is handed out in the agent's working copy only, one nobody    *)
(* looks at is on its way to be reaped, and the credentials of a CLI that   *)
(* runs are mirrored, for any number of sessions, requests, projects and    *)
(* configurations.                                                          *)
(***************************************************************************)
EXTENDS Terminal, TLAPS

(* What a request knows while it opens, uses or closes a session. *)
Locals ==
    \A h \in Handler :
        /\ pc[h] \in ClosePhase \cup {"tmux", "broker", "publish", "attach", "attached", "inject"}
             => frame[h].session \in Session
        /\ frame[h].kind = "switch" => frame[h].project \in Project
        /\ pc[h] = "project" => frame[h].kind = "switch"
        /\ pc[h] = "open" => frame[h].kind \in {"view", "input"}

(* The lock is held while a session is opened, and while the project is     *)
(* switched.                                                               *)
Holds(h) == \/ pc[h] \in OpenPhase \cup {"project"}
            \/ pc[h] \in ClosePhase /\ frame[h].kind # "delete"
LockInv == \A h \in Handler : Holds(h) => lock = h

(* The registered session is of the selected project unless it is closed;   *)
(* a switch closes it before it selects another.  A tmux client shows the   *)
(* CLI of its own project.                                                 *)
Unregistered == registry = NoSession \/ session[registry].closed
ProjectInv ==
    /\ registry # NoSession => session[registry].stage # "new"
    /\ Unregistered \/ session[registry].cwd = project
    /\ \A h \in Handler :
         /\ pc[h] \in {"tmux", "broker", "publish"} =>
              /\ session[frame[h].session].cwd = project
              /\ session[frame[h].session].stage # "new"
         /\ pc[h] = "broker" =>
              tmux.pane = "none" \/ tmux.cwd = session[frame[h].session].cwd
         /\ frame[h].kind = "switch" /\ pc[h] = "sync" =>
              registry = NoSession \/ registry = frame[h].session
         /\ frame[h].kind = "switch" /\ pc[h] \in {"kill", "handover", "end", "project"} =>
              Unregistered
    /\ \A s \in Session : session[s].broker =>
         session[s].stage # "new" /\ tmux.cwd = session[s].cwd

Inv == TypeOK /\ Locals /\ LockInv /\ ProjectInv

-----------------------------------------------------------------------------
(* Types.                                                                  *)

(* The coroutines of a session are tasks, and no handlers. *)
LEMMA OwnTasks ==
    ASSUME NEW s \in Session
    PROVE  /\ Reader(s) \in Task /\ Reaper(s) \in Task
           /\ Reader(s) \notin Handler /\ Reaper(s) \notin Handler
           /\ Reader(s)[1] = s /\ Reaper(s)[1] = s
BY ConstantsAssumption DEF ConstantsAssumption, Reader, Reaper, Task, OwnTask

LEMMA HandlerTask == \A h \in Handler : h \in Task
BY DEF Task

LEMMA GotoTyped ==
    ASSUME TypeOK, NEW t, NEW phase \in Phase, NEW ended, Goto(t, phase, ended)
    PROVE  pc' \in [Task -> Phase]
<1>1. "idle" \in Phase /\ \A u \in Task : pc[u] \in Phase
  BY DEF Phase, TypeOK
<1> QED
  BY <1>1 DEF Goto

LEMMA KeepTyped ==
    ASSUME TypeOK, KeepFrames
    PROVE  frame' \in [Handler -> Frame]
BY DEF KeepFrames, TypeOK, NoFrame, Frame, Kind

LEMMA ArmedTyped ==
    ASSUME TypeOK, NEW s \in Session
    PROVE  Armed(s) \in Phase
BY OwnTasks DEF Armed, TypeOK, Phase

LEMMA RemoveTyped ==
    ASSUME TypeOK, NEW s \in Session, NEW h \in Handler, RemoveClient(s, h)
    PROVE  session' \in [Session -> Object] /\ pc' \in [Task -> Phase]
<1>1. [session[s] EXCEPT !.clients = @ \ {h}] \in Object
  BY DEF TypeOK, Object
<1>2. session' \in [Session -> Object]
  BY <1>1 DEF RemoveClient, TypeOK
<1>3. pc' \in [Task -> Phase]
  BY ArmedTyped, OwnTasks DEF RemoveClient, TypeOK, Phase
<1> QED
  BY <1>2, <1>3

LEMMA DropTyped ==
    ASSUME TypeOK, NEW s \in Session
    PROVE  Drop(s) \in [Session -> Object]
<1>1. [session[s] EXCEPT !.clients = {}] \in Object
  BY DEF TypeOK, Object
<1> QED
  BY <1>1 DEF Drop, TypeOK

(* The tmux clients come and go. *)
LEMMA NoBrokersTyped ==
    ASSUME TypeOK
    PROVE  [r \in Session |-> [session[r] EXCEPT !.broker = FALSE]] \in [Session -> Object]
BY DEF TypeOK, Object

LEMMA TargetTyped ==
    ASSUME TypeOK, NEW t \in Task
    PROVE  Target(t) \in Session \cup {NoSession}
BY DEF Target, TypeOK, Frame, Task, OwnTask

LEMMA AfterCloseTyped ==
    ASSUME NEW t, NEW s
    PROVE  AfterClose(t) \in Phase /\ Closing(t, s) \in Phase
BY DEF AfterClose, Closing, Phase, ClosePhase, OpenPhase

(* After a restart nothing runs in the runner but what has begun anew.      *)
LEMMA Restarted ==
    ASSUME TypeOK, RunnerRestart
    PROVE  /\ TypeOK'
           /\ \A t \in Task : pc'[t] = "idle"
           /\ \A h \in Handler : pc'[h] = "idle" /\ frame'[h] = NoFrame
           /\ registry' = NoSession /\ project' = project
           /\ tmux'.pane = "running" => orphaned'
           /\ \A s \in Session :
                /\ session'[s].clients = {} /\ ~session'[s].broker
                /\ session'[s].stage = session[s].stage
                /\ session'[s].closed = (session[s].stage # "new")
<1>1. \A s \in Session :
        [session[s] EXCEPT !.closed = session[s].stage # "new", !.broker = FALSE, !.clients = {}]
          \in Object
  BY DEF TypeOK, Object
<1>2. NoTmux \in Tmux /\ NoFrame \in Frame /\ "idle" \in Phase
  BY DEF NoTmux, Tmux, Phase, NoFrame, Frame, Kind
<1>3. session' \in [Session -> Object] /\ tmux' \in Tmux /\ orphaned' \in BOOLEAN
  BY <1>1, <1>2 DEF RunnerRestart, TypeOK
<1>4. TypeOK'
  BY <1>2, <1>3 DEF RunnerRestart, TypeOK
<1>5. \A s \in Session :
        /\ session'[s].clients = {} /\ ~session'[s].broker
        /\ session'[s].stage = session[s].stage
        /\ session'[s].closed = (session[s].stage # "new")
  BY DEF RunnerRestart, TypeOK, Object
<1> QED
  BY <1>4, <1>5, HandlerTask DEF RunnerRestart

LEMMA TypeStep ==
    ASSUME TypeOK, Locals, [Next]_vars
    PROVE  TypeOK'
<1>1. CASE UNCHANGED vars
  BY <1>1 DEF vars, TypeOK
<1>2. ASSUME NEW h \in Handler, NEW kind \in {"view", "input"}, NEW c \in Config \cup {NoConfig}, Connect(h, kind, c)
      PROVE TypeOK'
  <2>1. (IF registry # NoSession /\ IsAlive(registry) THEN session[registry].config ELSE c)
          \in Config \cup {NoConfig}
    BY DEF TypeOK, Object
  <2>2. frame' \in [Handler -> Frame]
    BY <1>2, <2>1 DEF Connect, TypeOK, NoFrame, Frame, Kind
  <2>3. pc' \in [Task -> Phase]
    BY <1>2, GotoTyped DEF Connect, Phase
  <2> QED
    BY <1>2, <2>2, <2>3 DEF Connect, TypeOK
<1>3. ASSUME NEW h \in Handler, Reuse(h) \/ Replace(h) PROVE TypeOK'
  <2>1. frame' \in [Handler -> Frame]
    BY <1>3 DEF Reuse, Replace, TypeOK, Frame
  <2>2. pc' \in [Task -> Phase]
    BY <1>3, GotoTyped, AfterCloseTyped DEF Reuse, Replace, Ready, Phase
  <2> QED
    BY <1>3, <2>1, <2>2 DEF Reuse, Replace, TypeOK
<1>4. ASSUME NEW h \in Handler, Spawn(h) PROVE TypeOK'
  <2>1. pc' \in [Task -> Phase]
    BY <1>4, GotoTyped DEF Spawn, Phase, OpenPhase
  <2> QED
    BY <1>4, <2>1 DEF Spawn, TypeOK
<1>5. ASSUME NEW h \in Handler, NEW s \in Session, Prepare(h, s) PROVE TypeOK'
  <2>1. session' \in [Session -> Object]
    <3>1. project \in Project /\ frame[h].config \in Config \cup {NoConfig} /\ session[s] \in Object
      BY DEF TypeOK, Frame
    <3>2. [session[s] EXCEPT !.stage = "starting", !.cwd = project, !.config = frame[h].config]
            \in Object
      BY <3>1 DEF Object
    <3> QED
      BY <1>5, <3>2 DEF Prepare, TypeOK
  <2>2. frame' \in [Handler -> Frame]
    BY <1>5 DEF Prepare, TypeOK, Frame
  <2>3. pc' \in [Task -> Phase]
    BY <1>5, GotoTyped DEF Prepare, Phase, OpenPhase
  <2> QED
    BY <1>5, <2>1, <2>2, <2>3 DEF Prepare, TypeOK
<1>6. ASSUME NEW h \in Handler, EnsureTmux(h) PROVE TypeOK'
  <2>1. session[frame[h].session].cwd \in Project \cup {NoProject}
    BY <1>6 DEF EnsureTmux, Locals, TypeOK, Object
  <2>2. session' \in [Session -> Object]
    BY <1>6, NoBrokersTyped DEF EnsureTmux, TypeOK
  <2>3. tmux' \in Tmux
    BY <1>6, <2>1 DEF EnsureTmux, TypeOK, Tmux
  <2>4. pc' \in [Task -> Phase]
    BY <1>6, GotoTyped DEF EnsureTmux, Phase, OpenPhase
  <2> QED
    BY <1>6, <2>2, <2>3, <2>4 DEF EnsureTmux, TypeOK
<1>7. ASSUME NEW h \in Handler, SpawnFails(h) PROVE TypeOK'
  <2>1. pc' \in [Task -> Phase]
    BY <1>7, GotoTyped DEF SpawnFails, Phase
  <2> QED
    BY <1>7, <2>1, KeepTyped DEF SpawnFails, TypeOK
<1>8. ASSUME NEW h \in Handler, AttachBroker(h) PROVE TypeOK'
  <2>1. session' \in [Session -> Object]
    <3>1. \A r \in Session, b \in BOOLEAN : [session[r] EXCEPT !.broker = b] \in Object
      BY DEF TypeOK, Object
    <3>2. \A r \in Session : (r = frame[h].session /\ tmux.pane # "none") \in BOOLEAN
      OBVIOUS
    <3> QED
      BY <1>8, <3>1, <3>2 DEF AttachBroker
  <2>2. pc' \in [Task -> Phase]
    BY <1>8 DEF AttachBroker, TypeOK, Phase, OpenPhase
  <2> QED
    BY <1>8, <2>1, <2>2 DEF AttachBroker, TypeOK
<1>9. ASSUME NEW h \in Handler, Publish(h) PROVE TypeOK'
  <2>1. frame[h].session \in Session
    BY <1>9 DEF Publish, Locals
  <2>2. [session[frame[h].session] EXCEPT !.stage = "up"] \in Object
    BY <2>1 DEF TypeOK, Object
  <2>3. session' \in [Session -> Object]
    BY <1>9, <2>2 DEF Publish, TypeOK
  <2>4. pc' \in [Task -> Phase]
    BY <1>9, <2>1, ArmedTyped DEF Publish, TypeOK, Phase, Ready
  <2> QED
    BY <1>9, <2>1, <2>3, <2>4 DEF Publish, TypeOK
<1>10. ASSUME NEW h \in Handler, Attach(h) PROVE TypeOK'
  <2>1. session' \in [Session -> Object]
    <3>1. \A s \in Session : [session[s] EXCEPT !.clients = @ \cup {h}] \in Object
      BY DEF TypeOK, Object
    <3> QED
      BY <1>10, <3>1 DEF Attach, TypeOK
  <2>2. pc' \in [Task -> Phase]
    BY <1>10, GotoTyped DEF Attach, Phase
  <2> QED
    BY <1>10, <2>1, <2>2 DEF Attach, TypeOK
<1>11. ASSUME NEW h \in Handler, Detach(h) PROVE TypeOK'
  <2>1. frame[h].session \in Session
    BY <1>11 DEF Detach, Locals
  <2> QED
    BY <1>11, <2>1, RemoveTyped, KeepTyped DEF Detach, TypeOK
<1>12. ASSUME NEW h \in Handler, NEW s \in Session, Evict(s, h) PROVE TypeOK'
  BY <1>12, RemoveTyped, KeepTyped DEF Evict, TypeOK
<1>13. ASSUME NEW h \in Handler, Inject(h) PROVE TypeOK'
  <2>1. frame[h].session \in Session
    BY <1>13 DEF Inject, Locals
  <2>2. pc' \in [Task -> Phase]
    BY <1>13, <2>1, ArmedTyped DEF Inject, TypeOK, Phase
  <2> QED
    BY <1>13, <2>2, KeepTyped DEF Inject, TypeOK
<1>14. ASSUME NEW h \in Handler, Delete(h) PROVE TypeOK'
  BY <1>14 DEF Delete, TypeOK, NoFrame, Frame, Phase, Kind, ClosePhase
<1>15. ASSUME NEW h \in Handler, NEW p \in Project, Switch(h, p) PROVE TypeOK'
  BY <1>15 DEF Switch, TypeOK, NoFrame, Frame, Phase, Kind, ClosePhase
<1>16. ASSUME NEW h \in Handler, Select(h) PROVE TypeOK'
  <2>1. pc' \in [Task -> Phase]
    BY <1>16, GotoTyped DEF Select, Phase
  <2>2. frame[h].project \in Project
    BY <1>16 DEF Select, Locals
  <2> QED
    BY <1>16, <2>1, <2>2, KeepTyped DEF Select, TypeOK
<1>17. ASSUME NEW s \in Session, Reap(s) PROVE TypeOK'
  BY <1>17 DEF Reap, TypeOK, Phase, ClosePhase
<1>18. ASSUME NEW s \in Session, Eof(s) \/ ReaderEnds(s) PROVE TypeOK'
  <2>1. pc' \in [Task -> Phase]
    BY <1>18, GotoTyped DEF Eof, ReaderEnds, Phase
  <2> QED
    BY <1>18, <2>1 DEF Eof, ReaderEnds, TypeOK
<1>19. ASSUME NEW s \in Session, Exited(s) PROVE TypeOK'
  <2>1. pc' \in [Task -> Phase]
    BY <1>19, GotoTyped, AfterCloseTyped DEF Exited
  <2> QED
    BY <1>19, <2>1, DropTyped, KeepTyped DEF Exited, TypeOK
<1>20. ASSUME NEW s \in Session, PaneExited(s) PROVE TypeOK'
  <2>1. pc' \in [Task -> Phase]
    BY <1>20, GotoTyped DEF PaneExited, Phase, ClosePhase
  <2>2. Drop(s) \in [Session -> Object]
    BY DropTyped
  <2>3. [Drop(s)[s] EXCEPT !.exited = TRUE] \in Object
    BY <2>2 DEF Object
  <2>4. session' \in [Session -> Object]
    BY <1>20, <2>2, <2>3 DEF PaneExited
  <2> QED
    BY <1>20, <2>1, <2>4, KeepTyped DEF PaneExited, TypeOK
<1>21. ASSUME NEW t \in Task, MarkClosed(t) PROVE TypeOK'
  <2>1. pc' \in [Task -> Phase]
    BY <1>21, GotoTyped DEF MarkClosed, Phase, ClosePhase
  <2>2. \A s \in Session : [session[s] EXCEPT !.closed = TRUE] \in Object
    BY DEF TypeOK, Object
  <2>3. session' \in [Session -> Object]
    BY <1>21, <2>2 DEF MarkClosed, TypeOK
  <2> QED
    BY <1>21, <2>1, <2>3 DEF MarkClosed, TypeOK
<1>22. ASSUME NEW t \in Task, Kill(t) \/ KillFails(t) PROVE TypeOK'
  <2>1. pc' \in [Task -> Phase]
    BY <1>22, GotoTyped DEF Kill, KillFails, Phase, ClosePhase
  <2>2. NoTmux \in Tmux
    BY DEF NoTmux, Tmux
  <2> QED
    BY <1>22, <2>1, <2>2, NoBrokersTyped DEF Kill, KillFails, TypeOK
<1>23. ASSUME NEW t \in Task, HandOver(t) \/ ProbeFails(t) PROVE TypeOK'
  <2>1. pc' \in [Task -> Phase]
    BY <1>23, GotoTyped DEF HandOver, ProbeFails, Phase, ClosePhase
  <2>2. \A s \in Session : [session[s] EXCEPT !.broker = FALSE] \in Object
    BY DEF TypeOK, Object
  <2>3. session' \in [Session -> Object]
    BY <1>23, <2>2 DEF HandOver, ProbeFails, TypeOK
  <2> QED
    BY <1>23, <2>1, <2>3 DEF HandOver, ProbeFails, TypeOK
<1>24. ASSUME NEW t \in Task, EndClose(t) PROVE TypeOK'
  <2>1. pc' \in [Task -> Phase]
    BY <1>24, GotoTyped, AfterCloseTyped DEF EndClose
  <2>2. \A s \in Session : [session[s] EXCEPT !.clients = {}] \in Object
    BY DEF TypeOK, Object
  <2>3. session' \in [Session -> Object]
    BY <1>24, <2>2 DEF EndClose, Drop, TypeOK
  <2> QED
    BY <1>24, <2>1, <2>3, KeepTyped DEF EndClose, TypeOK
<1>25. ASSUME CliExits \/ DetachedEnds \/ DetachedFails PROVE TypeOK'
  <2>1. CliExits => tmux' \in Tmux
    BY DEF CliExits, TypeOK, Tmux
  <2> QED
    BY <1>25, <2>1 DEF CliExits, DetachedEnds, DetachedFails, TypeOK
<1> QED
  BY <1>1, <1>2, <1>3, <1>4, <1>5, <1>6, <1>7, <1>8, <1>9, <1>10, <1>11, <1>12, <1>13, <1>14,
     <1>15, <1>16, <1>17, <1>18, <1>19, <1>20, <1>21, <1>22, <1>23, <1>24, <1>25, Restarted
     DEF Next, Routine, Request, Leave, Event, Fault, Open, Close, Read

(* A request that goes on as it was, moves on with the same locals, or ends,*)
(* knows what it has to.                                                   *)
LEMMA LocalsStep ==
    ASSUME TypeOK, Locals, [Next]_vars
    PROVE  Locals'
<1> DEFINE Known(h) ==
             /\ pc'[h] \in ClosePhase \cup {"tmux", "broker", "publish", "attach", "attached", "inject"}
                  => frame'[h].session \in Session
             /\ frame'[h].kind = "switch" => frame'[h].project \in Project
             /\ pc'[h] = "project" => frame'[h].kind = "switch"
             /\ pc'[h] = "open" => frame'[h].kind \in {"view", "input"}
<1>1. ASSUME \A h \in Handler : Known(h) PROVE Locals'
  BY <1>1 DEF Locals
<1>2. ASSUME NEW h \in Handler, pc'[h] = pc[h], frame'[h] = frame[h] PROVE Known(h)
  BY <1>2 DEF Locals
<1>3. ASSUME NEW h \in Handler, pc'[h] = "idle", frame'[h] = NoFrame PROVE Known(h)
  BY <1>3 DEF NoFrame, ClosePhase
<1>4. ASSUME NEW t \in Task, NEW phase, NEW ended, Goto(t, phase, ended),
             KeepFrames \/ (frame' = frame /\ ended \cap Handler = {}),
             t \in Handler => phase = "idle" \/
                (/\ frame[t].session \in Session
                 /\ phase = "project" => frame[t].kind = "switch"
                 /\ phase # "open")
      PROVE  Locals'
  <2> SUFFICES ASSUME NEW h \in Handler PROVE Known(h)
    BY <1>1
  <2>1. h \in Task
    BY HandlerTask
  <2>2. pc'[h] = IF h = t THEN phase ELSE IF h \in ended THEN "idle" ELSE pc[h]
    BY <1>4, <2>1 DEF Goto
  <2>3. frame'[h] \in {frame[h], NoFrame} /\ (frame'[h] = NoFrame \/ frame'[h] = frame[h])
    BY <1>4 DEF KeepFrames
  <2> QED
    BY <1>2, <1>3, <1>4, <2>2, <2>3 DEF Locals, KeepFrames, NoFrame, ClosePhase
<1>5. CASE UNCHANGED vars
  BY <1>1, <1>2, <1>5 DEF vars, TypeOK
<1>6. ASSUME NEW h \in Handler, NEW kind \in {"view", "input"}, NEW c \in Config \cup {NoConfig}, Connect(h, kind, c)
      PROVE Locals'
  <2>1. \A g \in Handler : g # h => pc'[g] = pc[g] /\ frame'[g] = frame[g]
    BY <1>6, HandlerTask DEF Connect, Goto, TypeOK
  <2>2. pc'[h] = "open" /\ frame'[h].kind = kind
    BY <1>6, HandlerTask DEF Connect, Goto, TypeOK, NoFrame
  <2>3. Known(h)
    BY <2>2 DEF ClosePhase
  <2> QED
    BY <1>1, <1>2, <2>1, <2>3
<1>7. ASSUME NEW h \in Handler, Reuse(h) \/ Replace(h) PROVE Locals'
  <2>1. \A g \in Handler : g # h => pc'[g] = pc[g] /\ frame'[g] = frame[g]
    BY <1>7, HandlerTask DEF Reuse, Replace, Goto, TypeOK
  <2>2. /\ frame'[h].session \in Session /\ frame'[h].kind = frame[h].kind
        /\ frame'[h].project = frame[h].project
        /\ pc'[h] = "project" => frame[h].kind = "switch"
        /\ pc'[h] # "open"
    BY <1>7, HandlerTask DEF Reuse, Replace, Goto, TypeOK, Frame, Ready, Closing, AfterClose
  <2> QED
    BY <1>1, <1>2, <2>1, <2>2 DEF Locals
<1>8. ASSUME NEW h \in Handler, Spawn(h) PROVE Locals'
  <2>1. \A g \in Handler : g # h => pc'[g] = pc[g]
    BY <1>8, HandlerTask DEF Spawn, Goto, TypeOK
  <2>2. pc'[h] = "prepare" /\ frame' = frame
    BY <1>8, HandlerTask DEF Spawn, Goto, TypeOK
  <2> QED
    BY <1>1, <1>2, <2>1, <2>2 DEF Locals, ClosePhase
<1>9. ASSUME NEW h \in Handler, NEW s \in Session, Prepare(h, s) PROVE Locals'
  <2>1. \A g \in Handler : g # h => pc'[g] = pc[g] /\ frame'[g] = frame[g]
    BY <1>9, HandlerTask DEF Prepare, Goto, TypeOK
  <2>2. /\ pc'[h] = "tmux" /\ frame'[h].session = s /\ frame'[h].kind = frame[h].kind
        /\ frame'[h].project = frame[h].project
    BY <1>9, HandlerTask DEF Prepare, Goto, TypeOK, Frame
  <2> QED
    BY <1>1, <1>2, <2>1, <2>2 DEF Locals
<1>10. ASSUME NEW h \in Handler, EnsureTmux(h) \/ SpawnFails(h) \/ Attach(h) PROVE Locals'
  <2>1. (h \in Task /\ frame[h].session \in Session) \/ SpawnFails(h)
    BY <1>10, HandlerTask DEF EnsureTmux, Attach, Locals
  <2>2. CASE EnsureTmux(h)
    BY <1>4, <2>1, <2>2, HandlerTask DEF EnsureTmux, Locals
  <2>3. CASE SpawnFails(h)
    BY <1>4, <2>3, HandlerTask DEF SpawnFails
  <2>4. CASE Attach(h)
    <3>1. Cancelled(frame[h].session, h) \cap Handler = {} /\ frame[h].session \in Session
      BY <2>4, OwnTasks DEF Cancelled, Attach, Locals
    <3> QED
      BY <1>4, <2>4, <3>1, HandlerTask DEF Attach
  <2> QED
    BY <1>10, <2>2, <2>3, <2>4
<1>11. ASSUME NEW h \in Handler, AttachBroker(h) \/ Publish(h) PROVE Locals'
  <2>1. frame[h].session \in Session
    BY <1>11 DEF AttachBroker, Publish, Locals
  <2>2. \A g \in Handler : g # h => pc'[g] = pc[g]
    BY <1>11, <2>1, HandlerTask, OwnTasks DEF AttachBroker, Publish, TypeOK
  <2>3. pc'[h] \in {"publish", "attach", "inject"} /\ frame' = frame
    BY <1>11, <2>1, HandlerTask, OwnTasks DEF AttachBroker, Publish, TypeOK, Ready
  <2> QED
    BY <1>1, <1>2, <2>1, <2>2, <2>3 DEF Locals
<1>12. ASSUME NEW s \in Session, NEW h \in Handler, RemoveClient(s, h), KeepFrames PROVE Locals'
  <2>1. \A g \in Handler : g # h => pc'[g] = pc[g]
    BY <1>12, HandlerTask, OwnTasks DEF RemoveClient, TypeOK
  <2>2. pc'[h] = "idle"
    BY <1>12, HandlerTask, OwnTasks DEF RemoveClient, TypeOK
  <2> QED
    BY <1>1, <1>2, <1>3, <1>12, <2>1, <2>2 DEF KeepFrames
<1>13. ASSUME NEW h \in Handler, Detach(h) PROVE Locals'
  BY <1>12, <1>13 DEF Detach, Locals
<1>14. ASSUME NEW s \in Session, NEW h \in Handler, Evict(s, h) PROVE Locals'
  BY <1>12, <1>14 DEF Evict
<1>15. ASSUME NEW h \in Handler, Inject(h) PROVE Locals'
  <2>1. frame[h].session \in Session
    BY <1>15 DEF Inject, Locals
  <2>2. \A g \in Handler : g # h => pc'[g] = pc[g]
    BY <1>15, <2>1, HandlerTask, OwnTasks DEF Inject, TypeOK
  <2>3. pc'[h] = "idle"
    BY <1>15, <2>1, HandlerTask, OwnTasks DEF Inject, TypeOK
  <2> QED
    BY <1>1, <1>2, <1>3, <1>15, <2>2, <2>3 DEF Inject, KeepFrames
<1>16. ASSUME NEW h \in Handler, Delete(h) PROVE Locals'
  <2>1. \A g \in Handler : g # h => pc'[g] = pc[g] /\ frame'[g] = frame[g]
    BY <1>16, HandlerTask DEF Delete, TypeOK
  <2>2. /\ pc'[h] \in {"idle", "sync"} /\ frame'[h].session \in Session
        /\ frame'[h].kind = "delete"
    BY <1>16, HandlerTask DEF Delete, TypeOK, NoFrame
  <2> QED
    BY <1>1, <1>2, <2>1, <2>2
<1>17. ASSUME NEW h \in Handler, NEW p \in Project, Switch(h, p) PROVE Locals'
  <2>1. \A g \in Handler : g # h => pc'[g] = pc[g] /\ frame'[g] = frame[g]
    BY <1>17, HandlerTask DEF Switch, TypeOK
  <2>2. /\ pc'[h] \in {"project", "sync"} /\ frame'[h].session = registry
        /\ pc'[h] = "sync" => registry # NoSession
        /\ frame'[h].kind = "switch" /\ frame'[h].project = p
    BY <1>17, HandlerTask DEF Switch, TypeOK, NoFrame
  <2>3. Known(h)
    BY <2>2 DEF TypeOK, ClosePhase
  <2> QED
    BY <1>1, <1>2, <2>1, <2>3
<1>18. ASSUME NEW h \in Handler, Select(h) PROVE Locals'
  BY <1>4, <1>18, HandlerTask DEF Select
<1>19. ASSUME NEW s \in Session, Reap(s) PROVE Locals'
  <2>1. \A g \in Handler : pc'[g] = pc[g] /\ frame' = frame
    BY <1>19, HandlerTask, OwnTasks DEF Reap, TypeOK
  <2> QED
    BY <1>1, <1>2, <2>1
<1>20. ASSUME NEW s \in Session, Read(s) PROVE Locals'
  <2>1. Reader(s) \in Task /\ Reader(s) \notin Handler
    BY OwnTasks
  <2>2. CASE Eof(s) \/ ReaderEnds(s)
    BY <1>4, <2>1, <2>2 DEF Eof, ReaderEnds
  <2>3. CASE Exited(s)
    BY <1>4, <2>1, <2>3 DEF Exited
  <2>4. CASE PaneExited(s)
    BY <1>4, <2>1, <2>4 DEF PaneExited
  <2> QED
    BY <1>20, <2>2, <2>3, <2>4 DEF Read
<1>21. ASSUME NEW t \in Task, Close(t) \/ KillFails(t) \/ ProbeFails(t) PROVE Locals'
  <2>1. t \in Handler => frame[t].session \in Session
    BY <1>21 DEF Close, MarkClosed, Kill, KillFails, HandOver, ProbeFails, EndClose, Locals, ClosePhase
  <2>2. CASE MarkClosed(t)
    <3>1. Cancelled(Target(t), t) \cap Handler = {}
      <4>1. t \notin Handler => t[1] \in Session
        BY DEF Task, OwnTask
      <4>2. Target(t) \in Session
        BY <2>1, <4>1 DEF Target
      <4> QED
        BY <4>2, OwnTasks DEF Cancelled
    <3> QED
      BY <1>4, <2>1, <2>2, <3>1 DEF MarkClosed
  <2>3. CASE Kill(t) \/ KillFails(t) \/ HandOver(t) \/ ProbeFails(t)
    BY <1>4, <2>1, <2>3 DEF Kill, KillFails, HandOver, ProbeFails
  <2>4. CASE EndClose(t)
    BY <1>4, <2>1, <2>4 DEF EndClose, AfterClose
  <2> QED
    BY <1>21, <2>2, <2>3, <2>4 DEF Close
<1>22. CASE CliExits \/ DetachedEnds \/ DetachedFails
  BY <1>1, <1>2, <1>22 DEF CliExits, DetachedEnds, DetachedFails
<1>23. CASE RunnerRestart
  BY <1>1, <1>3, <1>23, Restarted
<1> QED
  BY <1>5, <1>6, <1>7, <1>8, <1>9, <1>10, <1>11, <1>13, <1>14, <1>15, <1>16, <1>17, <1>18,
     <1>19, <1>20, <1>21, <1>22, <1>23
     DEF Next, Routine, Request, Leave, Event, Fault, Open

(* The registry, the sessions, the lock and the locals keep their types. *)
LEMMA TypeAndLocals == Spec => [](TypeOK /\ Locals)
<1>1. Init => TypeOK /\ Locals
  <2> SUFFICES ASSUME Init PROVE TypeOK /\ Locals
    OBVIOUS
  <2>1. NoTmux \in Tmux /\ NoFrame \in Frame /\ "idle" \in Phase
    BY DEF NoTmux, Tmux, Phase, NoFrame, Frame, Kind
  <2>2. session \in [Session -> Object]
    BY DEF Init, Object
  <2>3. frame \in [Handler -> Frame] /\ pc \in [Task -> Phase]
    BY <2>1 DEF Init
  <2>4. TypeOK
    BY <2>1, <2>2, <2>3 DEF Init, TypeOK
  <2>5. Locals
    BY HandlerTask DEF Init, Locals, NoFrame, ClosePhase
  <2> QED
    BY <2>4, <2>5
<1> QED
  BY <1>1, TypeStep, LocalsStep, PTL DEF Spec

THEOREM TypeCorrect == Spec => []TypeOK
BY TypeAndLocals, PTL

-----------------------------------------------------------------------------
(* Who moves.                                                              *)

(* A request that nothing moves, or that ends. *)
Quiet(g) == pc'[g] = "idle" \/ (pc'[g] = pc[g] /\ frame'[g] = frame[g])

LEMMA GotoQuiet ==
    ASSUME TypeOK, NEW t \in Task, NEW phase, NEW ended, Goto(t, phase, ended),
           KeepFrames \/ frame' = frame
    PROVE  /\ \A g \in Handler : g # t => Quiet(g)
           /\ pc'[t] = phase
           /\ t \in Handler => phase = "idle" \/ frame'[t] = frame[t]
BY HandlerTask DEF Goto, KeepFrames, Quiet, TypeOK

LEMMA RemoveQuiet ==
    ASSUME TypeOK, NEW s \in Session, NEW h \in Handler, RemoveClient(s, h), KeepFrames
    PROVE  \A g \in Handler : Quiet(g)
BY HandlerTask, OwnTasks DEF RemoveClient, KeepFrames, Quiet, TypeOK

(* An action of one request moves no other. *)
LEMMA OneMoves ==
    ASSUME TypeOK, Locals, NEW h \in Handler,
           \/ \E kind \in {"view", "input"}, c \in Config \cup {NoConfig} : Connect(h, kind, c)
           \/ Open(h) \/ SpawnFails(h)
           \/ Attach(h) \/ Inject(h) \/ Select(h) \/ Delete(h)
           \/ \E p \in Project : Switch(h, p)
    PROVE  \A g \in Handler : g # h => Quiet(g)
<1>1. h \in Task
  BY HandlerTask
<1>2. CASE \E kind \in {"view", "input"}, c \in Config \cup {NoConfig} : Connect(h, kind, c)
  BY <1>2, HandlerTask DEF Connect, Goto, Quiet, TypeOK
<1>3. CASE Reuse(h) \/ Replace(h) \/ \E s \in Session : Prepare(h, s)
  BY <1>3, HandlerTask DEF Reuse, Replace, Prepare, Goto, Quiet, TypeOK
<1>4. CASE Spawn(h) \/ EnsureTmux(h) \/ SpawnFails(h)
  BY <1>1, <1>4, GotoQuiet DEF Spawn, EnsureTmux, SpawnFails
<1>5. CASE AttachBroker(h) \/ Publish(h)
  <2>1. frame[h].session \in Session
    BY <1>5 DEF AttachBroker, Publish, Locals
  <2> QED
    BY <1>5, <2>1, HandlerTask, OwnTasks DEF AttachBroker, Publish, Quiet, TypeOK
<1>6. CASE Attach(h) \/ Select(h)
  BY <1>1, <1>6, GotoQuiet DEF Attach, Select
<1>7. CASE Inject(h)
  <2>1. frame[h].session \in Session
    BY <1>7 DEF Inject, Locals
  <2> QED
    BY <1>7, <2>1, HandlerTask, OwnTasks DEF Inject, KeepFrames, Quiet, TypeOK
<1>8. CASE Delete(h) \/ \E p \in Project : Switch(h, p)
  BY <1>8, HandlerTask DEF Delete, Switch, Quiet, TypeOK
<1> QED
  BY <1>2, <1>3, <1>4, <1>5, <1>6, <1>7, <1>8 DEF Open

(* What a session's own coroutines do moves no request, but ends some. *)
LEMMA NoneMoves ==
    ASSUME TypeOK, Locals,
           \/ \E h \in Handler : Detach(h) \/ \E s \in Session : Evict(s, h)
           \/ \E s \in Session : Read(s) \/ Reap(s)
           \/ CliExits \/ DetachedEnds \/ DetachedFails
    PROVE  \A g \in Handler : Quiet(g)
<1>1. ASSUME NEW h \in Handler, Detach(h) PROVE \A g \in Handler : Quiet(g)
  BY <1>1, RemoveQuiet DEF Detach, Locals
<1>2. ASSUME NEW h \in Handler, NEW s \in Session, Evict(s, h) PROVE \A g \in Handler : Quiet(g)
  BY <1>2, RemoveQuiet DEF Evict
<1>3. ASSUME NEW s \in Session, Read(s) PROVE \A g \in Handler : Quiet(g)
  <2>1. Reader(s) \in Task /\ Reader(s) \notin Handler
    BY OwnTasks
  <2>2. CASE Eof(s) \/ ReaderEnds(s)
    BY <2>1, <2>2, GotoQuiet DEF Eof, ReaderEnds
  <2>3. CASE Exited(s)
    BY <2>1, <2>3, GotoQuiet DEF Exited
  <2>4. CASE PaneExited(s)
    BY <2>1, <2>4, GotoQuiet DEF PaneExited
  <2> QED
    BY <1>3, <2>2, <2>3, <2>4 DEF Read
<1>4. ASSUME NEW s \in Session, Reap(s) PROVE \A g \in Handler : Quiet(g)
  BY <1>4, HandlerTask, OwnTasks DEF Reap, Quiet, TypeOK
<1>5. CASE CliExits \/ DetachedEnds \/ DetachedFails
  BY <1>5 DEF CliExits, DetachedEnds, DetachedFails, Quiet
<1> QED
  BY <1>1, <1>2, <1>3, <1>4, <1>5

(* A coroutine that closes a session moves no request but itself.           *)
LEMMA CloserMoves ==
    ASSUME TypeOK, NEW t \in Task, Close(t) \/ KillFails(t) \/ ProbeFails(t)
    PROVE  /\ \A g \in Handler : g # t => Quiet(g)
           /\ t \in Handler => pc'[t] = "idle" \/ frame'[t] = frame[t]
<1>1. CASE MarkClosed(t)
  BY <1>1, GotoQuiet DEF MarkClosed
<1>2. CASE Kill(t) \/ KillFails(t) \/ HandOver(t) \/ ProbeFails(t)
  BY <1>2, GotoQuiet DEF Kill, KillFails, HandOver, ProbeFails
<1>3. CASE EndClose(t)
  BY <1>3, GotoQuiet DEF EndClose
<1> QED
  BY <1>1, <1>2, <1>3 DEF Close

-----------------------------------------------------------------------------
(* The lock.                                                               *)

LEMMA LockStep ==
    ASSUME TypeOK, Locals, LockInv, [Next]_vars
    PROVE  LockInv'
<1>1. \A g \in Handler : Quiet(g) /\ Holds(g)' => Holds(g)
  BY DEF Quiet, Holds, OpenPhase, ClosePhase
<1>2. NoHandler \notin Handler
  BY ConstantsAssumption DEF ConstantsAssumption
(* One request moves, which has or takes the lock, or holds nothing. *)
<1>3. ASSUME NEW h \in Handler, \A g \in Handler : g # h => Quiet(g),
             \/ lock' = lock /\ (Holds(h)' => Holds(h))
             \/ lock = NoHandler /\ lock' = h
             \/ Holds(h) /\ ~Holds(h)'
      PROVE  LockInv'
  BY <1>1, <1>2, <1>3 DEF LockInv
<1>4. ASSUME \A g \in Handler : Quiet(g), lock' = lock PROVE LockInv'
  BY <1>1, <1>4 DEF LockInv
<1>5. CASE UNCHANGED vars
  BY <1>5 DEF vars, LockInv, Holds
<1>6. ASSUME NEW h \in Handler, NEW kind \in {"view", "input"}, NEW c \in Config \cup {NoConfig}, Connect(h, kind, c)
      PROVE LockInv'
  <2>1. lock' = lock /\ ~Holds(h)'
    BY <1>6, HandlerTask DEF Connect, Goto, Holds, OpenPhase, ClosePhase, TypeOK
  <2> QED
    BY <1>3, <1>6, <2>1, OneMoves
<1>7. ASSUME NEW h \in Handler, Open(h) \/ SpawnFails(h) PROVE LockInv'
  <2>1. \A g \in Handler : g # h => Quiet(g)
    BY <1>7, OneMoves
  <2>2. CASE Reuse(h)
    <3>1. lock' = lock /\ ~Holds(h)'
      BY <2>2, HandlerTask DEF Reuse, Goto, Ready, Holds, OpenPhase, ClosePhase, TypeOK
    <3> QED
      BY <1>3, <2>1, <3>1
  <2>3. CASE Replace(h) \/ Spawn(h)
    BY <1>3, <2>1, <2>3 DEF Replace, Spawn
  <2>4. CASE EnsureTmux(h) \/ AttachBroker(h) \/ \E s \in Session : Prepare(h, s)
    BY <1>3, <2>1, <2>4 DEF EnsureTmux, AttachBroker, Prepare, Holds, OpenPhase
  <2>5. CASE SpawnFails(h)
    <3>1. Holds(h) /\ ~Holds(h)'
      BY <2>5, HandlerTask DEF SpawnFails, Goto, Holds, OpenPhase, ClosePhase, TypeOK
    <3> QED
      BY <1>3, <2>1, <3>1
  <2>6. CASE Publish(h)
    <3>1. Holds(h) /\ ~Holds(h)'
      BY <2>6, HandlerTask, OwnTasks DEF Publish, Ready, Holds, OpenPhase, ClosePhase, TypeOK, Locals
    <3> QED
      BY <1>3, <2>1, <3>1
  <2> QED
    BY <1>7, <2>2, <2>3, <2>4, <2>5, <2>6 DEF Open
<1>8. ASSUME NEW h \in Handler, Attach(h) \/ Inject(h) \/ Delete(h) PROVE LockInv'
  <2>1. lock' = lock /\ ~Holds(h)'
    <3>1. CASE Attach(h)
      BY <3>1, HandlerTask DEF Attach, Goto, Holds, OpenPhase, ClosePhase, TypeOK
    <3>2. CASE Inject(h)
      BY <3>2, HandlerTask, OwnTasks DEF Inject, Holds, OpenPhase, ClosePhase, TypeOK, Locals
    <3>3. CASE Delete(h)
      BY <3>3, HandlerTask DEF Delete, Holds, OpenPhase, ClosePhase, TypeOK, NoFrame
    <3> QED
      BY <1>8, <3>1, <3>2, <3>3
  <2> QED
    BY <1>3, <1>8, <2>1, OneMoves
<1>9. ASSUME NEW h \in Handler, NEW p \in Project, Switch(h, p) PROVE LockInv'
  <2>1. \A g \in Handler : g # h => Quiet(g)
    BY <1>9, OneMoves
  <2> QED
    BY <1>3, <1>9, <2>1 DEF Switch
<1>10. ASSUME NEW h \in Handler, Select(h) PROVE LockInv'
  <2>1. Holds(h) /\ ~Holds(h)'
    BY <1>10, HandlerTask DEF Select, Goto, Holds, OpenPhase, ClosePhase, TypeOK
  <2> QED
    BY <1>3, <1>10, <2>1, OneMoves
<1>11. ASSUME \/ \E h \in Handler : Detach(h) \/ \E s \in Session : Evict(s, h)
              \/ \E s \in Session : Read(s) \/ Reap(s)
              \/ CliExits \/ DetachedEnds \/ DetachedFails
       PROVE  LockInv'
  <2>1. \A g \in Handler : Quiet(g)
    BY <1>11, NoneMoves
  <2>2. lock' = lock
    BY <1>11 DEF Detach, Evict, Read, Eof, Exited, PaneExited, ReaderEnds, Reap, CliExits, DetachedEnds, DetachedFails
  <2> QED
    BY <1>4, <2>1, <2>2
<1>12. ASSUME NEW t \in Task, Close(t) \/ KillFails(t) \/ ProbeFails(t) PROVE LockInv'
  <2>1. /\ \A g \in Handler : g # t => Quiet(g)
        /\ lock' = lock
    BY <1>12, CloserMoves DEF Close, MarkClosed, Kill, KillFails, HandOver, ProbeFails, EndClose
  <2>2. CASE t \in Handler
    <3>1. Holds(t)' => Holds(t)
      <4>1. pc'[t] = "idle" \/ frame'[t] = frame[t]
        BY <1>12, <2>2, CloserMoves
      <4>2. pc[t] \in ClosePhase /\ pc'[t] \in ClosePhase \cup {AfterClose(t)}
        BY <1>12, HandlerTask DEF Close, MarkClosed, Kill, KillFails, HandOver, ProbeFails, EndClose, Goto, ClosePhase
      <4>3. AfterClose(t) # "idle" => frame[t].kind # "delete"
        BY <2>2 DEF AfterClose
      <4> QED
        BY <4>1, <4>2, <4>3 DEF Holds, ClosePhase, OpenPhase
    <3> QED
      BY <1>3, <2>1, <2>2, <3>1
  <2>3. CASE t \notin Handler
    BY <1>4, <2>1, <2>3
  <2> QED
    BY <2>2, <2>3
<1>13. CASE RunnerRestart
  BY <1>13, Restarted DEF LockInv, Holds, OpenPhase, ClosePhase
<1> QED
  BY <1>5, <1>6, <1>7, <1>8, <1>9, <1>10, <1>11, <1>12, <1>13
     DEF Next, Routine, Request, Leave, Event, Fault

-----------------------------------------------------------------------------
(* The project.                                                            *)

(* A step that keeps every session's project and selects none.              *)
SessionsStay ==
    \A s \in Session :
        /\ session'[s].cwd = session[s].cwd
        /\ session'[s].stage = session[s].stage
        /\ session[s].closed => session'[s].closed
        /\ session'[s].broker => session[s].broker
TmuxStays ==
    \/ tmux'.cwd = tmux.cwd /\ (tmux.pane = "none" => tmux'.pane = "none")
    \/ tmux'.pane = "none" /\ \A s \in Session : ~session'[s].broker

(* What a request does in such a step: nothing, end, begin to wait or to    *)
(* close for another reason than a switch, or get on with closing.          *)
GetsOn(h) ==
    \/ pc'[h] \notin {"tmux", "broker", "publish", "project"} \cup ClosePhase
    \/ pc'[h] \in ClosePhase /\ frame'[h].kind # "switch"
    \/ frame'[h] = frame[h] /\ pc'[h] = pc[h]
    \/ frame'[h] = frame[h] /\ pc[h] \in {"kill", "handover", "end"}
         /\ pc'[h] \in {"handover", "end", "project"}
    \/ frame'[h] = frame[h] /\ pc[h] = "sync" /\ pc'[h] = "kill"
         /\ session'[frame[h].session].closed

LEMMA QuietGetsOn ==
    ASSUME NEW h \in Handler, Quiet(h)
    PROVE  GetsOn(h)
BY DEF Quiet, GetsOn, ClosePhase

LEMMA ProjectQuiet ==
    ASSUME TypeOK, Locals, ProjectInv, project' = project,
           registry' = registry \/ registry' = NoSession,
           SessionsStay, TmuxStays, \A h \in Handler : GetsOn(h)
    PROVE  ProjectInv'
<1>1. registry' # NoSession => registry' = registry /\ registry \in Session
  BY DEF TypeOK
<1>2. Unregistered => Unregistered'
  BY <1>1 DEF Unregistered, SessionsStay
<1>3. registry' # NoSession => session'[registry'].stage # "new"
  BY <1>1 DEF ProjectInv, SessionsStay
<1>4. (Unregistered \/ session[registry].cwd = project)'
  BY <1>1, <1>2 DEF ProjectInv, SessionsStay, Unregistered
<1>5. ASSUME NEW h \in Handler
      PROVE  /\ pc'[h] \in {"tmux", "broker", "publish"} =>
                  /\ session'[frame'[h].session].cwd = project'
                  /\ session'[frame'[h].session].stage # "new"
             /\ pc'[h] = "broker" =>
                  tmux'.pane = "none" \/ tmux'.cwd = session'[frame'[h].session].cwd
             /\ frame'[h].kind = "switch" /\ pc'[h] = "sync" =>
                  registry' = NoSession \/ registry' = frame'[h].session
             /\ frame'[h].kind = "switch" /\ pc'[h] \in {"kill", "handover", "end", "project"} =>
                  Unregistered'
  <2>1. CASE pc'[h] \in {"tmux", "broker", "publish"}
    <3>1. frame'[h] = frame[h] /\ pc'[h] = pc[h] /\ frame[h].session \in Session
      BY <2>1 DEF GetsOn, ClosePhase, Locals
    <3> QED
      BY <2>1, <3>1 DEF ProjectInv, SessionsStay, TmuxStays
  <2>2. CASE frame'[h].kind = "switch" /\ pc'[h] = "sync"
    <3>1. frame'[h] = frame[h] /\ pc'[h] = pc[h]
      BY <2>2 DEF GetsOn, ClosePhase
    <3> QED
      BY <2>2, <3>1 DEF ProjectInv
  <2>3. CASE frame'[h].kind = "switch" /\ pc'[h] \in {"kill", "handover", "end", "project"}
    <3>1. frame'[h] = frame[h]
      BY <2>3 DEF GetsOn, ClosePhase
    <3>2. CASE pc[h] \in {"kill", "handover", "end", "project"}
      BY <1>2, <2>3, <3>1, <3>2 DEF ProjectInv
    <3>3. CASE pc[h] \notin {"kill", "handover", "end", "project"}
      <4>1. pc[h] = "sync" /\ session'[frame[h].session].closed
        BY <2>3, <3>3 DEF GetsOn, ClosePhase
      <4> QED
        BY <1>1, <2>3, <3>1, <4>1 DEF ProjectInv, Unregistered
    <3> QED
      BY <3>2, <3>3
  <2> QED
    BY <2>1, <2>2, <2>3
<1>6. \A s \in Session : session'[s].broker =>
         session'[s].stage # "new" /\ tmux'.cwd = session'[s].cwd
  BY DEF ProjectInv, SessionsStay, TmuxStays
<1> QED
  BY <1>3, <1>4, <1>5, <1>6 DEF ProjectInv

(* The requests that another holds the lock from are not opening. *)
LEMMA OnlyHolder ==
    ASSUME LockInv, NEW h \in Handler, Holds(h) \/ lock = NoHandler,
           NEW g \in Handler, g # h
    PROVE  /\ pc[g] \notin OpenPhase \cup {"project"}
           /\ frame[g].kind # "switch" \/ pc[g] \notin ClosePhase
BY ConstantsAssumption DEF ConstantsAssumption, LockInv, Holds

(* The steps of an opening with the lock. *)
LEMMA PrepareProject ==
    ASSUME Inv, NEW h \in Handler, NEW s \in Session, Prepare(h, s)
    PROVE  ProjectInv'
<1> USE DEF Inv
<1>1. \A g \in Handler : g # h => Quiet(g)
  BY OneMoves DEF Open
<1>2. Holds(h)
  BY DEF Prepare, Holds, OpenPhase
<1>3. \A g \in Handler : g # h =>
        /\ pc'[g] \notin OpenPhase \cup {"project"}
        /\ frame'[g].kind # "switch" \/ pc'[g] \notin ClosePhase
  BY <1>1, <1>2, OnlyHolder DEF Quiet, OpenPhase, ClosePhase
<1>4. /\ pc'[h] = "tmux" /\ frame'[h].session = s
      /\ registry' = registry /\ project' = project /\ tmux' = tmux
  BY HandlerTask DEF Prepare, Goto, TypeOK, Frame
<1>5. /\ session[s].stage = "new"
      /\ session'[s].cwd = project /\ session'[s].stage = "starting"
      /\ session'[s].broker = session[s].broker
      /\ \A r \in Session : r # s => session'[r] = session[r]
  BY DEF Prepare, TypeOK, Object
<1>6. registry # s /\ ~session[s].broker
  BY <1>5, ConstantsAssumption DEF ConstantsAssumption, ProjectInv
<1>7. registry # NoSession => registry \in Session /\ session'[registry] = session[registry]
  BY <1>5, <1>6 DEF TypeOK
<1>8. /\ registry' # NoSession => session'[registry'].stage # "new"
      /\ (Unregistered \/ session[registry].cwd = project)'
  BY <1>4, <1>7 DEF ProjectInv, Unregistered
<1>9. \A r \in Session : session'[r].broker =>
         session'[r].stage # "new" /\ tmux'.cwd = session'[r].cwd
  BY <1>4, <1>5, <1>6 DEF ProjectInv
<1> QED
  BY <1>3, <1>4, <1>5, <1>8, <1>9 DEF ProjectInv, OpenPhase, ClosePhase

LEMMA TmuxProject ==
    ASSUME Inv, NEW h \in Handler, EnsureTmux(h)
    PROVE  ProjectInv'
<1> USE DEF Inv
<1> DEFINE s == frame[h].session
<1>1. \A g \in Handler : g # h => Quiet(g)
  BY OneMoves DEF Open
<1>2. Holds(h)
  BY DEF EnsureTmux, Holds, OpenPhase
<1>3. \A g \in Handler : g # h =>
        /\ pc'[g] \notin OpenPhase \cup {"project"}
        /\ frame'[g].kind # "switch" \/ pc'[g] \notin ClosePhase
  BY <1>1, <1>2, OnlyHolder DEF Quiet, OpenPhase, ClosePhase
<1>4. /\ pc'[h] = "broker" /\ frame' = frame /\ s \in Session
      /\ registry' = registry /\ project' = project
      /\ session[s].cwd = project /\ session[s].stage # "new"
  BY HandlerTask DEF EnsureTmux, Goto, TypeOK, Locals, ProjectInv
<1>5. \A r \in Session :
        /\ session'[r].cwd = session[r].cwd /\ session'[r].stage = session[r].stage
        /\ session'[r].closed = session[r].closed
        /\ session'[r].broker => session[r].broker
  BY DEF EnsureTmux, TypeOK, Object
<1>6. tmux'.cwd = session[s].cwd
  BY DEF EnsureTmux
<1>7. \A r \in Session : session'[r].broker => session[r].broker /\ tmux' = tmux
  BY DEF EnsureTmux, TypeOK, Object
<1>8. registry # NoSession => registry \in Session
  BY DEF TypeOK
<1>9. /\ registry' # NoSession => session'[registry'].stage # "new"
      /\ (Unregistered \/ session[registry].cwd = project)'
  BY <1>4, <1>5, <1>8 DEF ProjectInv, Unregistered
<1>10. \A r \in Session : session'[r].broker =>
         session'[r].stage # "new" /\ tmux'.cwd = session'[r].cwd
  BY <1>5, <1>7 DEF ProjectInv
<1> QED
  BY <1>3, <1>4, <1>5, <1>6, <1>9, <1>10 DEF ProjectInv, OpenPhase, ClosePhase

LEMMA BrokerProject ==
    ASSUME Inv, NEW h \in Handler, AttachBroker(h)
    PROVE  ProjectInv'
<1> USE DEF Inv
<1> DEFINE s == frame[h].session
<1>1. \A g \in Handler : g # h => Quiet(g)
  BY OneMoves DEF Open
<1>2. Holds(h)
  BY DEF AttachBroker, Holds, OpenPhase
<1>3. \A g \in Handler : g # h =>
        /\ pc'[g] \notin OpenPhase \cup {"project"}
        /\ frame'[g].kind # "switch" \/ pc'[g] \notin ClosePhase
  BY <1>1, <1>2, OnlyHolder DEF Quiet, OpenPhase, ClosePhase
<1>4. /\ frame' = frame /\ s \in Session
      /\ registry' = registry /\ project' = project /\ tmux' = tmux
      /\ session[s].cwd = project /\ session[s].stage # "new"
      /\ tmux.pane = "none" \/ tmux.cwd = session[s].cwd
  BY DEF AttachBroker, TypeOK, Locals, ProjectInv
<1>5. pc'[h] = "publish"
  BY <1>4, HandlerTask, OwnTasks DEF AttachBroker, TypeOK
<1>6. \A r \in Session :
        /\ session'[r].cwd = session[r].cwd /\ session'[r].stage = session[r].stage
        /\ session'[r].closed = session[r].closed
        /\ session'[r].broker => r = s /\ tmux.pane # "none"
  BY DEF AttachBroker, TypeOK, Object
<1>7. registry # NoSession => registry \in Session
  BY DEF TypeOK
<1>8. /\ registry' # NoSession => session'[registry'].stage # "new"
      /\ (Unregistered \/ session[registry].cwd = project)'
  BY <1>4, <1>6, <1>7 DEF ProjectInv, Unregistered
<1>9. \A r \in Session : session'[r].broker =>
         session'[r].stage # "new" /\ tmux'.cwd = session'[r].cwd
  BY <1>4, <1>6
<1> QED
  BY <1>3, <1>4, <1>5, <1>6, <1>8, <1>9 DEF ProjectInv, OpenPhase, ClosePhase

LEMMA PublishProject ==
    ASSUME Inv, NEW h \in Handler, Publish(h)
    PROVE  /\ ProjectInv' /\ InProject(frame[h].session)'
           /\ frame' = frame
<1> USE DEF Inv
<1> DEFINE s == frame[h].session
<1>1. \A g \in Handler : g # h => Quiet(g)
  BY OneMoves DEF Open
<1>2. Holds(h)
  BY DEF Publish, Holds, OpenPhase
<1>3. \A g \in Handler : g # h =>
        /\ pc'[g] \notin OpenPhase \cup {"project"}
        /\ frame'[g].kind # "switch" \/ pc'[g] \notin ClosePhase
  BY <1>1, <1>2, OnlyHolder DEF Quiet, OpenPhase, ClosePhase
<1>4. /\ frame' = frame /\ s \in Session
      /\ registry' = s /\ project' = project /\ tmux' = tmux
      /\ session[s].cwd = project
  BY DEF Publish, TypeOK, Locals, ProjectInv
<1>5. pc'[h] \in {"attach", "inject"}
  BY <1>4, HandlerTask, OwnTasks DEF Publish, TypeOK, Ready
<1>6. \A r \in Session :
        /\ session'[r].cwd = session[r].cwd
        /\ session'[r].stage = IF r = s THEN "up" ELSE session[r].stage
        /\ session'[r].broker = session[r].broker
  BY DEF Publish, TypeOK, Object
<1>7. \A r \in Session : session'[r].broker =>
         session'[r].stage # "new" /\ tmux'.cwd = session'[r].cwd
  BY <1>4, <1>6 DEF ProjectInv
<1>8. ProjectInv'
  BY <1>3, <1>4, <1>5, <1>6, <1>7 DEF ProjectInv, OpenPhase, ClosePhase
<1> QED
  BY <1>4, <1>6, <1>7, <1>8 DEF InProject

(* A switch begins with the session that is registered, and nobody else is  *)
(* opening one...                                                          *)
LEMMA SwitchProject ==
    ASSUME Inv, NEW h \in Handler, NEW p \in Project, Switch(h, p)
    PROVE  ProjectInv'
<1> USE DEF Inv
<1>1. \A g \in Handler : g # h => Quiet(g)
  BY OneMoves
<1>2. \A g \in Handler : g # h =>
        /\ pc'[g] \notin OpenPhase \cup {"project"}
        /\ frame'[g].kind # "switch" \/ pc'[g] \notin ClosePhase
  BY <1>1, OnlyHolder DEF Switch, Quiet, OpenPhase, ClosePhase
<1>3. /\ UNCHANGED <<project, tmux, registry, session>>
      /\ frame'[h].session = registry
      /\ pc'[h] \in {"project", "sync"}
      /\ pc'[h] = "project" => Unregistered
  BY HandlerTask DEF Switch, TypeOK, NoFrame, Unregistered
<1>4. (Unregistered \/ session[registry].cwd = project)' /\ (Unregistered => Unregistered')
  BY <1>3 DEF ProjectInv, Unregistered
<1> QED
  BY <1>2, <1>3, <1>4 DEF ProjectInv, OpenPhase, ClosePhase

(* ... and ends when that is closed or gone.                                *)
LEMMA SelectProject ==
    ASSUME Inv, NEW h \in Handler, Select(h)
    PROVE  ProjectInv'
<1> USE DEF Inv
<1>1. \A g \in Handler : g # h => Quiet(g)
  BY OneMoves
<1>2. Holds(h)
  BY DEF Select, Holds
<1>3. \A g \in Handler : g # h =>
        /\ pc'[g] \notin OpenPhase \cup {"project"}
        /\ frame'[g].kind # "switch" \/ pc'[g] \notin ClosePhase
  BY <1>1, <1>2, OnlyHolder DEF Quiet, OpenPhase, ClosePhase
<1>4. UNCHANGED <<tmux, registry, session>> /\ pc'[h] = "idle"
  BY HandlerTask DEF Select, Goto, TypeOK
<1>5. Unregistered
  BY DEF Select, Locals, ProjectInv
<1>6. Unregistered'
  BY <1>4, <1>5 DEF Unregistered
<1> QED
  BY <1>3, <1>4, <1>6 DEF ProjectInv, OpenPhase, ClosePhase

LEMMA ProjectStep ==
    ASSUME Inv, [Next]_vars
    PROVE  ProjectInv'
<1> USE DEF Inv
<1>1. CASE UNCHANGED vars
  <2>1. SessionsStay /\ TmuxStays /\ \A h \in Handler : GetsOn(h)
    BY <1>1 DEF vars, SessionsStay, TmuxStays, GetsOn
  <2> QED
    BY <1>1, <2>1, ProjectQuiet DEF vars
<1>2. ASSUME NEW h \in Handler, NEW kind \in {"view", "input"}, NEW c \in Config \cup {NoConfig}, Connect(h, kind, c)
      PROVE ProjectInv'
  <2>1. GetsOn(h)
    BY <1>2, HandlerTask DEF Connect, Goto, GetsOn, ClosePhase, TypeOK
  <2>2. \A g \in Handler : GetsOn(g)
    BY <1>2, <2>1, OneMoves, QuietGetsOn
  <2>3. /\ SessionsStay /\ TmuxStays /\ project' = project /\ registry' = registry
    BY <1>2 DEF Connect, SessionsStay, TmuxStays
  <2> QED
    BY <2>2, <2>3, ProjectQuiet
<1>3. ASSUME NEW h \in Handler, Reuse(h) \/ Replace(h) \/ Spawn(h) \/ SpawnFails(h)
      PROVE ProjectInv'
  <2>1. GetsOn(h)
    <3>1. CASE Reuse(h)
      BY <3>1, HandlerTask DEF Reuse, Goto, Ready, GetsOn, ClosePhase, TypeOK
    <3>2. CASE Replace(h)
      <4>1. frame'[h].kind = frame[h].kind
        BY <3>2 DEF Replace, TypeOK, Frame
      <4>2. pc'[h] \in {"sync", AfterClose(h)}
        BY <3>2, HandlerTask DEF Replace, Goto, Closing
      <4>3. frame[h].kind \in {"view", "input"}
        BY <3>2 DEF Replace, Locals
      <4> QED
        BY <4>1, <4>2, <4>3 DEF GetsOn, AfterClose, ClosePhase
    <3>3. CASE Spawn(h)
      BY <3>3, HandlerTask DEF Spawn, Goto, GetsOn, ClosePhase, TypeOK
    <3>4. CASE SpawnFails(h)
      BY <3>4, HandlerTask DEF SpawnFails, Goto, GetsOn, ClosePhase, TypeOK
    <3> QED
      BY <1>3, <3>1, <3>2, <3>3, <3>4
  <2>2. \A g \in Handler : GetsOn(g)
    BY <1>3, <2>1, OneMoves, QuietGetsOn DEF Open
  <2>3. SessionsStay /\ TmuxStays /\ project' = project /\ registry' = registry
    BY <1>3 DEF Reuse, Replace, Spawn, SpawnFails, SessionsStay, TmuxStays
  <2> QED
    BY <2>2, <2>3, ProjectQuiet
<1>4. ASSUME NEW h \in Handler, Attach(h) \/ Inject(h) \/ Delete(h) PROVE ProjectInv'
  <2>1. GetsOn(h)
    <3>1. CASE Attach(h)
      BY <3>1, HandlerTask DEF Attach, Goto, GetsOn, ClosePhase, TypeOK
    <3>2. CASE Inject(h)
      BY <3>2, HandlerTask, OwnTasks DEF Inject, GetsOn, ClosePhase, TypeOK, Locals
    <3>3. CASE Delete(h)
      BY <3>3, HandlerTask DEF Delete, GetsOn, ClosePhase, TypeOK, NoFrame
    <3> QED
      BY <1>4, <3>1, <3>2, <3>3
  <2>2. \A g \in Handler : GetsOn(g)
    BY <1>4, <2>1, OneMoves, QuietGetsOn
  <2>3. SessionsStay /\ TmuxStays /\ project' = project /\ registry' = registry
    BY <1>4 DEF Attach, Inject, Delete, SessionsStay, TmuxStays, TypeOK, Object
  <2> QED
    BY <2>2, <2>3, ProjectQuiet
<1>5. ASSUME \/ \E h \in Handler : Detach(h) \/ \E s \in Session : Evict(s, h)
             \/ \E s \in Session : Read(s) \/ Reap(s)
             \/ CliExits \/ DetachedEnds \/ DetachedFails
      PROVE  ProjectInv'
  <2>1. \A g \in Handler : GetsOn(g)
    BY <1>5, NoneMoves, QuietGetsOn
  <2>2. project' = project /\ registry' = registry
    BY <1>5 DEF Detach, Evict, Read, Eof, Exited, PaneExited, ReaderEnds, Reap, CliExits, DetachedEnds, DetachedFails
  <2>3. TmuxStays
    BY <1>5 DEF Detach, Evict, Read, Eof, Exited, PaneExited, ReaderEnds, Reap, CliExits,
                DetachedEnds, DetachedFails, TmuxStays, TypeOK, Tmux
  <2>4. SessionsStay
    <3>1. ASSUME NEW s \in Session, NEW h \in Handler, RemoveClient(s, h) PROVE SessionsStay
      BY <3>1 DEF RemoveClient, SessionsStay, TypeOK, Object
    <3>2. ASSUME NEW h \in Handler, Detach(h) PROVE SessionsStay
      BY <3>1, <3>2 DEF Detach, Locals
    <3>3. ASSUME NEW s \in Session, PaneExited(s) PROVE SessionsStay
      <4>1. session' = [session EXCEPT ![s] = [session[s] EXCEPT !.clients = {}, !.exited = TRUE]]
        BY <3>3 DEF PaneExited, Drop, TypeOK, Object
      <4> QED
        BY <4>1 DEF SessionsStay, TypeOK, Object
    <3>4. ASSUME NEW s \in Session, Exited(s) PROVE SessionsStay
      BY <3>4 DEF Exited, Drop, SessionsStay, TypeOK, Object
    <3>5. session' = session => SessionsStay
      BY DEF SessionsStay
    <3> QED
      BY <1>5, <3>1, <3>2, <3>3, <3>4, <3>5
         DEF Evict, Read, Eof, ReaderEnds, Reap, CliExits, DetachedEnds, DetachedFails
  <2> QED
    BY <2>1, <2>2, <2>3, <2>4, ProjectQuiet
<1>6. ASSUME NEW t \in Task, Close(t) \/ KillFails(t) \/ ProbeFails(t) PROVE ProjectInv'
  <2>1. /\ project' = project
        /\ registry' = registry \/ registry' = NoSession
    BY <1>6 DEF Close, MarkClosed, Kill, KillFails, HandOver, ProbeFails, EndClose
  <2>2. SessionsStay
    <3>1. CASE MarkClosed(t) \/ KillFails(t)
      BY <3>1 DEF MarkClosed, KillFails, SessionsStay, TypeOK, Object
    <3>2. CASE Kill(t) \/ HandOver(t) \/ ProbeFails(t)
      BY <3>2 DEF Kill, HandOver, ProbeFails, SessionsStay, TypeOK, Object
    <3>3. CASE EndClose(t)
      BY <3>3 DEF EndClose, Drop, SessionsStay, TypeOK, Object
    <3> QED
      BY <1>6, <3>1, <3>2, <3>3 DEF Close
  <2>3. TmuxStays
    BY <1>6 DEF Close, MarkClosed, Kill, KillFails, HandOver, ProbeFails, EndClose, TmuxStays, NoTmux, TypeOK, Object
  <2>4. \A g \in Handler : g # t => GetsOn(g)
    BY <1>6, CloserMoves, QuietGetsOn
  <2>5. t \in Handler => GetsOn(t)
    <3> SUFFICES ASSUME t \in Handler PROVE GetsOn(t)
      OBVIOUS
    <3>1. pc'[t] = "idle" \/ frame'[t] = frame[t]
      BY <1>6, CloserMoves
    <3>2. CASE MarkClosed(t)
      <4>1. pc[t] = "sync" /\ pc'[t] = "kill" /\ frame' = frame
        BY <3>2 DEF MarkClosed, Goto
      <4>2. frame[t].session \in Session
        BY <4>1 DEF Locals, ClosePhase
      <4>3. session'[frame[t].session].closed
        BY <3>2, <4>2 DEF MarkClosed, Target, TypeOK, Object
      <4> QED
        BY <4>1, <4>3 DEF GetsOn
    <3>3. CASE Kill(t) \/ KillFails(t) \/ HandOver(t) \/ ProbeFails(t)
      BY <3>3 DEF Kill, KillFails, HandOver, ProbeFails, Goto, GetsOn
    <3>4. CASE EndClose(t)
      <4>1. pc[t] = "end" /\ pc'[t] = AfterClose(t)
        BY <3>4 DEF EndClose, Goto
      <4>2. AfterClose(t) \in {"prepare", "project", "idle"}
        BY DEF AfterClose
      <4> QED
        BY <3>1, <4>1, <4>2 DEF GetsOn, ClosePhase
    <3> QED
      BY <1>6, <3>2, <3>3, <3>4 DEF Close
  <2> QED
    BY <2>1, <2>2, <2>3, <2>4, <2>5, ProjectQuiet
<1>7. CASE RunnerRestart
  BY <1>7, Restarted DEF ProjectInv, Unregistered, ClosePhase
<1> QED
  BY <1>1, <1>2, <1>3, <1>4, <1>5, <1>6, <1>7, PrepareProject, TmuxProject, BrokerProject,
     PublishProject, SwitchProject, SelectProject
     DEF Next, Routine, Request, Leave, Event, Fault, Open

LEMMA Invariants == Spec => []Inv
<1>1. Init => LockInv /\ ProjectInv
  BY HandlerTask DEF Init, LockInv, Holds, OpenPhase, ClosePhase, ProjectInv, Unregistered
<1>2. TypeOK /\ Locals /\ LockInv /\ ProjectInv <=> Inv
  BY DEF Inv
<1> QED
  BY <1>1, <1>2, TypeStep, LocalsStep, LockStep, ProjectStep, TypeAndLocals, PTL DEF Spec

(* A step that moves no request hands no session out. *)
LEMMA QuietHandsNone ==
    ASSUME NEW h \in Handler, Quiet(h)
    PROVE  ~HandedOut(h)
BY DEF Quiet, HandedOut

(* A session is handed out by its reuse or by its publication. *)
LEMMA HandingOut ==
    ASSUME Inv, [Next]_vars, NEW h \in Handler, HandedOut(h)
    PROVE  Reuse(h) \/ Publish(h)
<1> USE DEF Inv
<1>1. CASE UNCHANGED vars
  BY <1>1 DEF vars, HandedOut
<1>2. ASSUME NEW g \in Handler, g # h,
             \/ \E kind \in {"view", "input"}, c \in Config \cup {NoConfig} : Connect(g, kind, c)
             \/ Open(g) \/ SpawnFails(g)
             \/ Attach(g) \/ Inject(g) \/ Select(g) \/ Delete(g)
             \/ \E p \in Project : Switch(g, p)
      PROVE  FALSE
  BY <1>2, OneMoves, QuietHandsNone
<1>3. CASE \/ \E kind \in {"view", "input"}, c \in Config \cup {NoConfig} : Connect(h, kind, c)
           \/ \E p \in Project : Switch(h, p)
           \/ Attach(h) \/ Select(h) \/ Delete(h)
  BY <1>3, HandlerTask DEF Connect, Switch, Attach, Select, Delete, Goto, HandedOut, TypeOK
<1>4. CASE Inject(h)
  BY <1>4 DEF Inject, HandedOut
<1>5. CASE Open(h) \/ SpawnFails(h)
  <2>1. ~Replace(h)
    BY HandlerTask DEF Replace, Goto, Closing, AfterClose, HandedOut, TypeOK
  <2>2. ~Spawn(h) /\ ~EnsureTmux(h) /\ ~SpawnFails(h) /\ \A s \in Session : ~Prepare(h, s)
    BY HandlerTask DEF Spawn, EnsureTmux, SpawnFails, Prepare, Goto, HandedOut, TypeOK
  <2>3. ~AttachBroker(h)
    BY HandlerTask, OwnTasks DEF AttachBroker, Locals, HandedOut, TypeOK
  <2> QED
    BY <1>5, <2>1, <2>2, <2>3 DEF Open
<1>6. CASE \/ \E g \in Handler : Detach(g) \/ \E s \in Session : Evict(s, g)
           \/ \E s \in Session : Read(s) \/ Reap(s)
           \/ CliExits \/ DetachedEnds \/ DetachedFails
  BY <1>6, NoneMoves, QuietHandsNone
<1>7. ASSUME NEW t \in Task, Close(t) \/ KillFails(t) \/ ProbeFails(t) PROVE FALSE
  <2>1. t = h
    BY <1>7, CloserMoves, QuietHandsNone
  <2>2. pc'[h] \in ClosePhase \cup {AfterClose(h)}
    BY <1>7, <2>1 DEF Close, MarkClosed, Kill, KillFails, HandOver, ProbeFails, EndClose, Goto, ClosePhase
  <2> QED
    BY <2>2 DEF ClosePhase, AfterClose, HandedOut
<1>8. CASE RunnerRestart
  BY <1>8, Restarted DEF HandedOut
<1> QED
  BY <1>1, <1>2, <1>3, <1>4, <1>5, <1>6, <1>7, <1>8 DEF Next, Routine, Request, Leave, Event, Fault

(* RightProject: whoever opens a terminal - a viewer or a task - and        *)
(* whatever is closed, reaped, switched or replaced meanwhile, the session  *)
(* it is given is of the working copy the agent is on, and its tmux client  *)
(* shows a CLI started there.                                               *)
THEOREM HandedOutInProject == Spec => RightProject
<1>1. ASSUME Inv, [Next]_vars, NEW h \in Handler, HandedOut(h)
      PROVE  InProject(frame[h].session)'
  <2>1. CASE Publish(h)
    BY <1>1, <2>1, PublishProject
  <2>2. CASE Reuse(h)
    <3>1. frame'[h].session = registry /\ UNCHANGED <<session, tmux, project>>
      BY <1>1, <2>2 DEF Reuse, Inv, TypeOK, Frame
    <3>2. session[registry].cwd = project
      BY <1>1, <2>2 DEF Reuse, Fits, IsAlive, Inv, ProjectInv, Unregistered
    <3>3. registry \in Session /\ (session[registry].broker => tmux.cwd = project)
      BY <1>1, <2>2, <3>2 DEF Reuse, Inv, TypeOK, ProjectInv
    <3> QED
      BY <3>1, <3>2, <3>3 DEF InProject
  <2> QED
    BY <1>1, <2>1, <2>2, HandingOut
<1>2. Inv /\ [Next]_vars => [\A h \in Handler : HandedOut(h) => InProject(frame[h].session)']_vars
  BY <1>1
<1> QED
  BY <1>2, Invariants, PTL DEF Spec, RightProject

-----------------------------------------------------------------------------
(* Idle sessions and the credentials.                                      *)

(* A close that has gone past its last look has closed its session.         *)
ClosedInv ==
    \A t \in Task : pc[t] \in {"kill", "handover", "end"} => session[Target(t)].closed

(* A viewer is one of its own session's, and of no other.                   *)
ViewerInv ==
    \A s \in Session, h \in Handler :
        h \in session[s].clients => pc[h] = "attached" /\ Target(h) = s

StartInv ==
    \A h \in Handler :
        pc[h] \in {"tmux", "broker", "publish"} => session[Target(h)].stage = "starting"

(* Until its tmux client is attached nobody can close a session: it has no  *)
(* reader, and is not registered.                                          *)
Fresh(s) == \/ session[s].stage = "new"
            \/ \E h \in Handler : pc[h] \in {"tmux", "broker"} /\ Target(h) = s
FreshInv ==
    \A s \in Session : Fresh(s) =>
        /\ ~session[s].closed /\ ~session[s].broker /\ registry # s
        /\ pc[Reader(s)] = "idle"
        /\ \A t \in Task : pc[t] \in ClosePhase => Target(t) # s

ReaperInv == \A s \in Session : pc[Reaper(s)] \in {"idle", "armed"} \cup ClosePhase

StructInv == ClosedInv /\ ViewerInv /\ StartInv /\ FreshInv /\ ReaperInv

(* A session closed while it is being opened leaves its CLI to the watcher  *)
(* of its close.                                                           *)
WatchInv ==
    /\ CredentialsWatched
    /\ \A h \in Handler : pc[h] = "publish" /\ session[Target(h)].closed /\ ~orphaned =>
         \/ tmux.pane # "running" \/ detached
         \/ \E t \in Task : pc[t] \in {"kill", "handover"}

Kept == /\ StructInv'
        /\ IdleIsTimed => IdleIsTimed'
        /\ WatchInv => WatchInv'

(* A coroutine that stays where it is, on its session. *)
Same(u) == pc'[u] = pc[u] /\ (pc[u] = "idle" \/ Target(u)' = Target(u))

LEMMA GotoSame ==
    ASSUME TypeOK, NEW t \in Task, NEW phase, NEW ended, Goto(t, phase, ended),
           KeepFrames \/ frame' = frame
    PROVE  /\ pc'[t] = phase
           /\ phase = "idle" \/ Target(t)' = Target(t)
           /\ \A u \in Task : u # t /\ u \notin ended => Same(u)
           /\ \A u \in Task : u # t /\ u \in ended => pc'[u] = "idle"
<1>1. \A u \in Task : pc'[u] = IF u = t THEN phase ELSE IF u \in ended THEN "idle" ELSE pc[u]
  BY DEF Goto
<1>2. \A u \in Task : pc'[u] = "idle" \/ Target(u)' = Target(u)
  BY DEF KeepFrames, Target
<1> QED
  BY <1>1, <1>2 DEF Same

(* The session of a coroutine at work. *)
LEMMA TargetIs ==
    ASSUME Locals, NEW t \in Task,
           pc[t] \in ClosePhase \cup {"tmux", "broker", "publish", "attach", "attached", "inject"}
                     \/ t \notin Handler
    PROVE  Target(t) \in Session
BY DEF Target, Locals, Task, OwnTask

LEMMA OwnTarget ==
    ASSUME NEW s \in Session
    PROVE  /\ Target(Reader(s)) = s /\ Target(Reaper(s)) = s
           /\ Target(Reader(s))' = s /\ Target(Reaper(s))' = s
BY OwnTasks DEF Target

(* A request moves that neither closes, looks nor spawns a session yet.     *)
LEMMA RequestGoes ==
    ASSUME Inv, StructInv, NEW h \in Handler,
           UNCHANGED <<session, registry, tmux, detached>>,
           \A u \in Task : u # h => Same(u),
           pc[h] \notin ClosePhase \cup {"attached"},
           pc'[h] \notin {"kill", "handover", "end", "tmux", "broker", "publish"},
           pc'[h] = "sync" => Target(h)' = registry,
           orphaned => orphaned',
           tmux.pane = "running" /\ pc[h] \in Starting => pc'[h] \in Starting \/ orphaned'
    PROVE  Kept
<1> USE DEF Inv
<1>1. h \in Task /\ \A s \in Session : Reader(s) # h /\ Reaper(s) # h
                     /\ Reader(s) \in Task /\ Reaper(s) \in Task
  BY HandlerTask, OwnTasks
<1>2. ClosedInv'
  BY DEF StructInv, ClosedInv, Same
<1>3. ViewerInv'
  BY HandlerTask DEF StructInv, ViewerInv, Same
<1>4. StartInv'
  BY HandlerTask DEF StructInv, StartInv, Same
<1>5. FreshInv'
  <2> SUFFICES ASSUME NEW s \in Session, Fresh(s)'
               PROVE  /\ (~session[s].closed /\ ~session[s].broker /\ registry # s)'
                      /\ pc'[Reader(s)] = "idle"
                      /\ \A t \in Task : pc'[t] \in ClosePhase => Target(t)' # s
    BY DEF FreshInv
  <2>1. Fresh(s)
    BY HandlerTask DEF Fresh, Same
  <2>2. /\ ~session[s].closed /\ ~session[s].broker /\ registry # s
        /\ pc[Reader(s)] = "idle"
        /\ \A t \in Task : pc[t] \in ClosePhase => Target(t) # s
    BY <2>1 DEF StructInv, FreshInv
  <2>3. \A t \in Task : pc'[t] \in ClosePhase => Target(t)' # s
    BY <2>2 DEF Same, ClosePhase
  <2> QED
    BY <1>1, <2>2, <2>3 DEF Same
<1>6. ASSUME IdleIsTimed PROVE IdleIsTimed'
  <2> SUFFICES ASSUME NEW s \in Session, pc[Reaper(s)] = "armed" \/ IsClosing(s)
               PROVE  pc'[Reaper(s)] = "armed" \/ IsClosing(s)'
    BY <1>6 DEF IdleIsTimed, IsAlive
  <2>1. CASE pc[Reaper(s)] = "armed" \/ pc[Reader(s)] = "exit"
    BY <1>1, <2>1 DEF Same, IsClosing
  <2>2. CASE \E t \in Task : pc[t] \in ClosePhase /\ Target(t) = s
    <3>1. PICK t \in Task : pc[t] \in ClosePhase /\ Target(t) = s
      BY <2>2
    <3>2. t # h /\ pc[t] # "idle"
      BY <3>1 DEF ClosePhase
    <3>3. pc'[t] \in ClosePhase /\ Target(t)' = s
      BY <3>1, <3>2 DEF Same
    <3> QED
      BY <3>3 DEF IsClosing
  <2> QED
    BY <2>1, <2>2 DEF IsClosing
<1>7. ASSUME WatchInv PROVE WatchInv'
  <2>1. \A t \in Task : pc[t] \in {"kill", "handover"} => pc'[t] = pc[t]
    BY DEF Same, ClosePhase
  <2>2. \A t \in Task : tmux.pane = "running" /\ pc[t] \in Starting =>
          pc'[t] \in Starting \/ orphaned'
    BY <1>7 DEF Same
  <2>3. CredentialsWatched'
    BY <1>7, <2>1, <2>2 DEF WatchInv, CredentialsWatched
  <2>4. \A g \in Handler : pc'[g] = "publish" => pc[g] = "publish" /\ Target(g)' = Target(g)
    BY HandlerTask DEF Same
  <2> QED
    BY <1>7, <2>1, <2>3, <2>4 DEF WatchInv
<1>8. ReaperInv'
  BY <1>1 DEF StructInv, ReaperInv, Same
<1> QED
  BY <1>2, <1>3, <1>4, <1>5, <1>6, <1>7, <1>8 DEF Kept, StructInv

(* What the step of a coroutine that reads, reaps or closes a session does  *)
(* to the sessions: viewers leave, and the session it closes is closed.     *)
Works(t, phase, ended) ==
    /\ \A s \in Session :
         /\ session'[s].stage = session[s].stage
         /\ session[s].closed => session'[s].closed
         /\ session[s].exited => session'[s].exited
         /\ session'[s].broker => session[s].broker
         /\ session'[s].clients \subseteq session[s].clients
         /\ session'[s].clients \cap ended = {}
         /\ session'[s].closed => session[s].closed \/ (s = Target(t) /\ pc[t] = "sync")
         /\ session[s].clients # {} /\ session'[s].clients = {} =>
              \/ session'[s].closed \/ session'[s].exited
              \/ phase = "sync" /\ Target(t) = s
         /\ Reaper(s) \in ended => session'[s].closed
    /\ registry' = registry \/ registry' = NoSession
    /\ tmux' = tmux \/ tmux'.pane = "none"
    /\ detached => detached'

LEMMA TaskGoes ==
    ASSUME Inv, StructInv, NEW t \in Task, NEW phase, NEW ended,
           Goto(t, phase, ended), KeepFrames \/ frame' = frame, Works(t, phase, ended),
           pc[t] \in ClosePhase \/ (t \notin Handler /\ pc[t] \in {"reading", "exit", "armed"}),
           \A u \in ended \cap Task :
             pc[u] = "attached" \/ \E s \in Session : u = Reaper(s) /\ pc[u] \in {"armed", "sync"},
           phase \in {"kill", "handover", "end"} => session'[Target(t)].closed,
           phase \notin {"tmux", "broker", "publish", "armed"},
           t = Reaper(Target(t)) => phase \in {"idle"} \cup ClosePhase,
           pc[t] \in ClosePhase \/ t = Reader(Target(t)) \/ session[Target(t)].broker
             \/ phase \notin ClosePhase,
           pc[t] = "sync" => phase = "kill" /\ session'[Target(t)].closed,
           pc[t] = "exit" => phase = "sync" \/ session[Target(t)].closed,
           pc[t] = "armed" => \/ phase = "sync" \/ session[Target(t)].clients # {}
                              \/ ~IsAlive(Target(t)),
           pc[t] \in {"kill", "handover"} =>
             phase \in {"kill", "handover"} \/ detached' \/ orphaned' \/ tmux'.pane # "running",
           orphaned => orphaned' \/ detached' \/ tmux'.pane # "running"
    PROVE  Kept
<1> USE DEF Inv
<1> DEFINE r == Target(t)
<1>1. /\ pc'[t] = phase
      /\ phase = "idle" \/ Target(t)' = r
      /\ \A u \in Task : u # t /\ u \notin ended => Same(u)
      /\ \A u \in Task : u # t /\ u \in ended => pc'[u] = "idle"
  BY GotoSame
<1>2. r \in Session
  BY TargetIs
<1>3. \A s \in Session :
        /\ Reader(s) \in Task /\ Reaper(s) \in Task
        /\ Target(Reader(s)) = s /\ Target(Reaper(s)) = s
        /\ Target(Reader(s))' = s /\ Target(Reaper(s))' = s
  BY OwnTasks, OwnTarget
<1>4. \A h \in Handler : h \in Task /\ (h = t => pc[h] # "attached")
  BY HandlerTask DEF ClosePhase
<1>5. ClosedInv'
  <2> SUFFICES ASSUME NEW u \in Task, pc'[u] \in {"kill", "handover", "end"}
               PROVE  session'[Target(u)'].closed
    BY DEF ClosedInv
  <2>1. CASE u = t
    BY <1>1, <2>1
  <2>2. CASE u # t
    <3>1. Same(u) /\ pc[u] \in {"kill", "handover", "end"}
      BY <1>1, <2>2 DEF Same
    <3>2. Target(u) \in Session /\ session[Target(u)].closed /\ Target(u)' = Target(u)
      BY <3>1, TargetIs DEF StructInv, ClosedInv, ClosePhase, Same
    <3> QED
      BY <3>2 DEF Works
  <2> QED
    BY <2>1, <2>2
<1>6. ViewerInv'
  <2> SUFFICES ASSUME NEW s \in Session, NEW h \in Handler, h \in session'[s].clients
               PROVE  pc'[h] = "attached" /\ Target(h)' = s
    BY DEF ViewerInv
  <2>1. h \in session[s].clients /\ h \notin ended
    BY DEF Works
  <2>2. pc[h] = "attached" /\ Target(h) = s
    BY <2>1 DEF StructInv, ViewerInv
  <2> QED
    BY <1>1, <1>4, <2>1, <2>2 DEF Same
<1>7. \A h \in Handler : pc'[h] \in {"tmux", "broker", "publish"} =>
        pc'[h] = pc[h] /\ Target(h)' = Target(h) /\ Target(h) \in Session
  BY <1>1, <1>4, TargetIs DEF Same
<1>8. StartInv'
  BY <1>7 DEF StructInv, StartInv, Works
<1>9. FreshInv'
  <2> SUFFICES ASSUME NEW s \in Session, Fresh(s)'
               PROVE  /\ (~session[s].closed /\ ~session[s].broker /\ registry # s)'
                      /\ pc'[Reader(s)] = "idle"
                      /\ \A u \in Task : pc'[u] \in ClosePhase => Target(u)' # s
    BY DEF FreshInv
  <2>1. Fresh(s)
    BY <1>7 DEF Fresh, Works
  <2>2. /\ ~session[s].closed /\ ~session[s].broker /\ registry # s
        /\ pc[Reader(s)] = "idle"
        /\ \A u \in Task : pc[u] \in ClosePhase => Target(u) # s
    BY <2>1 DEF StructInv, FreshInv
  <2>3. t # Reader(s)
    BY <1>3, <2>2 DEF ClosePhase
  <2>4. phase \in ClosePhase => r # s
    BY <1>3, <2>2, <2>3
  <2>5. \A u \in Task : pc'[u] \in ClosePhase => Target(u)' # s
    BY <1>1, <2>2, <2>4 DEF Same, ClosePhase
  <2>6. pc'[Reader(s)] = "idle"
    BY <1>1, <1>3, <2>2, <2>3 DEF Same
  <2>7. ~session'[s].closed /\ ~session'[s].broker /\ registry' # s
    <3>1. NoSession # s
      BY ConstantsAssumption DEF ConstantsAssumption
    <3>2. pc[t] = "sync" => r # s
      BY <2>2 DEF ClosePhase
    <3> QED
      BY <2>2, <3>1, <3>2 DEF Works
  <2> QED
    BY <2>5, <2>6, <2>7
<1>10. ASSUME IdleIsTimed PROVE IdleIsTimed'
  <2> SUFFICES ASSUME NEW s \in Session, session'[s].stage = "up", IsAlive(s)',
                      session'[s].clients = {}
               PROVE  pc'[Reaper(s)] = "armed" \/ IsClosing(s)'
    BY DEF IdleIsTimed
  <2>1. /\ session[s].stage = "up" /\ IsAlive(s)
        /\ ~session'[s].closed /\ ~session'[s].exited /\ ~session[s].closed
    BY DEF Works, IsAlive
  <2>2. CASE phase = "sync" /\ r = s
    BY <1>1, <2>2 DEF IsClosing, ClosePhase
  <2>3. CASE ~(phase = "sync" /\ r = s)
    <3>1. session[s].clients = {}
      BY <2>1, <2>3 DEF Works
    <3>2. pc[Reaper(s)] = "armed" \/ IsClosing(s)
      BY <1>10, <2>1, <3>1 DEF IdleIsTimed
    <3>3. CASE pc[Reaper(s)] = "armed"
      <4>1. Reaper(s) # t
        BY <1>3, <2>1, <2>3, <3>1, <3>3
      <4>2. Reaper(s) \notin ended
        BY <2>1 DEF Works
      <4> QED
        BY <1>1, <1>3, <3>3, <4>1, <4>2 DEF Same
    <3>4. CASE pc[Reader(s)] = "exit"
      <4>1. Reader(s) # t
        BY <1>3, <2>1, <2>3, <3>4
      <4>2. Reader(s) \notin ended
        BY <1>3, <3>4
      <4> QED
        BY <1>1, <1>3, <3>4, <4>1, <4>2 DEF Same, IsClosing
    <3>5. ASSUME NEW u \in Task, pc[u] \in ClosePhase, Target(u) = s
          PROVE  IsClosing(s)'
      <4>1. pc[u] = "sync"
        BY <2>1, <3>5 DEF StructInv, ClosedInv, ClosePhase
      <4>2. u # t
        BY <2>1, <3>5, <4>1
      <4>3. u \notin ended
        BY <1>3, <2>1, <3>5, <4>1 DEF Works
      <4>4. pc'[u] \in ClosePhase /\ Target(u)' = s
        BY <1>1, <3>5, <4>1, <4>2, <4>3 DEF Same
      <4> QED
        BY <4>4 DEF IsClosing
    <3> QED
      BY <3>2, <3>3, <3>4, <3>5 DEF IsClosing
  <2> QED
    BY <2>2, <2>3
<1>11. ASSUME WatchInv PROVE WatchInv'
  <2>1. ASSUME NEW u \in Task, pc[u] \in {"kill", "handover"}, tmux'.pane = "running",
               ~orphaned'
        PROVE  detached' \/ \E v \in Task : pc'[v] \in {"kill", "handover"}
    <3>1. CASE u = t
      BY <1>1, <2>1, <3>1
    <3>2. CASE u # t
      BY <1>1, <2>1, <3>2 DEF Same
    <3> QED
      BY <3>1, <3>2
  <2>2. ASSUME NEW u \in Task, pc[u] \in Starting PROVE pc'[u] \in Starting
    <3>1. u # t /\ u \notin ended
      BY <1>3, <2>2, HandlerTask DEF Starting, ClosePhase
    <3> QED
      BY <1>1, <2>2, <3>1 DEF Same
  <2>3. ASSUME NEW s \in Session, session'[s].closed, ~session[s].closed
        PROVE  \E v \in Task : pc'[v] \in {"kill", "handover"}
    BY <1>1, <2>3 DEF Works
  <2>4. CredentialsWatched'
    <3> SUFFICES ASSUME tmux'.pane = "running", ~orphaned' PROVE CredentialsWatched'
      BY DEF CredentialsWatched
    <3>1. tmux.pane = "running"
      BY DEF Works
    <3>0. orphaned => detached'
      OBVIOUS
    <3>2. ASSUME NEW s \in Session, session[s].stage = "up", ~session[s].closed
          PROVE  CredentialsWatched'
      BY <2>3, <3>2 DEF CredentialsWatched, Works
    <3> QED
      BY <1>11, <2>1, <2>2, <3>0, <3>1, <3>2 DEF WatchInv, CredentialsWatched, Works
  <2>5. ASSUME NEW h \in Handler, pc'[h] = "publish", session'[Target(h)'].closed,
               tmux'.pane = "running", ~orphaned'
        PROVE  detached' \/ \E v \in Task : pc'[v] \in {"kill", "handover"}
    <3>1. pc[h] = "publish" /\ Target(h)' = Target(h) /\ Target(h) \in Session
      BY <1>7, <2>5
    <3>2. CASE session[Target(h)].closed
      BY <1>11, <2>1, <2>5, <3>1, <3>2 DEF WatchInv, Works
    <3>3. CASE ~session[Target(h)].closed
      BY <2>3, <2>5, <3>1, <3>3
    <3> QED
      BY <3>2, <3>3
  <2> QED
    BY <2>4, <2>5 DEF WatchInv
<1>12. ReaperInv'
  <2> SUFFICES ASSUME NEW s \in Session
               PROVE  pc'[Reaper(s)] \in {"idle", "armed"} \cup ClosePhase
    BY DEF ReaperInv
  <2>1. CASE Reaper(s) = t
    BY <1>1, <1>3, <2>1
  <2>2. CASE Reaper(s) # t
    BY <1>1, <1>3, <2>2 DEF Same, StructInv, ReaperInv
  <2> QED
    BY <2>1, <2>2
<1> QED
  BY <1>5, <1>6, <1>8, <1>9, <1>10, <1>11, <1>12 DEF Kept, StructInv

(* A viewer leaves its session, or a task has pasted its prompt; the last   *)
(* of them starts the idle timer.                                          *)
LEMMA UserLeaves ==
    ASSUME Inv, StructInv, NEW h \in Handler, NEW s \in Session, NEW arm \in BOOLEAN,
           pc[h] \in {"attached", "inject"}, KeepFrames,
           pc' = [pc EXCEPT ![h] = "idle", ![Reaper(s)] = IF arm THEN Armed(s) ELSE @],
           \A r \in Session :
             /\ session'[r].stage = session[r].stage /\ session'[r].closed = session[r].closed
             /\ session'[r].broker = session[r].broker /\ session'[r].exited = session[r].exited
             /\ session'[r].clients = session[r].clients \ {h}
             /\ h \in session[r].clients => r = s
             /\ IsAlive(r) /\ session[r].clients = {h} => arm,
           UNCHANGED <<registry, tmux, detached, orphaned>>
    PROVE  Kept
<1> USE DEF Inv
<1>1. \A r \in Session :
        /\ Reader(r) \in Task /\ Reaper(r) \in Task
        /\ Target(Reader(r)) = r /\ Target(Reaper(r)) = r
        /\ Target(Reader(r))' = r /\ Target(Reaper(r))' = r
        /\ Reader(r) # Reaper(s) /\ Reader(r) # h /\ Reaper(r) # h
  BY OwnTasks, OwnTarget DEF Reader, Reaper
<1>2. pc'[h] = "idle" /\ h \in Task
  BY <1>1, HandlerTask DEF TypeOK
<1>3. \A u \in Task : u # h /\ u # Reaper(s) => Same(u)
  BY <1>1 DEF TypeOK, Same, KeepFrames, Target
<1>4. \/ pc'[Reaper(s)] = pc[Reaper(s)]
      \/ arm /\ pc[Reaper(s)] \in {"idle", "armed", "sync"} /\ pc'[Reaper(s)] = "armed"
  BY <1>1 DEF TypeOK, Armed
<1>5. arm => pc'[Reaper(s)] = "armed" \/ pc[Reaper(s)] \in {"kill", "handover", "end"}
  BY <1>1 DEF TypeOK, Armed, StructInv, ReaperInv, ClosePhase
<1>6. \A u \in Task : pc'[u] # "idle" /\ pc'[u] # "armed" =>
        pc'[u] = pc[u] /\ Target(u)' = Target(u) /\ u # h
  BY <1>1, <1>2, <1>3, <1>4 DEF Same
<1>7. ClosedInv'
  <2> SUFFICES ASSUME NEW u \in Task, pc'[u] \in {"kill", "handover", "end"}
               PROVE  session'[Target(u)'].closed
    BY DEF ClosedInv
  <2>1. pc[u] \in {"kill", "handover", "end"} /\ Target(u)' = Target(u)
    BY <1>6
  <2>2. Target(u) \in Session /\ session[Target(u)].closed
    BY <2>1, TargetIs DEF StructInv, ClosedInv, ClosePhase
  <2> QED
    BY <2>1, <2>2
<1>8. ViewerInv'
  <2> SUFFICES ASSUME NEW r \in Session, NEW g \in Handler, g \in session'[r].clients
               PROVE  pc'[g] = "attached" /\ Target(g)' = r
    BY DEF ViewerInv
  <2>1. g # h /\ pc[g] = "attached" /\ Target(g) = r
    BY DEF StructInv, ViewerInv
  <2>2. g \in Task /\ g # Reaper(s)
    BY HandlerTask, OwnTasks
  <2> QED
    BY <1>3, <2>1, <2>2 DEF Same
<1>9. \A g \in Handler : pc'[g] \in {"tmux", "broker", "publish"} =>
        pc'[g] = pc[g] /\ Target(g)' = Target(g) /\ Target(g) \in Session
  BY <1>6, HandlerTask, TargetIs
<1>10. StartInv'
  BY <1>9 DEF StructInv, StartInv
<1>11. FreshInv'
  <2> SUFFICES ASSUME NEW r \in Session, Fresh(r)'
               PROVE  /\ (~session[r].closed /\ ~session[r].broker /\ registry # r)'
                      /\ pc'[Reader(r)] = "idle"
                      /\ \A u \in Task : pc'[u] \in ClosePhase => Target(u)' # r
    BY DEF FreshInv
  <2>1. Fresh(r)
    BY <1>9 DEF Fresh
  <2>2. /\ ~session[r].closed /\ ~session[r].broker /\ registry # r
        /\ pc[Reader(r)] = "idle"
        /\ \A u \in Task : pc[u] \in ClosePhase => Target(u) # r
    BY <2>1 DEF StructInv, FreshInv
  <2>3. \A u \in Task : pc'[u] \in ClosePhase => Target(u)' # r
    BY <1>6, <2>2 DEF ClosePhase
  <2> QED
    BY <1>1, <1>3, <2>2, <2>3 DEF Same
<1>12. ASSUME IdleIsTimed PROVE IdleIsTimed'
  <2> SUFFICES ASSUME NEW r \in Session, session'[r].stage = "up", IsAlive(r)',
                      session'[r].clients = {}
               PROVE  pc'[Reaper(r)] = "armed" \/ IsClosing(r)'
    BY DEF IdleIsTimed
  <2>1. session[r].stage = "up" /\ IsAlive(r) /\ ~session[r].closed
    BY DEF IsAlive
  <2>2. CASE r = s /\ arm
    <3>1. pc[Reaper(s)] \notin {"kill", "handover", "end"}
      BY <1>1, <2>1, <2>2 DEF StructInv, ClosedInv
    <3> QED
      BY <1>5, <2>2, <3>1
  <2>3. CASE ~(r = s /\ arm)
    <3>1. session[r].clients = {}
      <4>1. session[r].clients \subseteq {h}
        OBVIOUS
      <4>2. h \in session[r].clients => r = s /\ arm
        BY <2>1, <4>1
      <4> QED
        BY <2>3, <4>1, <4>2
    <3>2. pc[Reaper(r)] = "armed" \/ IsClosing(r)
      BY <1>12, <2>1, <3>1 DEF IdleIsTimed
    <3>3. CASE pc[Reaper(r)] = "armed"
      BY <1>1, <1>3, <1>4, <3>3 DEF Same
    <3>4. CASE pc[Reader(r)] = "exit"
      BY <1>1, <1>3, <3>4 DEF Same, IsClosing
    <3>5. ASSUME NEW u \in Task, pc[u] \in ClosePhase, Target(u) = r
          PROVE  pc'[Reaper(r)] = "armed" \/ IsClosing(r)'
      <4>1. CASE u # Reaper(s)
        <5>1. pc'[u] \in ClosePhase /\ Target(u)' = r
          BY <1>3, <3>5, <4>1 DEF Same, ClosePhase
        <5> QED
          BY <5>1 DEF IsClosing
      <4>2. CASE u = Reaper(s)
        <5>1. r = s /\ Target(u)' = r
          BY <1>1, <3>5, <4>2
        <5> QED
          BY <1>4, <3>5, <4>2, <5>1 DEF IsClosing
      <4> QED
        BY <4>1, <4>2
    <3> QED
      BY <3>2, <3>3, <3>4, <3>5 DEF IsClosing
  <2> QED
    BY <2>2, <2>3
<1>13. ASSUME WatchInv PROVE WatchInv'
  <2>1. \A u \in Task : pc[u] \in {"kill", "handover"} \cup Starting => pc'[u] = pc[u]
    <3> SUFFICES ASSUME NEW u \in Task, pc[u] \in {"kill", "handover"} \cup Starting
                 PROVE  pc'[u] = pc[u]
      OBVIOUS
    <3>1. u # h
      BY DEF Starting
    <3> QED
      BY <1>3, <1>4, <3>1 DEF Same, Starting
  <2>2. CredentialsWatched'
    BY <1>13, <2>1 DEF WatchInv, CredentialsWatched
  <2>3. ASSUME NEW g \in Handler, pc'[g] = "publish", session'[Target(g)'].closed,
               tmux'.pane = "running", ~orphaned'
        PROVE  detached' \/ \E u \in Task : pc'[u] \in {"kill", "handover"}
    <3>1. pc[g] = "publish" /\ session[Target(g)].closed
      BY <1>9, <2>3
    <3> QED
      BY <1>13, <2>1, <2>3, <3>1 DEF WatchInv
  <2> QED
    BY <2>2, <2>3 DEF WatchInv
<1>14. ReaperInv'
  BY <1>1, <1>3, <1>4 DEF StructInv, ReaperInv, Same
<1> QED
  BY <1>7, <1>8, <1>10, <1>11, <1>12, <1>13, <1>14 DEF Kept, StructInv

(* A step of an opening: one request moves, with the lock, and no other is  *)
(* opening.                                                                *)
LEMMA Alone ==
    ASSUME Inv, NEW h \in Handler, pc[h] \in OpenPhase
    PROVE  \A g \in Handler : g # h => pc[g] \notin OpenPhase
BY OnlyHolder DEF Holds, Inv

LEMMA PrepareKept ==
    ASSUME Inv, StructInv, NEW h \in Handler, NEW s \in Session, Prepare(h, s)
    PROVE  Kept
<1> USE DEF Inv
<1>1. h \in Task /\ pc[h] = "prepare" /\ pc'[h] = "tmux" /\ frame'[h].session = s
      /\ registry' = registry /\ tmux' = tmux
  BY HandlerTask DEF Prepare, Goto, TypeOK, Frame
<1>2. \A u \in Task : u # h => pc'[u] = pc[u] /\ Target(u)' = Target(u)
  BY DEF Prepare, Goto, Target, TypeOK
<1>3. \A r \in Session :
        /\ session'[r].closed = session[r].closed /\ session'[r].broker = session[r].broker
        /\ session'[r].exited = session[r].exited /\ session'[r].clients = session[r].clients
        /\ session'[r].stage = IF r = s THEN "starting" ELSE session[r].stage
  BY DEF Prepare, TypeOK, Object
<1>4. session[s].stage = "new" /\ Target(h)' = s
  BY <1>1 DEF Prepare, Target
<1>5. \A g \in Handler : g # h => pc[g] \notin OpenPhase
  BY <1>1, Alone DEF OpenPhase
<1>6. \A r \in Session : Reader(r) \in Task /\ Reaper(r) \in Task /\ Reader(r) # h /\ Reaper(r) # h
  BY OwnTasks
<1>7. ClosedInv'
  <2> SUFFICES ASSUME NEW u \in Task, pc'[u] \in {"kill", "handover", "end"}
               PROVE  session'[Target(u)'].closed
    BY DEF ClosedInv
  <2>1. pc[u] \in {"kill", "handover", "end"} /\ Target(u)' = Target(u)
    BY <1>1, <1>2
  <2>2. Target(u) \in Session /\ session[Target(u)].closed
    BY <2>1, TargetIs DEF StructInv, ClosedInv, ClosePhase
  <2> QED
    BY <1>3, <2>1, <2>2
<1>8. ViewerInv'
  <2> SUFFICES ASSUME NEW r \in Session, NEW g \in Handler, g \in session'[r].clients
               PROVE  pc'[g] = "attached" /\ Target(g)' = r
    BY DEF ViewerInv
  <2>1. pc[g] = "attached" /\ Target(g) = r
    BY <1>3 DEF StructInv, ViewerInv
  <2> QED
    BY <1>1, <1>2, <2>1, HandlerTask
<1>9. StartInv'
  BY <1>1, <1>2, <1>3, <1>4, <1>5, HandlerTask DEF StartInv, OpenPhase
<1>10. FreshInv'
  <2> SUFFICES ASSUME NEW r \in Session, Fresh(r)'
               PROVE  /\ (~session[r].closed /\ ~session[r].broker /\ registry # r)'
                      /\ pc'[Reader(r)] = "idle"
                      /\ \A u \in Task : pc'[u] \in ClosePhase => Target(u)' # r
    BY DEF FreshInv
  <2>1. Fresh(r)
    <3>1. CASE r = s
      BY <1>4, <3>1 DEF Fresh
    <3>2. CASE r # s
      BY <1>1, <1>2, <1>3, <1>4, <3>2, HandlerTask DEF Fresh
    <3> QED
      BY <3>1, <3>2
  <2>2. /\ ~session[r].closed /\ ~session[r].broker /\ registry # r
        /\ pc[Reader(r)] = "idle"
        /\ \A u \in Task : pc[u] \in ClosePhase => Target(u) # r
    BY <2>1 DEF StructInv, FreshInv
  <2>3. \A u \in Task : pc'[u] \in ClosePhase => Target(u)' # r
    BY <1>1, <1>2, <2>2 DEF ClosePhase
  <2> QED
    BY <1>1, <1>2, <1>3, <1>6, <2>2, <2>3
<1>11. ASSUME IdleIsTimed PROVE IdleIsTimed'
  <2> SUFFICES ASSUME NEW r \in Session, session'[r].stage = "up", IsAlive(r)',
                      session'[r].clients = {}
               PROVE  pc'[Reaper(r)] = "armed" \/ IsClosing(r)'
    BY DEF IdleIsTimed
  <2>1. pc[Reaper(r)] = "armed" \/ IsClosing(r)
    BY <1>3, <1>11 DEF IdleIsTimed, IsAlive
  <2>2. CASE pc[Reaper(r)] = "armed" \/ pc[Reader(r)] = "exit"
    BY <1>2, <1>6, <2>2 DEF IsClosing
  <2>3. ASSUME NEW u \in Task, pc[u] \in ClosePhase, Target(u) = r PROVE IsClosing(r)'
    <3>1. u # h
      BY <1>1, <2>3 DEF ClosePhase
    <3> QED
      BY <1>2, <2>3, <3>1 DEF IsClosing
  <2> QED
    BY <2>1, <2>2, <2>3 DEF IsClosing
<1>12. WatchInv'
  <2>1. CredentialsWatched'
    BY <1>1 DEF CredentialsWatched, Starting
  <2>2. \A g \in Handler : pc'[g] # "publish"
    BY <1>1, <1>2, <1>5, HandlerTask DEF OpenPhase
  <2> QED
    BY <2>1, <2>2 DEF WatchInv
<1>13. ReaperInv'
  BY <1>2, <1>6 DEF StructInv, ReaperInv
<1> QED
  BY <1>7, <1>8, <1>9, <1>10, <1>11, <1>12, <1>13 DEF Kept, StructInv

(* The tmux session is there, or its client is attached. *)
LEMMA SpawnKept ==
    ASSUME Inv, StructInv, NEW h \in Handler, EnsureTmux(h) \/ AttachBroker(h)
    PROVE  Kept
<1> USE DEF Inv
<1> DEFINE s == Target(h)
<1>1. h \in Task /\ s \in Session /\ frame' = frame /\ registry' = registry
      /\ pc[h] \in {"tmux", "broker"} /\ detached' = detached
  BY HandlerTask DEF EnsureTmux, AttachBroker, Target, Locals
<1>2. \A r \in Session : Reader(r) \in Task /\ Reaper(r) \in Task /\ Reader(r) # h
                          /\ Reaper(r) # h /\ Reaper(r) # Reader(s)
                          /\ (Reader(r) = Reader(s) => r = s)
                          /\ Target(Reader(r)) = r
  BY <1>1, OwnTasks DEF Reader, Reaper, Target
<1>3. \A u \in Task : Target(u)' = Target(u)
  BY <1>1 DEF Target
<1>4. \/ pc[h] = "tmux" /\ pc'[h] = "broker" /\ \A u \in Task : u # h => pc'[u] = pc[u]
      \/ /\ pc[h] = "broker" /\ pc'[h] = "publish" /\ pc'[Reader(s)] = "reading"
         /\ \A u \in Task : u # h /\ u # Reader(s) => pc'[u] = pc[u]
  <2>1. CASE EnsureTmux(h)
    BY <1>1, <2>1 DEF EnsureTmux, Goto
  <2>2. CASE AttachBroker(h)
    <3>1. pc' = [pc EXCEPT ![h] = "publish", ![Reader(s)] = "reading"] /\ pc[h] = "broker"
      BY <2>2 DEF AttachBroker, Target
    <3> QED
      BY <1>1, <1>2, <3>1 DEF TypeOK
  <2> QED
    BY <2>1, <2>2
<1>5. \A r \in Session :
        /\ session'[r].closed = session[r].closed /\ session'[r].stage = session[r].stage
        /\ session'[r].exited = session[r].exited /\ session'[r].clients = session[r].clients
        /\ session'[r].broker => session[r].broker \/ (r = s /\ pc'[h] = "publish")
  <2>1. CASE EnsureTmux(h)
    BY <2>1 DEF EnsureTmux, TypeOK, Object
  <2>2. CASE AttachBroker(h)
    <3>1. pc'[h] = "publish"
      BY <1>1, <1>2, <2>2 DEF AttachBroker, TypeOK, Target
    <3> QED
      BY <2>2, <3>1 DEF AttachBroker, TypeOK, Object, Target
  <2> QED
    BY <2>1, <2>2
<1>6. /\ Fresh(s) /\ session[s].stage = "starting" /\ ~session[s].closed
      /\ pc[Reader(s)] = "idle"
  BY <1>1 DEF Fresh, StructInv, StartInv, FreshInv
<1>7. \A g \in Handler : g # h => pc[g] \notin OpenPhase /\ pc'[g] = pc[g] /\ g \in Task
  BY <1>1, <1>2, <1>4, Alone, HandlerTask, OwnTasks DEF OpenPhase
<1>8. \A u \in Task : pc'[u] \in ClosePhase \cup {"attached"} => pc'[u] = pc[u]
  BY <1>4 DEF ClosePhase
<1>9. \A u \in Task : pc[u] \in ClosePhase \cup {"attached", "armed", "exit"} => pc'[u] = pc[u]
  BY <1>4, <1>6 DEF ClosePhase
<1>10. ClosedInv'
  <2> SUFFICES ASSUME NEW u \in Task, pc'[u] \in {"kill", "handover", "end"}
               PROVE  session'[Target(u)'].closed
    BY DEF ClosedInv
  <2>1. pc[u] \in {"kill", "handover", "end"}
    BY <1>8 DEF ClosePhase
  <2>2. Target(u) \in Session /\ session[Target(u)].closed
    BY <2>1, TargetIs DEF StructInv, ClosedInv, ClosePhase
  <2> QED
    BY <1>3, <1>5, <2>2
<1>11. ViewerInv'
  <2> SUFFICES ASSUME NEW r \in Session, NEW g \in Handler, g \in session'[r].clients
               PROVE  pc'[g] = "attached" /\ Target(g)' = r
    BY DEF ViewerInv
  <2>1. pc[g] = "attached" /\ Target(g) = r
    BY <1>5 DEF StructInv, ViewerInv
  <2> QED
    BY <1>3, <1>9, <2>1, HandlerTask
<1>12. StartInv'
  BY <1>1, <1>3, <1>5, <1>6, <1>7 DEF StartInv, OpenPhase
<1>13. FreshInv'
  <2> SUFFICES ASSUME NEW r \in Session, Fresh(r)'
               PROVE  /\ (~session[r].closed /\ ~session[r].broker /\ registry # r)'
                      /\ pc'[Reader(r)] = "idle"
                      /\ \A u \in Task : pc'[u] \in ClosePhase => Target(u)' # r
    BY DEF FreshInv
  <2>1. Fresh(r) /\ (r = s => pc'[h] = "broker")
    <3>1. CASE session[r].stage = "new"
      BY <1>6, <3>1 DEF Fresh
    <3>2. CASE session[r].stage # "new"
      <4>1. PICK g \in Handler : pc'[g] \in {"tmux", "broker"} /\ Target(g)' = r
        BY <1>5, <3>2 DEF Fresh
      <4>2. g = h
        BY <1>7, <4>1 DEF OpenPhase
      <4> QED
        BY <1>3, <1>6, <1>1, <1>4, <4>1, <4>2
    <3> QED
      BY <3>1, <3>2
  <2>2. /\ ~session[r].closed /\ ~session[r].broker /\ registry # r
        /\ pc[Reader(r)] = "idle"
        /\ \A u \in Task : pc[u] \in ClosePhase => Target(u) # r
    BY <2>1 DEF StructInv, FreshInv
  <2>3. ~session'[r].broker
    BY <1>5, <2>1, <2>2
  <2>4. pc'[Reader(r)] = "idle"
    BY <1>2, <1>4, <2>1, <2>2
  <2> QED
    BY <1>1, <1>3, <1>5, <1>8, <2>2, <2>3, <2>4
<1>14. ASSUME IdleIsTimed PROVE IdleIsTimed'
  <2> SUFFICES ASSUME NEW r \in Session, session'[r].stage = "up", IsAlive(r)',
                      session'[r].clients = {}
               PROVE  pc'[Reaper(r)] = "armed" \/ IsClosing(r)'
    BY DEF IdleIsTimed
  <2>1. pc[Reaper(r)] = "armed" \/ IsClosing(r)
    BY <1>5, <1>6, <1>14 DEF IdleIsTimed, IsAlive
  <2> QED
    BY <1>2, <1>3, <1>9, <2>1 DEF IsClosing
<1>15. WatchInv'
  <2>1. CredentialsWatched'
    BY <1>1, <1>4 DEF CredentialsWatched, Starting
  <2>2. \A g \in Handler : pc'[g] = "publish" => ~session'[Target(g)'].closed
    BY <1>1, <1>3, <1>5, <1>6, <1>7 DEF OpenPhase
  <2> QED
    BY <2>1, <2>2 DEF WatchInv
<1>16. ReaperInv'
  <2>1. \A r \in Session : pc'[Reaper(r)] = pc[Reaper(r)]
    BY <1>2, <1>4
  <2> QED
    BY <2>1 DEF StructInv, ReaperInv
<1> QED
  BY <1>10, <1>11, <1>12, <1>13, <1>14, <1>15, <1>16 DEF Kept, StructInv

(* The session is up: its idle timer runs, unless it was closed meanwhile.  *)
LEMMA PublishKept ==
    ASSUME Inv, StructInv, NEW h \in Handler, Publish(h)
    PROVE  Kept
<1> USE DEF Inv
<1> DEFINE s == Target(h)
<1>1. /\ h \in Task /\ s \in Session /\ frame' = frame /\ registry' = s
      /\ pc[h] = "publish" /\ UNCHANGED <<tmux, detached, orphaned>>
  BY HandlerTask DEF Publish, Target, Locals
<1>2. \A r \in Session : Reader(r) \in Task /\ Reaper(r) \in Task /\ Reader(r) # h
                          /\ Reaper(r) # h /\ Reader(r) # Reaper(s)
                          /\ (Reaper(r) = Reaper(s) => r = s)
                          /\ Target(Reaper(r)) = r
  BY <1>1, OwnTasks DEF Reader, Reaper, Target
<1>3. \A u \in Task : Target(u)' = Target(u)
  BY <1>1 DEF Target
<1>4. /\ pc'[h] \in {"attach", "inject"} /\ pc'[Reaper(s)] = Armed(s)
      /\ \A u \in Task : u # h /\ u # Reaper(s) => pc'[u] = pc[u]
  <2>1. pc' = [pc EXCEPT ![h] = Ready(h), ![Reaper(s)] = Armed(s)]
    BY DEF Publish, Target
  <2> QED
    BY <1>1, <1>2, <2>1 DEF TypeOK, Ready
<1>5. \A r \in Session :
        /\ session'[r].closed = session[r].closed /\ session'[r].broker = session[r].broker
        /\ session'[r].exited = session[r].exited /\ session'[r].clients = session[r].clients
        /\ session'[r].stage = IF r = s THEN "up" ELSE session[r].stage
  BY DEF Publish, TypeOK, Object, Target
<1>6. pc'[Reaper(s)] = "armed" \/ (pc[Reaper(s)] \in {"kill", "handover", "end"}
                                   /\ pc'[Reaper(s)] = pc[Reaper(s)] /\ session[s].closed)
  <2>1. pc[Reaper(s)] \in {"idle", "armed", "sync", "kill", "handover", "end"}
    BY <1>1 DEF StructInv, ReaperInv, ClosePhase
  <2>2. pc[Reaper(s)] \in {"kill", "handover", "end"} => session[s].closed
    BY <1>1, <1>2 DEF StructInv, ClosedInv
  <2> QED
    BY <1>4, <2>1, <2>2 DEF Armed
<1>7. \A g \in Handler : g # h => pc[g] \notin OpenPhase /\ pc'[g] = pc[g] /\ g \in Task
  BY <1>1, <1>2, <1>4, Alone, HandlerTask, OwnTasks DEF OpenPhase
<1>8. \A u \in Task : pc'[u] \in ClosePhase => pc'[u] = pc[u]
  BY <1>4, <1>6 DEF ClosePhase
<1>9. \A u \in Task : pc[u] \in {"kill", "handover", "attached", "exit"} =>
        pc'[u] = pc[u] \/ u = Reaper(s)
  BY <1>1, <1>4
<1>10. ClosedInv'
  <2> SUFFICES ASSUME NEW u \in Task, pc'[u] \in {"kill", "handover", "end"}
               PROVE  session'[Target(u)'].closed
    BY DEF ClosedInv
  <2>1. pc[u] \in {"kill", "handover", "end"}
    BY <1>8 DEF ClosePhase
  <2>2. Target(u) \in Session /\ session[Target(u)].closed
    BY <2>1, TargetIs DEF StructInv, ClosedInv, ClosePhase
  <2> QED
    BY <1>3, <1>5, <2>2
<1>11. ViewerInv'
  <2> SUFFICES ASSUME NEW r \in Session, NEW g \in Handler, g \in session'[r].clients
               PROVE  pc'[g] = "attached" /\ Target(g)' = r
    BY DEF ViewerInv
  <2>1. pc[g] = "attached" /\ Target(g) = r
    BY <1>5 DEF StructInv, ViewerInv
  <2>2. g # h
    BY <1>1, <2>1
  <2> QED
    BY <1>3, <1>7, <2>1, <2>2, HandlerTask
<1>12. StartInv'
  BY <1>4, <1>7 DEF StartInv, OpenPhase
<1>13. FreshInv'
  <2> SUFFICES ASSUME NEW r \in Session, Fresh(r)'
               PROVE  /\ (~session[r].closed /\ ~session[r].broker /\ registry # r)'
                      /\ pc'[Reader(r)] = "idle"
                      /\ \A u \in Task : pc'[u] \in ClosePhase => Target(u)' # r
    BY DEF FreshInv
  <2>1. r # s /\ session[r].stage = "new"
    <3>1. \A g \in Handler : pc'[g] \notin {"tmux", "broker"}
      BY <1>4, <1>7 DEF OpenPhase
    <3> QED
      BY <1>5, <3>1 DEF Fresh
  <2>2. /\ ~session[r].closed /\ ~session[r].broker
        /\ pc[Reader(r)] = "idle"
        /\ \A u \in Task : pc[u] \in ClosePhase => Target(u) # r
    BY <2>1 DEF StructInv, FreshInv, Fresh
  <2> QED
    BY <1>1, <1>2, <1>3, <1>4, <1>5, <1>8, <2>1, <2>2
<1>14. ASSUME IdleIsTimed PROVE IdleIsTimed'
  <2> SUFFICES ASSUME NEW r \in Session, session'[r].stage = "up", IsAlive(r)',
                      session'[r].clients = {}
               PROVE  pc'[Reaper(r)] = "armed" \/ IsClosing(r)'
    BY DEF IdleIsTimed
  <2>1. ~session[r].closed
    BY <1>5 DEF IsAlive
  <2>2. CASE r = s
    BY <1>6, <2>1, <2>2
  <2>3. CASE r # s
    <3>1. pc[Reaper(r)] = "armed" \/ IsClosing(r)
      BY <1>5, <1>14, <2>3 DEF IdleIsTimed, IsAlive
    <3>2. CASE pc[Reaper(r)] = "armed" \/ pc[Reader(r)] = "exit"
      BY <1>2, <1>4, <2>3, <3>2 DEF IsClosing
    <3>3. ASSUME NEW u \in Task, pc[u] \in ClosePhase, Target(u) = r PROVE IsClosing(r)'
      <4>1. u # h /\ u # Reaper(s)
        BY <1>1, <1>2, <2>3, <3>3 DEF ClosePhase
      <4> QED
        BY <1>3, <1>4, <3>3, <4>1 DEF IsClosing
    <3> QED
      BY <3>1, <3>2, <3>3 DEF IsClosing
  <2> QED
    BY <2>2, <2>3
<1>15. ASSUME WatchInv PROVE WatchInv'
  <2>1. \A u \in Task : pc[u] \in {"kill", "handover"} => pc'[u] = pc[u]
    BY <1>1, <1>4 DEF Armed
  <2>4. CredentialsWatched'
    <3>1. CASE ~session[s].closed
      BY <1>1, <1>5, <3>1 DEF CredentialsWatched
    <3>2. CASE session[s].closed
      BY <1>1, <1>15, <2>1, <3>2 DEF WatchInv, CredentialsWatched
    <3> QED
      BY <3>1, <3>2
  <2>5. \A g \in Handler : pc'[g] # "publish"
    BY <1>4, <1>7 DEF OpenPhase
  <2> QED
    BY <2>4, <2>5 DEF WatchInv
<1>16. ReaperInv'
  <2>1. \A r \in Session : r # s => pc'[Reaper(r)] = pc[Reaper(r)]
    BY <1>2, <1>4
  <2> QED
    BY <1>6, <2>1 DEF StructInv, ReaperInv, ClosePhase
<1> QED
  BY <1>10, <1>11, <1>12, <1>13, <1>14, <1>15, <1>16 DEF Kept, StructInv

(* A viewer joins: it keeps the reaper from its session, if only by being   *)
(* seen there.                                                             *)
LEMMA AttachKept ==
    ASSUME Inv, StructInv, NEW h \in Handler, Attach(h)
    PROVE  Kept
<1> USE DEF Inv
<1> DEFINE s == Target(h)
<1>1. /\ h \in Task /\ s \in Session /\ frame' = frame
      /\ pc[h] = "attach" /\ UNCHANGED <<tmux, detached, orphaned, registry>>
  BY HandlerTask DEF Attach, Target, Locals
<1>2. \A r \in Session : Reader(r) \in Task /\ Reaper(r) \in Task /\ Reader(r) # h
                          /\ Reaper(r) # h /\ Reader(r) # Reaper(s)
                          /\ (Reaper(r) = Reaper(s) => r = s)
                          /\ Target(Reaper(r)) = r
  BY <1>1, OwnTasks DEF Reader, Reaper, Target
<1>3. \A u \in Task : Target(u)' = Target(u)
  BY <1>1 DEF Target
<1>4. /\ pc'[h] = "attached"
      /\ pc'[Reaper(s)] = pc[Reaper(s)] \/ (pc[Reaper(s)] \in {"armed", "sync"}
                                             /\ pc'[Reaper(s)] = "idle")
      /\ \A u \in Task : u # h /\ u # Reaper(s) => pc'[u] = pc[u]
  <2>1. Goto(h, "attached", Cancelled(s, h))
    BY DEF Attach, Target
  <2> QED
    BY <1>1, <1>2, <2>1 DEF Goto, Cancelled
<1>5. \A r \in Session :
        /\ session'[r].closed = session[r].closed /\ session'[r].broker = session[r].broker
        /\ session'[r].exited = session[r].exited /\ session'[r].stage = session[r].stage
        /\ session'[r].clients = IF r = s THEN session[r].clients \cup {h} ELSE session[r].clients
  <2>1. session' = [session EXCEPT ![s].clients = @ \cup {h}]
    BY DEF Attach, Target
  <2>2. \A r \in Session : r # s => session'[r] = session[r]
    BY <2>1 DEF TypeOK
  <2>3. session'[s] = [session[s] EXCEPT !.clients = @ \cup {h}]
    BY <1>1, <2>1 DEF TypeOK
  <2>4. session[s] \in Object
    BY <1>1 DEF TypeOK
  <2> HIDE DEF s
  <2> QED
    BY <2>2, <2>3, <2>4 DEF Object
<1>6. \A u \in Task : pc'[u] \notin {"idle", "attached"} => pc'[u] = pc[u]
  BY <1>1, <1>4
<1>7. ClosedInv'
  <2> SUFFICES ASSUME NEW u \in Task, pc'[u] \in {"kill", "handover", "end"}
               PROVE  session'[Target(u)'].closed
    BY DEF ClosedInv
  <2>1. pc[u] \in {"kill", "handover", "end"}
    BY <1>6
  <2>2. Target(u) \in Session /\ session[Target(u)].closed
    BY <2>1, TargetIs DEF StructInv, ClosedInv, ClosePhase
  <2> QED
    BY <1>3, <1>5, <2>2
<1>8. ViewerInv'
  <2> SUFFICES ASSUME NEW r \in Session, NEW g \in Handler, g \in session'[r].clients
               PROVE  pc'[g] = "attached" /\ Target(g)' = r
    BY DEF ViewerInv
  <2>1. CASE g = h
    <3>1. r = s
      BY <1>1, <1>5, <2>1 DEF StructInv, ViewerInv
    <3> QED
      BY <1>3, <1>4, <2>1, <3>1, <1>1
  <2>2. CASE g # h
    <3>0. g \in session[r].clients
      BY <1>5, <2>2
    <3>1. pc[g] = "attached" /\ Target(g) = r
      BY <3>0 DEF StructInv, ViewerInv
    <3>2. g # Reaper(s) /\ g \in Task
      BY <1>1, HandlerTask, OwnTasks
    <3> QED
      BY <1>3, <1>4, <2>2, <3>1, <3>2
  <2> QED
    BY <2>1, <2>2
<1>14. \A g \in Handler : pc'[g] \in {"tmux", "broker", "publish"} =>
         pc'[g] = pc[g] /\ Target(g)' = Target(g) /\ Target(g) \in Session
  <2> SUFFICES ASSUME NEW g \in Handler, pc'[g] \in {"tmux", "broker", "publish"}
               PROVE  pc'[g] = pc[g] /\ Target(g)' = Target(g) /\ Target(g) \in Session
    OBVIOUS
  <2>1. g \in Task /\ pc'[g] = pc[g]
    BY <1>6, HandlerTask
  <2> QED
    BY <1>3, <2>1, TargetIs
<1>9. StartInv'
  <2> SUFFICES ASSUME NEW g \in Handler, pc'[g] \in {"tmux", "broker", "publish"}
               PROVE  session'[Target(g)'].stage = "starting"
    BY DEF StartInv
  <2>1. session[Target(g)].stage = "starting"
    BY <1>14 DEF StructInv, StartInv
  <2> QED
    BY <1>5, <1>14, <2>1
<1>10. FreshInv'
  <2> SUFFICES ASSUME NEW r \in Session, Fresh(r)'
               PROVE  /\ (~session[r].closed /\ ~session[r].broker /\ registry # r)'
                      /\ pc'[Reader(r)] = "idle"
                      /\ \A u \in Task : pc'[u] \in ClosePhase => Target(u)' # r
    BY DEF FreshInv
  <2>1. Fresh(r)
    BY <1>3, <1>5, <1>6, HandlerTask DEF Fresh
  <2>2. /\ ~session[r].closed /\ ~session[r].broker /\ registry # r
        /\ pc[Reader(r)] = "idle"
        /\ \A u \in Task : pc[u] \in ClosePhase => Target(u) # r
    BY <2>1 DEF StructInv, FreshInv
  <2> QED
    BY <1>1, <1>2, <1>3, <1>4, <1>5, <1>6, <2>2 DEF ClosePhase
<1>11. ASSUME IdleIsTimed PROVE IdleIsTimed'
  <2> SUFFICES ASSUME NEW r \in Session, session'[r].stage = "up", IsAlive(r)',
                      session'[r].clients = {}
               PROVE  pc'[Reaper(r)] = "armed" \/ IsClosing(r)'
    BY DEF IdleIsTimed
  <2>1. r # s
    BY <1>5
  <2>2. pc[Reaper(r)] = "armed" \/ IsClosing(r)
    BY <1>5, <1>11, <2>1 DEF IdleIsTimed, IsAlive
  <2>3. CASE pc[Reaper(r)] = "armed" \/ pc[Reader(r)] = "exit"
    BY <1>2, <1>4, <2>1, <2>3 DEF IsClosing
  <2>4. ASSUME NEW u \in Task, pc[u] \in ClosePhase, Target(u) = r PROVE IsClosing(r)'
    <3>1. u # h /\ u # Reaper(s)
      BY <1>1, <1>2, <2>1, <2>4 DEF ClosePhase
    <3> QED
      BY <1>3, <1>4, <2>4, <3>1 DEF IsClosing
  <2> QED
    BY <2>2, <2>3, <2>4 DEF IsClosing
<1>12. ASSUME WatchInv PROVE WatchInv'
  <2>1. \A u \in Task : pc[u] \in {"kill", "handover"} \cup Starting => pc'[u] = pc[u]
    BY <1>1, <1>4 DEF Starting
  <2>2. CredentialsWatched'
    BY <1>1, <1>5, <1>12, <2>1 DEF WatchInv, CredentialsWatched
  <2>3. ASSUME NEW g \in Handler, pc'[g] = "publish", session'[Target(g)'].closed,
               tmux'.pane = "running", ~orphaned'
        PROVE  detached' \/ \E t \in Task : pc'[t] \in {"kill", "handover"}
    <3>1. pc[g] = "publish" /\ session[Target(g)].closed
      BY <1>5, <1>14, <2>3
    <3> QED
      BY <1>1, <1>12, <2>1, <2>3, <3>1 DEF WatchInv
  <2> QED
    BY <2>2, <2>3 DEF WatchInv
<1>13. ReaperInv'
  <2>1. \A r \in Session : pc'[Reaper(r)] = pc[Reaper(r)] \/ pc'[Reaper(r)] = "idle"
    BY <1>2, <1>4
  <2> QED
    BY <2>1 DEF StructInv, ReaperInv
<1> QED
  BY <1>7, <1>8, <1>9, <1>10, <1>11, <1>12, <1>13 DEF Kept, StructInv

LEMMA RequestsKept ==
    ASSUME Inv, StructInv, NEW h \in Handler,
           \/ \E kind \in {"view", "input"}, c \in Config \cup {NoConfig} : Connect(h, kind, c)
           \/ Reuse(h) \/ Replace(h) \/ Spawn(h) \/ SpawnFails(h) \/ Delete(h) \/ Select(h)
           \/ \E p \in Project : Switch(h, p)
    PROVE  Kept
<1> USE DEF Inv
<1>1. h \in Task /\ pc \in [Task -> Phase] /\ frame \in [Handler -> Frame]
  BY HandlerTask DEF TypeOK
<1>2. \A u \in Task : u # h => Same(u)
  <2> SUFFICES ASSUME NEW u \in Task, u # h PROVE Same(u)
    OBVIOUS
  <2>1. CASE \E kind \in {"view", "input"}, c \in Config \cup {NoConfig} : Connect(h, kind, c)
    BY <1>1, <2>1 DEF Connect, Goto, Same, Target
  <2>2. CASE Reuse(h) \/ Replace(h)
    BY <1>1, <2>2 DEF Reuse, Replace, Goto, Same, Target
  <2>3. CASE Spawn(h)
    BY <1>1, <2>3 DEF Spawn, Goto, Same, Target
  <2>4. CASE SpawnFails(h) \/ Select(h)
    BY <1>1, <2>4, GotoSame DEF SpawnFails, Select
  <2>5. CASE Delete(h) \/ \E p \in Project : Switch(h, p)
    BY <1>1, <2>5 DEF Delete, Switch, Same, Target
  <2> QED
    BY <2>1, <2>2, <2>3, <2>4, <2>5
<1>3. CASE SpawnFails(h)
  <2>1. pc'[h] = "idle" /\ pc[h] \in {"prepare", "tmux", "broker"}
    BY <1>1, <1>3 DEF SpawnFails, Goto
  <2>2. /\ UNCHANGED <<session, registry, tmux, detached>>
        /\ orphaned' = (orphaned \/ (pc[h] # "prepare" /\ tmux.pane = "running"))
    BY <1>3 DEF SpawnFails
  <2> QED
    BY <1>2, <2>1, <2>2, RequestGoes DEF ClosePhase, Starting
<1>4. CASE Replace(h)
  <2>1. pc[h] = "open" /\ frame'[h].session = registry /\ frame[h].kind \in {"view", "input"}
    BY <1>1, <1>4 DEF Replace, Frame, Locals
  <2>2. pc'[h] \in {"sync", "prepare"} /\ Target(h)' = registry
    BY <1>1, <1>4, <2>1 DEF Replace, Goto, Closing, AfterClose, Target
  <2>3. UNCHANGED <<session, registry, tmux, detached, orphaned>>
    BY <1>4 DEF Replace
  <2> QED
    BY <1>2, <2>1, <2>2, <2>3, RequestGoes DEF ClosePhase, Starting
<1>5. CASE Delete(h) \/ \E p \in Project : Switch(h, p)
  <2>1. pc[h] = "idle" /\ frame'[h].session = registry /\ pc'[h] \in {"idle", "project", "sync"}
    BY <1>1, <1>5 DEF Delete, Switch, NoFrame
  <2>2. UNCHANGED <<session, registry, tmux, detached, orphaned>> /\ Target(h)' = registry
    BY <1>5, <2>1 DEF Delete, Switch, Target
  <2> QED
    BY <1>2, <2>1, <2>2, RequestGoes DEF ClosePhase, Starting
<1>6. CASE \/ \E kind \in {"view", "input"}, c \in Config \cup {NoConfig} : Connect(h, kind, c)
           \/ Reuse(h) \/ Spawn(h) \/ Select(h)
  <2>1. /\ pc[h] \in {"idle", "open", "project"}
        /\ pc'[h] \in {"open", "attach", "inject", "prepare", "idle"}
    BY <1>1, <1>6 DEF Connect, Reuse, Spawn, Select, Goto, Ready
  <2>2. UNCHANGED <<session, registry, tmux, detached, orphaned>>
    BY <1>6 DEF Connect, Reuse, Spawn, Select
  <2> QED
    BY <1>2, <2>1, <2>2, RequestGoes DEF ClosePhase, Starting
<1> QED
  BY <1>3, <1>4, <1>5, <1>6

LEMMA LeavingKept ==
    ASSUME Inv, StructInv, NEW h \in Handler,
           Inject(h) \/ Detach(h) \/ \E s \in Session : Evict(s, h)
    PROVE  Kept
<1> USE DEF Inv
<1> DEFINE s == Target(h)
<1>1. /\ pc[h] \in {"attached", "inject"} /\ s \in Session
      /\ \A r \in Session : h \in session[r].clients => pc[h] = "attached" /\ r = s
      /\ KeepFrames /\ UNCHANGED <<registry, tmux, detached, orphaned>>
  <2>1. pc[h] \in {"attached", "inject"}
    BY DEF Inject, Detach, Evict, StructInv, ViewerInv
  <2>2. h \in Task
    BY HandlerTask
  <2> QED
    BY <2>1, <2>2, TargetIs DEF Inject, Detach, Evict, StructInv, ViewerInv
<1>2. CASE Inject(h)
  <2> DEFINE arm == IsAlive(s) /\ session[s].clients = {}
  <2>1. pc' = [pc EXCEPT ![h] = "idle", ![Reaper(s)] = IF arm THEN Armed(s) ELSE @]
    BY <1>2 DEF Inject, Target
  <2>2. session' = session /\ pc[h] = "inject" /\ arm \in BOOLEAN
    BY <1>2 DEF Inject
  <2>3. \A r \in Session : h \notin session[r].clients
    BY <1>1, <2>2
  <2>4. \A r \in Session : session'[r].clients = session[r].clients \ {h}
                            /\ session[r].clients # {h}
    BY <2>2, <2>3
  <2> HIDE DEF arm
  <2> QED
    BY <1>1, <2>1, <2>2, <2>3, <2>4, UserLeaves
<1>3. CASE Detach(h) \/ \E r \in Session : Evict(r, h)
  <2> DEFINE arm == session[s].clients = {h}
  <2>1. RemoveClient(s, h)
    BY <1>1, <1>3 DEF Detach, Evict, Target
  <2>2. pc' = [pc EXCEPT ![h] = "idle", ![Reaper(s)] = IF arm THEN Armed(s) ELSE @]
    BY <2>1 DEF RemoveClient
  <2>3. \A r \in Session :
          /\ session'[r].stage = session[r].stage /\ session'[r].closed = session[r].closed
          /\ session'[r].broker = session[r].broker /\ session'[r].exited = session[r].exited
          /\ session'[r].clients = IF r = s THEN session[r].clients \ {h} ELSE session[r].clients
    BY <2>1 DEF RemoveClient, TypeOK, Object
  <2>4. \A r \in Session :
          /\ session'[r].clients = session[r].clients \ {h}
          /\ session[r].clients = {h} => arm
    BY <1>1, <2>3
  <2>5. arm \in BOOLEAN
    OBVIOUS
  <2> HIDE DEF arm
  <2>6. \A r \in Session :
          /\ session'[r].stage = session[r].stage /\ session'[r].closed = session[r].closed
          /\ session'[r].broker = session[r].broker /\ session'[r].exited = session[r].exited
          /\ session'[r].clients = session[r].clients \ {h}
          /\ h \in session[r].clients => r = s
          /\ IsAlive(r) /\ session[r].clients = {h} => arm
    BY <1>1, <2>3, <2>4
  <2> QED
    BY <1>1, <2>2, <2>5, <2>6, UserLeaves, ZenonT(60)
<1> QED
  BY <1>2, <1>3

LEMMA ReadingKept ==
    ASSUME Inv, StructInv, NEW s \in Session, Read(s) \/ Reap(s)
    PROVE  Kept
<1> USE DEF Inv
<1>1. /\ Reader(s) \in Task /\ Reaper(s) \in Task
      /\ Reader(s) \notin Handler /\ Reaper(s) \notin Handler
      /\ Target(Reader(s)) = s /\ Target(Reaper(s)) = s /\ Reader(s) # Reaper(s)
      /\ \A r \in Session : Reaper(r) \notin Handler
  BY OwnTasks, OwnTarget DEF Reader, Reaper
<1>2. CASE Reap(s)
  <2> DEFINE phase == IF session[s].clients # {} \/ ~IsAlive(s) THEN "idle" ELSE "sync"
  <2>1. Goto(Reaper(s), phase, {}) /\ pc[Reaper(s)] = "armed" /\ frame' = frame
    BY <1>1, <1>2 DEF Reap, Goto, TypeOK
  <2>2. Works(Reaper(s), phase, {})
    BY <1>2 DEF Reap, Works
  <2>3. phase = "idle" \/ (phase = "sync" /\ session[s].broker)
    BY DEF IsAlive
  <2>4. /\ phase = "sync" \/ session[s].clients # {} \/ ~IsAlive(s)
        /\ orphaned' = orphaned
    BY <1>2 DEF Reap
  <2> HIDE DEF phase
  <2> QED
    BY <1>1, <2>1, <2>2, <2>3, <2>4, TaskGoes DEF ClosePhase
<1>3. CASE Eof(s) \/ ReaderEnds(s)
  <2>1. PICK phase \in {"exit", "idle"} : Goto(Reader(s), phase, {})
    BY <1>3 DEF Eof, ReaderEnds
  <2>2. pc[Reader(s)] = "reading" /\ frame' = frame /\ orphaned' = orphaned
    BY <1>3 DEF Eof, ReaderEnds
  <2>3. Works(Reader(s), phase, {})
    BY <1>3 DEF Eof, ReaderEnds, Works
  <2> QED
    BY <1>1, <2>1, <2>2, <2>3, TaskGoes DEF ClosePhase
<1>4. CASE Exited(s) \/ PaneExited(s)
  <2> DEFINE t == Reader(s)
  <2>1. PICK phase \in {"sync", "idle"} : /\ Goto(t, phase, session[s].clients)
                                          /\ phase = "sync" \/ session[s].closed
    BY <1>1, <1>4 DEF Exited, PaneExited, Closing, AfterClose
  <2>2. pc[t] \in {"reading", "exit"} /\ KeepFrames
    BY <1>4 DEF Exited, PaneExited
  <2>3. \A r \in Session :
          /\ session'[r].stage = session[r].stage /\ session'[r].closed = session[r].closed
          /\ session'[r].broker = session[r].broker
          /\ session[r].exited => session'[r].exited
          /\ session'[r].clients = IF r = s THEN {} ELSE session[r].clients
    <3>1. CASE Exited(s)
      BY <3>1 DEF Exited, Drop, TypeOK, Object
    <3>2. CASE PaneExited(s)
      <4>1. session' = [session EXCEPT ![s] = [session[s] EXCEPT !.clients = {}, !.exited = TRUE]]
        BY <3>2 DEF PaneExited, Drop, TypeOK, Object
      <4> QED
        BY <4>1 DEF TypeOK, Object
    <3> QED
      BY <1>4, <3>1, <3>2
  <2>4. UNCHANGED <<registry, tmux, detached, orphaned>>
    BY <1>4 DEF Exited, PaneExited
  <2>5. \A h \in session[s].clients : h \in Handler /\ pc[h] = "attached"
    BY DEF StructInv, ViewerInv, TypeOK, Object
  <2>6. \A r \in Session : r # s => session[r].clients \cap session[s].clients = {}
    BY DEF StructInv, ViewerInv, TypeOK, Object
  <2>7. \A r \in Session : Reaper(r) \notin session[s].clients
    BY <1>1, <2>5
  <2>8. Works(t, phase, session[s].clients)
    BY <1>1, <2>1, <2>3, <2>4, <2>6, <2>7 DEF Works
  <2> QED
    BY <1>1, <2>1, <2>2, <2>4, <2>5, <2>8, TaskGoes DEF ClosePhase
<1> QED
  BY <1>2, <1>3, <1>4 DEF Read

LEMMA ClosingKept ==
    ASSUME Inv, StructInv, NEW t \in Task, Close(t) \/ KillFails(t) \/ ProbeFails(t)
    PROVE  Kept
<1> USE DEF Inv
<1> DEFINE s == Target(t)
<1>1. pc[t] \in ClosePhase /\ s \in Session
  BY TargetIs DEF Close, MarkClosed, Kill, KillFails, HandOver, ProbeFails, EndClose, ClosePhase
<1>2. pc[t] \in {"kill", "handover", "end"} => session[s].closed
  BY DEF StructInv, ClosedInv
<1>3. \A r \in Session : Reaper(r) \in Task /\ Reaper(r) \notin Handler
  BY OwnTasks
<1>4. CASE MarkClosed(t)
  <2> DEFINE ended == Cancelled(s, t)
  <2>1. \A u \in ended : u = Reaper(s) /\ pc[u] \in {"armed", "sync"}
    BY DEF Cancelled
  <2>2. \A r \in Session : Reaper(r) \in ended => r = s
    BY <2>1 DEF Reaper
  <2>3. /\ Goto(t, "kill", ended) /\ pc[t] = "sync" /\ frame' = frame
        /\ UNCHANGED <<registry, tmux, detached, orphaned>>
    BY <1>4 DEF MarkClosed
  <2>4. \A r \in Session :
          /\ session'[r].stage = session[r].stage /\ session'[r].exited = session[r].exited
          /\ session'[r].broker = session[r].broker /\ session'[r].clients = session[r].clients
          /\ session'[r].closed = (session[r].closed \/ r = s)
    BY <1>4 DEF MarkClosed, TypeOK, Object
  <2>5. \A r \in Session : session[r].clients \cap ended = {}
    BY <1>3, <2>1, <1>1 DEF TypeOK, Object
  <2>6. Works(t, "kill", ended)
    BY <1>1, <2>2, <2>3, <2>4, <2>5 DEF Works
  <2> HIDE DEF ended
  <2> QED
    BY <1>1, <2>1, <2>3, <2>4, <2>6, TaskGoes DEF ClosePhase
<1>5. CASE Kill(t) \/ KillFails(t)
  <2>1. /\ Goto(t, "handover", {}) /\ pc[t] = "kill" /\ frame' = frame
        /\ UNCHANGED <<registry, detached>>
        /\ tmux' = tmux \/ tmux'.pane = "none"
        /\ orphaned' = orphaned \/ tmux'.pane = "none"
    BY <1>5 DEF Kill, KillFails, NoTmux
  <2>2. Works(t, "handover", {}) /\ session'[s].closed
    BY <1>1, <1>2, <1>5, <2>1 DEF Kill, KillFails, Works, TypeOK, Object
  <2> QED
    BY <1>1, <2>1, <2>2, TaskGoes DEF ClosePhase
<1>6. CASE HandOver(t) \/ ProbeFails(t)
  <2>1. /\ Goto(t, "end", {}) /\ pc[t] = "handover" /\ frame' = frame
        /\ UNCHANGED <<registry, tmux>>
    BY <1>6 DEF HandOver, ProbeFails
  <2>4. \/ detached' = (detached \/ tmux.pane # "none")
        \/ detached' = detached /\ orphaned' = (orphaned \/ (tmux.pane = "running" /\ ~detached))
    BY <1>6 DEF HandOver, ProbeFails
  <2>5. detached => detached'
    BY <2>4, Zenon
  <2>2. Works(t, "end", {}) /\ session'[s].closed
    BY <1>1, <1>2, <1>6, <2>1, <2>5 DEF HandOver, ProbeFails, Works, TypeOK, Object
  <2>3. detached' \/ orphaned' \/ tmux'.pane # "running"
    <3>1. (tmux.pane = "running" => tmux.pane # "none") /\ tmux' = tmux
      BY <2>1
    <3>2. CASE detached' = (detached \/ tmux.pane # "none")
      BY <3>1, <3>2, Zenon
    <3>3. CASE detached' = detached /\ orphaned' = (orphaned \/ (tmux.pane = "running" /\ ~detached))
      BY <3>1, <3>3, Zenon
    <3> QED
      BY <2>4, <3>2, <3>3
  <2>6. orphaned => orphaned' \/ detached' \/ tmux'.pane # "running"
    BY <2>3
  <2> QED
    BY <1>1, <2>1, <2>2, <2>3, <2>6, TaskGoes DEF ClosePhase
<1>7. CASE EndClose(t)
  <2> DEFINE phase == AfterClose(t)
             ended == session[s].clients
  <2>1. /\ Goto(t, phase, ended) /\ pc[t] = "end" /\ KeepFrames
        /\ registry' = NoSession /\ UNCHANGED <<tmux, detached, orphaned>>
    BY <1>7 DEF EndClose
  <2>2. phase \in {"prepare", "project", "idle"} /\ (t \notin Handler => phase = "idle")
    BY DEF AfterClose
  <2>3. \A h \in ended : h \in Handler /\ pc[h] = "attached"
    BY <1>1 DEF StructInv, ViewerInv, TypeOK, Object
  <2>4. \A r \in Session : r # s => session[r].clients \cap ended = {}
    BY <1>1 DEF StructInv, ViewerInv, TypeOK, Object
  <2>5. \A r \in Session :
          /\ session'[r].stage = session[r].stage /\ session'[r].exited = session[r].exited
          /\ session'[r].broker = session[r].broker /\ session'[r].closed = session[r].closed
          /\ session'[r].clients = IF r = s THEN {} ELSE session[r].clients
    BY <1>1, <1>7 DEF EndClose, Drop, TypeOK, Object
  <2>6. \A r \in Session : Reaper(r) \notin ended
    BY <1>3, <2>3
  <2>7. Works(t, phase, ended)
    BY <1>1, <1>2, <2>1, <2>4, <2>5, <2>6 DEF Works
  <2>8. t = Reaper(s) => phase \in {"idle"} \cup ClosePhase
    BY <1>1, <1>3, <2>2
  <2> HIDE DEF phase, ended
  <2> QED
    BY <1>1, <2>1, <2>2, <2>3, <2>7, <2>8, TaskGoes DEF ClosePhase
<1> QED
  BY <1>4, <1>5, <1>6, <1>7 DEF Close

(* Nothing, or the CLI exits, or its detached watcher ends.                 *)
LEMMA OthersKept ==
    ASSUME Inv, StructInv, UNCHANGED vars \/ CliExits \/ DetachedEnds \/ DetachedFails
    PROVE  Kept
<1>1. UNCHANGED <<registry, session, pc, frame>>
  BY DEF vars, CliExits, DetachedEnds, DetachedFails
<1>2. \A u \in Task : Target(u)' = Target(u)
  BY <1>1 DEF Target
<1>3. StructInv'
  BY <1>1, <1>2, HandlerTask DEF StructInv, ClosedInv, ViewerInv, StartInv, FreshInv, Fresh, ReaperInv
<1>4. IdleIsTimed => IdleIsTimed'
  BY <1>1, <1>2 DEF IdleIsTimed, IsAlive, IsClosing
<1>5. \/ detached' = detached /\ tmux' = tmux /\ orphaned' = orphaned
      \/ tmux'.pane # "running" \/ orphaned'
  BY DEF vars, CliExits, DetachedEnds, DetachedFails, Inv, TypeOK, Tmux
<1>6. WatchInv => WatchInv'
  BY <1>1, <1>2, <1>5, HandlerTask DEF WatchInv, CredentialsWatched
<1> QED
  BY <1>3, <1>4, <1>6 DEF Kept

(* A restart leaves no session open, and a CLI that survives it without a   *)
(* watcher.                                                                *)
LEMMA RestartKept ==
    ASSUME Inv, StructInv, RunnerRestart
    PROVE  Kept
<1> USE DEF Inv
<1>1. /\ \A u \in Task : pc'[u] = "idle"
      /\ \A s \in Session :
           /\ session'[s].clients = {} /\ ~session'[s].broker
           /\ session'[s].stage = session[s].stage
           /\ session'[s].closed = (session[s].stage # "new")
      /\ registry' = NoSession /\ (tmux'.pane = "running" => orphaned')
  BY Restarted
<1>2. ClosedInv' /\ ViewerInv' /\ StartInv'
  BY <1>1, HandlerTask DEF ClosedInv, ViewerInv, StartInv
<1>3. FreshInv'
  <2>1. \A s \in Session : Reader(s) \in Task /\ s # NoSession
    BY OwnTasks, ConstantsAssumption DEF ConstantsAssumption
  <2> QED
    BY <1>1, <2>1, HandlerTask DEF FreshInv, Fresh, ClosePhase
<1>4. ReaperInv'
  BY <1>1, OwnTasks DEF ReaperInv
<1>5. IdleIsTimed'
  BY <1>1 DEF IdleIsTimed, IsAlive
<1>6. WatchInv'
  BY <1>1, HandlerTask DEF WatchInv, CredentialsWatched
<1> QED
  BY <1>2, <1>3, <1>4, <1>5, <1>6 DEF Kept, StructInv

LEMMA KeptStep ==
    ASSUME Inv, StructInv, [Next]_vars
    PROVE  Kept
<1>1. ASSUME NEW h \in Handler, Open(h) PROVE Kept
  BY <1>1, RequestsKept, PrepareKept, SpawnKept, PublishKept DEF Open
<1> QED
  BY <1>1, RequestsKept, AttachKept, LeavingKept, ReadingKept, ClosingKept, OthersKept,
     RestartKept
     DEF Next, Routine, Request, Leave, Event, Fault

LEMMA InitKept == Init => StructInv /\ IdleIsTimed /\ WatchInv
<1> SUFFICES ASSUME Init PROVE StructInv /\ IdleIsTimed /\ WatchInv
  OBVIOUS
<1>1. \A u \in Task : pc[u] = "idle"
  BY DEF Init
<1>2. \A s \in Session :
        /\ session[s].stage = "new" /\ ~session[s].closed /\ ~session[s].broker
        /\ session[s].clients = {} /\ registry # s
        /\ pc[Reader(s)] = "idle" /\ pc[Reaper(s)] = "idle"
  BY <1>1, OwnTasks, ConstantsAssumption DEF Init, ConstantsAssumption
<1>3. StructInv
  BY <1>1, <1>2, HandlerTask DEF StructInv, ClosedInv, ViewerInv, StartInv, FreshInv, ReaperInv, ClosePhase
<1>4. IdleIsTimed
  BY <1>2 DEF IdleIsTimed
<1>5. WatchInv
  BY <1>1, HandlerTask DEF WatchInv, CredentialsWatched, Init, NoTmux
<1> QED
  BY <1>3, <1>4, <1>5

(* IdleIsTimed: for any number of viewers, sessions and closes, a live      *)
(* session that nobody looks at has its idle timer armed or is being        *)
(* closed: no browser that goes away leaves a terminal that nothing reaps.  *)
THEOREM IdleAreTimed == Spec => []IdleIsTimed
<1>1. Inv /\ StructInv /\ IdleIsTimed /\ [Next]_vars => StructInv' /\ IdleIsTimed'
  BY KeptStep DEF Kept
<1> QED
  BY <1>1, Invariants, InitKept, PTL DEF Spec

(* CredentialsWatched: the credentials of a running CLI are mirrored,       *)
(* whoever closes, replaces or takes over its sessions in whatever order,   *)
(* and whatever opens, kills and probes fail, unless it was left behind; and*)
(* the next session that attaches to it or hands it over, or the kill that  *)
(* ends it, puts an end to that.                                           *)
THEOREM CredentialsAreWatched == Spec => []CredentialsWatched
<1>1. Inv /\ StructInv /\ WatchInv /\ [Next]_vars => StructInv' /\ WatchInv'
  BY KeptStep DEF Kept
<1>2. WatchInv => CredentialsWatched
  BY DEF WatchInv
<1> QED
  BY <1>1, <1>2, Invariants, InitKept, PTL DEF Spec
===============================================================================
