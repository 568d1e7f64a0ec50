-------------------------------- MODULE Terminal ------------------------------
(***************************************************************************)
(* The terminal of one agent in the runner service (pty_session.py).        *)
(*                                                                         *)
(* The agent's CLI runs in a detached tmux session; a PtySession object is  *)
(* a broker, one tmux client shared by all viewers of the page.  A registry *)
(* names the agent's current object.  Objects are opened by viewers         *)
(* (ws_terminal) and by task injections (POST input), and closed by DELETE, *)
(* by a switch of project, by their own reader when the CLI or the client   *)
(* exits, by their idle reaper, and by an opener that replaces them.        *)
(*                                                                         *)
(* One event loop runs all of these: a step is what one coroutine does      *)
(* between two awaits.  Closing takes many, and only opening and switching  *)
(* hold the agent's lock.                                                   *)
(***************************************************************************)
EXTENDS Integers

CONSTANTS
    Session,       \* PtySession objects, each used for one spawn
    Handler,       \* requests being served
    Project,       \* working copies the agent may be on
    Config,        \* fingerprints of an LLM configuration
    NoSession, NoHandler, NoProject, NoConfig

Reader(s) == <<s, "reader">>
Reaper(s) == <<s, "reaper">>
OwnTask == Session \X {"reader", "reaper"}
Task == Handler \cup OwnTask

ASSUME ConstantsAssumption ==
    /\ Handler \cap OwnTask = {}
    /\ NoSession \notin Session /\ NoHandler \notin Handler
    /\ NoProject \notin Project /\ NoConfig \notin Config

VARIABLES
    project,   \* the agent's selected working copy
    tmux,      \* the tmux session of the agent: its CLI and where it runs
    detached,  \* a credentials watcher without a session is running
    orphaned,  \* history: a running CLI was left behind, with no watcher, by
               \* a probe or an open that failed or by a restart
    registry,  \* _SESSIONS[agent]
    lock,      \* the handler holding the agent's project and session locks
    session,   \* the PtySession objects
    pc, frame  \* the coroutines, and the locals of the request handlers

vars == <<project, tmux, detached, orphaned, registry, lock, session, pc, frame>>

(* closed: _closed; exited: _pane_dead_handled; broker: the tmux client is  *)
(* connected.                                                              *)
Object == [stage : {"new", "starting", "up"}, closed : BOOLEAN, exited : BOOLEAN,
           broker : BOOLEAN, cwd : Project \cup {NoProject},
           config : Config \cup {NoConfig}, clients : SUBSET Handler]

(* pane: the CLI runs, or has exited under remain-on-exit.                  *)
Tmux == [pane : {"none", "running", "dead"}, cwd : Project \cup {NoProject}]
NoTmux == [pane |-> "none", cwd |-> NoProject]

Kind == {"view", "input", "delete", "switch"}
Frame == [kind : Kind, session : Session \cup {NoSession},
          config : Config \cup {NoConfig}, project : Project \cup {NoProject}]
NoFrame == [kind |-> "delete", session |-> NoSession, config |-> NoConfig,
            project |-> NoProject]

ClosePhase == {"sync", "kill", "handover", "end"}
OpenPhase == {"prepare", "tmux", "broker", "publish"}
Phase == {"idle", "open", "attach", "attached", "inject", "project",
          "armed", "reading", "exit"} \cup ClosePhase \cup OpenPhase

TypeOK ==
    /\ project \in Project
    /\ tmux \in Tmux
    /\ detached \in BOOLEAN
    /\ orphaned \in BOOLEAN
    /\ registry \in Session \cup {NoSession}
    /\ lock \in Handler \cup {NoHandler}
    /\ session \in [Session -> Object]
    /\ pc \in [Task -> Phase]
    /\ frame \in [Handler -> Frame]

Init ==
    /\ project \in Project
    /\ tmux = NoTmux
    /\ detached = FALSE
    /\ orphaned = FALSE
    /\ registry = NoSession
    /\ lock = NoHandler
    /\ session = [s \in Session |->
         [stage |-> "new", closed |-> FALSE, exited |-> FALSE, broker |-> FALSE,
          cwd |-> NoProject, config |-> NoConfig, clients |-> {}]]
    /\ pc = [t \in Task |-> "idle"]
    /\ frame = [h \in Handler |-> NoFrame]

-----------------------------------------------------------------------------
(* What the steps are made of.                                             *)

IsAlive(s) == session[s].broker /\ ~session[s].closed /\ ~session[s].exited

(* The session a coroutine works on. *)
Target(t) == IF t \in Handler THEN frame[t].session ELSE t[1]

(* _cancel_idle_timer, called by t: the timer is armed, or its task has     *)
(* woken and is in the first awaits of close(), before it let go of the     *)
(* timer; a reaper never cancels itself.                                    *)
Cancelled(s, t) ==
    IF t # Reaper(s) /\ pc[Reaper(s)] \in {"armed", "sync"} THEN {Reaper(s)} ELSE {}

(* One coroutine goes on, others end. *)
Goto(t, phase, ended) ==
    pc' = [u \in Task |-> IF u = t THEN phase ELSE IF u \in ended THEN "idle" ELSE pc[u]]

(* A request that has ended has no locals. *)
KeepFrames == frame' = [h \in Handler |-> IF pc'[h] = "idle" THEN NoFrame ELSE frame[h]]

(* _schedule_idle_timer: as above, then a new timer; a reaper that has let  *)
(* go of its timer goes on closing.                                        *)
Armed(s) == IF pc[Reaper(s)] \in {"idle", "armed", "sync"} THEN "armed"
            ELSE pc[Reaper(s)]

(* A client leaves the session, and the last one starts the idle timer      *)
(* (detach, _evict_client).                                                *)
RemoveClient(s, h) ==
    /\ session' = [session EXCEPT ![s].clients = @ \ {h}]
    /\ pc' = [pc EXCEPT ![h] = "idle",
                        ![Reaper(s)] = IF session[s].clients = {h} THEN Armed(s) ELSE @]

(* The first test of close(), made by t as part of another step; where      *)
(* closing takes t next.                                                   *)
AfterClose(t) ==
    IF t \in Handler /\ frame[t].kind \in {"view", "input"} THEN "prepare"
    ELSE IF t \in Handler /\ frame[t].kind = "switch" THEN "project"
    ELSE "idle"
Closing(t, s) == IF session[s].closed THEN AfterClose(t) ELSE "sync"

-----------------------------------------------------------------------------
(* Opening: ws_terminal, send_terminal_input and get_or_create_session.     *)

(* A request arrives.  It reads the registered session before it awaits     *)
(* anything: a live one keeps its configuration.                            *)
Connect(h, kind, c) ==
    /\ pc[h] = "idle"
    /\ frame' = [frame EXCEPT ![h] =
         [NoFrame EXCEPT !.kind = kind,
            !.config = IF registry # NoSession /\ IsAlive(registry)
                       THEN session[registry].config ELSE c]]
    /\ Goto(h, "open", {})
    /\ UNCHANGED <<project, tmux, detached, orphaned, registry, lock, session>>

Ready(h) == IF frame[h].kind = "view" THEN "attach" ELSE "inject"

(* A request that names no configuration takes any. *)
Fits(h, s) == IsAlive(s) /\ frame[h].config \in {NoConfig, session[s].config}

(* With the lock: a live session of the same configuration is returned...   *)
Reuse(h) ==
    /\ pc[h] = "open" /\ lock = NoHandler
    /\ registry # NoSession /\ Fits(h, registry)
    /\ frame' = [frame EXCEPT ![h].session = registry]
    /\ Goto(h, Ready(h), {})
    /\ UNCHANGED <<project, tmux, detached, orphaned, registry, lock, session>>

(* ... any other is closed first...                                         *)
Replace(h) ==
    /\ pc[h] = "open" /\ lock = NoHandler
    /\ registry # NoSession /\ ~Fits(h, registry)
    /\ lock' = h
    /\ frame' = [frame EXCEPT ![h].session = registry]
    /\ Goto(h, Closing(h, registry), {})
    /\ UNCHANGED <<project, tmux, detached, orphaned, registry, session>>

(* ... and without one the spawn begins.                                    *)
Spawn(h) ==
    /\ pc[h] = "open" /\ lock = NoHandler /\ registry = NoSession
    /\ lock' = h
    /\ Goto(h, "prepare", {})
    /\ UNCHANGED <<project, tmux, detached, orphaned, registry, session, frame>>

(* The launch recipe is made for the selected project; a watcher left by an *)
(* earlier session is cancelled.                                            *)
Prepare(h, s) ==
    /\ pc[h] = "prepare" /\ session[s].stage = "new"
    /\ session' = [session EXCEPT ![s].stage = "starting", ![s].cwd = project,
                                  ![s].config = frame[h].config]
    /\ detached' = FALSE
    /\ frame' = [frame EXCEPT ![h].session = s]
    /\ Goto(h, "tmux", {})
    /\ UNCHANGED <<project, tmux, orphaned, registry, lock>>

(* Mutant of EnsureTmux: whatever tmux session there is is taken over.      *)
EnsureTmux_Any(h) ==
    /\ pc[h] = "tmux"
    /\ tmux' = IF tmux.pane # "none" THEN tmux
               ELSE [pane |-> "running", cwd |-> session[frame[h].session].cwd]
    /\ Goto(h, "broker", {})
    /\ UNCHANGED <<project, detached, orphaned, registry, lock, session, frame>>

(* _ensure_tmux_session: a tmux session of this project is taken over as it *)
(* is, one of another project makes way for a new one.                      *)
EnsureTmux(h) ==
    LET cwd == session[frame[h].session].cwd
        reused == tmux.pane # "none" /\ tmux.cwd = cwd
    IN  /\ pc[h] = "tmux"
        /\ tmux' = IF reused THEN tmux
                   ELSE [pane |-> "running", cwd |-> cwd]
        /\ session' = IF reused THEN session
                      ELSE [s \in Session |-> [session[s] EXCEPT !.broker = FALSE]]
        /\ orphaned' = (orphaned /\ reused)
        /\ Goto(h, "broker", {})
        /\ UNCHANGED <<project, detached, registry, lock, frame>>

(* The recipe cannot be made, or tmux cannot start a session, close the one *)
(* of another project, be attached to, or answer in time.  A CLI that goes  *)
(* on running has lost its watcher by then.                                *)
SpawnFails(h) ==
    /\ pc[h] \in {"prepare", "tmux", "broker"}
    /\ orphaned' = (orphaned \/ (pc[h] # "prepare" /\ tmux.pane = "running"))
    /\ lock' = NoHandler
    /\ Goto(h, "idle", {})
    /\ KeepFrames
    /\ UNCHANGED <<project, tmux, detached, registry, session>>

(* attach-session -d: every other client is detached, and without a tmux    *)
(* session the new one exits at once.  The session watches from now on.     *)
AttachBroker(h) ==
    LET s == frame[h].session
    IN  /\ pc[h] = "broker"
        /\ session' = [r \in Session |->
             [session[r] EXCEPT !.broker = r = s /\ tmux.pane # "none"]]
        /\ pc' = [pc EXCEPT ![h] = "publish", ![Reader(s)] = "reading"]
        /\ orphaned' = FALSE
        /\ UNCHANGED <<project, tmux, detached, registry, lock, frame>>

(* The end of start() and the registration. *)
Publish(h) ==
    LET s == frame[h].session
    IN  /\ pc[h] = "publish"
        /\ session' = [session EXCEPT ![s].stage = "up"]
        /\ registry' = s
        /\ lock' = NoHandler
        /\ pc' = [pc EXCEPT ![h] = Ready(h),
                            ![Reaper(s)] = Armed(s)]
        /\ UNCHANGED <<project, tmux, detached, orphaned, frame>>

(* attach: the viewer joins the session it was given, some awaits ago.      *)
Attach(h) ==
    LET s == frame[h].session
    IN  /\ pc[h] = "attach"
        /\ session' = [session EXCEPT ![s].clients = @ \cup {h}]
        /\ Goto(h, "attached", Cancelled(s, h))
        /\ UNCHANGED <<project, tmux, detached, orphaned, registry, lock, frame>>

(* The browser disconnects. *)
Detach(h) ==
    LET s == frame[h].session
    IN  /\ pc[h] = "attached"
        /\ RemoveClient(s, h)
        /\ KeepFrames
        /\ UNCHANGED <<project, tmux, detached, orphaned, registry, lock>>

(* Mutant of Evict: the viewer is removed without looking who is left.      *)
Evict_Untimed(s, h) ==
    /\ pc[Reader(s)] = "reading" /\ session[s].broker /\ ~session[s].closed
    /\ h \in session[s].clients
    /\ session' = [session EXCEPT ![s].clients = @ \ {h}]
    /\ Goto(h, "idle", {})
    /\ KeepFrames
    /\ UNCHANGED <<project, tmux, detached, orphaned, registry, lock>>

(* Output does not reach a viewer in time: it is removed and its socket     *)
(* closed.                                                                  *)
Evict(s, h) ==
    /\ pc[Reader(s)] = "reading" /\ session[s].broker /\ ~session[s].closed
    /\ h \in session[s].clients
    /\ RemoveClient(s, h)
    /\ KeepFrames
    /\ UNCHANGED <<project, tmux, detached, orphaned, registry, lock>>

(* A task's prompt is pasted into the session it was given. *)
Inject(h) ==
    LET s == frame[h].session
    IN  /\ pc[h] = "inject"
        /\ pc' = [pc EXCEPT ![h] = "idle",
                            ![Reaper(s)] = IF IsAlive(s) /\ session[s].clients = {}
                                           THEN Armed(s) ELSE @]
        /\ KeepFrames
        /\ UNCHANGED <<project, tmux, detached, orphaned, registry, lock, session>>

-----------------------------------------------------------------------------
(* Closing.                                                                *)

(* DELETE: close_session takes no lock. *)
Delete(h) ==
    /\ pc[h] = "idle" /\ registry # NoSession
    /\ frame' = [frame EXCEPT ![h] = [NoFrame EXCEPT !.session = registry]]
    /\ pc' = [pc EXCEPT ![h] = IF session[registry].closed THEN "idle" ELSE "sync"]
    /\ UNCHANGED <<project, tmux, detached, orphaned, registry, lock, session>>

(* ensure_agent_project: under the project lock, the terminal of the        *)
(* previous project is closed, then the new one is selected.                *)
Switch(h, p) ==
    /\ pc[h] = "idle" /\ lock = NoHandler /\ p # project
    /\ lock' = h
    /\ frame' = [frame EXCEPT ![h] = [NoFrame EXCEPT !.kind = "switch", !.project = p,
                                                     !.session = registry]]
    /\ pc' = [pc EXCEPT ![h] = IF registry = NoSession \/ session[registry].closed
                               THEN "project" ELSE "sync"]
    /\ UNCHANGED <<project, tmux, detached, orphaned, registry, session>>

(* Mutant of Select: the request's locals are gone when they are read.      *)
Select_Late(h) ==
    /\ pc[h] = "project"
    /\ lock' = NoHandler
    /\ Goto(h, "idle", {})
    /\ KeepFrames
    /\ project' = frame'[h].project
    /\ UNCHANGED <<tmux, detached, orphaned, registry, session>>

Select(h) ==
    /\ pc[h] = "project"
    /\ project' = frame[h].project
    /\ lock' = NoHandler
    /\ Goto(h, "idle", {})
    /\ KeepFrames
    /\ UNCHANGED <<tmux, detached, orphaned, registry, session>>

(* _reap_after_idle: no viewer and no visible activity for long enough.     *)
Reap(s) ==
    /\ pc[Reaper(s)] = "armed"
    /\ pc' = [pc EXCEPT ![Reaper(s)] =
         IF session[s].clients # {} \/ ~IsAlive(s) THEN "idle" ELSE "sync"]
    /\ UNCHANGED <<project, tmux, detached, orphaned, registry, lock, session, frame>>

Drop(s) == [session EXCEPT ![s].clients = {}]

(* The reader sees the end of its client's output... *)
Eof(s) ==
    /\ pc[Reader(s)] = "reading" /\ ~session[s].broker /\ ~session[s].closed
    /\ Goto(Reader(s), "exit", {})
    /\ UNCHANGED <<project, tmux, detached, orphaned, registry, lock, session, frame>>

(* ... tells the viewers and closes the session (_on_subprocess_exit).      *)
Exited(s) ==
    /\ pc[Reader(s)] = "exit"
    /\ session' = Drop(s)
    /\ Goto(Reader(s), Closing(Reader(s), s), session[s].clients)
    /\ KeepFrames
    /\ UNCHANGED <<project, tmux, detached, orphaned, registry, lock>>

(* The CLI has exited in its pane, or the tmux session is gone.             *)
PaneExited(s) ==
    /\ pc[Reader(s)] = "reading" /\ ~session[s].closed /\ ~session[s].exited
    /\ tmux.pane # "running"
    /\ session' = [Drop(s) EXCEPT ![s].exited = TRUE]
    /\ Goto(Reader(s), "sync", session[s].clients)
    /\ KeepFrames
    /\ UNCHANGED <<project, tmux, detached, orphaned, registry, lock>>

(* The reader of a closed session ends. *)
ReaderEnds(s) ==
    /\ pc[Reader(s)] = "reading" /\ session[s].closed
    /\ Goto(Reader(s), "idle", {})
    /\ UNCHANGED <<project, tmux, detached, orphaned, registry, lock, session, frame>>

(* close(), after the last look at the credentials and the tokens.          *)
MarkClosed(t) ==
    LET s == Target(t)
    IN  /\ pc[t] = "sync"
        /\ session' = [session EXCEPT ![s].closed = TRUE]
        /\ Goto(t, "kill", Cancelled(s, t))
        /\ UNCHANGED <<project, tmux, detached, orphaned, registry, lock, frame>>

(* kill-session names the agent's tmux session, whoever started it... *)
Kill(t) ==
    /\ pc[t] = "kill"
    /\ tmux' = NoTmux
    /\ session' = [s \in Session |-> [session[s] EXCEPT !.broker = FALSE]]
    /\ orphaned' = FALSE
    /\ Goto(t, "handover", {})
    /\ UNCHANGED <<project, detached, registry, lock, frame>>

(* ... and may fail, or time out against a busy server. *)
KillFails(t) ==
    /\ pc[t] = "kill" /\ tmux.pane # "none"
    /\ Goto(t, "handover", {})
    /\ UNCHANGED <<project, tmux, detached, orphaned, registry, lock, session, frame>>

(* Mutant of HandOver: a session that could not end its CLI leaves it.      *)
HandOver_None(t) ==
    /\ pc[t] = "handover"
    /\ session' = [session EXCEPT ![Target(t)].broker = FALSE]
    /\ Goto(t, "end", {})
    /\ UNCHANGED <<project, tmux, detached, orphaned, registry, lock, frame>>

(* has-session answers: a CLI that survived keeps its credentials watcher.  *)
(* The session's own tmux client is terminated.                            *)
HandOver(t) ==
    /\ pc[t] = "handover"
    /\ detached' = (detached \/ tmux.pane # "none")
    /\ orphaned' = (orphaned /\ tmux.pane = "none")
    /\ session' = [session EXCEPT ![Target(t)].broker = FALSE]
    /\ Goto(t, "end", {})
    /\ UNCHANGED <<project, tmux, registry, lock, frame>>

(* It does not answer, for an error or in five seconds: the CLI is taken to *)
(* be gone, and nothing is handed over.                                    *)
ProbeFails(t) ==
    /\ pc[t] = "handover" /\ tmux.pane # "none"
    /\ orphaned' = (orphaned \/ (tmux.pane = "running" /\ ~detached))
    /\ session' = [session EXCEPT ![Target(t)].broker = FALSE]
    /\ Goto(t, "end", {})
    /\ UNCHANGED <<project, tmux, detached, registry, lock, frame>>

(* The viewers that are left are told, and the agent's entry of the         *)
(* registry is removed, whichever object it names.                          *)
EndClose(t) ==
    LET s == Target(t)
    IN  /\ pc[t] = "end"
        /\ session' = Drop(s)
        /\ registry' = NoSession
        /\ Goto(t, AfterClose(t), session[s].clients)
        /\ KeepFrames
        /\ UNCHANGED <<project, tmux, detached, orphaned, lock>>

-----------------------------------------------------------------------------
(* The CLI.                                                                *)

CliExits ==
    /\ tmux.pane = "running"
    /\ tmux' = [tmux EXCEPT !.pane = "dead"]
    /\ UNCHANGED <<project, detached, orphaned, registry, lock, session, pc, frame>>

(* The detached watcher ends with the tmux session. *)
DetachedEnds ==
    /\ detached /\ tmux.pane = "none"
    /\ detached' = FALSE
    /\ UNCHANGED <<project, tmux, orphaned, registry, lock, session, pc, frame>>

(* It ends, too, the first time has-session does not answer. *)
DetachedFails ==
    /\ detached /\ tmux.pane # "none"
    /\ detached' = FALSE
    /\ orphaned' = (orphaned \/ tmux.pane = "running")
    /\ UNCHANGED <<project, tmux, registry, lock, session, pc, frame>>

(* The runner's process dies, with all its objects and coroutines; the tmux *)
(* server may survive it, and the selection of the working copy is on disk. *)
RunnerRestart ==
    /\ tmux' \in {tmux, NoTmux}
    /\ detached' = FALSE
    /\ orphaned' = (tmux'.pane = "running")
    /\ registry' = NoSession
    /\ lock' = NoHandler
    /\ session' = [s \in Session |-> [session[s] EXCEPT
         !.closed = session[s].stage # "new", !.broker = FALSE, !.clients = {}]]
    /\ pc' = [t \in Task |-> "idle"]
    /\ frame' = [h \in Handler |-> NoFrame]
    /\ UNCHANGED project

-----------------------------------------------------------------------------
Open(h) ==
    \/ Reuse(h) \/ Replace(h) \/ Spawn(h)
    \/ \E s \in Session : Prepare(h, s)
    \/ EnsureTmux(h) \/ AttachBroker(h) \/ Publish(h)

Close(t) == MarkClosed(t) \/ Kill(t) \/ HandOver(t) \/ EndClose(t)

Read(s) == Eof(s) \/ Exited(s) \/ PaneExited(s) \/ ReaderEnds(s)

(* What the service does by itself. *)
Routine ==
    \/ \E h \in Handler : Open(h) \/ Attach(h) \/ Inject(h) \/ Select(h)
    \/ \E t \in Task : Close(t)
    \/ \E s \in Session : Read(s)
    \/ DetachedEnds

(* What users and the API ask for, and what makes a viewer leave. *)
Request ==
    \E h \in Handler, kind \in {"view", "input"}, c \in Config \cup {NoConfig} :
        Connect(h, kind, c)
Leave == \E h \in Handler : Detach(h) \/ \E s \in Session : Evict(s, h)

(* What ends a session. *)
Event ==
    \/ \E h \in Handler : Delete(h) \/ \E p \in Project : Switch(h, p)
    \/ \E s \in Session : Reap(s)
    \/ CliExits

Fault ==
    \/ \E h \in Handler : SpawnFails(h)
    \/ \E t \in Task : KillFails(t) \/ ProbeFails(t)
    \/ DetachedFails \/ RunnerRestart

Next == Routine \/ Request \/ Leave \/ Event \/ Fault

Spec == Init /\ [][Next]_vars

-----------------------------------------------------------------------------
(* Properties.                                                             *)

IsClosing(s) ==
    \/ pc[Reader(s)] = "exit"
    \/ \E t \in Task : pc[t] \in ClosePhase /\ Target(t) = s

(* A live session nobody looks at is on its way to be reaped: it is up and *)
(* has no viewers only with its idle timer armed, or while it is being      *)
(* closed - whatever viewers came, left, were evicted or stole the reaper's *)
(* turn meanwhile (_schedule_idle_timer, _cancel_idle_timer, attach).       *)
IdleIsTimed ==
    \A s \in Session :
        session[s].stage = "up" /\ IsAlive(s) /\ session[s].clients = {}
            => pc[Reaper(s)] = "armed" \/ IsClosing(s)

(* A CLI that runs has its credentials mirrored: by the watcher of a session*)
(* or by the one detached from a session that could not end it; only a close*)
(* that is about to hand over and a start that is about to take over may    *)
(* find it unwatched - and a CLI that was left behind: by a has-session that*)
(* gave no answer, an open that failed after it had cancelled the watcher,  *)
(* or a restart of the runner.  Such a CLI stays unwatched until the next   *)
(* session attaches to it or it ends (README.md, section 6).               *)
Starting == {"tmux", "broker", "publish"}
CredentialsWatched ==
    tmux.pane = "running" /\ ~orphaned =>
        \/ detached
        \/ \E s \in Session : session[s].stage = "up" /\ ~session[s].closed
        \/ \E t \in Task : pc[t] \in {"kill", "handover"} \cup Starting

(* A session is handed to a viewer or a task only in the agent's selected   *)
(* working copy, and so is the CLI its tmux client shows.                   *)
HandedOut(h) == pc[h] \notin {"attach", "inject"} /\ pc'[h] \in {"attach", "inject"}
InProject(s) == /\ session[s].cwd = project
                /\ session[s].broker => tmux.cwd = project
RightProject ==
    [][\A h \in Handler : HandedOut(h) => InProject(frame[h].session)']_vars
===============================================================================
