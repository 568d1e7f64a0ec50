------------------------------ MODULE CodexTokens ------------------------------
(***************************************************************************)
(* The ChatGPT credentials of one owner: the auth.json files of his agents, *)
(* which the CLIs rewrite, the store behind the API's replicas, and the     *)
(* mirroring between them (runner-service/src/backends/codex_token_store.py,*)
(* codex.py, codex_oauth.py, the creds watchers of pty_session.py; routes/  *)
(* internalTokenStore.ts and database/oauthTokens.ts of the API).           *)
(*                                                                         *)
(* A token is its rank in the order of issue, which is that of expiry; the  *)
(* provider rotates: only the newest one can be refreshed.  0: no token.    *)
(***************************************************************************)
EXTENDS Integers, FiniteSets

CONSTANTS
    Agent,       \* the owner's agents, on one runner
    Replica,     \* the replicas of the API
    None,        \* no replica
    MaxAttempts  \* _PERSIST_MAX_ATTEMPTS

ASSUME ConstantsAssumption ==
    Agent # {} /\ None \notin Replica /\ MaxAttempts \in Nat \ {0}

VARIABLES
    newest,        \* the last token the provider has issued
    db,            \* the row of oauth_tokens
    cache,         \* tokenCache of each replica
    notices,       \* the replicas that a NOTIFY has not reached yet
    reading,       \* what the reloads of each replica have read
    inserts,       \* the writes of the row at work, with their replica
    behind,        \* history: the replicas that may have missed a write
    rcache,        \* _owner_blob_cache of the runner
    get,           \* the GETs that a cache misses, and what they have read
    file,          \* auth.json of each agent
    exec, term,    \* the agents' executions, and their terminals
    key,           \* the token each watcher knows
    save,          \* the saves at work
    lapses         \* history: the losses that the code leaves open

api == <<db, cache, notices, reading, inserts, behind>>
runner == <<rcache, get, file, exec, term, key, save>>
vars == <<newest, api, runner, lapses>>

Missing == -1

(* The headless executions, the watchers and the logins that save.          *)
Saver == ({"exec", "watch"} \X Agent) \cup {<<"login", None>>}

Lapse == {"overwritten", "backward", "unsaved", "unwatched", "lost", "unstored", "died"}

TypeOK ==
    /\ newest \in Nat /\ db \in 0..newest
    /\ cache \in [Replica -> 0..newest]
    /\ notices \subseteq Replica
    /\ reading \in [Replica -> SUBSET (0..newest)]
    /\ inserts \subseteq Replica \X (1..newest)
    /\ behind \subseteq Replica
    /\ get \in [Saver -> [at : Replica \cup {None}, token : 0..newest]]
    /\ rcache \in {Missing} \cup 0..newest
    /\ file \in [Agent -> 0..newest]
    /\ exec \in [Agent ->
         [phase : {"idle", "load", "write", "expire", "refresh", "ready", "run"},
          kind : {"task", "terminal"}, blob : 0..newest]]
    /\ term \in [Agent -> {"off", "spawn", "on", "closing", "kept", "leaving", "left"}]
    /\ key \in [Agent -> 0..newest]
    /\ save \in [Saver -> [phase : {"none", "fetch", "post", "verify"},
                           token : 0..newest, at : Replica \cup {None}, tries : 0..(MaxAttempts - 1)]]
    /\ lapses \subseteq Lapse

NoExec == [phase |-> "idle", kind |-> "task", blob |-> 0]
NoGet == [at |-> None, token |-> 0]
NoSave == [phase |-> "none", token |-> 0, at |-> None, tries |-> 0]

(* The owner has never logged in, or the store has his token; a replica has *)
(* none if it could not load the row when it started.                      *)
Init ==
    /\ newest \in 0..1 /\ db = newest
    /\ cache \in [Replica -> {0, newest}]
    /\ notices = {}
    /\ reading = [r \in Replica |-> {}]
    /\ inserts = {}
    /\ behind = {}
    /\ rcache = Missing
    /\ get = [s \in Saver |-> NoGet]
    /\ file = [a \in Agent |-> 0]
    /\ exec = [a \in Agent |-> NoExec]
    /\ term = [a \in Agent |-> "off"]
    /\ key = [a \in Agent |-> 0]
    /\ save = [s \in Saver |-> NoSave]
    /\ lapses = {}

-----------------------------------------------------------------------------
(* What the steps are made of.                                             *)

Free(kind, a) == save[<<kind, a>>].phase = "none"

Begin(kind, a, token, phase) ==
    save' = [save EXCEPT ![<<kind, a>>] =
        [phase |-> phase, token |-> token, at |-> None, tries |-> 0]]

At(a, phase) == exec[a].phase = phase
Goes(a, phase) == exec' = [exec EXCEPT ![a].phase = phase]

Lapses(kind, cond) == lapses' = lapses \cup IF cond THEN {kind} ELSE {}

Writes(a, token) == file' = [file EXCEPT ![a] = token]

(* A change of the file is noticed by comparing it with what the push noted *)
(* when the execution started, the watcher when it last saved it.           *)
ExecSees(a) == At(a, "run") /\ file[a] # exec[a].blob
WatchSees(a) == term[a] \in {"on", "closing", "kept", "leaving"} /\ file[a] # key[a]

(* What is lost when the watcher goes away now.                             *)
Unsaved(a) == WatchSees(a) /\ file[a] > db

(* A replica reads the row, for a notification or for a GET, and caches what*)
(* it has read when the answer is there.  Two readings may end in the other *)
(* order: the replica is behind until it reads again, alone.                *)
AtWork(r) == reading[r] # {} \/ \E s \in Saver : get[s].at = r /\ get[s].token # 0
Reads(r) == behind' = IF AtWork(r) THEN behind \cup {r} ELSE behind \ {r}

(* GET: a replica that has no token in its cache reads the row ...          *)
Wants(s) == save[s].phase = "fetch" \/ (s[1] = "exec" /\ At(s[2], "load"))

Asks(s, r) ==
    /\ Wants(s) /\ get[s] = NoGet /\ cache[r] = 0
    /\ get' = [get EXCEPT ![s] = [at |-> r, token |-> db]]
    /\ Reads(r)
    /\ rcache' = Missing
    /\ UNCHANGED <<newest, db, cache, notices, reading, inserts, file, exec, term, key, save, lapses>>

(* ... the answer is what it has read, or at once what is in the cache.  The*)
(* runner remembers it, that there is none too, unless the replica is gone. *)
Answers(s, r, token) ==
    /\ \/ /\ get[s] = NoGet /\ token = cache[r] /\ token # 0
          /\ UNCHANGED <<cache, get>>
       \/ /\ get[s] = [at |-> r, token |-> token]
          /\ get' = [get EXCEPT ![s] = NoGet]
          /\ cache' = IF token = 0 THEN cache ELSE [cache EXCEPT ![r] = token]
    /\ rcache' \in IF token = 0 THEN {Missing, 0} ELSE {token}

(* No answer; the replica may go on reading for nobody, or have failed.     *)
GivesUp(s) ==
    /\ get' = [get EXCEPT ![s] = NoGet]
    /\ \/ UNCHANGED reading
       \/ get[s].token # 0 /\ reading' = [reading EXCEPT ![get[s].at] = @ \cup {get[s].token}]

-----------------------------------------------------------------------------
(* A save: save_owner_blob_if_newer begins at "fetch", save_owner_blob at   *)
(* "post".                                                                 *)

(* The end of a save.  The watcher notes a token that is saved, and tries   *)
(* again if it is not; the others go on either way.                         *)
Done(s, saved) ==
    /\ save' = [save EXCEPT ![s] = NoSave]
    /\ key' = IF s[1] = "watch" /\ saved THEN [key EXCEPT ![s[2]] = save[s].token] ELSE key

(* The store is read past the runner's cache; it may have a fresher token.  *)
Fetch(s, r, token) ==
    /\ save[s].phase = "fetch"
    /\ Answers(s, r, token)
    /\ IF token >= save[s].token
       THEN Done(s, TRUE) /\ Lapses("unstored", db < save[s].token)
       ELSE /\ save' = [save EXCEPT ![s].phase = "post"]
            /\ UNCHANGED <<key, lapses>>
    /\ UNCHANGED <<newest, db, notices, reading, inserts, behind, file, exec, term>>

(* A store that cannot be read is taken for an empty one. *)
FetchFails(s) ==
    /\ save[s].phase = "fetch"
    /\ rcache' \in {Missing, 0}
    /\ GivesUp(s)
    /\ save' = [save EXCEPT ![s].phase = "post"]
    /\ UNCHANGED <<newest, db, cache, notices, inserts, behind, file, exec, term, key, lapses>>

(* storeOAuthToken: the replica's cache first, then the row ...             *)
Post(s, r) ==
    /\ save[s].phase = "post"
    /\ cache' = [cache EXCEPT ![r] = save[s].token]
    /\ inserts' = inserts \cup {<<r, save[s].token>>}
    /\ save' = [save EXCEPT ![s].phase = "verify", ![s].at = r]
    /\ UNCHANGED <<newest, db, notices, reading, behind, rcache, get, file, exec, term, key, lapses>>

(* Mutant of Insert: nobody is notified. *)
Insert_Silent(r, token) ==
    /\ <<r, token>> \in inserts
    /\ db' = token
    /\ inserts' = inserts \ {<<r, token>>}
    /\ Lapses("backward", db > token)
    /\ UNCHANGED <<newest, cache, notices, reading, behind, runner>>

(* ... and every replica is notified. *)
Insert(r, token) ==
    /\ <<r, token>> \in inserts
    /\ db' = token
    /\ notices' = Replica
    /\ inserts' = inserts \ {<<r, token>>}
    /\ Lapses("backward", db > token)
    /\ UNCHANGED <<newest, cache, reading, behind, runner>>

(* The NOTIFY after the insert fails, or the insert: the replica's cache    *)
(* keeps the token.                                                        *)
InsertFails(r, token, written) ==
    /\ <<r, token>> \in inserts
    /\ db' = IF written THEN token ELSE db
    /\ inserts' = inserts \ {<<r, token>>}
    /\ behind' = behind \cup
         (IF written THEN Replica ELSE IF db > token THEN {r} ELSE {})
    /\ Lapses("backward", written /\ db > token)
    /\ UNCHANGED <<newest, cache, notices, reading, runner>>

(* Mutant of Retry: one attempt more. *)
Retry_OnceMore(s) ==
    IF save[s].tries < MaxAttempts
    THEN /\ save' = [save EXCEPT ![s].phase = "post", ![s].at = None, ![s].tries = @ + 1]
         /\ UNCHANGED <<key, lapses>>
    ELSE Done(s, FALSE) /\ Lapses("unsaved", s[1] # "watch")

Retry(s) ==
    IF save[s].tries + 1 < MaxAttempts
    THEN /\ save' = [save EXCEPT ![s].phase = "post", ![s].at = None, ![s].tries = @ + 1]
         /\ UNCHANGED <<key, lapses>>
    ELSE Done(s, FALSE) /\ Lapses("unsaved", s[1] # "watch")

(* verifyPersisted reads the row back, after the insert. *)
Verify(s) ==
    /\ save[s].phase = "verify" /\ <<save[s].at, save[s].token>> \notin inserts
    /\ IF db = save[s].token THEN rcache' = Missing /\ Done(s, TRUE) /\ UNCHANGED lapses
       ELSE UNCHANGED rcache /\ Retry(s)
    /\ UNCHANGED <<newest, api, get, file, exec, term>>

(* The request, or its answer, is lost on the way; an insert goes on. *)
PostLost(s) ==
    /\ save[s].phase \in {"post", "verify"}
    /\ Retry(s)
    /\ UNCHANGED <<newest, api, rcache, get, file, exec, term>>

-----------------------------------------------------------------------------
(* An execution, or the opening of a terminal: _hydrate_for_exec, then the  *)
(* CLI.                                                                    *)

Open(a, kind) ==
    /\ At(a, "idle") /\ Free("exec", a)
    /\ kind = "terminal" => term[a] \notin {"spawn", "on", "closing"}
    /\ exec' = [exec EXCEPT ![a] = [phase |-> "load", kind |-> kind, blob |-> 0]]
    /\ UNCHANGED <<newest, api, rcache, get, file, term, key, save, lapses>>

(* hydrate_agent_auth: a file that is newer than the store is mirrored up,  *)
(* an older one is overwritten.                                            *)
Hydrate(a, blob) ==
    /\ exec' = [exec EXCEPT ![a].blob = blob,
            ![a].phase = IF blob > file[a] THEN "write" ELSE "expire"]
    /\ IF blob \in 1..(file[a] - 1) THEN Begin("exec", a, file[a], "fetch") ELSE UNCHANGED save

(* load_owner_blob: the runner's cache for its time to live, or the store.  *)
LoadCached(a) ==
    /\ At(a, "load") /\ rcache # Missing /\ get[<<"exec", a>>] = NoGet
    /\ Hydrate(a, rcache)
    /\ UNCHANGED <<newest, api, rcache, get, file, term, key, lapses>>

Load(a, r, token) ==
    /\ At(a, "load")
    /\ Answers(<<"exec", a>>, r, token)
    /\ Hydrate(a, token)
    /\ UNCHANGED <<newest, db, notices, reading, inserts, behind, file, term, key, lapses>>

LoadFails(a) ==
    /\ At(a, "load")
    /\ GivesUp(<<"exec", a>>)
    /\ Goes(a, "expire")
    /\ rcache' \in {rcache, 0}
    /\ UNCHANGED <<newest, db, cache, notices, inserts, behind, file, term, key, save, lapses>>

(* A thread writes; the CLI may have rotated since the comparison. *)
Write(a) ==
    /\ At(a, "write")
    /\ Writes(a, exec[a].blob)
    /\ Goes(a, "expire")
    /\ Lapses("overwritten", file[a] > exec[a].blob)
    /\ UNCHANGED <<newest, api, rcache, get, term, key, save>>

WriteFails(a) ==
    /\ At(a, "write")
    /\ Goes(a, "expire")
    /\ UNCHANGED <<newest, api, rcache, get, file, term, key, save, lapses>>

(* The token on disk is about to expire, or not. *)
Expire(a, expired) ==
    /\ At(a, "expire") /\ Free("exec", a) /\ (expired => file[a] > 0)
    /\ exec' = [exec EXCEPT ![a].phase = IF expired THEN "refresh" ELSE "ready",
                            ![a].blob = file[a]]
    /\ UNCHANGED <<newest, api, rcache, get, file, term, key, save, lapses>>

(* refresh_blob: granted to the newest token only; the file is written and  *)
(* the token saved.                                                        *)
Refreshed(a) ==
    /\ At(a, "refresh") /\ exec[a].blob = newest
    /\ newest' = newest + 1
    /\ Writes(a, newest + 1)
    /\ Begin("exec", a, newest + 1, "fetch")
    /\ Goes(a, "ready")
    /\ UNCHANGED <<api, rcache, get, term, key, lapses>>

Refused(a) ==
    /\ At(a, "refresh") /\ exec[a].blob # newest
    /\ Goes(a, "ready")
    /\ UNCHANGED <<newest, api, rcache, get, file, term, key, save, lapses>>

(* The provider has rotated and its answer is lost. *)
RefreshLost(a) ==
    /\ At(a, "refresh") /\ exec[a].blob = newest
    /\ newest' = newest + 1
    /\ Goes(a, "ready")
    /\ Lapses("lost", TRUE)
    /\ UNCHANGED <<api, rcache, get, file, term, key, save>>

(* The CLI of a task starts, under the baseline the push compares with.     *)
Ready(a) ==
    /\ At(a, "ready") /\ Free("exec", a) /\ exec[a].kind = "task"
    /\ exec' = [exec EXCEPT ![a].phase = "run", ![a].blob = file[a]]
    /\ UNCHANGED <<newest, api, rcache, get, file, term, key, save, lapses>>

(* A session replaces the watcher of one that was closed over its CLI, then *)
(* starts a CLI or attaches to it.                                         *)
Opened(a, phase) ==
    /\ At(a, "ready") /\ Free("exec", a) /\ exec[a].kind = "terminal" /\ Free("watch", a)
    /\ exec' = [exec EXCEPT ![a] = NoExec]
    /\ term' = [term EXCEPT ![a] = phase]
    /\ key' = [key EXCEPT ![a] = 0]
    /\ Lapses("unwatched", Unsaved(a))
    /\ UNCHANGED <<newest, api, rcache, get, file, save>>
ReadyTerminal(a) == Opened(a, "spawn")

(* The session does not start; a CLI that was there goes on unwatched. *)
StartFails(a) == Opened(a, IF term[a] = "off" THEN "off" ELSE "left")

(* push_agent_auth_if_changed. *)
RunEnds(a) ==
    /\ At(a, "run")
    /\ exec' = [exec EXCEPT ![a] = NoExec]
    /\ IF ExecSees(a) THEN Begin("exec", a, file[a], "fetch") ELSE UNCHANGED save
    /\ UNCHANGED <<newest, api, rcache, get, file, term, key, lapses>>

-----------------------------------------------------------------------------
(* The watcher of a terminal.                                              *)

(* capture_baseline, after the CLI has started. *)
Baseline(a) ==
    /\ term[a] = "spawn"
    /\ term' = [term EXCEPT ![a] = "on"]
    /\ key' = [key EXCEPT ![a] = file[a]]
    /\ UNCHANGED <<newest, api, rcache, get, file, exec, save, lapses>>

(* poll_once, up to its save. *)
Polls(a) ==
    /\ Free("watch", a)
    /\ IF WatchSees(a)
       THEN Begin("watch", a, file[a], "fetch") ELSE UNCHANGED save
    /\ UNCHANGED <<newest, api, rcache, get, file, exec, key, lapses>>

Poll(a) ==
    /\ term[a] \in {"on", "kept"} /\ WatchSees(a)
    /\ Polls(a)
    /\ UNCHANGED term

(* Mutant of Close: the final poll notes the file and saves nothing. *)
Close_Unpolled(a) ==
    /\ term[a] = "on" /\ Free("watch", a)
    /\ term' = [term EXCEPT ![a] = "closing"]
    /\ key' = [key EXCEPT ![a] = file[a]]
    /\ UNCHANGED <<newest, api, rcache, get, file, exec, save, lapses>>

(* A session that closes polls once more, then kills its CLI ...            *)
Close(a) ==
    /\ term[a] = "on"
    /\ Polls(a)
    /\ term' = [term EXCEPT ![a] = "closing"]

(* ... also if the poll has failed, or the CLI has rotated since.           *)
Ends(a, phase) ==
    /\ term[a] \in {"closing", "leaving"} /\ Free("watch", a)
    /\ term' = [term EXCEPT ![a] = phase]
    /\ key' = [key EXCEPT ![a] = 0]
    /\ Lapses("unwatched", Unsaved(a))
    /\ UNCHANGED <<newest, api, rcache, get, file, exec, save>>
Killed(a) == Ends(a, "off")

(* The kill fails and tmux tells so: the watcher is handed over and goes on *)
(* polling ...                                                             *)
Survives(a) ==
    /\ term[a] = "closing" /\ Free("watch", a)
    /\ term' = [term EXCEPT ![a] = "kept"]
    /\ UNCHANGED <<newest, api, rcache, get, file, exec, key, save, lapses>>

(* ... until a probe of tmux does not find the CLI: one last look.          *)
LooksAway(a) ==
    /\ term[a] = "kept"
    /\ Polls(a)
    /\ term' = [term EXCEPT ![a] = "leaving"]

(* The probe has failed, not the CLI, after the kill or later: nobody       *)
(* watches a CLI that is alive.                                            *)
Left(a) == Ends(a, "left")

-----------------------------------------------------------------------------
(* The CLI, the user, the API's replicas, and the faults.                   *)

(* A CLI refreshes its token; nobody notices before the baseline is taken,  *)
(* nor when it is left alone.                                              *)
CliRotates(a) ==
    /\ At(a, "run") \/ term[a] # "off"
    /\ newest > 0 /\ file[a] = newest
    /\ newest' = newest + 1
    /\ Writes(a, newest + 1)
    /\ Lapses("unwatched", ~At(a, "run") /\ term[a] \in {"spawn", "left"})
    /\ UNCHANGED <<api, rcache, get, exec, term, key, save>>

(* A login on the owner's page, which writes the store whatever it has, or  *)
(* an agent's, there or in its terminal: the file has the token first.      *)
Logs ==
    /\ Free("login", None)
    /\ newest' = newest + 1
    /\ Begin("login", None, newest + 1, "post")
    /\ UNCHANGED <<api, rcache, get, exec, term, key, lapses>>

Login == Logs /\ UNCHANGED file

AgentLogin(a) == Logs /\ Writes(a, newest + 1)

(* A notification makes a replica read the row ... *)
Notified(r) ==
    /\ r \in notices
    /\ notices' = notices \ {r}
    /\ reading' = [reading EXCEPT ![r] = @ \cup {db}]
    /\ Reads(r)
    /\ UNCHANGED <<newest, db, cache, inserts, runner, lapses>>

(* ... and cache what it has read, also when a later reading was faster.    *)
Loaded(r, token) ==
    /\ token \in reading[r]
    /\ cache' = [cache EXCEPT ![r] = token]
    /\ reading' = [reading EXCEPT ![r] = @ \ {token}]
    /\ UNCHANGED <<newest, db, notices, inserts, behind, runner, lapses>>

(* LISTEN's connection is gone for a while. *)
NoticeLost(r) ==
    /\ r \in notices
    /\ notices' = notices \ {r}
    /\ behind' = behind \cup {r}
    /\ UNCHANGED <<newest, db, cache, reading, inserts, runner, lapses>>

(* The GETs it was at work on fail; so may its own loading of the row. *)
ReplicaRestarts(r) ==
    /\ \E token \in {0, db} : cache' = [cache EXCEPT ![r] = token]
    /\ reading' = [reading EXCEPT ![r] = {}]
    /\ notices' = notices \ {r}
    /\ inserts' = {w \in inserts : w[1] # r}
    /\ behind' = behind \ {r}
    /\ get' = [s \in Saver |-> IF get[s].at = r THEN [at |-> r, token |-> 0] ELSE get[s]]
    /\ UNCHANGED <<newest, db, rcache, file, exec, term, key, save, lapses>>

(* The runner's process restarts: the files are there, and perhaps the CLIs,*)
(* which nobody watches - or its container is replaced, and they are gone.  *)
RunnerRestarts(replaced) ==
    /\ rcache' = Missing
    /\ get' = [s \in Saver |-> NoGet]
    /\ reading' = [r \in Replica |-> reading[r] \cup
         {get[s].token : s \in {q \in Saver : get[q].at = r /\ get[q].token # 0}}]
    /\ file' = IF replaced THEN [a \in Agent |-> 0] ELSE file
    /\ exec' = [a \in Agent |-> NoExec]
    /\ \E alive \in SUBSET {a \in Agent : ~replaced /\ (At(a, "run") \/ term[a] # "off")} :
         term' = [a \in Agent |-> IF a \in alive THEN "left" ELSE "off"]
    /\ key' = [a \in Agent |-> 0]
    /\ save' = [s \in Saver |-> NoSave]
    /\ Lapses("died", db # newest)
    /\ UNCHANGED <<newest, db, cache, notices, inserts, behind>>

-----------------------------------------------------------------------------
SaveStep(s) ==
    \/ Verify(s)
    \/ \E r \in Replica :
         \/ Asks(s, r) \/ Post(s, r)
         \/ \E token \in {cache[r], get[s].token} : Fetch(s, r, token)

ExecStep(a) ==
    \/ LoadCached(a)
    \/ \E r \in Replica : \E token \in {cache[r], get[<<"exec", a>>].token} : Load(a, r, token)
    \/ Write(a)
    \/ \E expired \in BOOLEAN : Expire(a, expired)
    \/ Refreshed(a) \/ Refused(a) \/ Ready(a) \/ ReadyTerminal(a) \/ RunEnds(a)

TerminalStep(a) ==
    \/ Baseline(a) \/ Poll(a) \/ Close(a) \/ Killed(a) \/ Survives(a) \/ LooksAway(a)
    \/ CliRotates(a)

Routine ==
    \/ \E s \in Saver : SaveStep(s)
    \/ \E a \in Agent : ExecStep(a) \/ TerminalStep(a)
    \/ \E r \in Replica : Notified(r) \/ \E token \in reading[r] : Loaded(r, token)
    \/ \E w \in inserts : Insert(w[1], w[2])

Request ==
    \/ Login
    \/ \E a \in Agent :
         AgentLogin(a) \/ \E kind \in {"task", "terminal"} : Open(a, kind)

Fault ==
    \/ \E s \in Saver : FetchFails(s) \/ PostLost(s)
    \/ \E w \in inserts, written \in BOOLEAN : InsertFails(w[1], w[2], written)
    \/ \E a \in Agent :
         \/ LoadFails(a) \/ WriteFails(a) \/ RefreshLost(a)
         \/ StartFails(a) \/ Left(a)
    \/ \E r \in Replica : NoticeLost(r) \/ ReplicaRestarts(r)
    \/ \E replaced \in BOOLEAN : RunnerRestarts(replaced)

Next == Routine \/ Request \/ Fault

Spec == Init /\ [][Next]_vars

-----------------------------------------------------------------------------
(* Properties.                                                             *)

(* "A refresh nobody mirrors back to the store is lost" (pty_session.py:    *)
(* 575): the token that works is in the store, in a save that will not give *)
(* up before it is, or in a file whose change a watcher or the push after   *)
(* an execution has yet to notice - unless a loss the code leaves open      *)
(* happened: an unnoticed or unsaved change, an overlapping save, a crash.  *)
OnItsWay(a) ==
    \/ \E s \in Saver : save[s].phase # "none" /\ save[s].token = newest
    \/ \E w \in inserts : w[2] = newest
    \/ file[a] = newest /\ (ExecSees(a) \/ WatchSees(a))
NewestIsMirrored == lapses = {} => db = newest \/ \E a \in Agent : OnItsWay(a)

(* "Every replica refreshes the affected key" (oauthTokens.ts:20): a replica*)
(* with nothing to hear, to read or to insert serves no token that is older *)
(* than the row's, whatever is written meanwhile and whatever a GET brings  *)
(* back late - if its last notice was not lost, nor read twice at a time.   *)
Settled(r) ==
    r \notin notices /\ ~AtWork(r) /\ \A w \in inserts : w[1] # r
CachesSettle ==
    \A r \in Replica \ behind : Settled(r) => cache[r] = 0 \/ cache[r] >= db
===============================================================================
