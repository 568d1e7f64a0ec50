--------------------------- MODULE CodexTokensProofs ---------------------------
(***************************************************************************)
(* The token that works is not lost, for any number of agents, replicas and *)
(* attempts, and the replicas' caches settle on the row.                    *)
(***************************************************************************)
EXTENDS CodexTokens, TLAPS

ExecOf(n) ==
    [phase : {"idle", "load", "write", "expire", "refresh", "ready", "run"},
     kind : {"task", "terminal"}, blob : 0..n]
SaveOf(n) ==
    [phase : {"none", "fetch", "post", "verify"}, token : 0..n,
     at : Replica \cup {None}, tries : 0..(MaxAttempts - 1)]

GetOf(n) == [at : Replica \cup {None}, token : 0..n]

Watching == {"on", "closing", "kept", "leaving"}
Terminals == Watching \cup {"off", "spawn", "left"}

(* TypeOK for tokens up to n. *)
TypedTo(n) ==
    /\ db \in 0..n
    /\ cache \in [Replica -> 0..n]
    /\ notices \subseteq Replica
    /\ reading \in [Replica -> SUBSET (0..n)]
    /\ inserts \subseteq Replica \X (1..n)
    /\ behind \subseteq Replica
    /\ get \in [Saver -> GetOf(n)]
    /\ rcache \in {Missing} \cup 0..n
    /\ file \in [Agent -> 0..n]
    /\ exec \in [Agent -> ExecOf(n)]
    /\ term \in [Agent -> Terminals]
    /\ key \in [Agent -> 0..n]
    /\ save \in [Saver -> SaveOf(n)]
    /\ lapses \subseteq Lapse

(* What an execution, a watcher and a save know.  A new save never takes    *)
(* the place of one at work.                                               *)
Locals ==
    /\ \A a \in Agent :
         /\ exec[a].phase \in {"load", "write", "refresh", "run"} => Free("exec", a)
         /\ At(a, "write") => exec[a].blob > 0
         /\ ~At(a, "idle") /\ exec[a].kind = "terminal" =>
                term[a] \in {"off", "left", "kept", "leaving"}
         /\ key[a] > 0 => file[a] > 0
         /\ At(a, "run") /\ exec[a].blob > 0 => file[a] > 0
         /\ ~Free("watch", a) => file[a] > 0 /\ term[a] \in Watching
    /\ \A s \in Saver : save[s].phase # "none" => save[s].token > 0

(* The save of a watcher that gives up leaves a change to be noticed again. *)
WatchInv ==
    lapses = {} =>
        \A a \in Agent : ~Free("watch", a) /\ save[<<"watch", a>>].token = newest =>
            file[a] = newest /\ key[a] # newest

(* NewestIsMirrored without the inserts: a save waits for its own, so that  *)
(* none of them has to succeed.                                            *)
Saved == \E s \in Saver : save[s].phase # "none" /\ save[s].token = newest
Seen == \E a \in Agent : file[a] = newest /\ (ExecSees(a) \/ WatchSees(a))
MirrorInv == lapses = {} => db = newest \/ Saved \/ Seen

(* A replica that is not behind reads the row once at a time, and what it   *)
(* reads is the row's or out of date for a notification under way; so is    *)
(* its cache, unless it is inserting that token, or reading for one.        *)
One(r) ==
    /\ \A x, y \in reading[r] : x = y
    /\ \A s \in Saver : get[s].at = r /\ get[s].token # 0 =>
         /\ reading[r] = {}
         /\ \A q \in Saver : get[q].at = r /\ get[q].token # 0 => q = s
Current(r, token) == token = db \/ r \in notices
Fresh(r) ==
    /\ One(r)
    /\ \A token \in reading[r] : Current(r, token)
    /\ \A s \in Saver : get[s].at = r /\ get[s].token # 0 => Current(r, get[s].token)
    /\ \/ reading[r] # {}
       \/ cache[r] = 0 \/ cache[r] >= db
       \/ r \in notices
       \/ <<r, cache[r]>> \in inserts
CacheInv == \A r \in Replica \ behind : Fresh(r)

-----------------------------------------------------------------------------
(* Types.                                                                  *)

LEMMA Savers ==
    /\ \A a \in Agent : <<"exec", a>> \in Saver /\ <<"watch", a>> \in Saver
    /\ <<"login", None>> \in Saver
    /\ \A s \in Saver : s[1] = "watch" => s[2] \in Agent /\ s = <<"watch", s[2]>>
    /\ \A a, b \in Agent : <<"exec", a>> # <<"watch", b>> /\ <<"watch", b>> # <<"login", None>>
BY DEF Saver

LEMMA TypedNow ==
    TypeOK <=> newest \in Nat /\ TypedTo(newest)
BY DEF TypeOK, TypedTo, ExecOf, SaveOf, GetOf, Terminals, Watching

LEMMA TypedNext ==
    ASSUME newest' \in Nat, TypedTo(newest)'
    PROVE  TypeOK'
BY DEF TypeOK, TypedTo, ExecOf, SaveOf, GetOf, Terminals, Watching

LEMMA Grows ==
    ASSUME TypeOK
    PROVE  TypedTo(newest + 1) /\ newest + 1 \in Nat
<1>1. newest \in Nat /\ TypedTo(newest)
  BY TypedNow
<1>2. \A i : i \in 0..newest => i \in 0..(newest + 1)
  BY <1>1
<1>3. ExecOf(newest) \subseteq ExecOf(newest + 1)
  BY <1>2 DEF ExecOf
<1>4. SaveOf(newest) \subseteq SaveOf(newest + 1)
  BY <1>2 DEF SaveOf
<1>5. Replica \X (1..newest) \subseteq Replica \X (1..(newest + 1))
  BY <1>1
<1>6. GetOf(newest) \subseteq GetOf(newest + 1)
  BY <1>2 DEF GetOf
<1> QED
  BY <1>1, <1>2, <1>3, <1>4, <1>5, <1>6 DEF TypedTo

LEMMA BeginTyped ==
    ASSUME NEW n \in Nat, save \in [Saver -> SaveOf(n)],
           NEW kind, NEW a, NEW token \in 0..n, NEW phase \in {"none", "fetch", "post", "verify"},
           Begin(kind, a, token, phase)
    PROVE  save' \in [Saver -> SaveOf(n)]
<1>1. [phase |-> phase, token |-> token, at |-> None, tries |-> 0] \in SaveOf(n)
  BY ConstantsAssumption DEF ConstantsAssumption, SaveOf
<1> QED
  BY <1>1 DEF Begin

LEMMA GoesTyped ==
    ASSUME NEW n \in Nat, exec \in [Agent -> ExecOf(n)], NEW a \in Agent,
           NEW phase \in {"idle", "load", "write", "expire", "refresh", "ready", "run"},
           Goes(a, phase)
    PROVE  exec' \in [Agent -> ExecOf(n)]
<1>1. [exec[a] EXCEPT !.phase = phase] \in ExecOf(n)
  BY DEF ExecOf
<1> QED
  BY <1>1 DEF Goes

LEMMA DoneTyped ==
    ASSUME TypeOK, NEW s \in Saver, NEW saved \in BOOLEAN, Done(s, saved)
    PROVE  save' \in [Saver -> SaveOf(newest)] /\ key' \in [Agent -> 0..newest]
<1>1. NoSave \in SaveOf(newest) /\ save[s].token \in 0..newest
  BY ConstantsAssumption, TypedNow DEF ConstantsAssumption, NoSave, SaveOf, TypedTo
<1> QED
  BY <1>1, TypedNow, Savers DEF Done, TypedTo

LEMMA RetryTyped ==
    ASSUME TypeOK, NEW s \in Saver, Retry(s)
    PROVE  /\ save' \in [Saver -> SaveOf(newest)] /\ key' \in [Agent -> 0..newest]
           /\ lapses' \subseteq Lapse
<1>1. CASE save[s].tries + 1 < MaxAttempts
  <2>1. save[s] \in SaveOf(newest)
    BY TypedNow DEF TypedTo
  <2>2. [save[s] EXCEPT !.phase = "post", !.at = None, !.tries = @ + 1] \in SaveOf(newest)
    <3>1. save[s].tries \in Nat /\ save[s].tries + 1 \in 0..(MaxAttempts - 1)
      BY <1>1, <2>1, ConstantsAssumption DEF ConstantsAssumption, SaveOf
    <3> QED
      BY <2>1, <3>1, ConstantsAssumption DEF ConstantsAssumption, SaveOf
  <2> QED
    BY <1>1, <2>2, TypedNow DEF Retry, TypedTo
<1>2. CASE ~(save[s].tries + 1 < MaxAttempts)
  BY <1>2, DoneTyped, TypedNow DEF Retry, Lapses, Lapse, TypedTo
<1> QED
  BY <1>1, <1>2

LEMMA NoGetTyped ==
    ASSUME NEW n \in Nat
    PROVE  NoGet \in GetOf(n)
BY DEF NoGet, GetOf

LEMMA AnswersTyped ==
    ASSUME TypeOK, NEW r \in Replica, NEW s \in Saver, NEW token \in {cache[r], get[s].token}
    PROVE  /\ token \in 0..newest
           /\ Answers(s, r, token) =>
                /\ cache' \in [Replica -> 0..newest] /\ rcache' \in {Missing} \cup 0..newest
                /\ get' \in [Saver -> GetOf(newest)]
<1>1. /\ newest \in Nat /\ cache \in [Replica -> 0..newest] /\ get \in [Saver -> GetOf(newest)]
  BY TypedNow DEF TypedTo
<1>2. token \in 0..newest
  BY <1>1 DEF GetOf
<1>3. 0 \in 0..newest
  BY <1>1
<1> QED
  BY <1>1, <1>2, <1>3, NoGetTyped DEF Answers

LEMMA GivesTyped ==
    ASSUME TypeOK, NEW s \in Saver, GivesUp(s)
    PROVE  get' \in [Saver -> GetOf(newest)] /\ reading' \in [Replica -> SUBSET (0..newest)]
<1>1. /\ newest \in Nat /\ reading \in [Replica -> SUBSET (0..newest)]
      /\ get \in [Saver -> GetOf(newest)]
  BY TypedNow DEF TypedTo
<1>2. get[s].token \in 0..newest
  BY <1>1 DEF GetOf
<1> QED
  BY <1>1, <1>2, NoGetTyped DEF GivesUp

LEMMA HydrateTyped ==
    ASSUME TypeOK, NEW a \in Agent, NEW blob \in 0..newest, Hydrate(a, blob)
    PROVE  exec' \in [Agent -> ExecOf(newest)] /\ save' \in [Saver -> SaveOf(newest)]
<1>1. newest \in Nat /\ exec \in [Agent -> ExecOf(newest)] /\ save \in [Saver -> SaveOf(newest)]
  BY TypedNow DEF TypedTo
<1>2. \A phase \in {"write", "expire"} :
        [exec[a] EXCEPT !.blob = blob, !.phase = phase] \in ExecOf(newest)
  BY <1>1 DEF ExecOf
<1>3. exec' \in [Agent -> ExecOf(newest)]
  BY <1>1, <1>2 DEF Hydrate
<1>4. file[a] \in 0..newest
  BY DEF TypeOK
<1> QED
  BY <1>1, <1>3, <1>4, BeginTyped DEF Hydrate

LEMMA SaveTypes ==
    ASSUME TypeOK, Locals, NEW s \in Saver,
           SaveStep(s) \/ FetchFails(s) \/ PostLost(s)
    PROVE  TypeOK'
<1>1. newest \in Nat /\ TypedTo(newest)
  BY TypedNow
<1>2. SUFFICES newest' = newest /\ TypedTo(newest)'
  BY <1>1, TypedNext
<1>3. save[s] \in SaveOf(newest)
  BY <1>1 DEF TypedTo
<1>4. [save[s] EXCEPT !.phase = "post"] \in SaveOf(newest)
  BY <1>3 DEF SaveOf
<1>5. ASSUME NEW r \in Replica, NEW token \in {cache[r], get[s].token}, Fetch(s, r, token)
      PROVE  newest' = newest /\ TypedTo(newest)'
  <2>1. /\ cache' \in [Replica -> 0..newest] /\ rcache' \in {Missing} \cup 0..newest
        /\ get' \in [Saver -> GetOf(newest)]
    BY <1>5, AnswersTyped DEF Fetch
  <2>2. /\ save' \in [Saver -> SaveOf(newest)] /\ key' \in [Agent -> 0..newest]
        /\ lapses' \subseteq Lapse
    BY <1>1, <1>4, <1>5, DoneTyped DEF Fetch, Lapses, Lapse, TypedTo
  <2> QED
    BY <1>1, <1>5, <2>1, <2>2 DEF Fetch, TypedTo, ExecOf, SaveOf, GetOf
<1>6. CASE FetchFails(s)
  <2>1. get' \in [Saver -> GetOf(newest)] /\ reading' \in [Replica -> SUBSET (0..newest)]
    BY <1>6, GivesTyped DEF FetchFails
  <2>2. rcache' \in {Missing} \cup 0..newest
    BY <1>1, <1>6 DEF FetchFails
  <2> QED
    BY <1>1, <1>4, <1>6, <2>1, <2>2 DEF FetchFails, TypedTo, ExecOf, SaveOf, GetOf
<1>10. ASSUME NEW r \in Replica, Asks(s, r) PROVE newest' = newest /\ TypedTo(newest)'
  <2>1. [at |-> r, token |-> db] \in GetOf(newest)
    BY <1>1 DEF TypedTo, GetOf
  <2>2. get' \in [Saver -> GetOf(newest)]
    BY <1>1, <1>10, <2>1 DEF Asks, TypedTo
  <2>3. behind' \subseteq Replica
    BY <1>1, <1>10 DEF Asks, Reads, TypedTo
  <2> QED
    BY <1>1, <1>10, <2>2, <2>3 DEF Asks, TypedTo, ExecOf, SaveOf, GetOf
<1>7. ASSUME NEW r \in Replica, Post(s, r) PROVE newest' = newest /\ TypedTo(newest)'
  <2>1. save[s].token \in 1..newest
    BY <1>1, <1>3, <1>7 DEF Post, Locals, SaveOf
  <2>2. [save[s] EXCEPT !.phase = "verify", !.at = r] \in SaveOf(newest)
    BY <1>3 DEF SaveOf
  <2> QED
    BY <1>1, <1>7, <2>1, <2>2 DEF Post, TypedTo, ExecOf, SaveOf, GetOf
<1>8. CASE Verify(s)
  <2>1. /\ save' \in [Saver -> SaveOf(newest)] /\ key' \in [Agent -> 0..newest]
        /\ lapses' \subseteq Lapse /\ rcache' \in {Missing} \cup 0..newest
    BY <1>1, <1>8, DoneTyped, RetryTyped DEF Verify, TypedTo
  <2> QED
    BY <1>1, <1>8, <2>1 DEF Verify, TypedTo, ExecOf, SaveOf, GetOf, api
<1>9. CASE PostLost(s)
  BY <1>1, <1>9, RetryTyped DEF PostLost, TypedTo, ExecOf, SaveOf, GetOf, api
<1> QED
  BY <1>5, <1>6, <1>7, <1>8, <1>9, <1>10 DEF SaveStep

LEMMA StoreTypes ==
    ASSUME TypeOK, Locals,
           \/ \E w \in inserts : Insert(w[1], w[2]) \/ \E b \in BOOLEAN : InsertFails(w[1], w[2], b)
           \/ \E r \in Replica : Notified(r) \/ NoticeLost(r) \/ ReplicaRestarts(r)
           \/ \E r \in Replica : \E token \in reading[r] : Loaded(r, token)
           \/ \E replaced \in BOOLEAN : RunnerRestarts(replaced)
    PROVE  TypeOK'
<1>1. newest \in Nat /\ TypedTo(newest)
  BY TypedNow
<1>2. SUFFICES newest' = newest /\ TypedTo(newest)'
  BY <1>1, TypedNext
<1>3. ASSUME NEW w \in inserts, Insert(w[1], w[2]) \/ \E b \in BOOLEAN : InsertFails(w[1], w[2], b)
      PROVE  newest' = newest /\ TypedTo(newest)'
  <2>1. w[2] \in 0..newest
    BY <1>1 DEF TypedTo
  <2>2. /\ db' \in 0..newest /\ notices' \subseteq Replica /\ inserts' \subseteq inserts
        /\ lapses' \subseteq Lapse /\ behind' \subseteq Replica
    BY <1>1, <1>3, <2>1 DEF Insert, InsertFails, Lapses, Lapse, TypedTo
  <2> QED
    BY <1>1, <1>3, <2>2 DEF Insert, InsertFails, runner, TypedTo, ExecOf, SaveOf, GetOf
<1>4. ASSUME NEW r \in Replica, Notified(r) \/ NoticeLost(r)
      PROVE  newest' = newest /\ TypedTo(newest)'
  <2>1. CASE Notified(r)
    <3>1. reading' \in [Replica -> SUBSET (0..newest)] /\ behind' \subseteq Replica
      BY <1>1, <2>1 DEF Notified, Reads, TypedTo
    <3> QED
      BY <1>1, <2>1, <3>1 DEF Notified, runner, TypedTo, ExecOf, SaveOf, GetOf
  <2>2. CASE NoticeLost(r)
    BY <1>1, <2>2 DEF NoticeLost, Lapses, Lapse, runner, TypedTo, ExecOf, SaveOf, GetOf
  <2> QED
    BY <1>4, <2>1, <2>2
<1>5. ASSUME NEW r \in Replica, ReplicaRestarts(r)
      PROVE  newest' = newest /\ TypedTo(newest)'
  <2>1. [at |-> r, token |-> 0] \in GetOf(newest)
    BY <1>1 DEF GetOf
  <2>2. get' \in [Saver -> GetOf(newest)]
    BY <1>1, <1>5, <2>1 DEF ReplicaRestarts, TypedTo
  <2>3. cache' \in [Replica -> 0..newest]
    BY <1>1, <1>5 DEF ReplicaRestarts, TypedTo
  <2> QED
    BY <1>1, <1>5, <2>2, <2>3 DEF ReplicaRestarts, TypedTo, ExecOf, SaveOf, GetOf
<1>6. ASSUME NEW r \in Replica, NEW token \in reading[r], Loaded(r, token)
      PROVE  newest' = newest /\ TypedTo(newest)'
  BY <1>1, <1>6 DEF Loaded, Lapses, Lapse, runner, TypedTo, ExecOf, SaveOf, GetOf
<1>7. ASSUME NEW replaced \in BOOLEAN, RunnerRestarts(replaced)
      PROVE  newest' = newest /\ TypedTo(newest)'
  <2>1. NoExec \in ExecOf(newest) /\ NoSave \in SaveOf(newest) /\ NoGet \in GetOf(newest)
    BY <1>1, NoGetTyped, ConstantsAssumption DEF ConstantsAssumption, NoExec, NoSave, ExecOf, SaveOf
  <2>2. \A s \in Saver : get[s].token \in 0..newest
    BY <1>1 DEF TypedTo, GetOf
  <2>3. reading' \in [Replica -> SUBSET (0..newest)]
    BY <1>1, <1>7, <2>2 DEF RunnerRestarts, TypedTo
  <2>4. file' \in [Agent -> 0..newest] /\ term' \in [Agent -> Terminals] /\ key' \in [Agent -> 0..newest]
    BY <1>1, <1>7 DEF RunnerRestarts, TypedTo, Terminals
  <2>5. /\ exec' \in [Agent -> ExecOf(newest)] /\ save' \in [Saver -> SaveOf(newest)]
        /\ get' \in [Saver -> GetOf(newest)]
    BY <1>7, <2>1 DEF RunnerRestarts
  <2>6. /\ rcache' \in {Missing} \cup 0..newest /\ lapses' \subseteq Lapse
        /\ UNCHANGED <<newest, db, cache, notices, inserts, behind>>
    BY <1>1, <1>7 DEF RunnerRestarts, Lapses, Lapse, TypedTo
  <2> QED
    BY <1>1, <2>3, <2>4, <2>5, <2>6 DEF TypedTo, ExecOf, SaveOf, GetOf
<1> QED
  BY <1>3, <1>4, <1>5, <1>6, <1>7

LEMMA ExecTypes ==
    ASSUME TypeOK, Locals, NEW a \in Agent,
           ExecStep(a) \/ LoadFails(a) \/ WriteFails(a) \/ RefreshLost(a) \/ StartFails(a)
    PROVE  TypeOK'
<1>1. newest \in Nat /\ TypedTo(newest)
  BY TypedNow
<1>2. TypedTo(newest + 1) /\ newest + 1 \in Nat
  BY Grows
<1>3. ASSUME newest' = newest, TypedTo(newest)' PROVE TypeOK'
  BY <1>1, <1>3, TypedNext
<1>4. exec \in [Agent -> ExecOf(newest)] /\ exec[a] \in ExecOf(newest) /\ file[a] \in 0..newest
  BY <1>1 DEF TypedTo
<1>5. CASE LoadCached(a)
  <2>1. rcache \in 0..newest
    BY <1>1, <1>5 DEF LoadCached, TypedTo
  <2> QED
    BY <1>1, <1>3, <1>5, <2>1, HydrateTyped DEF LoadCached, TypedTo, ExecOf, SaveOf, GetOf, api
<1>6. ASSUME NEW r \in Replica, NEW token \in {cache[r], get[<<"exec", a>>].token}, Load(a, r, token)
      PROVE  TypeOK'
  <2>1. /\ token \in 0..newest
        /\ cache' \in [Replica -> 0..newest] /\ rcache' \in {Missing} \cup 0..newest
        /\ get' \in [Saver -> GetOf(newest)]
    BY <1>6, AnswersTyped, Savers DEF Load
  <2>2. exec' \in [Agent -> ExecOf(newest)] /\ save' \in [Saver -> SaveOf(newest)]
    BY <1>6, <2>1, HydrateTyped DEF Load
  <2> QED
    BY <1>1, <1>3, <1>6, <2>1, <2>2 DEF Load, TypedTo, ExecOf, SaveOf, GetOf
<1>14. CASE LoadFails(a)
  <2>1. exec' \in [Agent -> ExecOf(newest)]
    BY <1>1, <1>4, <1>14, GoesTyped DEF LoadFails
  <2>2. get' \in [Saver -> GetOf(newest)] /\ reading' \in [Replica -> SUBSET (0..newest)]
    BY <1>14, GivesTyped, Savers DEF LoadFails
  <2>3. rcache' \in {Missing} \cup 0..newest
    BY <1>1, <1>14 DEF LoadFails, TypedTo
  <2> QED
    BY <1>1, <1>3, <1>14, <2>1, <2>2, <2>3 DEF LoadFails, TypedTo, ExecOf, SaveOf, GetOf
<1>7. CASE WriteFails(a) \/ Refused(a)
  <2>1. exec' \in [Agent -> ExecOf(newest)]
    BY <1>1, <1>4, <1>7, GoesTyped DEF WriteFails, Refused
  <2> QED
    BY <1>1, <1>3, <1>7, <2>1 DEF WriteFails, Refused, TypedTo, ExecOf, SaveOf, GetOf, api
<1>15. ASSUME NEW phase \in Terminals, Opened(a, phase) PROVE TypeOK'
  <2>1. NoExec \in ExecOf(newest)
    BY <1>1 DEF ExecOf, NoExec
  <2>2. /\ exec' \in [Agent -> ExecOf(newest)] /\ term' \in [Agent -> Terminals]
        /\ key' \in [Agent -> 0..newest] /\ lapses' \subseteq Lapse
    BY <1>1, <1>15, <2>1 DEF Opened, Lapses, Lapse, TypedTo
  <2> QED
    BY <1>1, <1>3, <1>15, <2>2 DEF Opened, TypedTo, ExecOf, SaveOf, GetOf, api
<1>8. CASE Write(a)
  <2>1. exec' \in [Agent -> ExecOf(newest)]
    BY <1>1, <1>4, <1>8, GoesTyped DEF Write
  <2>2. file' \in [Agent -> 0..newest] /\ lapses' \subseteq Lapse
    BY <1>1, <1>4, <1>8 DEF Write, Writes, Lapses, Lapse, TypedTo, ExecOf
  <2> QED
    BY <1>1, <1>3, <1>8, <2>1, <2>2 DEF Write, TypedTo, ExecOf, SaveOf, GetOf, api
<1>9. ASSUME NEW expired \in BOOLEAN, Expire(a, expired) PROVE TypeOK'
  <2>1. \A phase \in {"refresh", "ready"} :
          [exec[a] EXCEPT !.phase = phase, !.blob = file[a]] \in ExecOf(newest)
    BY <1>4 DEF ExecOf
  <2>2. exec' \in [Agent -> ExecOf(newest)]
    BY <1>4, <1>9, <2>1 DEF Expire
  <2> QED
    BY <1>1, <1>3, <1>9, <2>2 DEF Expire, TypedTo, ExecOf, SaveOf, GetOf, api
<1>10. CASE Refreshed(a)
  <2>1. exec' \in [Agent -> ExecOf(newest + 1)]
    BY <1>2, <1>10, GoesTyped DEF Refreshed, TypedTo
  <2>2. file' \in [Agent -> 0..(newest + 1)]
    BY <1>2, <1>10 DEF Refreshed, Writes, TypedTo
  <2>3. save' \in [Saver -> SaveOf(newest + 1)]
    BY <1>2, <1>10, BeginTyped DEF Refreshed, TypedTo
  <2>4. newest' = newest + 1 /\ TypedTo(newest)'
    BY <1>2, <1>10, <2>1, <2>2, <2>3 DEF Refreshed, TypedTo, ExecOf, SaveOf, GetOf, api
  <2> QED
    BY <1>2, <2>4, TypedNext
<1>11. CASE RefreshLost(a)
  <2>1. exec' \in [Agent -> ExecOf(newest + 1)]
    BY <1>2, <1>11, GoesTyped DEF RefreshLost, TypedTo
  <2>2. newest' = newest + 1 /\ TypedTo(newest)'
    BY <1>2, <1>11, <2>1 DEF RefreshLost, Lapses, Lapse, TypedTo, ExecOf, SaveOf, GetOf, api
  <2> QED
    BY <1>2, <2>2, TypedNext
<1>12. CASE Ready(a)
  <2>1. [exec[a] EXCEPT !.phase = "run", !.blob = file[a]] \in ExecOf(newest)
    BY <1>4 DEF ExecOf
  <2>2. exec' \in [Agent -> ExecOf(newest)]
    BY <1>4, <1>12, <2>1 DEF Ready
  <2> QED
    BY <1>1, <1>3, <1>12, <2>2 DEF Ready, TypedTo, ExecOf, SaveOf, GetOf, api
<1>13. CASE RunEnds(a)
  <2>1. NoExec \in ExecOf(newest)
    BY <1>1 DEF ExecOf, NoExec
  <2>2. exec' \in [Agent -> ExecOf(newest)]
    BY <1>4, <1>13, <2>1 DEF RunEnds
  <2>3. save' \in [Saver -> SaveOf(newest)]
    BY <1>1, <1>4, <1>13, BeginTyped DEF RunEnds, TypedTo
  <2> QED
    BY <1>1, <1>3, <1>13, <2>2, <2>3 DEF RunEnds, TypedTo, ExecOf, SaveOf, GetOf, api
<1> QED
  BY <1>5, <1>6, <1>7, <1>8, <1>9, <1>10, <1>11, <1>12, <1>13, <1>14, <1>15
     DEF ExecStep, ReadyTerminal, StartFails, Terminals

LEMMA TerminalTypes ==
    ASSUME TypeOK, Locals, NEW a \in Agent,
           \/ TerminalStep(a) \/ Left(a)
           \/ \E kind \in {"task", "terminal"} : Open(a, kind)
    PROVE  TypeOK'
<1>1. newest \in Nat /\ TypedTo(newest)
  BY TypedNow
<1>2. TypedTo(newest + 1) /\ newest + 1 \in Nat
  BY Grows
<1>3. ASSUME newest' = newest, TypedTo(newest)' PROVE TypeOK'
  BY <1>1, <1>3, TypedNext
<1>4. file[a] \in 0..newest
  BY <1>1 DEF TypedTo
<1>5. CASE Baseline(a)
  BY <1>1, <1>3, <1>4, <1>5 DEF Baseline, Terminals, Watching, TypedTo, ExecOf, SaveOf, GetOf, api
<1>6. CASE Poll(a) \/ Close(a) \/ LooksAway(a)
  <2>1. save' \in [Saver -> SaveOf(newest)]
    BY <1>1, <1>4, <1>6, BeginTyped DEF Poll, Close, LooksAway, Polls, TypedTo
  <2>2. term' \in [Agent -> Terminals]
    BY <1>1, <1>6 DEF Poll, Close, LooksAway, Terminals, Watching, TypedTo
  <2>3. UNCHANGED <<newest, api, rcache, get, file, exec, key, lapses>>
    BY <1>6 DEF Poll, Close, LooksAway, Polls
  <2> QED
    BY <1>1, <1>3, <2>1, <2>2, <2>3 DEF TypedTo, ExecOf, SaveOf, GetOf, api
<1>7. CASE Killed(a) \/ Left(a) \/ Survives(a)
  <2>1. /\ term' \in [Agent -> Terminals] /\ key' \in [Agent -> 0..newest]
        /\ lapses' \subseteq Lapse
    <3>1. ASSUME NEW phase \in {"off", "left"}, Ends(a, phase)
          PROVE  /\ term' \in [Agent -> Terminals] /\ key' \in [Agent -> 0..newest]
                 /\ lapses' \subseteq Lapse
      <4>1. term' \in [Agent -> Terminals] /\ key' \in [Agent -> 0..newest]
        BY <1>1, <3>1 DEF Ends, Terminals, TypedTo
      <4>2. lapses' \subseteq Lapse
        BY <1>1, <3>1 DEF Ends, Lapses, Lapse, TypedTo
      <4> QED
        BY <4>1, <4>2
    <3>2. CASE Survives(a)
      BY <1>1, <3>2 DEF Survives, Terminals, Watching, TypedTo
    <3> QED
      BY <1>7, <3>1, <3>2 DEF Killed, Left
  <2> QED
    BY <1>1, <1>3, <1>7, <2>1 DEF Killed, Left, Ends, Survives, TypedTo, ExecOf, SaveOf, GetOf, api
<1>8. CASE CliRotates(a)
  <2>1. newest' = newest + 1 /\ TypedTo(newest)'
    BY <1>2, <1>8 DEF CliRotates, Writes, Lapses, Lapse, TypedTo, ExecOf, SaveOf, GetOf, api
  <2> QED
    BY <1>2, <2>1, TypedNext
<1>9. ASSUME NEW kind \in {"task", "terminal"}, Open(a, kind) PROVE TypeOK'
  <2>1. [phase |-> "load", kind |-> kind, blob |-> 0] \in ExecOf(newest)
    BY <1>1 DEF ExecOf
  <2>2. exec' \in [Agent -> ExecOf(newest)]
    BY <1>1, <1>9, <2>1 DEF Open, TypedTo
  <2> QED
    BY <1>1, <1>3, <1>9, <2>2 DEF Open, TypedTo, ExecOf, SaveOf, GetOf, api
<1> QED
  BY <1>5, <1>6, <1>7, <1>8, <1>9 DEF TerminalStep

LEMMA LoginTypes ==
    ASSUME TypeOK, Login \/ \E a \in Agent : AgentLogin(a)
    PROVE  TypeOK'
<1>1. TypedTo(newest + 1) /\ newest + 1 \in Nat
  BY Grows
<1>2. save' \in [Saver -> SaveOf(newest + 1)]
  BY <1>1, BeginTyped DEF Login, AgentLogin, Logs, TypedTo
<1>3. file' \in [Agent -> 0..(newest + 1)]
  BY <1>1 DEF Login, AgentLogin, Writes, TypedTo
<1>4. newest' = newest + 1 /\ TypedTo(newest)'
  BY <1>1, <1>2, <1>3 DEF Login, AgentLogin, Logs, TypedTo, ExecOf, SaveOf, GetOf, api
<1> QED
  BY <1>1, <1>4, TypedNext

LEMMA TypeStep ==
    ASSUME TypeOK, Locals, [Next]_vars
    PROVE  TypeOK'
<1>1. CASE UNCHANGED vars
  <2>1. newest' = newest /\ TypedTo(newest)'
    BY <1>1, TypedNow DEF vars, api, runner, TypedTo, ExecOf, SaveOf, GetOf
  <2> QED
    BY <2>1, TypedNow, TypedNext
<1>2. CASE Next
  <2>1. CASE Routine
    BY <2>1, SaveTypes, StoreTypes, ExecTypes, TerminalTypes DEF Routine
  <2>2. CASE Request
    BY <2>2, LoginTypes, TerminalTypes DEF Request
  <2>3. CASE Fault
    BY <2>3, SaveTypes, StoreTypes, ExecTypes, TerminalTypes DEF Fault
  <2> QED
    BY <1>2, <2>1, <2>2, <2>3 DEF Next
<1> QED
  BY <1>1, <1>2

-----------------------------------------------------------------------------
(* What the steps do to the saves.                                         *)

(* A step of a save goes on with the same token, or ends it: because the    *)
(* row has the token or a newer one, because it gives up and its watcher    *)
(* will try again, or because of a loss.                                   *)
Ended(s) ==
    \/ /\ lapses' = {} => db >= save[s].token
       /\ key' = IF s[1] = "watch" THEN [key EXCEPT ![s[2]] = save[s].token] ELSE key
    \/ key' = key /\ (s[1] = "watch" \/ lapses' # {})

Moves(s) ==
    \/ \E r \in Replica :
         Post(s, r) \/ \E token \in {cache[r], get[s].token} : Fetch(s, r, token)
    \/ Verify(s) \/ FetchFails(s) \/ PostLost(s)

LEMMA SaveEffect ==
    ASSUME TypeOK, Locals, NEW s \in Saver, Moves(s)
    PROVE  /\ UNCHANGED <<newest, db, file, exec, term>>
           /\ save[s].phase # "none"
           /\ \A q \in Saver : q # s => save'[q] = save[q]
           /\ \/ /\ save'[s].phase # "none" /\ save'[s].token = save[s].token
                 /\ key' = key
              \/ save'[s] = NoSave /\ Ended(s)
           /\ lapses \subseteq lapses'
<1>1. save \in [Saver -> SaveOf(newest)] /\ newest \in Nat /\ db \in 0..newest
  BY TypedNow DEF TypedTo
<1>2. save[s].token \in 0..newest
  BY <1>1 DEF SaveOf
<1>3. ASSUME Retry(s), db' = db
      PROVE  /\ \A q \in Saver : q # s => save'[q] = save[q]
             /\ \/ /\ save'[s].phase # "none" /\ save'[s].token = save[s].token
                   /\ key' = key
                \/ save'[s] = NoSave /\ Ended(s)
             /\ lapses \subseteq lapses'
  <2>1. CASE save[s].tries + 1 < MaxAttempts
    BY <1>1, <1>3, <2>1 DEF Retry, SaveOf
  <2>2. CASE ~(save[s].tries + 1 < MaxAttempts)
    BY <1>1, <1>3, <2>2 DEF Retry, Done, Lapses, Ended
  <2> QED
    BY <2>1, <2>2
<1>4. ASSUME NEW r \in Replica, NEW token \in {cache[r], get[s].token}, Fetch(s, r, token)
      PROVE  /\ UNCHANGED <<newest, db, file, exec, term>> /\ save[s].phase # "none"
             /\ \A q \in Saver : q # s => save'[q] = save[q]
             /\ \/ /\ save'[s].phase # "none" /\ save'[s].token = save[s].token
                   /\ key' = key
                \/ save'[s] = NoSave /\ Ended(s)
             /\ lapses \subseteq lapses'
  <2>1. CASE token >= save[s].token
    <3>1. Done(s, TRUE) /\ Lapses("unstored", db < save[s].token)
      BY <1>4, <2>1 DEF Fetch
    <3>2. lapses' = {} => db >= save[s].token
      BY <1>1, <1>2, <3>1 DEF Lapses
    <3> QED
      BY <1>1, <1>4, <3>1, <3>2 DEF Fetch, Done, Lapses, Ended
  <2>2. CASE ~(token >= save[s].token)
    BY <1>1, <1>4, <2>2 DEF Fetch, SaveOf
  <2> QED
    BY <2>1, <2>2
<1>5. CASE FetchFails(s)
  BY <1>1, <1>5 DEF FetchFails, api, SaveOf
<1>6. ASSUME NEW r \in Replica, Post(s, r)
      PROVE  /\ UNCHANGED <<newest, db, file, exec, term>> /\ save[s].phase # "none"
             /\ \A q \in Saver : q # s => save'[q] = save[q]
             /\ \/ /\ save'[s].phase # "none" /\ save'[s].token = save[s].token
                   /\ key' = key
                \/ save'[s] = NoSave /\ Ended(s)
             /\ lapses \subseteq lapses'
  BY <1>1, <1>6 DEF Post, SaveOf
<1>7. CASE Verify(s)
  <2>1. CASE db = save[s].token
    BY <1>1, <1>7, <2>1 DEF Verify, Done, Ended, api
  <2>2. CASE db # save[s].token
    BY <1>3, <1>7, <2>2 DEF Verify, api
  <2> QED
    BY <2>1, <2>2
<1>8. CASE PostLost(s)
  BY <1>3, <1>8 DEF PostLost, api
<1> QED
  BY <1>4, <1>5, <1>6, <1>7, <1>8 DEF SaveStep, Moves

(* A save begins with the token of a file. *)
LEMMA BeginEffect ==
    ASSUME TypeOK, NEW kind \in {"exec", "watch"}, NEW a \in Agent, NEW token, NEW phase,
           Begin(kind, a, token, phase)
    PROVE  /\ save'[<<kind, a>>].phase = phase /\ save'[<<kind, a>>].token = token
           /\ \A q \in Saver : q # <<kind, a>> => save'[q] = save[q]
BY Savers, TypedNow DEF Begin, TypedTo

LEMMA LoginEffect ==
    ASSUME TypeOK, Logs
    PROVE  /\ save'[<<"login", None>>].token = newest + 1
           /\ save'[<<"login", None>>].phase = "post"
           /\ \A q \in Saver : q # <<"login", None>> => save'[q] = save[q]
BY Savers, TypedNow DEF Logs, Begin, TypedTo

LEMMA LocalsStep ==
    ASSUME TypeOK, Locals, [Next]_vars
    PROVE  Locals'
<1> DEFINE Knows(a) ==
             /\ exec'[a].phase \in {"load", "write", "refresh", "run"} =>
                  save'[<<"exec", a>>].phase = "none"
             /\ exec'[a].phase = "write" => exec'[a].blob > 0
             /\ exec'[a].phase # "idle" /\ exec'[a].kind = "terminal" =>
                  term'[a] \in {"off", "left", "kept", "leaving"}
             /\ key'[a] > 0 => file'[a] > 0
             /\ exec'[a].phase = "run" /\ exec'[a].blob > 0 => file'[a] > 0
             /\ save'[<<"watch", a>>].phase # "none" =>
                  file'[a] > 0 /\ term'[a] \in Watching
           Tokens == \A s \in Saver : save'[s].phase # "none" => save'[s].token > 0
<1>1. ASSUME \A a \in Agent : Knows(a), Tokens PROVE Locals'
  BY <1>1 DEF Locals, Free, At
<1>2. ASSUME NEW a \in Agent, exec'[a] = exec[a], file'[a] = file[a], key'[a] = key[a],
             term'[a] = term[a], save'[<<"exec", a>>] = save[<<"exec", a>>],
             save'[<<"watch", a>>] = save[<<"watch", a>>]
      PROVE  Knows(a)
  BY <1>2 DEF Locals, Free, At
<1>3. ASSUME save' = save PROVE Tokens
  BY <1>3 DEF Locals
<1>4. /\ newest \in Nat /\ save \in [Saver -> SaveOf(newest)]
      /\ exec \in [Agent -> ExecOf(newest)] /\ file \in [Agent -> 0..newest]
      /\ key \in [Agent -> 0..newest] /\ term \in [Agent -> Terminals]
  BY TypedNow DEF TypedTo
<1>5. ASSUME NEW s \in Saver, Moves(s)
      PROVE  Locals'
  <2>1. /\ UNCHANGED <<file, exec, term>>
        /\ save[s].phase # "none"
        /\ \A q \in Saver : q # s => save'[q] = save[q]
        /\ \/ save'[s].token = save[s].token /\ key' = key
           \/ save'[s] = NoSave /\ Ended(s)
    BY <1>5, SaveEffect
  <2>2. save'[s].phase # "none" => save'[s].token = save[s].token
    BY <2>1 DEF NoSave
  <2>3. Tokens
    BY <2>1, <2>2 DEF Locals
  <2>4. ASSUME NEW a \in Agent PROVE key'[a] = key[a] \/ save[<<"watch", a>>].phase # "none"
    BY <1>4, <2>1, Savers DEF Ended
  <2>5. ASSUME NEW a \in Agent, NEW kind \in {"exec", "watch"}
        PROVE  save'[<<kind, a>>].phase # "none" => save[<<kind, a>>].phase # "none"
    BY <2>1, Savers
  <2>6. ASSUME NEW a \in Agent PROVE Knows(a)
    BY <2>1, <2>4, <2>5 DEF Locals, Free, At
  <2> QED
    BY <1>1, <2>3, <2>6
<1>6. ASSUME UNCHANGED <<file, exec, term, key, save>> PROVE Locals'
  BY <1>1, <1>2, <1>3, <1>6
<1>7. ASSUME NEW replaced \in BOOLEAN, RunnerRestarts(replaced) PROVE Locals'
  <2>1. /\ \A a \in Agent : exec'[a].phase = "idle" /\ key'[a] = 0
        /\ \A s \in Saver : save'[s].phase = "none"
    BY <1>7 DEF RunnerRestarts, NoExec, NoSave
  <2> QED
    BY <1>1, <2>1, Savers
<1>8. ASSUME NEW a \in Agent, NEW blob \in 0..newest, At(a, "load"), Hydrate(a, blob),
             UNCHANGED <<file, term, key>>
      PROVE  Locals'
  <2>1. /\ exec'[a].blob = blob /\ exec'[a].kind = exec[a].kind
        /\ exec'[a].phase = IF blob > file[a] THEN "write" ELSE "expire"
        /\ \A b \in Agent : b # a => exec'[b] = exec[b]
    BY <1>4, <1>8 DEF Hydrate, ExecOf
  <2>2. CASE blob \in 1..(file[a] - 1)
    <3>1. /\ save'[<<"exec", a>>].token = file[a]
          /\ \A q \in Saver : q # <<"exec", a>> => save'[q] = save[q]
      BY <1>8, <2>2, BeginEffect DEF Hydrate
    <3>2. file[a] > 0 /\ exec'[a].phase = "expire"
      BY <1>4, <2>1, <2>2
    <3>3. Tokens
      BY <3>1, <3>2 DEF Locals
    <3>4. Knows(a)
      BY <1>8, <2>1, <3>1, <3>2, Savers DEF Locals, Free, At
    <3> QED
      BY <1>1, <1>2, <1>8, <2>1, <3>1, <3>3, <3>4, Savers
  <2>3. CASE blob \notin 1..(file[a] - 1)
    <3>1. save' = save
      BY <1>8, <2>3 DEF Hydrate
    <3>2. Knows(a)
      BY <1>4, <1>8, <2>1, <3>1 DEF Locals, Free, At
    <3> QED
      BY <1>1, <1>2, <1>3, <1>8, <2>1, <3>1, <3>2
  <2> QED
    BY <2>2, <2>3
<1>9. ASSUME NEW a \in Agent,
             \/ LoadCached(a)
             \/ \E r \in Replica : \E token \in {cache[r], get[<<"exec", a>>].token} : Load(a, r, token)
      PROVE  Locals'
  <2>1. CASE LoadCached(a)
    <3>1. rcache \in 0..newest
      BY <2>1, TypedNow DEF LoadCached, TypedTo
    <3> QED
      BY <1>8, <2>1, <3>1 DEF LoadCached
  <2>2. ASSUME NEW r \in Replica, NEW token \in {cache[r], get[<<"exec", a>>].token}, Load(a, r, token)
        PROVE  Locals'
    BY <1>8, <2>2, AnswersTyped, Savers DEF Load
  <2> QED
    BY <1>9, <2>1, <2>2
(* An execution moves on, and begins no save. *)
<1>10. ASSUME NEW a \in Agent, save' = save, UNCHANGED <<term, key>>,
              \A b \in Agent : b # a => exec'[b] = exec[b] /\ file'[b] = file[b],
              file'[a] = file[a] \/ file'[a] > 0,
              ~At(a, "idle"), exec'[a].kind = exec[a].kind \/ exec'[a].phase = "idle",
              \/ exec'[a].phase \in {"idle", "expire", "ready"}
              \/ Free("exec", a) /\ exec'[a].phase \in {"load", "refresh"}
              \/ Free("exec", a) /\ exec'[a].phase = "run" /\ exec'[a].blob = file'[a]
       PROVE  Locals'
  <2>1. Knows(a)
    BY <1>10 DEF Locals, Free, At
  <2> QED
    BY <1>1, <1>2, <1>3, <1>10, <2>1
<1>11. ASSUME NEW a \in Agent, LoadFails(a) \/ WriteFails(a) \/ Refused(a) \/ RefreshLost(a)
       PROVE  Locals'
  BY <1>4, <1>10, <1>11, ZenonT(80) DEF LoadFails, WriteFails, Refused, RefreshLost, Goes, Writes, ExecOf, At
<1>12. ASSUME NEW a \in Agent, Write(a) PROVE Locals'
  BY <1>4, <1>10, <1>12 DEF Write, Goes, Writes, ExecOf, Locals, At
<1>13. ASSUME NEW a \in Agent, NEW expired \in BOOLEAN, Expire(a, expired) PROVE Locals'
  BY <1>4, <1>10, <1>13 DEF Expire, ExecOf, At
<1>14. ASSUME NEW a \in Agent, Ready(a) PROVE Locals'
  BY <1>4, <1>10, <1>14 DEF Ready, ExecOf, At
<1>29. ASSUME NEW a \in Agent, NEW phase, Opened(a, phase) PROVE Locals'
  <2>1. /\ exec'[a] = NoExec /\ key'[a] = 0 /\ Free("watch", a) /\ UNCHANGED <<file, save>>
        /\ \A b \in Agent : b # a => exec'[b] = exec[b] /\ term'[b] = term[b] /\ key'[b] = key[b]
    BY <1>4, <1>29 DEF Opened
  <2>2. exec'[a].phase = "idle"
    BY <2>1 DEF NoExec
  <2>3. Knows(a)
    BY <2>1, <2>2 DEF Locals, Free
  <2> QED
    BY <1>1, <1>2, <1>3, <2>1, <2>3
<1>15. ASSUME NEW a \in Agent, NEW kind \in {"exec", "watch"}, Begin(kind, a, file[a], "fetch"),
              file[a] > 0, UNCHANGED <<file, key>>,
              \A b \in Agent : b # a => exec'[b] = exec[b] /\ term'[b] = term[b],
              IF kind = "exec" THEN exec'[a].phase = "idle" /\ term'[a] = term[a]
              ELSE /\ exec' = exec /\ term[a] \in {"on", "kept"} /\ term'[a] \in Watching
                   /\ term[a] = "kept" => term'[a] \in {"kept", "leaving"}
       PROVE  Locals'
  <2>1. /\ save'[<<kind, a>>].token = file[a]
        /\ \A q \in Saver : q # <<kind, a>> => save'[q] = save[q]
    BY <1>15, BeginEffect
  <2>2. Tokens
    BY <1>15, <2>1 DEF Locals
  <2>3. Knows(a)
    <3>1. CASE kind = "exec"
      BY <1>15, <2>1, <3>1, Savers DEF Locals, Free, At
    <3>2. CASE kind = "watch"
      BY <1>15, <2>1, <3>2, Savers DEF Locals, Free, At
    <3> QED
      BY <3>1, <3>2
  <2>4. ASSUME NEW b \in Agent, b # a PROVE Knows(b)
    BY <1>2, <1>15, <2>1, <2>4, Savers
  <2> QED
    BY <1>1, <2>2, <2>3, <2>4
<1>16. ASSUME NEW a \in Agent, RunEnds(a) PROVE Locals'
  <2>1. CASE ExecSees(a)
    <3>1. file[a] > 0
      BY <1>4, <2>1 DEF ExecSees, Locals, ExecOf
    <3> QED
      BY <1>4, <1>15, <1>16, <2>1, <3>1 DEF RunEnds, NoExec
  <2>2. CASE ~ExecSees(a)
    BY <1>4, <1>10, <1>16, <2>2 DEF RunEnds, NoExec, At
  <2> QED
    BY <2>1, <2>2
<1>17. ASSUME NEW a \in Agent, Refreshed(a) PROVE Locals'
  <2>1. /\ save'[<<"exec", a>>].token = newest + 1
        /\ \A q \in Saver : q # <<"exec", a>> => save'[q] = save[q]
    BY <1>17, BeginEffect DEF Refreshed
  <2>2. Tokens
    BY <1>4, <2>1 DEF Locals
  <2>3. /\ exec'[a].phase = "ready" /\ exec'[a].kind = exec[a].kind /\ exec[a].phase = "refresh"
        /\ file'[a] = newest + 1
        /\ \A b \in Agent : b # a => exec'[b] = exec[b] /\ file'[b] = file[b]
        /\ UNCHANGED <<term, key>>
    BY <1>4, <1>17 DEF Refreshed, Goes, Writes, ExecOf, At
  <2>4. Knows(a)
    BY <1>4, <2>1, <2>3, Savers DEF Locals, Free, At
  <2>5. ASSUME NEW b \in Agent, b # a PROVE Knows(b)
    BY <1>2, <2>1, <2>3, <2>5, Savers
  <2> QED
    BY <1>1, <2>2, <2>4, <2>5
<1>18. ASSUME NEW a \in Agent, Poll(a) \/ Close(a) \/ LooksAway(a) PROVE Locals'
  <2>1. /\ term[a] \in {"on", "kept"} /\ Free("watch", a) /\ term'[a] \in Watching
        /\ term[a] = "kept" => term'[a] \in {"kept", "leaving"}
        /\ \A b \in Agent : b # a => term'[b] = term[b]
        /\ UNCHANGED <<file, key, exec>>
    BY <1>4, <1>18 DEF Poll, Close, LooksAway, Polls, Watching
  <2>2. CASE WatchSees(a)
    <3>1. file[a] > 0
      BY <1>4, <2>2 DEF WatchSees, Locals
    <3>2. Begin("watch", a, file[a], "fetch")
      BY <1>18, <2>2 DEF Poll, Close, LooksAway, Polls
    <3> QED
      BY <1>15, <2>1, <3>1, <3>2
  <2>3. CASE ~WatchSees(a)
    <3>1. save' = save
      BY <1>18, <2>3 DEF Poll, Close, LooksAway, Polls
    <3>2. Knows(a)
      BY <2>1, <3>1 DEF Locals, Free, At, Watching
    <3> QED
      BY <1>1, <1>2, <1>3, <2>1, <3>1, <3>2
  <2> QED
    BY <2>2, <2>3
<1>19. ASSUME NEW a \in Agent, Baseline(a) \/ Killed(a) \/ Left(a) \/ Survives(a) PROVE Locals'
  <2>1. /\ UNCHANGED <<file, exec, save>>
        /\ \A b \in Agent : b # a => term'[b] = term[b] /\ key'[b] = key[b]
    BY <1>4, <1>19 DEF Baseline, Killed, Left, Ends, Survives
  <2>2. /\ \/ term[a] = "spawn" /\ term'[a] = "on" /\ key'[a] = file[a]
           \/ term[a] \in {"closing", "leaving"} /\ term'[a] \in {"off", "left"} /\ key'[a] = 0
           \/ term[a] = "closing" /\ term'[a] = "kept" /\ key'[a] = key[a]
        /\ Free("watch", a)
    BY <1>4, <1>19 DEF Baseline, Killed, Left, Ends, Survives, Locals, Free, Watching
  <2>3. Knows(a)
    BY <1>4, <2>1, <2>2 DEF Locals, Free, At
  <2> QED
    BY <1>1, <1>2, <1>3, <2>1, <2>3
<1>20. ASSUME NEW a \in Agent, CliRotates(a) PROVE Locals'
  <2>1. /\ UNCHANGED <<exec, save, term, key>> /\ file'[a] = newest + 1
        /\ \A b \in Agent : b # a => file'[b] = file[b]
    BY <1>4, <1>20 DEF CliRotates, Writes
  <2>2. Knows(a)
    BY <1>4, <2>1 DEF Locals, Free, At
  <2> QED
    BY <1>1, <1>2, <1>3, <2>1, <2>2
<1>21. ASSUME Logs, UNCHANGED <<exec, term, key>>,
              \A a \in Agent : file'[a] = file[a] \/ file'[a] > 0
       PROVE  Locals'
  <2>1. Tokens
    BY <1>4, <1>21, LoginEffect DEF Locals
  <2>2. ASSUME NEW a \in Agent PROVE Knows(a)
    <3>1. save'[<<"exec", a>>] = save[<<"exec", a>>] /\ save'[<<"watch", a>>] = save[<<"watch", a>>]
      BY <1>21, LoginEffect, Savers DEF Saver
    <3> QED
      BY <1>21, <3>1 DEF Locals, Free, At
  <2> QED
    BY <1>1, <2>1, <2>2
<1>22. CASE Login \/ \E a \in Agent : AgentLogin(a)
  BY <1>4, <1>21, <1>22 DEF Login, AgentLogin, Logs, Writes
<1>23. ASSUME NEW a \in Agent, NEW kind \in {"task", "terminal"}, Open(a, kind) PROVE Locals'
  <2>1. /\ UNCHANGED <<file, key, term, save>> /\ Free("exec", a)
        /\ exec'[a] = [phase |-> "load", kind |-> kind, blob |-> 0]
        /\ kind = "terminal" => term[a] \in {"off", "left", "kept", "leaving"}
        /\ \A b \in Agent : b # a => exec'[b] = exec[b]
    BY <1>4, <1>23 DEF Open, Terminals, Watching
  <2>2. Knows(a)
    BY <2>1 DEF Locals, Free
  <2> QED
    BY <1>1, <1>2, <1>3, <2>1, <2>2
<1>24. CASE UNCHANGED vars
  BY <1>6, <1>24 DEF vars, runner
<1>25. CASE \/ \E w \in inserts : Insert(w[1], w[2]) \/ \E b \in BOOLEAN : InsertFails(w[1], w[2], b)
            \/ \E r \in Replica : Notified(r) \/ NoticeLost(r) \/ ReplicaRestarts(r)
            \/ \E r \in Replica : \E token \in reading[r] : Loaded(r, token)
            \/ \E s \in Saver, r \in Replica : Asks(s, r)
  BY <1>6, <1>25 DEF Insert, InsertFails, Notified, NoticeLost, ReplicaRestarts, Loaded, Asks, runner
<1>26. CASE Routine
  BY <1>5, <1>9, <1>12, <1>13, <1>11, <1>14, <1>16, <1>17, <1>18, <1>19, <1>20, <1>25, <1>26, <1>29
     DEF Routine, SaveStep, Moves, ExecStep, ReadyTerminal, TerminalStep
<1>27. CASE Request
  BY <1>22, <1>23, <1>27 DEF Request
<1>28. CASE Fault
  BY <1>5, <1>7, <1>11, <1>19, <1>25, <1>28, <1>29 DEF Fault, Moves, StartFails
<1> QED
  BY <1>24, <1>26, <1>27, <1>28 DEF Next

LEMMA TypeStart ==
    ASSUME Init
    PROVE  TypeOK /\ Locals
<1>1. /\ NoExec \in ExecOf(newest) /\ NoSave \in SaveOf(newest) /\ newest \in Nat
      /\ NoGet \in GetOf(newest)
  BY NoGetTyped, ConstantsAssumption DEF ConstantsAssumption, Init, NoExec, NoSave, ExecOf, SaveOf
<1>2. TypedTo(newest)
  BY <1>1 DEF Init, TypedTo, Lapse, Terminals
<1>3. Locals
  BY Savers DEF Init, Locals, Free, At, NoExec, NoSave
<1> QED
  BY <1>1, <1>2, <1>3, TypedNow

LEMMA LocalsCorrect == Spec => [](TypeOK /\ Locals)
<1>1. Init => TypeOK /\ Locals
  BY TypeStart
<1> QED
  BY <1>1, TypeStep, LocalsStep, PTL DEF Spec

(* Every value stays in its type: tokens are issued by the provider alone,  *)
(* and a save has a token and attempts within the bound.                   *)
THEOREM TypeCorrect == Spec => []TypeOK
BY LocalsCorrect, PTL

-----------------------------------------------------------------------------
(* The token that works.                                                   *)

(* History only grows. *)
LEMMA LapsesGrow ==
    ASSUME TypeOK, Locals, [Next]_vars
    PROVE  lapses \subseteq lapses'
<1>1. ASSUME NEW s \in Saver, Moves(s) \/ \E r \in Replica : Asks(s, r)
      PROVE  lapses \subseteq lapses'
  BY <1>1, SaveEffect DEF Asks
<1>2. ASSUME NEW w \in inserts, Insert(w[1], w[2]) \/ \E b \in BOOLEAN : InsertFails(w[1], w[2], b)
      PROVE  lapses \subseteq lapses'
  BY <1>2 DEF Insert, InsertFails, Lapses
<1>3. ASSUME NEW r \in Replica,
             Notified(r) \/ NoticeLost(r) \/ ReplicaRestarts(r) \/ \E token \in reading[r] : Loaded(r, token)
      PROVE  lapses \subseteq lapses'
  BY <1>3 DEF Notified, NoticeLost, ReplicaRestarts, Loaded
<1>4. ASSUME NEW a \in Agent,
             ExecStep(a) \/ LoadFails(a) \/ WriteFails(a) \/ RefreshLost(a) \/ StartFails(a)
      PROVE  lapses \subseteq lapses'
  BY <1>4 DEF ExecStep, LoadCached, Load, Write, Expire, Refreshed, Refused, Ready, ReadyTerminal,
              RunEnds, LoadFails, WriteFails, RefreshLost, StartFails, Opened, Lapses
<1>5. ASSUME NEW a \in Agent, TerminalStep(a) \/ Left(a) \/ AgentLogin(a)
                              \/ \E kind \in {"task", "terminal"} : Open(a, kind)
      PROVE  lapses \subseteq lapses'
  BY <1>5 DEF TerminalStep, Baseline, Poll, Close, LooksAway, Polls, Killed, Left, Ends, CliRotates,
              Survives, AgentLogin, Logs, Open, Lapses
<1>6. CASE Login \/ (\E replaced \in BOOLEAN : RunnerRestarts(replaced)) \/ UNCHANGED vars
  BY <1>6 DEF Login, Logs, RunnerRestarts, Lapses, vars
<1> QED
  BY <1>1, <1>2, <1>3, <1>4, <1>5, <1>6 DEF Next, Routine, Request, Fault, SaveStep, Moves

LEMMA MirrorStep ==
    ASSUME TypeOK, Locals, WatchInv, MirrorInv, [Next]_vars
    PROVE  WatchInv' /\ MirrorInv'
<1> SUFFICES ASSUME lapses' = {} PROVE WatchInv' /\ MirrorInv'
  BY DEF WatchInv, MirrorInv
<1>1. lapses = {}
  BY LapsesGrow
<1>2. /\ newest \in Nat /\ save \in [Saver -> SaveOf(newest)] /\ db \in 0..newest
      /\ exec \in [Agent -> ExecOf(newest)] /\ file \in [Agent -> 0..newest]
      /\ key \in [Agent -> 0..newest] /\ term \in [Agent -> Terminals]
  BY TypedNow DEF TypedTo
<1>3. ASSUME newest' = newest, db = newest => db' = newest,
             \A a \in Agent : file[a] = newest => file'[a] = newest,
             \A q \in Saver : save[q].phase # "none" => save'[q] = save[q],
             \A a \in Agent : file[a] = newest /\ (ExecSees(a) \/ WatchSees(a)) =>
                 (ExecSees(a) \/ WatchSees(a) \/ Saved)',
             \A a \in Agent : ~Free("watch", a)' =>
                 /\ key'[a] = key[a]
                 /\ \/ save'[<<"watch", a>>] = save[<<"watch", a>>]
                    \/ save'[<<"watch", a>>].token = file'[a] /\ file'[a] # key[a]
      PROVE  WatchInv' /\ MirrorInv'
  <2>1. WatchInv'
    BY <1>1, <1>3 DEF WatchInv, Free
  <2>2. Saved => Saved'
    BY <1>3 DEF Saved
  <2>3. Seen => (Seen \/ Saved)'
    BY <1>3 DEF Seen
  <2> QED
    BY <1>1, <1>3, <2>1, <2>2, <2>3 DEF MirrorInv
<1>4. ASSUME newest' = newest + 1, \A a \in Agent : save'[<<"watch", a>>] = save[<<"watch", a>>],
             (Saved \/ Seen)'
      PROVE  WatchInv' /\ MirrorInv'
  <2>1. \A a \in Agent : save[<<"watch", a>>].token \in 0..newest
    BY <1>2, Savers DEF SaveOf
  <2> QED
    BY <1>2, <1>4, <2>1 DEF WatchInv, MirrorInv
<1>5. ASSUME NEW s \in Saver, Moves(s)
      PROVE  WatchInv' /\ MirrorInv'
  <2>1. /\ UNCHANGED <<newest, db, file, exec, term>> /\ save[s].phase # "none"
        /\ \A q \in Saver : q # s => save'[q] = save[q]
        /\ \/ /\ save'[s].phase # "none" /\ save'[s].token = save[s].token
              /\ key' = key
           \/ save'[s] = NoSave /\ Ended(s)
    BY <1>5, SaveEffect
  <2>2. CASE save'[s].phase # "none" /\ save'[s].token = save[s].token /\ key' = key
    <3>1. WatchInv'
      BY <1>1, <2>1, <2>2, Savers DEF WatchInv, Free
    <3>2. Saved => Saved'
      BY <2>1, <2>2 DEF Saved
    <3>3. Seen => Seen'
      BY <2>1, <2>2 DEF Seen, ExecSees, WatchSees, At
    <3> QED
      BY <1>1, <2>1, <3>1, <3>2, <3>3 DEF MirrorInv
  <2>3. CASE save'[s] = NoSave /\ Ended(s)
    <3>1. save[s].token \in 0..newest
      BY <1>2 DEF SaveOf
    <3>2. \A a \in Agent : s # <<"watch", a>> => key'[a] = key[a]
      BY <1>2, <2>3, Savers DEF Ended
    <3>3. WatchInv'
      <4> SUFFICES ASSUME NEW a \in Agent, ~Free("watch", a)', save'[<<"watch", a>>].token = newest
                   PROVE  file[a] = newest /\ key'[a] # newest
        BY <2>1 DEF WatchInv
      <4>1. s # <<"watch", a>>
        BY <2>3 DEF Free, NoSave
      <4>2. save'[<<"watch", a>>] = save[<<"watch", a>>] /\ key'[a] = key[a]
        BY <2>1, <3>2, <4>1, Savers
      <4> QED
        BY <1>1, <4>2 DEF WatchInv, Free
    <3>4. CASE db = newest
      BY <2>1, <3>3, <3>4 DEF MirrorInv
    <3>5. CASE db # newest
      <4>1. \A q \in Saver : q # s /\ save[q].phase # "none" /\ save[q].token = newest => Saved'
        BY <2>1 DEF Saved
      <4>2. save[s].token = newest => Seen'
        <5> SUFFICES ASSUME save[s].token = newest PROVE Seen'
          OBVIOUS
        <5>1. key' = key /\ s[1] = "watch"
          BY <1>2, <2>3, <3>5 DEF Ended
        <5>2. PICK a \in Agent : s = <<"watch", a>>
          BY <5>1, Savers
        <5>3. file[a] = newest /\ key[a] # newest /\ term[a] \in Watching
          BY <1>1, <2>1, <5>2 DEF WatchInv, Free, Locals
        <5> QED
          BY <2>1, <5>1, <5>3 DEF Seen, WatchSees, Watching
      <4>3. save[s].token # newest => (Seen => Seen')
        <5> SUFFICES ASSUME save[s].token # newest, NEW a \in Agent, file[a] = newest,
                            ExecSees(a) \/ WatchSees(a)
                     PROVE  Seen'
          BY DEF Seen
        <5>1. key'[a] \in {key[a], save[s].token}
          BY <1>2, <2>3, Savers DEF Ended
        <5>2. (ExecSees(a) \/ WatchSees(a))'
          BY <2>1, <5>1 DEF ExecSees, WatchSees, At
        <5> QED
          BY <2>1, <5>2 DEF Seen
      <4> QED
        BY <1>1, <3>3, <3>5, <4>1, <4>2, <4>3 DEF MirrorInv, Saved
    <3> QED
      BY <3>4, <3>5
  <2> QED
    BY <2>1, <2>2, <2>3
<1>6. ASSUME UNCHANGED <<newest, file, exec, term, key, save>>, db = newest => db' = newest
      PROVE  WatchInv' /\ MirrorInv'
  BY <1>3, <1>6 DEF ExecSees, WatchSees, At, Free
<1>7. ASSUME NEW w \in inserts, Insert(w[1], w[2]) \/ \E b \in BOOLEAN : InsertFails(w[1], w[2], b)
      PROVE  WatchInv' /\ MirrorInv'
  <2>1. w[2] \in 1..newest
    BY TypedNow DEF TypedTo
  <2>2. CASE Insert(w[1], w[2])
    <3>1. ~(db > w[2]) /\ db' = w[2]
      BY <2>2 DEF Insert, Lapses
    <3>2. db = newest => db' = newest
      BY <1>2, <2>1, <3>1
    <3> QED
      BY <1>6, <2>2, <3>2 DEF Insert, runner
  <2>3. ASSUME NEW b \in BOOLEAN, InsertFails(w[1], w[2], b) PROVE WatchInv' /\ MirrorInv'
    <3>1. db = newest => db' = newest
      <4>1. CASE b
        <5>1. db' = w[2] /\ ~(db > w[2])
          BY <2>3, <4>1 DEF InsertFails, Lapses
        <5> QED
          BY <1>2, <2>1, <5>1
      <4>2. CASE ~b
        BY <2>3, <4>2 DEF InsertFails
      <4> QED
        BY <4>1, <4>2
    <3> QED
      BY <1>6, <2>3, <3>1 DEF InsertFails, runner
  <2> QED
    BY <1>7, <2>2, <2>3
<1>8. ASSUME NEW r \in Replica,
             \/ Notified(r) \/ NoticeLost(r) \/ ReplicaRestarts(r)
             \/ \E token \in reading[r] : Loaded(r, token)
             \/ \E s \in Saver : Asks(s, r)
      PROVE  WatchInv' /\ MirrorInv'
  <2>1. UNCHANGED <<newest, file, exec, term, key, save, db>>
    BY <1>8 DEF Notified, NoticeLost, ReplicaRestarts, Loaded, Asks, runner
  <2> QED
    BY <1>6, <2>1
<1>9. ASSUME NEW replaced \in BOOLEAN, RunnerRestarts(replaced) PROVE WatchInv' /\ MirrorInv'
  <2>1. db = newest
    BY <1>9 DEF RunnerRestarts, Lapses
  <2>2. UNCHANGED <<newest, db>> /\ \A q \in Saver : save'[q].phase = "none"
    BY <1>9 DEF RunnerRestarts, NoSave
  <2> QED
    BY <2>1, <2>2, Savers DEF WatchInv, MirrorInv, Free
(* An execution that is not running its CLI moves on. *)
<1>10. ASSUME NEW a \in Agent, UNCHANGED <<newest, db, key>>, ~At(a, "run"),
              file[a] = newest => file'[a] = newest, WatchSees(a) => term'[a] = term[a],
              \A b \in Agent : b # a => exec'[b] = exec[b] /\ file'[b] = file[b] /\ term'[b] = term[b],
              \A q \in Saver : save'[q] = save[q] \/ (q = <<"exec", a>> /\ Free("exec", a))
       PROVE  WatchInv' /\ MirrorInv'
  <2>1. \A q \in Saver : save[q].phase # "none" => save'[q] = save[q]
    BY <1>10 DEF Free
  <2>2. \A b \in Agent : save'[<<"watch", b>>] = save[<<"watch", b>>]
    BY <1>10, Savers
  <2>3. ASSUME NEW b \in Agent, file[b] = newest, ExecSees(b) \/ WatchSees(b)
        PROVE  (ExecSees(b) \/ WatchSees(b))'
    BY <1>10, <2>3 DEF ExecSees, WatchSees, At
  <2> QED
    BY <1>3, <1>10, <2>1, <2>2, <2>3
<1>11. ASSUME NEW a \in Agent, NEW blob, At(a, "load"), Hydrate(a, blob),
              UNCHANGED <<newest, db, file, term, key>>
       PROVE  WatchInv' /\ MirrorInv'
  <2>1. \A q \in Saver : save'[q] = save[q] \/ (q = <<"exec", a>> /\ Free("exec", a))
    BY <1>2, <1>11 DEF Hydrate, Begin, Locals, At
  <2>2. \A b \in Agent : b # a => exec'[b] = exec[b]
    BY <1>2, <1>11 DEF Hydrate
  <2> QED
    BY <1>10, <1>11, <2>1, <2>2 DEF At
<1>12. ASSUME NEW a \in Agent,
              \/ LoadCached(a)
              \/ \E r \in Replica : \E token \in {cache[r], get[<<"exec", a>>].token} : Load(a, r, token)
       PROVE  WatchInv' /\ MirrorInv'
  BY <1>11, <1>12 DEF LoadCached, Load, api
<1>13. ASSUME NEW a \in Agent,
              \/ LoadFails(a) \/ WriteFails(a) \/ Refused(a) \/ RefreshLost(a)
              \/ \E expired \in BOOLEAN : Expire(a, expired)
       PROVE  WatchInv' /\ MirrorInv'
  <2>1. ~RefreshLost(a)
    BY DEF RefreshLost, Lapses
  <2>2. /\ UNCHANGED <<newest, db, file, term, key, save>> /\ ~At(a, "run")
        /\ \A b \in Agent : b # a => exec'[b] = exec[b]
    BY <1>2, <1>13, <2>1 DEF LoadFails, WriteFails, Refused, Expire, Goes, At, api
  <2>3. /\ \A b \in Agent : b # a => exec'[b] = exec[b] /\ file'[b] = file[b] /\ term'[b] = term[b]
        /\ \A q \in Saver : save'[q] = save[q] \/ (q = <<"exec", a>> /\ Free("exec", a))
        /\ file[a] = newest => file'[a] = newest
        /\ WatchSees(a) => term'[a] = term[a]
    BY <2>2
  <2> QED
    BY <1>10, <2>2, <2>3
<1>14. ASSUME NEW a \in Agent, Write(a) PROVE WatchInv' /\ MirrorInv'
  <2>1. ~(file[a] > exec[a].blob) /\ exec[a].blob \in 0..newest
    BY <1>2, <1>14 DEF Write, Lapses, ExecOf
  <2>2. file[a] = newest => file'[a] = newest
    BY <1>2, <1>14, <2>1 DEF Write, Writes
  <2>3. /\ UNCHANGED <<newest, db, term, key, save>> /\ ~At(a, "run")
        /\ \A b \in Agent : b # a => exec'[b] = exec[b] /\ file'[b] = file[b]
    BY <1>2, <1>14 DEF Write, Writes, Goes, At, api
  <2>4. /\ \A b \in Agent : b # a => exec'[b] = exec[b] /\ file'[b] = file[b] /\ term'[b] = term[b]
        /\ \A q \in Saver : save'[q] = save[q] \/ (q = <<"exec", a>> /\ Free("exec", a))
        /\ WatchSees(a) => term'[a] = term[a]
    BY <2>3
  <2> QED
    BY <1>10, <2>2, <2>3, <2>4
<1>15. ASSUME NEW a \in Agent, Ready(a) \/ \E kind \in {"task", "terminal"} : Open(a, kind)
       PROVE  WatchInv' /\ MirrorInv'
  <2>1. /\ UNCHANGED <<newest, db, file, key, term, save>> /\ ~At(a, "run")
        /\ \A b \in Agent : b # a => exec'[b] = exec[b]
    BY <1>2, <1>15 DEF Ready, Open, At, api
  <2>2. /\ \A b \in Agent : b # a => exec'[b] = exec[b] /\ file'[b] = file[b] /\ term'[b] = term[b]
        /\ \A q \in Saver : save'[q] = save[q] \/ (q = <<"exec", a>> /\ Free("exec", a))
        /\ file[a] = newest => file'[a] = newest
        /\ WatchSees(a) => term'[a] = term[a]
    BY <2>1
  <2> QED
    BY <1>10, <2>1, <2>2
(* A watcher that goes away leaves nothing unsaved. *)
<1>26. ASSUME NEW a \in Agent, UNCHANGED <<newest, db, file, save>>, ~Unsaved(a),
              Free("watch", a), \A b \in Agent : b # a => term'[b] = term[b] /\ key'[b] = key[b],
              exec' = exec \/ (~At(a, "run") /\ \A b \in Agent : b # a => exec'[b] = exec[b])
       PROVE  WatchInv' /\ MirrorInv'
  <2>1. CASE db = newest
    <3>1. WatchInv'
      BY <1>1, <1>26 DEF WatchInv, Free
    <3> QED
      BY <1>26, <2>1, <3>1 DEF MirrorInv
  <2>2. CASE db # newest
    <3>1. file[a] = newest => ~WatchSees(a)
      BY <1>2, <1>26, <2>2 DEF Unsaved
    <3>2. ASSUME NEW b \in Agent, file[b] = newest, ExecSees(b) \/ WatchSees(b)
          PROVE  (ExecSees(b) \/ WatchSees(b))'
      <4>1. CASE b = a
        <5>1. ExecSees(a)
          BY <3>1, <3>2, <4>1
        <5> QED
          BY <1>26, <4>1, <5>1 DEF ExecSees, At
      <4>2. CASE b # a
        BY <1>26, <3>2, <4>2 DEF ExecSees, WatchSees, At
      <4> QED
        BY <4>1, <4>2
    <3>3. \A b \in Agent : ~Free("watch", b)' => key'[b] = key[b]
      BY <1>26 DEF Free
    <3> QED
      BY <1>3, <1>26, <3>2, <3>3
  <2> QED
    BY <2>1, <2>2
<1>27. ASSUME NEW a \in Agent, NEW phase, Opened(a, phase) \/ Ends(a, phase)
       PROVE  WatchInv' /\ MirrorInv'
  <2>1. /\ UNCHANGED <<newest, db, file, save>> /\ Free("watch", a)
        /\ \A b \in Agent : b # a => term'[b] = term[b] /\ key'[b] = key[b]
        /\ exec' = exec \/ (~At(a, "run") /\ \A b \in Agent : b # a => exec'[b] = exec[b])
    BY <1>2, <1>27 DEF Opened, Ends, At, api
  <2>2. ~Unsaved(a)
    BY <1>27 DEF Opened, Ends, Lapses
  <2> QED
    BY <1>26, <2>1, <2>2
<1>16. ASSUME NEW a \in Agent, RunEnds(a) PROVE WatchInv' /\ MirrorInv'
  <2>1. /\ UNCHANGED <<newest, db, file, key, term>> /\ Free("exec", a) /\ At(a, "run")
        /\ \A b \in Agent : b # a => exec'[b] = exec[b]
    BY <1>2, <1>16 DEF RunEnds, Locals, At, api
  <2>2. \A q \in Saver : q # <<"exec", a>> => save'[q] = save[q]
    BY <1>2, <1>16, BeginEffect DEF RunEnds
  <2>3. ExecSees(a) => save'[<<"exec", a>>].token = file[a] /\ save'[<<"exec", a>>].phase = "fetch"
    BY <1>16, BeginEffect DEF RunEnds
  <2>4. \A q \in Saver : save[q].phase # "none" => save'[q] = save[q]
    BY <2>1, <2>2 DEF Free
  <2>5. ASSUME NEW b \in Agent, file[b] = newest, ExecSees(b) \/ WatchSees(b)
        PROVE  (ExecSees(b) \/ WatchSees(b) \/ Saved)'
    <3>1. CASE b = a /\ ExecSees(a)
      BY <2>1, <2>3, <2>5, <3>1, Savers DEF Saved
    <3>2. CASE ~(b = a /\ ExecSees(a))
      BY <2>1, <2>5, <3>2 DEF ExecSees, WatchSees, At
    <3> QED
      BY <3>1, <3>2
  <2>6. \A b \in Agent : save'[<<"watch", b>>] = save[<<"watch", b>>]
    BY <2>2, Savers
  <2> QED
    BY <1>3, <2>1, <2>4, <2>5, <2>6
<1>17. ASSUME NEW a \in Agent, Refreshed(a) PROVE WatchInv' /\ MirrorInv'
  <2>1. /\ newest' = newest + 1
        /\ save'[<<"exec", a>>].token = newest + 1 /\ save'[<<"exec", a>>].phase = "fetch"
        /\ \A q \in Saver : q # <<"exec", a>> => save'[q] = save[q]
    BY <1>17, BeginEffect DEF Refreshed
  <2>2. Saved'
    BY <2>1, Savers DEF Saved
  <2> QED
    BY <1>4, <2>1, <2>2, Savers
<1>18. ASSUME NEW a \in Agent, Baseline(a) \/ Survives(a)
       PROVE  WatchInv' /\ MirrorInv'
  <2>1. /\ UNCHANGED <<newest, db, file, exec, save>> /\ Free("watch", a)
        /\ \A b \in Agent : b # a => term'[b] = term[b] /\ key'[b] = key[b]
    BY <1>2, <1>18 DEF Baseline, Survives, Locals, Free, Watching, api
  <2>2. WatchSees(a) => WatchSees(a)'
    BY <1>2, <1>18 DEF Baseline, Survives, WatchSees
  <2>3. ASSUME NEW b \in Agent, ExecSees(b) \/ WatchSees(b)
        PROVE  (ExecSees(b) \/ WatchSees(b))'
    BY <2>1, <2>2, <2>3 DEF ExecSees, WatchSees, At
  <2>4. \A b \in Agent : ~Free("watch", b)' => key'[b] = key[b]
    BY <2>1 DEF Free
  <2> QED
    BY <1>3, <2>1, <2>3, <2>4
<1>19. ASSUME NEW a \in Agent, Poll(a) \/ Close(a) \/ LooksAway(a) PROVE WatchInv' /\ MirrorInv'
  <2>1. /\ UNCHANGED <<newest, db, file, exec, key>> /\ Free("watch", a)
        /\ term'[a] \in Watching
        /\ \A b \in Agent : b # a => term'[b] = term[b]
    BY <1>2, <1>19 DEF Poll, Close, LooksAway, Polls, Watching, api
  <2>2. ASSUME NEW b \in Agent, ExecSees(b) \/ WatchSees(b)
        PROVE  (ExecSees(b) \/ WatchSees(b))'
    BY <2>1, <2>2 DEF ExecSees, WatchSees, At, Watching
  <2>3. \A q \in Saver : q # <<"watch", a>> => save'[q] = save[q]
    BY <1>19, BeginEffect DEF Poll, Close, LooksAway, Polls
  <2>4. \/ save' = save
        \/ save'[<<"watch", a>>].token = file[a] /\ file[a] # key[a]
    BY <1>19, BeginEffect DEF Poll, Close, LooksAway, Polls, WatchSees
  <2>5. \A q \in Saver : save[q].phase # "none" => save'[q] = save[q]
    BY <2>1, <2>3 DEF Free
  <2>6. \A b \in Agent : \/ save'[<<"watch", b>>] = save[<<"watch", b>>]
                         \/ save'[<<"watch", b>>].token = file'[b] /\ file'[b] # key[b]
    BY <2>1, <2>3, <2>4, Savers
  <2> QED
    BY <1>3, <2>1, <2>2, <2>5, <2>6
<1>20. ASSUME NEW a \in Agent, CliRotates(a) PROVE WatchInv' /\ MirrorInv'
  <2>1. /\ newest' = newest + 1 /\ file'[a] = newest' /\ UNCHANGED <<exec, term, key, save>>
        /\ At(a, "run") \/ term[a] \in Watching
    BY <1>2, <1>20 DEF CliRotates, Writes, Lapses, Terminals
  <2>2. exec[a].blob \in 0..newest /\ key[a] \in 0..newest
    BY <1>2 DEF ExecOf
  <2>3. (ExecSees(a) \/ WatchSees(a))'
    BY <1>2, <2>1, <2>2 DEF ExecSees, WatchSees, At, Watching
  <2>4. Seen'
    BY <2>1, <2>3 DEF Seen
  <2> QED
    BY <1>4, <2>1, <2>4
<1>21. ASSUME Logs PROVE WatchInv' /\ MirrorInv'
  <2>1. /\ newest' = newest + 1
        /\ save'[<<"login", None>>].token = newest + 1 /\ save'[<<"login", None>>].phase = "post"
        /\ \A q \in Saver : q # <<"login", None>> => save'[q] = save[q]
    BY <1>2, <1>21, Savers DEF Logs, Begin
  <2>2. Saved'
    BY <2>1, Savers DEF Saved
  <2> QED
    BY <1>4, <2>1, <2>2, Savers
<1>22. CASE UNCHANGED vars
  BY <1>6, <1>22 DEF vars, api, runner
<1>23. CASE Routine
  BY <1>5, <1>7, <1>8, <1>12, <1>13, <1>14, <1>15, <1>16, <1>17, <1>18, <1>19, <1>20, <1>23, <1>27
     DEF Routine, SaveStep, Moves, ExecStep, ReadyTerminal, TerminalStep, Killed
<1>24. CASE Request
  BY <1>15, <1>21, <1>24 DEF Request, Login, AgentLogin
<1>25. CASE Fault
  BY <1>5, <1>7, <1>8, <1>9, <1>13, <1>25, <1>27 DEF Fault, Moves, StartFails, Left
<1> QED
  BY <1>22, <1>23, <1>24, <1>25 DEF Next

LEMMA MirrorStart ==
    ASSUME Init
    PROVE  WatchInv /\ MirrorInv
BY Savers DEF Init, WatchInv, MirrorInv, Free, NoSave

LEMMA Mirrored ==
    ASSUME MirrorInv
    PROVE  NewestIsMirrored
<1>1. \E a : a \in Agent
  BY ConstantsAssumption DEF ConstantsAssumption
<1>2. Saved => \E a \in Agent : OnItsWay(a)
  BY <1>1 DEF Saved, OnItsWay
<1>3. Seen => \E a \in Agent : OnItsWay(a)
  BY DEF Seen, OnItsWay
<1> QED
  BY <1>2, <1>3 DEF MirrorInv, NewestIsMirrored

(* The token that works is in the store, in a save that will not give up    *)
(* before it is, or in a file whose change has yet to be noticed, unless a  *)
(* loss the code leaves open has happened.                                     *)
THEOREM NewestMirrored == Spec => []NewestIsMirrored
<1>1. Init => WatchInv /\ MirrorInv
  BY MirrorStart
<1>2. TypeOK /\ Locals /\ WatchInv /\ MirrorInv /\ [Next]_vars => (WatchInv /\ MirrorInv)'
  BY MirrorStep
<1>3. MirrorInv => NewestIsMirrored
  BY Mirrored
<1> QED
  BY <1>1, <1>2, <1>3, LocalsCorrect, PTL DEF Spec

-----------------------------------------------------------------------------
(* The replicas' caches.                                                   *)

LEMMA CacheStep ==
    ASSUME TypeOK, Locals, CacheInv, [Next]_vars
    PROVE  CacheInv'
<1>1. /\ newest \in Nat /\ db \in 0..newest /\ cache \in [Replica -> 0..newest]
      /\ reading \in [Replica -> SUBSET (0..newest)] /\ inserts \subseteq Replica \X (1..newest)
      /\ get \in [Saver -> GetOf(newest)] /\ notices \subseteq Replica
  BY TypedNow DEF TypedTo
<1>2. \A r \in Replica : r \notin behind => Fresh(r)
  BY DEF CacheInv
<1>3. ASSUME \A r \in Replica : r \notin behind' => Fresh(r)' PROVE CacheInv'
  BY <1>3 DEF CacheInv
(* A replica at which nothing happens stays fresh. *)
<1>4. ASSUME NEW r \in Replica, r \notin behind, db' = db, r \in notices => r \in notices',
             cache'[r] = cache[r], reading'[r] = reading[r],
             <<r, cache[r]>> \in inserts => <<r, cache[r]>> \in inserts',
             \A s \in Saver : \/ get'[s] = get[s]
                              \/ get[s].at # r /\ get'[s].at # r
                              \/ get[s].token = 0 /\ get'[s].token = 0
      PROVE  Fresh(r)'
  <2>1. \A s \in Saver : get'[s].at = r /\ get'[s].token # 0 =>
          get[s] = get'[s] /\ get[s].at = r /\ get[s].token # 0
    BY <1>4
  <2>2. \A s \in Saver : get[s].at = r /\ get[s].token # 0 => get'[s] = get[s]
    BY <1>4
  <2>3. One(r)'
    BY <1>2, <1>4, <2>1 DEF Fresh, One
  <2>4. /\ \A token \in reading'[r] : Current(r, token)'
        /\ \A s \in Saver : get'[s].at = r /\ get'[s].token # 0 => Current(r, get[s].token)'
    BY <1>2, <1>4, <2>1 DEF Fresh, Current
  <2>5. \A s \in Saver : get'[s].at = r /\ get'[s].token # 0 =>
          Current(r, get[s].token)' /\ get'[s].token = get[s].token
    BY <2>1, <2>4
  <2>6. \/ reading'[r] # {} \/ cache'[r] = 0 \/ cache'[r] >= db' \/ r \in notices'
        \/ <<r, cache'[r]>> \in inserts'
    BY <1>2, <1>4 DEF Fresh
  <2> QED
    BY <2>3, <2>4, <2>5, <2>6 DEF Fresh, Current
(* A replica that reads for nobody. *)
<1>5. ASSUME NEW r \in Replica, reading'[r] = {},
             \A s \in Saver : ~(get'[s].at = r /\ get'[s].token # 0),
             cache'[r] = 0 \/ cache'[r] >= db' \/ r \in notices'
      PROVE  Fresh(r)'
  BY <1>5 DEF Fresh, One
<1>6. ASSUME UNCHANGED <<api, get>> PROVE CacheInv'
  <2>1. UNCHANGED <<db, cache, notices, reading, inserts, behind, get>>
    BY <1>6 DEF api
  <2> QED
    BY <1>3, <1>4, <2>1
<1>7. ASSUME NEW s \in Saver, NEW r \in Replica, Asks(s, r) PROVE CacheInv'
  <2>1. /\ UNCHANGED <<db, cache, notices, reading, inserts>> /\ cache[r] = 0
        /\ get'[s] = [at |-> r, token |-> db] /\ \A q \in Saver : q # s => get'[q] = get[q]
        /\ get[s].at = None
    BY <1>1, <1>7 DEF Asks, NoGet
  <2>2. ASSUME r \notin behind' PROVE Fresh(r)'
    <3>1. reading[r] = {} /\ \A q \in Saver : ~(get[q].at = r /\ get[q].token # 0)
      BY <1>7, <2>2 DEF Asks, Reads, AtWork
    <3>2. \A q \in Saver : get'[q].at = r /\ get'[q].token # 0 => q = s
      BY <2>1, <3>1
    <3>3. One(r)'
      BY <2>1, <3>1, <3>2 DEF One
    <3>4. \A q \in Saver : get'[q].at = r /\ get'[q].token # 0 => get'[q].token = db'
      BY <2>1, <3>2
    <3> QED
      BY <2>1, <3>1, <3>3, <3>4 DEF Fresh, Current
  <2>3. ASSUME NEW q \in Replica, q # r, q \notin behind' PROVE Fresh(q)'
    <3>1. q \notin behind
      BY <1>7, <2>3 DEF Asks, Reads
    <3>2. q # None
      BY ConstantsAssumption DEF ConstantsAssumption
    <3>3. \A x \in Saver : get'[x] = get[x] \/ (get[x].at # q /\ get'[x].at # q)
      BY <2>1, <2>3, <3>2
    <3> QED
      BY <1>4, <2>1, <3>1, <3>3
  <2> QED
    BY <1>3, <2>2, <2>3
<1>8. ASSUME NEW s \in Saver, NEW r \in Replica, NEW token, Answers(s, r, token),
             UNCHANGED <<db, notices, reading, inserts, behind>>
      PROVE  CacheInv'
  <2>1. CASE get[s] = NoGet /\ UNCHANGED <<cache, get>>
    BY <1>6, <1>8, <2>1 DEF api
  <2>2. CASE get[s] = [at |-> r, token |-> token] /\ get' = [get EXCEPT ![s] = NoGet]
             /\ cache' = IF token = 0 THEN cache ELSE [cache EXCEPT ![r] = token]
    <3>1. /\ get[s].at = r /\ get[s].token = token /\ get'[s].at = None /\ get'[s].token = 0
          /\ \A q \in Saver : q # s => get'[q] = get[q]
      BY <1>1, <2>2 DEF NoGet
    <3>2. ASSUME NEW q \in Replica, q \notin behind, q # r \/ token = 0 PROVE Fresh(q)'
      <4>1. cache'[q] = cache[q]
        BY <1>1, <2>2, <3>2
      <4>2. q # None
        BY ConstantsAssumption DEF ConstantsAssumption
      <4>3. \A x \in Saver : \/ get'[x] = get[x] \/ (get[x].at # q /\ get'[x].at # q)
                             \/ get[x].token = 0 /\ get'[x].token = 0
        BY <3>1, <3>2, <4>2
      <4> QED
        BY <1>4, <1>8, <3>2, <4>1, <4>3
    <3>3. ASSUME r \notin behind, token # 0 PROVE Fresh(r)'
      <4>1. /\ reading[r] = {} /\ Current(r, token)
            /\ \A q \in Saver : get[q].at = r /\ get[q].token # 0 => q = s
        BY <1>2, <3>1, <3>3 DEF Fresh, One
      <4>2. \A q \in Saver : ~(get'[q].at = r /\ get'[q].token # 0)
        BY <3>1, <4>1
      <4>3. cache'[r] = token
        BY <1>1, <2>2, <3>3
      <4>4. cache'[r] >= db' \/ r \in notices'
        BY <1>1, <1>8, <4>1, <4>3 DEF Current
      <4> QED
        BY <1>5, <1>8, <4>1, <4>2, <4>4
    <3> QED
      BY <1>3, <1>8, <3>2, <3>3
  <2> QED
    BY <1>8, <2>1, <2>2 DEF Answers
<1>9. ASSUME NEW s \in Saver, GivesUp(s), UNCHANGED <<db, cache, notices, inserts, behind>>
      PROVE  CacheInv'
  <2>1. /\ get'[s].at = None /\ get'[s].token = 0 /\ \A q \in Saver : q # s => get'[q] = get[q]
    BY <1>1, <1>9 DEF GivesUp, NoGet
  <2>2. ASSUME NEW r \in Replica, r \notin behind, get[s].at # r \/ get[s].token = 0
        PROVE  Fresh(r)'
    <3>1. reading'[r] = reading[r]
      BY <1>1, <1>9, <2>2 DEF GivesUp
    <3>2. r # None
      BY ConstantsAssumption DEF ConstantsAssumption
    <3>3. \A x \in Saver : \/ get'[x] = get[x] \/ (get[x].at # r /\ get'[x].at # r)
                           \/ get[x].token = 0 /\ get'[x].token = 0
      BY <2>1, <2>2, <3>2
    <3> QED
      BY <1>4, <1>9, <2>2, <3>1, <3>3
  <2>3. ASSUME NEW r \in Replica, r \notin behind, get[s].at = r, get[s].token # 0
        PROVE  Fresh(r)'
    <3>1. /\ reading[r] = {} /\ Current(r, get[s].token)
          /\ \A q \in Saver : get[q].at = r /\ get[q].token # 0 => q = s
          /\ \/ cache[r] = 0 \/ cache[r] >= db \/ r \in notices
             \/ <<r, cache[r]>> \in inserts
      BY <1>2, <2>3 DEF Fresh, One
    <3>2. \A q \in Saver : ~(get'[q].at = r /\ get'[q].token # 0)
      BY <2>1, <3>1
    <3>3. reading'[r] = {} \/ reading'[r] = {get[s].token}
      BY <1>1, <1>9, <2>3, <3>1 DEF GivesUp
    <3>4. One(r)'
      BY <3>2, <3>3 DEF One
    <3> QED
      BY <1>9, <3>1, <3>2, <3>3, <3>4 DEF Fresh, Current
  <2> QED
    BY <1>3, <1>9, <2>2, <2>3
<1>10. ASSUME NEW s \in Saver, NEW r \in Replica, Post(s, r) PROVE CacheInv'
  <2>1. /\ UNCHANGED <<db, notices, reading, behind, get>> /\ inserts \subseteq inserts'
        /\ cache'[r] = save[s].token /\ <<r, save[s].token>> \in inserts'
        /\ \A q \in Replica : q # r => cache'[q] = cache[q]
    BY <1>1, <1>10 DEF Post
  <2>2. ASSUME r \notin behind PROVE Fresh(r)'
    BY <1>2, <2>1, <2>2 DEF Fresh, One, Current
  <2> QED
    BY <1>3, <1>4, <2>1, <2>2
<1>11. ASSUME NEW w \in inserts, Insert(w[1], w[2]) PROVE CacheInv'
  <2>1. UNCHANGED <<reading, get, behind>> /\ notices' = Replica
    BY <1>11 DEF Insert, runner
  <2>2. ASSUME NEW r \in Replica, r \notin behind PROVE Fresh(r)'
    BY <1>2, <2>1, <2>2 DEF Fresh, One, Current
  <2> QED
    BY <1>3, <2>1, <2>2
<1>12. ASSUME NEW w \in inserts, NEW b \in BOOLEAN, InsertFails(w[1], w[2], b) PROVE CacheInv'
  <2>1. /\ UNCHANGED <<cache, notices, reading, get>> /\ inserts' = inserts \ {<<w[1], w[2]>>}
        /\ behind \subseteq behind'
    BY <1>12 DEF InsertFails, runner
  <2>2. CASE b
    BY <1>3, <1>12, <2>2 DEF InsertFails
  <2>3. CASE ~b
    <3>1. db' = db
      BY <1>12, <2>3 DEF InsertFails
    <3>2. ASSUME NEW r \in Replica, r \notin behind', <<r, cache[r]>> \in inserts => <<r, cache[r]>> \in inserts'
          PROVE  Fresh(r)'
      BY <1>4, <2>1, <3>1, <3>2
    <3>3. ASSUME NEW r \in Replica, r \notin behind', <<r, cache[r]>> = <<w[1], w[2]>>
          PROVE  Fresh(r)'
      <4>1. r = w[1] /\ cache[r] = w[2]
        BY <3>3
      <4>2. ~(db > w[2])
        BY <1>12, <2>3, <3>3, <4>1 DEF InsertFails
      <4>3. cache'[r] >= db'
        BY <1>1, <2>1, <3>1, <4>1, <4>2
      <4>4. r \notin behind
        BY <2>1, <3>3
      <4> QED
        BY <1>2, <2>1, <3>1, <4>3, <4>4 DEF Fresh, One, Current
    <3> QED
      BY <1>3, <2>1, <3>2, <3>3
  <2> QED
    BY <2>2, <2>3
<1>13. ASSUME NEW r \in Replica, Notified(r) PROVE CacheInv'
  <2>1. /\ UNCHANGED <<db, cache, inserts, get>> /\ notices' = notices \ {r}
        /\ reading'[r] = reading[r] \cup {db}
        /\ \A q \in Replica : q # r => reading'[q] = reading[q]
    BY <1>1, <1>13 DEF Notified, runner
  <2>2. ASSUME r \notin behind' PROVE Fresh(r)'
    <3>1. reading[r] = {} /\ \A q \in Saver : ~(get[q].at = r /\ get[q].token # 0)
      BY <1>13, <2>2 DEF Notified, Reads, AtWork
    <3> QED
      BY <2>1, <3>1 DEF Fresh, One, Current
  <2>3. ASSUME NEW q \in Replica, q # r, q \notin behind' PROVE Fresh(q)'
    <3>1. q \notin behind
      BY <1>13, <2>3 DEF Notified, Reads
    <3> QED
      BY <1>4, <2>1, <2>3, <3>1
  <2> QED
    BY <1>3, <2>2, <2>3
<1>14. ASSUME NEW r \in Replica, NEW token \in reading[r], Loaded(r, token) PROVE CacheInv'
  <2>1. /\ UNCHANGED <<db, notices, inserts, get, behind>> /\ cache'[r] = token
        /\ reading'[r] = reading[r] \ {token}
        /\ \A q \in Replica : q # r => reading'[q] = reading[q] /\ cache'[q] = cache[q]
    BY <1>1, <1>14 DEF Loaded, runner
  <2>2. ASSUME r \notin behind PROVE Fresh(r)'
    <3>1. /\ \A x \in reading[r] : x = token
          /\ \A q \in Saver : ~(get[q].at = r /\ get[q].token # 0)
          /\ Current(r, token)
      BY <1>2, <1>14, <2>2 DEF Fresh, One
    <3>2. cache'[r] >= db' \/ r \in notices'
      BY <1>1, <2>1, <3>1 DEF Current
    <3>3. reading'[r] = {}
      BY <2>1, <3>1
    <3> QED
      BY <1>5, <2>1, <3>1, <3>2, <3>3
  <2>3. ASSUME NEW q \in Replica, q # r, q \notin behind PROVE Fresh(q)'
    BY <1>4, <2>1, <2>3
  <2> QED
    BY <1>3, <2>1, <2>2, <2>3
<1>15. ASSUME NEW r \in Replica, NoticeLost(r) PROVE CacheInv'
  <2>1. /\ UNCHANGED <<db, cache, reading, inserts, get>> /\ notices' = notices \ {r}
        /\ behind' = behind \cup {r}
    BY <1>15 DEF NoticeLost, runner
  <2>2. ASSUME NEW q \in Replica, q \notin behind' PROVE Fresh(q)'
    BY <1>4, <2>1, <2>2
  <2> QED
    BY <1>3, <2>2
<1>16. ASSUME NEW r \in Replica, ReplicaRestarts(r) PROVE CacheInv'
  <2>1. /\ db' = db /\ cache'[r] \in {0, db} /\ reading'[r] = {} /\ notices' = notices \ {r}
        /\ inserts' = {w \in inserts : w[1] # r} /\ behind' = behind \ {r}
        /\ \A q \in Replica : q # r => reading'[q] = reading[q] /\ cache'[q] = cache[q]
        /\ \A s \in Saver : get'[s] = IF get[s].at = r THEN [at |-> r, token |-> 0] ELSE get[s]
    BY <1>1, <1>16 DEF ReplicaRestarts
  <2>2. \A s \in Saver : /\ get'[s] = get[s] \/ (get[s].at = r /\ get'[s].at = r)
                         /\ ~(get'[s].at = r /\ get'[s].token # 0)
    BY <2>1
  <2>3. Fresh(r)'
    BY <1>1, <1>5, <2>1, <2>2
  <2>4. ASSUME NEW q \in Replica, q # r, q \notin behind' PROVE Fresh(q)'
    BY <1>4, <2>1, <2>2, <2>4
  <2> QED
    BY <1>3, <2>3, <2>4
<1>17. ASSUME NEW b \in BOOLEAN, RunnerRestarts(b) PROVE CacheInv'
  <2>1. /\ UNCHANGED <<db, cache, notices, inserts, behind>>
        /\ \A s \in Saver : get'[s].token = 0
        /\ \A r \in Replica : reading'[r] = reading[r] \cup
             {get[s].token : s \in {q \in Saver : get[q].at = r /\ get[q].token # 0}}
    BY <1>17 DEF RunnerRestarts, NoGet
  <2>2. ASSUME NEW r \in Replica, r \notin behind PROVE Fresh(r)'
    <3>1. Fresh(r)
      BY <1>2, <2>2
    <3>2. \A x \in reading'[r] : Current(r, x)
      BY <2>1, <3>1 DEF Fresh
    <3>3. \A x, y \in reading'[r] : x = y
      BY <2>1, <3>1 DEF Fresh, One
    <3>4. reading[r] # {} => reading'[r] # {}
      BY <2>1
    <3>5. One(r)'
      BY <2>1, <3>3 DEF One
    <3> QED
      BY <2>1, <3>1, <3>2, <3>4, <3>5 DEF Fresh, Current
  <2> QED
    BY <1>3, <2>1, <2>2
<1>18. ASSUME NEW s \in Saver, Moves(s) PROVE CacheInv'
  <2>1. ASSUME NEW r \in Replica, NEW token \in {cache[r], get[s].token}, Fetch(s, r, token)
        PROVE  CacheInv'
    BY <1>8, <2>1 DEF Fetch
  <2>2. CASE FetchFails(s)
    BY <1>9, <2>2 DEF FetchFails
  <2>3. CASE Verify(s) \/ PostLost(s)
    BY <1>6, <2>3 DEF Verify, PostLost
  <2> QED
    BY <1>10, <1>18, <2>1, <2>2, <2>3 DEF Moves
<1>19. ASSUME NEW a \in Agent,
              ExecStep(a) \/ LoadFails(a) \/ WriteFails(a) \/ RefreshLost(a) \/ StartFails(a)
       PROVE  CacheInv'
  <2>1. ASSUME NEW r \in Replica, NEW token \in {cache[r], get[<<"exec", a>>].token}, Load(a, r, token)
        PROVE  CacheInv'
    BY <1>8, <2>1, Savers DEF Load
  <2>2. CASE LoadFails(a)
    BY <1>9, <2>2, Savers DEF LoadFails
  <2> QED
    BY <1>6, <1>19, <2>1, <2>2
       DEF ExecStep, LoadCached, Write, Expire, Refreshed, Refused, Ready, ReadyTerminal, RunEnds,
           WriteFails, RefreshLost, StartFails, Opened
<1>20. ASSUME NEW a \in Agent,
              \/ TerminalStep(a) \/ Left(a) \/ AgentLogin(a)
              \/ \E kind \in {"task", "terminal"} : Open(a, kind)
       PROVE  CacheInv'
  BY <1>6, <1>20 DEF TerminalStep, Baseline, Poll, Close, LooksAway, Polls, Killed, Left, Ends,
                     CliRotates, Survives, AgentLogin, Logs, Open
<1>21. CASE Login \/ UNCHANGED vars
  BY <1>6, <1>21 DEF Login, Logs, vars, runner
<1> QED
  BY <1>7, <1>11, <1>12, <1>13, <1>14, <1>15, <1>16, <1>17, <1>18, <1>19, <1>20, <1>21
     DEF Next, Routine, Request, Fault, SaveStep, Moves

(* A replica with nothing to hear, to read or to insert serves no token     *)
(* that is older than the row's, unless its last notice was lost or it read *)
(* the row twice at a time.                                                *)
THEOREM CachesAreFresh == Spec => []CachesSettle
<1>1. Init => CacheInv
  <2> SUFFICES ASSUME Init PROVE CacheInv
    OBVIOUS
  <2>1. /\ newest \in Nat /\ \A r \in Replica : cache[r] \in {0, db} /\ reading[r] = {}
        /\ \A s \in Saver : get[s].token = 0
    BY DEF Init, NoGet
  <2> QED
    BY <2>1 DEF Init, CacheInv, Fresh, One
<1>2. TypeOK /\ Locals /\ CacheInv /\ [Next]_vars => CacheInv'
  BY CacheStep
<1>3. TypeOK /\ CacheInv => CachesSettle
  <2> SUFFICES ASSUME TypeOK, CacheInv, NEW r \in Replica \ behind, Settled(r)
               PROVE  cache[r] = 0 \/ cache[r] >= db
    BY DEF CachesSettle
  <2>1. Fresh(r) /\ r \notin notices /\ reading[r] = {} /\ <<r, cache[r]>> \notin inserts
    BY DEF CacheInv, Settled, AtWork
  <2> QED
    BY <2>1 DEF Fresh
<1> QED
  BY <1>1, <1>2, <1>3, LocalsCorrect, PTL DEF Spec
===============================================================================
