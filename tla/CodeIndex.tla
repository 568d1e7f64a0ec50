-------------------------------- MODULE CodeIndex -------------------------------
(***************************************************************************)
(* The index of one source folder (services/codeIndexService.ts): the files *)
(* on disk, which anybody may edit, index.json, the parsed index that all   *)
(* operations of the process share through a cache, and the vectors of the  *)
(* symbols (codeSearch/vectorStore.ts).                                     *)
(*                                                                         *)
(* Operations that write run one at a time; searches and readers take no    *)
(* lock.  An update or a sync edits the shared object in place and saves it *)
(* at its end.  Each file holds one symbol, so a record of the index stands *)
(* for a file and its symbols, and a vector for those of its symbols.       *)
(***************************************************************************)
EXTENDS Integers, FiniteSets

CONSTANTS
    File, Content,
    Absent,   \* no content: no file, no record, no vector
    Op,       \* the requests served, each once
    NoOp

ASSUME ConstantsAssumption ==
    /\ Absent \notin Content /\ NoOp \notin Op
    /\ IsFiniteSet(File) /\ File # {}

VARIABLES
    backend,    \* the vector store the process could load
    disk, mtime,\* the files, and when the last change of one was made
    saved,      \* index.json
    heap, cache,\* the indexes operations have parsed or made; the cached one
    vectors,    \* the content each file's vectors were made of
    rebuilt,    \* the vectors were rebuilt since the index was made
    lock,       \* the operation that has the repository
    pc, frame,  \* the operations, and their locals
    drift,      \* history: the files changed since what the index says of them
    lapses      \* history: the races and failures the code does not undo

store == <<saved, vectors, rebuilt>>
vars == <<backend, disk, mtime, store, heap, cache, lock, pc, frame, drift, lapses>>

(* time: the mtime; 0 if unknown, or no file. *)
Record == [content : Content \cup {Absent}, time : Nat]
NoRecord == [content |-> Absent, time |-> 0]
Index == [File -> Record]
Empty == [f \in File |-> NoRecord]
NoIndex == <<>>

Writer == {"index", "sync", "update", "delete"}
Reader == {"search", "read"}

(* index: the object the operation works on is heap[index], made by that    *)
(* operation; raw: what it has read of index.json; seen: what it has found  *)
(* on disk; known: the files it takes for unchanged; edits: those changed   *)
(* since it looked; file, content: what an update was asked for; todo, at:  *)
(* the reads an update still awaits, and how new the content is it has read.*)
Frame == [kind : Writer \cup Reader, index : Op \cup {NoOp}, raw : Index \cup {NoIndex},
          seen : Index, known : SUBSET File, edits : SUBSET File,
          file : File \cup {NoOp}, content : Content \cup {Absent},
          todo : SUBSET {"content", "stat"}, at : Nat]
NoFrame == <<>>

Phase == {"new", "lock", "load", "parse", "discover", "read", "remove", "splice",
          "fetch", "push", "save", "publish", "vectors", "drop", "done"}

TypeOK ==
    /\ backend \in {"memory", "zvec"}
    /\ disk \in Index /\ mtime \in Nat
    /\ saved \in Index \cup {NoIndex}
    /\ heap \in [Op -> Index]
    /\ cache \in Op \cup {NoOp}
    /\ vectors \in [File -> Content \cup {Absent}]
    /\ rebuilt \in BOOLEAN
    /\ lock \in Op \cup {NoOp}
    /\ pc \in [Op -> Phase]
    /\ frame \in [Op -> Frame \cup {NoFrame}]
    /\ \A o \in Op : pc[o] \notin {"new", "done"} => frame[o] \in Frame
    /\ drift \subseteq File
    /\ lapses \subseteq {"overtaken", "skewed", "outdated", "failed"}

(* A process starts, with an index an earlier one has left or without one.  *)
Init ==
    /\ backend \in {"memory", "zvec"}
    /\ mtime = 1
    /\ disk \in [File -> {NoRecord} \cup [content : Content, time : {1}]]
    /\ saved \in {NoIndex, disk}
    /\ heap = [o \in Op |-> Empty]
    /\ cache = NoOp
    /\ vectors = [f \in File |-> IF saved = NoIndex \/ backend = "memory"
                                 THEN Absent ELSE disk[f].content]
    /\ rebuilt = FALSE
    /\ lock = NoOp
    /\ pc = [o \in Op |-> "new"]
    /\ frame = [o \in Op |-> NoFrame]
    /\ drift = {}
    /\ lapses = {}

-----------------------------------------------------------------------------
(* What the steps are made of.                                             *)

Goes(o, phase) == pc' = [pc EXCEPT ![o] = phase]
Ends(o) == /\ Goes(o, "done")
           /\ frame' = [frame EXCEPT ![o] = NoFrame]
           /\ lock' = IF lock = o THEN NoOp ELSE lock

Lapses(kind, cond) == lapses' = lapses \cup IF cond THEN {kind} ELSE {}

Has(index, f) == index[f].content # Absent
Mine(o) == heap[frame[o].index]

(* The phase that comes after loading the index. *)
Loaded(o) ==
    CASE frame[o].kind = "sync" -> "discover"
      [] frame[o].kind = "update" -> "splice"
      [] frame[o].kind = "search" -> "vectors"
      [] OTHER -> "done"

-----------------------------------------------------------------------------
(* Requests, the lock, and loadIndex.                                       *)

Request(o, kind, f, c) ==
    /\ pc[o] = "new"
    /\ Goes(o, IF kind \in Writer THEN "lock" ELSE "load")
    /\ frame' = [frame EXCEPT ![o] =
         [kind |-> kind, index |-> NoOp, raw |-> NoIndex, seen |-> Empty, known |-> {},
          edits |-> {}, file |-> f, content |-> c, todo |-> {}, at |-> 0]]
    /\ UNCHANGED <<backend, disk, mtime, store, heap, cache, lock, drift, lapses>>

Lock(o) ==
    /\ pc[o] = "lock" /\ lock = NoOp /\ frame[o].kind # "delete"
    /\ lock' = o
    /\ Goes(o, IF frame[o].kind = "index" THEN "discover" ELSE "load")
    /\ UNCHANGED <<backend, disk, mtime, store, heap, cache, frame, drift, lapses>>

(* The cached object is shared... *)
LoadCached(o) ==
    /\ pc[o] = "load" /\ cache # NoOp
    /\ Goes(o, Loaded(o))
    /\ frame' = [frame EXCEPT ![o] =
         IF Loaded(o) = "done" THEN NoFrame ELSE [@ EXCEPT !.index = cache]]
    /\ UNCHANGED <<backend, disk, mtime, store, heap, cache, lock, drift, lapses>>

(* Mutant of LoadFile: an index that is missing is read as an empty one.   *)
LoadFile_Missing(o) ==
    /\ pc[o] = "load" /\ cache = NoOp
    /\ Goes(o, "parse")
    /\ frame' = [frame EXCEPT ![o].raw = saved]
    /\ UNCHANGED <<backend, disk, mtime, store, heap, cache, lock, drift, lapses>>

(* ... and without one the file is read, and parsed some time later: what   *)
(* was read is cached, also if the file has been replaced or removed since. *)
LoadFile(o) ==
    /\ pc[o] = "load" /\ cache = NoOp /\ saved # NoIndex
    /\ Goes(o, "parse")
    /\ frame' = [frame EXCEPT ![o].raw = saved]
    /\ UNCHANGED <<backend, disk, mtime, store, heap, cache, lock, drift, lapses>>

Parse(o) ==
    /\ pc[o] = "parse"
    /\ heap' = [heap EXCEPT ![o] = frame[o].raw]
    /\ cache' = o
    /\ Lapses("overtaken", saved # frame[o].raw)
    /\ Goes(o, Loaded(o))
    /\ frame' = [frame EXCEPT ![o] =
         IF Loaded(o) = "done" THEN NoFrame ELSE [@ EXCEPT !.index = o, !.raw = NoIndex]]
    /\ UNCHANGED <<backend, disk, mtime, store, lock, drift>>

(* There is no index: the operation fails. *)
LoadFails(o) ==
    /\ pc[o] = "load" /\ cache = NoOp /\ saved = NoIndex
    /\ Ends(o)
    /\ UNCHANGED <<backend, disk, mtime, store, heap, cache, drift, lapses>>

-----------------------------------------------------------------------------
(* Looking at the files: discoverFiles and _scanChanges.                    *)

(* Mutant of Known: only the size is compared.                             *)
Known_Sized(o) ==
    IF frame[o].kind = "index" THEN {}
    ELSE {f \in File : Has(disk, f) /\ Has(Mine(o), f)}

(* A sync takes a file for unchanged if its mtime is the record's. *)
Known(o) ==
    IF frame[o].kind = "index" THEN {}
    ELSE {f \in File : /\ Has(disk, f) /\ Has(Mine(o), f)
                       /\ Mine(o)[f].time = disk[f].time}

Discover(o) ==
    /\ pc[o] = "discover"
    /\ frame' = [frame EXCEPT ![o].known = Known(o), ![o].edits = {},
         ![o].seen = [f \in File |->
            IF f \in Known(o) THEN Mine(o)[f]
            ELSE [content |-> Absent, time |-> disk[f].time]]]
    /\ Goes(o, "read")
    /\ UNCHANGED <<backend, disk, mtime, store, heap, cache, lock, drift, lapses>>

(* The others are read after all were listed; one that has gone counts as   *)
(* absent.                                                                  *)
ReadFiles(o) ==
    /\ pc[o] = "read"
    /\ frame' = [frame EXCEPT ![o].seen = [f \in File |->
         IF f \in frame[o].known THEN @[f]
         ELSE IF @[f].time = 0 \/ ~Has(disk, f) THEN NoRecord
         ELSE [content |-> disk[f].content, time |-> @[f].time]]]
    /\ Goes(o, "remove")
    /\ UNCHANGED <<backend, disk, mtime, store, heap, cache, lock, drift, lapses>>

-----------------------------------------------------------------------------
(* A sync, or an index from scratch: the index becomes what was seen.       *)

(* Mutant of Replaced: only files that have gone are removed.              *)
Replaced_Gone(o) == {f \in File : Has(Mine(o), f) /\ ~Has(frame[o].seen, f)}

(* The files a sync removes, to add what it has read of them. *)
Replaced(o) == {f \in File : Has(Mine(o), f)
                             /\ Mine(o)[f].content # frame[o].seen[f].content}

Remove(o) ==
    LET gone == IF frame[o].kind = "index" THEN File ELSE Replaced(o)
    IN  /\ pc[o] = "remove"
        /\ vectors' = [f \in File |-> IF f \in gone THEN Absent ELSE vectors[f]]
        /\ heap' = IF frame[o].kind = "index" THEN heap
                   ELSE [heap EXCEPT ![frame[o].index] =
                           [f \in File |-> IF f \in gone THEN NoRecord ELSE @[f]]]
        /\ Goes(o, "push")
        /\ UNCHANGED <<backend, disk, mtime, saved, rebuilt, cache, lock, frame, drift, lapses>>

(* Files that are new to the index, and those that were touched. *)
Push(o) ==
    LET target == IF frame[o].kind = "index" THEN o ELSE frame[o].index
        before == IF frame[o].kind = "index" THEN Empty ELSE Mine(o)
        new == {f \in File : Has(frame[o].seen, f) /\ ~Has(before, f)}
    IN  /\ pc[o] = "push" /\ frame[o].kind # "update"
        /\ heap' = [heap EXCEPT ![target] = frame[o].seen]
        /\ vectors' = [f \in File |->
             IF f \in new THEN frame[o].seen[f].content ELSE vectors[f]]
        /\ frame' = [frame EXCEPT ![o].index = target]
        /\ Goes(o, "save")
        /\ UNCHANGED <<backend, disk, mtime, saved, rebuilt, cache, lock, drift, lapses>>

-----------------------------------------------------------------------------
(* An update of one file (_applyFileUpdates).                               *)

Splice(o) ==
    LET f == frame[o].file
    IN  /\ pc[o] = "splice"
        /\ heap' = [heap EXCEPT ![frame[o].index][f] = NoRecord]
        /\ vectors' = IF Has(Mine(o), f) THEN [vectors EXCEPT ![f] = Absent] ELSE vectors
        /\ frame' = [frame EXCEPT ![o].todo = {"content", "stat"}, ![o].edits = {}]
        /\ Goes(o, "fetch")
        /\ UNCHANGED <<backend, disk, mtime, saved, rebuilt, cache, lock, drift, lapses>>

(* The content and the mtime are read in parallel. *)
FetchContent(o) ==
    LET f == frame[o].file
    IN  /\ pc[o] = "fetch" /\ "content" \in frame[o].todo
        /\ frame' = [frame EXCEPT ![o].seen[f].content = disk[f].content,
                                  ![o].at = disk[f].time, ![o].todo = @ \ {"content"}]
        /\ UNCHANGED <<backend, disk, mtime, store, heap, cache, lock, pc, drift, lapses>>

FetchStat(o) ==
    LET f == frame[o].file
    IN  /\ pc[o] = "fetch" /\ "stat" \in frame[o].todo
        /\ frame' = [frame EXCEPT ![o].seen[f].time = disk[f].time, ![o].todo = @ \ {"stat"}]
        /\ UNCHANGED <<backend, disk, mtime, store, heap, cache, lock, pc, drift, lapses>>

(* What an update indexes: the content it was given, or that of the file.   *)
Given(o) == IF frame[o].content # Absent THEN frame[o].content
            ELSE frame[o].seen[frame[o].file].content

(* Mutant of Found: the mtime is recorded with any content. *)
Found_Timed(o) ==
    IF Given(o) = Absent THEN NoRecord
    ELSE [content |-> Given(o), time |-> frame[o].seen[frame[o].file].time]

(* The mtime is recorded only with the content of the file. *)
Found(o) ==
    LET seen == frame[o].seen[frame[o].file]
    IN  IF Given(o) = Absent THEN NoRecord
        ELSE [content |-> Given(o), time |-> IF Given(o) = seen.content THEN seen.time ELSE 0]

PushUpdate(o) ==
    LET f == frame[o].file
    IN  /\ pc[o] = "fetch" /\ frame[o].todo = {}
        /\ heap' = [heap EXCEPT ![frame[o].index][f] = Found(o)]
        /\ vectors' = IF Given(o) = Absent THEN vectors ELSE [vectors EXCEPT ![f] = Given(o)]
        /\ Lapses("skewed", Found(o).time > frame[o].at)
        /\ Goes(o, "save")
        /\ UNCHANGED <<backend, disk, mtime, saved, rebuilt, cache, lock, frame, drift>>

-----------------------------------------------------------------------------
(* The end of a write.                                                     *)

(* Every file agrees with a new index or sync, but those that were changed  *)
(* after it looked; an update speaks for its file.                          *)
Drifted(o) ==
    IF frame[o].kind # "update" THEN frame[o].edits
    ELSE IF frame[o].file \in frame[o].edits \/ frame[o].content # Absent
         THEN drift \cup {frame[o].file} ELSE drift \ {frame[o].file}

(* index.json is replaced by a rename... *)
Save(o) ==
    /\ pc[o] = "save"
    /\ saved' = Mine(o)
    /\ drift' = Drifted(o)
    /\ Goes(o, "publish")
    /\ UNCHANGED <<backend, disk, mtime, vectors, rebuilt, heap, cache, lock, frame, lapses>>

(* ... and the object that was saved is cached. *)
Publish(o) ==
    /\ pc[o] = "publish"
    /\ cache' = frame[o].index
    /\ rebuilt' = IF frame[o].kind = "index" THEN FALSE ELSE rebuilt
    /\ Ends(o)
    /\ UNCHANGED <<backend, disk, mtime, saved, vectors, heap, drift, lapses>>

(* Mutant of Uncached: the cached object stays. *)
Uncached_Never(o) == UNCHANGED cache

(* A sync or an update that fails has edited the cached object. *)
Uncached(o) == cache' = IF frame[o].kind = "index" THEN cache ELSE NoOp

(* The disk is full, or the store refuses vectors: what was done to the     *)
(* vectors is not undone.                                                   *)
Fails(o) ==
    /\ \/ pc[o] \in {"discover", "save"}
       \/ backend = "zvec" /\ (pc[o] = "push" \/ (pc[o] = "fetch" /\ frame[o].todo = {}))
    /\ Uncached(o)
    /\ Lapses("failed", pc[o] # "discover")
    /\ Ends(o)
    /\ UNCHANGED <<backend, disk, mtime, store, heap, drift>>

(* delete_repo: the caches first, then the vectors and the files. *)
Forget(o) ==
    /\ pc[o] = "lock" /\ lock = NoOp /\ frame[o].kind = "delete"
    /\ lock' = o
    /\ cache' = NoOp
    /\ rebuilt' = FALSE
    /\ Goes(o, "drop")
    /\ UNCHANGED <<backend, disk, mtime, saved, vectors, heap, frame, drift, lapses>>

Drop(o) ==
    /\ pc[o] = "drop"
    /\ vectors' = [f \in File |-> Absent]
    /\ saved' = NoIndex
    /\ Lapses("overtaken", cache # NoOp)
    /\ Ends(o)
    /\ UNCHANGED <<backend, disk, mtime, rebuilt, heap, cache, drift>>

-----------------------------------------------------------------------------
(* A semantic search (_ensureMemoryVectors): a store in memory that has     *)
(* fewer vectors than the index has symbols is filled from the index, once. *)

Missing(o) ==
    /\ backend = "memory"
    /\ Cardinality({f \in File : vectors[f] # Absent}) < Cardinality({f \in File : Has(Mine(o), f)})

Rebuild(o) ==
    /\ pc[o] = "vectors"
    /\ vectors' = IF Missing(o) /\ ~rebuilt
                  THEN [f \in File |-> IF Has(Mine(o), f) THEN Mine(o)[f].content
                                       ELSE vectors[f]]
                  ELSE vectors
    /\ rebuilt' = (rebuilt \/ Missing(o))
    /\ Lapses("outdated", \E f \in File : vectors'[f] # vectors[f] /\ vectors[f] # Absent)
    /\ Ends(o)
    /\ UNCHANGED <<backend, disk, mtime, saved, heap, cache, drift>>

-----------------------------------------------------------------------------
(* The rest of the world.                                                  *)

(* Somebody writes a file, touches it, or removes it. *)
Edit(f, c) ==
    /\ Has(disk, f) \/ c # Absent
    /\ mtime' = mtime + 1
    /\ disk' = [disk EXCEPT ![f] =
         IF c = Absent THEN NoRecord ELSE [content |-> c, time |-> mtime + 1]]
    /\ drift' = drift \cup {f}
    /\ frame' = [o \in Op |-> IF frame[o] = NoFrame THEN NoFrame
                              ELSE [frame[o] EXCEPT !.edits = @ \cup {f}]]
    /\ UNCHANGED <<backend, store, heap, cache, lock, pc, lapses>>

(* The cached object has been there for a minute. *)
Expire ==
    /\ cache # NoOp
    /\ cache' = NoOp
    /\ UNCHANGED <<backend, disk, mtime, store, heap, lock, pc, frame, drift, lapses>>

(* The process dies and starts again. *)
Restart ==
    /\ cache' = NoOp
    /\ rebuilt' = FALSE
    /\ lock' = NoOp
    /\ pc' = [o \in Op |-> IF pc[o] = "new" THEN "new" ELSE "done"]
    /\ frame' = [o \in Op |-> NoFrame]
    /\ vectors' = IF backend = "memory" THEN [f \in File |-> Absent] ELSE vectors
    /\ Lapses("failed", backend = "zvec" /\ \E o \in Op : pc[o] \in {"push", "fetch", "save"})
    /\ UNCHANGED <<backend, disk, mtime, saved, heap, drift>>

-----------------------------------------------------------------------------
Step(o) ==
    \/ Lock(o) \/ LoadCached(o) \/ LoadFile(o) \/ Parse(o) \/ LoadFails(o)
    \/ Discover(o) \/ ReadFiles(o) \/ Remove(o) \/ Push(o)
    \/ Splice(o) \/ FetchContent(o) \/ FetchStat(o) \/ PushUpdate(o)
    \/ Save(o) \/ Publish(o) \/ Forget(o) \/ Drop(o) \/ Rebuild(o)

Start == \E o \in Op :
    \/ \E f \in File, c \in Content \cup {Absent} : Request(o, "update", f, c)
    \/ \E kind \in (Writer \cup Reader) \ {"update"} : Request(o, kind, NoOp, Absent)

Edits == \E f \in File, c \in Content \cup {Absent} : Edit(f, c)

Fault == Restart \/ \E o \in Op : Fails(o)

Next == (\E o \in Op : Step(o)) \/ Start \/ Edits \/ Expire \/ Fault

Spec == Init /\ [][Next]_vars

-----------------------------------------------------------------------------
(* Properties.                                                             *)

(* "Taken as unchanged without being read" (codeIndexService.ts:1806): a    *)
(* record with the mtime of the file has its content, whatever edits,       *)
(* touches and reverts came between the listing and the reading of files -  *)
(* unless an update has read a file and its mtime around an edit.           *)
MatchedIsRead ==
    "skewed" \notin lapses =>
        \A f \in File : saved # NoIndex /\ Has(saved, f) /\ Has(disk, f)
                             /\ saved[f].time = disk[f].time
                            => saved[f].content = disk[f].content

(* "Bring an index up to date with the disk" (:1927): after an index or a   *)
(* sync every file that was not changed since it looked agrees with the     *)
(* index, whatever updates, failures and restarts came before and after.    *)
SyncedAgrees ==
    lapses \cap {"skewed", "overtaken"} = {} /\ saved # NoIndex =>
        \A f \in File \ drift : saved[f].content = disk[f].content

(* "Force a reload from disk" (:1704): when nobody is writing, the object   *)
(* that all operations share, and that the next update will save, is what   *)
(* index.json says - unless a reader has cached a file that was replaced or *)
(* removed while it was parsing.                                            *)
CacheIsSaved ==
    "overtaken" \notin lapses /\ lock = NoOp /\ cache # NoOp => heap[cache] = saved

(* "Rebuild the collection when it falls out of sync" (:1221): when nobody  *)
(* is writing, every symbol of the index has the vector of its content, or  *)
(* the next search will give it one - unless a search put vectors back that *)
(* a writer had replaced, or a write failed half way.                       *)
ToBeRebuilt == /\ backend = "memory" /\ ~rebuilt
               /\ Cardinality({f \in File : vectors[f] # Absent})
                    < Cardinality({f \in File : Has(saved, f)})
VectorsFollow ==
    lapses \subseteq {"skewed"} /\ lock = NoOp /\ saved # NoIndex =>
        \A f \in File : Has(saved, f) =>
            vectors[f] = saved[f].content \/ (vectors[f] = Absent /\ ToBeRebuilt)
===============================================================================
