---------------------------- MODULE CodeIndexProofs ----------------------------
(***************************************************************************)
(* What the index of a folder promises, for any number of operations, files *)
(* and edits: what is taken for unchanged was read, the object operations   *)
(* share is what is saved, a sync leaves no file behind, and every symbol   *)
(* of the index has its vector or will get it.                              *)
(***************************************************************************)
EXTENDS CodeIndex, FiniteSetTheorems, TLAPS

(* What an operation at work knows. *)
Fits(o) ==
    LET kind == frame[o].kind
    IN  /\ kind = "update" => frame[o].file \in File
        /\ pc[o] = "lock" => kind \in Writer
        /\ pc[o] \in {"load", "parse"} => kind \in {"sync", "update", "search", "read"}
        /\ pc[o] = "parse" => frame[o].raw \in Index
        /\ pc[o] \in {"discover", "read", "remove", "push"} => kind \in {"index", "sync"}
        /\ pc[o] \in {"splice", "fetch"} => kind = "update"
        /\ pc[o] \in {"save", "publish"} => kind \in {"index", "sync", "update"}
        /\ pc[o] = "drop" => kind = "delete"
        /\ pc[o] = "vectors" => kind = "search"
        /\ \/ pc[o] \in {"splice", "fetch", "save", "publish", "vectors"}
           \/ pc[o] \in {"discover", "read", "remove", "push"} /\ kind = "sync"
           => frame[o].index \in Op

Live(o) == pc[o] \notin {"new", "done"}
Locals == \A o \in Op : Live(o) => Fits(o)

-----------------------------------------------------------------------------
(* Types.                                                                  *)

LEMMA Kinds ==
    /\ Writer = {"index", "sync", "update", "delete"} /\ Reader = {"search", "read"}
    /\ NoRecord \in Record /\ Empty \in Index /\ NoIndex \notin Index
<1>1. NoRecord \in Record /\ Empty \in Index
  BY DEF NoRecord, Record, Empty, Index
<1>2. NoIndex \notin Index
  <2>1. DOMAIN NoIndex = {}
    BY DEF NoIndex
  <2>2. \A x \in Index : DOMAIN x = File
    BY DEF Index
  <2> QED
    BY <2>1, <2>2, ConstantsAssumption DEF ConstantsAssumption
<1> QED
  BY <1>1, <1>2 DEF Writer, Reader

(* A step of o leaves what the others know. *)
LEMMA OthersFit ==
    ASSUME TypeOK, Locals, NEW o \in Op, NEW phase \in Phase, Goes(o, phase),
           NEW F \in Frame \cup {NoFrame}, frame' = [frame EXCEPT ![o] = F],
           phase \notin {"new", "done"} => F \in Frame /\ Fits(o)'
    PROVE  /\ pc' \in [Op -> Phase] /\ frame' \in [Op -> Frame \cup {NoFrame}]
           /\ \A p \in Op : pc'[p] \notin {"new", "done"} => frame'[p] \in Frame
           /\ Locals'
<1>1. pc' = [pc EXCEPT ![o] = phase] /\ pc \in [Op -> Phase] /\ frame \in [Op -> Frame \cup {NoFrame}]
  BY DEF Goes, TypeOK
<1>2. pc'[o] = phase /\ frame'[o] = F
  BY <1>1
<1>3. \A p \in Op : p # o => pc'[p] = pc[p] /\ frame'[p] = frame[p]
  BY <1>1
<1>4. pc' \in [Op -> Phase] /\ frame' \in [Op -> Frame \cup {NoFrame}]
  BY <1>1
<1>5. \A p \in Op : pc'[p] \notin {"new", "done"} => frame'[p] \in Frame
  BY <1>2, <1>3 DEF TypeOK
<1>6. ASSUME NEW p \in Op, Live(p)' PROVE Fits(p)'
  <2>1. CASE p = o
    BY <1>2, <1>6, <2>1 DEF Live
  <2>2. CASE p # o
    BY <1>3, <1>6, <2>2 DEF Live, Locals, Fits
  <2> QED
    BY <2>1, <2>2
<1> QED
  BY <1>4, <1>5, <1>6 DEF Locals

LEMMA EndsFit ==
    ASSUME TypeOK, Locals, NEW o \in Op, Ends(o)
    PROVE  /\ pc' \in [Op -> Phase] /\ frame' \in [Op -> Frame \cup {NoFrame}]
           /\ \A p \in Op : pc'[p] \notin {"new", "done"} => frame'[p] \in Frame
           /\ Locals' /\ lock' \in Op \cup {NoOp}
<1>1. Goes(o, "done") /\ frame' = [frame EXCEPT ![o] = NoFrame] /\ "done" \in Phase
  BY DEF Ends, Phase
<1>2. lock' \in Op \cup {NoOp}
  BY DEF Ends, TypeOK
<1> QED
  BY <1>1, <1>2, OthersFit

(* The frame stays. *)
LEMMA GoesFit ==
    ASSUME TypeOK, Locals, NEW o \in Op, NEW phase \in Phase, Goes(o, phase),
           UNCHANGED frame, frame[o] \in Frame, Fits(o)'
    PROVE  /\ pc' \in [Op -> Phase] /\ frame' \in [Op -> Frame \cup {NoFrame}]
           /\ \A p \in Op : pc'[p] \notin {"new", "done"} => frame'[p] \in Frame
           /\ Locals'
<1>1. frame' = [frame EXCEPT ![o] = frame[o]]
  BY DEF TypeOK
<1> QED
  BY <1>1, OthersFit

LEMMA RequestTyped ==
    ASSUME TypeOK, Locals, NEW o \in Op, NEW kind \in Writer \cup Reader,
           NEW f \in File \cup {NoOp}, kind = "update" => f \in File,
           NEW c \in Content \cup {Absent}, Request(o, kind, f, c)
    PROVE  TypeOK' /\ Locals'
<1> DEFINE phase == IF kind \in Writer THEN "lock" ELSE "load"
           F == [kind |-> kind, index |-> NoOp, raw |-> NoIndex, seen |-> Empty, known |-> {},
                 edits |-> {}, file |-> f, content |-> c, todo |-> {}, at |-> 0]
<1>1. F \in Frame
  BY Kinds DEF Frame
<1>2. phase \in Phase /\ Goes(o, phase) /\ frame' = [frame EXCEPT ![o] = F]
  BY DEF Request, Phase
<1>3. Fits(o)'
  <2>1. pc'[o] = phase /\ frame'[o] = F
    BY <1>2 DEF Goes, TypeOK
  <2>2. phase \in {"lock", "load"} /\ (phase = "lock" => kind \in Writer)
        /\ (phase = "load" => kind \in {"sync", "update", "search", "read"})
    BY Kinds
  <2> HIDE DEF phase
  <2> QED
    BY <2>1, <2>2 DEF Fits
<1> HIDE DEF F, phase
<1>4. /\ pc' \in [Op -> Phase] /\ frame' \in [Op -> Frame \cup {NoFrame}]
      /\ \A p \in Op : pc'[p] \notin {"new", "done"} => frame'[p] \in Frame
      /\ Locals'
  BY <1>1, <1>2, <1>3, OthersFit
<1> QED
  BY <1>4 DEF Request, TypeOK, store

LEMMA LockTyped ==
    ASSUME TypeOK, Locals, NEW o \in Op, Lock(o)
    PROVE  TypeOK' /\ Locals'
<1> DEFINE phase == IF frame[o].kind = "index" THEN "discover" ELSE "load"
<1>1. phase \in Phase /\ Goes(o, phase) /\ UNCHANGED frame
  BY DEF Lock, Phase
<1>2. frame[o] \in Frame /\ Fits(o) /\ pc'[o] = phase /\ frame[o].kind # "delete"
  BY DEF Lock, TypeOK, Locals, Live, Goes
<1>3. frame[o].kind \in Writer
  BY <1>2 DEF Fits, Lock
<1>4. Fits(o)'
  BY <1>1, <1>2, <1>3, Kinds DEF Fits
<1>5. /\ pc' \in [Op -> Phase] /\ frame' \in [Op -> Frame \cup {NoFrame}]
      /\ \A p \in Op : pc'[p] \notin {"new", "done"} => frame'[p] \in Frame
      /\ Locals'
  BY <1>1, <1>2, <1>4, GoesFit
<1> QED
  BY <1>5 DEF Lock, TypeOK, store

(* What loading leads to. *)
LEMMA LoadedTyped ==
    ASSUME TypeOK, Locals, NEW o \in Op, pc[o] \in {"load", "parse"}, NEW i \in Op,
           Goes(o, Loaded(o)),
           frame' = [frame EXCEPT ![o] =
               IF Loaded(o) = "done" THEN NoFrame ELSE [@ EXCEPT !.index = i]]
           \/ frame' = [frame EXCEPT ![o] =
               IF Loaded(o) = "done" THEN NoFrame ELSE [@ EXCEPT !.index = i, !.raw = NoIndex]]
    PROVE  /\ pc' \in [Op -> Phase] /\ frame' \in [Op -> Frame \cup {NoFrame}]
           /\ \A p \in Op : pc'[p] \notin {"new", "done"} => frame'[p] \in Frame
           /\ Locals'
<1> DEFINE phase == Loaded(o)
           F == frame'[o]
<1>1. frame[o] \in Frame /\ Fits(o) /\ frame[o].kind \in {"sync", "update", "search", "read"}
  BY DEF TypeOK, Locals, Live, Fits
<1>2. phase \in Phase /\ phase = CASE frame[o].kind = "sync" -> "discover"
        [] frame[o].kind = "update" -> "splice" [] frame[o].kind = "search" -> "vectors"
        [] OTHER -> "done"
  BY <1>1 DEF Loaded, Phase
<1>3. frame' = [frame EXCEPT ![o] = F]
  BY DEF TypeOK
<1>4. CASE phase = "done"
  <2>1. F = NoFrame
    BY <1>4 DEF TypeOK
  <2> HIDE DEF F
  <2> QED
    BY <1>2, <1>3, <1>4, <2>1, OthersFit
<1>5. CASE phase # "done"
  <2>1. F \in Frame /\ F.index = i /\ F.kind = frame[o].kind /\ F.file = frame[o].file
    <3>1. \/ F = [frame[o] EXCEPT !.index = i]
          \/ F = [frame[o] EXCEPT !.index = i, !.raw = NoIndex]
      BY <1>5 DEF TypeOK
    <3> QED
      BY <1>1, <3>1, ZenonT(80) DEF Frame
  <2>2. Fits(o)'
    <3>1. pc'[o] = phase /\ frame'[o] = F
      BY DEF Goes, TypeOK
    <3> HIDE DEF F
    <3> QED
      BY <1>1, <1>2, <1>5, <2>1, <3>1 DEF Fits
  <2> HIDE DEF F
  <2> QED
    BY <1>2, <1>3, <2>1, <2>2, OthersFit
<1> QED
  BY <1>4, <1>5

LEMMA LoadTyped ==
    ASSUME TypeOK, Locals, NEW o \in Op,
           LoadCached(o) \/ LoadFile(o) \/ Parse(o) \/ LoadFails(o)
    PROVE  TypeOK' /\ Locals'
<1>1. CASE LoadCached(o)
  <2>1. cache \in Op
    BY <1>1 DEF LoadCached, TypeOK
  <2>2. /\ pc' \in [Op -> Phase] /\ frame' \in [Op -> Frame \cup {NoFrame}]
        /\ \A p \in Op : pc'[p] \notin {"new", "done"} => frame'[p] \in Frame
        /\ Locals'
    BY <1>1, <2>1, LoadedTyped DEF LoadCached
  <2> QED
    BY <1>1, <2>2 DEF LoadCached, TypeOK, store
<1>2. CASE LoadFile(o)
  <2> DEFINE F == [frame[o] EXCEPT !.raw = saved]
  <2>1. frame[o] \in Frame /\ Fits(o) /\ saved \in Index
    BY <1>2 DEF LoadFile, TypeOK, Locals, Live
  <2>2. F \in Frame /\ frame' = [frame EXCEPT ![o] = F] /\ F.raw = saved /\ F.kind = frame[o].kind
        /\ F.file = frame[o].file
    BY <1>2, <2>1 DEF LoadFile, Frame, TypeOK
  <2>3. Fits(o)'
    <3>1. pc'[o] = "parse" /\ frame'[o] = F
      BY <1>2 DEF LoadFile, Goes, TypeOK
    <3> HIDE DEF F
    <3> QED
      BY <1>2, <2>1, <2>2, <3>1 DEF Fits, LoadFile
  <2> HIDE DEF F
  <2>4. "parse" \in Phase /\ Goes(o, "parse")
    BY <1>2 DEF LoadFile, Phase
  <2>5. /\ pc' \in [Op -> Phase] /\ frame' \in [Op -> Frame \cup {NoFrame}]
        /\ \A p \in Op : pc'[p] \notin {"new", "done"} => frame'[p] \in Frame
        /\ Locals'
    BY <2>2, <2>3, <2>4, OthersFit
  <2> QED
    BY <1>2, <2>5 DEF LoadFile, TypeOK, store
<1>3. CASE Parse(o)
  <2>1. frame[o].raw \in Index
    BY <1>3 DEF Parse, TypeOK, Locals, Live, Fits
  <2>2. /\ pc' \in [Op -> Phase] /\ frame' \in [Op -> Frame \cup {NoFrame}]
        /\ \A p \in Op : pc'[p] \notin {"new", "done"} => frame'[p] \in Frame
        /\ Locals'
    BY <1>3, LoadedTyped DEF Parse
  <2>3. heap' \in [Op -> Index] /\ cache' \in Op \cup {NoOp}
        /\ lapses' \subseteq {"overtaken", "skewed", "outdated", "failed"}
    BY <1>3, <2>1 DEF Parse, TypeOK, Lapses
  <2> QED
    BY <1>3, <2>2, <2>3 DEF Parse, TypeOK, store
<1>4. CASE LoadFails(o)
  <2>1. Ends(o)
    BY <1>4 DEF LoadFails
  <2> QED
    BY <1>4, <2>1, EndsFit DEF LoadFails, TypeOK, store
<1> QED
  BY <1>1, <1>2, <1>3, <1>4

(* A step of a writer that sets its frame to F. *)
LEMMA FrameSet ==
    ASSUME TypeOK, Locals, NEW o \in Op,
           NEW phase \in {"discover", "read", "remove", "push", "splice", "fetch", "save", "publish"},
           Goes(o, phase), Live(o),
           NEW F \in Frame, frame' = [frame EXCEPT ![o] = F],
           F.kind = frame[o].kind, F.file = frame[o].file,
           phase \in {"discover", "read", "remove", "push"} => F.kind \in {"index", "sync"},
           phase \in {"splice", "fetch"} => F.kind = "update",
           phase \in {"save", "publish"} => F.kind \in {"index", "sync", "update"},
           (F.kind = "index" /\ phase \in {"discover", "read", "remove", "push"}) \/ F.index \in Op
    PROVE  /\ pc' \in [Op -> Phase] /\ frame' \in [Op -> Frame \cup {NoFrame}]
           /\ \A p \in Op : pc'[p] \notin {"new", "done"} => frame'[p] \in Frame
           /\ Locals'
<1>1. Fits(o)'
  <2>1. pc'[o] = phase /\ frame'[o] = F /\ Fits(o)
    BY DEF Goes, TypeOK, Locals
  <2> QED
    BY <2>1 DEF Fits
<1>2. phase \in Phase
  BY DEF Phase
<1> QED
  BY <1>1, <1>2, OthersFit

LEMMA LookTyped ==
    ASSUME TypeOK, Locals, NEW o \in Op, Discover(o) \/ ReadFiles(o)
    PROVE  TypeOK' /\ Locals'
<1>0. frame[o] \in Frame /\ Fits(o) /\ disk \in Index /\ Live(o)
  BY DEF Discover, ReadFiles, TypeOK, Locals, Live
<1>1. CASE Discover(o)
  <2> DEFINE S == [f \in File |-> IF f \in Known(o) THEN Mine(o)[f]
                                  ELSE [content |-> Absent, time |-> disk[f].time]]
             F == [frame[o] EXCEPT !.known = Known(o), !.edits = {}, !.seen = S]
  <2>1. Known(o) \subseteq File /\ (frame[o].kind = "index" => Known(o) = {})
    BY DEF Known
  <2>2. frame[o].kind # "index" => Mine(o) \in Index
    BY <1>0, <1>1 DEF Fits, Discover, Mine, TypeOK
  <2>3. S \in Index
    BY <1>0, <2>1, <2>2 DEF Index, Record
  <2>4. frame' = [frame EXCEPT ![o] = F]
    BY <1>1, <2>1 DEF Discover, TypeOK
  <2> HIDE DEF S
  <2>5. F \in Frame /\ F.kind = frame[o].kind /\ F.file = frame[o].file /\ F.index = frame[o].index
    BY <1>0, <2>1, <2>3 DEF Frame
  <2> HIDE DEF F
  <2>6. "read" \in Phase /\ Goes(o, "read") /\ F.kind \in {"index", "sync"}
        /\ (F.kind = "index" \/ F.index \in Op)
    BY <1>0, <1>1, <2>5 DEF Discover, Phase, Fits
  <2>7. /\ pc' \in [Op -> Phase] /\ frame' \in [Op -> Frame \cup {NoFrame}]
        /\ \A p \in Op : pc'[p] \notin {"new", "done"} => frame'[p] \in Frame
        /\ Locals'
    BY <1>0, <2>4, <2>5, <2>6, FrameSet
  <2> QED
    BY <1>1, <2>7 DEF Discover, TypeOK, store
<1>2. CASE ReadFiles(o)
  <2> DEFINE S == [f \in File |->
                     IF f \in frame[o].known THEN frame[o].seen[f]
                     ELSE IF frame[o].seen[f].time = 0 \/ ~Has(disk, f) THEN NoRecord
                     ELSE [content |-> disk[f].content, time |-> frame[o].seen[f].time]]
             F == [frame[o] EXCEPT !.seen = S]
  <2>1. S \in Index
    BY <1>0, Kinds DEF Frame, Index, Record
  <2>2. frame' = [frame EXCEPT ![o] = F]
    BY <1>2, <1>0 DEF ReadFiles, TypeOK
  <2> HIDE DEF S
  <2>3. F \in Frame /\ F.kind = frame[o].kind /\ F.file = frame[o].file /\ F.index = frame[o].index
    BY <1>0, <2>1 DEF Frame
  <2> HIDE DEF F
  <2>4. "remove" \in Phase /\ Goes(o, "remove") /\ F.kind \in {"index", "sync"}
        /\ (F.kind = "index" \/ F.index \in Op)
    BY <1>0, <1>2, <2>3 DEF ReadFiles, Phase, Fits
  <2>5. /\ pc' \in [Op -> Phase] /\ frame' \in [Op -> Frame \cup {NoFrame}]
        /\ \A p \in Op : pc'[p] \notin {"new", "done"} => frame'[p] \in Frame
        /\ Locals'
    BY <1>0, <2>2, <2>3, <2>4, FrameSet
  <2> QED
    BY <1>2, <2>5 DEF ReadFiles, TypeOK, store
<1> QED
  BY <1>1, <1>2

LEMMA ReplaceTyped ==
    ASSUME TypeOK, Locals, NEW o \in Op, Remove(o) \/ Push(o)
    PROVE  TypeOK' /\ Locals'
<1>0. frame[o] \in Frame /\ Fits(o) /\ Live(o) /\ frame[o].seen \in Index
      /\ frame[o].kind \in {"index", "sync"} /\ (frame[o].kind # "index" => frame[o].index \in Op)
  BY DEF Remove, Push, TypeOK, Locals, Live, Fits, Frame
<1>1. CASE Remove(o)
  <2>1. vectors' \in [File -> Content \cup {Absent}]
    BY <1>1 DEF Remove, TypeOK
  <2>2. heap' \in [Op -> Index]
    <3>1. CASE frame[o].kind = "index"
      BY <1>1, <3>1 DEF Remove, TypeOK
    <3>2. CASE frame[o].kind # "index"
      <4> DEFINE i == frame[o].index
                 X == [f \in File |-> IF f \in Replaced(o) THEN NoRecord ELSE heap[i][f]]
      <4>1. i \in Op /\ heap[i] \in Index
        BY <1>0, <3>2 DEF TypeOK
      <4>2. X \in Index
        BY <4>1, Kinds DEF Index
      <4>3. heap' = [heap EXCEPT ![i] = X]
        BY <1>1, <3>2, <4>1 DEF Remove, TypeOK
      <4> HIDE DEF X
      <4> QED
        BY <4>1, <4>2, <4>3 DEF TypeOK
    <3> QED
      BY <3>1, <3>2
  <2>3. /\ pc' \in [Op -> Phase] /\ frame' \in [Op -> Frame \cup {NoFrame}]
        /\ \A p \in Op : pc'[p] \notin {"new", "done"} => frame'[p] \in Frame
        /\ Locals'
    <3>1. frame' = [frame EXCEPT ![o] = frame[o]]
      BY <1>1 DEF Remove, TypeOK
    <3>2. "push" \in Phase /\ Goes(o, "push")
      BY <1>1 DEF Remove, Phase
    <3> QED
      BY <1>0, <3>1, <3>2, FrameSet
  <2> QED
    BY <1>1, <2>1, <2>2, <2>3 DEF Remove, TypeOK
<1>2. CASE Push(o)
  <2> DEFINE target == IF frame[o].kind = "index" THEN o ELSE frame[o].index
             F == [frame[o] EXCEPT !.index = target]
  <2>1. target \in Op
    BY <1>0
  <2>2. heap' \in [Op -> Index] /\ frame' = [frame EXCEPT ![o] = F]
    BY <1>0, <1>2, <2>1 DEF Push, TypeOK
  <2>3. vectors' \in [File -> Content \cup {Absent}]
    <3>1. \A f \in File : frame[o].seen[f].content \in Content \cup {Absent}
      BY <1>0 DEF Index, Record
    <3>2. \A f \in File : vectors[f] \in Content \cup {Absent}
      BY DEF TypeOK
    <3>3. vectors' = [f \in File |-> vectors'[f]]
          /\ \A f \in File : vectors'[f] = frame[o].seen[f].content \/ vectors'[f] = vectors[f]
      BY <1>2 DEF Push
    <3> QED
      BY <3>1, <3>2, <3>3
  <2> HIDE DEF target
  <2>4. F \in Frame /\ F.kind = frame[o].kind /\ F.file = frame[o].file /\ F.index = target
    BY <1>0, <2>1 DEF Frame
  <2> HIDE DEF F
  <2>5. "save" \in Phase /\ Goes(o, "save")
    BY <1>2 DEF Push, Phase
  <2>6. /\ pc' \in [Op -> Phase] /\ frame' \in [Op -> Frame \cup {NoFrame}]
        /\ \A p \in Op : pc'[p] \notin {"new", "done"} => frame'[p] \in Frame
        /\ Locals'
    BY <1>0, <2>1, <2>2, <2>4, <2>5, FrameSet
  <2> QED
    BY <1>2, <2>2, <2>3, <2>6 DEF Push, TypeOK
<1> QED
  BY <1>1, <1>2

LEMMA FoundTyped ==
    ASSUME TypeOK, Locals, NEW o \in Op, pc[o] = "fetch"
    PROVE  Given(o) \in Content \cup {Absent} /\ Found(o) \in Record
<1>1. frame[o] \in Frame /\ frame[o].file \in File /\ frame[o].seen[frame[o].file] \in Record
  BY DEF TypeOK, Locals, Live, Fits, Frame, Index
<1>2. Given(o) \in Content \cup {Absent}
  BY <1>1 DEF Given, Frame, Record
<1> QED
  BY <1>1, <1>2, Kinds DEF Found, Record

LEMMA UpdateTyped ==
    ASSUME TypeOK, Locals, NEW o \in Op,
           Splice(o) \/ FetchContent(o) \/ FetchStat(o) \/ PushUpdate(o)
    PROVE  TypeOK' /\ Locals'
<1> DEFINE f == frame[o].file
           i == frame[o].index
<1>0. /\ frame[o] \in Frame /\ Fits(o) /\ Live(o) /\ frame[o].kind = "update"
      /\ f \in File /\ i \in Op /\ heap[i] \in Index /\ disk[f] \in Record
      /\ frame[o].seen \in Index /\ frame[o].seen[f] \in Record
  <2>1. pc[o] \in {"splice", "fetch"}
    BY DEF Splice, FetchContent, FetchStat, PushUpdate
  <2>2. frame[o] \in Frame /\ Fits(o) /\ Live(o)
    BY <2>1 DEF TypeOK, Locals, Live
  <2>3. frame[o].kind = "update" /\ f \in File /\ i \in Op
    BY <2>1, <2>2 DEF Fits
  <2>4. frame[o].seen \in Index
    BY <2>2 DEF Frame
  <2>5. heap[i] \in Index /\ disk[f] \in Record /\ frame[o].seen[f] \in Record
    BY <2>3, <2>4 DEF TypeOK, Index
  <2> QED
    BY <2>2, <2>3, <2>4, <2>5
<1>1. CASE Splice(o)
  <2> DEFINE F == [frame[o] EXCEPT !.todo = {"content", "stat"}, !.edits = {}]
  <2>1. F \in Frame /\ F.kind = frame[o].kind /\ F.file = frame[o].file /\ F.index = i
        /\ frame' = [frame EXCEPT ![o] = F]
    BY <1>0, <1>1 DEF Splice, Frame, TypeOK
  <2>2. heap' \in [Op -> Index]
    <3>1. [heap[i] EXCEPT ![f] = NoRecord] \in Index
      BY <1>0, Kinds DEF Index
    <3> QED
      BY <1>0, <1>1, <3>1 DEF Splice, TypeOK
  <2>3. vectors' \in [File -> Content \cup {Absent}]
    BY <1>0, <1>1 DEF Splice, TypeOK
  <2> HIDE DEF F
  <2>4. "fetch" \in Phase /\ Goes(o, "fetch")
    BY <1>1 DEF Splice, Phase
  <2>5. /\ pc' \in [Op -> Phase] /\ frame' \in [Op -> Frame \cup {NoFrame}]
        /\ \A p \in Op : pc'[p] \notin {"new", "done"} => frame'[p] \in Frame
        /\ Locals'
    BY <1>0, <2>1, <2>4, FrameSet
  <2> QED
    BY <1>1, <2>2, <2>3, <2>5 DEF Splice, TypeOK
<1>2. CASE FetchContent(o) \/ FetchStat(o)
  <2> DEFINE F == frame'[o]
             s == frame[o].seen
  <2>1. F \in Frame /\ F.kind = frame[o].kind /\ F.file = f /\ F.index = i
        /\ frame' = [frame EXCEPT ![o] = F]
    <3>1. CASE FetchContent(o)
      <4>1. F = [frame[o] EXCEPT !.seen = [s EXCEPT ![f] = [@ EXCEPT !.content = disk[f].content]],
                   !.at = disk[f].time, !.todo = @ \ {"content"}]
            /\ frame' = [frame EXCEPT ![o] = F]
        BY <1>0, <3>1 DEF FetchContent, TypeOK, Frame
      <4>2. [s EXCEPT ![f] = [@ EXCEPT !.content = disk[f].content]] \in Index
        BY <1>0 DEF Index, Record
      <4>3. disk[f].time \in Nat
        BY <1>0 DEF Record
      <4> DEFINE S == [s EXCEPT ![f] = [@ EXCEPT !.content = disk[f].content]]
                 T == frame[o].todo \ {"content"}
      <4>4. T \in SUBSET {"content", "stat"}
        BY <1>0 DEF Frame
      <4>5. F = [frame[o] EXCEPT !.seen = S, !.at = disk[f].time, !.todo = T]
        BY <4>1
      <4> HIDE DEF F, S, T
      <4> QED
        BY <1>0, <4>1, <4>2, <4>3, <4>4, <4>5 DEF Frame, S
    <3>2. CASE FetchStat(o)
      <4>1. F = [frame[o] EXCEPT !.seen = [s EXCEPT ![f] = [@ EXCEPT !.time = disk[f].time]],
                   !.todo = @ \ {"stat"}]
            /\ frame' = [frame EXCEPT ![o] = F]
        BY <1>0, <3>2 DEF FetchStat, TypeOK, Frame
      <4>2. [s EXCEPT ![f] = [@ EXCEPT !.time = disk[f].time]] \in Index
        BY <1>0 DEF Index, Record
      <4> DEFINE S == [s EXCEPT ![f] = [@ EXCEPT !.time = disk[f].time]]
                 T == frame[o].todo \ {"stat"}
      <4>3. T \in SUBSET {"content", "stat"}
        BY <1>0 DEF Frame
      <4>4. F = [frame[o] EXCEPT !.seen = S, !.todo = T]
        BY <4>1
      <4> HIDE DEF F, S, T
      <4> QED
        BY <1>0, <4>1, <4>2, <4>3, <4>4 DEF Frame, S
    <3> QED
      BY <1>2, <3>1, <3>2
  <2> HIDE DEF F
  <2>2. "fetch" \in Phase /\ Goes(o, "fetch")
    BY <1>2 DEF FetchContent, FetchStat, Goes, Phase, TypeOK
  <2>3. /\ pc' \in [Op -> Phase] /\ frame' \in [Op -> Frame \cup {NoFrame}]
        /\ \A p \in Op : pc'[p] \notin {"new", "done"} => frame'[p] \in Frame
        /\ Locals'
    BY <1>0, <2>1, <2>2, FrameSet
  <2> QED
    BY <1>2, <2>3 DEF FetchContent, FetchStat, TypeOK, store
<1>3. CASE PushUpdate(o)
  <2>1. Given(o) \in Content \cup {Absent} /\ Found(o) \in Record
    BY <1>3, FoundTyped DEF PushUpdate
  <2>2. heap' \in [Op -> Index]
    <3>1. [heap[i] EXCEPT ![f] = Found(o)] \in Index
      BY <1>0, <2>1 DEF Index
    <3> QED
      BY <1>0, <1>3, <3>1 DEF PushUpdate, TypeOK
  <2>3. vectors' \in [File -> Content \cup {Absent}]
        /\ lapses' \subseteq {"overtaken", "skewed", "outdated", "failed"}
    BY <1>0, <1>3, <2>1 DEF PushUpdate, TypeOK, Lapses
  <2>4. /\ pc' \in [Op -> Phase] /\ frame' \in [Op -> Frame \cup {NoFrame}]
        /\ \A p \in Op : pc'[p] \notin {"new", "done"} => frame'[p] \in Frame
        /\ Locals'
    <3>1. frame' = [frame EXCEPT ![o] = frame[o]]
      BY <1>3 DEF PushUpdate, TypeOK
    <3>2. "save" \in Phase /\ Goes(o, "save")
      BY <1>3 DEF PushUpdate, Phase
    <3> QED
      BY <1>0, <3>1, <3>2, FrameSet
  <2> QED
    BY <1>3, <2>2, <2>3, <2>4 DEF PushUpdate, TypeOK
<1> QED
  BY <1>1, <1>2, <1>3

LEMMA WriteTyped ==
    ASSUME TypeOK, Locals, NEW o \in Op, Save(o) \/ Publish(o) \/ Fails(o)
    PROVE  TypeOK' /\ Locals'
<1>1. CASE Save(o)
  <2>0. frame[o] \in Frame /\ Fits(o) /\ Live(o) /\ frame[o].index \in Op
        /\ frame[o].kind \in {"index", "sync", "update"} /\ heap[frame[o].index] \in Index
    BY <1>1 DEF Save, TypeOK, Locals, Live, Fits
  <2>1. saved' \in Index \cup {NoIndex}
    BY <1>1, <2>0 DEF Save, Mine
  <2>2. drift' \subseteq File
    <3>1. frame[o].edits \subseteq File /\ (frame[o].kind = "update" => frame[o].file \in File)
      BY <2>0 DEF Frame, Fits
    <3> QED
      BY <1>1, <3>1 DEF Save, Drifted, TypeOK
  <2>3. /\ pc' \in [Op -> Phase] /\ frame' \in [Op -> Frame \cup {NoFrame}]
        /\ \A p \in Op : pc'[p] \notin {"new", "done"} => frame'[p] \in Frame
        /\ Locals'
    <3>1. frame' = [frame EXCEPT ![o] = frame[o]]
      BY <1>1 DEF Save, TypeOK
    <3>2. Goes(o, "publish")
      BY <1>1 DEF Save
    <3> QED
      BY <2>0, <3>1, <3>2, FrameSet
  <2> QED
    BY <1>1, <2>1, <2>2, <2>3 DEF Save, TypeOK
<1>2. CASE Publish(o)
  <2>1. frame[o].index \in Op
    BY <1>2 DEF Publish, TypeOK, Locals, Live, Fits
  <2>2. Ends(o)
    BY <1>2 DEF Publish
  <2> QED
    BY <1>2, <2>1, <2>2, EndsFit DEF Publish, TypeOK
<1>3. CASE Fails(o)
  <2>1. Ends(o)
    BY <1>3 DEF Fails
  <2>2. cache' \in Op \cup {NoOp} /\ lapses' \subseteq {"overtaken", "skewed", "outdated", "failed"}
    BY <1>3 DEF Fails, Uncached, Lapses, TypeOK
  <2> QED
    BY <1>3, <2>1, <2>2, EndsFit DEF Fails, TypeOK, store
<1> QED
  BY <1>1, <1>2, <1>3

LEMMA DeleteTyped ==
    ASSUME TypeOK, Locals, NEW o \in Op, Forget(o) \/ Drop(o)
    PROVE  TypeOK' /\ Locals'
<1>1. CASE Forget(o)
  <2>1. frame[o] \in Frame /\ Fits(o) /\ frame[o].kind = "delete" /\ pc'[o] = "drop"
        /\ UNCHANGED frame /\ "drop" \in Phase /\ Goes(o, "drop")
    BY <1>1 DEF Forget, TypeOK, Locals, Live, Goes, Phase
  <2>2. Fits(o)'
    BY <2>1 DEF Fits
  <2>3. /\ pc' \in [Op -> Phase] /\ frame' \in [Op -> Frame \cup {NoFrame}]
        /\ \A p \in Op : pc'[p] \notin {"new", "done"} => frame'[p] \in Frame
        /\ Locals'
    BY <2>1, <2>2, GoesFit
  <2> QED
    BY <1>1, <2>3 DEF Forget, TypeOK
<1>2. CASE Drop(o)
  <2>1. Ends(o)
    BY <1>2 DEF Drop
  <2> QED
    BY <1>2, <2>1, EndsFit DEF Drop, TypeOK, Lapses
<1> QED
  BY <1>1, <1>2

LEMMA RebuildTyped ==
    ASSUME TypeOK, Locals, NEW o \in Op, Rebuild(o)
    PROVE  TypeOK' /\ Locals'
<1>1. Ends(o) /\ heap[frame[o].index] \in Index
  BY DEF Rebuild, TypeOK, Locals, Live, Fits
<1>2. vectors' \in [File -> Content \cup {Absent}]
  <2>1. \A f \in File : Mine(o)[f].content \in Content \cup {Absent}
    BY <1>1 DEF Mine, Index, Record
  <2>2. CASE Missing(o) /\ ~rebuilt
    <3>1. vectors' = [f \in File |-> IF Has(Mine(o), f) THEN Mine(o)[f].content ELSE vectors[f]]
      BY <2>2 DEF Rebuild
    <3> QED
      BY <2>1, <3>1 DEF TypeOK
  <2>3. CASE ~(Missing(o) /\ ~rebuilt)
    BY <2>3 DEF Rebuild, TypeOK
  <2> QED
    BY <2>2, <2>3
<1>3. rebuilt' \in BOOLEAN
  BY DEF Rebuild, TypeOK, Missing
<1>4. lapses' \subseteq {"overtaken", "skewed", "outdated", "failed"}
  BY DEF Rebuild, TypeOK, Lapses
<1> QED
  BY <1>1, <1>2, <1>3, <1>4, EndsFit DEF Rebuild, TypeOK

(* What an edit does to the operations. *)
LEMMA EditFrames ==
    ASSUME TypeOK, NEW f \in File, NEW c \in Content \cup {Absent}, Edit(f, c)
    PROVE  /\ frame' \in [Op -> Frame \cup {NoFrame}]
           /\ \A o \in Op : Live(o) =>
                /\ frame'[o] \in Frame /\ frame'[o].kind = frame[o].kind
                /\ frame'[o].index = frame[o].index /\ frame'[o].raw = frame[o].raw
                /\ frame'[o].seen = frame[o].seen /\ frame'[o].known = frame[o].known
                /\ frame'[o].file = frame[o].file /\ frame'[o].content = frame[o].content
                /\ frame'[o].todo = frame[o].todo /\ frame'[o].at = frame[o].at
                /\ (frame'[o].edits = frame[o].edits \cup {f} \/ frame[o] = NoFrame)
<1>1. ASSUME NEW o \in Op, frame[o] # NoFrame
      PROVE  frame'[o] = [frame[o] EXCEPT !.edits = frame[o].edits \cup {f}] /\ frame[o] \in Frame
  BY <1>1 DEF Edit, TypeOK
<1>2. ASSUME NEW o \in Op, frame[o] = NoFrame PROVE frame'[o] = frame[o]
  BY <1>2 DEF Edit
<1>3. ASSUME NEW o \in Op, frame[o] # NoFrame PROVE frame'[o] \in Frame
  <2> DEFINE E == frame[o].edits \cup {f}
  <2>1. frame[o] \in Frame /\ E \in SUBSET File
    BY <1>1, <1>3 DEF Frame
  <2>2. frame'[o] = [frame[o] EXCEPT !.edits = E]
    BY <1>1, <1>3
  <2> HIDE DEF E
  <2> QED
    BY <2>1, <2>2 DEF Frame
<1>4. frame' \in [Op -> Frame \cup {NoFrame}]
  BY <1>2, <1>3 DEF Edit
<1>5. ASSUME NEW o \in Op, Live(o)
      PROVE  /\ frame'[o] \in Frame /\ frame'[o].kind = frame[o].kind
             /\ frame'[o].index = frame[o].index /\ frame'[o].raw = frame[o].raw
             /\ frame'[o].seen = frame[o].seen /\ frame'[o].known = frame[o].known
             /\ frame'[o].file = frame[o].file /\ frame'[o].content = frame[o].content
             /\ frame'[o].todo = frame[o].todo /\ frame'[o].at = frame[o].at
             /\ (frame'[o].edits = frame[o].edits \cup {f} \/ frame[o] = NoFrame)
  <2>1. CASE frame[o] = NoFrame
    <3>1. frame[o] \in Frame
      BY <1>5 DEF TypeOK, Live
    <3> QED
      BY <1>2, <2>1, <3>1
  <2>2. CASE frame[o] # NoFrame
    BY <1>1, <1>3, <2>2, ZenonT(80) DEF Frame
  <2> QED
    BY <2>1, <2>2
<1> QED
  BY <1>4, <1>5

LEMMA WorldTyped ==
    ASSUME TypeOK, Locals, Edits \/ Expire \/ Restart
    PROVE  TypeOK' /\ Locals'
<1>1. ASSUME NEW f \in File, NEW c \in Content \cup {Absent}, Edit(f, c)
      PROVE  TypeOK' /\ Locals'
  <2>1. mtime' = mtime + 1 /\ mtime \in Nat /\ mtime + 1 \in Nat
    BY <1>1 DEF Edit, TypeOK
  <2>2. disk' \in Index
    <3>1. [content |-> c, time |-> mtime + 1] \in Record
      BY <2>1 DEF Record
    <3> QED
      BY <1>1, <2>1, <3>1, Kinds DEF Edit, TypeOK, Index
  <2>3. Locals'
    BY <1>1, EditFrames DEF Locals, Live, Fits, Edit
  <2>4. \A o \in Op : pc'[o] \notin {"new", "done"} => frame'[o] \in Frame
    BY <1>1, EditFrames DEF Edit, Live
  <2> QED
    BY <1>1, <2>1, <2>2, <2>3, <2>4, EditFrames DEF Edit, TypeOK, store
<1>2. CASE Expire
  BY <1>2 DEF Expire, TypeOK, Locals, Live, Fits, store
<1>3. CASE Restart
  <2>1. pc' \in [Op -> Phase] /\ \A o \in Op : ~Live(o)'
    BY <1>3 DEF Restart, TypeOK, Phase, Live
  <2>2. vectors' \in [File -> Content \cup {Absent}]
    BY <1>3 DEF Restart, TypeOK
  <2>3. lapses' \subseteq {"overtaken", "skewed", "outdated", "failed"}
    BY <1>3 DEF Restart, TypeOK, Lapses
  <2> QED
    BY <1>3, <2>1, <2>2, <2>3 DEF Restart, TypeOK, Locals, Live
<1> QED
  BY <1>1, <1>2, <1>3 DEF Edits

LEMMA InitTyped == Init => TypeOK /\ Locals
<1> SUFFICES ASSUME Init PROVE TypeOK /\ Locals
  OBVIOUS
<1>1. disk \in Index
  <2>1. {NoRecord} \cup [content : Content, time : {1}] \subseteq Record
    BY Kinds DEF Record
  <2> QED
    BY <2>1 DEF Init, Index
<1>2. heap \in [Op -> Index] /\ saved \in Index \cup {NoIndex}
  BY <1>1, Kinds DEF Init
<1>3. vectors \in [File -> Content \cup {Absent}]
  BY <1>1 DEF Init, Index, Record
<1> QED
  BY <1>1, <1>2, <1>3 DEF Init, TypeOK, Locals, Live, Phase

LEMMA StepTyped == TypeOK /\ Locals /\ [Next]_vars => TypeOK' /\ Locals'
<1> SUFFICES ASSUME TypeOK, Locals, [Next]_vars PROVE TypeOK' /\ Locals'
  OBVIOUS
<1>1. ASSUME NEW o \in Op, Step(o) PROVE TypeOK' /\ Locals'
  BY <1>1, LockTyped, LoadTyped, LookTyped, ReplaceTyped, UpdateTyped, WriteTyped, DeleteTyped,
     RebuildTyped DEF Step
<1>2. CASE Start
  <2>1. ASSUME NEW o \in Op, NEW f \in File, NEW c \in Content \cup {Absent},
               Request(o, "update", f, c)
        PROVE  TypeOK' /\ Locals'
    BY <2>1, RequestTyped, Kinds
  <2>2. ASSUME NEW o \in Op, NEW kind \in (Writer \cup Reader) \ {"update"},
               Request(o, kind, NoOp, Absent)
        PROVE  TypeOK' /\ Locals'
    BY <2>2, RequestTyped
  <2> QED
    BY <1>2, <2>1, <2>2 DEF Start
<1>3. CASE Edits \/ Expire \/ Restart
  BY <1>3, WorldTyped
<1>4. ASSUME NEW o \in Op, Fails(o) PROVE TypeOK' /\ Locals'
  BY <1>4, WriteTyped
<1>5. CASE UNCHANGED vars
  BY <1>5 DEF vars, store, TypeOK, Locals, Live, Fits
<1> QED
  BY <1>1, <1>2, <1>3, <1>4, <1>5 DEF Next, Fault

(* The files, the index, its cached copies and the operations on them keep  *)
(* their types: nothing that is missing is ever used as an index.           *)
THEOREM TypeCorrect == Spec => []TypeOK
<1>1. Init => TypeOK /\ Locals
  BY InitTyped
<1>2. TypeOK /\ Locals /\ [Next]_vars => (TypeOK /\ Locals)'
  BY StepTyped
<1> QED
  BY <1>1, <1>2, PTL DEF Spec

-----------------------------------------------------------------------------
(* Who writes, and which objects are shared.                                *)

Looks == {"discover", "read", "remove", "push"}
Holds(o) ==
    \/ pc[o] \in Looks \cup {"splice", "fetch", "save", "publish", "drop"}
    \/ pc[o] \in {"load", "parse"} /\ frame[o].kind \in Writer

LockInv == \A o \in Op : Holds(o) => lock = o

(* Operation o has made the object heap[o], and nobody parses it anew. *)
Made(o) ==
    /\ pc[o] \notin {"new", "lock", "load", "parse"}
    /\ ~(pc[o] \in Looks /\ frame[o].kind = "index")

Shared == {o \in Op : Made(o)}

MadeInv ==
    /\ cache # NoOp => cache \in Shared
    /\ \A o \in Op : Live(o) /\ frame[o].index # NoOp => frame[o].index \in Shared

TypeInv == TypeOK /\ Locals
Inv == TypeInv /\ LockInv /\ MadeInv

(* The steps of one operation. *)
Acts(o) == Step(o) \/ Fails(o) \/ \E kind \in Writer \cup Reader, f \in File \cup {NoOp},
                                    c \in Content \cup {Absent} : Request(o, kind, f, c)

LEMMA NextActs ==
    ASSUME [Next]_vars
    PROVE  (\E o \in Op : Acts(o)) \/ Edits \/ Expire \/ Restart \/ UNCHANGED vars
<1>1. CASE Start
  <2>1. \A f \in File : f \in File \cup {NoOp}
    OBVIOUS
  <2>2. NoOp \in File \cup {NoOp} /\ Absent \in Content \cup {Absent}
        /\ "update" \in Writer \cup Reader
    BY Kinds
  <2>3. CASE \E o \in Op, f \in File, c \in Content \cup {Absent} : Request(o, "update", f, c)
    BY <2>1, <2>2, <2>3 DEF Acts
  <2>4. CASE \E o \in Op, kind \in (Writer \cup Reader) \ {"update"} : Request(o, kind, NoOp, Absent)
    BY <2>2, <2>4 DEF Acts
  <2> QED
    BY <1>1, <2>3, <2>4 DEF Start
<1> QED
  BY <1>1 DEF Next, Fault, Acts

LEMMA OthersStay ==
    ASSUME TypeOK, NEW o \in Op, Acts(o), NEW p \in Op, p # o
    PROVE  pc'[p] = pc[p] /\ frame'[p] = frame[p]
<1>1. CASE \E kind \in Writer \cup Reader, f \in File \cup {NoOp},
           c \in Content \cup {Absent} : Request(o, kind, f, c)
  BY <1>1 DEF Request, Goes, TypeOK
<1>2. CASE Lock(o) \/ LoadCached(o) \/ LoadFile(o) \/ Parse(o) \/ LoadFails(o)
  BY <1>2 DEF Lock, LoadCached, LoadFile, Parse, LoadFails, Goes, Ends, TypeOK
<1>3. CASE Discover(o) \/ ReadFiles(o) \/ Remove(o) \/ Push(o)
  BY <1>3 DEF Discover, ReadFiles, Remove, Push, Goes, TypeOK
<1>4. CASE Splice(o) \/ FetchContent(o) \/ FetchStat(o) \/ PushUpdate(o)
  BY <1>4 DEF Splice, FetchContent, FetchStat, PushUpdate, Goes, TypeOK
<1>5. CASE Save(o) \/ Publish(o) \/ Forget(o) \/ Drop(o) \/ Rebuild(o) \/ Fails(o)
  BY <1>5 DEF Save, Publish, Forget, Drop, Rebuild, Fails, Goes, Ends, TypeOK
<1> QED
  BY <1>1, <1>2, <1>3, <1>4, <1>5 DEF Acts, Step

(* Where a step takes its operation. *)
LEMMA Moves ==
    ASSUME TypeInv, NEW o \in Op, Acts(o)
    PROVE  /\ Holds(o)' => Holds(o) \/ (pc[o] = "lock" /\ lock = NoOp /\ lock' = o)
           /\ lock' = lock \/ (lock = NoOp /\ lock' = o) \/ (lock = o /\ ~Holds(o)')
           /\ Made(o) => Made(o)'
           /\ ~(pc'[o] = "done" /\ pc[o] = "new")
<1>0. Live(o) => frame[o] \in Frame /\ Fits(o)
  BY DEF TypeInv, TypeOK, Locals, Live
<1>1. CASE \E kind \in Writer \cup Reader, f \in File \cup {NoOp},
           c \in Content \cup {Absent} : Request(o, kind, f, c)
  <2>1. PICK kind \in Writer \cup Reader, f \in File \cup {NoOp}, c \in Content \cup {Absent} :
          Request(o, kind, f, c)
    BY <1>1
  <2>2. pc'[o] = (IF kind \in Writer THEN "lock" ELSE "load") /\ frame'[o].kind = kind
        /\ pc[o] = "new" /\ lock' = lock
    BY <2>1 DEF Request, Goes, TypeInv, TypeOK
  <2> QED
    BY <2>2 DEF Holds, Made, Looks
<1>2. CASE Lock(o)
  <2>1. pc'[o] \in {"discover", "load"} /\ pc[o] = "lock" /\ lock = NoOp /\ lock' = o
    BY <1>2 DEF Lock, Goes, TypeInv, TypeOK
  <2> QED
    BY <2>1 DEF Holds, Made
<1>3. CASE LoadCached(o) \/ Parse(o)
  <2>1. pc[o] \in {"load", "parse"} /\ lock' = lock /\ pc'[o] = Loaded(o)
        /\ (Loaded(o) # "done" => frame'[o].kind = frame[o].kind)
    <3>1. pc[o] \in {"load", "parse"} /\ lock' = lock /\ pc'[o] = Loaded(o)
      BY <1>3 DEF LoadCached, Parse, Goes, TypeInv, TypeOK
    <3>2. CASE LoadCached(o)
      BY <1>0, <3>1, <3>2 DEF LoadCached, TypeInv, TypeOK, Live, Frame
    <3>3. CASE Parse(o)
      BY <1>0, <3>1, <3>3 DEF Parse, TypeInv, TypeOK, Live, Frame
    <3> QED
      BY <1>3, <3>1, <3>2, <3>3
  <2> QED
    BY <1>0, <2>1, Kinds DEF Holds, Made, Looks, Loaded, Fits, Live
<1>4. CASE LoadFile(o)
  <2>1. pc[o] = "load" /\ lock' = lock /\ pc'[o] = "parse" /\ frame'[o].kind = frame[o].kind
    BY <1>0, <1>4 DEF LoadFile, Goes, TypeInv, TypeOK, Live, Frame
  <2> QED
    BY <2>1 DEF Holds, Made, Looks
<1>5. CASE LoadFails(o) \/ Publish(o) \/ Rebuild(o) \/ Fails(o) \/ Drop(o)
  <2>1. pc'[o] = "done" /\ pc[o] # "new" /\ (lock' = lock \/ lock = o)
    BY <1>5 DEF LoadFails, Publish, Rebuild, Fails, Drop, Ends, Goes, TypeInv, TypeOK
  <2> QED
    BY <2>1 DEF Holds, Made, Looks
<1>6. CASE Forget(o)
  <2>1. pc'[o] = "drop" /\ pc[o] = "lock" /\ lock = NoOp /\ lock' = o
    BY <1>6 DEF Forget, Goes, TypeInv, TypeOK
  <2> QED
    BY <2>1 DEF Holds, Made
<1>7. CASE Discover(o) \/ ReadFiles(o) \/ Remove(o) \/ Push(o)
  <2>1. pc[o] \in Looks /\ lock' = lock /\ frame'[o].kind = frame[o].kind
        /\ (pc'[o] \in Looks \/ pc'[o] = "save")
    BY <1>0, <1>7 DEF Discover, ReadFiles, Remove, Push, Goes, TypeInv, TypeOK, Live, Frame, Looks
  <2> QED
    BY <2>1 DEF Holds, Made, Looks
<1>8. CASE Splice(o) \/ FetchContent(o) \/ FetchStat(o) \/ PushUpdate(o) \/ Save(o)
  <2>1. pc[o] \in {"splice", "fetch", "save"} /\ lock' = lock /\ pc'[o] \in {"fetch", "save", "publish"}
    BY <1>8 DEF Splice, FetchContent, FetchStat, PushUpdate, Save, Goes, TypeInv, TypeOK
  <2> QED
    BY <2>1 DEF Holds, Made, Looks
<1> QED
  BY <1>1, <1>2, <1>3, <1>4, <1>5, <1>6, <1>7, <1>8 DEF Acts, Step

(* The index of an operation, and the cached one, change only to one made. *)
LEMMA IndexesMade ==
    ASSUME TypeInv, MadeInv, NEW o \in Op, Acts(o)
    PROVE  /\ cache' = cache \/ cache' = NoOp \/ cache' \in Shared'
           /\ Live(o)' /\ frame'[o].index # NoOp => frame'[o].index \in Shared'
<1>0. /\ Live(o) => frame[o] \in Frame /\ Fits(o)
      /\ Shared \subseteq Shared'
      /\ cache \in Op \cup {NoOp}
      /\ Live(o) => frame[o].index \in Op \cup {NoOp}
  <2>1. ASSUME NEW p \in Op, Made(p) PROVE Made(p)'
    <3>1. CASE p = o
      BY <2>1, <3>1, Moves
    <3>2. CASE p # o
      BY <2>1, <3>2, OthersStay DEF TypeInv, Made
    <3> QED
      BY <3>1, <3>2
  <2> QED
    BY <2>1 DEF TypeInv, TypeOK, Locals, Live, Frame, Shared
<1>1. CASE \E kind \in Writer \cup Reader, f \in File \cup {NoOp},
           c \in Content \cup {Absent} : Request(o, kind, f, c)
  BY <1>1 DEF Request, TypeInv, TypeOK
<1>2. CASE Lock(o) \/ LoadFile(o)
  <2>1. cache' = cache /\ frame'[o].index = frame[o].index /\ Live(o)
    BY <1>0, <1>2 DEF Lock, LoadFile, TypeInv, TypeOK, Live, Frame
  <2> QED
    BY <1>0, <2>1 DEF MadeInv
<1>3. CASE LoadCached(o)
  <2>1. cache' = cache /\ cache # NoOp /\ (Live(o)' => frame'[o].index = cache)
    <3>1. cache' = cache /\ cache # NoOp /\ pc'[o] = Loaded(o) /\ Live(o)
      BY <1>3 DEF LoadCached, Goes, TypeInv, TypeOK, Live
    <3>2. Loaded(o) # "done" => frame'[o].index = cache
      BY <1>0, <1>3, <3>1 DEF LoadCached, TypeInv, TypeOK, Frame
    <3> QED
      BY <3>1, <3>2 DEF Live
  <2> QED
    BY <1>0, <2>1 DEF MadeInv
<1>4. CASE Parse(o)
  <2>1. cache' = o /\ pc'[o] = Loaded(o) /\ Live(o) /\ pc[o] = "parse"
    BY <1>4 DEF Parse, Goes, TypeInv, TypeOK, Live
  <2>2. Loaded(o) # "done" => frame'[o].index = o /\ frame'[o].kind = frame[o].kind
    BY <1>0, <1>4, <2>1 DEF Parse, TypeInv, TypeOK, Frame
  <2>3. o \in Shared'
    <3>1. Made(o)'
      BY <1>0, <2>1, <2>2 DEF Made, Loaded, Looks, Fits
    <3> QED
      BY <3>1 DEF Shared
  <2> QED
    BY <2>1, <2>2, <2>3 DEF Live
<1>5. CASE LoadFails(o) \/ Rebuild(o) \/ Fails(o) \/ Drop(o) \/ Publish(o)
  <2>1. pc'[o] = "done"
    BY <1>5 DEF LoadFails, Publish, Rebuild, Fails, Drop, Ends, Goes, TypeInv, TypeOK
  <2>2. CASE Publish(o)
    <3>1. cache' = frame[o].index /\ Live(o) /\ frame[o].index # NoOp /\ frame[o].index \in Op
      BY <1>0, <2>2, ConstantsAssumption DEF Publish, Live, Fits, ConstantsAssumption
    <3> QED
      BY <1>0, <2>1, <3>1 DEF MadeInv, Live
  <2>3. CASE ~Publish(o)
    <3>1. cache' = cache \/ cache' = NoOp
      BY <1>5, <2>3 DEF LoadFails, Rebuild, Fails, Drop, Uncached, store
    <3> QED
      BY <2>1, <3>1 DEF Live
  <2> QED
    BY <2>2, <2>3
<1>6. CASE Forget(o)
  <2>1. cache' = NoOp /\ frame' = frame /\ Live(o)
    BY <1>6 DEF Forget, Live
  <2> QED
    BY <1>0, <2>1 DEF MadeInv
<1>7. CASE Push(o)
  <2>1. cache' = cache /\ Live(o) /\ pc'[o] = "save" /\ pc[o] = "push"
        /\ frame'[o].index = (IF frame[o].kind = "index" THEN o ELSE frame[o].index)
    BY <1>0, <1>7 DEF Push, TypeInv, TypeOK, Live, Frame, Goes
  <2>2. o \in Shared'
    <3>1. Made(o)'
      BY <2>1 DEF Made, Looks
    <3> QED
      BY <3>1 DEF Shared
  <2> QED
    BY <1>0, <2>1, <2>2 DEF MadeInv
<1>8. CASE Discover(o) \/ ReadFiles(o) \/ Remove(o)
  <2>1. cache' = cache /\ Live(o) /\ frame'[o].index = frame[o].index
    BY <1>0, <1>8 DEF Discover, ReadFiles, Remove, TypeInv, TypeOK, Live, Frame
  <2> QED
    BY <1>0, <2>1 DEF MadeInv
<1>9. CASE Splice(o) \/ FetchContent(o) \/ FetchStat(o) \/ PushUpdate(o) \/ Save(o)
  <2>1. cache' = cache /\ Live(o)
    BY <1>9 DEF Splice, FetchContent, FetchStat, PushUpdate, Save, Live, store
  <2>2. frame'[o].index = frame[o].index
    BY <1>0, <1>9, <2>1 DEF Splice, FetchContent, FetchStat, PushUpdate, Save, TypeInv, TypeOK, Frame
  <2> QED
    BY <1>0, <2>1, <2>2 DEF MadeInv
<1> QED
  BY <1>1, <1>2, <1>3, <1>4, <1>5, <1>6, <1>7, <1>8, <1>9 DEF Acts, Step

LEMMA ActsInv ==
    ASSUME Inv, NEW o \in Op, Acts(o)
    PROVE  LockInv' /\ MadeInv'
<1>0. TypeInv /\ lock \in Op \cup {NoOp} /\ cache \in Op \cup {NoOp} /\ NoOp \notin Op
  BY ConstantsAssumption DEF Inv, TypeInv, TypeOK, ConstantsAssumption
<1>1. ASSUME NEW p \in Op, Holds(p)' PROVE lock' = p
  <2>1. CASE p = o
    BY <1>0, <1>1, <2>1, Moves DEF Inv, LockInv
  <2>2. CASE p # o
    <3>1. Holds(p)
      BY <1>1, <2>2, OthersStay, <1>0 DEF Holds, TypeInv
    <3>2. lock = p
      BY <3>1 DEF Inv, LockInv
    <3> QED
      BY <1>0, <2>2, <3>2, Moves
  <2> QED
    BY <2>1, <2>2
<1>2. ASSUME NEW p \in Shared PROVE p \in Shared'
  <2>0. p \in Op /\ Made(p)
    BY DEF Shared
  <2>1. CASE p = o
    BY <1>0, <2>0, <2>1, Moves DEF Shared
  <2>2. CASE p # o
    BY <1>0, <2>0, <2>2, OthersStay DEF TypeInv, Made, Shared
  <2> QED
    BY <2>1, <2>2
<1>3. cache' # NoOp => cache' \in Shared'
  BY <1>0, <1>2, IndexesMade DEF Inv, MadeInv
<1>4. ASSUME NEW p \in Op, Live(p)', frame'[p].index # NoOp PROVE frame'[p].index \in Shared'
  <2>1. CASE p = o
    BY <1>0, <1>4, <2>1, IndexesMade DEF Inv
  <2>2. CASE p # o
    <3>1. Live(p) /\ frame'[p].index = frame[p].index /\ frame[p].index \in Op
      BY <1>0, <1>4, <2>2, OthersStay DEF TypeInv, TypeOK, Live, Frame
    <3> QED
      BY <1>2, <1>4, <3>1 DEF Inv, MadeInv
  <2> QED
    BY <2>1, <2>2
<1> QED
  BY <1>1, <1>3, <1>4 DEF LockInv, MadeInv

LEMMA InvStep == Inv /\ [Next]_vars => Inv'
<1> SUFFICES ASSUME Inv, [Next]_vars PROVE Inv'
  OBVIOUS
<1>1. TypeInv'
  BY StepTyped DEF Inv, TypeInv
<1>2. ASSUME NEW o \in Op, Acts(o) PROVE LockInv' /\ MadeInv'
  BY <1>2, ActsInv
<1>3. ASSUME NEW f \in File, NEW c \in Content \cup {Absent}, Edit(f, c)
      PROVE  LockInv' /\ MadeInv'
  <2>1. \A o \in Op : Live(o) => frame'[o].kind = frame[o].kind /\ frame'[o].index = frame[o].index
    BY <1>3, EditFrames DEF Inv, TypeInv
  <2>2. UNCHANGED <<pc, lock, cache>> /\ cache \in Op \cup {NoOp}
        /\ \A o \in Op : Live(o) => frame[o].index \in Op \cup {NoOp}
    BY <1>3 DEF Edit, Inv, TypeInv, TypeOK, Live, Frame
  <2>3. \A o \in Op : Holds(o)' => Holds(o)
    BY <2>1, <2>2 DEF Holds, Live
  <2>4. Shared \subseteq Shared'
    BY <2>1, <2>2 DEF Made, Live, Looks, Shared
  <2> QED
    BY <2>1, <2>2, <2>3, <2>4 DEF Inv, LockInv, MadeInv, Live
<1>4. CASE Expire
  BY <1>1, <1>4 DEF Expire, Inv, LockInv, MadeInv, Holds, Made, Shared, Live, Looks
<1>5. CASE Restart
  <2>1. cache' = NoOp /\ \A o \in Op : pc'[o] \in {"new", "done"}
    BY <1>5 DEF Restart
  <2> QED
    BY <1>1, <2>1 DEF Inv, LockInv, MadeInv, Holds, Live, Looks
<1>6. CASE UNCHANGED vars
  BY <1>1, <1>6 DEF vars, Inv, LockInv, MadeInv, Holds, Made, Shared, Live, Looks
<1> QED
  BY <1>1, <1>2, <1>3, <1>4, <1>5, <1>6, NextActs DEF Inv, Edits

LEMMA InvInit == Init => Inv
BY InitTyped DEF Init, Inv, TypeInv, LockInv, MadeInv, Holds, Live, Looks

-----------------------------------------------------------------------------
(* The object the operations share is what is saved.                        *)

(* The cached object may differ from index.json while o is at work. *)
Dirty(o) ==
    \/ pc[o] = "publish"
    \/ pc[o] \in Looks \cup {"splice", "fetch", "save"} /\ frame[o].kind # "index"

CacheInv ==
    /\ \A o \in Op : pc[o] = "publish" => heap[frame[o].index] = saved
    /\ "overtaken" \notin lapses /\ cache # NoOp /\ (\A o \in Op : ~Dirty(o))
         => heap[cache] = saved

LEMMA LapsesStay ==
    ASSUME TypeOK, [Next]_vars
    PROVE  lapses \subseteq lapses'
<1>1. ASSUME NEW o \in Op, Acts(o) PROVE lapses \subseteq lapses'
  BY <1>1 DEF Acts, Step, Request, Lock, LoadCached, LoadFile, Parse, LoadFails, Discover,
     ReadFiles, Remove, Push, Splice, FetchContent, FetchStat, PushUpdate, Save, Publish,
     Forget, Drop, Rebuild, Fails, Lapses
<1> QED
  BY <1>1, NextActs DEF Edits, Edit, Expire, Restart, Lapses, vars

(* What an operation does while another one writes. *)
LEMMA Bystander ==
    ASSUME Inv, NEW o \in Op, NEW p \in Op, p # o, Holds(p), Acts(o)
    PROVE  /\ saved' = saved /\ drift' = drift
           /\ \A q \in Shared : heap'[q] = heap[q]
           /\ heap' = heap \/ \A q \in Op : q # o => heap'[q] = heap[q]
<1>1. lock = p /\ ~Holds(o) /\ p # NoOp
  BY ConstantsAssumption DEF Inv, LockInv, ConstantsAssumption
<1>2. CASE Parse(o)
  BY <1>2 DEF Parse, Shared, Made, Inv, TypeInv, TypeOK, store
<1>3. CASE Lock(o) \/ Forget(o)
  BY <1>1, <1>3 DEF Lock, Forget
<1>4. CASE Discover(o) \/ ReadFiles(o) \/ Remove(o) \/ Push(o) \/ Splice(o) \/ FetchContent(o)
           \/ FetchStat(o) \/ PushUpdate(o) \/ Save(o) \/ Publish(o) \/ Drop(o) \/ Fails(o)
  BY <1>1, <1>4 DEF Discover, ReadFiles, Remove, Push, Splice, FetchContent, FetchStat,
     PushUpdate, Save, Publish, Drop, Fails, Holds, Looks
<1>5. CASE LoadCached(o) \/ LoadFile(o) \/ LoadFails(o) \/ Rebuild(o)
           \/ \E kind \in Writer \cup Reader, f \in File \cup {NoOp},
                c \in Content \cup {Absent} : Request(o, kind, f, c)
  BY <1>5 DEF LoadCached, LoadFile, LoadFails, Rebuild, Request, store
<1> QED
  BY <1>2, <1>3, <1>4, <1>5 DEF Acts, Step

LEMMA CacheActs ==
    ASSUME Inv, CacheInv, NEW o \in Op, Acts(o)
    PROVE  CacheInv'
<1>0. /\ TypeInv
      /\ Live(o) => frame[o] \in Frame /\ Fits(o)
      /\ \A p \in Op : p # o => pc'[p] = pc[p] /\ frame'[p] = frame[p]
      /\ cache # NoOp => cache \in Shared
  BY OthersStay DEF Inv, TypeInv, TypeOK, Locals, Live, MadeInv
<1>1. ASSUME NEW p \in Op, pc'[p] = "publish" PROVE heap'[frame'[p].index] = saved'
  <2>1. CASE p = o
    <3>1. Save(o)
      <4>1. ~(\E kind \in Writer \cup Reader, f \in File \cup {NoOp},
               c \in Content \cup {Absent} : Request(o, kind, f, c))
        BY <1>1, <2>1 DEF Request, Goes, Inv, TypeInv, TypeOK
      <4>2. ~(Lock(o) \/ LoadFile(o) \/ Forget(o) \/ LoadCached(o) \/ Parse(o))
        BY <1>1, <2>1 DEF Lock, LoadFile, Forget, LoadCached, Parse, Loaded, Goes, Inv, TypeInv, TypeOK
      <4>3. ~(LoadFails(o) \/ Publish(o) \/ Rebuild(o) \/ Fails(o) \/ Drop(o))
        BY <1>1, <2>1 DEF LoadFails, Publish, Rebuild, Fails, Drop, Ends, Goes, Inv, TypeInv, TypeOK
      <4>4. ~(Discover(o) \/ ReadFiles(o) \/ Remove(o) \/ Push(o) \/ Splice(o) \/ PushUpdate(o))
        BY <1>1, <2>1 DEF Discover, ReadFiles, Remove, Push, Splice, PushUpdate, Goes, Inv, TypeInv, TypeOK
      <4>5. ~(FetchContent(o) \/ FetchStat(o))
        BY <1>1, <2>1 DEF FetchContent, FetchStat
      <4> QED
        BY <4>1, <4>2, <4>3, <4>4, <4>5 DEF Acts, Step
    <3> QED
      BY <2>1, <3>1 DEF Save, Mine
  <2>2. CASE p # o
    <3>1. pc[p] = "publish" /\ frame'[p] = frame[p] /\ Holds(p)
      BY <1>0, <1>1, <2>2 DEF Holds
    <3>2. frame[p].index \in Op /\ Live(p) /\ frame[p].index # NoOp
      BY <3>1, ConstantsAssumption DEF Inv, TypeInv, Locals, Live, Fits, ConstantsAssumption
    <3>3. frame[p].index \in Shared
      BY <3>2 DEF Inv, MadeInv
    <3>4. heap'[frame[p].index] = heap[frame[p].index] /\ saved' = saved
      BY <2>2, <3>1, <3>3, Bystander
    <3> QED
      BY <3>1, <3>4 DEF CacheInv
  <2> QED
    BY <2>1, <2>2
<1>2. ASSUME "overtaken" \notin lapses', cache' # NoOp, \A p \in Op : ~Dirty(p)'
      PROVE  heap'[cache'] = saved'
  <2>0. /\ "overtaken" \notin lapses
        /\ ~Dirty(o) => \A p \in Op : ~Dirty(p)
    <3>1. lapses \subseteq lapses'
      BY DEF Acts, Step, Request, Lock, LoadCached, LoadFile, Parse, LoadFails, Discover,
         ReadFiles, Remove, Push, Splice, FetchContent, FetchStat, PushUpdate, Save, Publish,
         Forget, Drop, Rebuild, Fails, Lapses
    <3> QED
      BY <1>0, <1>2, <3>1 DEF Dirty
  <2>1. ~Dirty(o) /\ cache # NoOp => heap[cache] = saved
    BY <2>0 DEF CacheInv
  <2>2. CASE Lock(o) \/ LoadCached(o) \/ LoadFile(o) \/ LoadFails(o) \/ Rebuild(o)
             \/ \E kind \in Writer \cup Reader, f \in File \cup {NoOp},
                  c \in Content \cup {Absent} : Request(o, kind, f, c)
    <3>1. UNCHANGED <<saved, heap, cache>> /\ pc[o] \in {"new", "lock", "load", "vectors"}
      BY <2>2 DEF Lock, LoadCached, LoadFile, LoadFails, Rebuild, Request, store
    <3>2. ~Dirty(o)
      BY <3>1 DEF Dirty, Looks
    <3> QED
      BY <1>2, <2>1, <3>1, <3>2
  <2>3. CASE Parse(o)
    BY <1>2, <2>3 DEF Parse, Lapses, store, Inv, TypeInv, TypeOK
  <2>4. CASE Discover(o) \/ ReadFiles(o) \/ Remove(o)
    <3>1. pc'[o] \in Looks /\ pc[o] \in Looks /\ frame'[o].kind = frame[o].kind /\ UNCHANGED <<saved, cache>>
      BY <1>0, <2>4 DEF Discover, ReadFiles, Remove, Goes, Looks, Live, Frame, store, TypeInv, TypeOK
    <3>2. frame[o].kind = "index" /\ ~Dirty(o)
      BY <1>2, <3>1 DEF Dirty, Looks
    <3>3. heap' = heap
      BY <2>4, <3>2 DEF Discover, ReadFiles, Remove
    <3> QED
      BY <1>2, <2>1, <3>1, <3>2, <3>3
  <2>5. CASE Push(o)
    <3>1. pc'[o] = "save" /\ pc[o] = "push" /\ frame'[o].kind = frame[o].kind /\ UNCHANGED <<saved, cache>>
      BY <1>0, <2>5 DEF Push, Goes, Live, Frame, TypeInv, TypeOK
    <3>2. frame[o].kind = "index" /\ ~Dirty(o) /\ o \notin Shared
      BY <1>2, <3>1 DEF Dirty, Looks, Shared, Made
    <3>3. heap'[cache] = heap[cache]
      BY <1>0, <1>2, <2>5, <3>1, <3>2 DEF Push, TypeInv, TypeOK, Shared
    <3> QED
      BY <1>2, <2>1, <3>1, <3>2, <3>3
  <2>6. CASE Splice(o) \/ FetchContent(o) \/ FetchStat(o) \/ PushUpdate(o) \/ Save(o)
    <3>1. pc'[o] = "publish" \/ (pc'[o] \in {"fetch", "save"} /\ frame'[o].kind = "update")
      <4>1. CASE Save(o)
        BY <4>1 DEF Save, Goes, Inv, TypeInv, TypeOK
      <4>2. CASE ~Save(o)
        <5>1. pc'[o] \in {"fetch", "save"} /\ Live(o) /\ pc[o] \in {"splice", "fetch"}
          BY <2>6, <4>2 DEF Splice, FetchContent, FetchStat, PushUpdate, Goes, Live, Inv, TypeInv, TypeOK
        <5>2. frame'[o].kind = frame[o].kind
          BY <1>0, <2>6, <4>2, <5>1, SMTT(40) DEF Splice, FetchContent, FetchStat, PushUpdate, TypeInv, TypeOK, Frame
        <5> QED
          BY <1>0, <5>1, <5>2 DEF Fits
      <4> QED
        BY <4>1, <4>2
    <3> QED
      BY <1>2, <3>1 DEF Dirty
  <2>7. CASE Publish(o)
    BY <2>7 DEF Publish, CacheInv
  <2>8. CASE Forget(o) \/ Drop(o)
    BY <1>2, <2>8 DEF Forget, Drop, Lapses
  <2>9. CASE Fails(o)
    <3>1. frame[o].kind = "index" /\ UNCHANGED <<saved, heap, cache>>
      BY <1>2, <2>9 DEF Fails, Uncached, store
    <3>2. ~Dirty(o)
      BY <2>9, <3>1 DEF Fails, Dirty
    <3> QED
      BY <1>2, <2>1, <3>1, <3>2
  <2> QED
    BY <2>2, <2>3, <2>4, <2>5, <2>6, <2>7, <2>8, <2>9 DEF Acts, Step
<1> QED
  BY <1>1, <1>2 DEF CacheInv

LEMMA CacheStep == Inv /\ CacheInv /\ [Next]_vars => CacheInv'
<1> SUFFICES ASSUME Inv, CacheInv, [Next]_vars PROVE CacheInv'
  OBVIOUS
<1>1. ASSUME NEW f \in File, NEW c \in Content \cup {Absent}, Edit(f, c) PROVE CacheInv'
  <2>1. \A o \in Op : Live(o) => frame'[o].kind = frame[o].kind /\ frame'[o].index = frame[o].index
    BY <1>1, EditFrames DEF Inv, TypeInv
  <2>2. UNCHANGED <<pc, heap, saved, cache, lapses>>
    BY <1>1 DEF Edit, store
  <2> QED
    BY <2>1, <2>2 DEF CacheInv, Dirty, Live, Looks
<1>2. CASE Expire
  BY <1>2 DEF Expire, CacheInv, store
<1>3. CASE Restart
  BY <1>3 DEF Restart, CacheInv
<1>4. CASE UNCHANGED vars
  BY <1>4 DEF vars, store, CacheInv, Dirty
<1> QED
  BY <1>1, <1>2, <1>3, <1>4, CacheActs, NextActs DEF Edits

(* When nobody is writing, the object all operations share is what          *)
(* index.json says: an update that fails half way is forgotten with the     *)
(* object it edited.                                                       *)
THEOREM CacheSaved == Spec => []CacheIsSaved
<1>1. Init => Inv /\ CacheInv
  BY InvInit DEF Init, CacheInv
<1>2. Inv /\ CacheInv /\ [Next]_vars => (Inv /\ CacheInv)'
  BY InvStep, CacheStep
<1>3. Inv /\ CacheInv => CacheIsSaved
  <2> SUFFICES ASSUME Inv, CacheInv, lock = NoOp PROVE \A o \in Op : ~Dirty(o)
    BY DEF CacheIsSaved, CacheInv
  <2> QED
    BY ConstantsAssumption DEF Inv, LockInv, Holds, Dirty, ConstantsAssumption
<1> QED
  BY <1>1, <1>2, <1>3, PTL DEF Spec

-----------------------------------------------------------------------------
(* A record with the mtime of a file has its content.                       *)

Sound(r, f) ==
    /\ r.time <= mtime
    /\ r.content # Absent /\ Has(disk, f) /\ r.time = disk[f].time => r.content = disk[f].content

AllSound(x) == \A f \in File : Sound(x[f], f)

(* What an update has read of its file, and how new it was. *)
FetchSound(o) ==
    LET f == frame[o].file
        read == frame[o].seen[f]
    IN  /\ "stat" \notin frame[o].todo => read.time <= mtime
        /\ "content" \notin frame[o].todo =>
             /\ frame[o].at = 0 => read.content = Absent
             /\ Has(disk, f) => frame[o].at <= disk[f].time
             /\ read.content # Absent /\ Has(disk, f) /\ frame[o].at = disk[f].time
                  => read.content = disk[f].content
             /\ frame[o].at <= mtime

DiskInv == \A f \in File : disk[f].time <= mtime /\ (Has(disk, f) => disk[f].time > 0)

SoundInv ==
    /\ saved # NoIndex => AllSound(saved)
    /\ \A o \in Op : AllSound(heap[o])
    /\ \A o \in Op : pc[o] = "parse" => AllSound(frame[o].raw)
    /\ \A o \in Op : pc[o] \in {"read", "remove", "push"} => AllSound(frame[o].seen)
    /\ \A o \in Op : pc[o] = "fetch" => FetchSound(o)

MatchInv == DiskInv /\ ("skewed" \notin lapses => SoundInv)

LEMMA NothingSound == \A f \in File : TypeOK => Sound(NoRecord, f)
BY DEF TypeOK, Sound, NoRecord

LEMMA EditSound ==
    ASSUME TypeInv, DiskInv, NEW f \in File, NEW c \in Content \cup {Absent}, Edit(f, c)
    PROVE  /\ DiskInv'
           /\ \A r \in Record, g \in File : Sound(r, g) => Sound(r, g)'
           /\ \A o \in Op : pc[o] = "fetch" /\ FetchSound(o) => FetchSound(o)'
<1>1. /\ mtime \in Nat /\ mtime' = mtime + 1
      /\ \A g \in File : g # f => disk'[g] = disk[g]
      /\ disk'[f] = IF c = Absent THEN NoRecord ELSE [content |-> c, time |-> mtime + 1]
      /\ \A g \in File : disk[g].time \in Nat
  BY DEF Edit, TypeInv, TypeOK, Index, Record
<1>2. disk'[f].content # Absent => disk'[f].time = mtime + 1
  BY <1>1 DEF NoRecord
<1>3. disk'[f].time \in Nat /\ disk'[f].time <= mtime + 1
  BY <1>1 DEF NoRecord
<1>4. DiskInv'
  BY <1>1, <1>2, <1>3 DEF DiskInv, Has
<1>5. ASSUME NEW r \in Record, NEW g \in File, Sound(r, g) PROVE Sound(r, g)'
  BY <1>1, <1>2, <1>5 DEF Sound, Has, Record
<1>6. ASSUME NEW o \in Op, pc[o] = "fetch", FetchSound(o) PROVE FetchSound(o)'
  <2>1. /\ frame'[o].file = frame[o].file /\ frame'[o].seen = frame[o].seen
        /\ frame'[o].todo = frame[o].todo /\ frame'[o].at = frame[o].at
    BY <1>6, EditFrames DEF Live, TypeInv
  <2>2. frame[o].file \in File /\ frame[o].at \in Nat /\ frame[o].seen[frame[o].file].time \in Nat
    <3>1. frame[o] \in Frame /\ frame[o].file \in File
      BY <1>6 DEF TypeInv, TypeOK, Locals, Live, Fits
    <3> QED
      BY <3>1 DEF Frame, Index, Record
  <2>3. CASE frame[o].file = f
    BY <1>1, <1>2, <1>3, <1>6, <2>1, <2>2, <2>3 DEF FetchSound, Has
  <2>4. CASE frame[o].file # f
    BY <1>1, <1>6, <2>1, <2>2, <2>4 DEF FetchSound, Has
  <2> QED
    BY <2>3, <2>4
<1> QED
  BY <1>4, <1>5, <1>6

LEMMA FilesStay ==
    ASSUME NEW o \in Op, Acts(o)
    PROVE  /\ UNCHANGED <<disk, mtime>>
           /\ lapses \subseteq lapses'
BY DEF Acts, Step, Request, Lock, LoadCached, LoadFile, Parse, LoadFails, Discover,
   ReadFiles, Remove, Push, Splice, FetchContent, FetchStat, PushUpdate, Save, Publish,
   Forget, Drop, Rebuild, Fails, Lapses

(* What an update puts into the index. *)
LEMMA FoundSound ==
    ASSUME TypeInv, DiskInv, SoundInv, NEW o \in Op, PushUpdate(o), "skewed" \notin lapses'
    PROVE  Sound(Found(o), frame[o].file)
<1> DEFINE f == frame[o].file
           read == frame[o].seen[f]
           at == frame[o].at
<1>1. /\ frame[o] \in Frame /\ f \in File /\ pc[o] = "fetch" /\ frame[o].todo = {}
      /\ Found(o).time <= at
  <2>1. pc[o] = "fetch" /\ frame[o].todo = {} /\ Found(o).time <= at
    <3>1. pc[o] = "fetch" /\ frame[o].todo = {} /\ ~(Found(o).time > at)
      BY DEF PushUpdate, Lapses
    <3>2. at \in Nat /\ Found(o).time \in Nat
      BY <3>1, FoundTyped DEF TypeInv, TypeOK, Live, Frame, Record
    <3> QED
      BY <3>1, <3>2
  <2> QED
    BY <2>1 DEF TypeInv, TypeOK, Locals, Live, Fits
<1>2. /\ read \in Record /\ at \in Nat /\ Found(o) \in Record /\ disk[f] \in Record /\ mtime \in Nat
  BY <1>1, FoundTyped DEF TypeInv, TypeOK, Frame, Index
<1>3. /\ at = 0 => read.content = Absent
      /\ Has(disk, f) => at <= disk[f].time
      /\ read.content # Absent /\ Has(disk, f) /\ at = disk[f].time => read.content = disk[f].content
      /\ at <= mtime
  BY <1>1 DEF SoundInv, FetchSound
<1>4. Found(o).time <= mtime
  BY <1>1, <1>2, <1>3 DEF Record
<1>5. ASSUME Found(o).content # Absent, Has(disk, f), Found(o).time = disk[f].time
      PROVE  Found(o).content = disk[f].content
  <2>1. disk[f].time > 0
    BY <1>1, <1>5 DEF DiskInv
  <2>2. Found(o).content = Given(o) /\ Given(o) = read.content
    BY <1>5, <2>1, <1>2 DEF Found, NoRecord, Record
  <2>3. at = disk[f].time
    BY <1>1, <1>2, <1>3, <1>5 DEF Record
  <2> QED
    BY <1>3, <1>5, <2>2, <2>3
<1> QED
  BY <1>4, <1>5 DEF Sound

LEMMA HeapSound ==
    ASSUME Inv, DiskInv, SoundInv, NEW o \in Op, Acts(o), "skewed" \notin lapses'
    PROVE  \A p \in Op : AllSound(heap[p])'
<1> DEFINE i == frame[o].index
<1>0. /\ TypeInv /\ UNCHANGED <<disk, mtime>>
      /\ Live(o) => frame[o] \in Frame /\ Fits(o)
      /\ \A f \in File : Sound(NoRecord, f)
      /\ heap \in [Op -> Index]
  BY FilesStay, NothingSound DEF Inv, TypeInv, TypeOK, Locals, Live
<1>1. SUFFICES ASSUME NEW p \in Op, NEW f \in File PROVE Sound(heap'[p][f], f)
  <2>1. \A p \in Op, f \in File : Sound(heap'[p][f], f) => Sound(heap[p][f], f)'
    BY <1>0 DEF Sound, Has
  <2> QED
    BY <2>1 DEF AllSound
<1>2. Sound(heap[p][f], f)
  BY DEF SoundInv, AllSound
<1>3. CASE heap' = heap
  BY <1>2, <1>3
<1>4. CASE Parse(o)
  BY <1>0, <1>2, <1>4 DEF Parse, SoundInv, AllSound
<1>5. CASE Remove(o) \/ Push(o)
  <2>1. Sound(frame[o].seen[f], f) /\ frame[o] \in Frame /\ Fits(o)
    BY <1>0, <1>5 DEF Remove, Push, SoundInv, AllSound, Live
  <2>2. CASE Push(o)
    BY <1>0, <1>2, <2>1, <2>2 DEF Push, Frame, Index
  <2>3. CASE Remove(o) /\ frame[o].kind # "index"
    <3>1. i \in Op
      BY <2>1, <2>3 DEF Remove, Fits
    <3>2. heap'[p] = IF p = i THEN [g \in File |-> IF g \in Replaced(o) THEN NoRecord ELSE heap[i][g]]
                     ELSE heap[p]
      BY <1>0, <2>3, <3>1 DEF Remove
    <3> QED
      BY <1>0, <1>2, <3>2
  <2> QED
    BY <1>3, <1>5, <2>2, <2>3 DEF Remove
<1>6. CASE Splice(o) \/ PushUpdate(o)
  <2>1. i \in Op /\ frame[o].file \in File
    BY <1>0, <1>6 DEF Splice, PushUpdate, Live, Fits
  <2>2. CASE Splice(o)
    <3>1. heap'[p] = IF p = i THEN [heap[i] EXCEPT ![frame[o].file] = NoRecord] ELSE heap[p]
      BY <1>0, <2>1, <2>2 DEF Splice
    <3>2. heap'[p][f] = heap[p][f] \/ heap'[p][f] = NoRecord
      BY <1>0, <2>1, <3>1 DEF Index
    <3> QED
      BY <1>0, <1>2, <3>2
  <2>3. CASE PushUpdate(o)
    <3>1. heap'[p] = IF p = i THEN [heap[i] EXCEPT ![frame[o].file] = Found(o)] ELSE heap[p]
      BY <1>0, <2>1, <2>3 DEF PushUpdate
    <3>2. heap'[p][f] = heap[p][f] \/ (heap'[p][f] = Found(o) /\ f = frame[o].file)
      BY <1>0, <2>1, <3>1 DEF Index
    <3> QED
      BY <1>0, <1>2, <2>3, <3>2, FoundSound DEF Inv
  <2> QED
    BY <1>6, <2>2, <2>3
<1>7. CASE ~(Parse(o) \/ Remove(o) \/ Push(o) \/ Splice(o) \/ PushUpdate(o))
  <2>1. heap' = heap
    BY <1>7 DEF Acts, Step, Request, Lock, LoadCached, LoadFile, LoadFails, Discover,
       ReadFiles, FetchContent, FetchStat, Save, Publish, Forget, Drop, Rebuild, Fails
  <2> QED
    BY <1>3, <2>1
<1> QED
  BY <1>4, <1>5, <1>6, <1>7

(* What a look at the files finds. *)
LEMMA LookSound ==
    ASSUME Inv, DiskInv, SoundInv, NEW o \in Op, Discover(o) \/ ReadFiles(o),
           NEW f \in File
    PROVE  Sound(frame'[o].seen[f], f)
<1>0. /\ frame[o] \in Frame /\ Fits(o) /\ TypeOK /\ disk[f] \in Record /\ mtime \in Nat
      /\ Sound(NoRecord, f)
  BY NothingSound DEF Discover, ReadFiles, Inv, TypeInv, TypeOK, Locals, Live, Index
<1>1. CASE Discover(o)
  <2>1. frame'[o].seen[f] = IF f \in Known(o) THEN Mine(o)[f]
                            ELSE [content |-> Absent, time |-> disk[f].time]
    BY <1>0, <1>1 DEF Discover, TypeOK, Frame
  <2>2. CASE f \in Known(o)
    <3>1. Sound(Mine(o)[f], f)
      BY <1>0, <1>1, <2>2 DEF Known, Mine, Discover, Fits, SoundInv, AllSound
    <3> QED
      BY <2>1, <2>2, <3>1
  <2>3. CASE f \notin Known(o)
    BY <2>1, <2>3 DEF Sound, DiskInv
  <2> QED
    BY <2>2, <2>3
<1>2. CASE ReadFiles(o)
  <2>1. frame'[o].seen[f] =
          IF f \in frame[o].known THEN frame[o].seen[f]
          ELSE IF frame[o].seen[f].time = 0 \/ ~Has(disk, f) THEN NoRecord
          ELSE [content |-> disk[f].content, time |-> frame[o].seen[f].time]
    BY <1>0, <1>2 DEF ReadFiles, TypeOK, Frame
  <2>2. Sound(frame[o].seen[f], f)
    BY <1>2 DEF ReadFiles, SoundInv, AllSound
  <2> QED
    BY <1>0, <2>1, <2>2 DEF Sound
<1> QED
  BY <1>1, <1>2

LEMMA FetchKept ==
    ASSUME Inv, DiskInv, SoundInv, NEW o \in Op, Acts(o), pc'[o] = "fetch"
    PROVE  FetchSound(o)'
<1>0. UNCHANGED <<disk, mtime>> /\ TypeInv
  BY FilesStay DEF Inv
<1>1. Splice(o) \/ FetchContent(o) \/ FetchStat(o)
  <2>1. ~(\E kind \in Writer \cup Reader, f \in File \cup {NoOp},
           c \in Content \cup {Absent} : Request(o, kind, f, c))
    BY <1>0 DEF Request, Goes, TypeInv, TypeOK
  <2>2. ~(Lock(o) \/ LoadFile(o) \/ Forget(o) \/ LoadCached(o) \/ Parse(o))
    BY <1>0 DEF Lock, LoadFile, Forget, LoadCached, Parse, Loaded, Goes, TypeInv, TypeOK
  <2>3. ~(LoadFails(o) \/ Publish(o) \/ Rebuild(o) \/ Fails(o) \/ Drop(o))
    BY <1>0 DEF LoadFails, Publish, Rebuild, Fails, Drop, Ends, Goes, TypeInv, TypeOK
  <2>4. ~(Discover(o) \/ ReadFiles(o) \/ Remove(o) \/ Push(o) \/ PushUpdate(o) \/ Save(o))
    BY <1>0 DEF Discover, ReadFiles, Remove, Push, PushUpdate, Save, Goes, TypeInv, TypeOK
  <2> QED
    BY <2>1, <2>2, <2>3, <2>4 DEF Acts, Step
<1> DEFINE f == frame[o].file
<1>2. /\ frame[o] \in Frame /\ f \in File /\ frame[o].seen[f] \in Record /\ disk[f] \in Record
      /\ mtime \in Nat /\ disk[f].time <= mtime /\ (Has(disk, f) => disk[f].time > 0)
  <2>1. frame[o] \in Frame /\ f \in File
    BY <1>0, <1>1 DEF Splice, FetchContent, FetchStat, TypeInv, TypeOK, Locals, Live, Fits
  <2> QED
    BY <1>0, <2>1 DEF TypeInv, TypeOK, Frame, Index, DiskInv
<1>3. CASE Splice(o)
  <2>1. frame'[o].todo = {"content", "stat"}
    BY <1>0, <1>2, <1>3 DEF Splice, TypeInv, TypeOK, Frame
  <2> QED
    BY <2>1 DEF FetchSound
<1>4. CASE FetchContent(o)
  <2>1. /\ frame'[o].file = f /\ frame'[o].at = disk[f].time
        /\ frame'[o].todo = frame[o].todo \ {"content"}
        /\ frame'[o].seen[f].content = disk[f].content /\ frame'[o].seen[f].time = frame[o].seen[f].time
    BY <1>0, <1>2, <1>4 DEF FetchContent, TypeInv, TypeOK, Frame, Index, Record
  <2>2. FetchSound(o)
    BY <1>4 DEF FetchContent, SoundInv
  <2> QED
    BY <1>0, <1>2, <2>1, <2>2 DEF FetchSound, Has, Record
<1>5. CASE FetchStat(o)
  <2>1. /\ frame'[o].file = f /\ frame'[o].at = frame[o].at
        /\ frame'[o].todo = frame[o].todo \ {"stat"}
        /\ frame'[o].seen[f].content = frame[o].seen[f].content /\ frame'[o].seen[f].time = disk[f].time
    BY <1>0, <1>2, <1>5 DEF FetchStat, TypeInv, TypeOK, Frame, Index, Record
  <2>2. FetchSound(o)
    BY <1>5 DEF FetchStat, SoundInv
  <2> QED
    BY <1>0, <1>2, <2>1, <2>2 DEF FetchSound, Has, Record
<1> QED
  BY <1>1, <1>3, <1>4, <1>5

LEMMA MatchActs ==
    ASSUME Inv, MatchInv, NEW o \in Op, Acts(o)
    PROVE  MatchInv'
<1>0. /\ TypeInv /\ UNCHANGED <<disk, mtime>> /\ lapses \subseteq lapses'
      /\ \A p \in Op : p # o => pc'[p] = pc[p] /\ frame'[p] = frame[p]
  BY FilesStay, OthersStay DEF Inv, TypeInv
<1>1. DiskInv'
  BY <1>0 DEF MatchInv, DiskInv, Has
<1> SUFFICES ASSUME "skewed" \notin lapses' PROVE SoundInv'
  BY <1>1 DEF MatchInv
<1>2. SoundInv /\ DiskInv
  BY <1>0 DEF MatchInv
<1>3. saved' # NoIndex => AllSound(saved)'
  <2>1. CASE Save(o)
    <3>1. saved' = heap[frame[o].index] /\ frame[o].index \in Op
      BY <1>0, <2>1 DEF Save, Mine, TypeInv, Locals, Live, Fits
    <3> QED
      BY <1>0, <1>2, <3>1 DEF SoundInv, AllSound, Sound, Has
  <2>2. CASE ~Save(o)
    <3>1. saved' = saved \/ saved' = NoIndex
      BY <2>2 DEF Acts, Step, Request, Lock, LoadCached, LoadFile, Parse, LoadFails, Discover,
         ReadFiles, Remove, Push, Splice, FetchContent, FetchStat, PushUpdate, Publish,
         Forget, Drop, Rebuild, Fails, store
    <3> QED
      BY <1>0, <1>2, <3>1 DEF SoundInv, AllSound, Sound, Has
  <2> QED
    BY <2>1, <2>2
<1>4. \A p \in Op : AllSound(heap[p])'
  BY <1>2, HeapSound
<1>5. ASSUME NEW p \in Op, pc'[p] = "parse" PROVE AllSound(frame[p].raw)'
  <2>1. CASE p # o
    BY <1>0, <1>2, <1>5, <2>1 DEF SoundInv, AllSound, Sound, Has
  <2>2. CASE p = o
    <3>1. LoadFile(o)
      <4>1. ~(\E kind \in Writer \cup Reader, f \in File \cup {NoOp},
               c \in Content \cup {Absent} : Request(o, kind, f, c))
        BY <1>0, <1>5, <2>2 DEF Request, Goes, TypeInv, TypeOK
      <4>2. ~(Lock(o) \/ Forget(o) \/ LoadCached(o) \/ Parse(o))
        BY <1>0, <1>5, <2>2 DEF Lock, Forget, LoadCached, Parse, Loaded, Goes, TypeInv, TypeOK
      <4>3. ~(LoadFails(o) \/ Publish(o) \/ Rebuild(o) \/ Fails(o) \/ Drop(o))
        BY <1>0, <1>5, <2>2 DEF LoadFails, Publish, Rebuild, Fails, Drop, Ends, Goes, TypeInv, TypeOK
      <4>4. ~(Discover(o) \/ ReadFiles(o) \/ Remove(o) \/ Push(o) \/ PushUpdate(o) \/ Save(o)
              \/ Splice(o) \/ FetchContent(o) \/ FetchStat(o))
        BY <1>0, <1>5, <2>2 DEF Discover, ReadFiles, Remove, Push, PushUpdate, Save, Splice,
           FetchContent, FetchStat, Goes, TypeInv, TypeOK
      <4> QED
        BY <4>1, <4>2, <4>3, <4>4 DEF Acts, Step
    <3>2. frame'[o].raw = saved /\ saved # NoIndex
      BY <1>0, <3>1 DEF LoadFile, TypeInv, TypeOK, Live, Frame
    <3> QED
      BY <1>0, <1>2, <2>2, <3>2 DEF SoundInv, AllSound, Sound, Has
  <2> QED
    BY <2>1, <2>2
<1>6. ASSUME NEW p \in Op, pc'[p] \in {"read", "remove", "push"} PROVE AllSound(frame[p].seen)'
  <2>1. CASE p # o
    BY <1>0, <1>2, <1>6, <2>1 DEF SoundInv, AllSound, Sound, Has
  <2>2. CASE p = o /\ (Discover(o) \/ ReadFiles(o))
    BY <1>0, <1>2, <2>2, LookSound DEF AllSound, Sound, Has
  <2>3. CASE p = o /\ Remove(o)
    BY <1>0, <1>2, <2>3 DEF Remove, SoundInv, AllSound, Sound, Has
  <2>4. CASE p = o /\ ~(Discover(o) \/ ReadFiles(o) \/ Remove(o))
    <3>1. ~(\E kind \in Writer \cup Reader, f \in File \cup {NoOp},
             c \in Content \cup {Absent} : Request(o, kind, f, c))
      BY <1>0, <1>6, <2>4 DEF Request, Goes, TypeInv, TypeOK
    <3>2. ~(Lock(o) \/ Forget(o) \/ LoadFile(o) \/ LoadCached(o) \/ Parse(o))
      BY <1>0, <1>6, <2>4 DEF Lock, Forget, LoadFile, LoadCached, Parse, Loaded, Goes, TypeInv, TypeOK
    <3>3. ~(LoadFails(o) \/ Publish(o) \/ Rebuild(o) \/ Fails(o) \/ Drop(o))
      BY <1>0, <1>6, <2>4 DEF LoadFails, Publish, Rebuild, Fails, Drop, Ends, Goes, TypeInv, TypeOK
    <3>4. ~(Push(o) \/ PushUpdate(o) \/ Save(o) \/ Splice(o) \/ FetchContent(o) \/ FetchStat(o))
      BY <1>0, <1>6, <2>4 DEF Push, PushUpdate, Save, Splice,
         FetchContent, FetchStat, Goes, TypeInv, TypeOK
    <3> QED
      BY <2>4, <3>1, <3>2, <3>3, <3>4 DEF Acts, Step
  <2> QED
    BY <2>1, <2>2, <2>3, <2>4
<1>7. ASSUME NEW p \in Op, pc'[p] = "fetch" PROVE FetchSound(p)'
  <2>1. CASE p # o
    BY <1>0, <1>2, <1>7, <2>1 DEF SoundInv, FetchSound, Has
  <2>2. CASE p = o
    BY <1>2, <1>7, <2>2, FetchKept
  <2> QED
    BY <2>1, <2>2
<1> QED
  BY <1>3, <1>4, <1>5, <1>6, <1>7 DEF SoundInv

LEMMA MatchStep == Inv /\ MatchInv /\ [Next]_vars => MatchInv'
<1> SUFFICES ASSUME Inv, MatchInv, [Next]_vars PROVE MatchInv'
  OBVIOUS
<1>1. ASSUME NEW f \in File, NEW c \in Content \cup {Absent}, Edit(f, c) PROVE MatchInv'
  <2>0. TypeInv /\ DiskInv /\ UNCHANGED <<saved, heap, pc, lapses>>
    BY <1>1 DEF Inv, MatchInv, Edit, store
  <2>1. /\ DiskInv' /\ \A r \in Record, g \in File : Sound(r, g) => Sound(r, g)'
        /\ \A o \in Op : pc[o] = "fetch" /\ FetchSound(o) => FetchSound(o)'
    BY <1>1, <2>0, EditSound
  <2>2. \A x \in Index : AllSound(x) => AllSound(x)'
    BY <2>1 DEF AllSound, Index
  <2>3. \A o \in Op : Live(o) => /\ frame'[o].raw = frame[o].raw /\ frame'[o].seen = frame[o].seen
                                 /\ frame[o].seen \in Index
                                 /\ (pc[o] = "parse" => frame[o].raw \in Index)
    BY <1>1, <2>0, EditFrames DEF TypeInv, TypeOK, Frame, Live, Locals, Fits
  <2>4. SoundInv => SoundInv'
    <3> SUFFICES ASSUME SoundInv PROVE SoundInv'
      OBVIOUS
    <3>1. saved' # NoIndex => AllSound(saved)'
      BY <2>0, <2>2 DEF SoundInv, TypeInv, TypeOK, AllSound, Sound, Has
    <3>2. \A o \in Op : AllSound(heap[o])'
      BY <2>0, <2>2 DEF SoundInv, TypeInv, TypeOK, AllSound, Sound, Has
    <3>3. \A o \in Op : pc'[o] = "parse" => AllSound(frame[o].raw)'
      BY <2>0, <2>2, <2>3 DEF SoundInv, Live, AllSound, Sound, Has
    <3>4. \A o \in Op : pc'[o] \in {"read", "remove", "push"} => AllSound(frame[o].seen)'
      BY <2>0, <2>2, <2>3 DEF SoundInv, Live, AllSound, Sound, Has
    <3>5. \A o \in Op : pc'[o] = "fetch" => FetchSound(o)'
      BY <2>0, <2>1 DEF SoundInv
    <3> QED
      BY <3>1, <3>2, <3>3, <3>4, <3>5 DEF SoundInv
  <2> QED
    BY <2>0, <2>1, <2>4 DEF MatchInv
<1>2. CASE Expire
  BY <1>2 DEF Expire, MatchInv, DiskInv, SoundInv, AllSound, Sound, FetchSound, Has, store
<1>3. CASE Restart
  <2>1. UNCHANGED <<disk, mtime, saved, heap>> /\ lapses \subseteq lapses'
        /\ \A o \in Op : pc'[o] \in {"new", "done"}
    BY <1>3 DEF Restart, Lapses
  <2> QED
    BY <2>1 DEF MatchInv, DiskInv, SoundInv, AllSound, Sound, Has
<1>4. CASE UNCHANGED vars
  BY <1>4 DEF vars, store, MatchInv, DiskInv, SoundInv, AllSound, Sound, FetchSound, Has
<1> QED
  BY <1>1, <1>2, <1>3, <1>4, MatchActs, NextActs DEF Edits

LEMMA MatchInit == Init => MatchInv
<1> SUFFICES ASSUME Init PROVE MatchInv
  OBVIOUS
<1>1. \A f \in File : disk[f] = NoRecord \/ disk[f].time = 1
  BY DEF Init
<1>2. DiskInv
  BY <1>1 DEF Init, DiskInv, Has, NoRecord
<1>3. AllSound(Empty) /\ AllSound(disk)
  BY <1>1 DEF AllSound, Sound, Empty, NoRecord, Init
<1> QED
  BY <1>2, <1>3 DEF Init, MatchInv, SoundInv

(* "Taken as unchanged without being read": a record with the mtime of a    *)
(* file has its content, as long as no update has read a file and its mtime *)
(* around an edit - whatever was edited between the listing and the reading *)
(* of files, and whatever failed.                                           *)
THEOREM MatchesAreRead == Spec => []MatchedIsRead
<1>1. Init => Inv /\ MatchInv
  BY InvInit, MatchInit
<1>2. Inv /\ MatchInv /\ [Next]_vars => (Inv /\ MatchInv)'
  BY InvStep, MatchStep
<1>3. MatchInv => MatchedIsRead
  BY DEF MatchInv, SoundInv, AllSound, Sound, MatchedIsRead, Has
<1> QED
  BY <1>1, <1>2, <1>3, PTL DEF Spec
-----------------------------------------------------------------------------
(* A sync leaves no file behind.                                            *)

Agrees(x, f) == x[f].content = disk[f].content

(* What an operation has seen of the files nobody has changed since.        *)
LooksRight(o) ==
    /\ pc[o] = "read" => \A f \in File \ frame[o].edits :
         /\ f \in frame[o].known => Agrees(frame[o].seen, f)
         /\ f \notin frame[o].known /\ frame[o].seen[f].time = 0 => ~Has(disk, f)
    /\ pc[o] \in {"remove", "push"} => \A f \in File \ frame[o].edits : Agrees(frame[o].seen, f)
    /\ pc[o] = "fetch" /\ "content" \notin frame[o].todo /\ frame[o].file \notin frame[o].edits
         => Agrees(frame[o].seen, frame[o].file)

(* What it will save: all it has seen, or what was saved and its own file.  *)
SavesRight(o) ==
    /\ pc[o] = "save" /\ frame[o].kind # "update" =>
         \A f \in File \ frame[o].edits : Agrees(Mine(o), f)
    /\ pc[o] \in {"splice", "fetch", "save"} /\ frame[o].kind = "update" =>
         saved # NoIndex /\ \A f \in File \ {frame[o].file} : Mine(o)[f] = saved[f]
    /\ pc[o] = "save" /\ frame[o].kind = "update" /\ frame[o].content = Absent
         /\ frame[o].file \notin frame[o].edits => Agrees(Mine(o), frame[o].file)

SavedRight == saved # NoIndex => \A f \in File \ drift : Agrees(saved, f)

SyncInv ==
    lapses \cap {"skewed", "overtaken"} = {} =>
        SavedRight /\ \A o \in Op : LooksRight(o) /\ SavesRight(o)

IInv == Inv /\ CacheInv /\ MatchInv /\ SyncInv

(* Where nothing has been seen yet, or all is saved. *)
Quiet == {"new", "lock", "load", "parse", "discover", "publish", "vectors", "drop", "done"}

LEMMA QuietRight == \A o \in Op : pc[o] \in Quiet => LooksRight(o) /\ SavesRight(o)
BY DEF Quiet, LooksRight, SavesRight

LEMMA FrameIsNot == NoFrame \notin Frame
<1>1. DOMAIN NoFrame = {}
  BY DEF NoFrame
<1>2. \A x \in Frame : "kind" \in DOMAIN x
  BY DEF Frame
<1> QED
  BY <1>1, <1>2

LEMMA EditRight ==
    ASSUME TypeInv, NEW f \in File, NEW c \in Content \cup {Absent}, Edit(f, c)
    PROVE  /\ SavedRight => SavedRight'
           /\ \A o \in Op : LooksRight(o) => LooksRight(o)'
           /\ \A o \in Op : SavesRight(o) => SavesRight(o)'
<1>1. /\ UNCHANGED <<pc, saved, heap>> /\ drift' = drift \cup {f}
      /\ \A g \in File : g # f => disk'[g] = disk[g]
  BY DEF Edit, TypeInv, TypeOK, Index, store
<1>2. SavedRight => SavedRight'
  BY <1>1 DEF SavedRight, Agrees
<1>3. ASSUME NEW o \in Op, Live(o)
      PROVE  /\ frame[o] \in Frame /\ Fits(o)
             /\ frame'[o].edits = frame[o].edits \cup {f}
             /\ frame'[o].kind = frame[o].kind /\ frame'[o].index = frame[o].index
             /\ frame'[o].seen = frame[o].seen /\ frame'[o].known = frame[o].known
             /\ frame'[o].file = frame[o].file /\ frame'[o].content = frame[o].content
             /\ frame'[o].todo = frame[o].todo
  BY <1>3, EditFrames, FrameIsNot DEF TypeInv, TypeOK, Locals, Live
<1>4. ASSUME NEW o \in Op, LooksRight(o) PROVE LooksRight(o)'
  <2>1. CASE pc[o] \in Quiet
    BY <1>1, <2>1 DEF Quiet, LooksRight
  <2>2. CASE pc[o] = "fetch"
    <3>1. frame[o].file \in File
      BY <1>3, <2>2 DEF Live, Fits
    <3> QED
      BY <1>1, <1>3, <1>4, <2>2, <3>1 DEF LooksRight, Agrees, Live
  <2>3. CASE pc[o] \notin Quiet \cup {"fetch"}
    BY <1>1, <1>3, <1>4, <2>3 DEF LooksRight, Agrees, Live, Quiet, Has
  <2> QED
    BY <2>1, <2>2, <2>3
<1>5. ASSUME NEW o \in Op, SavesRight(o) PROVE SavesRight(o)'
  <2>1. CASE pc[o] \in Quiet
    BY <1>1, <2>1 DEF Quiet, SavesRight
  <2>2. CASE pc[o] \notin Quiet
    <3>1. Mine(o)' = Mine(o)
      BY <1>1, <1>3, <2>2 DEF Mine, Live, Quiet
    <3>2. frame[o].kind = "update" => frame[o].file \in File
      BY <1>3, <2>2 DEF Live, Fits, Quiet
    <3> HIDE DEF Mine
    <3> QED
      BY <1>1, <1>3, <1>5, <2>2, <3>1, <3>2 DEF SavesRight, Agrees, Live, Quiet
  <2> QED
    BY <2>1, <2>2
<1> QED
  BY <1>2, <1>4, <1>5

LEMMA OthersRight ==
    ASSUME Inv, NEW o \in Op, Acts(o), NEW p \in Op, p # o, LooksRight(p), SavesRight(p)
    PROVE  LooksRight(p)' /\ SavesRight(p)'
<1>1. pc'[p] = pc[p] /\ frame'[p] = frame[p] /\ UNCHANGED disk
  BY FilesStay, OthersStay DEF Inv, TypeInv
<1>2. LooksRight(p)'
  BY <1>1 DEF LooksRight, Agrees, Has
<1>3. CASE pc[p] \notin {"splice", "fetch", "save"}
  BY <1>1, <1>2, <1>3 DEF SavesRight
<1>4. CASE pc[p] \in {"splice", "fetch", "save"}
  <2>1. Holds(p) /\ Live(p)
    BY <1>4 DEF Holds, Live
  <2>2. frame[p].index \in Op /\ frame[p].index # NoOp
    BY <1>4, <2>1, ConstantsAssumption DEF Inv, TypeInv, Locals, Fits, ConstantsAssumption
  <2>3. heap'[frame[p].index] = heap[frame[p].index] /\ saved' = saved
    BY <2>1, <2>2, Bystander DEF Inv, MadeInv
  <2>4. Mine(p)' = Mine(p)
    BY <1>1, <2>3 DEF Mine
  <2> QED
    BY <1>1, <1>2, <2>3, <2>4 DEF SavesRight, Agrees
<1> QED
  BY <1>3, <1>4

(* A writer that loads the index has what is saved. *)
LEMMA LoadedRight ==
    ASSUME Inv, CacheInv, NEW o \in Op, LoadCached(o) \/ Parse(o), "overtaken" \notin lapses'
    PROVE  LooksRight(o)' /\ SavesRight(o)'
<1>1. /\ TypeInv /\ frame[o] \in Frame /\ Fits(o) /\ Live(o)
      /\ pc'[o] = Loaded(o) /\ saved' = saved
      /\ Loaded(o) \in Quiet \cup {"splice"}
      /\ Loaded(o) = "splice" => frame[o].kind = "update"
  BY DEF LoadCached, Parse, Goes, Inv, TypeInv, TypeOK, Locals, Live, store, Loaded, Quiet
<1>2. CASE Loaded(o) \in Quiet
  BY <1>1, <1>2 DEF Quiet, LooksRight, SavesRight
<1>3. CASE Loaded(o) = "splice"
  <2>1. frame[o].kind = "update"
    BY <1>1, <1>3
  <2>2. CASE LoadCached(o)
    <3>1. frame'[o].index = cache /\ frame'[o].kind = "update" /\ heap' = heap
          /\ cache \in Op /\ "overtaken" \notin lapses
      BY <1>1, <1>3, <2>1, <2>2 DEF LoadCached, TypeInv, TypeOK, Frame
    <3>2. Holds(o) /\ ~Dirty(o)
      BY <2>1, <2>2, Kinds DEF LoadCached, Holds, Dirty, Looks
    <3>3. \A p \in Op : ~Dirty(p)
      <4>1. \A p \in Op : Dirty(p) => Holds(p)
        BY DEF Dirty, Holds
      <4> QED
        BY <3>2, <4>1 DEF Inv, LockInv
    <3>4. heap[cache] = saved /\ saved \in Index
      BY <1>1, <3>1, <3>3, ConstantsAssumption DEF CacheInv, TypeInv, TypeOK, ConstantsAssumption
    <3> QED
      BY <1>1, <1>3, <3>1, <3>4, Kinds DEF LooksRight, SavesRight, Mine
  <2>3. CASE Parse(o)
    <3>1. frame'[o].index = o /\ frame'[o].kind = "update" /\ heap'[o] = frame[o].raw
      BY <1>1, <1>3, <2>1, <2>3 DEF Parse, TypeInv, TypeOK, Frame
    <3>2. frame[o].raw = saved /\ frame[o].raw \in Index
      BY <1>1, <2>3 DEF Parse, Lapses, Fits
    <3> QED
      BY <1>1, <1>3, <3>1, <3>2, Kinds DEF LooksRight, SavesRight, Mine
  <2> QED
    BY <2>2, <2>3
<1> QED
  BY <1>1, <1>2, <1>3

LEMMA DiscoverRight ==
    ASSUME Inv, DiskInv, SoundInv, NEW o \in Op, Discover(o)
    PROVE  LooksRight(o)' /\ SavesRight(o)'
<1>1. frame[o] \in Frame /\ Fits(o) /\ TypeOK /\ pc'[o] = "read" /\ disk' = disk
  BY DEF Discover, Inv, TypeInv, TypeOK, Locals, Live, Goes
<1>2. /\ frame'[o].known = Known(o) /\ frame'[o].edits = {}
      /\ \A f \in File : frame'[o].seen[f] =
           IF f \in Known(o) THEN Mine(o)[f] ELSE [content |-> Absent, time |-> disk[f].time]
  BY <1>1 DEF Discover, TypeOK, Frame
<1>3. ASSUME NEW f \in File PROVE
        /\ f \in Known(o) => Mine(o)[f].content = disk[f].content
        /\ f \notin Known(o) /\ frame'[o].seen[f].time = 0 => ~Has(disk, f)
  <2>1. CASE f \in Known(o)
    <3>1. Sound(Mine(o)[f], f)
      BY <1>1, <2>1 DEF Known, Mine, Discover, Fits, SoundInv, AllSound
    <3> QED
      BY <2>1, <3>1 DEF Known, Sound, Has
  <2>2. CASE f \notin Known(o)
    <3>0. frame'[o].seen[f] = [content |-> Absent, time |-> disk[f].time]
      BY <1>2, <2>2
    <3>1. frame'[o].seen[f].time = disk[f].time
      BY <3>0
    <3>2. Has(disk, f) => disk[f].time > 0
      BY DEF DiskInv
    <3> QED
      BY <2>2, <3>1, <3>2
  <2> QED
    BY <2>1, <2>2
<1> QED
  BY <1>1, <1>2, <1>3 DEF LooksRight, SavesRight, Agrees, Has

LEMMA ReadRight ==
    ASSUME Inv, NEW o \in Op, LooksRight(o), ReadFiles(o)
    PROVE  LooksRight(o)' /\ SavesRight(o)'
<1>1. frame[o] \in Frame /\ TypeOK /\ pc'[o] = "remove" /\ disk' = disk /\ pc[o] = "read"
  BY DEF ReadFiles, Inv, TypeInv, TypeOK, Live, Goes
<1>2. /\ frame'[o].edits = frame[o].edits
      /\ \A f \in File : frame'[o].seen[f] =
          IF f \in frame[o].known THEN frame[o].seen[f]
          ELSE IF frame[o].seen[f].time = 0 \/ ~Has(disk, f) THEN NoRecord
          ELSE [content |-> disk[f].content, time |-> frame[o].seen[f].time]
  BY <1>1 DEF ReadFiles, TypeOK, Frame
<1>3. ASSUME NEW f \in File \ frame[o].edits PROVE frame'[o].seen[f].content = disk[f].content
  <2>1. CASE f \in frame[o].known
    BY <1>1, <1>2, <2>1 DEF LooksRight, Agrees
  <2>2. CASE f \notin frame[o].known /\ (frame[o].seen[f].time = 0 \/ ~Has(disk, f))
    <3>1. ~Has(disk, f)
      BY <1>1, <2>2 DEF LooksRight
    <3>2. frame'[o].seen[f] = NoRecord
      BY <1>2, <2>2
    <3> QED
      BY <3>1, <3>2 DEF Has, NoRecord
  <2>3. CASE f \notin frame[o].known /\ ~(frame[o].seen[f].time = 0 \/ ~Has(disk, f))
    <3>1. frame'[o].seen[f] = [content |-> disk[f].content, time |-> frame[o].seen[f].time]
      BY <1>2, <2>3
    <3> QED
      BY <3>1
  <2> QED
    BY <2>1, <2>2, <2>3
<1> QED
  BY <1>1, <1>2, <1>3 DEF LooksRight, SavesRight, Agrees

LEMMA PushRight ==
    ASSUME Inv, NEW o \in Op, LooksRight(o), Remove(o) \/ Push(o)
    PROVE  LooksRight(o)' /\ SavesRight(o)'
<1>1. frame[o] \in Frame /\ Fits(o) /\ TypeOK /\ disk' = disk
  BY DEF Remove, Push, Inv, TypeInv, TypeOK, Locals, Live
<1>2. CASE Remove(o)
  <2>1. pc[o] = "remove" /\ pc'[o] = "push" /\ frame' = frame
    BY <1>1, <1>2 DEF Remove, Goes, TypeOK
  <2> QED
    BY <1>1, <2>1 DEF LooksRight, SavesRight, Agrees
<1>3. CASE Push(o)
  <2>1. /\ pc[o] = "push" /\ pc'[o] = "save" /\ frame'[o].edits = frame[o].edits
        /\ frame'[o].kind = frame[o].kind /\ frame[o].kind # "update"
        /\ frame'[o].index \in Op /\ heap'[frame'[o].index] = frame[o].seen
    BY <1>1, <1>3 DEF Push, Goes, TypeOK, Frame, Fits
  <2>2. Mine(o)' = frame[o].seen
    BY <2>1 DEF Mine
  <2> QED
    BY <1>1, <2>1, <2>2 DEF LooksRight, SavesRight, Agrees
<1> QED
  BY <1>2, <1>3

LEMMA UpdateRight ==
    ASSUME Inv, NEW o \in Op, LooksRight(o), SavesRight(o),
           Splice(o) \/ FetchContent(o) \/ FetchStat(o) \/ PushUpdate(o)
    PROVE  LooksRight(o)' /\ SavesRight(o)'
<1> DEFINE i == frame[o].index
           f == frame[o].file
<1>1. /\ TypeOK /\ frame[o] \in Frame /\ frame[o].kind = "update"
      /\ i \in Op /\ f \in File /\ disk' = disk /\ saved' = saved
      /\ pc[o] \in {"splice", "fetch"} /\ heap[i] \in Index
  BY DEF Splice, FetchContent, FetchStat, PushUpdate, Inv, TypeInv, TypeOK, Locals, Live, Fits, store
<1>2. saved # NoIndex /\ \A g \in File \ {f} : Mine(o)[g] = saved[g]
  BY <1>1 DEF SavesRight
<1>3. CASE Splice(o)
  <2>1. /\ pc'[o] = "fetch" /\ frame'[o].kind = "update" /\ frame'[o].file = f
        /\ frame'[o].index = i /\ frame'[o].todo = {"content", "stat"}
        /\ heap'[i] = [heap[i] EXCEPT ![f] = NoRecord]
    BY <1>1, <1>3 DEF Splice, Goes, TypeOK, Frame
  <2>2. \A g \in File \ {f} : Mine(o)'[g] = Mine(o)[g]
    BY <1>1, <2>1 DEF Mine, Index
  <2> QED
    BY <1>1, <1>2, <2>1, <2>2 DEF LooksRight, SavesRight
<1>4. CASE FetchContent(o) \/ FetchStat(o)
  <2>1. /\ pc'[o] = "fetch" /\ pc[o] = "fetch" /\ frame'[o].kind = "update" /\ frame'[o].file = f
        /\ frame'[o].index = i /\ heap' = heap /\ frame'[o].edits = frame[o].edits
        /\ frame[o].seen[f] \in Record
    <3>1. frame[o].seen \in Index /\ frame[o].seen[f] \in Record
      BY <1>1 DEF Frame, Index
    <3>2. pc' = pc /\ heap' = heap /\ pc[o] = "fetch"
      BY <1>4 DEF FetchContent, FetchStat
    <3>3. CASE FetchContent(o)
      BY <1>1, <3>1, <3>2, <3>3 DEF FetchContent, TypeOK, Frame
    <3>4. CASE FetchStat(o)
      BY <1>1, <3>1, <3>2, <3>4 DEF FetchStat, TypeOK, Frame
    <3> QED
      BY <1>4, <3>3, <3>4
  <2>2. Mine(o)' = Mine(o)
    BY <2>1 DEF Mine
  <2>3. LooksRight(o)'
    <3>1. CASE FetchContent(o)
      <4>1. frame'[o].seen[f].content = disk[f].content
        BY <1>1, <2>1, <3>1 DEF FetchContent, TypeOK, Frame, Index, Record
      <4> QED
        BY <1>1, <2>1, <4>1 DEF LooksRight, Agrees
    <3>2. CASE FetchStat(o)
      <4>1. frame'[o].seen[f].content = frame[o].seen[f].content
            /\ frame'[o].todo = frame[o].todo \ {"stat"}
        BY <1>1, <2>1, <3>2 DEF FetchStat, TypeOK, Frame, Index, Record
      <4> QED
        BY <1>1, <2>1, <4>1 DEF LooksRight, Agrees
    <3> QED
      BY <1>4, <3>1, <3>2
  <2> QED
    BY <1>1, <1>2, <2>1, <2>2, <2>3 DEF SavesRight
<1>5. CASE PushUpdate(o)
  <2>1. /\ pc'[o] = "save" /\ pc[o] = "fetch" /\ frame' = frame /\ frame[o].todo = {}
        /\ heap'[i] = [heap[i] EXCEPT ![f] = Found(o)]
    BY <1>1, <1>5 DEF PushUpdate, Goes, TypeOK
  <2>2. Mine(o)'[f] = Found(o) /\ \A g \in File \ {f} : Mine(o)'[g] = Mine(o)[g]
    BY <1>1, <2>1 DEF Mine, Index
  <2>3. ASSUME frame[o].content = Absent, f \notin frame[o].edits
        PROVE  Found(o).content = disk[f].content
    <3>1. frame[o].seen[f].content = disk[f].content
      BY <1>1, <2>1, <2>3 DEF LooksRight, Agrees
    <3>2. Given(o) = frame[o].seen[f].content
      BY <2>3 DEF Given
    <3>3. Found(o).content = Given(o)
      BY DEF Found, NoRecord
    <3> QED
      BY <3>1, <3>2, <3>3
  <2> QED
    BY <1>1, <1>2, <2>1, <2>2, <2>3 DEF LooksRight, SavesRight, Agrees
<1> QED
  BY <1>3, <1>4, <1>5

(* The step of an operation itself. *)
LEMMA OwnRight ==
    ASSUME Inv, CacheInv, DiskInv, SoundInv, NEW o \in Op, LooksRight(o), SavesRight(o),
           Acts(o), "overtaken" \notin lapses'
    PROVE  LooksRight(o)' /\ SavesRight(o)'
<1>1. CASE LoadCached(o) \/ Parse(o)
  BY <1>1, LoadedRight
<1>2. CASE Discover(o)
  BY <1>2, DiscoverRight
<1>3. CASE ReadFiles(o)
  BY <1>3, ReadRight
<1>4. CASE Remove(o) \/ Push(o)
  BY <1>4, PushRight
<1>5. CASE Splice(o) \/ FetchContent(o) \/ FetchStat(o) \/ PushUpdate(o)
  BY <1>5, UpdateRight
<1>6. CASE ~(LoadCached(o) \/ Parse(o) \/ Discover(o) \/ ReadFiles(o) \/ Remove(o) \/ Push(o)
             \/ Splice(o) \/ FetchContent(o) \/ FetchStat(o) \/ PushUpdate(o))
  <2>1. CASE \E kind \in Writer \cup Reader, f \in File \cup {NoOp},
             c \in Content \cup {Absent} : Request(o, kind, f, c)
    <3>1. pc'[o] \in {"lock", "load"}
      BY <2>1 DEF Request, Goes, Inv, TypeInv, TypeOK
    <3> QED
      BY <3>1 DEF LooksRight, SavesRight
  <2>2. CASE Lock(o) \/ LoadFile(o) \/ Forget(o) \/ Save(o)
    <3>1. pc'[o] \in {"discover", "load", "parse", "drop", "publish"}
      BY <2>2 DEF Lock, LoadFile, Forget, Save, Goes, Inv, TypeInv, TypeOK
    <3> QED
      BY <3>1 DEF LooksRight, SavesRight
  <2>3. CASE LoadFails(o) \/ Publish(o) \/ Rebuild(o) \/ Fails(o) \/ Drop(o)
    <3>1. pc'[o] = "done"
      BY <2>3 DEF LoadFails, Publish, Rebuild, Fails, Drop, Ends, Goes, Inv, TypeInv, TypeOK
    <3> QED
      BY <3>1 DEF LooksRight, SavesRight
  <2> QED
    BY <1>6, <2>1, <2>2, <2>3 DEF Acts, Step
<1> QED
  BY <1>1, <1>2, <1>3, <1>4, <1>5, <1>6

(* What is saved. *)
LEMMA SavedKept ==
    ASSUME Inv, NEW o \in Op, SavedRight, SavesRight(o), Acts(o)
    PROVE  SavedRight'
<1>1. disk' = disk
  BY FilesStay
<1>2. CASE Save(o)
  <2>1. /\ frame[o] \in Frame /\ Fits(o) /\ pc[o] = "save" /\ saved' = Mine(o)
        /\ drift' = Drifted(o)
    BY <1>2 DEF Save, Inv, TypeInv, TypeOK, Locals, Live
  <2>2. CASE frame[o].kind # "update"
    BY <1>1, <2>1, <2>2 DEF SavedRight, SavesRight, Drifted, Agrees
  <2>3. CASE frame[o].kind = "update"
    <3>1. ASSUME NEW f \in File \ drift', f # frame[o].file PROVE Agrees(Mine(o), f)
      <4>1. saved # NoIndex /\ Mine(o)[f] = saved[f] /\ f \notin drift
        BY <2>1, <2>3, <3>1 DEF SavesRight, Drifted
      <4> QED
        BY <4>1 DEF SavedRight, Agrees
    <3>2. ASSUME frame[o].file \notin drift' PROVE Agrees(Mine(o), frame[o].file)
      <4>1. frame[o].file \notin frame[o].edits /\ frame[o].content = Absent
        BY <2>1, <2>3, <3>2 DEF Drifted
      <4> QED
        BY <2>1, <2>3, <4>1 DEF SavesRight
    <3> QED
      BY <1>1, <2>1, <3>1, <3>2 DEF SavedRight, Agrees
  <2> QED
    BY <2>2, <2>3
<1>3. CASE ~Save(o)
  <2>1. drift' = drift /\ (saved' = saved \/ saved' = NoIndex)
    BY <1>3 DEF Acts, Step, Request, Lock, LoadCached, LoadFile, Parse, LoadFails, Discover,
       ReadFiles, Remove, Push, Splice, FetchContent, FetchStat, PushUpdate, Publish,
       Forget, Drop, Rebuild, Fails, store
  <2> QED
    BY <1>1, <2>1 DEF SavedRight, Agrees
<1> QED
  BY <1>2, <1>3

LEMMA SyncStep == IInv /\ [Next]_vars => SyncInv'
<1> SUFFICES ASSUME IInv, [Next]_vars, lapses' \cap {"skewed", "overtaken"} = {}
             PROVE  SavedRight' /\ \A o \in Op : LooksRight(o)' /\ SavesRight(o)'
  BY DEF SyncInv
<1>0. /\ lapses \subseteq lapses' /\ Inv /\ CacheInv /\ DiskInv /\ SoundInv
      /\ SavedRight /\ \A o \in Op : LooksRight(o) /\ SavesRight(o)
  <2>1. lapses \subseteq lapses'
    BY LapsesStay DEF IInv, Inv, TypeInv
  <2> QED
    BY <2>1 DEF IInv, MatchInv, SyncInv
<1>1. ASSUME NEW o \in Op, Acts(o)
      PROVE  SavedRight' /\ \A p \in Op : LooksRight(p)' /\ SavesRight(p)'
  <2>1. SavedRight'
    BY <1>0, <1>1, SavedKept
  <2>2. ASSUME NEW p \in Op PROVE LooksRight(p)' /\ SavesRight(p)'
    <3>1. CASE p = o
      BY <1>0, <1>1, <3>1, OwnRight
    <3>2. CASE p # o
      BY <1>0, <1>1, <3>2, OthersRight
    <3> QED
      BY <3>1, <3>2
  <2> QED
    BY <2>1, <2>2
<1>2. ASSUME NEW f \in File, NEW c \in Content \cup {Absent}, Edit(f, c)
      PROVE  SavedRight' /\ \A p \in Op : LooksRight(p)' /\ SavesRight(p)'
  BY <1>0, <1>2, EditRight DEF Inv
<1>3. CASE Expire
  BY <1>0, <1>3 DEF Expire, store, SavedRight, LooksRight, SavesRight, Mine, Agrees, Has
<1>4. CASE Restart
  <2>1. UNCHANGED <<disk, saved, drift>> /\ \A o \in Op : pc'[o] \in {"new", "done"}
    BY <1>4 DEF Restart
  <2> QED
    BY <1>0, <2>1 DEF SavedRight, LooksRight, SavesRight, Agrees
<1>5. CASE UNCHANGED vars
  BY <1>0, <1>5 DEF vars, store, SavedRight, LooksRight, SavesRight, Mine, Agrees, Has
<1> QED
  BY <1>1, <1>2, <1>3, <1>4, <1>5, NextActs DEF Edits

(* "Bring an index up to date with the disk": every file that was not       *)
(* changed since the last index, sync or update of it looked agrees with    *)
(* the index, for any number of operations, files and edits and whatever    *)
(* failed in between.                                                      *)
THEOREM SyncsAgree == Spec => []SyncedAgrees
<1>1. Init => IInv
  <2>1. Init => SyncInv
    BY DEF Init, SyncInv, SavedRight, LooksRight, SavesRight, Agrees
  <2>2. Init => CacheInv
    BY DEF Init, CacheInv
  <2> QED
    BY <2>1, <2>2, InvInit, MatchInit DEF IInv
<1>2. IInv /\ [Next]_vars => IInv'
  BY InvStep, CacheStep, MatchStep, SyncStep DEF IInv
<1>3. IInv => SyncedAgrees
  BY DEF IInv, SyncInv, SavedRight, Agrees, SyncedAgrees
<1> QED
  BY <1>1, <1>2, <1>3, PTL DEF Spec

-----------------------------------------------------------------------------
(* The vectors follow the index.                                            *)

(* An operation that has begun to change the vectors, for an index it has   *)
(* not saved yet; an index from scratch has none before it has them all.    *)
Changing(o) == pc[o] \in {"push", "fetch", "save"}
Scratch(o) == pc[o] = "push" /\ frame[o].kind = "index"

(* The index the vectors are those of. *)
Current(x) ==
    \/ x = saved /\ \A o \in Op : ~Changing(o)
    \/ \E o \in Op : Changing(o) /\ ~Scratch(o) /\ x = Mine(o)

(* What a search may fill the vectors from: it has the object, or will take *)
(* it from the cache or from index.json.                                    *)
Source(x) ==
    \/ x = saved
    \/ cache # NoOp /\ x = heap[cache]
    \/ \E s \in Op : pc[s] = "vectors" /\ x = Mine(s)

(* Every symbol of an index has the vector of its content... *)
Complete(x) == \A f \in File : Has(x, f) => vectors[f] = x[f].content

(* ... or there are no other vectors than these, and whichever search comes *)
(* first adds those that are missing.                                       *)
ToFill(x, f) == vectors[f] = Absent /\ \A y \in Index : Source(y) => y[f].content = x[f].content
Partial(x) ==
    /\ backend = "memory" /\ ~rebuilt
    /\ \A f \in File : vectors[f] = x[f].content \/ ToFill(x, f)

Follows(x) == Complete(x) \/ Partial(x)

(* A writer begins with what is saved; it has removed what it will add.     *)
Ready(o) ==
    /\ \/ pc[o] \in {"discover", "read", "remove"} /\ frame[o].kind = "sync"
       \/ pc[o] = "splice"
       => Mine(o) = saved
    /\ pc[o] = "push" /\ frame[o].kind = "sync" => \A f \in File :
         Has(Mine(o), f) => Mine(o)[f].content = frame[o].seen[f].content
    /\ pc[o] = "fetch" => ~Has(Mine(o), frame[o].file)

FollowInv == \A x \in Index : Current(x) => Follows(x)

VectorInv == lapses \subseteq {"skewed"} => FollowInv /\ \A o \in Op : Ready(o)

(* One operation changes things at a time. *)
LEMMA OneChanges ==
    ASSUME Inv, NEW o \in Op, Changing(o)
    PROVE  /\ Holds(o) /\ lock = o /\ frame[o] \in Frame /\ Fits(o)
           /\ \A p \in Op : Holds(p) => p = o
           /\ ~Scratch(o) => frame[o].index \in Op /\ frame[o].index \in Shared
<1>1. Holds(o) /\ Live(o)
  BY DEF Changing, Holds, Looks, Live
<1>2. lock = o /\ \A p \in Op : Holds(p) => p = o
  BY <1>1 DEF Inv, LockInv
<1>3. frame[o] \in Frame /\ Fits(o)
  BY <1>1 DEF Inv, TypeInv, TypeOK, Locals, Live
<1>4. ASSUME ~Scratch(o) PROVE frame[o].index \in Op /\ frame[o].index \in Shared
  <2>1. frame[o].index \in Op
    BY <1>3, <1>4 DEF Fits, Changing, Scratch
  <2> QED
    BY <1>1, <2>1, ConstantsAssumption DEF Inv, MadeInv, ConstantsAssumption
<1> QED
  BY <1>1, <1>2, <1>3, <1>4

(* A step that neither changes nor saves an index leaves the current one.   *)
LEMMA CurrentKept ==
    ASSUME Inv, NEW o \in Op, Acts(o), saved' = saved,
           \A q \in Shared : heap'[q] = heap[q],
           Changing(o)' <=> Changing(o),
           Changing(o) => /\ frame'[o].index = frame[o].index
                          /\ Scratch(o)' <=> Scratch(o),
           NEW x, Current(x)'
    PROVE  Current(x)
<1>1. \A p \in Op : p # o => pc'[p] = pc[p] /\ frame'[p] = frame[p]
  BY OthersStay DEF Inv, TypeInv
<1>2. ASSUME NEW p \in Op
      PROVE  /\ Changing(p)' <=> Changing(p)
             /\ Changing(p) => /\ frame'[p].index = frame[p].index
                               /\ Scratch(p)' <=> Scratch(p)
  BY <1>1 DEF Changing, Scratch
<1>3. CASE x = saved' /\ \A p \in Op : ~Changing(p)'
  BY <1>2, <1>3 DEF Current
<1>4. ASSUME NEW p \in Op, Changing(p)', ~Scratch(p)', x = Mine(p)'
      PROVE  Current(x)
  <2>1. Changing(p) /\ ~Scratch(p) /\ frame'[p].index = frame[p].index
    BY <1>2, <1>4
  <2>2. frame[p].index \in Shared
    BY <2>1, OneChanges
  <2>3. x = Mine(p)
    BY <1>4, <2>1, <2>2 DEF Mine
  <2> QED
    BY <2>1, <2>3 DEF Current
<1> QED
  BY <1>3, <1>4 DEF Current

(* The sources of a step that makes at most the object j a new one.         *)
LEMMA SourcesKept ==
    ASSUME Inv, NEW o \in Op, Acts(o), NEW j, saved' = saved \/ saved' = j \/ saved' = NoIndex,
           \A q \in Shared : heap'[q] = heap[q] \/ heap'[q] = j,
           cache' # NoOp => cache' = cache \/ heap'[cache'] = j,
           pc'[o] = "vectors" =>
             \/ heap'[frame'[o].index] = j
             \/ cache # NoOp /\ heap'[frame'[o].index] = heap[cache],
           NEW x \in Index, Source(x)'
    PROVE  Source(x) \/ x = j
<1>1. \A p \in Op : p # o => pc'[p] = pc[p] /\ frame'[p] = frame[p]
  BY OthersStay DEF Inv, TypeInv
<1>2. CASE x = saved'
  BY <1>2, Kinds DEF Source
<1>3. CASE cache' # NoOp /\ x = heap'[cache']
  BY <1>3 DEF Source, Inv, MadeInv
<1>4. ASSUME NEW s \in Op, pc'[s] = "vectors", x = Mine(s)'
      PROVE  Source(x) \/ x = j
  <2>1. CASE s = o
    BY <1>4, <2>1 DEF Source, Mine
  <2>2. CASE s # o
    <3>1. pc[s] = "vectors" /\ frame'[s] = frame[s] /\ Live(s)
      BY <1>1, <1>4, <2>2 DEF Live
    <3>2. frame[s].index \in Op
      BY <3>1 DEF Inv, TypeInv, Locals, Fits
    <3>3. frame[s].index \in Shared
      BY <3>1, <3>2, ConstantsAssumption DEF Inv, MadeInv, ConstantsAssumption
    <3> QED
      BY <1>4, <3>1, <3>3 DEF Source, Mine
  <2> QED
    BY <2>1, <2>2
<1> QED
  BY <1>2, <1>3, <1>4 DEF Source

(* The index i becomes j: a file is as it was, or has the vector of its     *)
(* content; and a search may take j, or what it might have taken before.    *)
LEMMA FollowsOn ==
    ASSUME NEW i \in Index, NEW j \in Index, Follows(i), backend' = backend,
           rebuilt' \in BOOLEAN, rebuilt' => rebuilt,
           \A f \in File : \/ j[f].content = i[f].content /\ vectors'[f] = vectors[f]
                           \/ vectors'[f] = j[f].content,
           \A x \in Index : Source(x)' => Source(x) \/ x = j
    PROVE  Follows(j)'
<1>1. CASE Complete(i)
  <2>1. ASSUME NEW f \in File, Has(j, f) PROVE vectors'[f] = j[f].content
    BY <1>1, <2>1 DEF Complete, Has
  <2> QED
    BY <2>1 DEF Follows, Complete, Has
<1>2. CASE Partial(i)
  <2>1. ASSUME NEW f \in File PROVE vectors'[f] = j[f].content \/ ToFill(j, f)'
    <3>1. CASE vectors'[f] = j[f].content
      BY <3>1
    <3>2. CASE j[f].content = i[f].content /\ vectors'[f] = vectors[f] /\ vectors'[f] # j[f].content
      <4>1. ToFill(i, f)
        BY <1>2, <3>2 DEF Partial
      <4> QED
        BY <3>2, <4>1 DEF ToFill
    <3> QED
      BY <3>1, <3>2
  <2>2. backend' = "memory" /\ ~rebuilt'
    BY <1>2 DEF Partial
  <2> QED
    BY <2>1, <2>2 DEF Follows, Partial
<1> QED
  BY <1>1, <1>2 DEF Follows

(* A step that changes neither an index nor the vectors. *)
LEMMA QuietFollows ==
    ASSUME Inv, FollowInv, NEW o \in Op, Acts(o), UNCHANGED <<backend, saved, vectors>>,
           \A q \in Shared : heap'[q] = heap[q],
           rebuilt' \in BOOLEAN, rebuilt' => rebuilt,
           Changing(o)' <=> Changing(o),
           Changing(o) => /\ frame'[o].index = frame[o].index
                          /\ Scratch(o)' <=> Scratch(o),
           cache' # NoOp => cache' = cache \/ heap'[cache'] = saved,
           pc'[o] = "vectors" =>
             \/ heap'[frame'[o].index] = saved
             \/ cache # NoOp /\ heap'[frame'[o].index] = heap[cache]
    PROVE  FollowInv'
<1> SUFFICES ASSUME NEW x \in Index, Current(x)' PROVE Follows(x)'
  BY DEF FollowInv
<1>1. Current(x)
  BY CurrentKept
<1>2. Follows(x)
  BY <1>1 DEF FollowInv
<1>3. \A y \in Index : Source(y)' => Source(y) \/ y = saved
  BY SourcesKept
<1>4. \A y \in Index : Source(y)' => Source(y) \/ y = x
  BY <1>3 DEF Source
<1> QED
  BY <1>2, <1>4, FollowsOn

(* The steps before a write begins, and after it is over. *)
LEMMA RequestsFollow ==
    ASSUME Inv, FollowInv, NEW o \in Op, Acts(o),
           \/ \E kind \in Writer \cup Reader, f \in File \cup {NoOp},
                c \in Content \cup {Absent} : Request(o, kind, f, c)
           \/ Lock(o) \/ LoadFile(o) \/ LoadFails(o) \/ Forget(o)
    PROVE  FollowInv'
<1>1. /\ UNCHANGED <<backend, saved, vectors, heap>>
      /\ rebuilt' \in BOOLEAN /\ (rebuilt' => rebuilt)
      /\ cache' # NoOp => cache' = cache
  <2>1. CASE Forget(o)
    BY <2>1 DEF Forget
  <2>2. CASE ~Forget(o)
    BY <2>2 DEF Request, Lock, LoadFile, LoadFails, store, Inv, TypeInv, TypeOK
  <2> QED
    BY <2>1, <2>2
<1>2. pc[o] \in {"new", "lock", "load"} /\ pc'[o] \in {"lock", "load", "discover", "parse", "done", "drop"}
  BY DEF Request, Lock, LoadFile, LoadFails, Forget, Ends, Goes, Inv, TypeInv, TypeOK
<1>3. ~Changing(o) /\ ~Changing(o)'
  BY <1>2 DEF Changing
<1> QED
  BY <1>1, <1>2, <1>3, QuietFollows

LEMMA LoadsFollow ==
    ASSUME Inv, FollowInv, NEW o \in Op, Acts(o), LoadCached(o) \/ Parse(o),
           "overtaken" \notin lapses'
    PROVE  FollowInv'
<1>1. /\ frame[o] \in Frame /\ Fits(o) /\ Loaded(o) \in {"discover", "splice", "vectors", "done"}
      /\ pc[o] \in {"load", "parse"} /\ pc'[o] = Loaded(o)
      /\ UNCHANGED <<backend, saved, vectors, rebuilt>> /\ rebuilt \in BOOLEAN
  BY DEF LoadCached, Parse, Goes, Inv, TypeInv, TypeOK, Locals, Live, store, Loaded
<1>2. ~Changing(o) /\ ~Changing(o)'
  BY <1>1 DEF Changing
<1>3. CASE LoadCached(o)
  <2>1. heap' = heap /\ cache' = cache /\ cache # NoOp
    BY <1>3 DEF LoadCached
  <2>2. Loaded(o) # "done" => frame'[o].index = cache
    BY <1>1, <1>3 DEF LoadCached, Inv, TypeInv, TypeOK, Frame
  <2> QED
    BY <1>1, <1>2, <2>1, <2>2, QuietFollows
<1>4. CASE Parse(o)
  <2>1. frame[o].raw = saved /\ heap' = [heap EXCEPT ![o] = saved] /\ cache' = o
    BY <1>4 DEF Parse, Lapses
  <2>2. o \notin Shared /\ heap'[o] = saved
    BY <1>4, <2>1 DEF Parse, Shared, Made, Inv, TypeInv, TypeOK
  <2>3. \A q \in Shared : heap'[q] = heap[q]
    BY <2>1, <2>2 DEF Shared, Inv, TypeInv, TypeOK
  <2>4. Loaded(o) # "done" => frame'[o].index = o
    BY <1>1, <1>4 DEF Parse, Inv, TypeInv, TypeOK, Frame
  <2> QED
    BY <1>1, <1>2, <2>1, <2>2, <2>3, <2>4, QuietFollows
<1> QED
  BY <1>3, <1>4

LEMMA LooksFollow ==
    ASSUME Inv, FollowInv, NEW o \in Op, Acts(o),
           Discover(o) \/ ReadFiles(o) \/ FetchContent(o) \/ FetchStat(o)
    PROVE  FollowInv'
<1>1. /\ frame[o] \in Frame /\ UNCHANGED <<backend, saved, vectors, rebuilt, heap, cache>>
      /\ rebuilt \in BOOLEAN
  BY DEF Discover, ReadFiles, FetchContent, FetchStat, Inv, TypeInv, TypeOK, Live, store
<1>2. CASE Discover(o) \/ ReadFiles(o)
  <2>1. pc[o] \in {"discover", "read"} /\ pc'[o] \in {"read", "remove"}
    BY <1>2 DEF Discover, ReadFiles, Goes, Inv, TypeInv, TypeOK
  <2>2. ~Changing(o) /\ ~Changing(o)'
    BY <2>1 DEF Changing
  <2> QED
    BY <1>1, <2>1, <2>2, QuietFollows
<1>3. CASE FetchContent(o) \/ FetchStat(o)
  <2>1. pc[o] = "fetch" /\ pc' = pc
    BY <1>3 DEF FetchContent, FetchStat
  <2>2. frame'[o].index = frame[o].index
    <3>1. CASE FetchContent(o)
      BY <1>1, <3>1 DEF FetchContent, Inv, TypeInv, TypeOK, Frame
    <3>2. CASE FetchStat(o)
      BY <1>1, <3>2 DEF FetchStat, Inv, TypeInv, TypeOK, Frame
    <3> QED
      BY <1>3, <3>1, <3>2
  <2>3. (Changing(o)' <=> Changing(o)) /\ (Scratch(o)' <=> Scratch(o))
    BY <2>1 DEF Changing, Scratch
  <2> QED
    BY <1>1, <2>1, <2>2, <2>3, QuietFollows
<1> QED
  BY <1>2, <1>3

LEMMA PublishFollows ==
    ASSUME Inv, CacheInv, FollowInv, NEW o \in Op, Acts(o), Publish(o)
    PROVE  FollowInv'
<1>1. /\ UNCHANGED <<backend, saved, vectors, heap>> /\ rebuilt' \in BOOLEAN /\ (rebuilt' => rebuilt)
      /\ pc[o] = "publish" /\ pc'[o] = "done" /\ cache' = frame[o].index
  BY DEF Publish, Ends, Goes, Inv, TypeInv, TypeOK
<1>2. heap[frame[o].index] = saved
  BY <1>1 DEF CacheInv
<1>3. ~Changing(o) /\ ~Changing(o)'
  BY <1>1 DEF Changing
<1> QED
  BY <1>1, <1>2, <1>3, QuietFollows

(* A write that fails before it began. *)
LEMMA FailsFollow ==
    ASSUME Inv, FollowInv, NEW o \in Op, Acts(o), Fails(o), "failed" \notin lapses'
    PROVE  FollowInv'
<1>1. /\ UNCHANGED <<backend, saved, vectors, rebuilt, heap>> /\ rebuilt \in BOOLEAN
      /\ pc[o] = "discover" /\ pc'[o] = "done" /\ (cache' # NoOp => cache' = cache)
  BY DEF Fails, Uncached, Lapses, Ends, Goes, Inv, TypeInv, TypeOK, store
<1>2. ~Changing(o) /\ ~Changing(o)'
  BY <1>1 DEF Changing
<1> QED
  BY <1>1, <1>2, QuietFollows

-----------------------------------------------------------------------------
(* A writer that has the repository decides which index is the current one. *)
LEMMA CurrentNow ==
    ASSUME Inv, NEW o \in Op, Holds(o)
    PROVE  /\ ~Changing(o) => Current(saved)
           /\ Changing(o) /\ ~Scratch(o) => Current(Mine(o))
<1>1. \A p \in Op : Changing(p) => Holds(p)
  BY DEF Changing, Holds, Looks
<1>2. \A p \in Op : Holds(p) => p = o
  BY DEF Inv, LockInv
<1> QED
  BY <1>1, <1>2 DEF Current

LEMMA CurrentAfter ==
    ASSUME Inv, NEW o \in Op, Holds(o), Acts(o), NEW x, Current(x)'
    PROVE  \/ Changing(o)' /\ ~Scratch(o)' /\ x = Mine(o)'
           \/ ~Changing(o)' /\ x = saved'
<1>1. ASSUME NEW p \in Op, Changing(p)' PROVE p = o
  <2>1. p # o => pc'[p] = pc[p]
    BY OthersStay DEF Inv, TypeInv
  <2>2. p # o => Holds(p)
    BY <1>1, <2>1 DEF Changing, Holds, Looks
  <2> QED
    BY <2>2 DEF Inv, LockInv
<1> QED
  BY <1>1 DEF Current

(* A step of a writer that makes the index i into j, and the vectors too.   *)
LEMMA WriteFollows ==
    ASSUME Inv, FollowInv, NEW o \in Op, Acts(o), NEW i \in Index, Current(i), NEW j \in Index,
           \A x \in Index : Current(x)' => x = j,
           UNCHANGED <<backend, rebuilt, cache>>, pc'[o] # "vectors",
           saved' = saved \/ saved' = j,
           \A q \in Shared : heap'[q] = heap[q] \/ heap'[q] = j,
           \A f \in File : \/ j[f].content = i[f].content /\ vectors'[f] = vectors[f]
                           \/ vectors'[f] = j[f].content
    PROVE  FollowInv'
<1>1. Follows(i)
  BY DEF FollowInv
<1>2. \A x \in Index : Source(x)' => Source(x) \/ x = j
  BY SourcesKept
<1>3. rebuilt' \in BOOLEAN /\ (rebuilt' => rebuilt)
  BY DEF Inv, TypeInv, TypeOK
<1>4. Follows(j)'
  BY <1>1, <1>2, <1>3, FollowsOn
<1> QED
  BY <1>4 DEF FollowInv

(* The files a sync removes lose their vectors; an index from scratch loses *)
(* all, and is nobody's index before it has them again.                     *)
LEMMA RemoveFollows ==
    ASSUME Inv, FollowInv, NEW o \in Op, Acts(o), Remove(o), Ready(o)
    PROVE  FollowInv' /\ Ready(o)'
<1>1. /\ frame[o] \in Frame /\ Fits(o) /\ Holds(o) /\ pc[o] = "remove" /\ pc'[o] = "push"
      /\ UNCHANGED <<backend, rebuilt, cache, saved, frame>>
      /\ vectors \in [File -> Content \cup {Absent}] /\ heap \in [Op -> Index]
  BY DEF Remove, Inv, TypeInv, TypeOK, Locals, Live, Goes, Holds, Looks
<1>2. CASE frame[o].kind = "index"
  <2>1. Scratch(o)' /\ Changing(o)'
    BY <1>1, <1>2 DEF Scratch, Changing
  <2>2. FollowInv'
    BY <1>1, <2>1, CurrentAfter DEF FollowInv
  <2>3. Ready(o)'
    BY <1>1, <1>2 DEF Ready
  <2> QED
    BY <2>2, <2>3
<1>3. CASE frame[o].kind # "index"
  <2> DEFINE k == frame[o].index
             i == heap[k]
             j == [f \in File |-> IF f \in Replaced(o) THEN NoRecord ELSE i[f]]
  <2>1. frame[o].kind = "sync" /\ k \in Op /\ i \in Index /\ i = Mine(o)
    BY <1>1, <1>3 DEF Fits, Mine
  <2>2. saved = i
    BY <1>1, <2>1 DEF Ready
  <2>3. heap' = [heap EXCEPT ![k] = j]
    BY <1>3, <2>1 DEF Remove, Inv, TypeInv, TypeOK
  <2>4. \A f \in File : vectors'[f] = IF f \in Replaced(o) THEN Absent ELSE vectors[f]
    BY <1>3 DEF Remove
  <2>5. j \in Index
    BY <2>1, Kinds DEF Index
  <2>6. \A f \in File : j[f] = IF f \in Replaced(o) THEN NoRecord ELSE i[f]
    OBVIOUS
  <2> HIDE DEF j
  <2>7. Mine(o)' = j
    BY <1>1, <2>1, <2>3 DEF Mine
  <2>8. Changing(o)' /\ ~Changing(o)
    BY <1>1 DEF Changing
  <2>9. Current(i)
    BY <1>1, <2>2, <2>8, CurrentNow
  <2>10. \A x \in Index : Current(x)' => x = j
    BY <1>1, <2>7, <2>8, CurrentAfter
  <2>11. \A q \in Shared : heap'[q] = heap[q] \/ heap'[q] = j
    BY <1>1, <2>1, <2>3 DEF Shared
  <2>12. ASSUME NEW f \in File
         PROVE  \/ j[f].content = i[f].content /\ vectors'[f] = vectors[f]
                \/ vectors'[f] = j[f].content
    BY <2>4, <2>6 DEF NoRecord
  <2> HIDE DEF i
  <2>13. FollowInv'
    BY <1>1, <2>1, <2>5, <2>9, <2>10, <2>11, <2>12, WriteFollows
  <2>14. ASSUME NEW f \in File, Has(j, f) PROVE j[f].content = frame[o].seen[f].content
    <3>1. f \notin Replaced(o) /\ j[f] = i[f]
      BY <2>6, <2>14 DEF Has, NoRecord
    <3>2. Has(i, f)
      BY <2>14, <3>1 DEF Has
    <3> QED
      BY <2>1, <3>1, <3>2 DEF Replaced
  <2>15. Ready(o)'
    <3>1. Ready(o)' <=> \A f \in File : Has(Mine(o)', f) =>
                          Mine(o)'[f].content = frame[o].seen[f].content
      BY <1>1, <2>1 DEF Ready, Has
    <3> QED
      BY <2>7, <2>14, <3>1
  <2> QED
    BY <2>13, <2>15
<1> QED
  BY <1>2, <1>3

LEMMA PushFollows ==
    ASSUME Inv, FollowInv, NEW o \in Op, Acts(o), Push(o), Ready(o)
    PROVE  FollowInv'
<1> DEFINE j == frame[o].seen
<1>1. /\ frame[o] \in Frame /\ Fits(o) /\ Holds(o) /\ pc[o] = "push" /\ pc'[o] = "save"
      /\ UNCHANGED <<backend, rebuilt, cache, saved>>
      /\ vectors \in [File -> Content \cup {Absent}] /\ heap \in [Op -> Index]
      /\ frame \in [Op -> Frame \cup {NoFrame}]
      /\ j \in Index
  BY DEF Push, Inv, TypeInv, TypeOK, Locals, Live, Goes, Holds, Looks, Frame
<1>2. Changing(o) /\ Changing(o)' /\ ~Scratch(o)'
  BY <1>1 DEF Changing, Scratch
<1>3. CASE frame[o].kind = "index"
  <2>1. heap' = [heap EXCEPT ![o] = j] /\ frame'[o].index = o
    BY <1>1, <1>3 DEF Push, Frame
  <2>2. Mine(o)' = j
    BY <1>1, <2>1 DEF Mine
  <2>3. ASSUME NEW x \in Index, Current(x)' PROVE Follows(x)'
    <3>1. x = j
      BY <1>1, <1>2, <2>2, <2>3, CurrentAfter
    <3>2. ASSUME NEW f \in File, Has(x, f) PROVE vectors'[f] = x[f].content
      <4>1. ~Has(Empty, f)
        BY DEF Has, Empty, NoRecord
      <4> QED
        BY <1>3, <3>1, <3>2, <4>1 DEF Push
    <3> QED
      BY <3>2 DEF Follows, Complete, Has
  <2> QED
    BY <2>3 DEF FollowInv
<1>4. CASE frame[o].kind # "index"
  <2> DEFINE k == frame[o].index
             i == heap[k]
  <2>1. frame[o].kind = "sync" /\ k \in Op /\ i \in Index /\ i = Mine(o)
    BY <1>1, <1>4 DEF Fits, Mine
  <2>2. heap' = [heap EXCEPT ![k] = j] /\ frame'[o].index = k
    BY <1>1, <1>4 DEF Push, Frame
  <2>3. Mine(o)' = j
    BY <1>1, <2>1, <2>2 DEF Mine
  <2>4. Current(i)
    BY <1>1, <1>2, <2>1, CurrentNow DEF Scratch
  <2>5. \A x \in Index : Current(x)' => x = j
    BY <1>1, <1>2, <2>3, CurrentAfter
  <2>6. \A q \in Shared : heap'[q] = heap[q] \/ heap'[q] = j
    BY <1>1, <2>1, <2>2 DEF Shared
  <2>7. ASSUME NEW f \in File
        PROVE  \/ j[f].content = i[f].content /\ vectors'[f] = vectors[f]
               \/ vectors'[f] = j[f].content
    <3>1. vectors'[f] = IF Has(j, f) /\ ~Has(i, f) THEN j[f].content ELSE vectors[f]
      BY <1>4, <2>1 DEF Push
    <3>2. Has(i, f) => i[f].content = j[f].content
      BY <1>1, <2>1 DEF Ready
    <3> QED
      BY <3>1, <3>2 DEF Has
  <2> HIDE DEF i, j
  <2> QED
    BY <1>1, <2>1, <2>4, <2>5, <2>6, <2>7, WriteFollows
<1> QED
  BY <1>3, <1>4

LEMMA SpliceFollows ==
    ASSUME Inv, FollowInv, NEW o \in Op, Acts(o), Splice(o), Ready(o)
    PROVE  FollowInv' /\ Ready(o)'
<1> DEFINE f == frame[o].file
           k == frame[o].index
           i == heap[k]
           j == [i EXCEPT ![f] = NoRecord]
<1>1. /\ frame[o] \in Frame /\ Fits(o) /\ Holds(o) /\ pc[o] = "splice" /\ pc'[o] = "fetch"
      /\ UNCHANGED <<backend, rebuilt, cache, saved>>
      /\ vectors \in [File -> Content \cup {Absent}] /\ heap \in [Op -> Index]
      /\ frame \in [Op -> Frame \cup {NoFrame}]
      /\ f \in File /\ k \in Op
  BY DEF Splice, Inv, TypeInv, TypeOK, Locals, Live, Goes, Holds, Fits
<1>2. i \in Index /\ i = Mine(o) /\ saved = i
  BY <1>1 DEF Mine, Ready
<1>3. heap' = [heap EXCEPT ![k] = j] /\ frame'[o].index = k /\ frame'[o].file = f
  BY <1>1 DEF Splice, Frame
<1>4. j \in Index /\ j[f] = NoRecord /\ \A g \in File : g # f => j[g] = i[g]
  BY <1>1, <1>2, Kinds DEF Index
<1>5. /\ \A g \in File : g # f => vectors'[g] = vectors[g]
      /\ vectors'[f] = IF Has(i, f) THEN Absent ELSE vectors[f]
  BY <1>1, <1>2 DEF Splice
<1> HIDE DEF j
<1>6. Mine(o)' = j
  BY <1>1, <1>3 DEF Mine
<1>7. Changing(o)' /\ ~Changing(o) /\ ~Scratch(o)'
  BY <1>1 DEF Changing, Scratch
<1>8. Current(i)
  BY <1>1, <1>2, <1>7, CurrentNow
<1>9. \A x \in Index : Current(x)' => x = j
  BY <1>1, <1>6, <1>7, CurrentAfter
<1>10. \A q \in Shared : heap'[q] = heap[q] \/ heap'[q] = j
  BY <1>1, <1>3 DEF Shared
<1>11. ASSUME NEW g \in File
       PROVE  \/ j[g].content = i[g].content /\ vectors'[g] = vectors[g]
              \/ vectors'[g] = j[g].content
  BY <1>4, <1>5 DEF NoRecord, Has
<1>12. Ready(o)'
  <2>1. Ready(o)' <=> ~Has(Mine(o)', f)
    BY <1>1, <1>3 DEF Ready, Has
  <2> QED
    BY <1>4, <1>6, <2>1 DEF Has, NoRecord
<1> HIDE DEF i
<1> QED
  BY <1>1, <1>2, <1>4, <1>8, <1>9, <1>10, <1>11, <1>12, WriteFollows

LEMMA UpdateFollows ==
    ASSUME Inv, FollowInv, NEW o \in Op, Acts(o), PushUpdate(o), Ready(o)
    PROVE  FollowInv'
<1> DEFINE f == frame[o].file
           k == frame[o].index
           i == heap[k]
           j == [i EXCEPT ![f] = Found(o)]
<1>1. /\ frame[o] \in Frame /\ Fits(o) /\ Holds(o) /\ pc[o] = "fetch" /\ pc'[o] = "save"
      /\ UNCHANGED <<backend, rebuilt, cache, saved, frame>>
      /\ vectors \in [File -> Content \cup {Absent}] /\ heap \in [Op -> Index]
      /\ f \in File /\ k \in Op
  BY DEF PushUpdate, Inv, TypeInv, TypeOK, Locals, Live, Goes, Holds, Fits
<1>2. i \in Index /\ i = Mine(o) /\ ~Has(i, f) /\ Found(o) \in Record
  BY <1>1, FoundTyped DEF Mine, Ready, Inv, TypeInv, Live
<1>3. heap' = [heap EXCEPT ![k] = j]
  BY <1>1 DEF PushUpdate
<1>4. j \in Index /\ j[f] = Found(o) /\ \A g \in File : g # f => j[g] = i[g]
  BY <1>1, <1>2 DEF Index
<1>5. /\ \A g \in File : g # f => vectors'[g] = vectors[g]
      /\ vectors'[f] = IF Given(o) = Absent THEN vectors[f] ELSE Given(o)
  BY <1>1 DEF PushUpdate
<1>6. Found(o).content = Given(o)
  BY DEF Found, NoRecord
<1> HIDE DEF j
<1>7. Mine(o)' = j
  BY <1>1, <1>3 DEF Mine
<1>8. Changing(o)' /\ Changing(o) /\ ~Scratch(o)' /\ ~Scratch(o)
  BY <1>1 DEF Changing, Scratch
<1>9. Current(i)
  BY <1>1, <1>2, <1>8, CurrentNow
<1>10. \A x \in Index : Current(x)' => x = j
  BY <1>1, <1>7, <1>8, CurrentAfter
<1>11. \A q \in Shared : heap'[q] = heap[q] \/ heap'[q] = j
  BY <1>1, <1>3 DEF Shared
<1>12. ASSUME NEW g \in File
       PROVE  \/ j[g].content = i[g].content /\ vectors'[g] = vectors[g]
              \/ vectors'[g] = j[g].content
  BY <1>2, <1>4, <1>5, <1>6 DEF Has
<1> HIDE DEF i
<1> QED
  BY <1>1, <1>2, <1>4, <1>9, <1>10, <1>11, <1>12, WriteFollows

LEMMA SaveFollows ==
    ASSUME Inv, FollowInv, NEW o \in Op, Acts(o), Save(o)
    PROVE  FollowInv'
<1> DEFINE j == Mine(o)
<1>1. /\ Fits(o) /\ Holds(o) /\ pc[o] = "save" /\ pc'[o] = "publish"
      /\ UNCHANGED <<backend, rebuilt, cache, vectors, heap>> /\ saved' = j
  BY DEF Save, Inv, TypeInv, TypeOK, Locals, Live, Goes, Holds
<1>2. j \in Index
  BY <1>1 DEF Fits, Mine, Inv, TypeInv, TypeOK
<1>3. Changing(o) /\ ~Scratch(o) /\ ~Changing(o)'
  BY <1>1 DEF Changing, Scratch
<1>4. Current(j)
  BY <1>1, <1>3, CurrentNow
<1>5. \A x \in Index : Current(x)' => x = j
  BY <1>1, <1>3, CurrentAfter
<1> HIDE DEF j
<1> QED
  BY <1>1, <1>2, <1>4, <1>5, WriteFollows

LEMMA DropFollows ==
    ASSUME Inv, NEW o \in Op, Acts(o), Drop(o)
    PROVE  FollowInv'
<1>1. Holds(o) /\ pc'[o] = "done" /\ saved' = NoIndex
  BY DEF Drop, Ends, Goes, Holds, Inv, TypeInv, TypeOK
<1>2. ~Changing(o)'
  BY <1>1 DEF Changing
<1> QED
  BY <1>1, <1>2, CurrentAfter, Kinds DEF FollowInv

(* A search that fills what was missing has the content of the current      *)
(* index, or it overwrites a vector.                                        *)
LEMMA RebuildFollows ==
    ASSUME Inv, FollowInv, NEW o \in Op, Acts(o), Rebuild(o), "outdated" \notin lapses'
    PROVE  FollowInv'
<1> SUFFICES ASSUME NEW x \in Index, Current(x)' PROVE Follows(x)'
  BY DEF FollowInv
<1>1. /\ Fits(o) /\ pc[o] = "vectors" /\ pc'[o] = "done"
      /\ UNCHANGED <<backend, saved, heap, cache>>
      /\ vectors \in [File -> Content \cup {Absent}] /\ rebuilt \in BOOLEAN
      /\ \A f \in File : vectors'[f] = vectors[f] \/ vectors[f] = Absent
  BY DEF Rebuild, Lapses, Ends, Goes, Inv, TypeInv, TypeOK, Locals, Live
<1>2. ~Changing(o) /\ ~Changing(o)'
  BY <1>1 DEF Changing
<1>3. Follows(x)
  <2>1. Current(x)
    BY <1>1, <1>2, CurrentKept
  <2> QED
    BY <2>1 DEF FollowInv
<1>4. CASE Complete(x)
  BY <1>1, <1>4 DEF Follows, Complete, Has
<1>5. CASE Partial(x) /\ Missing(o)
  <2>1. Source(Mine(o)) /\ Mine(o) \in Index
    BY <1>1 DEF Source, Mine, Fits, Inv, TypeInv, TypeOK
  <2>2. \A f \in File : vectors'[f] = IF Has(Mine(o), f) THEN Mine(o)[f].content ELSE vectors[f]
    BY <1>5 DEF Rebuild, Partial
  <2>3. ASSUME NEW f \in File, Has(x, f) PROVE vectors'[f] = x[f].content
    <3>1. CASE vectors[f] = x[f].content
      BY <1>1, <2>3, <3>1 DEF Has
    <3>2. CASE ToFill(x, f)
      BY <2>1, <2>2, <2>3, <3>2 DEF ToFill, Has
    <3> QED
      BY <1>5, <3>1, <3>2 DEF Partial
  <2> QED
    BY <2>3 DEF Follows, Complete, Has
<1>6. CASE Partial(x) /\ ~Missing(o)
  <2>1. vectors' = vectors /\ (rebuilt' <=> rebuilt) /\ rebuilt' \in BOOLEAN
    BY <1>1, <1>6 DEF Rebuild, Missing
  <2>2. \A y \in Index : Source(y)' => Source(y) \/ y = saved
    BY <1>1, SourcesKept
  <2>3. \A y \in Index : Source(y)' => Source(y) \/ y = x
    BY <2>2 DEF Source
  <2> QED
    BY <1>1, <1>3, <2>1, <2>3, FollowsOn
<1> QED
  BY <1>3, <1>4, <1>5, <1>6 DEF Follows

-----------------------------------------------------------------------------
(* A writer works on what is saved.                                         *)
LEMMA LoadsReady ==
    ASSUME Inv, CacheInv, NEW o \in Op, LoadCached(o) \/ Parse(o), "overtaken" \notin lapses'
    PROVE  Ready(o)'
<1>1. /\ TypeInv /\ frame[o] \in Frame /\ Fits(o) /\ Live(o)
      /\ pc[o] \in {"load", "parse"} /\ pc'[o] = Loaded(o) /\ saved' = saved
      /\ Loaded(o) \in {"discover", "splice", "vectors", "done"}
      /\ Loaded(o) \in {"discover", "splice"} => frame[o].kind \in {"sync", "update"}
  BY DEF LoadCached, Parse, Goes, Inv, TypeInv, TypeOK, Locals, Live, store, Loaded
<1>2. CASE Loaded(o) \in {"vectors", "done"}
  BY <1>1, <1>2 DEF Ready
<1>3. CASE Loaded(o) \in {"discover", "splice"}
  <2>1. CASE LoadCached(o)
    <3>1. frame'[o].index = cache /\ heap' = heap /\ cache \in Op /\ "overtaken" \notin lapses
      BY <1>1, <1>3, <2>1 DEF LoadCached, TypeInv, TypeOK, Frame
    <3>2. Holds(o) /\ ~Dirty(o)
      BY <1>1, <1>3, <2>1, Kinds DEF LoadCached, Holds, Dirty, Looks
    <3>3. \A p \in Op : ~Dirty(p)
      <4>1. \A p \in Op : Dirty(p) => Holds(p)
        BY DEF Dirty, Holds
      <4> QED
        BY <3>2, <4>1 DEF Inv, LockInv
    <3>4. heap[cache] = saved
      BY <3>1, <3>3, ConstantsAssumption DEF CacheInv, ConstantsAssumption
    <3>5. Mine(o)' = saved'
      BY <1>1, <3>1, <3>4 DEF Mine
    <3> QED
      BY <1>1, <1>3, <3>5 DEF Ready
  <2>2. CASE Parse(o)
    <3>1. frame'[o].index = o /\ heap'[o] = saved
      BY <1>1, <1>3, <2>2 DEF Parse, Lapses, TypeInv, TypeOK, Frame
    <3>2. Mine(o)' = saved'
      BY <1>1, <3>1 DEF Mine
    <3> QED
      BY <1>1, <1>3, <3>2 DEF Ready
  <2> QED
    BY <2>1, <2>2
<1> QED
  BY <1>1, <1>2, <1>3

LEMMA LooksReady ==
    ASSUME Inv, NEW o \in Op, Ready(o),
           Discover(o) \/ ReadFiles(o) \/ FetchContent(o) \/ FetchStat(o)
    PROVE  Ready(o)'
<1>1. frame[o] \in Frame /\ UNCHANGED <<saved, heap>>
  BY DEF Discover, ReadFiles, FetchContent, FetchStat, Inv, TypeInv, TypeOK, Live, store
<1>2. /\ frame'[o].index = frame[o].index /\ frame'[o].kind = frame[o].kind
      /\ frame'[o].file = frame[o].file
  <2>1. CASE Discover(o)
    BY <1>1, <2>1 DEF Discover, Inv, TypeInv, TypeOK, Frame
  <2>2. CASE ReadFiles(o)
    BY <1>1, <2>2 DEF ReadFiles, Inv, TypeInv, TypeOK, Frame
  <2>3. CASE FetchContent(o)
    BY <1>1, <2>3 DEF FetchContent, Inv, TypeInv, TypeOK, Frame
  <2>4. CASE FetchStat(o)
    BY <1>1, <2>4 DEF FetchStat, Inv, TypeInv, TypeOK, Frame
  <2> QED
    BY <2>1, <2>2, <2>3, <2>4
<1>3. Mine(o)' = Mine(o)
  BY <1>1, <1>2 DEF Mine
<1>4. \/ pc[o] \in {"discover", "read"} /\ pc'[o] \in {"read", "remove"}
      \/ pc[o] = "fetch" /\ pc'[o] = "fetch"
  BY DEF Discover, ReadFiles, FetchContent, FetchStat, Goes, Inv, TypeInv, TypeOK
<1> QED
  BY <1>1, <1>2, <1>3, <1>4 DEF Ready, Has

LEMMA OthersReady ==
    ASSUME Inv, NEW o \in Op, Acts(o), NEW p \in Op, p # o, Ready(p)
    PROVE  Ready(p)'
<1>1. pc'[p] = pc[p] /\ frame'[p] = frame[p]
  BY OthersStay DEF Inv, TypeInv
<1> DEFINE Works == \/ pc[p] \in {"splice", "fetch"}
                    \/ pc[p] \in Looks /\ frame[p].kind = "sync"
<1>2. CASE ~Works
  BY <1>1, <1>2 DEF Ready, Looks
<1>3. CASE Works
  <2>1. Holds(p) /\ Live(p)
    BY <1>3 DEF Holds, Live, Looks
  <2>2. frame[p].index \in Op /\ frame[p].index # NoOp
    BY <1>3, <2>1, ConstantsAssumption DEF Inv, TypeInv, Locals, Fits, Looks, ConstantsAssumption
  <2>3. heap'[frame[p].index] = heap[frame[p].index] /\ saved' = saved
    BY <2>1, <2>2, Bystander DEF Inv, MadeInv
  <2>4. Mine(p)' = Mine(p)
    BY <1>1, <2>3 DEF Mine
  <2> QED
    BY <1>1, <2>3, <2>4 DEF Ready, Has
<1> QED
  BY <1>2, <1>3

(* The step of an operation itself. *)
LEMMA OwnFollows ==
    ASSUME Inv, CacheInv, FollowInv, NEW o \in Op, Ready(o), Acts(o), lapses' \subseteq {"skewed"}
    PROVE  FollowInv' /\ Ready(o)'
<1>1. CASE LoadCached(o) \/ Parse(o)
  BY <1>1, LoadsFollow, LoadsReady
<1>2. CASE Discover(o) \/ ReadFiles(o) \/ FetchContent(o) \/ FetchStat(o)
  BY <1>2, LooksFollow, LooksReady
<1>3. CASE Remove(o)
  BY <1>3, RemoveFollows
<1>4. CASE Splice(o)
  BY <1>4, SpliceFollows
<1>5. CASE \/ \E kind \in Writer \cup Reader, f \in File \cup {NoOp},
                c \in Content \cup {Absent} : Request(o, kind, f, c)
           \/ Lock(o) \/ LoadFile(o) \/ LoadFails(o) \/ Forget(o)
  <2>1. FollowInv'
    BY <1>5, RequestsFollow
  <2>2. /\ pc'[o] \in {"lock", "load", "parse", "done", "drop"} \/ Lock(o)
        /\ Lock(o) => UNCHANGED frame /\ pc'[o] \in {"discover", "load"}
                      /\ (pc'[o] = "discover" => frame[o].kind = "index")
    BY <1>5 DEF Request, Lock, LoadFile, LoadFails, Forget, Ends, Goes, Inv, TypeInv, TypeOK
  <2>3. Ready(o)'
    BY <2>2 DEF Ready
  <2> QED
    BY <2>1, <2>3
<1>6. CASE Push(o) \/ PushUpdate(o) \/ Save(o) \/ Publish(o) \/ Drop(o) \/ Rebuild(o) \/ Fails(o)
  <2>1. pc'[o] \in {"save", "publish", "done"}
    BY <1>6 DEF Push, PushUpdate, Save, Publish, Drop, Rebuild, Fails, Ends, Goes, Inv, TypeInv, TypeOK
  <2>2. Ready(o)'
    BY <2>1 DEF Ready
  <2>3. FollowInv'
    BY <1>6, PushFollows, UpdateFollows, SaveFollows, PublishFollows, DropFollows, RebuildFollows,
       FailsFollow
  <2> QED
    BY <2>2, <2>3
<1> QED
  BY <1>1, <1>2, <1>3, <1>4, <1>5, <1>6 DEF Acts, Step

(* An edit of a file changes neither the index nor the vectors. *)
LEMMA EditFollows ==
    ASSUME Inv, FollowInv, \A o \in Op : Ready(o), NEW g \in File, NEW c \in Content \cup {Absent},
           Edit(g, c)
    PROVE  FollowInv' /\ \A o \in Op : Ready(o)'
<1>1. UNCHANGED <<backend, saved, vectors, rebuilt, heap, cache, pc>>
  BY DEF Edit, store
<1>2. ASSUME NEW o \in Op, Live(o)
      PROVE  /\ frame'[o].kind = frame[o].kind /\ frame'[o].index = frame[o].index
             /\ frame'[o].seen = frame[o].seen /\ frame'[o].file = frame[o].file
             /\ Mine(o)' = Mine(o)
  <2>1. /\ frame'[o].kind = frame[o].kind /\ frame'[o].index = frame[o].index
        /\ frame'[o].seen = frame[o].seen /\ frame'[o].file = frame[o].file
    BY <1>2, EditFrames DEF Inv, TypeInv
  <2> QED
    BY <1>1, <2>1 DEF Mine
<1>3. ASSUME NEW o \in Op PROVE Ready(o)'
  <2>1. CASE Live(o)
    BY <1>1, <1>2, <2>1 DEF Ready, Has
  <2>2. CASE ~Live(o)
    BY <1>1, <2>2 DEF Ready, Live
  <2> QED
    BY <2>1, <2>2
<1>4. ASSUME NEW x \in Index PROVE /\ Current(x)' => Current(x)
                                   /\ Source(x)' => Source(x)
  <2>1. \A o \in Op : /\ Changing(o)' <=> Changing(o)
                      /\ Changing(o) => (Scratch(o)' <=> Scratch(o)) /\ Mine(o)' = Mine(o)
    BY <1>1, <1>2 DEF Changing, Scratch, Live
  <2>2. \A o \in Op : pc[o] = "vectors" => Mine(o)' = Mine(o)
    BY <1>2 DEF Live
  <2>3. Current(x)' => Current(x)
    BY <1>1, <2>1 DEF Current
  <2>4. Source(x)' => Source(x)
    BY <1>1, <2>2 DEF Source
  <2> QED
    BY <2>3, <2>4
<1>5. ASSUME NEW x \in Index, Current(x)' PROVE Follows(x)'
  <2>1. Follows(x)
    BY <1>4, <1>5 DEF FollowInv
  <2>2. rebuilt' \in BOOLEAN /\ (rebuilt' => rebuilt)
    BY <1>1 DEF Inv, TypeInv, TypeOK
  <2> QED
    BY <1>1, <1>4, <2>1, <2>2, FollowsOn
<1> QED
  BY <1>3, <1>5 DEF FollowInv

LEMMA ExpireFollows ==
    ASSUME Inv, FollowInv, \A o \in Op : Ready(o), Expire
    PROVE  FollowInv' /\ \A o \in Op : Ready(o)'
<1>1. UNCHANGED <<backend, saved, vectors, rebuilt, heap, pc, frame>> /\ cache' = NoOp
  BY DEF Expire, store
<1>2. \A o \in Op : Ready(o)'
  BY <1>1 DEF Ready, Mine, Has
<1>3. ASSUME NEW x \in Index PROVE /\ Current(x)' => Current(x)
                                   /\ Source(x)' => Source(x)
  BY <1>1 DEF Current, Changing, Scratch, Source, Mine
<1>4. ASSUME NEW x \in Index, Current(x)' PROVE Follows(x)'
  <2>1. Follows(x)
    BY <1>3, <1>4 DEF FollowInv
  <2>2. rebuilt' \in BOOLEAN /\ (rebuilt' => rebuilt)
    BY <1>1 DEF Inv, TypeInv, TypeOK
  <2> QED
    BY <1>1, <1>3, <2>1, <2>2, FollowsOn
<1> QED
  BY <1>2, <1>4 DEF FollowInv

(* A restart forgets the vectors in memory, or it keeps those on disk.      *)
LEMMA RestartFollows ==
    ASSUME Inv, FollowInv, Restart, "failed" \notin lapses'
    PROVE  FollowInv' /\ \A o \in Op : Ready(o)'
<1>1. /\ \A o \in Op : pc'[o] \in {"new", "done"}
      /\ backend' = backend /\ saved' = saved /\ rebuilt' = FALSE /\ cache' = NoOp
  BY DEF Restart
<1>2. \A o \in Op : Ready(o)'
  BY <1>1 DEF Ready
<1>3. ASSUME NEW x \in Index, Current(x)' PROVE Follows(x)'
  <2>1. x = saved
    BY <1>1, <1>3 DEF Current, Changing
  <2>2. CASE backend = "memory"
    <3>1. \A f \in File : vectors'[f] = Absent
      BY <2>2 DEF Restart
    <3>2. \A y \in Index : Source(y)' => y = x
      BY <1>1, <2>1 DEF Source
    <3>3. \A f \in File : ToFill(x, f)'
      BY <3>1, <3>2 DEF ToFill
    <3> QED
      BY <1>1, <2>2, <3>3 DEF Follows, Partial
  <2>3. CASE backend # "memory"
    <3>1. backend = "zvec" /\ vectors' = vectors
      BY <2>3 DEF Restart, Inv, TypeInv, TypeOK
    <3>2. \A o \in Op : ~Changing(o)
      BY <3>1 DEF Restart, Lapses, Changing
    <3>3. Follows(x) /\ ~Partial(x)
      BY <2>1, <3>1, <3>2 DEF FollowInv, Current, Partial
    <3> QED
      BY <3>1, <3>3 DEF Follows, Complete, Has
  <2> QED
    BY <2>2, <2>3
<1> QED
  BY <1>2, <1>3 DEF FollowInv

LEMMA VectorStep == Inv /\ CacheInv /\ VectorInv /\ [Next]_vars => VectorInv'
<1> SUFFICES ASSUME Inv, CacheInv, VectorInv, [Next]_vars, lapses' \subseteq {"skewed"}
             PROVE  FollowInv' /\ \A o \in Op : Ready(o)'
  BY DEF VectorInv
<1>0. FollowInv /\ \A o \in Op : Ready(o)
  BY LapsesStay DEF VectorInv, Inv, TypeInv
<1>1. ASSUME NEW o \in Op, Acts(o) PROVE FollowInv' /\ \A p \in Op : Ready(p)'
  <2>1. FollowInv' /\ Ready(o)'
    BY <1>0, <1>1, OwnFollows
  <2>2. \A p \in Op : p # o => Ready(p)'
    BY <1>0, <1>1, OthersReady
  <2> QED
    BY <2>1, <2>2
<1>2. ASSUME NEW f \in File, NEW c \in Content \cup {Absent}, Edit(f, c)
      PROVE  FollowInv' /\ \A o \in Op : Ready(o)'
  BY <1>0, <1>2, EditFollows
<1>3. CASE Expire
  BY <1>0, <1>3, ExpireFollows
<1>4. CASE Restart
  BY <1>0, <1>4, RestartFollows
<1>5. CASE UNCHANGED vars
  BY <1>0, <1>5 DEF vars, store, FollowInv, Current, Changing, Scratch, Follows, Complete, Partial,
     ToFill, Source, Ready, Mine, Has
<1> QED
  BY <1>1, <1>2, <1>3, <1>4, <1>5, NextActs DEF Edits

LEMMA VectorInit == Init => VectorInv
<1> SUFFICES ASSUME Init PROVE VectorInv
  OBVIOUS
<1>1. \A o \in Op : pc[o] = "new"
  BY DEF Init
<1>2. \A o \in Op : Ready(o)
  BY <1>1 DEF Ready
<1>3. ASSUME NEW x \in Index, Current(x) PROVE Follows(x)
  <2>1. x = saved
    BY <1>1, <1>3 DEF Current, Changing
  <2>2. saved # NoIndex /\ x = disk
    BY <2>1, Kinds DEF Init
  <2>3. CASE backend = "memory"
    <3>1. \A f \in File : vectors[f] = Absent
      BY <2>3 DEF Init
    <3>2. \A y \in Index : Source(y) => y = x
      BY <1>1, <2>1 DEF Source, Init
    <3>3. \A f \in File : ToFill(x, f)
      BY <3>1, <3>2 DEF ToFill
    <3> QED
      BY <2>3, <3>3 DEF Follows, Partial, Init
  <2>4. CASE backend # "memory"
    <3>1. \A f \in File : vectors[f] = disk[f].content
      BY <2>2, <2>4 DEF Init
    <3> QED
      BY <2>2, <3>1 DEF Follows, Complete
  <2> QED
    BY <2>3, <2>4
<1> QED
  BY <1>2, <1>3 DEF VectorInv, FollowInv

(* "Rebuild the collection when it falls out of sync": when nobody is       *)
(* writing, every symbol of the index has the vector of its content, or the *)
(* next search finds fewer vectors than symbols and gives it one, whatever  *)
(* updates, searches and restarts came in between.                          *)
THEOREM VectorsKeepUp == Spec => []VectorsFollow
<1>1. Init => Inv /\ CacheInv /\ VectorInv
  <2>1. Init => CacheInv
    BY DEF Init, CacheInv
  <2> QED
    BY <2>1, InvInit, VectorInit
<1>2. Inv /\ CacheInv /\ VectorInv /\ [Next]_vars => (Inv /\ CacheInv /\ VectorInv)'
  BY InvStep, CacheStep, VectorStep
<1>3. Inv /\ CacheInv /\ VectorInv => VectorsFollow
  <2> SUFFICES ASSUME Inv, VectorInv, lapses \subseteq {"skewed"}, lock = NoOp, saved # NoIndex,
                      NEW f \in File, Has(saved, f), vectors[f] # saved[f].content
               PROVE  vectors[f] = Absent /\ ToBeRebuilt
    BY DEF VectorsFollow
  <2> DEFINE V == {g \in File : vectors[g] # Absent}
             S == {g \in File : Has(saved, g)}
  <2>1. \A o \in Op : ~Changing(o)
    BY ConstantsAssumption DEF Inv, LockInv, Changing, Holds, Looks, ConstantsAssumption
  <2>2. Partial(saved) /\ saved \in Index
    <3>1. saved \in Index /\ Current(saved)
      BY <2>1 DEF Current, Inv, TypeInv, TypeOK
    <3> QED
      BY <3>1 DEF VectorInv, FollowInv, Follows, Complete
  <2>3. ToFill(saved, f)
    BY <2>2 DEF Partial
  <2>4. V \subseteq S /\ f \in S /\ f \notin V
    BY <2>2, <2>3 DEF Partial, ToFill, Has
  <2>5. IsFiniteSet(S)
    BY FS_Subset, ConstantsAssumption DEF ConstantsAssumption
  <2>6. Cardinality(V) < Cardinality(S)
    <3> HIDE DEF V, S
    <3>1. Cardinality(V) <= Cardinality(S) /\ (Cardinality(V) = Cardinality(S) => V = S)
          /\ Cardinality(V) \in Nat /\ Cardinality(S) \in Nat
      BY <2>4, <2>5, FS_Subset, FS_CardinalityType
    <3> QED
      BY <2>4, <3>1
  <2> QED
    BY <2>2, <2>3, <2>6 DEF ToBeRebuilt, Partial, ToFill
<1> QED
  BY <1>1, <1>2, <1>3, PTL DEF Spec
===============================================================================
