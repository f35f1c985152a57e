-------------------------- MODULE DistributedProofs --------------------------
(***************************************************************************)
(* What holds of Distributed for every set of instances, clients, paths    *)
(* and contents, and every number of calls and mishaps.                    *)
(***************************************************************************)
EXTENDS Distributed, SequenceTheorems, TLAPS

-----------------------------------------------------------------------------
(* Types.  A job that is under way has an instance, and a path at every    *)
(* step that looks at one; a request for a path names it.                  *)

Asks(r) == (r.op # "flush" => r.p \in Path) /\ (r.op = "rename" => r.to \in Path)
Wanted == {r \in Request : Asks(r)}

Pathless == {"idle", "dead", "scan", "next", "publish", "reply"}
Sound(j) ==
    /\ j.at \notin {"idle", "dead"} => j.i \in Instance
    /\ j.at \notin Pathless => j.p \in Path
    /\ j.at = "publish" => j.req.op \in Mutation
    /\ Asks(j.req)
GoodJob == {j \in Job : Sound(j)}

TypeInv ==
    /\ TypeOK
    /\ inbox \in [Instance -> Seq(Wanted)]
    /\ job \in [Process -> GoodJob]

Caller == [at : {"idle", "reading", "waiting"}, via : Instance \cup {None}, calls : 0..Calls]

LEMMA MapInSeq == ASSUME NEW S, NEW T, NEW s \in Seq(S), NEW t \in [DOMAIN s -> T]
                  PROVE  t \in Seq(T)
<1>1. DOMAIN s = 1..Len(s) /\ Len(s) \in Nat
  BY LenProperties
<1>2. t \in [1..Len(s) -> T]
  BY <1>1
<1>. QED  BY <1>1, <1>2, SeqDef

LEMMA ForsakenWanted ==
    ASSUME NEW r \in Wanted, NEW cs
    PROVE  Forsaken(r, cs) \in Wanted /\ Forsaken(r, cs).op = r.op
BY DEF Forsaken, Wanted, Asks, Request

LEMMA StartGood ==
    ASSUME NEW at \in Label \ {"publish"}, NEW i \in Instance \cup {None}, NEW req \in Wanted,
           at \notin Pathless => req.p \in Path, at \notin {"idle", "dead"} => i \in Instance
    PROVE  Start(at, i, req) \in GoodJob
BY DEF Start, Wanted, GoodJob, Sound, Asks, Job, Request, Tag

LEMMA NoRequestWanted == NoRequest \in Wanted
BY DEF NoRequest, Wanted, Asks, Request, OpName, Tag

LEMMA IdleGood == Idle \in GoodJob
BY StartGood, NoRequestWanted DEF Idle, Label, Pathless

LEMMA EndedGood == ASSUME NEW q, NEW j \in GoodJob, j.i \in Instance
                   PROVE  Ended(q, j) \in GoodJob
<1>1. CASE q[2] = "worker"
  BY <1>1 DEF Ended, Announces, GoodJob, Sound, Job, Label, Pathless
<1>2. CASE q[2] = "sync"
  <2>1. [Idle EXCEPT !.at = "dead"] \in GoodJob
    BY IdleGood DEF GoodJob, Sound, Job, Label, Pathless
  <2>2. [Idle EXCEPT !.at = "idle"] \in GoodJob
    BY IdleGood DEF GoodJob, Sound, Job, Label, Pathless
  <2>. QED  BY <1>2, <2>1, <2>2 DEF Ended
<1>3. CASE q[2] \notin {"worker", "sync"}
  BY <1>3, IdleGood DEF Ended
<1>. QED  BY <1>1, <1>2, <1>3

LEMMA SettledType == ASSUME client \in [Client -> Caller], NEW cs
                     PROVE  Settled(cs) \in [Client -> Caller]
BY DEF Settled, Caller

LEMMA EndsType == ASSUME TypeInv, NEW q \in Process, NEW j \in GoodJob, j.i \in Instance, Ends(q, j)
                  PROVE  job' \in [Process -> GoodJob] /\ client' \in [Client -> Caller]
<1>1. Ended(q, j) \in GoodJob
  BY EndedGood
<1>2. Settled({q[1]}) \in [Client -> Caller]
  BY SettledType DEF TypeInv, TypeOK, Caller
<1>3. client \in [Client -> Caller]
  BY DEF TypeInv, TypeOK, Caller
<1>. QED  BY <1>1, <1>2, <1>3 DEF Ends, Answers, Goto, TypeInv

LEMMA GotoType == ASSUME TypeInv, NEW q \in Process, NEW j \in GoodJob, Goto(q, j)
                  PROVE  job' \in [Process -> GoodJob]
BY DEF Goto, TypeInv

(* What the invariant says of one job.                                     *)
LEMMA JobFacts ==
    ASSUME TypeInv, NEW q \in Process
    PROVE  /\ job[q] \in GoodJob /\ job[q] \in Job
           /\ job[q].at \notin {"idle", "dead"} => job[q].i \in Instance
           /\ job[q].at \notin Pathless =>
                 /\ job[q].p \in Path
                 /\ Mine(q) \in Entry \cup {None}
                 /\ data[job[q].i][job[q].p] \in Tag
                 /\ store[job[q].p] \in Tag
<1>1. job[q] \in GoodJob /\ job[q] \in Job
  BY DEF TypeInv, GoodJob
<1>. QED  BY <1>1 DEF TypeInv, TypeOK, GoodJob, Sound, Mine, Pathless

(* What a step of a job can disturb.                                       *)
LEMMA StepType ==
    ASSUME TypeInv,
           store' \in [Path -> Tag], entries' \in [Instance -> [Path -> Entry \cup {None}]],
           data' \in [Instance -> [Path -> Tag]], lost' \in [Instance -> SUBSET (Path \X Data)],
           client' \in [Client -> Caller], job' \in [Process -> GoodJob],
           pending' \in [Instance -> [Path -> Tag \cup {Gone}]],
           UNCHANGED <<natsVars, listener, mishaps>>
    PROVE  TypeInv'
<1>1. job' \in [Process -> Job]
  BY DEF GoodJob
<1>. QED  BY <1>1 DEF TypeInv, TypeOK, natsVars, Caller

(* What anything else can disturb.                                         *)
LEMMA OtherType ==
    ASSUME TypeInv,
           client' \in [Client -> Caller], inbox' \in [Instance -> Seq(Wanted)],
           job' \in [Process -> GoodJob], events' \in [Instance -> Seq(Event)],
           listener' \in [Instance -> Seq(Task)], mishaps' \in 0..Mishaps,
           entries' \in [Instance -> [Path -> Entry \cup {None}]],
           data' \in [Instance -> [Path -> Tag]], UNCHANGED <<store, lost, pending>>
    PROVE  TypeInv'
<1>1. job' \in [Process -> Job]
  BY DEF GoodJob
<1>2. Seq(Wanted) \subseteq Seq(Request)
  BY DEF Wanted
<1>3. inbox' \in [Instance -> Seq(Request)]
  BY <1>2
<1>. QED  BY <1>1, <1>3 DEF TypeInv, TypeOK, Caller

LEMMA Typed ==
    ASSUME TypeInv
    PROVE  /\ store \in [Path -> Tag] /\ entries \in [Instance -> [Path -> Entry \cup {None}]]
           /\ data \in [Instance -> [Path -> Tag]] /\ lost \in [Instance -> SUBSET (Path \X Data)]
           /\ client \in [Client -> Caller] /\ pending \in [Instance -> [Path -> Tag \cup {Gone}]]
BY DEF TypeInv, TypeOK, Caller

LEMMA Tails ==
    ASSUME TypeInv
    PROVE  /\ inbox \in [Instance -> Seq(Wanted)] /\ job \in [Process -> GoodJob]
           /\ events \in [Instance -> Seq(Event)] /\ listener \in [Instance -> Seq(Task)]
           /\ mishaps \in 0..Mishaps
BY DEF TypeInv, TypeOK

(* The changes that steps make to a job, to an entry, a file, a ghost.      *)

Located(j) == j \in GoodJob /\ j.i \in Instance /\ j.p \in Path

LEMMA Moves ==
    ASSUME NEW j, Located(j), NEW at \in Label \ {"publish"}
    PROVE  /\ [j EXCEPT !.at = at] \in GoodJob
           /\ \A c \in Tag :
                 /\ [j EXCEPT !.at = at, !.c = c] \in GoodJob
                 /\ [j EXCEPT !.at = at, !.d = c] \in GoodJob
                 /\ [j EXCEPT !.at = at, !.e = None, !.c = c] \in GoodJob
           /\ [j EXCEPT !.at = at, !.e = None] \in GoodJob
BY DEF Located, GoodJob, Sound, Job, Tag

LEMMA AtPath ==
    ASSUME TypeInv, NEW q \in Process, job[q].at \notin Pathless
    PROVE  /\ Located(job[q])
           /\ Mine(q) \in Entry \cup {None}
           /\ data[job[q].i][job[q].p] \in Tag /\ store[job[q].p] \in Tag
           /\ job[q].c \in Tag /\ job[q].d \in Tag
           /\ pending[job[q].i][job[q].p] \in Tag \cup {Gone}
<1>1. job[q] \in GoodJob /\ job[q] \in Job /\ job[q].i \in Instance /\ job[q].p \in Path
  BY JobFacts DEF Pathless
<1>2. job[q].c \in Tag /\ job[q].d \in Tag
  BY <1>1 DEF Job
<1>. QED  BY <1>1, <1>2, JobFacts, Typed DEF Located

LEMMA EndsFlush ==
    ASSUME TypeInv, NEW q \in Process, job[q].at \notin Pathless
    PROVE  /\ Through(q) \in GoodJob
           /\ \A why \in {"notfound", "conflict"} : Missed(q, why) \in GoodJob
<1>1. Located(job[q])
  BY AtPath
<1>2. ASSUME NEW j, Located(j), NEW ok \in BOOLEAN, NEW why \in {"none", "notfound", "conflict"}
      PROVE  /\ [j EXCEPT !.at = "next", !.ok = ok, !.e = None, !.c = None] \in GoodJob
             /\ [j EXCEPT !.at = "next", !.err = why, !.e = None, !.c = None] \in GoodJob
  <2>1. j \in Job /\ j.i \in Instance /\ Asks(j.req)
    BY <1>2 DEF Located, GoodJob, Sound
  <2>2. /\ [j EXCEPT !.at = "next", !.ok = ok, !.e = None, !.c = None] \in Job
        /\ [j EXCEPT !.at = "next", !.err = why, !.e = None, !.c = None] \in Job
    BY <2>1 DEF Job, Label, Tag
  <2>3. /\ Sound([j EXCEPT !.at = "next", !.ok = ok, !.e = None, !.c = None])
        /\ Sound([j EXCEPT !.at = "next", !.err = why, !.e = None, !.c = None])
    BY <2>1 DEF Sound, Pathless, Job
  <2>. QED  BY <2>2, <2>3 DEF GoodJob
<1>. QED  BY <1>1, <1>2 DEF Through, Missed

LEMMA SetEntryType ==
    ASSUME TypeInv, NEW q \in Process, NEW e \in Entry \cup {None}, SetEntry(q, e)
    PROVE  entries' \in [Instance -> [Path -> Entry \cup {None}]]
BY Typed DEF SetEntry

LEMMA SetDataType ==
    ASSUME TypeInv, NEW q \in Process, NEW d \in Tag, SetData(q, d)
    PROVE  data' \in [Instance -> [Path -> Tag]]
BY Typed DEF SetData

LEMMA SetPendingType ==
    ASSUME TypeInv, NEW q \in Process, NEW d \in Tag \cup {Gone}, SetPending(q, d)
    PROVE  pending' \in [Instance -> [Path -> Tag \cup {Gone}]]
BY Typed DEF SetPending

LEMMA ExportedType ==
    ASSUME TypeInv, NEW q \in Process, NEW d, Exported(q, d)
    PROVE  pending' \in [Instance -> [Path -> Tag \cup {Gone}]]
BY Typed DEF Exported, Tag

LEMMA TombstoneType == ASSUME NEW e \in Entry \cup {None} PROVE Tombstone(e) \in Entry
<1>1. Import(None) \in Entry
  BY DEF Import, Entry, Tag
<1>2. \A f \in Entry : [f EXCEPT !.deleted = TRUE, !.dirty = TRUE] \in Entry
  BY DEF Entry
<1>. QED  BY <1>1, <1>2 DEF Tombstone

(* stat, read_range.                                                       *)

LEMMA AfterStatType ==
    ASSUME TypeInv, NEW q \in Process, job[q].at \in {"stat", "import"}, AfterStat(q)
    PROVE  job' \in [Process -> GoodJob] /\ client' \in [Client -> Caller]
<1>1. Located(job[q])
  BY AtPath DEF Pathless
<1>2. [job[q] EXCEPT !.at = "read"] \in GoodJob
  BY <1>1, Moves DEF Label
<1>. QED  BY <1>1, <1>2, EndsType, GotoType, Typed DEF AfterStat, Onward, Located

LEMMA FailsType ==
    ASSUME TypeInv, NEW q \in Process, job[q].at \notin Pathless, Fails(q)
    PROVE  job' \in [Process -> GoodJob] /\ client' \in [Client -> Caller]
<1>1. [job[q] EXCEPT !.err = "notfound"] \in GoodJob /\ [job[q] EXCEPT !.err = "notfound"].i \in Instance
  BY JobFacts DEF GoodJob, Sound, Job, Label, Pathless
<1>. QED  BY <1>1, EndsType DEF Fails

LEMMA AfterReadType ==
    ASSUME TypeInv, NEW q \in Process, job[q].at \in {"read", "fill"}, NEW d \in Tag, AfterRead(q, d)
    PROVE  job' \in [Process -> GoodJob] /\ client' \in [Client -> Caller]
<1>1. job[q] \in GoodJob /\ job[q].i \in Instance
  BY JobFacts
<1>2. CASE job[q].req.op = "rename"
  <2>1. [job[q] EXCEPT !.at = "head", !.d = d, !.p = job[q].req.to] \in GoodJob
    BY <1>1, <1>2 DEF GoodJob, Sound, Asks, Job, Label, Pathless
  <2>. QED  BY <1>2, <2>1, GotoType, Typed DEF AfterRead
<1>3. CASE job[q].req.op # "rename"
  BY <1>1, <1>3, EndsType DEF AfterRead
<1>. QED  BY <1>2, <1>3

LEMMA StatType == ASSUME TypeInv, NEW q \in Process, Stat(q) PROVE TypeInv'
<1>1. Located(job[q]) /\ store[job[q].p] \in Tag
  BY AtPath DEF Stat, At, Pathless
<1>2. [job[q] EXCEPT !.at = "import", !.c = store[job[q].p]] \in GoodJob
  BY <1>1, Moves DEF Label
<1>3. job' \in [Process -> GoodJob] /\ client' \in [Client -> Caller]
  BY <1>2, AfterStatType, FailsType, GotoType, Typed DEF Stat, At, Pathless
<1>. QED  BY <1>3, Typed, StepType DEF Stat, cacheVars

LEMMA ImportMetaType == ASSUME TypeInv, NEW q \in Process, ImportMeta(q) PROVE TypeInv'
<1>1. job' \in [Process -> GoodJob] /\ client' \in [Client -> Caller]
  BY AfterStatType DEF ImportMeta, At
<1>2. job[q].c \in Tag
  BY AtPath DEF ImportMeta, At, Pathless
<1>3. Import(job[q].c) \in Entry
  BY <1>2 DEF Import, Entry
<1>4. entries' \in [Instance -> [Path -> Entry \cup {None}]]
  BY <1>3, SetEntryType DEF ImportMeta
<1>. QED  BY <1>1, <1>4, Typed, StepType DEF ImportMeta

LEMMA ReadRangeType == ASSUME TypeInv, NEW q \in Process, ReadRange(q) PROVE TypeInv'
<1>1. Located(job[q]) /\ store[job[q].p] \in Tag /\ data[job[q].i][job[q].p] \in Tag
  BY AtPath DEF ReadRange, At, Pathless
<1>2. [job[q] EXCEPT !.at = "fill", !.d = store[job[q].p]] \in GoodJob
  BY <1>1, Moves DEF Label
<1>3. job' \in [Process -> GoodJob] /\ client' \in [Client -> Caller]
  BY <1>1, <1>2, AfterReadType, FailsType, GotoType, Typed DEF ReadRange, At, Pathless
<1>. QED  BY <1>3, Typed, StepType DEF ReadRange, cacheVars

LEMMA FillCacheType == ASSUME TypeInv, NEW q \in Process, FillCache(q) PROVE TypeInv'
<1>1. job[q].d \in Tag /\ Mine(q) \in Entry \cup {None}
  BY AtPath DEF FillCache, At, Pathless
<1>2. job' \in [Process -> GoodJob] /\ client' \in [Client -> Caller]
  BY <1>1, AfterReadType, FailsType DEF FillCache, At, Pathless
<1>3. Mine(q) # None => [Mine(q) EXCEPT !.cached = TRUE] \in Entry
  BY <1>1 DEF Entry
<1>4. entries' \in [Instance -> [Path -> Entry \cup {None}]] /\ data' \in [Instance -> [Path -> Tag]]
  BY <1>1, <1>3, Typed, SetEntryType, SetDataType DEF FillCache
<1>. QED  BY <1>2, <1>4, Typed, StepType DEF FillCache

(* write_file, delete_path.                                                *)

LEMMA WriteHeadType == ASSUME TypeInv, NEW q \in Process, WriteHead(q) PROVE TypeInv'
<1>1. Located(job[q]) /\ Mine(q) \in Entry \cup {None} /\ store[job[q].p] \in Tag
  BY AtPath DEF WriteHead, At, Pathless
<1>2. job[q].c \in Tag /\ job[q].d \in Tag /\ data[job[q].i][job[q].p] \in Tag
  BY AtPath DEF WriteHead, At, Pathless
<1>3. job' \in [Process -> GoodJob]
  BY <1>1, <1>2, Moves, EndsFlush, GotoType DEF WriteHead, At, Onward, Label, Pathless
<1>. QED  BY <1>1, <1>2, <1>3, Typed, StepType DEF WriteHead, cacheVars, jobOnly

LEMMA WritePutType == ASSUME TypeInv, NEW q \in Process, WritePut(q) PROVE TypeInv'
<1>1. Located(job[q]) /\ Mine(q) \in Entry \cup {None} /\ store[job[q].p] \in Tag
  BY AtPath DEF WritePut, At, Pathless
<1>2. job[q].c \in Tag /\ job[q].d \in Tag /\ data[job[q].i][job[q].p] \in Tag
  BY AtPath DEF WritePut, At, Pathless
<1>3. AfterWrite(job[q]) \in GoodJob
  BY <1>1 DEF Located, AfterWrite, GoodJob, Sound, Asks, Job, Label, Pathless
<1>4. job' \in [Process -> GoodJob]
  BY <1>3, GotoType DEF WritePut
<1>5. Written(job[q].c) \in Entry
  BY <1>2 DEF Written, Entry
<1>6. entries' \in [Instance -> [Path -> Entry \cup {None}]]
  BY <1>5, SetEntryType DEF WritePut
<1>7. data' \in [Instance -> [Path -> Tag]]
  BY <1>2, SetDataType DEF WritePut
<1>8. pending' \in [Instance -> [Path -> Tag \cup {Gone}]]
  BY <1>2, SetPendingType DEF WritePut
<1>. QED  BY <1>1, <1>2, <1>3, <1>4, <1>5, <1>6, <1>7, <1>8, Typed, StepType DEF WritePut, cacheVars, jobOnly

LEMMA DeletePathType == ASSUME TypeInv, NEW q \in Process, DeletePath(q) PROVE TypeInv'
<1>1. Located(job[q]) /\ Mine(q) \in Entry \cup {None} /\ store[job[q].p] \in Tag
  BY AtPath DEF DeletePath, At, Pathless
<1>2. job[q].c \in Tag /\ job[q].d \in Tag /\ data[job[q].i][job[q].p] \in Tag
  BY AtPath DEF DeletePath, At, Pathless
<1>3. job' \in [Process -> GoodJob]
  BY <1>1, <1>2, Moves, EndsFlush, GotoType DEF DeletePath, At, Onward, Label, Pathless
<1>4. Tombstone(Mine(q)) \in Entry
  BY <1>1, TombstoneType
<1>5. entries' \in [Instance -> [Path -> Entry \cup {None}]]
  BY <1>4, SetEntryType DEF DeletePath
<1>6. pending' \in [Instance -> [Path -> Tag \cup {Gone}]]
  BY SetPendingType DEF DeletePath
<1>. QED  BY <1>1, <1>2, <1>3, <1>4, <1>5, <1>6, Typed, StepType DEF DeletePath, cacheVars, jobOnly

(* flush.                                                                  *)

LEMMA FlushScanType == ASSUME TypeInv, NEW q \in Process, FlushScan(q) PROVE TypeInv'
<1>1. job[q] \in GoodJob /\ job[q].i \in Instance
  BY JobFacts DEF FlushScan, At
<1>2. \A s \in SUBSET Path :
        [job[q] EXCEPT !.at = "next", !.ok = FALSE, !.err = "none", !.c = None, !.d = None, !.todo = s] \in GoodJob
  BY <1>1 DEF GoodJob, Sound, Job, Label, Pathless, Tag
<1>3. job' \in [Process -> GoodJob]
  BY <1>2, GotoType DEF FlushScan
<1>. QED  BY <1>3, Typed, StepType DEF FlushScan, cacheVars, jobOnly

LEMMA FlushPathType == ASSUME TypeInv, NEW q \in Process, FlushPath(q) PROVE TypeInv'
<1>1. job[q] \in GoodJob /\ job[q] \in Job /\ job[q].i \in Instance
  BY JobFacts DEF FlushPath, At
<1>2. PICK p \in job[q].todo :
        LET e == entries[job[q].i][p]
            j == [job[q] EXCEPT !.todo = @ \ {p}, !.p = p]
        IN Goto(q, IF e = None \/ Clean(e) THEN [j EXCEPT !.ok = TRUE]
                   ELSE [j EXCEPT !.e = e, !.at = IF e.deleted THEN "expunge" ELSE "compare"])
  BY DEF FlushPath
<1>. DEFINE e == entries[job[q].i][p]
            j == [job[q] EXCEPT !.todo = @ \ {p}, !.p = p]
<1>3. p \in Path
  BY <1>1 DEF Job
<1>4. e \in Entry \cup {None}
  BY <1>1, <1>3, Typed
<1>5. Located(j)
  BY <1>1, <1>3 DEF Located, GoodJob, Sound, Job
<1>6. [j EXCEPT !.ok = TRUE] \in GoodJob
  BY <1>5 DEF Located, GoodJob, Sound, Job
<1>7. \A at \in {"expunge", "compare"} : [j EXCEPT !.e = e, !.at = at] \in GoodJob
  BY <1>4, <1>5 DEF Located, GoodJob, Sound, Job, Label, Pathless
<1>8. job' \in [Process -> GoodJob]
  BY <1>2, <1>6, <1>7, GotoType
<1>. QED  BY <1>8, Typed, StepType DEF FlushPath, cacheVars, jobOnly

LEMMA FlushEndType == ASSUME TypeInv, NEW q \in Process, FlushEnd(q) PROVE TypeInv'
<1>. DEFINE j == [job[q] EXCEPT !.err = IF job[q].ok THEN "none" ELSE @]
<1>1. j \in GoodJob /\ j.i \in Instance
  BY JobFacts DEF FlushEnd, At, GoodJob, Sound, Job, Label, Pathless
<1>2. job' \in [Process -> GoodJob] /\ client' \in [Client -> Caller]
  BY <1>1, EndsType DEF FlushEnd
<1>. QED  BY <1>2, Typed, StepType DEF FlushEnd, cacheVars

LEMMA FlushCompareType == ASSUME TypeInv, NEW q \in Process, FlushCompare(q) PROVE TypeInv'
<1>1. Located(job[q]) /\ Mine(q) \in Entry \cup {None} /\ store[job[q].p] \in Tag
  BY AtPath DEF FlushCompare, At, Pathless
<1>2. job[q].c \in Tag /\ job[q].d \in Tag /\ data[job[q].i][job[q].p] \in Tag
  BY AtPath DEF FlushCompare, At, Pathless
<1>3. [job[q] EXCEPT !.at = "lose", !.e = None, !.c = store[job[q].p]] \in GoodJob
  BY <1>1, Moves DEF Label
<1>4. [job[q] EXCEPT !.at = "export", !.e = None] \in GoodJob
  BY <1>1, Moves DEF Label
<1>5. job' \in [Process -> GoodJob]
  BY <1>3, <1>4, GotoType DEF FlushCompare
<1>. QED  BY <1>1, <1>2, <1>3, <1>4, <1>5, Typed, StepType DEF FlushCompare, cacheVars, jobOnly

LEMMA FlushConflictType == ASSUME TypeInv, NEW q \in Process, FlushConflict(q) PROVE TypeInv'
<1>1. Located(job[q]) /\ Mine(q) \in Entry \cup {None} /\ store[job[q].p] \in Tag
  BY AtPath DEF FlushConflict, At, Pathless
<1>2. job[q].c \in Tag /\ job[q].d \in Tag /\ data[job[q].i][job[q].p] \in Tag
  BY AtPath DEF FlushConflict, At, Pathless
<1>. DEFINE i == job[q].i
            d == data[i][job[q].p]
<1>3. Missed(q, "conflict") \in GoodJob /\ Missed(q, "notfound") \in GoodJob
  BY EndsFlush DEF FlushConflict, At, Pathless
<1>4. job' \in [Process -> GoodJob]
  BY <1>3, GotoType DEF FlushConflict
<1>5. CASE /\ d # None
           /\ lost' = [lost EXCEPT ![i] = @ \cup {SetAside(q)}]
           /\ SetEntry(q, Import(job[q].c))
           /\ SetData(q, None)
  <2>1. SetAside(q) \in Path \X Data
    BY <1>1, <1>2, <1>5 DEF SetAside, Located, Tag
  <2>2. lost' \in [Instance -> SUBSET (Path \X Data)]
    BY <1>5, <2>1, Typed
  <2>3. Import(job[q].c) \in Entry
    BY <1>2 DEF Import, Entry
  <2>4. entries' \in [Instance -> [Path -> Entry \cup {None}]]
    BY <1>5, <2>3, SetEntryType
  <2>5. data' \in [Instance -> [Path -> Tag]]
    BY <1>5, SetDataType DEF Tag
  <2>. QED  BY <1>4, <2>2, <2>4, <2>5, Typed, StepType DEF FlushConflict, jobOnly
<1>6. CASE UNCHANGED cacheVars
  BY <1>4, <1>6, Typed, StepType DEF FlushConflict, cacheVars, jobOnly
<1>. QED  BY <1>5, <1>6 DEF FlushConflict

LEMMA FlushWriteType == ASSUME TypeInv, NEW q \in Process, FlushWrite(q) PROVE TypeInv'
<1>1. Located(job[q]) /\ Mine(q) \in Entry \cup {None} /\ store[job[q].p] \in Tag
  BY AtPath DEF FlushWrite, At, Pathless
<1>2. job[q].c \in Tag /\ job[q].d \in Tag /\ data[job[q].i][job[q].p] \in Tag
  BY AtPath DEF FlushWrite, At, Pathless
<1>3. Missed(q, "notfound") \in GoodJob /\ [job[q] EXCEPT !.at = "tag"] \in GoodJob
  BY <1>1, EndsFlush, Moves DEF FlushWrite, At, Pathless, Label
<1>4. job' \in [Process -> GoodJob]
  BY <1>3, GotoType DEF FlushWrite, Onward
<1>5. store' \in [Path -> Tag]
  BY <1>2, Typed DEF FlushWrite
<1>6. pending' \in [Instance -> [Path -> Tag \cup {Gone}]]
  BY ExportedType, Typed DEF FlushWrite
<1>. QED  BY <1>4, <1>5, <1>6, Typed, StepType DEF FlushWrite, cacheVars, jobOnly

LEMMA FlushTagType == ASSUME TypeInv, NEW q \in Process, FlushTag(q) PROVE TypeInv'
<1>1. Located(job[q]) /\ Mine(q) \in Entry \cup {None} /\ store[job[q].p] \in Tag
  BY AtPath DEF FlushTag, At, Pathless
<1>2. job[q].c \in Tag /\ job[q].d \in Tag /\ data[job[q].i][job[q].p] \in Tag
  BY AtPath DEF FlushTag, At, Pathless
<1>3. job' \in [Process -> GoodJob]
  BY <1>1, <1>2, Moves, EndsFlush, GotoType DEF FlushTag, At, Onward, Label, Pathless
<1>. QED  BY <1>1, <1>2, <1>3, Typed, StepType DEF FlushTag, cacheVars, jobOnly

LEMMA MarkCleanType == ASSUME TypeInv, NEW q \in Process, MarkClean(q) PROVE TypeInv'
<1>1. Located(job[q]) /\ Mine(q) \in Entry \cup {None} /\ store[job[q].p] \in Tag
  BY AtPath DEF MarkClean, At, Pathless
<1>2. job[q].c \in Tag /\ job[q].d \in Tag /\ data[job[q].i][job[q].p] \in Tag
  BY AtPath DEF MarkClean, At, Pathless
<1>3. Missed(q, "notfound") \in GoodJob /\ Through(q) \in GoodJob
  BY EndsFlush DEF MarkClean, At, Pathless
<1>4. job' \in [Process -> GoodJob]
  BY <1>3, GotoType DEF MarkClean
<1>5. Mine(q) # None => Cleaned(Mine(q), job[q].c) \in Entry
  BY <1>1, <1>2 DEF Cleaned, Entry
<1>6. entries' \in [Instance -> [Path -> Entry \cup {None}]]
  BY <1>5, SetEntryType, Typed DEF MarkClean
<1>. QED  BY <1>1, <1>2, <1>3, <1>4, <1>5, <1>6, Typed, StepType DEF MarkClean, cacheVars, jobOnly

LEMMA FlushDeleteType == ASSUME TypeInv, NEW q \in Process, FlushDelete(q) PROVE TypeInv'
<1>1. Located(job[q]) /\ Mine(q) \in Entry \cup {None} /\ store[job[q].p] \in Tag
  BY AtPath DEF FlushDelete, At, Pathless
<1>2. job[q].c \in Tag /\ job[q].d \in Tag /\ data[job[q].i][job[q].p] \in Tag
  BY AtPath DEF FlushDelete, At, Pathless
<1>3. job' \in [Process -> GoodJob]
  BY <1>1, <1>2, Moves, EndsFlush, GotoType DEF FlushDelete, At, Onward, Label, Pathless
<1>4. store' \in [Path -> Tag]
  BY Typed DEF FlushDelete, Tag
<1>5. pending' \in [Instance -> [Path -> Tag \cup {Gone}]]
  BY ExportedType DEF FlushDelete
<1>. QED  BY <1>1, <1>2, <1>3, <1>4, <1>5, Typed, StepType DEF FlushDelete, cacheVars, jobOnly

LEMMA RemoveEntryType == ASSUME TypeInv, NEW q \in Process, RemoveEntry(q) PROVE TypeInv'
<1>1. Located(job[q]) /\ Mine(q) \in Entry \cup {None} /\ store[job[q].p] \in Tag
  BY AtPath DEF RemoveEntry, At, Pathless
<1>2. job[q].c \in Tag /\ job[q].d \in Tag /\ data[job[q].i][job[q].p] \in Tag
  BY AtPath DEF RemoveEntry, At, Pathless
<1>3. job' \in [Process -> GoodJob]
  BY EndsFlush, GotoType DEF RemoveEntry, At, Pathless
<1>4. entries' \in [Instance -> [Path -> Entry \cup {None}]]
  BY SetEntryType DEF RemoveEntry
<1>5. data' \in [Instance -> [Path -> Tag]]
  BY SetDataType DEF RemoveEntry, Tag
<1>. QED  BY <1>1, <1>2, <1>3, <1>4, <1>5, Typed, StepType DEF RemoveEntry, cacheVars, jobOnly

(* The clients, the workers and the listeners.                             *)

LEMMA ArrivesType == ASSUME TypeInv, NEW c \in Client, Arrives(c) PROVE TypeInv'
<1>1. ASSUME NEW i \in Instance, NEW p \in Path, ReadLocally(c, i, p) PROVE TypeInv'
  <2>1. [NoRequest EXCEPT !.op = "read", !.p = p] \in Wanted
    BY DEF NoRequest, Wanted, Asks, Request, OpName, Tag
  <2>2. Start("stat", i, [NoRequest EXCEPT !.op = "read", !.p = p]) \in GoodJob
    BY <2>1, StartGood DEF Label, NoRequest
  <2>3. job' \in [Process -> GoodJob]
    BY <1>1, <2>2 DEF ReadLocally, TypeInv
  <2>4. client' \in [Client -> Caller]
    BY <1>1, DistributedAssumption, Typed DEF ReadLocally, Begins, Caller
  <2>. QED  BY <1>1, <2>3, <2>4, Typed, StepType DEF ReadLocally, cacheVars
<1>2. ASSUME NEW i \in Instance, NEW req \in Requests, Send(c, i, req) PROVE TypeInv'
  <2>1. [req EXCEPT !.from = c] \in Wanted
    BY NoRequestWanted DEF Requests, Wanted, Asks, Request, OpName, Tag
  <2>2. PICK j \in Instance : inbox' = [inbox EXCEPT ![j] = Append(@, [req EXCEPT !.from = c])]
    BY <1>2 DEF Send
  <2>3. inbox' \in [Instance -> Seq(Wanted)]
    BY <2>1, <2>2, AppendProperties DEF TypeInv
  <2>4. client' \in [Client -> Caller]
    BY <1>2, DistributedAssumption, Typed DEF Send, Begins, Caller
  <2>. QED  BY <1>2, <2>3, <2>4, OtherType, Typed, Tails DEF Send, cacheVars
<1>. QED  BY <1>1, <1>2 DEF Arrives

LEMMA ForsakenTypes ==
    ASSUME TypeInv, NEW cs
    PROVE  /\ \A i \in Instance :
                 [k \in DOMAIN inbox[i] |-> Forsaken(inbox[i][k], cs)] \in Seq(Wanted)
           /\ \A q \in Process : [job[q] EXCEPT !.req = Forsaken(@, cs)] \in GoodJob
<1>1. ASSUME NEW i \in Instance
      PROVE  [k \in DOMAIN inbox[i] |-> Forsaken(inbox[i][k], cs)] \in Seq(Wanted)
  <2>1. inbox[i] \in Seq(Wanted)
    BY Tails
  <2>2. \A k \in DOMAIN inbox[i] : inbox[i][k] \in Wanted
    BY <2>1, ElementOfSeq, LenProperties
  <2>3. [k \in DOMAIN inbox[i] |-> Forsaken(inbox[i][k], cs)] \in [DOMAIN inbox[i] -> Wanted]
    BY <2>2, ForsakenWanted
  <2>. QED  BY <2>1, <2>3, MapInSeq
<1>2. ASSUME NEW q \in Process PROVE [job[q] EXCEPT !.req = Forsaken(@, cs)] \in GoodJob
  <2>1. job[q] \in GoodJob
    BY Tails
  <2>2. job[q].req \in Wanted
    BY <2>1 DEF GoodJob, Sound, Job, Wanted
  <2>3. Forsaken(job[q].req, cs) \in Wanted
    BY <2>2, ForsakenWanted
  <2>4. Forsaken(job[q].req, cs).op = job[q].req.op
    BY <2>2, ForsakenWanted
  <2>5. \A r \in Wanted : r.op = job[q].req.op => [job[q] EXCEPT !.req = r] \in GoodJob
    BY <2>1 DEF GoodJob, Sound, Job, Wanted
  <2>. QED  BY <2>3, <2>4, <2>5
<1>. QED  BY <1>1, <1>2

LEMMA GiveUpType == ASSUME TypeInv, NEW c \in Client, GiveUp(c) PROVE TypeInv'
<1>1. client' \in [Client -> Caller]
  BY SettledType, Typed DEF GiveUp
<1>2. inbox' \in [Instance -> Seq(Wanted)] /\ job' \in [Process -> GoodJob]
  BY ForsakenTypes DEF GiveUp
<1>3. mishaps' \in 0..Mishaps
  BY Tails, DistributedAssumption DEF GiveUp
<1>. QED  BY <1>1, <1>2, <1>3, OtherType, Typed, Tails DEF GiveUp, cacheVars

LEMMA TakeRequestType == ASSUME TypeInv, NEW i \in Instance, TakeRequest(i) PROVE TypeInv'
<1>. DEFINE req == Head(inbox[i])
            first == CASE req.op \in {"stat", "rename"} -> "stat"
                       [] req.op = "write" -> "head"
                       [] req.op = "delete" -> "tomb"
                       [] OTHER -> "scan"
<1>1. inbox[i] \in Seq(Wanted) /\ inbox[i] # <<>>
  BY Tails DEF TakeRequest
<1>2. req \in Wanted /\ Tail(inbox[i]) \in Seq(Wanted)
  BY <1>1, HeadTailProperties
<1>3. first \in Label \ {"publish"}
  BY DEF Label
<1>4. first \notin Pathless => req.p \in Path
  BY <1>2 DEF Wanted, Asks, Pathless
<1>5. Start(first, i, req) \in GoodJob
  <2>1. first \notin {"idle", "dead"} => i \in Instance
    OBVIOUS
  <2>. HIDE DEF first, req
  <2>. QED  BY <1>2, <1>3, <1>4, <2>1, StartGood
<1>6. job' = [job EXCEPT ![Worker(i)] = Start(first, i, req)]
  BY DEF TakeRequest, Goto
<1>7. job' \in [Process -> GoodJob]
  <2>. HIDE DEF first, req
  <2>. QED  BY <1>5, <1>6, Tails
<1>8. inbox' \in [Instance -> Seq(Wanted)]
  BY <1>2, Tails DEF TakeRequest
<1>. QED  BY <1>7, <1>8, OtherType, Typed, Tails DEF TakeRequest, cacheVars

LEMMA PublishEventType == ASSUME TypeInv, NEW i \in Instance, PublishEvent(i) PROVE TypeInv'
<1>. DEFINE j == job[Worker(i)]
<1>1. Worker(i) \in Process
  BY DEF Worker, Process
<1>2. j \in GoodJob /\ j.at = "publish"
  BY <1>1, Tails DEF PublishEvent, At
<1>3. [j EXCEPT !.at = "reply"] \in GoodJob
  BY <1>2 DEF GoodJob, Sound, Job, Label, Pathless
<1>4. job' \in [Process -> GoodJob]
  BY <1>1, <1>3, GotoType DEF PublishEvent, Onward
<1>5. j.req.p \in Path /\ (j.req.op = "rename" => j.req.to \in Path)
  BY <1>2 DEF GoodJob, Sound, Asks, Mutation
<1>6. EventPaths(j.req) \in Seq(Path)
  BY <1>5 DEF EventPaths
<1>7. [origin |-> i, paths |-> EventPaths(j.req)] \in Event
  BY <1>6 DEF Event
<1>8. events' \in [Instance -> Seq(Event)]
  BY <1>7, Tails, AppendProperties DEF PublishEvent
<1>. QED  BY <1>4, <1>8, OtherType, Typed, Tails DEF PublishEvent, cacheVars

LEMMA ReplyType == ASSUME TypeInv, NEW i \in Instance, Reply(i) PROVE TypeInv'
<1>1. Worker(i) \in Process
  BY DEF Worker, Process
<1>2. job' \in [Process -> GoodJob]
  BY <1>1, IdleGood, GotoType DEF Reply
<1>3. client' \in [Client -> Caller]
  BY SettledType, Typed DEF Reply
<1>. QED  BY <1>2, <1>3, OtherType, Typed, Tails DEF Reply, natsVars, cacheVars

LEMMA HearEventType == ASSUME TypeInv, NEW i \in Instance, HearEvent(i) PROVE TypeInv'
<1>. DEFINE event == Head(events[i])
            tasks == [k \in DOMAIN event.paths |-> [at |-> "look", p |-> event.paths[k]]]
<1>1. events[i] \in Seq(Event) /\ events[i] # <<>>
  BY Tails DEF HearEvent
<1>2. event \in Event /\ Tail(events[i]) \in Seq(Event)
  BY <1>1, HeadTailProperties
<1>3. event.paths \in Seq(Path)
  BY <1>2 DEF Event
<1>4. \A k \in DOMAIN event.paths : event.paths[k] \in Path
  BY <1>3, ElementOfSeq, LenProperties
<1>5. tasks \in [DOMAIN event.paths -> Task]
  BY <1>4 DEF Task
<1>6. tasks \in Seq(Task)
  BY <1>3, <1>5, MapInSeq
<1>7. <<>> \in Seq(Task)
  OBVIOUS
<1>8. listener' \in [Instance -> Seq(Task)]
  BY <1>6, <1>7, Tails DEF HearEvent
<1>9. events' \in [Instance -> Seq(Event)]
  BY <1>2, Tails DEF HearEvent
<1>. QED  BY <1>8, <1>9, OtherType, Typed, Tails DEF HearEvent, cacheVars

LEMMA InvalidateType == ASSUME TypeInv, NEW i \in Instance, Invalidate(i) PROVE TypeInv'
<1>1. listener[i] \in Seq(Task) /\ listener[i] # <<>>
  BY Tails DEF Invalidate
<1>2. Head(listener[i]) \in Task /\ Tail(listener[i]) \in Seq(Task)
  BY <1>1, HeadTailProperties
<1>3. ASSUME NEW at \in {"drop", "unlink"} PROVE [listener[i] EXCEPT ![1].at = at] \in Seq(Task)
  <2>1. DOMAIN listener[i] = 1..Len(listener[i]) /\ Len(listener[i]) \in Nat
    BY <1>1, LenProperties
  <2>2. \A k \in 1..Len(listener[i]) : listener[i][k] \in Task
    BY <1>1, ElementOfSeq
  <2>3. \A t \in Task : [t EXCEPT !.at = at] \in Task
    BY <1>3 DEF Task
  <2>4. [listener[i] EXCEPT ![1].at = at] \in [DOMAIN listener[i] -> Task]
    BY <1>1, <2>1, <2>2, <2>3
  <2>. QED  BY <1>1, <2>4, MapInSeq
<1>4. listener' \in [Instance -> Seq(Task)]
  BY <1>2, <1>3, Tails DEF Invalidate, NextPart, TaskDone
<1>5. entries' \in [Instance -> [Path -> Entry \cup {None}]]
  <2>. DEFINE p == Head(listener[i]).p
  <2>1. p \in Path
    BY <1>2 DEF Task
  <2>2. entries' = entries \/ entries' = [entries EXCEPT ![i][p] = None]
    BY DEF Invalidate
  <2>3. entries \in [Instance -> [Path -> Entry \cup {None}]]
    BY Typed
  <2>4. [entries EXCEPT ![i][p] = None] \in [Instance -> [Path -> Entry \cup {None}]]
    BY <2>1, <2>3
  <2>. QED  BY <2>2, <2>3, <2>4
<1>6. data' \in [Instance -> [Path -> Tag]]
  BY Typed DEF Invalidate, Tag
<1>. QED  BY <1>4, <1>5, <1>6, OtherType, Typed, Tails DEF Invalidate, natsVars

LEMMA SyncTickType == ASSUME TypeInv, NEW i \in Instance, SyncTick(i) PROVE TypeInv'
<1>1. Loop(i) \in Process
  BY DEF Loop, Process
<1>2. Start("scan", i, NoRequest) \in GoodJob
  BY StartGood, NoRequestWanted DEF Label, Pathless
<1>3. job' \in [Process -> GoodJob]
  BY <1>1, <1>2, GotoType DEF SyncTick
<1>. QED  BY <1>3, Typed, StepType DEF SyncTick, cacheVars, jobOnly

LEMMA CrashType == ASSUME TypeInv, NEW i \in Instance, Crash(i) PROVE TypeInv'
<1>. DEFINE cs == {c \in Client : client[c].at # "idle" /\ client[c].via = i}
<1>1. client' \in [Client -> Caller]
  BY SettledType, Typed DEF Crash
<1>2. inbox' \in [Instance -> Seq(Wanted)]
  <2>1. <<>> \in Seq(Wanted)
    OBVIOUS
  <2>. QED  BY <2>1, ForsakenTypes DEF Crash
<1>3. job' \in [Process -> GoodJob]
  BY ForsakenTypes, IdleGood DEF Crash
<1>4. mishaps' \in 0..Mishaps
  BY Tails, DistributedAssumption DEF Crash
<1>5. events' \in [Instance -> Seq(Event)] /\ listener' \in [Instance -> Seq(Task)]
  BY Tails DEF Crash
<1>. QED  BY <1>1, <1>2, <1>3, <1>4, <1>5, OtherType, Typed DEF Crash, cacheVars

LEMMA TypeInit == Init => TypeInv
<1>. SUFFICES ASSUME Init PROVE TypeInv
  OBVIOUS
<1>1. job \in [Process -> GoodJob]
  BY IdleGood DEF Init
<1>2. job \in [Process -> Job]
  BY <1>1 DEF GoodJob
<1>3. <<>> \in Seq(Wanted) /\ <<>> \in Seq(Request) /\ <<>> \in Seq(Event) /\ <<>> \in Seq(Task)
  OBVIOUS
<1>. QED  BY <1>1, <1>2, <1>3, DistributedAssumption DEF Init, TypeInv, TypeOK, Tag

LEMMA ProceedsType == ASSUME TypeInv, NEW q \in Process, Proceeds(q) PROVE TypeInv'
BY StatType, ImportMetaType, ReadRangeType, FillCacheType, WriteHeadType, WritePutType, DeletePathType,
   FlushScanType, FlushPathType, FlushEndType, FlushCompareType, FlushConflictType, FlushWriteType,
   FlushTagType, MarkCleanType, FlushDeleteType, RemoveEntryType DEF Proceeds

LEMMA TypeNext == TypeInv /\ [Next]_vars => TypeInv'
<1>. SUFFICES ASSUME TypeInv, [Next]_vars PROVE TypeInv'
  OBVIOUS
<1>1. CASE UNCHANGED vars
  BY <1>1 DEF vars, cacheVars, natsVars, TypeInv, TypeOK
<1>2. CASE Next
  BY <1>2, ArrivesType, GiveUpType, ProceedsType, TakeRequestType, PublishEventType, ReplyType,
     HearEventType, InvalidateType, SyncTickType, CrashType DEF Next, Works, Listens
<1>. QED  BY <1>1, <1>2

(* Every variable keeps its type, whatever clients call, servers do and    *)
(* goes wrong, and no step of a job is reached without the path it is at.  *)
THEOREM TypeCorrect == Spec => []TypeOK
<1>1. TypeInv => TypeOK
  BY DEF TypeInv
<1>. QED  BY <1>1, TypeInit, TypeNext, PTL DEF Spec


-----------------------------------------------------------------------------
(***************************************************************************)
(* What an answer promises in Distributed, when the instances are left to  *)
(* their workers: no background loop, no events, no reads on the side.     *)
(* For every set of instances, clients and contents, every number of calls *)
(* and mishaps.                                                            *)
(***************************************************************************)

WorkersOnly == Syncing = {} /\ Announcing = {} /\ "read" \notin Ops
OnePath == \A p, r \in Path : p = r

-----------------------------------------------------------------------------
(* The invariant.                                                          *)

Dirty(e) == e # None /\ e.dirty

(* What is pending for a dirty entry is what its next export would do.     *)
KeepsFile(e, d, m) == Dirty(e) => m \in (IF e.deleted THEN {None, Gone} ELSE {None, d})

(* The entry a worker looked at before an await is as it was.              *)
Steady(i, j, es) ==
    /\ j.at # "idle" => j.i = i
    /\ j.at \notin {"dead", "publish"}
    /\ j.at = "fill" => ~Dirty(es[j.p])
    /\ j.at \in {"compare", "lose", "export", "tag", "clean"} => Dirty(es[j.p]) /\ ~es[j.p].deleted
    /\ j.at \in {"expunge", "forget"} => Dirty(es[j.p]) /\ es[j.p].deleted

(* A write or delete under way with one path: until its flush has been at  *)
(* the path the entry is dirty, then nothing is pending or there is an     *)
(* error.                                                                  *)
OnItsWay(j, es, m) ==
    j.at # "idle" /\ j.req.op \in {"write", "delete"} =>
        /\ j.at \notin {"stat", "import", "read", "fill"}
        /\ j.at = "scan" => Dirty(es[j.req.p])
        /\ j.at = "next" =>
              IF j.req.p \in j.todo THEN Dirty(es[j.req.p]) /\ ~j.ok
              ELSE IF j.ok THEN m[j.req.p] = None ELSE j.err # "none"
        /\ j.at \in {"compare", "lose", "export", "tag", "clean", "expunge", "forget"} =>
              j.todo = {} /\ ~j.ok
        /\ j.at \in {"tag", "clean", "forget"} => m[j.req.p] = None
        /\ j.at = "reply" /\ j.err = "none" => m[j.req.p] = None

Good(i) ==
    /\ Steady(i, job[Worker(i)], entries[i])
    /\ \A p \in Path : KeepsFile(entries[i][p], data[i][p], pending[i][p])
    /\ OnePath => OnItsWay(job[Worker(i)], entries[i], pending[i])

Inv ==
    /\ TypeInv
    /\ \A q \in Process : q[2] # "worker" => job[q].at = "idle"
    /\ \A i \in Instance : events[i] = <<>> /\ listener[i] = <<>> /\ Good(i)

-----------------------------------------------------------------------------
(* A step of a worker leaves the other instances alone.                    *)

Elsewhere(i) ==
    /\ \A q \in Process \ {Worker(i)} : job'[q] = job[q]
    /\ \A k \in Instance \ {i} :
          entries'[k] = entries[k] /\ data'[k] = data[k] /\ pending'[k] = pending[k]

LEMMA Workers ==
    /\ \A i \in Instance : Worker(i) \in Process /\ Worker(i)[2] = "worker"
    /\ \A q \in Process : q[2] = "worker" => \E i \in Instance : q = Worker(i)
    /\ \A i, k : Worker(i) = Worker(k) => i = k
BY DEF Worker, Process

LEMMA WorkerEnds ==
    ASSUME WorkersOnly, NEW i \in Instance, NEW j, Ends(Worker(i), j)
    PROVE  job' = [job EXCEPT ![Worker(i)] = [j EXCEPT !.at = "reply"]] /\ UNCHANGED client
<1>1. Worker(i)[2] = "worker" /\ ~Announces(j)
  BY Workers DEF WorkersOnly, Announces
<1>. QED  BY <1>1 DEF Ends, Ended, Answers, Goto

LEMMA WorkerAt ==
    ASSUME Inv, NEW i \in Instance, job[Worker(i)].at \notin Pathless
    PROVE  /\ Worker(i) \in Process /\ Located(job[Worker(i)]) /\ job[Worker(i)] \in Job
           /\ job[Worker(i)].i = i /\ job[Worker(i)].p \in Path
           /\ Mine(Worker(i)) = entries[i][job[Worker(i)].p]
           /\ entries[i][job[Worker(i)].p] \in Entry \cup {None}
           /\ Good(i)
           /\ OnePath /\ job[Worker(i)].req.op \in {"write", "delete"} =>
                 job[Worker(i)].req.p = job[Worker(i)].p
<1>1. Worker(i) \in Process /\ Good(i)
  BY Workers DEF Inv
<1>2. job[Worker(i)].i = i
  BY <1>1 DEF Good, Steady, Pathless
<1>3. Located(job[Worker(i)]) /\ Mine(Worker(i)) \in Entry \cup {None}
  BY <1>1, AtPath DEF Inv
<1>4. job[Worker(i)] \in Job /\ job[Worker(i)].p \in Path /\ Asks(job[Worker(i)].req)
  BY <1>3 DEF Located, GoodJob, Sound
<1>5. OnePath /\ job[Worker(i)].req.op \in {"write", "delete"} => job[Worker(i)].req.p = job[Worker(i)].p
  BY <1>4 DEF OnePath, Asks
<1>. QED  BY <1>1, <1>2, <1>3, <1>4, <1>5 DEF Mine

(* Only the job changes.                                                   *)
LEMMA JobMoves ==
    ASSUME Inv, NEW i \in Instance, NEW j, job' = [job EXCEPT ![Worker(i)] = j],
           Steady(i, j, entries[i]), OnePath => OnItsWay(j, entries[i], pending[i]),
           UNCHANGED <<entries, data, pending>>
    PROVE  Elsewhere(i) /\ Good(i)'
<1>1. job \in [Process -> Job] /\ Worker(i) \in Process
  BY Workers DEF Inv, TypeInv, TypeOK
<1>2. job'[Worker(i)] = j
  BY <1>1
<1>3. \A q \in Process \ {Worker(i)} : job'[q] = job[q]
  BY <1>1
<1>4. Good(i)
  BY DEF Inv
<1>. QED  BY <1>2, <1>3, <1>4 DEF Elsewhere, Good

LEMMA PutAt ==
    ASSUME NEW S, NEW f \in [Instance -> [Path -> S]], NEW i \in Instance, NEW p \in Path, NEW v
    PROVE  LET g == [f EXCEPT ![i][p] = v]
           IN /\ g[i][p] = v
              /\ \A r \in Path \ {p} : g[i][r] = f[i][r]
              /\ \A k \in Instance \ {i} : g[k] = f[k]
OBVIOUS

(* The job and its path change.                                            *)
LEMMA PathMoves ==
    ASSUME Inv, NEW i \in Instance, NEW j, NEW p \in Path,
           job' = [job EXCEPT ![Worker(i)] = j],
           entries' = entries \/ entries' = [entries EXCEPT ![i][p] = entries'[i][p]],
           data' = data \/ data' = [data EXCEPT ![i][p] = data'[i][p]],
           pending' = pending \/ pending' = [pending EXCEPT ![i][p] = pending'[i][p]],
           Steady(i, j, entries'[i]), OnePath => OnItsWay(j, entries'[i], pending'[i]),
           KeepsFile(entries'[i][p], data'[i][p], pending'[i][p])
    PROVE  Elsewhere(i) /\ Good(i)'
<1>1. job \in [Process -> Job] /\ Worker(i) \in Process
  BY Workers DEF Inv, TypeInv, TypeOK
<1>2. job'[Worker(i)] = j
  BY <1>1
<1>3. \A q \in Process \ {Worker(i)} : job'[q] = job[q]
  BY <1>1
<1>4. /\ \A r \in Path \ {p} : entries'[i][r] = entries[i][r]
      /\ \A k \in Instance \ {i} : entries'[k] = entries[k]
  BY PutAt, Typed DEF Inv
<1>5. /\ \A r \in Path \ {p} : data'[i][r] = data[i][r]
      /\ \A k \in Instance \ {i} : data'[k] = data[k]
  BY PutAt, Typed DEF Inv
<1>6. /\ \A r \in Path \ {p} : pending'[i][r] = pending[i][r]
      /\ \A k \in Instance \ {i} : pending'[k] = pending[k]
  BY PutAt, Typed DEF Inv
<1>7. Good(i)
  BY DEF Inv
<1>8. \A r \in Path : KeepsFile(entries'[i][r], data'[i][r], pending'[i][r])
  BY <1>4, <1>5, <1>6, <1>7 DEF Good
<1>. QED  BY <1>2, <1>3, <1>4, <1>5, <1>6, <1>8 DEF Elsewhere, Good

LEMMA WrittenFacts == ASSUME NEW c \in Tag PROVE Dirty(Written(c)) /\ ~Written(c).deleted
<1>1. Written(c) \in Entry
  BY DEF Written, Entry
<1>. QED  BY <1>1, DistributedAssumption DEF Dirty, Written

LEMMA TombstoneFacts ==
    ASSUME NEW e \in Entry \cup {None} PROVE Dirty(Tombstone(e)) /\ Tombstone(e).deleted
<1>1. Tombstone(e) \in Entry
  BY TombstoneType
<1>2. Import(None) \in Entry
  BY DEF Import, Entry, Tag
<1>3. \A f \in Entry : /\ [f EXCEPT !.deleted = TRUE, !.dirty = TRUE].dirty
                       /\ [f EXCEPT !.deleted = TRUE, !.dirty = TRUE].deleted
  BY DEF Entry
<1>. QED  BY <1>1, <1>2, <1>3, DistributedAssumption DEF Dirty, Tombstone

(* One lemma per step.                                                     *)

LEMMA FailsKeeps ==
    ASSUME Inv, WorkersOnly, NEW i \in Instance, job[Worker(i)].at \in {"stat", "read", "fill"},
           Fails(Worker(i)), UNCHANGED <<entries, data, pending>>
    PROVE  Elsewhere(i) /\ Good(i)'
<1>. DEFINE q == Worker(i)
            j == [[job[q] EXCEPT !.err = "notfound"] EXCEPT !.at = "reply"]
<1>1. job' = [job EXCEPT ![q] = j]
  BY WorkerEnds DEF Fails
<1>2. job[q] \in Job /\ job[q].i = i
  BY WorkerAt DEF Pathless
<1>3. Steady(i, j, entries[i]) /\ OnItsWay(j, entries[i], pending[i])
  BY <1>2 DEF Job, Steady, OnItsWay
<1>. QED  BY <1>1, <1>3, JobMoves

LEMMA AfterStatKeeps ==
    ASSUME Inv, WorkersOnly, NEW i \in Instance, job[Worker(i)].at \in {"stat", "import"},
           AfterStat(Worker(i))
    PROVE  \E j : /\ job' = [job EXCEPT ![Worker(i)] = j]
                  /\ \A es : Steady(i, j, es)
                  /\ OnePath => \A es, m : OnItsWay(j, es, m)
<1>. DEFINE q == Worker(i)
<1>1. job[q] \in Job /\ job[q].i = i /\ Good(i)
  BY WorkerAt DEF Pathless
<1>2. OnePath => job[q].req.op \notin {"write", "delete"}
  BY <1>1 DEF Good, OnItsWay
<1>3. CASE job[q].req.op = "stat"
  <2>. DEFINE j == [job[q] EXCEPT !.at = "reply"]
  <2>1. job' = [job EXCEPT ![q] = j]
    BY <1>3, WorkerEnds DEF AfterStat
  <2>2. \A es : Steady(i, j, es)
    BY <1>1 DEF Job, Steady
  <2>3. OnePath => \A es, m : OnItsWay(j, es, m)
    BY <1>1, <1>2 DEF Job, OnItsWay
  <2>. QED  BY <2>1, <2>2, <2>3
<1>4. CASE job[q].req.op # "stat"
  <2>. DEFINE j == [job[q] EXCEPT !.at = "read"]
  <2>1. job' = [job EXCEPT ![q] = j]
    BY <1>4 DEF AfterStat, Onward, Goto
  <2>2. \A es : Steady(i, j, es)
    BY <1>1 DEF Job, Steady
  <2>3. OnePath => \A es, m : OnItsWay(j, es, m)
    BY <1>1, <1>2 DEF Job, OnItsWay
  <2>. QED  BY <2>1, <2>2, <2>3
<1>. QED  BY <1>3, <1>4

LEMMA AfterReadKeeps ==
    ASSUME Inv, WorkersOnly, NEW i \in Instance, job[Worker(i)].at \in {"read", "fill"}, NEW d,
           AfterRead(Worker(i), d)
    PROVE  \E j : /\ job' = [job EXCEPT ![Worker(i)] = j]
                  /\ \A es : Steady(i, j, es)
                  /\ OnePath => \A es, m : OnItsWay(j, es, m)
<1>. DEFINE q == Worker(i)
<1>1. job[q] \in Job /\ job[q].i = i /\ Good(i)
  BY WorkerAt DEF Pathless
<1>2. OnePath => job[q].req.op \notin {"write", "delete"}
  BY <1>1 DEF Good, OnItsWay
<1>3. CASE job[q].req.op = "rename"
  <2>. DEFINE j == [job[q] EXCEPT !.at = "head", !.d = d, !.p = job[q].req.to]
  <2>1. job' = [job EXCEPT ![q] = j]
    BY <1>3 DEF AfterRead, Goto
  <2>2. \A es : Steady(i, j, es)
    BY <1>1 DEF Job, Steady
  <2>3. OnePath => \A es, m : OnItsWay(j, es, m)
    BY <1>1, <1>2 DEF Job, OnItsWay
  <2>. QED  BY <2>1, <2>2, <2>3
<1>4. CASE job[q].req.op # "rename"
  <2>. DEFINE j == [job[q] EXCEPT !.at = "reply"]
  <2>1. job' = [job EXCEPT ![q] = j]
    BY <1>4, WorkerEnds DEF AfterRead
  <2>2. \A es : Steady(i, j, es)
    BY <1>1 DEF Job, Steady
  <2>3. OnePath => \A es, m : OnItsWay(j, es, m)
    BY <1>1, <1>2 DEF Job, OnItsWay
  <2>. QED  BY <2>1, <2>2, <2>3
<1>. QED  BY <1>3, <1>4

LEMMA StatKeeps ==
    ASSUME Inv, WorkersOnly, NEW i \in Instance, Stat(Worker(i))
    PROVE  Elsewhere(i) /\ Good(i)'
<1>. DEFINE q == Worker(i)
<1>1. job[q] \in Job /\ job[q].i = i /\ Good(i) /\ job[q].at = "stat"
  BY WorkerAt DEF Stat, At, Pathless
<1>2. UNCHANGED <<entries, data, pending>>
  BY DEF Stat, cacheVars
<1>3. CASE AfterStat(q)
  BY <1>1, <1>2, <1>3, AfterStatKeeps, JobMoves
<1>4. CASE Fails(q)
  BY <1>1, <1>2, <1>4, FailsKeeps
<1>5. CASE Goto(q, [job[q] EXCEPT !.at = "import", !.c = store[job[q].p]])
  <2>. DEFINE j == [job[q] EXCEPT !.at = "import", !.c = store[job[q].p]]
  <2>1. Steady(i, j, entries[i])
    BY <1>1 DEF Job, Steady
  <2>2. OnePath => OnItsWay(j, entries[i], pending[i])
    BY <1>1 DEF Good, Job, OnItsWay
  <2>. QED  BY <1>2, <1>5, <2>1, <2>2, JobMoves DEF Goto
<1>. QED  BY <1>3, <1>4, <1>5 DEF Stat

LEMMA ImportMetaKeeps ==
    ASSUME Inv, WorkersOnly, NEW i \in Instance, ImportMeta(Worker(i))
    PROVE  Elsewhere(i) /\ Good(i)'
<1>. DEFINE q == Worker(i)
            j == job[q]
<1>1. /\ j \in Job /\ j.i = i /\ j.p \in Path /\ Good(i)
      /\ Mine(q) = entries[i][j.p] /\ entries[i][j.p] \in Entry \cup {None}
      /\ OnePath /\ j.req.op \in {"write", "delete"} => j.req.p = j.p
  BY WorkerAt DEF ImportMeta, At, Pathless
<1>2. PICK n : /\ job' = [job EXCEPT ![q] = n]
               /\ \A es : Steady(i, n, es)
               /\ OnePath => \A es, m : OnItsWay(n, es, m)
  BY AfterStatKeeps DEF ImportMeta, At
<1>3. entries' = [entries EXCEPT ![i][j.p] = Import(j.c)]
  BY <1>1 DEF ImportMeta, SetEntry
<1>4. entries'[i][j.p] = Import(j.c)
  BY <1>1, <1>3, PutAt, Typed DEF Inv
<1>5. \A d, m : KeepsFile(entries'[i][j.p], d, m)
  BY <1>4 DEF KeepsFile, Dirty, Import
<1>6. UNCHANGED <<data, pending>>
  BY DEF ImportMeta
<1>. QED  BY <1>1, <1>2, <1>3, <1>4, <1>5, <1>6, PathMoves

LEMMA ReadRangeKeeps ==
    ASSUME Inv, WorkersOnly, NEW i \in Instance, ReadRange(Worker(i))
    PROVE  Elsewhere(i) /\ Good(i)'
<1>. DEFINE q == Worker(i)
<1>1. /\ job[q] \in Job /\ job[q].i = i /\ Good(i) /\ job[q].at = "read"
      /\ Mine(q) = entries[i][job[q].p]
  BY WorkerAt DEF ReadRange, At, Pathless
<1>2. UNCHANGED <<entries, data, pending>>
  BY DEF ReadRange, cacheVars
<1>3. CASE AfterRead(q, data[job[q].i][job[q].p])
  BY <1>1, <1>2, <1>3, AfterReadKeeps, JobMoves
<1>4. CASE Fails(q)
  BY <1>1, <1>2, <1>4, FailsKeeps
<1>5. CASE ~Serves(Mine(q)) /\ Goto(q, [job[q] EXCEPT !.at = "fill", !.d = store[job[q].p]])
  <2>. DEFINE j == [job[q] EXCEPT !.at = "fill", !.d = store[job[q].p]]
  <2>1. Steady(i, j, entries[i])
    BY <1>1, <1>5 DEF Job, Steady, Serves, Dirty
  <2>2. OnePath => OnItsWay(j, entries[i], pending[i])
    BY <1>1 DEF Good, Job, OnItsWay
  <2>. QED  BY <1>2, <1>5, <2>1, <2>2, JobMoves DEF Goto
<1>. QED  BY <1>3, <1>4, <1>5 DEF ReadRange

LEMMA FillCacheKeeps ==
    ASSUME Inv, WorkersOnly, NEW i \in Instance, FillCache(Worker(i))
    PROVE  Elsewhere(i) /\ Good(i)'
<1>. DEFINE q == Worker(i)
            j == job[q]
<1>1. /\ j \in Job /\ j.i = i /\ j.p \in Path /\ Good(i)
      /\ Mine(q) = entries[i][j.p] /\ entries[i][j.p] \in Entry \cup {None}
      /\ OnePath /\ j.req.op \in {"write", "delete"} => j.req.p = j.p
  BY WorkerAt DEF FillCache, At, Pathless
<1>2. CASE Mine(q) = None
  BY <1>2, FailsKeeps DEF FillCache, At
<1>3. CASE Mine(q) # None
  <2>1. PICK n : /\ job' = [job EXCEPT ![q] = n]
                 /\ \A es : Steady(i, n, es)
                 /\ OnePath => \A es, m : OnItsWay(n, es, m)
    BY <1>3, AfterReadKeeps DEF FillCache, At
  <2>2. entries' = [entries EXCEPT ![i][j.p] = [entries[i][j.p] EXCEPT !.cached = TRUE]]
    BY <1>1, <1>3 DEF FillCache, SetEntry
  <2>3. entries'[i][j.p] = [entries[i][j.p] EXCEPT !.cached = TRUE]
    <3>1. entries \in [Instance -> [Path -> Entry \cup {None}]] /\ j.p \in Path
      BY <1>1, Typed DEF Inv
    <3>. HIDE DEF j
    <3>. QED  BY <2>2, <3>1
  <2>4. data' = [data EXCEPT ![i][j.p] = j.d]
    BY <1>1, <1>3 DEF FillCache, SetData
  <2>5. data'[i][j.p] = j.d
    BY <1>1, <2>4, PutAt, Typed DEF Inv
  <2>6. ~Dirty(entries[i][j.p])
    BY <1>1 DEF Good, Steady, FillCache, At
  <2>7. ~Dirty(entries'[i][j.p])
    BY <1>1, <1>3, <2>3, <2>6 DEF Dirty, Entry
  <2>8. \A d, m : KeepsFile(entries'[i][j.p], d, m)
    BY <2>7 DEF KeepsFile
  <2>. QED  BY <1>1, <2>1, <2>2, <2>3, <2>4, <2>5, <2>8, PathMoves DEF FillCache
<1>. QED  BY <1>2, <1>3

LEMMA WriteHeadKeeps ==
    ASSUME Inv, WorkersOnly, NEW i \in Instance, WriteHead(Worker(i))
    PROVE  Elsewhere(i) /\ Good(i)'
<1>. DEFINE q == Worker(i)
            j == job[q]
<1>1. /\ j \in Job /\ j.i = i /\ j.p \in Path /\ Good(i)
      /\ Mine(q) = entries[i][j.p] /\ entries[i][j.p] \in Entry \cup {None}
      /\ OnePath /\ j.req.op \in {"write", "delete"} => j.req.p = j.p
  BY WorkerAt DEF WriteHead, At, Pathless
<1>. DEFINE new == [job[q] EXCEPT !.at = "put", !.c = store[job[q].p]]
<1>2. job' = [job EXCEPT ![q] = new]
  BY DEF WriteHead, Goto, Onward
<1>3. Steady(i, new, entries[i])
  BY <1>1 DEF WriteHead, At, Job, Good, Steady
<1>4. OnePath => OnItsWay(new, entries[i], pending[i])
  BY <1>1 DEF WriteHead, At, Job, Good, OnItsWay
<1>. QED  BY <1>2, <1>3, <1>4, JobMoves DEF WriteHead, cacheVars

LEMMA WritePutKeeps ==
    ASSUME Inv, WorkersOnly, NEW i \in Instance, WritePut(Worker(i))
    PROVE  Elsewhere(i) /\ Good(i)'
<1>. DEFINE q == Worker(i)
            j == job[q]
<1>1. /\ j \in Job /\ j.i = i /\ j.p \in Path /\ Good(i)
      /\ Mine(q) = entries[i][j.p] /\ entries[i][j.p] \in Entry \cup {None}
      /\ OnePath /\ j.req.op \in {"write", "delete"} => j.req.p = j.p
  BY WorkerAt DEF WritePut, At, Pathless
<1>. DEFINE new == AfterWrite(job[q])
<1>2. job' = [job EXCEPT ![q] = new]
  BY <1>1 DEF WritePut, Goto, Onward, AfterWrite
<1>3. entries' = [entries EXCEPT ![i][j.p] = Written(j.c)]
  BY <1>1 DEF WritePut, SetEntry
<1>4. entries'[i][j.p] = Written(j.c)
  BY <1>1, <1>3, PutAt, Typed DEF Inv
<1>5. data' = [data EXCEPT ![i][j.p] = j.d]
  BY <1>1 DEF WritePut, SetData
<1>6. data'[i][j.p] = j.d
  BY <1>1, <1>5, PutAt, Typed DEF Inv
<1>7. pending' = [pending EXCEPT ![i][j.p] = j.d]
  BY <1>1 DEF WritePut, SetPending, Exported
<1>8. pending'[i][j.p] = j.d
  BY <1>1, <1>7, PutAt, Typed DEF Inv
<1>9. Dirty(entries'[i][j.p]) /\ ~entries'[i][j.p].deleted
  BY <1>1, <1>4, WrittenFacts DEF Job
<1>10. KeepsFile(entries'[i][j.p], data'[i][j.p], pending'[i][j.p])
  BY <1>6, <1>8, <1>9 DEF KeepsFile
<1>11. Steady(i, new, entries'[i])
  BY <1>1 DEF Job, Steady, AfterWrite
<1>12. OnePath => OnItsWay(new, entries'[i], pending'[i])
  BY <1>1, <1>9 DEF Job, OnItsWay, AfterWrite
<1>. QED  BY <1>1, <1>2, <1>3, <1>4, <1>5, <1>6, <1>7, <1>8, <1>10, <1>11, <1>12, PathMoves

LEMMA DeletePathKeeps ==
    ASSUME Inv, WorkersOnly, NEW i \in Instance, DeletePath(Worker(i))
    PROVE  Elsewhere(i) /\ Good(i)'
<1>. DEFINE q == Worker(i)
            j == job[q]
<1>1. /\ j \in Job /\ j.i = i /\ j.p \in Path /\ Good(i)
      /\ Mine(q) = entries[i][j.p] /\ entries[i][j.p] \in Entry \cup {None}
      /\ OnePath /\ j.req.op \in {"write", "delete"} => j.req.p = j.p
  BY WorkerAt DEF DeletePath, At, Pathless
<1>. DEFINE new == [job[q] EXCEPT !.at = "scan"]
<1>2. job' = [job EXCEPT ![q] = new]
  BY <1>1 DEF DeletePath, Goto, Onward
<1>3. entries' = [entries EXCEPT ![i][j.p] = Tombstone(entries[i][j.p])]
  BY <1>1 DEF DeletePath, SetEntry
<1>4. entries'[i][j.p] = Tombstone(entries[i][j.p])
  BY <1>1, <1>3, PutAt, Typed DEF Inv
<1>5. pending' = [pending EXCEPT ![i][j.p] = Gone]
  BY <1>1 DEF DeletePath, SetPending, Exported
<1>6. pending'[i][j.p] = Gone
  BY <1>1, <1>5, PutAt, Typed DEF Inv
<1>7. Dirty(entries'[i][j.p]) /\ entries'[i][j.p].deleted
  BY <1>1, <1>4, TombstoneFacts
<1>8. KeepsFile(entries'[i][j.p], data'[i][j.p], pending'[i][j.p])
  BY <1>6, <1>7 DEF KeepsFile
<1>9. Steady(i, new, entries'[i])
  BY <1>1 DEF Job, Steady
<1>10. OnePath => OnItsWay(new, entries'[i], pending'[i])
  BY <1>1, <1>7 DEF Job, OnItsWay
<1>. QED  BY <1>1, <1>2, <1>3, <1>4, <1>5, <1>6, <1>8, <1>9, <1>10, PathMoves DEF DeletePath

LEMMA FlushScanKeeps ==
    ASSUME Inv, WorkersOnly, NEW i \in Instance, FlushScan(Worker(i))
    PROVE  Elsewhere(i) /\ Good(i)'
<1>. DEFINE q == Worker(i)
            j == job[q]
            due == {p \in Path : Dirty(entries[i][p])}
            new == [j EXCEPT !.at = "next", !.ok = FALSE, !.err = "none", !.c = None, !.d = None, !.todo = due]
<1>1. q \in Process /\ j \in Job /\ j \in GoodJob /\ Good(i) /\ j.at = "scan"
  BY Workers, JobFacts DEF Inv, FlushScan, At
<1>2. j.i = i
  BY <1>1 DEF Good, Steady
<1>3. job' = [job EXCEPT ![q] = new]
  BY <1>2 DEF FlushScan, Goto, Dirty
<1>4. Steady(i, new, entries[i])
  BY <1>1, <1>2 DEF Job, Steady
<1>5. j.req.op \in {"write", "delete"} => j.req.p \in Path
  BY <1>1 DEF GoodJob, Sound, Asks
<1>6. OnePath => OnItsWay(new, entries[i], pending[i])
  BY <1>1, <1>5 DEF Job, Good, OnItsWay
<1>. QED  BY <1>3, <1>4, <1>6, JobMoves DEF FlushScan, cacheVars

LEMMA FlushPathKeeps ==
    ASSUME Inv, WorkersOnly, NEW i \in Instance, FlushPath(Worker(i))
    PROVE  Elsewhere(i) /\ Good(i)'
<1>. DEFINE q == Worker(i)
            j == job[q]
<1>1. q \in Process /\ j \in Job /\ j \in GoodJob /\ Good(i) /\ j.at = "next"
  BY Workers, JobFacts DEF Inv, FlushPath, At
<1>2. j.i = i
  BY <1>1 DEF Good, Steady
<1>3. PICK p \in j.todo :
        LET e == entries[i][p]
            n == [j EXCEPT !.todo = @ \ {p}, !.p = p]
        IN Goto(q, IF e = None \/ Clean(e) THEN [n EXCEPT !.ok = TRUE]
                   ELSE [n EXCEPT !.e = e, !.at = IF e.deleted THEN "expunge" ELSE "compare"])
  BY <1>2 DEF FlushPath
<1>. DEFINE e == entries[i][p]
            n == [j EXCEPT !.todo = @ \ {p}, !.p = p]
            flush == [n EXCEPT !.e = e, !.at = IF e.deleted THEN "expunge" ELSE "compare"]
<1>4. p \in Path /\ j.todo \subseteq Path /\ n \in Job
  BY <1>1, <1>3 DEF Job
<1>5. OnePath => j.todo = {p}
  BY <1>4 DEF OnePath
<1>6. UNCHANGED <<entries, data, pending>>
  BY DEF FlushPath, cacheVars
<1>7. j.req.op \in {"write", "delete"} => j.req.p \in Path
  BY <1>1 DEF GoodJob, Sound, Asks
<1>8. OnePath /\ j.req.op \in {"write", "delete"} => j.req.p = p /\ n.todo = {} /\ Dirty(e) /\ ~j.ok
  BY <1>1, <1>4, <1>5, <1>7 DEF OnePath, Good, OnItsWay, Job
<1>9. CASE e = None \/ Clean(e)
  <2>1. job' = [job EXCEPT ![q] = [n EXCEPT !.ok = TRUE]]
    BY <1>3, <1>9 DEF Goto
  <2>2. Steady(i, [n EXCEPT !.ok = TRUE], entries[i])
    BY <1>1, <1>2, <1>4 DEF Job, Steady
  <2>3. OnePath => j.req.op \notin {"write", "delete"}
    BY <1>8, <1>9 DEF Dirty, Clean
  <2>4. OnePath => OnItsWay([n EXCEPT !.ok = TRUE], entries[i], pending[i])
    BY <1>4, <2>3 DEF Job, OnItsWay
  <2>. QED  BY <1>6, <2>1, <2>2, <2>4, JobMoves
<1>10. CASE ~(e = None \/ Clean(e))
  <2>1. job' = [job EXCEPT ![q] = flush]
    BY <1>3, <1>10 DEF Goto
  <2>2. Dirty(e)
    BY <1>10 DEF Dirty, Clean
  <2>3. /\ flush.at = (IF e.deleted THEN "expunge" ELSE "compare") /\ flush.i = i /\ flush.p = p
        /\ flush.req = j.req /\ flush.todo = n.todo /\ flush.ok = j.ok
    BY <1>1, <1>2, <1>4 DEF Job
  <2>. HIDE DEF flush, n
  <2>4. Steady(i, flush, entries[i])
    BY <2>2, <2>3 DEF Steady
  <2>5. OnePath => OnItsWay(flush, entries[i], pending[i])
    BY <1>8, <2>3 DEF OnItsWay
  <2>. QED  BY <1>6, <2>1, <2>4, <2>5, JobMoves
<1>. QED  BY <1>9, <1>10

LEMMA FlushEndKeeps ==
    ASSUME Inv, WorkersOnly, NEW i \in Instance, FlushEnd(Worker(i))
    PROVE  Elsewhere(i) /\ Good(i)'
<1>. DEFINE q == Worker(i)
            j == job[q]
            new == [[j EXCEPT !.err = IF j.ok THEN "none" ELSE @] EXCEPT !.at = "reply"]
<1>1. j \in Job /\ Good(i) /\ j.at = "next" /\ j.todo = {}
  BY Workers, JobFacts DEF Inv, FlushEnd, At
<1>2. job' = [job EXCEPT ![q] = new]
  BY WorkerEnds DEF FlushEnd
<1>3. Steady(i, new, entries[i])
  BY <1>1 DEF Job, Good, Steady
<1>4. OnePath => OnItsWay(new, entries[i], pending[i])
  BY <1>1 DEF Job, Good, OnItsWay
<1>. QED  BY <1>2, <1>3, <1>4, JobMoves DEF FlushEnd, cacheVars

LEMMA FlushCompareKeeps ==
    ASSUME Inv, WorkersOnly, NEW i \in Instance, FlushCompare(Worker(i))
    PROVE  Elsewhere(i) /\ Good(i)'
<1>. DEFINE q == Worker(i)
            j == job[q]
<1>1. /\ j \in Job /\ j.i = i /\ j.p \in Path /\ Good(i)
      /\ Mine(q) = entries[i][j.p] /\ entries[i][j.p] \in Entry \cup {None}
      /\ OnePath /\ j.req.op \in {"write", "delete"} => j.req.p = j.p
  BY WorkerAt DEF FlushCompare, At, Pathless
<1>2. UNCHANGED <<entries, data, pending>>
  BY DEF FlushCompare, cacheVars
<1>3. CASE Goto(q, [job[q] EXCEPT !.at = "lose", !.e = None, !.c = store[job[q].p]])
  <2>. DEFINE new == [job[q] EXCEPT !.at = "lose", !.e = None, !.c = store[job[q].p]]
  <2>1. Steady(i, new, entries[i])
    BY <1>1 DEF FlushCompare, At, Job, Good, Steady
  <2>2. OnePath => OnItsWay(new, entries[i], pending[i])
    BY <1>1 DEF FlushCompare, At, Job, Good, OnItsWay
  <2>. QED  BY <1>2, <1>3, <2>1, <2>2, JobMoves DEF Goto
<1>4. CASE Goto(q, [job[q] EXCEPT !.at = "export", !.e = None])
  <2>. DEFINE new == [job[q] EXCEPT !.at = "export", !.e = None]
  <2>1. Steady(i, new, entries[i])
    BY <1>1 DEF FlushCompare, At, Job, Good, Steady
  <2>2. OnePath => OnItsWay(new, entries[i], pending[i])
    BY <1>1 DEF FlushCompare, At, Job, Good, OnItsWay
  <2>. QED  BY <1>2, <1>4, <2>1, <2>2, JobMoves DEF Goto
<1>. QED  BY <1>3, <1>4 DEF FlushCompare

LEMMA MissedKeeps ==
    ASSUME Inv, WorkersOnly, NEW i \in Instance, NEW why \in {"notfound", "conflict"},
           job[Worker(i)].at \in {"compare", "lose", "export", "tag", "clean"}
    PROVE  \A es, m : /\ Steady(i, Missed(Worker(i), why), es)
                      /\ OnePath => OnItsWay(Missed(Worker(i), why), es, m)
<1>. DEFINE j == job[Worker(i)]
            new == Missed(Worker(i), why)
<1>1. j \in Job /\ j.i = i /\ Good(i)
  BY WorkerAt DEF Pathless
<1>2. /\ new.at = "next" /\ new.err = why /\ new.i = i /\ new.req = j.req
      /\ new.todo = j.todo /\ new.ok = j.ok
  BY <1>1 DEF Missed, Job
<1>3. OnePath /\ j.req.op \in {"write", "delete"} => j.todo = {} /\ ~j.ok
  BY <1>1 DEF Good, OnItsWay
<1>. HIDE DEF new, j
<1>4. \A es : Steady(i, new, es)
  BY <1>2 DEF Steady
<1>5. OnePath => \A es, m : OnItsWay(new, es, m)
  BY <1>2, <1>3 DEF OnItsWay
<1>. QED  BY <1>4, <1>5 DEF new

LEMMA FlushConflictKeeps ==
    ASSUME Inv, WorkersOnly, NEW i \in Instance, FlushConflict(Worker(i))
    PROVE  Elsewhere(i) /\ Good(i)'
<1>. DEFINE q == Worker(i)
            j == job[q]
<1>1. /\ j \in Job /\ j.i = i /\ j.p \in Path /\ Good(i)
      /\ Mine(q) = entries[i][j.p] /\ entries[i][j.p] \in Entry \cup {None}
      /\ OnePath /\ j.req.op \in {"write", "delete"} => j.req.p = j.p
  BY WorkerAt DEF FlushConflict, At, Pathless
<1>2. CASE UNCHANGED cacheVars /\ Goto(q, Missed(q, "notfound"))
  BY <1>2, MissedKeeps, JobMoves DEF FlushConflict, At, Goto, cacheVars
<1>3. CASE /\ SetEntry(q, Import(job[q].c)) /\ SetData(q, None)
           /\ Goto(q, Missed(q, "conflict"))
  <2>1. entries' = [entries EXCEPT ![i][j.p] = Import(j.c)] /\ data' = [data EXCEPT ![i][j.p] = None]
    BY <1>1, <1>3 DEF SetEntry, SetData
  <2>2. entries'[i][j.p] = Import(j.c) /\ data'[i][j.p] = None
    BY <1>1, <2>1, PutAt, Typed DEF Inv
  <2>3. \A d, m : KeepsFile(entries'[i][j.p], d, m)
    BY <2>2 DEF KeepsFile, Dirty, Import
  <2>4. job' = [job EXCEPT ![q] = Missed(q, "conflict")]
    BY <1>3 DEF Goto
  <2>5. /\ Steady(i, Missed(q, "conflict"), entries'[i])
        /\ OnePath => OnItsWay(Missed(q, "conflict"), entries'[i], pending'[i])
    BY MissedKeeps DEF FlushConflict, At
  <2>6. UNCHANGED pending
    BY DEF FlushConflict
  <2>. QED  BY <1>1, <2>1, <2>2, <2>3, <2>4, <2>5, <2>6, PathMoves
<1>. QED  BY <1>2, <1>3 DEF FlushConflict

LEMMA FlushWriteKeeps ==
    ASSUME Inv, WorkersOnly, NEW i \in Instance, FlushWrite(Worker(i))
    PROVE  Elsewhere(i) /\ Good(i)'
<1>. DEFINE q == Worker(i)
            j == job[q]
<1>1. /\ j \in Job /\ j.i = i /\ j.p \in Path /\ Good(i)
      /\ Mine(q) = entries[i][j.p] /\ entries[i][j.p] \in Entry \cup {None}
      /\ OnePath /\ j.req.op \in {"write", "delete"} => j.req.p = j.p
  BY WorkerAt DEF FlushWrite, At, Pathless
<1>. DEFINE d == data[i][j.p]
            new == [j EXCEPT !.at = "tag"]
<1>2. UNCHANGED <<entries, data>>
  BY DEF FlushWrite, cacheVars
<1>3. CASE Goto(q, Missed(q, "notfound")) /\ UNCHANGED pending
  BY <1>2, <1>3, MissedKeeps, JobMoves DEF FlushWrite, At, Goto
<1>4. CASE Exported(q, d) /\ Onward(q, "tag")
  <2>1. job' = [job EXCEPT ![q] = new]
    BY <1>4 DEF Onward, Goto
  <2>2. pending' = [pending EXCEPT ![i][j.p] = IF pending[i][j.p] = d THEN None ELSE pending[i][j.p]]
    BY <1>1, <1>4 DEF Exported
  <2>3. pending'[i][j.p] = IF pending[i][j.p] = d THEN None ELSE pending[i][j.p]
    BY <1>1, <2>2, PutAt, Typed DEF Inv
  <2>4. KeepsFile(entries[i][j.p], d, pending[i][j.p]) /\ Dirty(entries[i][j.p]) /\ ~entries[i][j.p].deleted
    BY <1>1 DEF Good, Steady, FlushWrite, At
  <2>5. pending'[i][j.p] = None
    BY <2>3, <2>4 DEF KeepsFile
  <2>6. KeepsFile(entries'[i][j.p], data'[i][j.p], pending'[i][j.p])
    BY <2>5 DEF KeepsFile
  <2>7. Steady(i, new, entries'[i])
    BY <1>1, <1>2, <2>4 DEF Job, Steady
  <2>8. OnePath => OnItsWay(new, entries'[i], pending'[i])
    BY <1>1, <2>5 DEF Job, Good, OnItsWay, FlushWrite, At
  <2>. QED  BY <1>1, <1>2, <2>1, <2>2, <2>3, <2>6, <2>7, <2>8, PathMoves
<1>. QED  BY <1>1, <1>3, <1>4 DEF FlushWrite

LEMMA FlushTagKeeps ==
    ASSUME Inv, WorkersOnly, NEW i \in Instance, FlushTag(Worker(i))
    PROVE  Elsewhere(i) /\ Good(i)'
<1>. DEFINE q == Worker(i)
            j == job[q]
<1>1. /\ j \in Job /\ j.i = i /\ j.p \in Path /\ Good(i)
      /\ Mine(q) = entries[i][j.p] /\ entries[i][j.p] \in Entry \cup {None}
      /\ OnePath /\ j.req.op \in {"write", "delete"} => j.req.p = j.p
  BY WorkerAt DEF FlushTag, At, Pathless
<1>2. UNCHANGED <<entries, data, pending>>
  BY DEF FlushTag, cacheVars
<1>3. CASE Goto(q, [job[q] EXCEPT !.at = "clean", !.c = store[job[q].p]])
  <2>. DEFINE new == [job[q] EXCEPT !.at = "clean", !.c = store[job[q].p]]
  <2>1. Steady(i, new, entries[i])
    BY <1>1 DEF FlushTag, At, Job, Good, Steady
  <2>2. OnePath => OnItsWay(new, entries[i], pending[i])
    BY <1>1 DEF FlushTag, At, Job, Good, OnItsWay
  <2>. QED  BY <1>2, <1>3, <2>1, <2>2, JobMoves DEF Goto
<1>. QED  BY <1>3 DEF FlushTag

LEMMA ThroughKeeps ==
    ASSUME Inv, WorkersOnly, NEW i \in Instance, job[Worker(i)].at \in {"clean", "forget"}
    PROVE  /\ \A es : Steady(i, Through(Worker(i)), es)
           /\ OnePath => \A es : OnItsWay(Through(Worker(i)), es, pending[i])
<1>. DEFINE j == job[Worker(i)]
            new == Through(Worker(i))
<1>1. j \in Job /\ j.i = i /\ Good(i)
  BY WorkerAt DEF Pathless
<1>2. /\ new.at = "next" /\ new.i = i /\ new.req = j.req /\ new.todo = j.todo /\ new.ok
  BY <1>1 DEF Through, Job
<1>3. OnePath /\ j.req.op \in {"write", "delete"} => j.todo = {} /\ pending[i][j.req.p] = None
  BY <1>1 DEF Good, OnItsWay
<1>. HIDE DEF new, j
<1>4. \A es : Steady(i, new, es)
  BY <1>2 DEF Steady
<1>5. OnePath => \A es : OnItsWay(new, es, pending[i])
  BY <1>2, <1>3 DEF OnItsWay
<1>. QED  BY <1>4, <1>5 DEF new

LEMMA MarkCleanKeeps ==
    ASSUME Inv, WorkersOnly, NEW i \in Instance, MarkClean(Worker(i))
    PROVE  Elsewhere(i) /\ Good(i)'
<1>. DEFINE q == Worker(i)
            j == job[q]
<1>1. /\ j \in Job /\ j.i = i /\ j.p \in Path /\ Good(i)
      /\ Mine(q) = entries[i][j.p] /\ entries[i][j.p] \in Entry \cup {None}
      /\ OnePath /\ j.req.op \in {"write", "delete"} => j.req.p = j.p
  BY WorkerAt DEF MarkClean, At, Pathless
<1>2. Dirty(entries[i][j.p])
  BY <1>1 DEF Good, Steady, MarkClean, At
<1>3. /\ entries' = [entries EXCEPT ![i][j.p] = Cleaned(entries[i][j.p], j.c)]
      /\ job' = [job EXCEPT ![q] = Through(q)]
  BY <1>1, <1>2 DEF MarkClean, SetEntry, Goto, Dirty
<1>4. entries'[i][j.p] = Cleaned(entries[i][j.p], j.c)
  BY <1>1, <1>3, PutAt, Typed DEF Inv
<1>5. ~Cleaned(entries[i][j.p], j.c).dirty
  BY <1>1, <1>2 DEF Cleaned, Dirty, Entry
<1>6. \A d, m : KeepsFile(entries'[i][j.p], d, m)
  BY <1>4, <1>5 DEF KeepsFile, Dirty
<1>7. UNCHANGED <<data, pending>>
  BY DEF MarkClean
<1>8. /\ Steady(i, Through(q), entries'[i])
      /\ OnePath => OnItsWay(Through(q), entries'[i], pending[i])
  BY ThroughKeeps DEF MarkClean, At
<1>. QED  BY <1>1, <1>3, <1>4, <1>6, <1>7, <1>8, PathMoves

LEMMA FlushDeleteKeeps ==
    ASSUME Inv, WorkersOnly, NEW i \in Instance, FlushDelete(Worker(i))
    PROVE  Elsewhere(i) /\ Good(i)'
<1>. DEFINE q == Worker(i)
            j == job[q]
<1>1. /\ j \in Job /\ j.i = i /\ j.p \in Path /\ Good(i)
      /\ Mine(q) = entries[i][j.p] /\ entries[i][j.p] \in Entry \cup {None}
      /\ OnePath /\ j.req.op \in {"write", "delete"} => j.req.p = j.p
  BY WorkerAt DEF FlushDelete, At, Pathless
<1>. DEFINE new == [j EXCEPT !.at = "forget"]
<1>2. job' = [job EXCEPT ![q] = new] /\ UNCHANGED <<entries, data>>
  BY DEF FlushDelete, Onward, Goto, cacheVars
<1>3. pending' = [pending EXCEPT ![i][j.p] = IF pending[i][j.p] = Gone THEN None ELSE pending[i][j.p]]
  BY <1>1 DEF FlushDelete, Exported
<1>4. pending'[i][j.p] = IF pending[i][j.p] = Gone THEN None ELSE pending[i][j.p]
  BY <1>1, <1>3, PutAt, Typed DEF Inv
<1>5. KeepsFile(entries[i][j.p], data[i][j.p], pending[i][j.p]) /\ Dirty(entries[i][j.p]) /\ entries[i][j.p].deleted
  BY <1>1 DEF Good, Steady, FlushDelete, At
<1>6. pending'[i][j.p] = None
  BY <1>4, <1>5 DEF KeepsFile
<1>7. KeepsFile(entries'[i][j.p], data'[i][j.p], pending'[i][j.p])
  BY <1>6 DEF KeepsFile
<1>8. Steady(i, new, entries'[i])
  BY <1>1, <1>2, <1>5 DEF Job, Steady
<1>9. OnePath => OnItsWay(new, entries'[i], pending'[i])
  BY <1>1, <1>6 DEF Job, Good, OnItsWay, FlushDelete, At
<1>. QED  BY <1>1, <1>2, <1>3, <1>4, <1>7, <1>8, <1>9, PathMoves

LEMMA RemoveEntryKeeps ==
    ASSUME Inv, WorkersOnly, NEW i \in Instance, RemoveEntry(Worker(i))
    PROVE  Elsewhere(i) /\ Good(i)'
<1>. DEFINE q == Worker(i)
            j == job[q]
<1>1. /\ j \in Job /\ j.i = i /\ j.p \in Path /\ Good(i)
      /\ Mine(q) = entries[i][j.p] /\ entries[i][j.p] \in Entry \cup {None}
      /\ OnePath /\ j.req.op \in {"write", "delete"} => j.req.p = j.p
  BY WorkerAt DEF RemoveEntry, At, Pathless
<1>2. entries' = [entries EXCEPT ![i][j.p] = None] /\ data' = [data EXCEPT ![i][j.p] = None]
  BY <1>1 DEF RemoveEntry, SetEntry, SetData
<1>3. entries'[i][j.p] = None /\ data'[i][j.p] = None
  BY <1>1, <1>2, PutAt, Typed DEF Inv
<1>4. \A d, m : KeepsFile(entries'[i][j.p], d, m)
  BY <1>3 DEF KeepsFile, Dirty
<1>5. job' = [job EXCEPT ![q] = Through(q)] /\ UNCHANGED pending
  BY DEF RemoveEntry, Goto
<1>6. /\ Steady(i, Through(q), entries'[i])
      /\ OnePath => OnItsWay(Through(q), entries'[i], pending[i])
  BY ThroughKeeps DEF RemoveEntry, At
<1>. QED  BY <1>1, <1>2, <1>3, <1>4, <1>5, <1>6, PathMoves

LEMMA ProceedsKeeps ==
    ASSUME Inv, WorkersOnly, NEW i \in Instance, Proceeds(Worker(i))
    PROVE  Elsewhere(i) /\ Good(i)'
BY StatKeeps, ImportMetaKeeps, ReadRangeKeeps, FillCacheKeeps, WriteHeadKeeps, WritePutKeeps,
   DeletePathKeeps, FlushScanKeeps, FlushPathKeeps, FlushEndKeeps, FlushCompareKeeps,
   FlushConflictKeeps, FlushWriteKeeps, FlushTagKeeps, MarkCleanKeeps, FlushDeleteKeeps,
   RemoveEntryKeeps DEF Proceeds

-----------------------------------------------------------------------------
(* The invariant holds.                                                    *)

LEMMA WorkerStep == ASSUME Inv, WorkersOnly, NEW q \in Process, Proceeds(q) PROVE Inv'
<1>1. TypeInv'
  BY ProceedsType DEF Inv
<1>2. q[2] = "worker"
  <2>. SUFFICES ASSUME job[q].at = "idle" PROVE FALSE
    BY DEF Inv
  <2>. QED  BY DEF Proceeds, At, Stat, ImportMeta, ReadRange, FillCache, WriteHead, WritePut,
                   DeletePath, FlushScan, FlushPath, FlushEnd, FlushCompare, FlushConflict,
                   FlushWrite, FlushTag, MarkClean, FlushDelete, RemoveEntry
<1>3. PICK i \in Instance : q = Worker(i)
  BY <1>2, Workers
<1>4. Elsewhere(i) /\ Good(i)'
  BY <1>3, ProceedsKeeps
<1>5. UNCHANGED <<events, listener>>
  BY DEF Proceeds, Stat, ImportMeta, ReadRange, FillCache, WriteHead, WritePut, DeletePath,
         FlushScan, FlushPath, FlushEnd, FlushCompare, FlushConflict, FlushWrite, FlushTag,
         MarkClean, FlushDelete, RemoveEntry, natsVars, jobOnly
<1>6. ASSUME NEW k \in Instance, k # i PROVE Good(k)'
  <2>1. Worker(k) \in Process /\ Worker(k) # Worker(i) /\ Good(k)
    BY <1>6, Workers DEF Inv
  <2>2. /\ job'[Worker(k)] = job[Worker(k)] /\ entries'[k] = entries[k]
        /\ data'[k] = data[k] /\ pending'[k] = pending[k]
    BY <1>4, <1>6, <2>1 DEF Elsewhere
  <2>. QED  BY <2>1, <2>2 DEF Good
<1>7. \A r \in Process : r[2] # "worker" => job'[r].at = "idle"
  BY <1>4, Workers DEF Inv, Elsewhere
<1>. QED  BY <1>1, <1>4, <1>5, <1>6, <1>7 DEF Inv

(* A job that stops, or whose caller is gone.                              *)
LEMMA Cut ==
    ASSUME Inv, TypeInv', NEW cs,
           \A q \in Process : \/ job'[q] = Idle \/ job'[q] = job[q]
                             \/ job'[q] = [job[q] EXCEPT !.req = Forsaken(@, cs)],
           \A i \in Instance : events'[i] = <<>> /\ listener'[i] = <<>>,
           UNCHANGED <<entries, data, pending>>
    PROVE  Inv'
<1>1. ASSUME NEW q \in Process
      PROVE  \/ job'[q].at = "idle"
             \/ /\ job[q].at # "idle"
                /\ job'[q].at = job[q].at /\ job'[q].i = job[q].i /\ job'[q].p = job[q].p
                /\ job'[q].todo = job[q].todo /\ job'[q].ok = job[q].ok /\ job'[q].err = job[q].err
                /\ job'[q].req.op = job[q].req.op /\ job'[q].req.p = job[q].req.p
  <2>1. job[q] \in Job /\ job[q].req \in Request
    BY DEF Inv, TypeInv, TypeOK, Job
  <2>2. Forsaken(job[q].req, cs).op = job[q].req.op /\ Forsaken(job[q].req, cs).p = job[q].req.p
    BY <2>1 DEF Forsaken, Request
  <2>3. CASE job'[q] = Idle
    BY <2>3 DEF Idle, Start
  <2>4. CASE job'[q] = [job[q] EXCEPT !.req = Forsaken(@, cs)]
    BY <2>1, <2>2, <2>4 DEF Job
  <2>5. CASE job'[q] = job[q]
    BY <2>5
  <2>. QED  BY <2>3, <2>4, <2>5
<1>2. ASSUME NEW i \in Instance PROVE Good(i)'
  <2>1. Good(i) /\ Worker(i) \in Process
    BY Workers DEF Inv
  <2>. QED  BY <1>1, <2>1 DEF Good, Steady, OnItsWay
<1>3. \A q \in Process : q[2] # "worker" => job'[q].at = "idle"
  BY <1>1 DEF Inv
<1>. QED  BY <1>2, <1>3 DEF Inv

LEMMA Same ==
    ASSUME Inv, TypeInv', UNCHANGED <<entries, data, pending, job, events, listener>>
    PROVE  Inv'
BY DEF Inv, Good

LEMMA InstanceStep ==
    ASSUME Inv, TypeInv', WorkersOnly, NEW i \in Instance,
           Works(i) \/ Listens(i) \/ SyncTick(i) \/ Crash(i)
    PROVE  Inv'
<1>1. Worker(i) \in Process /\ Good(i) /\ events[i] = <<>> /\ listener[i] = <<>>
  BY Workers DEF Inv
<1>2. job \in [Process -> GoodJob]
  BY DEF Inv, TypeInv
<1>3. CASE TakeRequest(i)
  <2>. DEFINE req == Head(inbox[i])
              first == CASE req.op \in {"stat", "rename"} -> "stat"
                         [] req.op = "write" -> "head"
                         [] req.op = "delete" -> "tomb"
                         [] OTHER -> "scan"
              j == Start(first, i, req)
  <2>1. job' = [job EXCEPT ![Worker(i)] = j] /\ UNCHANGED <<entries, data, pending, events, listener>>
    BY <1>3 DEF TakeRequest, Goto, cacheVars
  <2>2. inbox[i] \in Seq(Wanted) /\ inbox[i] # <<>>
    BY <1>3, Tails DEF Inv, TakeRequest
  <2>3. req \in Request
    BY <2>2, HeadTailProperties DEF Wanted
  <2>4. j.at = first /\ j.i = i /\ j.req.op = req.op
    BY <2>3 DEF Start, Request
  <2>5. first \in {"stat", "head", "tomb", "scan"} /\ (req.op \in {"write", "delete"} => first \in {"head", "tomb"})
    OBVIOUS
  <2>. HIDE DEF first, req, j
  <2>6. Steady(i, j, entries[i])
    BY <2>4, <2>5 DEF Steady
  <2>7. OnItsWay(j, entries[i], pending[i])
    BY <2>4, <2>5 DEF OnItsWay
  <2>8. Elsewhere(i) /\ Good(i)'
    BY <2>1, <2>6, <2>7, JobMoves
  <2>9. \A k \in Instance : Good(k)'
    <3>1. ASSUME NEW k \in Instance, k # i PROVE Good(k)'
      BY <2>1, <2>8, <3>1, Workers DEF Inv, Elsewhere, Good
    <3>. QED  BY <2>8, <3>1
  <2>10. \A r \in Process : r[2] # "worker" => job'[r].at = "idle"
    BY <2>8, Workers DEF Inv, Elsewhere
  <2>. QED  BY <2>1, <2>9, <2>10 DEF Inv
<1>4. CASE PublishEvent(i)
  BY <1>1, <1>4 DEF PublishEvent, At, Good, Steady
<1>5. CASE Reply(i)
  <2>1. \A q \in Process : job'[q] = Idle \/ job'[q] = job[q]
    BY <1>2, <1>5 DEF Reply, Goto
  <2>2. UNCHANGED <<entries, data, pending, events, listener>>
    BY <1>5 DEF Reply, cacheVars, natsVars
  <2>. QED  BY <2>1, <2>2, Cut DEF Inv
<1>6. CASE Listens(i)
  BY <1>1, <1>6 DEF Listens, HearEvent, Invalidate
<1>7. CASE SyncTick(i)
  BY <1>7 DEF SyncTick, WorkersOnly
<1>8. CASE Crash(i)
  <2>. DEFINE cs == {c \in Client : client[c].at # "idle" /\ client[c].via = i}
  <2>1. \A q \in Process : job'[q] = Idle \/ job'[q] = [job[q] EXCEPT !.req = Forsaken(@, cs)]
    BY <1>8 DEF Crash
  <2>2. \A k \in Instance : events'[k] = <<>> /\ listener'[k] = <<>>
    BY <1>8, Tails DEF Inv, Crash
  <2>3. UNCHANGED <<entries, data, pending>>
    BY <1>8 DEF Crash, cacheVars
  <2>. HIDE DEF cs
  <2>. QED  BY <2>1, <2>2, <2>3, Cut
<1>. QED  BY <1>3, <1>4, <1>5, <1>6, <1>7, <1>8 DEF Works

LEMMA InvInit == Init => Inv
<1>. SUFFICES ASSUME Init PROVE Inv
  OBVIOUS
<1>1. \A q \in Process : job[q].at = "idle"
  BY DEF Init, Idle, Start
<1>2. ASSUME NEW i \in Instance PROVE Good(i)
  BY <1>1, Workers DEF Init, Good, Steady, OnItsWay, KeepsFile, Dirty
<1>. QED  BY <1>1, <1>2, TypeInit DEF Inv, Init

LEMMA InvNext == ASSUME WorkersOnly, Inv, [Next]_vars PROVE Inv'
<1>1. TypeInv'
  BY TypeNext DEF Inv
<1>2. ASSUME NEW c \in Client, Arrives(c) PROVE Inv'
  BY <1>1, <1>2, Same DEF Arrives, ReadLocally, Send, WorkersOnly, cacheVars
<1>3. ASSUME NEW c \in Client, GiveUp(c) PROVE Inv'
  <2>1. \A q \in Process : job'[q] = [job[q] EXCEPT !.req = Forsaken(@, {c})]
    BY <1>3 DEF GiveUp
  <2>2. UNCHANGED <<entries, data, pending, events, listener>>
    BY <1>3 DEF GiveUp, cacheVars
  <2>. QED  BY <1>1, <2>1, <2>2, Cut DEF Inv
<1>4. ASSUME NEW q \in Process, Proceeds(q) PROVE Inv'
  BY <1>4, WorkerStep
<1>5. ASSUME NEW i \in Instance, Works(i) \/ Listens(i) \/ SyncTick(i) \/ Crash(i) PROVE Inv'
  BY <1>1, <1>5, InstanceStep
<1>6. CASE UNCHANGED vars
  BY <1>1, <1>6, Same DEF vars, cacheVars, natsVars
<1>. QED  BY <1>2, <1>3, <1>4, <1>5, <1>6 DEF Next

(* With workers only, every step starts from an index in which what is     *)
(* pending for a dirty entry is what its export would do.                  *)
THEOREM WorkersInvariant == WorkersOnly => (Spec => []Inv)
<1>. SUFFICES ASSUME WorkersOnly PROVE Spec => []Inv
  OBVIOUS
<1>1. Inv /\ [Next]_vars => Inv'
  BY InvNext
<1>. QED  BY InvInit, <1>1, PTL DEF Spec

(* With workers only and one path, a write or delete that is answered with *)
(* success is in the bucket (execute_work), however many servers, clients, *)
(* timeouts and restarts there are.                                        *)
THEOREM AnswersAreExported == WorkersOnly /\ OnePath => (Spec => []AckedExported)
<1>1. ASSUME OnePath, Inv PROVE AckedExported
  <2>. SUFFICES ASSUME NEW i \in Instance, job[Worker(i)].at \in {"publish", "reply"},
                       job[Worker(i)].err = "none", job[Worker(i)].req.op \in {"write", "delete"}
                PROVE  pending[i][job[Worker(i)].req.p] = None
    BY DEF AckedExported
  <2>1. Good(i)
    BY <1>1 DEF Inv
  <2>. QED  BY <1>1, <2>1 DEF Good, Steady, OnItsWay
<1>2. SUFFICES ASSUME OnePath PROVE WorkersOnly => (Spec => []AckedExported)
  OBVIOUS
<1>3. Inv => AckedExported
  BY <1>1, <1>2
<1>. QED  BY <1>3, WorkersInvariant, PTL

(* With workers only, a conflict sets aside the write that is not exported *)
(* yet, or what an instance exported before it went down, and nothing else *)
(* (flush_path, move_to_lost_found).                                       *)
THEOREM LostIsPending == WorkersOnly => (Spec => LostIsTheWrite)
<1>. SUFFICES ASSUME WorkersOnly PROVE Spec => LostIsTheWrite
  OBVIOUS
<1>. DEFINE Saved == \A q \in Process : FlushConflict(q) =>
                \A i \in Instance : \A d \in lost'[i] \ lost[i] : pending[i][d[1]] \in {None, d[2]}
<1>1. ASSUME Inv PROVE Saved
  <2>. SUFFICES ASSUME NEW q \in Process, FlushConflict(q), NEW k \in Instance, NEW d \in lost'[k] \ lost[k]
                PROVE  pending[k][d[1]] \in {None, d[2]}
    OBVIOUS
  <2>1. q[2] = "worker"
    BY <1>1 DEF Inv, FlushConflict, At
  <2>2. PICK i \in Instance : q = Worker(i)
    BY <2>1, Workers
  <2>. DEFINE j == job[q]
  <2>3. j.i = i /\ j.p \in Path /\ Good(i)
    BY <1>1, <2>2, WorkerAt DEF FlushConflict, At, Pathless
  <2>4. lost' = [lost EXCEPT ![i] = @ \cup {<<j.p, data[i][j.p]>>}] \/ lost' = lost
    BY <2>3 DEF FlushConflict, SetAside, cacheVars
  <2>5. k = i /\ d = <<j.p, data[i][j.p]>>
    BY <1>1, <2>4, Typed DEF Inv
  <2>6. KeepsFile(entries[i][j.p], data[i][j.p], pending[i][j.p]) /\ Dirty(entries[i][j.p])
        /\ ~entries[i][j.p].deleted
    BY <2>2, <2>3 DEF Good, Steady, FlushConflict, At
  <2>. QED  BY <2>5, <2>6 DEF KeepsFile
<1>2. Inv => [Saved]_vars
  BY <1>1
<1>. QED  BY <1>2, WorkersInvariant, PTL DEF LostIsTheWrite

-----------------------------------------------------------------------------
(***************************************************************************)
(* What patient clients may rely on: with events, when calls come one at a *)
(* time and each waits until the others have heard of the last one, every  *)
(* instance's cache agrees with the bucket.  For every set of instances,   *)
(* clients, paths and contents and every number of calls.                  *)
(***************************************************************************)

-----------------------------------------------------------------------------
(* One thing happens at a time: a request waits, or a job runs, or events  *)
(* are heard while the last job answers.                                   *)

Active(q) == job[q].at # "idle"
Unserved == {i \in Instance : inbox[i] # <<>>}
Unheard == {i \in Instance : events[i] # <<>> \/ listener[i] # <<>>}

InTurn ==
    /\ \A q, r \in Process : Active(q) /\ Active(r) => q = r
    /\ \A i, k \in Unserved : i = k
    /\ Unserved # {} => \A q \in Process : ~Active(q)
    /\ Unheard # {} => Unserved = {} /\ \A q \in Process : job[q].at \in {"idle", "reply"}

(* The request that waits; only the entries of a listener's first path are *)
(* half-way gone.                                                          *)
Queued ==
    \A i \in Instance : inbox[i] # <<>> =>
        /\ Len(inbox[i]) = 1
        /\ inbox[i][1].op # "read" /\ (inbox[i][1].op = "write" => inbox[i][1].d # None)

Unlinked ==
    \A i \in Instance : \A k \in DOMAIN listener[i] :
        listener[i][k].at = "unlink" => k = 1 /\ entries[i][listener[i][k].p] = None

(* An entry, its file and the object: they agree; or the entry is to be    *)
(* exported, and was made of the object that is there.                     *)
Fresh(e, d, c) ==
    e # None => /\ ~e.dirty /\ c # None /\ e.tag = c
                /\ e.cached => d = c
Owed(e, d, c) ==
    e # None /\ e.dirty /\ (~e.deleted => e.cached /\ d # None /\ e.tag = c)

(* The paths a job changes, until it has announced them.                   *)
Affected(req) == IF req.op = "rename" THEN {req.p, req.to} ELSE {req.p}
Mending == {"tag", "clean", "forget"}
Flushing == {"next", "compare", "export", "expunge"} \cup Mending
Changing == {"tomb", "scan", "publish"} \cup Flushing
Changes(j, p) == j.at \in Changing /\ j.req.op \in Mutation /\ p \in Affected(j.req)

(* The job is why the entry of a path is not fresh.                        *)
Explains(j, i, p, e, d, c) ==
    /\ Changes(j, p)
    /\ IF j.i = i THEN /\ j.at # "publish"
                       /\ Owed(e, d, c) \/ (j.p = p /\ j.at \in Mending)
                  ELSE Clean(e)

(* An event will make the instance forget the path.                        *)
Told(i, p) ==
    \/ \E k \in DOMAIN events[i] :
          events[i][k].origin # i /\ \E m \in DOMAIN events[i][k].paths : events[i][k].paths[m] = p
    \/ \E k \in DOMAIN listener[i] : listener[i][k].p = p /\ listener[i][k].at # "unlink"

Expected(i, p) ==
    LET e == entries[i][p]  d == data[i][p]  c == store[p]
    IN \/ Fresh(e, d, c)
       \/ Clean(e) /\ Told(i, p)
       \/ \E q \in Process : Explains(job[q], i, p, e, d, c)

(* The steps of a call, and the path each is at.                           *)
InCall(j) ==
    /\ j.at \in {"stat", "import"} => j.req.op \in {"read", "stat", "rename"}
    /\ j.at \in {"read", "fill"} => j.req.op \in {"read", "rename"}
    /\ j.at \in {"head", "put"} =>
          \/ j.req.op = "write" /\ j.p = j.req.p
          \/ j.req.op = "rename" /\ j.p = j.req.to
    /\ j.at = "tomb" => j.req.op \in {"delete", "rename"} /\ j.p = j.req.p
    /\ j.at \notin {"dead", "lose"}
    /\ j.at # "reply" => j.err = "none"

(* What a step has in hand is what is there: es and ds are the index and   *)
(* the files of the job's instance, st the bucket.                         *)
Ready(j, es, ds, st) ==
    LET e == es[j.p]  d == ds[j.p]  c == st[j.p]
    IN /\ j.at \in {"import", "put", "clean"} => j.c = c
       /\ j.at = "import" => c # None
       /\ j.at = "fill" => j.d = c /\ c # None
       /\ j.at \in {"head", "put"} => j.d # None
       /\ j.at \in {"compare", "export"} => Owed(e, d, c) /\ ~e.deleted
       /\ j.at = "compare" => j.e = e
       /\ j.at = "expunge" => Owed(e, d, c) /\ e.deleted
       /\ j.at \in {"tag", "clean"} => e # None /\ ~e.deleted /\ e.cached /\ c # None /\ d = c
       /\ j.at = "forget" => c = None
       /\ j.at \in Flushing =>
             \A p \in Path : es[p] # None /\ es[p].dirty => p \in j.todo \/ (p = j.p /\ j.at # "next")

Fit(q, j, es, ds, st) ==
    j.at # "idle" =>
        /\ q[2] # "sync"
        /\ q[2] = "worker" => j.i = q[1]
        /\ q[2] = "read" => j.at \in {"stat", "import", "read", "fill"} /\ j.req.op = "read"
        /\ InCall(j) /\ Ready(j, es, ds, st)

TurnInv ==
    /\ TypeInv /\ InTurn /\ Queued /\ Unlinked
    /\ \A q \in Process : Fit(q, job[q], entries[job[q].i], data[job[q].i], store)
    /\ \A i \in Instance, p \in Path : Expected(i, p)

-----------------------------------------------------------------------------
(* While a job runs nothing else does, and what is not fresh is its doing. *)

LEMMA Alone ==
    ASSUME TurnInv, NEW q \in Process, job[q].at \notin {"idle", "reply"}
    PROVE  /\ \A r \in Process \ {q} : job[r].at = "idle"
           /\ \A i \in Instance : inbox[i] = <<>> /\ events[i] = <<>> /\ listener[i] = <<>>
           /\ \A i \in Instance, p \in Path :
                 \/ Fresh(entries[i][p], data[i][p], store[p])
                 \/ Explains(job[q], i, p, entries[i][p], data[i][p], store[p])
           /\ job[q] \in GoodJob /\ job[q] \in Job /\ job[q].i \in Instance
           /\ Fit(q, job[q], entries[job[q].i], data[job[q].i], store)
<1>1. \A r \in Process \ {q} : job[r].at = "idle"
  BY DEF TurnInv, InTurn, Active
<1>2. Unheard = {} /\ Unserved = {}
  BY DEF TurnInv, InTurn, Active
<1>3. \A i \in Instance : inbox[i] = <<>> /\ events[i] = <<>> /\ listener[i] = <<>>
  BY <1>2 DEF Unheard, Unserved
<1>4. \A i \in Instance, p \in Path : ~Told(i, p)
  BY <1>3 DEF Told
<1>5. \A r \in Process \ {q}, p \in Path : ~Changes(job[r], p)
  BY <1>1 DEF Changes, Changing, Flushing, Mending
<1>6. Fit(q, job[q], entries[job[q].i], data[job[q].i], store)
  BY DEF TurnInv
<1>7. job[q].at # "dead"
  BY <1>6 DEF Fit, InCall
<1>8. job[q] \in GoodJob /\ job[q] \in Job /\ job[q].i \in Instance
  BY <1>7, JobFacts DEF TurnInv
<1>9. \A i \in Instance, p \in Path :
         \/ Fresh(entries[i][p], data[i][p], store[p])
         \/ Explains(job[q], i, p, entries[i][p], data[i][p], store[p])
  BY <1>4, <1>5 DEF TurnInv, Expected, Explains
<1>. QED  BY <1>1, <1>3, <1>6, <1>8, <1>9

(* Where no job runs, only what has been told of is not fresh.             *)
LEMMA AtRest ==
    ASSUME TurnInv, \A q \in Process : job[q].at \in {"idle", "reply"}
    PROVE  \A i \in Instance, p \in Path :
              \/ Fresh(entries[i][p], data[i][p], store[p])
              \/ Clean(entries[i][p]) /\ Told(i, p)
<1>1. \A q \in Process, p \in Path : ~Changes(job[q], p)
  BY DEF Changes, Changing, Flushing, Mending
<1>. QED  BY <1>1 DEF TurnInv, Expected, Explains

(* What a step of a job has to establish.                                  *)
LEMMA JobStep ==
    ASSUME TurnInv, TypeInv', NEW q \in Process, job[q].at \notin {"idle", "reply"}, NEW j,
           job' = [job EXCEPT ![q] = j], UNCHANGED <<natsVars, listener>>,
           j.at # "idle" => Fit(q, j, entries'[j.i], data'[j.i], store'),
           \A i \in Instance, p \in Path :
              \/ Fresh(entries[i][p], data[i][p], store[p])
              \/ Explains(job[q], i, p, entries[i][p], data[i][p], store[p])
              => \/ Fresh(entries'[i][p], data'[i][p], store'[p])
                 \/ Explains(j, i, p, entries'[i][p], data'[i][p], store'[p])
    PROVE  TurnInv'
<1>1. job'[q] = j /\ \A r \in Process \ {q} : job'[r] = job[r] /\ job[r].at = "idle"
  BY Alone DEF TurnInv, TypeInv, TypeOK
<1>2. \A i \in Instance : inbox'[i] = <<>> /\ events'[i] = <<>> /\ listener'[i] = <<>>
  BY Alone DEF natsVars
<1>3. Unserved' = {} /\ Unheard' = {}
  BY <1>2 DEF Unserved, Unheard
<1>4. InTurn'
  BY <1>1, <1>3 DEF InTurn, Active
<1>5. Queued' /\ Unlinked'
  BY <1>2 DEF Queued, Unlinked
<1>6. ASSUME NEW r \in Process
      PROVE  Fit(r, job[r], entries[job[r].i], data[job[r].i], store)'
  BY <1>1 DEF Fit
<1>7. ASSUME NEW i \in Instance, NEW p \in Path PROVE Expected(i, p)'
  BY <1>1, Alone DEF Expected
<1>. QED  BY <1>4, <1>5, <1>6, <1>7 DEF TurnInv

(* What a step that ends a job has to establish.                           *)
LEMMA EndStep ==
    ASSUME TurnInv, TypeInv', Announcing = Instance, NEW q \in Process,
           job[q].at \notin {"idle", "reply", "publish"},
           NEW j \in Job, j.i = job[q].i, j.req = job[q].req, Ends(q, j),
           j.err = "none" \/ ~(job[q].at \in Changing),
           \A p \in Path : ~Owed(entries[j.i][p], data[j.i][p], store[p]),
           job[q].at \notin Mending,
           UNCHANGED <<entries, data, store, natsVars, listener>>
    PROVE  TurnInv'
<1>. DEFINE f == Ended(q, j)
<1>1. job' = [job EXCEPT ![q] = f]
  BY DEF Ends, Goto
<1>2. q[2] # "sync" /\ (q[2] = "worker" => job[q].i = q[1])
  BY Alone DEF Fit
<1>3. CASE q[2] = "worker" /\ Announces(j)
  <2>1. f = [j EXCEPT !.at = "publish"]
    BY <1>3 DEF Ended
  <2>2. f.at = "publish" /\ f.i = job[q].i /\ f.req = job[q].req /\ f.err = "none" /\ f.req.op \in Mutation
    BY <1>3, <2>1 DEF Announces, Job
  <2>3. Fit(q, f, entries[f.i], data[f.i], store)
    BY <1>2, <1>3, <2>2 DEF Fit, InCall, Ready, Flushing, Mending
  <2>4. ASSUME NEW i \in Instance, NEW p \in Path,
               \/ Fresh(entries[i][p], data[i][p], store[p])
               \/ Explains(job[q], i, p, entries[i][p], data[i][p], store[p])
        PROVE  \/ Fresh(entries[i][p], data[i][p], store[p])
               \/ Explains(f, i, p, entries[i][p], data[i][p], store[p])
    BY <2>2, <2>4 DEF Explains, Changes, Changing
  <2>. HIDE DEF f
  <2>. QED  BY <1>1, <2>3, <2>4, JobStep
<1>4. CASE ~(q[2] = "worker" /\ Announces(j))
  <2>1. f.at \in {"idle", "reply"} /\ (f.at = "reply" => q[2] = "worker" /\ f.i = job[q].i)
    <3>1. CASE q[2] = "worker"
      <4>1. f = [j EXCEPT !.at = "reply"]
        BY <1>4, <3>1 DEF Ended
      <4>. QED  BY <3>1, <4>1 DEF Job
    <3>2. CASE q[2] # "worker"
      BY <1>2, <3>2 DEF Ended, Idle, Start
    <3>. QED  BY <3>1, <3>2
  <2>2. f.at # "idle" => Fit(q, f, entries[f.i], data[f.i], store)
    BY <1>2, <2>1 DEF Fit, InCall, Ready, Flushing, Mending
  <2>3. ASSUME NEW p \in Path, Changes(job[q], p) PROVE FALSE
    <3>1. j.err = "none" /\ j.req.op \in Mutation /\ job[q].at \in Changing
      BY <2>3 DEF Changes
    <3>2. q[2] = "worker"
      BY <1>2, <3>1, Alone DEF Fit, Changing, Flushing, Mending, Process
    <3>3. Announces(j)
      BY <3>1, <3>2, Alone DEF Announces
    <3>. QED  BY <1>4, <3>2, <3>3
  <2>4. \A i \in Instance, p \in Path :
           ~Explains(job[q], i, p, entries[i][p], data[i][p], store[p])
    BY <2>3 DEF Explains
  <2>. HIDE DEF f
  <2>. QED  BY <1>1, <2>2, <2>4, JobStep
<1>. QED  BY <1>3, <1>4

-----------------------------------------------------------------------------
(* stat, read_range.                                                       *)

LEMMA AllFresh ==
    ASSUME TurnInv, NEW q \in Process, job[q].at \in {"stat", "import", "read", "fill", "head", "put"}
    PROVE  /\ \A i \in Instance, p \in Path : Fresh(entries[i][p], data[i][p], store[p])
           /\ \A p \in Path : ~Changes(job[q], p)
           /\ Located(job[q])
           /\ Mine(q) \in Entry \cup {None} /\ store[job[q].p] \in Tag
<1>1. \A p \in Path : ~Changes(job[q], p)
  BY DEF Changes, Changing, Flushing, Mending
<1>2. \A i \in Instance, p \in Path : Fresh(entries[i][p], data[i][p], store[p])
  BY <1>1, Alone DEF Explains
<1>3. Located(job[q]) /\ Mine(q) \in Entry \cup {None} /\ store[job[q].p] \in Tag
  BY AtPath DEF Pathless, TurnInv
<1>. QED  BY <1>1, <1>2, <1>3

LEMMA EarlyEnd ==
    ASSUME TurnInv, TypeInv', Announcing = Instance, NEW q \in Process,
           job[q].at \in {"stat", "import", "read", "fill"},
           Fails(q) \/ Ends(q, job[q]), UNCHANGED <<cacheVars, store, natsVars, listener>>
    PROVE  TurnInv'
<1>1. job[q] \in Job /\ job[q].i \in Instance
  BY Alone
<1>2. PICK j \in Job : Ends(q, j) /\ j.i = job[q].i /\ j.req = job[q].req
  <2>1. CASE Fails(q)
    <3>1. [job[q] EXCEPT !.err = "notfound"] \in Job
      BY <1>1 DEF Job
    <3>2. /\ [job[q] EXCEPT !.err = "notfound"].i = job[q].i
          /\ [job[q] EXCEPT !.err = "notfound"].req = job[q].req
      BY <1>1 DEF Job
    <3>. QED  BY <2>1, <3>1, <3>2 DEF Fails
  <2>2. CASE Ends(q, job[q])
    BY <1>1, <2>2
  <2>. QED  BY <2>1, <2>2
<1>3. \A p \in Path : ~Owed(entries[j.i][p], data[j.i][p], store[p])
  BY <1>1, <1>2, AllFresh DEF Fresh, Owed
<1>4. ~(job[q].at \in Changing)
  BY DEF Changing, Flushing, Mending
<1>. QED  BY <1>2, <1>3, <1>4, EndStep DEF cacheVars, Mending

(* A step that changes nothing but a job which has changed nothing yet.    *)
LEMMA EarlyStep ==
    ASSUME TurnInv, TypeInv', NEW q \in Process,
           job[q].at \in {"stat", "import", "read", "fill", "head", "put"}, NEW j,
           Goto(q, j), j.at # "idle" => Fit(q, j, entries[j.i], data[j.i], store),
           UNCHANGED <<cacheVars, store, natsVars, listener>>
    PROVE  TurnInv'
<1>1. \A i \in Instance, p \in Path : Fresh(entries[i][p], data[i][p], store[p])
  BY AllFresh
<1>. QED  BY <1>1, JobStep DEF Goto, cacheVars

LEMMA StatTurn ==
    ASSUME TurnInv, TypeInv', Announcing = Instance, NEW q \in Process, Stat(q) PROVE TurnInv'
<1>1. job[q].at = "stat" /\ UNCHANGED <<cacheVars, store, natsVars, listener>>
  BY DEF Stat, At
<1>2. job[q] \in Job /\ Fit(q, job[q], entries[job[q].i], data[job[q].i], store)
  BY <1>1, Alone
<1>3. CASE Fails(q) \/ Ends(q, job[q])
  BY <1>1, <1>3, EarlyEnd
<1>4. CASE Onward(q, "read") /\ job[q].req.op # "stat"
  <2>. DEFINE j == [job[q] EXCEPT !.at = "read"]
  <2>1. Fit(q, j, entries[j.i], data[j.i], store)
    BY <1>1, <1>2, <1>4 DEF Job, Fit, InCall, Ready, Flushing, Mending
  <2>2. Goto(q, j)
    BY <1>4 DEF Onward
  <2>. HIDE DEF j
  <2>. QED  BY <1>1, <2>1, <2>2, EarlyStep
<1>5. CASE store[job[q].p] # None /\ Goto(q, [job[q] EXCEPT !.at = "import", !.c = store[job[q].p]])
  <2>. DEFINE j == [job[q] EXCEPT !.at = "import", !.c = store[job[q].p]]
  <2>1. Fit(q, j, entries[j.i], data[j.i], store)
    BY <1>1, <1>2, <1>5 DEF Job, Fit, InCall, Ready, Flushing, Mending
  <2>. HIDE DEF j
  <2>2. Goto(q, j)
    BY <1>5 DEF j
  <2>. QED  BY <1>1, <2>1, <2>2, EarlyStep
<1>. QED  BY <1>3, <1>4, <1>5 DEF Stat, AfterStat

LEMMA ReadRangeTurn ==
    ASSUME TurnInv, TypeInv', Announcing = Instance, NEW q \in Process, ReadRange(q) PROVE TurnInv'
<1>1. job[q].at = "read" /\ UNCHANGED <<cacheVars, store, natsVars, listener>>
  BY DEF ReadRange, At
<1>2. job[q] \in Job /\ Fit(q, job[q], entries[job[q].i], data[job[q].i], store)
  BY <1>1, Alone
<1>3. CASE Fails(q) \/ Ends(q, job[q])
  BY <1>1, <1>3, EarlyEnd
<1>4. ASSUME NEW d, d # None, job[q].req.op = "rename",
             Goto(q, [job[q] EXCEPT !.at = "head", !.d = d, !.p = job[q].req.to])
      PROVE  TurnInv'
  <2>. DEFINE j == [job[q] EXCEPT !.at = "head", !.d = d, !.p = job[q].req.to]
  <2>1. Fit(q, j, entries[j.i], data[j.i], store)
    BY <1>1, <1>2, <1>4 DEF Job, Fit, InCall, Ready, Flushing, Mending
  <2>. HIDE DEF j
  <2>2. Goto(q, j)
    BY <1>4 DEF j
  <2>. QED  BY <1>1, <2>1, <2>2, EarlyStep
<1>5. CASE store[job[q].p] # None /\ Goto(q, [job[q] EXCEPT !.at = "fill", !.d = store[job[q].p]])
  <2>. DEFINE j == [job[q] EXCEPT !.at = "fill", !.d = store[job[q].p]]
  <2>1. Fit(q, j, entries[j.i], data[j.i], store)
    BY <1>1, <1>2, <1>5 DEF Job, Fit, InCall, Ready, Flushing, Mending
  <2>. HIDE DEF j
  <2>2. Goto(q, j)
    BY <1>5 DEF j
  <2>. QED  BY <1>1, <2>1, <2>2, EarlyStep
<1>. QED  BY <1>3, <1>4, <1>5 DEF ReadRange, AfterRead

(* One path of the job's instance changes, and the object of that name.    *)
LEMMA SetHere ==
    ASSUME TypeInv, NEW k \in Instance, NEW r \in Path,
           entries' = entries \/ entries' = [entries EXCEPT ![k][r] = entries'[k][r]],
           data' = data \/ data' = [data EXCEPT ![k][r] = data'[k][r]],
           store' = store \/ store' = [store EXCEPT ![r] = store'[r]]
    PROVE  /\ \A i \in Instance \ {k} : \A p \in Path :
                 entries'[i][p] = entries[i][p] /\ data'[i][p] = data[i][p]
           /\ \A p \in Path \ {r} :
                 /\ entries'[k][p] = entries[k][p] /\ data'[k][p] = data[k][p]
                 /\ store'[p] = store[p]
<1>1. /\ \A i \in Instance \ {k} : entries'[i] = entries[i]
      /\ \A p \in Path \ {r} : entries'[k][p] = entries[k][p]
  BY PutAt, Typed
<1>2. /\ \A i \in Instance \ {k} : data'[i] = data[i]
      /\ \A p \in Path \ {r} : data'[k][p] = data[k][p]
  BY PutAt, Typed
<1>3. \A p \in Path \ {r} : store'[p] = store[p]
  BY Typed
<1>. QED  BY <1>1, <1>2, <1>3

(* ImportMeta and FillCache make the entry of what is in the bucket.       *)
LEMMA FreshStep ==
    ASSUME TurnInv, TypeInv', NEW q \in Process,
           job[q].at \in {"stat", "import", "read", "fill", "head", "put"}, NEW j,
           job' = [job EXCEPT ![q] = j],
           j.at # "idle" => Fit(q, j, entries'[j.i], data'[j.i], store),
           NEW k, NEW r, k = job[q].i, r = job[q].p,
           Fresh(entries'[k][r], data'[k][r], store[r]),
           entries' = entries \/ entries' = [entries EXCEPT ![k][r] = entries'[k][r]],
           data' = data \/ data' = [data EXCEPT ![k][r] = data'[k][r]],
           UNCHANGED <<store, natsVars, listener>>
    PROVE  TurnInv'
<1>1. TypeInv /\ k \in Instance /\ r \in Path
  BY AllFresh DEF TurnInv, Located
<1>2. \A i \in Instance, p \in Path : Fresh(entries[i][p], data[i][p], store[p])
  BY AllFresh
<1>3. /\ \A i \in Instance \ {k} : \A p \in Path :
            entries'[i][p] = entries[i][p] /\ data'[i][p] = data[i][p]
      /\ \A p \in Path \ {r} :
            entries'[k][p] = entries[k][p] /\ data'[k][p] = data[k][p]
  BY <1>1, SetHere
<1>4. \A i \in Instance, p \in Path : Fresh(entries'[i][p], data'[i][p], store'[p])
  BY <1>2, <1>3
<1>. QED  BY <1>4, JobStep

(* What a step that changes the job's path has to establish.               *)
LEMMA HereStep ==
    ASSUME TurnInv, TypeInv', NEW q \in Process, job[q].at \notin {"idle", "reply"}, Located(job[q]),
           NEW j, job' = [job EXCEPT ![q] = j], UNCHANGED <<natsVars, listener>>,
           j.i = job[q].i, j.req = job[q].req, j.at \in Changing \ {"publish"},
           NEW k, NEW r, k = job[q].i, r = job[q].p,
           entries' = entries \/ entries' = [entries EXCEPT ![k][r] = entries'[k][r]],
           data' = data \/ data' = [data EXCEPT ![k][r] = data'[k][r]],
           store' = store \/ store' = [store EXCEPT ![r] = store'[r]],
           store' # store => Changes(job[q], r),
           Fit(q, j, entries'[k], data'[k], store'),
           \/ Fresh(entries'[k][r], data'[k][r], store'[r])
           \/ Explains(j, k, r, entries'[k][r], data'[k][r], store'[r])
    PROVE  TurnInv'
<1>1. TypeInv /\ k \in Instance /\ r \in Path
  BY DEF TurnInv, Located
<1>2. /\ \A i \in Instance \ {k} : \A p \in Path :
            entries'[i][p] = entries[i][p] /\ data'[i][p] = data[i][p]
      /\ \A p \in Path \ {r} :
            /\ entries'[k][p] = entries[k][p] /\ data'[k][p] = data[k][p]
            /\ store'[p] = store[p]
  BY <1>1, SetHere
<1>3. \A p : Changes(job[q], p) => Changes(j, p)
  BY DEF Changes
<1>4. ASSUME NEW i \in Instance, NEW p \in Path,
             \/ Fresh(entries[i][p], data[i][p], store[p])
             \/ Explains(job[q], i, p, entries[i][p], data[i][p], store[p])
      PROVE  \/ Fresh(entries'[i][p], data'[i][p], store'[p])
             \/ Explains(j, i, p, entries'[i][p], data'[i][p], store'[p])
  <2>1. CASE p # r
    <3>1. entries'[i][p] = entries[i][p] /\ data'[i][p] = data[i][p] /\ store'[p] = store[p]
      BY <1>2, <2>1
    <3>. QED  BY <1>3, <1>4, <2>1, <3>1 DEF Explains
  <2>2. CASE p = r /\ i = k
    BY <2>2
  <2>3. CASE p = r /\ i # k
    <3>1. entries'[i][p] = entries[i][p] /\ data'[i][p] = data[i][p]
      BY <1>2, <2>3
    <3>2. CASE store'[p] = store[p]
      BY <1>3, <1>4, <2>3, <3>1, <3>2 DEF Explains
    <3>3. CASE store'[p] # store[p]
      <4>1. Changes(j, p)
        BY <1>3, <2>3, <3>3
      <4>2. entries[i][p] = None \/ Clean(entries[i][p])
        BY <1>4, <2>3 DEF Fresh, Explains, Clean
      <4>. QED  BY <2>3, <3>1, <4>1, <4>2 DEF Explains, Fresh
    <3>. QED  BY <3>2, <3>3
  <2>. QED  BY <2>1, <2>2, <2>3
<1>5. j.at # "idle" => Fit(q, j, entries'[j.i], data'[j.i], store')
  OBVIOUS
<1>. QED  BY <1>4, <1>5, JobStep

(* How a stat or a read ends.                                              *)
LEMMA StatEnds ==
    ASSUME TurnInv, NEW q \in Process, job[q].at \in {"stat", "import", "read", "fill"},
           job[q].req.op \in {"read", "stat"}, Ends(q, job[q])
    PROVE  \E j : /\ job' = [job EXCEPT ![q] = j]
                  /\ j.at # "idle" => \A es, ds, st : Fit(q, j, es, ds, st)
<1>. DEFINE j == Ended(q, job[q])
<1>1. job[q] \in Job /\ Fit(q, job[q], entries[job[q].i], data[job[q].i], store)
  BY Alone
<1>2. job' = [job EXCEPT ![q] = j]
  BY DEF Ends, Goto
<1>3. ~Announces(job[q])
  BY DEF Announces, Mutation
<1>4. CASE q[2] = "worker"
  <2>1. j = [job[q] EXCEPT !.at = "reply"]
    BY <1>3, <1>4 DEF Ended
  <2>2. \A es, ds, st : Fit(q, j, es, ds, st)
    BY <1>1, <1>4, <2>1 DEF Job, Fit, InCall, Ready, Flushing, Mending
  <2>. QED  BY <1>2, <2>2
<1>5. CASE q[2] # "worker"
  <2>1. q[2] # "sync"
    BY <1>1 DEF Fit
  <2>2. j.at = "idle"
    BY <1>5, <2>1 DEF Ended, Idle, Start
  <2>. QED  BY <1>2, <2>2
<1>. QED  BY <1>4, <1>5

LEMMA ImportMetaTurn ==
    ASSUME TurnInv, TypeInv', NEW q \in Process, ImportMeta(q) PROVE TurnInv'
<1>1. job[q].at = "import" /\ UNCHANGED <<data, store, natsVars, listener>>
  BY DEF ImportMeta, At
<1>2. job[q] \in Job /\ Fit(q, job[q], entries[job[q].i], data[job[q].i], store)
  BY <1>1, Alone
<1>. DEFINE e == Import(job[q].c)
            d == data[job[q].i][job[q].p]
<1>3. Fresh(e, d, store[job[q].p])
  BY <1>1, <1>2 DEF Fit, Ready, Fresh, Import
<1>4. entries' = [entries EXCEPT ![job[q].i][job[q].p] = e]
  BY DEF ImportMeta, SetEntry
<1>5. PICK j : /\ job' = [job EXCEPT ![q] = j]
               /\ j.at # "idle" => \A es, ds, st : Fit(q, j, es, ds, st)
  <2>1. CASE job[q].req.op = "stat"
    BY <1>1, <2>1, StatEnds DEF ImportMeta, AfterStat
  <2>2. CASE job[q].req.op # "stat"
    <3>. DEFINE j == [job[q] EXCEPT !.at = "read"]
    <3>1. job' = [job EXCEPT ![q] = j]
      BY <2>2 DEF ImportMeta, AfterStat, Onward, Goto
    <3>2. \A es, ds, st : Fit(q, j, es, ds, st)
      BY <1>1, <1>2, <2>2 DEF Job, Fit, InCall, Ready, Flushing, Mending
    <3>. QED  BY <3>1, <3>2
  <2>. QED  BY <2>1, <2>2
<1>6. Located(job[q])
  BY <1>1, AllFresh
<1>. HIDE DEF e
<1>7. entries'[job[q].i][job[q].p] = e /\ data'[job[q].i][job[q].p] = data[job[q].i][job[q].p]
  BY <1>1, <1>4, <1>6, Typed DEF Located, TurnInv
<1>. QED  BY <1>1, <1>3, <1>4, <1>5, <1>7, FreshStep

LEMMA FillCacheTurn ==
    ASSUME TurnInv, TypeInv', Announcing = Instance, NEW q \in Process, FillCache(q) PROVE TurnInv'
<1>1. job[q].at = "fill" /\ UNCHANGED <<store, natsVars, listener>>
  BY DEF FillCache, At
<1>2. /\ job[q] \in Job /\ Fit(q, job[q], entries[job[q].i], data[job[q].i], store)
      /\ Located(job[q]) /\ Mine(q) \in Entry \cup {None}
      /\ Fresh(Mine(q), data[job[q].i][job[q].p], store[job[q].p])
  BY <1>1, Alone, AllFresh DEF Mine, Located
<1>3. CASE Fails(q) /\ UNCHANGED <<entries, data>>
  BY <1>1, <1>3, EarlyEnd DEF FillCache, cacheVars
<1>4. CASE /\ Mine(q) # None
           /\ SetData(q, job[q].d)
           /\ SetEntry(q, [Mine(q) EXCEPT !.cached = TRUE])
           /\ AfterRead(q, job[q].d)
  <2>. DEFINE e == [Mine(q) EXCEPT !.cached = TRUE]
              d == job[q].d
  <2>1. d = store[job[q].p] /\ d # None
    BY <1>1, <1>2 DEF Fit, Ready
  <2>2. Fresh(e, d, store[job[q].p])
    BY <1>2, <1>4, <2>1 DEF Fresh, Entry
  <2>3. /\ entries' = [entries EXCEPT ![job[q].i][job[q].p] = e]
        /\ data' = [data EXCEPT ![job[q].i][job[q].p] = d]
    BY <1>4 DEF SetEntry, SetData
  <2>4. PICK j : /\ job' = [job EXCEPT ![q] = j]
                 /\ j.at # "idle" => \A es, ds, st : Fit(q, j, es, ds, st)
    <3>1. CASE job[q].req.op # "rename"
      <4>1. job[q].req.op \in {"read", "stat"} /\ Ends(q, job[q])
        BY <1>1, <1>2, <1>4, <3>1 DEF Fit, InCall, AfterRead
      <4>. QED  BY <1>1, <4>1, StatEnds
    <3>2. CASE job[q].req.op = "rename"
      <4>. DEFINE j == [job[q] EXCEPT !.at = "head", !.d = d, !.p = job[q].req.to]
      <4>1. job' = [job EXCEPT ![q] = j]
        BY <1>4, <3>2 DEF AfterRead, Goto
      <4>2. \A es, ds, st : Fit(q, j, es, ds, st)
        BY <1>1, <1>2, <2>1, <3>2 DEF Job, Fit, InCall, Ready, Flushing, Mending
      <4>. QED  BY <4>1, <4>2
    <3>. QED  BY <3>1, <3>2
  <2>. HIDE DEF e, d
  <2>5. entries'[job[q].i][job[q].p] = e /\ data'[job[q].i][job[q].p] = d
    BY <1>2, <2>3, Typed DEF Located, TurnInv
  <2>. QED  BY <1>1, <2>2, <2>3, <2>4, <2>5, FreshStep
<1>. QED  BY <1>3, <1>4 DEF FillCache

(* write_file, delete_path.                                                *)

LEMMA WriteHeadTurn ==
    ASSUME TurnInv, TypeInv', NEW q \in Process, WriteHead(q) PROVE TurnInv'
<1>1. job[q].at = "head" /\ UNCHANGED <<cacheVars, store, natsVars, listener>>
  BY DEF WriteHead, At, jobOnly
<1>2. job[q] \in Job /\ Fit(q, job[q], entries[job[q].i], data[job[q].i], store)
  BY <1>1, Alone
<1>. DEFINE j == [job[q] EXCEPT !.at = "put", !.c = store[job[q].p]]
<1>3. Fit(q, j, entries[j.i], data[j.i], store)
  BY <1>1, <1>2 DEF Job, Fit, InCall, Ready, Flushing, Mending
<1>. HIDE DEF j
<1>4. Goto(q, j)
  BY DEF WriteHead, j
<1>. QED  BY <1>1, <1>3, <1>4, EarlyStep

LEMMA WritePutTurn ==
    ASSUME TurnInv, TypeInv', NEW q \in Process, WritePut(q) PROVE TurnInv'
<1>1. job[q].at = "put" /\ UNCHANGED <<store, natsVars, listener>>
  BY DEF WritePut, At, jobOnly
<1>2. /\ job[q] \in Job /\ Fit(q, job[q], entries[job[q].i], data[job[q].i], store)
      /\ TypeInv /\ Located(job[q])
  BY <1>1, Alone, AllFresh DEF TurnInv
<1>. DEFINE e == Written(job[q].c)
            d == job[q].d
            j == AfterWrite(job[q])
<1>3. /\ entries' = [entries EXCEPT ![job[q].i][job[q].p] = e]
      /\ data' = [data EXCEPT ![job[q].i][job[q].p] = d]
      /\ job' = [job EXCEPT ![q] = j]
  BY DEF WritePut, SetEntry, SetData, Goto
<1>4. Owed(e, d, store[job[q].p])
  <2>1. e \in Entry
    BY <1>2 DEF Written, Entry, Job
  <2>. QED  BY <1>1, <1>2, <2>1, DistributedAssumption DEF Owed, Written, Fit, Ready
<1>5. /\ j.i = job[q].i /\ j.req = job[q].req /\ j.at \in {"tomb", "scan"}
      /\ j.req.op \in Mutation /\ job[q].p \in Affected(j.req)
      /\ j.err = "none"
      /\ j.at = "tomb" => j.req.op = "rename" /\ j.p = j.req.p
      /\ q[2] # "sync" /\ q[2] # "read" /\ (q[2] = "worker" => j.i = q[1])
  BY <1>1, <1>2 DEF Job, Fit, InCall, AfterWrite, Mutation, Affected
<1>6. Fit(q, j, entries'[job[q].i], data'[job[q].i], store')
  BY <1>5 DEF Fit, InCall, Ready, Flushing, Mending
<1>. HIDE DEF e, d, j
<1>7. entries'[job[q].i][job[q].p] = e /\ data'[job[q].i][job[q].p] = d
  BY <1>2, <1>3, Typed DEF Located
<1>8. Explains(j, job[q].i, job[q].p, e, d, store[job[q].p]) /\ j.at \in Changing \ {"publish"}
  BY <1>4, <1>5 DEF Explains, Changes, Changing
<1>. QED  BY <1>1, <1>2, <1>3, <1>5, <1>6, <1>7, <1>8, HereStep

LEMMA DeletePathTurn ==
    ASSUME TurnInv, TypeInv', NEW q \in Process, DeletePath(q) PROVE TurnInv'
<1>1. job[q].at = "tomb" /\ UNCHANGED <<data, store, natsVars, listener>>
  BY DEF DeletePath, At, jobOnly
<1>2. /\ job[q] \in Job /\ Fit(q, job[q], entries[job[q].i], data[job[q].i], store)
      /\ TypeInv /\ Located(job[q]) /\ Mine(q) \in Entry \cup {None}
  BY <1>1, Alone, AtPath DEF TurnInv, Pathless
<1>. DEFINE e == Tombstone(Mine(q))
            j == [job[q] EXCEPT !.at = "scan"]
<1>3. entries' = [entries EXCEPT ![job[q].i][job[q].p] = e] /\ job' = [job EXCEPT ![q] = j]
  BY <1>1 DEF DeletePath, SetEntry, Goto, Onward
<1>4. \A d, c : Owed(e, d, c)
  BY <1>2, TombstoneFacts DEF Owed, Dirty
<1>5. /\ j.i = job[q].i /\ j.req = job[q].req /\ j.at = "scan"
      /\ j.req.op \in Mutation /\ job[q].p \in Affected(j.req)
      /\ j.err = "none"
      /\ q[2] # "sync" /\ q[2] # "read" /\ (q[2] = "worker" => j.i = q[1])
  BY <1>1, <1>2 DEF Job, Fit, InCall, Mutation, Affected
<1>6. Fit(q, j, entries'[job[q].i], data'[job[q].i], store')
  BY <1>5 DEF Fit, InCall, Ready, Flushing, Mending
<1>. HIDE DEF e, j
<1>7. entries'[job[q].i][job[q].p] = e
  BY <1>2, <1>3, Typed DEF Located
<1>8. j.at \in Changing \ {"publish"}
  BY <1>5 DEF Changing
<1>9. Explains(j, job[q].i, job[q].p, entries'[job[q].i][job[q].p],
               data'[job[q].i][job[q].p], store'[job[q].p])
  BY <1>4, <1>5, <1>7, <1>8 DEF Explains, Changes
<1>. QED  BY <1>1, <1>2, <1>3, <1>5, <1>6, <1>7, <1>8, <1>9, HereStep

(* flush.                                                                  *)

LEMMA StayStep ==
    ASSUME TurnInv, TypeInv', NEW q \in Process, job[q].at \notin {"idle", "reply"},
           NEW j, Goto(q, j), UNCHANGED <<cacheVars, store, natsVars, listener>>,
           j.i = job[q].i, j.req = job[q].req, j.at \in Changing \ {"publish"},
           job[q].at \in Mending => j.at \in Mending /\ j.p = job[q].p,
           Fit(q, j, entries[j.i], data[j.i], store)
    PROVE  TurnInv'
<1>1. \A p : Changes(job[q], p) => Changes(j, p)
  BY DEF Changes
<1>2. \A i \in Instance, p \in Path :
         Explains(job[q], i, p, entries[i][p], data[i][p], store[p])
         => Explains(j, i, p, entries[i][p], data[i][p], store[p])
  BY <1>1 DEF Explains
<1>3. \A i \in Instance, p \in Path :
         /\ entries'[i][p] = entries[i][p] /\ data'[i][p] = data[i][p] /\ store'[p] = store[p]
  BY DEF cacheVars
<1>4. \A i \in Instance, p \in Path :
         \/ Fresh(entries[i][p], data[i][p], store[p])
         \/ Explains(job[q], i, p, entries[i][p], data[i][p], store[p])
         => \/ Fresh(entries'[i][p], data'[i][p], store'[p])
            \/ Explains(j, i, p, entries'[i][p], data'[i][p], store'[p])
  BY <1>2, <1>3
<1>5. j.at # "idle" => Fit(q, j, entries'[j.i], data'[j.i], store')
  BY DEF cacheVars
<1>6. job' = [job EXCEPT ![q] = j] /\ UNCHANGED <<natsVars, listener>>
  BY DEF Goto
<1>. QED  BY <1>4, <1>5, <1>6, JobStep

(* Every dirty entry of the job's instance is one its call has made.       *)
LEMMA DirtyIsOwed ==
    ASSUME TurnInv, NEW q \in Process, job[q].at \in Changing \ (Mending \cup {"publish"}),
           NEW p \in Path, entries[job[q].i][p] # None, entries[job[q].i][p].dirty
    PROVE  /\ Changes(job[q], p)
           /\ Owed(entries[job[q].i][p], data[job[q].i][p], store[p])
<1>1. job[q].at \notin {"idle", "reply"}
  BY DEF Changing, Flushing, Mending
<1>2. ~Fresh(entries[job[q].i][p], data[job[q].i][p], store[p])
  BY DEF Fresh
<1>. QED  BY <1>1, <1>2, Alone DEF Explains

LEMMA FlushScanTurn ==
    ASSUME TurnInv, TypeInv', NEW q \in Process, FlushScan(q) PROVE TurnInv'
<1>1. job[q].at = "scan" /\ UNCHANGED <<cacheVars, store, natsVars, listener>>
  BY DEF FlushScan, At, jobOnly
<1>2. job[q] \in Job /\ Fit(q, job[q], entries[job[q].i], data[job[q].i], store)
  BY <1>1, Alone
<1>. DEFINE i == job[q].i
            j == [job[q] EXCEPT !.at = "next", !.ok = FALSE, !.err = "none", !.c = None, !.d = None,
                     !.todo = {p \in Path : entries[i][p] # None /\ entries[i][p].dirty}]
<1>3. /\ j.i = job[q].i /\ j.req = job[q].req /\ j.at = "next" /\ j.err = "none"
      /\ j.todo = {p \in Path : entries[i][p] # None /\ entries[i][p].dirty}
  BY <1>2 DEF Job
<1>4. Goto(q, j)
  BY DEF FlushScan
<1>. HIDE DEF j
<1>5. Fit(q, j, entries[j.i], data[j.i], store)
  BY <1>1, <1>2, <1>3 DEF Fit, InCall, Ready, Flushing, Mending
<1>. QED  BY <1>1, <1>3, <1>4, <1>5, StayStep DEF Changing, Flushing, Mending

LEMMA FlushPathTurn ==
    ASSUME TurnInv, TypeInv', NEW q \in Process, FlushPath(q) PROVE TurnInv'
<1>1. job[q].at = "next" /\ UNCHANGED <<cacheVars, store, natsVars, listener>>
  BY DEF FlushPath, At, jobOnly
<1>2. /\ job[q] \in Job /\ Fit(q, job[q], entries[job[q].i], data[job[q].i], store)
      /\ job[q].i \in Instance /\ TypeInv
  BY <1>1, Alone DEF TurnInv
<1>. DEFINE e(p) == entries[job[q].i][p]
            k(p) == [job[q] EXCEPT !.todo = @ \ {p}, !.p = p]
            j(p) == IF e(p) = None \/ Clean(e(p)) THEN [k(p) EXCEPT !.ok = TRUE]
                    ELSE [k(p) EXCEPT !.e = e(p), !.at = IF e(p).deleted THEN "expunge" ELSE "compare"]
<1>3. PICK p \in job[q].todo : Goto(q, j(p))
  BY DEF FlushPath
<1>4. p \in Path
  BY <1>2 DEF Job
<1>5. CASE e(p) = None \/ Clean(e(p))
  <2>. DEFINE f == [k(p) EXCEPT !.ok = TRUE]
  <2>1. Goto(q, f)
    BY <1>3, <1>5
  <2>2. /\ f.i = job[q].i /\ f.req = job[q].req /\ f.at = "next" /\ f.err = job[q].err
        /\ f.todo = job[q].todo \ {p}
    BY <1>1, <1>2 DEF Job
  <2>3. Fit(q, f, entries[f.i], data[f.i], store)
    <3>. HIDE DEF f
    <3>. QED  BY <1>1, <1>2, <1>5, <2>2 DEF Fit, InCall, Ready, Flushing, Mending, Clean
  <2>. HIDE DEF f
  <2>. QED  BY <1>1, <2>1, <2>2, <2>3, StayStep DEF Changing, Flushing, Mending
<1>6. CASE ~(e(p) = None \/ Clean(e(p)))
  <2>1. e(p) # None /\ e(p).dirty
    BY <1>6 DEF Clean
  <2>2. Owed(e(p), data[job[q].i][p], store[p])
    BY <1>1, <1>4, <2>1, DirtyIsOwed DEF Changing, Flushing, Mending
  <2>3. e(p) \in Entry
    BY <1>2, <1>4, <2>1, Typed
  <2>. DEFINE f == [k(p) EXCEPT !.e = e(p), !.at = IF e(p).deleted THEN "expunge" ELSE "compare"]
  <2>4. Goto(q, f)
    BY <1>3, <1>6
  <2>5. /\ f.i = job[q].i /\ f.req = job[q].req /\ f.err = job[q].err
        /\ f.todo = job[q].todo \ {p} /\ f.p = p /\ f.e = e(p)
        /\ f.at = IF e(p).deleted THEN "expunge" ELSE "compare"
    BY <1>1, <1>2 DEF Job
  <2>6. Fit(q, f, entries[f.i], data[f.i], store)
    <3>. HIDE DEF f
    <3>. QED  BY <1>1, <1>2, <2>2, <2>3, <2>5 DEF Fit, InCall, Ready, Flushing, Mending, Entry
  <2>. HIDE DEF f, e
  <2>7. f.at \in {"expunge", "compare"}
    BY <2>5
  <2>. QED  BY <1>1, <2>4, <2>5, <2>6, <2>7, StayStep DEF Changing, Flushing, Mending
<1>. QED  BY <1>5, <1>6

LEMMA FlushEndTurn ==
    ASSUME TurnInv, TypeInv', Announcing = Instance, NEW q \in Process, FlushEnd(q) PROVE TurnInv'
<1>1. job[q].at = "next" /\ job[q].todo = {} /\ UNCHANGED <<cacheVars, store, natsVars, listener>>
  BY DEF FlushEnd, At
<1>2. /\ job[q] \in Job /\ Fit(q, job[q], entries[job[q].i], data[job[q].i], store)
      /\ job[q].i \in Instance
  BY <1>1, Alone
<1>. DEFINE j == [job[q] EXCEPT !.err = IF job[q].ok THEN "none" ELSE @]
<1>3. j \in Job /\ j.i = job[q].i /\ j.req = job[q].req /\ j.err = "none"
  BY <1>1, <1>2 DEF Job, Fit, InCall
<1>4. Ends(q, j)
  BY DEF FlushEnd
<1>. HIDE DEF j
<1>5. \A p \in Path : ~Owed(entries[j.i][p], data[j.i][p], store[p])
  BY <1>1, <1>2, <1>3 DEF Fit, Ready, Owed, Flushing
<1>. QED  BY <1>1, <1>3, <1>4, <1>5, EndStep DEF cacheVars, Mending

LEMMA FlushCompareTurn ==
    ASSUME TurnInv, TypeInv', NEW q \in Process, FlushCompare(q) PROVE TurnInv'
<1>1. job[q].at = "compare" /\ UNCHANGED <<cacheVars, store, natsVars, listener>>
  BY DEF FlushCompare, At, jobOnly
<1>2. job[q] \in Job /\ Fit(q, job[q], entries[job[q].i], data[job[q].i], store)
  BY <1>1, Alone
<1>3. ~RemoteChanged(store[job[q].p], job[q].e.tag)
  BY <1>1, <1>2 DEF RemoteChanged, Fit, Ready, Owed
<1>. DEFINE j == [job[q] EXCEPT !.at = "export", !.e = None]
<1>4. Goto(q, j)
  BY <1>3 DEF FlushCompare
<1>5. /\ j.i = job[q].i /\ j.req = job[q].req /\ j.at = "export" /\ j.err = job[q].err
      /\ j.p = job[q].p /\ j.todo = job[q].todo
  BY <1>2 DEF Job
<1>. HIDE DEF j
<1>6. Fit(q, j, entries[j.i], data[j.i], store)
  BY <1>1, <1>2, <1>5 DEF Fit, InCall, Ready, Flushing, Mending
<1>. QED  BY <1>1, <1>4, <1>5, <1>6, StayStep DEF Changing, Flushing, Mending

LEMMA FlushTagTurn ==
    ASSUME TurnInv, TypeInv', NEW q \in Process, FlushTag(q) PROVE TurnInv'
<1>1. job[q].at = "tag" /\ UNCHANGED <<cacheVars, store, natsVars, listener>>
  BY DEF FlushTag, At, jobOnly
<1>2. job[q] \in Job /\ Fit(q, job[q], entries[job[q].i], data[job[q].i], store)
  BY <1>1, Alone
<1>. DEFINE j == [job[q] EXCEPT !.at = "clean", !.c = store[job[q].p]]
<1>3. Goto(q, j)
  BY DEF FlushTag
<1>4. /\ j.i = job[q].i /\ j.req = job[q].req /\ j.at = "clean" /\ j.err = job[q].err
      /\ j.p = job[q].p /\ j.todo = job[q].todo /\ j.c = store[job[q].p]
  BY <1>2 DEF Job
<1>. HIDE DEF j
<1>5. Fit(q, j, entries[j.i], data[j.i], store)
  BY <1>1, <1>2, <1>4 DEF Fit, InCall, Ready, Flushing, Mending
<1>. QED  BY <1>1, <1>3, <1>4, <1>5, StayStep DEF Changing, Flushing, Mending

(* What flush is about to export, where it is.                             *)
LEMMA InFlush ==
    ASSUME TurnInv, NEW q \in Process, job[q].at \in Flushing \ {"next"}
    PROVE  /\ job[q].at \notin {"idle", "reply"} /\ TypeInv
           /\ job[q] \in Job /\ Located(job[q])
           /\ Fit(q, job[q], entries[job[q].i], data[job[q].i], store)
           /\ Mine(q) \in Entry \cup {None}
           /\ job[q].at \in {"export", "expunge"} =>
                 /\ Changes(job[q], job[q].p)
                 /\ Owed(Mine(q), data[job[q].i][job[q].p], store[job[q].p])
<1>1. job[q].at \notin {"idle", "reply"} /\ job[q].at \notin Pathless
  BY DEF Flushing, Mending, Pathless
<1>2. /\ TypeInv /\ job[q] \in Job /\ Located(job[q]) /\ Mine(q) \in Entry \cup {None}
      /\ Fit(q, job[q], entries[job[q].i], data[job[q].i], store)
  BY <1>1, Alone, AtPath DEF TurnInv
<1>3. ASSUME job[q].at \in {"export", "expunge"}
      PROVE  /\ Changes(job[q], job[q].p)
             /\ Owed(Mine(q), data[job[q].i][job[q].p], store[job[q].p])
  <2>1. Owed(Mine(q), data[job[q].i][job[q].p], store[job[q].p])
    BY <1>2, <1>3 DEF Fit, Ready, Mine
  <2>. QED  BY <1>2, <1>3, <2>1, DirtyIsOwed DEF Owed, Mine, Located, Changing, Flushing, Mending
<1>. QED  BY <1>1, <1>2, <1>3

LEMMA FlushWriteTurn ==
    ASSUME TurnInv, TypeInv', NEW q \in Process, FlushWrite(q) PROVE TurnInv'
<1>. DEFINE r == job[q].p
            d == data[job[q].i][r]
            j == [job[q] EXCEPT !.at = "tag"]
<1>1. job[q].at = "export" /\ UNCHANGED <<cacheVars, natsVars, listener>>
  BY DEF FlushWrite, At, jobOnly
<1>2. /\ TypeInv /\ job[q] \in Job /\ Located(job[q]) /\ Mine(q) \in Entry \cup {None}
      /\ Fit(q, job[q], entries[job[q].i], data[job[q].i], store)
      /\ Changes(job[q], r) /\ Owed(Mine(q), d, store[r])
  BY <1>1, InFlush DEF Flushing
<1>3. ~Mine(q).deleted
  BY <1>1, <1>2 DEF Fit, Ready, Mine
<1>4. d # None /\ Mine(q).cached /\ Mine(q) # None
  BY <1>2, <1>3 DEF Owed
<1>5. store' = [store EXCEPT ![r] = d] /\ job' = [job EXCEPT ![q] = j]
  BY <1>4 DEF FlushWrite, Onward, Goto
<1>6. store'[r] = d
  BY <1>2, <1>5, Typed DEF Located
<1>7. /\ j.i = job[q].i /\ j.req = job[q].req /\ j.at = "tag" /\ j.err = job[q].err
      /\ j.p = job[q].p /\ j.todo = job[q].todo
  BY <1>2 DEF Job
<1>. HIDE DEF j
<1>8. Fit(q, j, entries[job[q].i], data[job[q].i], store')
  BY <1>1, <1>2, <1>3, <1>4, <1>6, <1>7 DEF Fit, InCall, Ready, Flushing, Mending, Mine
<1>9. \A e : Explains(j, job[q].i, r, e, d, store'[r])
  BY <1>1, <1>2, <1>7 DEF Explains, Changes, Changing, Flushing, Mending
<1>10. j.at \in Changing \ {"publish"}
  BY <1>7 DEF Changing, Flushing, Mending
<1>11. entries' = entries /\ data' = data /\ store' = [store EXCEPT ![r] = store'[r]]
  BY <1>1, <1>5, <1>6 DEF cacheVars
<1>12. /\ Fit(q, j, entries'[job[q].i], data'[job[q].i], store')
       /\ Explains(j, job[q].i, r, entries'[job[q].i][r], data'[job[q].i][r], store'[r])
  BY <1>8, <1>9, <1>11
<1>. HIDE DEF r, d
<1>. QED  BY <1>1, <1>2, <1>5, <1>7, <1>10, <1>11, <1>12, HereStep DEF r

LEMMA MarkCleanTurn ==
    ASSUME TurnInv, TypeInv', NEW q \in Process, MarkClean(q) PROVE TurnInv'
<1>. DEFINE r == job[q].p
            d == data[job[q].i][r]
            e == Cleaned(Mine(q), job[q].c)
            j == Through(q)
<1>1. job[q].at = "clean" /\ UNCHANGED <<data, store, natsVars, listener>>
  BY DEF MarkClean, At, jobOnly
<1>2. /\ TypeInv /\ job[q] \in Job /\ Located(job[q]) /\ Mine(q) \in Entry \cup {None}
      /\ Fit(q, job[q], entries[job[q].i], data[job[q].i], store)
  BY <1>1, InFlush DEF Flushing, Mending
<1>3. Mine(q) # None /\ Mine(q) \in Entry /\ job[q].c = store[r] /\ store[r] # None /\ d = store[r]
  BY <1>1, <1>2 DEF Fit, Ready, Mine
<1>4. entries' = [entries EXCEPT ![job[q].i][r] = e] /\ job' = [job EXCEPT ![q] = j]
  BY <1>3 DEF MarkClean, SetEntry, Goto
<1>5. Fresh(e, d, store[r]) /\ ~e.dirty
  BY <1>3 DEF Fresh, Cleaned, Entry
<1>6. /\ j.i = job[q].i /\ j.req = job[q].req /\ j.at = "next" /\ j.err = job[q].err
      /\ j.p = job[q].p /\ j.todo = job[q].todo
  BY <1>2 DEF Job, Through
<1>. HIDE DEF e, j
<1>7. /\ entries'[job[q].i][r] = e
      /\ \A p \in Path \ {r} : entries'[job[q].i][p] = entries[job[q].i][p]
  BY <1>2, <1>4, PutAt, Typed DEF Located
<1>8. Fit(q, j, entries'[job[q].i], data[job[q].i], store)
  BY <1>1, <1>2, <1>5, <1>6, <1>7 DEF Fit, InCall, Ready, Flushing, Mending
<1>9. j.at \in Changing \ {"publish"} /\ job[q].at \notin {"idle", "reply"}
  BY <1>1, <1>6 DEF Changing, Flushing, Mending
<1>10. /\ Fit(q, j, entries'[job[q].i], data'[job[q].i], store')
       /\ Fresh(entries'[job[q].i][r], data'[job[q].i][r], store'[r])
  BY <1>1, <1>5, <1>7, <1>8
<1>11. entries' = [entries EXCEPT ![job[q].i][r] = entries'[job[q].i][r]] /\ data' = data /\ store' = store
  BY <1>1, <1>4, <1>7
<1>. HIDE DEF r
<1>. QED  BY <1>1, <1>2, <1>4, <1>6, <1>9, <1>10, <1>11, HereStep DEF r

LEMMA FlushDeleteTurn ==
    ASSUME TurnInv, TypeInv', NEW q \in Process, FlushDelete(q) PROVE TurnInv'
<1>. DEFINE r == job[q].p
            j == [job[q] EXCEPT !.at = "forget"]
<1>1. job[q].at = "expunge" /\ UNCHANGED <<cacheVars, natsVars, listener>>
  BY DEF FlushDelete, At, jobOnly
<1>2. /\ TypeInv /\ job[q] \in Job /\ Located(job[q])
      /\ Fit(q, job[q], entries[job[q].i], data[job[q].i], store)
      /\ Changes(job[q], r)
  BY <1>1, InFlush DEF Flushing
<1>3. store' = [store EXCEPT ![r] = None] /\ job' = [job EXCEPT ![q] = j]
  BY DEF FlushDelete, Onward, Goto
<1>4. store'[r] = None
  BY <1>2, <1>3, Typed DEF Located
<1>5. /\ j.i = job[q].i /\ j.req = job[q].req /\ j.at = "forget" /\ j.err = job[q].err
      /\ j.p = job[q].p /\ j.todo = job[q].todo
  BY <1>2 DEF Job
<1>. HIDE DEF j
<1>6. Fit(q, j, entries[job[q].i], data[job[q].i], store')
  BY <1>1, <1>2, <1>4, <1>5 DEF Fit, InCall, Ready, Flushing, Mending
<1>7. \A e, d : Explains(j, job[q].i, r, e, d, store'[r])
  BY <1>1, <1>2, <1>5 DEF Explains, Changes, Changing, Flushing, Mending
<1>8. j.at \in Changing \ {"publish"}
  BY <1>5 DEF Changing, Flushing, Mending
<1>9. entries' = entries /\ data' = data /\ store' = [store EXCEPT ![r] = store'[r]]
  BY <1>1, <1>3, <1>4 DEF cacheVars
<1>10. /\ Fit(q, j, entries'[job[q].i], data'[job[q].i], store')
       /\ Explains(j, job[q].i, r, entries'[job[q].i][r], data'[job[q].i][r], store'[r])
  BY <1>6, <1>7, <1>9
<1>. HIDE DEF r
<1>. QED  BY <1>1, <1>2, <1>3, <1>5, <1>8, <1>9, <1>10, HereStep DEF r

LEMMA RemoveEntryTurn ==
    ASSUME TurnInv, TypeInv', NEW q \in Process, RemoveEntry(q) PROVE TurnInv'
<1>. DEFINE r == job[q].p
            j == Through(q)
<1>1. job[q].at = "forget" /\ UNCHANGED <<store, natsVars, listener>>
  BY DEF RemoveEntry, At, jobOnly
<1>2. /\ TypeInv /\ job[q] \in Job /\ Located(job[q])
      /\ Fit(q, job[q], entries[job[q].i], data[job[q].i], store)
  BY <1>1, InFlush DEF Flushing, Mending
<1>3. /\ entries' = [entries EXCEPT ![job[q].i][r] = None]
      /\ data' = [data EXCEPT ![job[q].i][r] = None]
      /\ job' = [job EXCEPT ![q] = j]
  BY DEF RemoveEntry, SetEntry, SetData, Goto
<1>4. /\ j.i = job[q].i /\ j.req = job[q].req /\ j.at = "next" /\ j.err = job[q].err
      /\ j.p = job[q].p /\ j.todo = job[q].todo
  BY <1>2 DEF Job, Through
<1>. HIDE DEF j
<1>5. /\ entries'[job[q].i][r] = None /\ data'[job[q].i][r] = None
      /\ \A p \in Path \ {r} : entries'[job[q].i][p] = entries[job[q].i][p]
  BY <1>2, <1>3, PutAt, Typed DEF Located
<1>6. Fit(q, j, entries'[job[q].i], data'[job[q].i], store')
  BY <1>1, <1>2, <1>4, <1>5 DEF Fit, InCall, Ready, Flushing, Mending
<1>7. Fresh(entries'[job[q].i][r], data'[job[q].i][r], store'[r])
  BY <1>5 DEF Fresh
<1>8. j.at \in Changing \ {"publish"} /\ job[q].at \notin {"idle", "reply"}
  BY <1>1, <1>4 DEF Changing, Flushing, Mending
<1>9. /\ entries' = [entries EXCEPT ![job[q].i][r] = entries'[job[q].i][r]]
      /\ data' = [data EXCEPT ![job[q].i][r] = data'[job[q].i][r]]
      /\ store' = store
  BY <1>1, <1>3, <1>5
<1>. HIDE DEF r
<1>. QED  BY <1>1, <1>2, <1>3, <1>4, <1>6, <1>7, <1>8, <1>9, HereStep DEF r

LEMMA ProceedsTurn ==
    ASSUME TurnInv, TypeInv', Announcing = Instance, NEW q \in Process, Proceeds(q) PROVE TurnInv'
<1>1. ~FlushConflict(q)
  <2>1. ~(job[q].at = "lose")
    BY Alone DEF Fit, InCall
  <2>. QED  BY <2>1 DEF FlushConflict, At
<1>. QED  BY <1>1, StatTurn, ImportMetaTurn, ReadRangeTurn, FillCacheTurn, WriteHeadTurn, WritePutTurn,
           DeletePathTurn, FlushScanTurn, FlushPathTurn, FlushEndTurn, FlushCompareTurn,
           FlushWriteTurn, FlushTagTurn, MarkCleanTurn, FlushDeleteTurn, RemoveEntryTurn DEF Proceeds

-----------------------------------------------------------------------------
(* Calls arrive and requests are taken when every entry is fresh.          *)

LEMMA OneElement ==
    ASSUME NEW S
    PROVE  /\ \A x \in S : Append(<<>>, x) = <<x>>
           /\ \A s \in Seq(S) : Len(s) = 1 => Tail(s) = <<>> /\ Head(s) = s[1] /\ s[1] \in S
<1>1. ASSUME NEW x \in S PROVE Append(<<>>, x) = <<x>>
  <2>1. <<>> \in Seq(S) /\ <<x>> \in Seq(S) /\ Append(<<>>, x) \in Seq(S)
    OBVIOUS
  <2>2. Len(Append(<<>>, x)) = 1 /\ Append(<<>>, x)[1] = x
    BY AppendProperties, <2>1
  <2>3. Len(<<x>>) = 1 /\ <<x>>[1] = x
    OBVIOUS
  <2>. QED  BY <2>1, <2>2, <2>3, SeqEqual
<1>2. ASSUME NEW s \in Seq(S), Len(s) = 1 PROVE Tail(s) = <<>> /\ Head(s) = s[1] /\ s[1] \in S
  <2>1. s # <<>>
    BY <1>2, EmptySeq
  <2>2. Head(s) \in S /\ Tail(s) \in Seq(S) /\ Len(Tail(s)) = 0 /\ Head(s) = s[1]
    BY <1>2, <2>1, HeadTailProperties
  <2>. QED  BY <2>2, EmptySeq
<1>. QED  BY <1>1, <1>2

LEMMA NotDead == ASSUME TurnInv, NEW q \in Process PROVE job[q].at # "dead"
BY DEF TurnInv, Fit, InCall

LEMMA NothingTold ==
    ASSUME TurnInv, \A q \in Process : ~Active(q), Unheard = {}
    PROVE  \A i \in Instance, p \in Path : Fresh(entries[i][p], data[i][p], store[p])
<1>1. \A i \in Instance, p \in Path : ~Told(i, p)
  BY DEF Unheard, Told
<1>. QED  BY <1>1, AtRest DEF Active

LEMMA ArrivesTurn ==
    ASSUME TurnInv, TypeInv', Quiet, NEW c \in Client, Arrives(c) PROVE TurnInv'
<1>1. /\ \A q \in Process : ~Active(q) /\ job[q].at = "idle"
      /\ \A i \in Instance : inbox[i] = <<>> /\ events[i] = <<>> /\ listener[i] = <<>>
      /\ TypeInv
  BY NotDead DEF Quiet, Active, TurnInv
<1>2. \A i \in Instance, p \in Path : Fresh(entries[i][p], data[i][p], store[p])
  BY <1>1, NothingTold DEF Unheard
<1>3. UNCHANGED <<cacheVars, store, events, listener>>
  BY DEF Arrives, ReadLocally, Send, natsVars
<1>4. \A i \in Instance, p \in Path : Expected(i, p)'
  BY <1>2, <1>3 DEF Expected, cacheVars
<1>5. ASSUME NEW i \in Instance, NEW p \in Path, ReadLocally(c, i, p) PROVE TurnInv'
  <2>. DEFINE j == Start("stat", i, [NoRequest EXCEPT !.op = "read", !.p = p])
  <2>1. Reader(c) \in Process /\ Reader(c)[2] = "read"
    BY DEF Reader, Process
  <2>2. job'[Reader(c)] = j /\ \A q \in Process \ {Reader(c)} : job'[q] = job[q]
    BY <1>1, <1>5, <2>1, Tails DEF ReadLocally
  <2>3. j.at = "stat" /\ j.req.op = "read" /\ j.err = "none"
    BY DEF Start, NoRequest
  <2>. HIDE DEF j
  <2>4. \A es, ds, st : Fit(Reader(c), j, es, ds, st)
    BY <2>1, <2>3 DEF Fit, InCall, Ready, Flushing, Mending
  <2>5. \A i1 \in Instance : inbox'[i1] = <<>> /\ events'[i1] = <<>> /\ listener'[i1] = <<>>
    BY <1>1, <1>5 DEF ReadLocally, natsVars
  <2>6. \A q \in Process : Fit(q, job[q], entries[job[q].i], data[job[q].i], store)'
    BY <1>1, <2>2, <2>4 DEF Fit
  <2>7. \A q \in Process : job'[q].at # "idle" => q = Reader(c)
    BY <1>1, <2>2
  <2>8. InTurn'
    BY <2>5, <2>7 DEF InTurn, Active, Unserved, Unheard
  <2>. QED  BY <1>4, <2>5, <2>6, <2>8 DEF TurnInv, Queued, Unlinked
<1>6. ASSUME NEW i \in Instance, NEW req \in Requests, Send(c, i, req) PROVE TurnInv'
  <2>1. PICK k \in Instance : inbox' = [inbox EXCEPT ![k] = Append(@, [req EXCEPT !.from = c])]
    BY <1>6 DEF Send
  <2>. DEFINE r == [req EXCEPT !.from = c]
  <2>2. r.op # "read" /\ (r.op = "write" => r.d # None)
    BY DistributedAssumption DEF Requests, NoRequest
  <2>. HIDE DEF r
  <2>3. inbox'[k] = <<r>> /\ \A m \in Instance \ {k} : inbox'[m] = <<>>
    BY <1>1, <2>1, Tails, OneElement DEF r
  <2>4. Len(inbox'[k]) = 1 /\ inbox'[k][1] = r /\ inbox'[k] # <<>>
    BY <2>3
  <2>5. Queued'
    BY <2>2, <2>3, <2>4 DEF Queued
  <2>6. job' = job
    BY <1>6 DEF Send
  <2>7. \A m \in Instance : events'[m] = <<>> /\ listener'[m] = <<>>
    BY <1>1, <1>3
  <2>8. \A q \in Process : job'[q].at = "idle"
    BY <1>1, <2>6
  <2>9. Unheard' = {} /\ \A m \in Unserved' : m = k
    BY <2>3, <2>7 DEF Unheard, Unserved
  <2>10. InTurn'
    BY <2>8, <2>9 DEF InTurn, Active
  <2>. QED  BY <1>4, <2>5, <2>7, <2>8, <2>10 DEF TurnInv, Unlinked, Fit
<1>. QED  BY <1>5, <1>6 DEF Arrives

LEMMA TakeRequestTurn ==
    ASSUME TurnInv, TypeInv', NEW i \in Instance, TakeRequest(i) PROVE TurnInv'
<1>. DEFINE req == Head(inbox[i])
            first == CASE req.op \in {"stat", "rename"} -> "stat"
                       [] req.op = "write" -> "head"
                       [] req.op = "delete" -> "tomb"
                       [] OTHER -> "scan"
            j == Start(first, i, req)
<1>1. /\ Unserved = {i} /\ Unheard = {} /\ \A q \in Process : ~Active(q) /\ job[q].at = "idle"
      /\ TypeInv /\ inbox[i] # <<>>
  BY DEF TakeRequest, TurnInv, InTurn, Unserved, Active
<1>2. \A k \in Instance, p \in Path : Fresh(entries[k][p], data[k][p], store[p])
  BY <1>1, NothingTold
<1>3. UNCHANGED <<cacheVars, store, events, listener>>
  BY DEF TakeRequest
<1>4. \A k \in Instance, p \in Path : Expected(k, p)'
  BY <1>2, <1>3 DEF Expected, cacheVars
<1>5. /\ inbox[i] \in Seq(Wanted) /\ Len(inbox[i]) = 1
      /\ inbox[i][1].op # "read" /\ (inbox[i][1].op = "write" => inbox[i][1].d # None)
  BY <1>1, Tails DEF TurnInv, Queued
<1>6. Tail(inbox[i]) = <<>> /\ req = inbox[i][1] /\ req \in Wanted
  BY <1>5, OneElement
<1>7. Worker(i) \in Process /\ Worker(i)[2] = "worker" /\ Worker(i)[1] = i
  BY DEF Worker, Process
<1>8. job'[Worker(i)] = j /\ \A q \in Process \ {Worker(i)} : job'[q] = job[q]
  BY <1>1, <1>7, Tails DEF TakeRequest, Goto
<1>9. /\ j.at = first /\ j.i = i /\ j.p = req.p /\ j.d = req.d /\ j.err = "none"
      /\ j.req.op = req.op /\ j.req.p = req.p
  BY <1>6 DEF Start, Wanted, Request
<1>10. /\ first \in {"stat", "head", "tomb", "scan"}
       /\ first = "stat" => req.op \in {"stat", "rename"}
       /\ first = "head" => req.op = "write"
       /\ first = "tomb" => req.op = "delete"
  OBVIOUS
<1>. HIDE DEF req, first, j
<1>11. \A es, ds, st : Fit(Worker(i), j, es, ds, st)
  BY <1>5, <1>6, <1>7, <1>9, <1>10 DEF Fit, InCall, Ready, Flushing, Mending
<1>12. \A k \in Instance : inbox'[k] = <<>> /\ events'[k] = <<>> /\ listener'[k] = <<>>
  BY <1>1, <1>3, <1>6, Tails DEF TakeRequest, Unserved, Unheard
<1>13. \A q \in Process : Fit(q, job[q], entries[job[q].i], data[job[q].i], store)'
  BY <1>1, <1>8, <1>11 DEF Fit
<1>14. \A q \in Process : job'[q].at # "idle" => q = Worker(i)
  BY <1>1, <1>8
<1>15. InTurn'
  BY <1>12, <1>14 DEF InTurn, Active, Unserved, Unheard
<1>. QED  BY <1>4, <1>12, <1>13, <1>15 DEF TurnInv, Queued, Unlinked

-----------------------------------------------------------------------------
(* A mutation is announced, and the others forget what it has changed.     *)

LEMMA PublishEventTurn ==
    ASSUME TurnInv, TypeInv', NEW i \in Instance, PublishEvent(i) PROVE TurnInv'
<1>. DEFINE q == Worker(i)
            event == [origin |-> i, paths |-> EventPaths(job[q].req)]
            j == [job[q] EXCEPT !.at = "reply"]
<1>1. q \in Process /\ q[2] = "worker" /\ q[1] = i
  BY DEF Worker, Process
<1>2. job[q].at = "publish" /\ UNCHANGED <<cacheVars, store, inbox, listener>>
  BY DEF PublishEvent, At
<1>3. /\ \A r \in Process \ {q} : job[r].at = "idle"
      /\ \A k \in Instance : inbox[k] = <<>> /\ events[k] = <<>> /\ listener[k] = <<>>
      /\ \A k \in Instance, p \in Path :
            \/ Fresh(entries[k][p], data[k][p], store[p])
            \/ Explains(job[q], k, p, entries[k][p], data[k][p], store[p])
      /\ job[q] \in Job /\ Fit(q, job[q], entries[job[q].i], data[job[q].i], store)
      /\ TypeInv
  BY <1>1, <1>2, Alone DEF TurnInv
<1>4. job[q].i = i
  BY <1>1, <1>2, <1>3 DEF Fit
<1>5. job'[q] = j /\ \A r \in Process \ {q} : job'[r] = job[r]
  BY <1>1, <1>3, Tails DEF PublishEvent, Onward, Goto
<1>6. j.at = "reply" /\ j.i = i
  BY <1>3, <1>4 DEF Job
<1>7. \A k \in Instance : events'[k] = <<event>>
  BY <1>3, OneElement DEF PublishEvent
<1>8. ASSUME NEW p \in Path, Changes(job[q], p)
      PROVE  \E m \in DOMAIN EventPaths(job[q].req) : EventPaths(job[q].req)[m] = p
  <2>1. CASE job[q].req.op = "rename"
    <3>1. EventPaths(job[q].req) = <<job[q].req.p, job[q].req.to>>
      BY <2>1 DEF EventPaths
    <3>2. p = job[q].req.p \/ p = job[q].req.to
      BY <1>8, <2>1 DEF Changes, Affected
    <3>. QED  BY <3>1, <3>2
  <2>2. CASE job[q].req.op # "rename"
    <3>1. EventPaths(job[q].req) = <<job[q].req.p>>
      BY <2>2 DEF EventPaths
    <3>2. p = job[q].req.p
      BY <1>8, <2>2 DEF Changes, Affected
    <3>. QED  BY <3>1, <3>2
  <2>. QED  BY <2>1, <2>2
<1>. HIDE DEF j
<1>9. ASSUME NEW k \in Instance, NEW p \in Path PROVE Expected(k, p)'
  <2>1. /\ entries'[k][p] = entries[k][p] /\ data'[k][p] = data[k][p]
        /\ store'[p] = store[p]
    BY <1>2 DEF cacheVars
  <2>2. CASE Fresh(entries[k][p], data[k][p], store[p])
    BY <2>1, <2>2 DEF Expected
  <2>3. CASE Explains(job[q], k, p, entries[k][p], data[k][p], store[p])
    <3>1. Changes(job[q], p) /\ k # i /\ Clean(entries[k][p])
      BY <1>2, <1>4, <2>3 DEF Explains
    <3>2. PICK m \in DOMAIN EventPaths(job[q].req) : EventPaths(job[q].req)[m] = p
      BY <1>8, <3>1
    <3>3. 1 \in DOMAIN events'[k] /\ events'[k][1] = event
      BY <1>7
    <3>4. event.origin # k /\ m \in DOMAIN event.paths /\ event.paths[m] = p
      BY <3>1, <3>2
    <3>. HIDE DEF event
    <3>5. Told(k, p)'
      BY <3>3, <3>4 DEF Told
    <3>. QED  BY <2>1, <3>1, <3>5 DEF Expected
  <2>. QED  BY <1>3, <2>2, <2>3
<1>10. \A r \in Process : Fit(r, job[r], entries[job[r].i], data[job[r].i], store)'
  <2>1. \A es, ds, st : Fit(q, j, es, ds, st)
    BY <1>1, <1>6 DEF Fit, InCall, Ready, Flushing, Mending
  <2>. HIDE DEF q
  <2>. QED  BY <1>3, <1>5, <2>1 DEF Fit
<1>11. \A r \in Process : job'[r].at # "idle" => r = q /\ job'[r].at = "reply"
  BY <1>3, <1>5, <1>6
<1>12. \A k \in Instance : inbox'[k] = <<>> /\ listener'[k] = <<>>
  BY <1>2, <1>3
<1>13. InTurn'
  <2>1. Unserved' = {}
    BY <1>12 DEF Unserved
  <2>. HIDE DEF q
  <2>. QED  BY <1>11, <2>1 DEF InTurn, Active
<1>. QED  BY <1>9, <1>10, <1>12, <1>13 DEF TurnInv, Queued, Unlinked

(* What a step that is none of a job's has to establish then.              *)
LEMMA RestStep ==
    ASSUME TurnInv, TypeInv', \A q \in Process : job[q].at \in {"idle", "reply"}, Unserved = {},
           \A q \in Process : job'[q] = job[q] \/ job'[q].at = "idle",
           inbox' = inbox, Unlinked',
           \A i \in Instance, p \in Path :
              \/ Fresh(entries[i][p], data[i][p], store[p])
              \/ Clean(entries[i][p]) /\ Told(i, p)
              => \/ Fresh(entries'[i][p], data'[i][p], store'[p])
                 \/ Clean(entries'[i][p]) /\ Told(i, p)'
    PROVE  TurnInv'
<1>1. \A i \in Instance, p \in Path : Expected(i, p)'
  BY AtRest DEF Expected
<1>2. Unserved' = {}
  BY DEF Unserved
<1>3. Queued'
  BY <1>2 DEF Queued, Unserved
<1>4. InTurn'
  BY <1>2 DEF InTurn, Active, TurnInv
<1>5. ASSUME NEW q \in Process PROVE Fit(q, job[q], entries[job[q].i], data[job[q].i], store)'
  <2>1. CASE job'[q].at = "idle"
    BY <2>1 DEF Fit
  <2>2. CASE job'[q] = job[q] /\ job[q].at = "reply"
    <3>1. Fit(q, job[q], entries[job[q].i], data[job[q].i], store)
      BY DEF TurnInv
    <3>. QED  BY <2>2, <3>1 DEF Fit, InCall, Ready, Flushing, Mending
  <2>. QED  BY <2>1, <2>2
<1>. QED  BY <1>1, <1>3, <1>4, <1>5 DEF TurnInv

LEMMA ReplyTurn ==
    ASSUME TurnInv, TypeInv', NEW i \in Instance, Reply(i) PROVE TurnInv'
<1>1. Worker(i) \in Process /\ job[Worker(i)].at = "reply"
  BY DEF Worker, Process, Reply, At
<1>2. (\A q \in Process : job[q].at \in {"idle", "reply"}) /\ Unserved = {}
  BY <1>1 DEF TurnInv, InTurn, Active
<1>3. \A q \in Process : job'[q] = job[q] \/ job'[q].at = "idle"
  BY <1>1, Tails DEF Reply, Goto, Idle, Start, TurnInv
<1>4. UNCHANGED <<cacheVars, store, inbox, events, listener>>
  BY DEF Reply, natsVars
<1>5. Unlinked'
  BY <1>4 DEF TurnInv, Unlinked, cacheVars
<1>6. \A k \in Instance, p \in Path : Told(k, p)' = Told(k, p)
  BY <1>4 DEF Told
<1>7. \A k \in Instance, p \in Path :
         \/ Fresh(entries[k][p], data[k][p], store[p])
         \/ Clean(entries[k][p]) /\ Told(k, p)
         => \/ Fresh(entries'[k][p], data'[k][p], store'[p])
            \/ Clean(entries'[k][p]) /\ Told(k, p)'
  BY <1>4, <1>6 DEF cacheVars
<1>. QED  BY <1>2, <1>3, <1>4, <1>5, <1>7, RestStep

(* Where events are heard nothing else happens but an answer.              *)
LEMMA Hearing ==
    ASSUME TurnInv, NEW i \in Instance, events[i] # <<>> \/ listener[i] # <<>>
    PROVE  /\ \A q \in Process : job[q].at \in {"idle", "reply"}
           /\ Unserved = {} /\ TypeInv /\ Unlinked
           /\ events[i] \in Seq(Event) /\ listener[i] \in Seq(Task)
<1>1. i \in Unheard
  BY DEF Unheard
<1>. QED  BY <1>1, Tails DEF TurnInv, InTurn

LEMMA HearEventTurn ==
    ASSUME TurnInv, TypeInv', NEW i \in Instance, HearEvent(i) PROVE TurnInv'
<1>. DEFINE event == Head(events[i])
            tasks == [k \in DOMAIN event.paths |-> [at |-> "look", p |-> event.paths[k]]]
<1>1. listener[i] = <<>> /\ events[i] # <<>> /\ UNCHANGED <<store, cacheVars, inbox, job>>
  BY DEF HearEvent
<1>2. /\ \A q \in Process : job[q].at \in {"idle", "reply"}
      /\ Unserved = {} /\ TypeInv /\ Unlinked /\ events[i] \in Seq(Event)
  BY <1>1, Hearing
<1>3. /\ listener'[i] = IF event.origin = i THEN <<>> ELSE tasks
      /\ events'[i] = Tail(events[i])
      /\ \A k \in Instance \ {i} : listener'[k] = listener[k] /\ events'[k] = events[k]
  BY <1>2, Tails DEF HearEvent
<1>4. /\ Len(events[i]) \in Nat \ {0} /\ DOMAIN events[i] = 1..Len(events[i])
      /\ event = events[i][1]
      /\ DOMAIN Tail(events[i]) = 1..(Len(events[i]) - 1)
      /\ \A k \in 1..(Len(events[i]) - 1) : Tail(events[i])[k] = events[i][k + 1]
  BY <1>1, <1>2, HeadTailProperties, LenProperties, EmptySeq
<1>5. Unlinked'
  <2>1. \A k \in DOMAIN listener'[i] : listener'[i][k].at # "unlink"
    BY <1>3
  <2>. QED  BY <1>1, <1>2, <1>3, <2>1 DEF Unlinked, cacheVars
<1>6. ASSUME NEW k \in Instance, NEW p \in Path, Told(k, p) PROVE Told(k, p)'
  <2>1. CASE k # i
    BY <1>3, <1>6, <2>1 DEF Told
  <2>2. CASE k = i
    <3>1. PICK n \in DOMAIN events[i] : /\ events[i][n].origin # i
                                        /\ \E m \in DOMAIN events[i][n].paths : events[i][n].paths[m] = p
      BY <1>1, <1>6, <2>2 DEF Told
    <3>2. CASE n = 1
      <4>1. PICK m \in DOMAIN event.paths : event.paths[m] = p
        BY <1>4, <3>1, <3>2
      <4>2. listener'[i] = tasks /\ m \in DOMAIN tasks /\ tasks[m].p = p /\ tasks[m].at # "unlink"
        BY <1>3, <1>4, <3>1, <3>2, <4>1
      <4>. HIDE DEF tasks
      <4>. QED  BY <2>2, <4>2 DEF Told
    <3>3. CASE n # 1
      <4>1. n - 1 \in DOMAIN events'[i] /\ events'[i][n - 1] = events[i][n]
        BY <1>3, <1>4, <3>3
      <4>. QED  BY <2>2, <3>1, <4>1 DEF Told
    <3>. QED  BY <3>2, <3>3
  <2>. QED  BY <2>1, <2>2
<1>7. \A k \in Instance, p \in Path :
         \/ Fresh(entries[k][p], data[k][p], store[p])
         \/ Clean(entries[k][p]) /\ Told(k, p)
         => \/ Fresh(entries'[k][p], data'[k][p], store'[p])
            \/ Clean(entries'[k][p]) /\ Told(k, p)'
  BY <1>1, <1>6 DEF cacheVars
<1>. QED  BY <1>1, <1>2, <1>5, <1>7, RestStep

(* The listener's first task ends, or goes on.                             *)
LEMMA Tasks ==
    ASSUME TurnInv, NEW i \in Instance, listener[i] # <<>>
    PROVE  /\ listener \in [Instance -> Seq(Task)]
           /\ Len(listener[i]) \in Nat \ {0} /\ DOMAIN listener[i] = 1..Len(listener[i])
           /\ Head(listener[i]) = listener[i][1] /\ listener[i][1] \in Task
           /\ DOMAIN Tail(listener[i]) = 1..(Len(listener[i]) - 1)
           /\ \A n \in 1..(Len(listener[i]) - 1) : Tail(listener[i])[n] = listener[i][n + 1]
           /\ \A n \in DOMAIN listener[i] : n # 1 => listener[i][n].at # "unlink"
<1>1. Unlinked /\ listener[i] \in Seq(Task) /\ listener \in [Instance -> Seq(Task)]
  BY Tails DEF TurnInv
<1>2. \A n \in DOMAIN listener[i] : n # 1 => listener[i][n].at # "unlink"
  BY <1>1 DEF Unlinked
<1>. QED  BY <1>1, <1>2, HeadTailProperties, LenProperties, EmptySeq, ElementOfSeq

LEMMA TaskEnds ==
    ASSUME TurnInv, NEW i \in Instance, listener[i] # <<>>, TaskDone(i), events' = events
    PROVE  /\ \A k \in Instance \ {i} : listener'[k] = listener[k]
           /\ \A n \in DOMAIN listener'[i] : listener'[i][n].at # "unlink"
           /\ \A p \in Path : Told(i, p) /\ p # Head(listener[i]).p => Told(i, p)'
<1>. DEFINE s == listener[i]
<1>1. listener'[i] = Tail(s) /\ \A k \in Instance \ {i} : listener'[k] = listener[k]
  BY Tasks DEF TaskDone
<1>2. \A n \in DOMAIN listener'[i] : listener'[i][n].at # "unlink"
  BY Tasks, <1>1
<1>3. ASSUME NEW p \in Path, Told(i, p), p # Head(s).p PROVE Told(i, p)'
  <2>1. CASE \E n \in DOMAIN s : s[n].p = p /\ s[n].at # "unlink"
    <3>1. PICK n \in DOMAIN s : s[n].p = p /\ s[n].at # "unlink"
      BY <2>1
    <3>2. n - 1 \in DOMAIN listener'[i] /\ listener'[i][n - 1] = s[n]
      BY Tasks, <1>1, <1>3, <3>1
    <3>. HIDE DEF s
    <3>. QED  BY <3>1, <3>2 DEF Told
  <2>. QED  BY <1>3, <2>1 DEF Told
<1>. QED  BY <1>1, <1>2, <1>3

LEMMA TaskMoves ==
    ASSUME TurnInv, NEW i \in Instance, listener[i] # <<>>, NEW at, NextPart(i, at), events' = events
    PROVE  /\ \A k \in Instance \ {i} : listener'[k] = listener[k]
           /\ DOMAIN listener'[i] = DOMAIN listener[i]
           /\ listener'[i][1] = [listener[i][1] EXCEPT !.at = at]
           /\ \A n \in DOMAIN listener[i] : n # 1 => listener'[i][n] = listener[i][n]
           /\ \A p \in Path : Told(i, p) /\ (p # Head(listener[i]).p \/ at # "unlink") => Told(i, p)'
<1>. DEFINE s == listener[i]
            t == listener'[i]
<1>1. /\ \A k \in Instance \ {i} : listener'[k] = listener[k]
      /\ t = [s EXCEPT ![1].at = at]
  BY Tasks DEF NextPart
<1>2. /\ DOMAIN t = DOMAIN s /\ 1 \in DOMAIN s
      /\ t[1] = [s[1] EXCEPT !.at = at]
      /\ \A n \in DOMAIN s : n # 1 => t[n] = s[n]
  BY Tasks, <1>1
<1>3. t[1].p = s[1].p /\ t[1].at = at
  BY Tasks, <1>2 DEF Task
<1>4. ASSUME NEW p \in Path, Told(i, p), p # Head(s).p \/ at # "unlink" PROVE Told(i, p)'
  <2>1. CASE \E n \in DOMAIN s : s[n].p = p /\ s[n].at # "unlink"
    <3>1. PICK n \in DOMAIN s : s[n].p = p /\ s[n].at # "unlink"
      BY <2>1
    <3>2. n \in DOMAIN t /\ t[n].p = p /\ t[n].at # "unlink"
      BY Tasks, <1>2, <1>3, <1>4, <3>1
    <3>. HIDE DEF s
    <3>. QED  BY <3>2 DEF Told
  <2>. QED  BY <1>4, <2>1 DEF Told
<1>. QED  BY <1>1, <1>2, <1>4

LEMMA InvalidateTurn ==
    ASSUME TurnInv, TypeInv', NEW i \in Instance, Invalidate(i) PROVE TurnInv'
<1>. DEFINE task == Head(listener[i])
            r == task.p
            Better(k, p) ==
               \/ Fresh(entries[k][p], data[k][p], store[p])
               \/ Clean(entries[k][p]) /\ Told(k, p)
               => \/ Fresh(entries'[k][p], data'[k][p], store'[p])
                  \/ Clean(entries'[k][p]) /\ Told(k, p)'
<1>1. listener[i] # <<>> /\ UNCHANGED <<store, inbox, job, events>>
  BY DEF Invalidate, natsVars
<1>2. /\ \A q \in Process : job[q].at \in {"idle", "reply"}
      /\ Unserved = {} /\ TypeInv /\ Unlinked
  BY <1>1, Hearing
<1>3. r \in Path /\ task = listener[i][1] /\ 1 \in DOMAIN listener[i]
  BY <1>1, Tasks DEF Task
<1>4. Fresh(entries[i][r], data[i][r], store[r]) \/ Clean(entries[i][r])
  BY <1>2, <1>3, AtRest
<1>5. ASSUME \A k \in Instance \ {i} :
                listener'[k] = listener[k] /\ entries'[k] = entries[k] /\ data'[k] = data[k]
      PROVE  /\ \A k \in Instance \ {i}, p \in Path : Better(k, p)
             /\ \A k \in Instance \ {i} : \A n \in DOMAIN listener'[k] :
                   listener'[k][n].at = "unlink" => n = 1 /\ entries'[k][listener'[k][n].p] = None
  <2>1. \A k \in Instance \ {i}, p \in Path : Told(k, p) => Told(k, p)'
    BY <1>1, <1>5 DEF Told
  <2>2. \A k \in Instance \ {i}, p \in Path : Better(k, p)
    BY <1>1, <1>5, <2>1
  <2>3. \A k \in Instance \ {i} : \A n \in DOMAIN listener'[k] :
           listener'[k][n].at = "unlink" => n = 1 /\ entries'[k][listener'[k][n].p] = None
    BY <1>2, <1>5 DEF Unlinked
  <2>. QED  BY <2>2, <2>3
<1>6. CASE UNCHANGED <<entries, data>> /\ Clean(entries[i][r]) /\ NextPart(i, "drop")
  <2>1. /\ \A k \in Instance \ {i} : listener'[k] = listener[k]
        /\ \A p \in Path : Told(i, p) => Told(i, p)'
        /\ DOMAIN listener'[i] = DOMAIN listener[i]
        /\ listener'[i][1] = [listener[i][1] EXCEPT !.at = "drop"]
        /\ \A n \in DOMAIN listener[i] : n # 1 => listener'[i][n] = listener[i][n]
    BY <1>1, <1>6, TaskMoves
  <2>2. \A n \in DOMAIN listener'[i] : listener'[i][n].at # "unlink"
    BY <1>1, <2>1, Tasks DEF Task
  <2>3. \A k \in Instance, p \in Path : Better(k, p)
    BY <1>1, <1>5, <1>6, <2>1
  <2>4. Unlinked'
    BY <1>5, <1>6, <2>1, <2>2 DEF Unlinked
  <2>. QED  BY <1>1, <1>2, <2>3, <2>4, RestStep
<1>7. CASE UNCHANGED <<entries, data>> /\ ~Clean(entries[i][r]) /\ TaskDone(i)
  <2>1. /\ \A k \in Instance \ {i} : listener'[k] = listener[k]
        /\ \A n \in DOMAIN listener'[i] : listener'[i][n].at # "unlink"
        /\ \A p \in Path : Told(i, p) /\ p # r => Told(i, p)'
    BY <1>1, <1>7, TaskEnds
  <2>2. \A k \in Instance, p \in Path : Better(k, p)
    BY <1>1, <1>4, <1>5, <1>7, <2>1
  <2>3. Unlinked'
    BY <1>5, <1>7, <2>1 DEF Unlinked
  <2>. QED  BY <1>1, <1>2, <2>2, <2>3, RestStep
<1>8. CASE entries' = [entries EXCEPT ![i][r] = None] /\ data' = data /\ NextPart(i, "unlink")
  <2>1. /\ \A k \in Instance \ {i} : listener'[k] = listener[k]
        /\ DOMAIN listener'[i] = DOMAIN listener[i]
        /\ listener'[i][1] = [listener[i][1] EXCEPT !.at = "unlink"]
        /\ \A n \in DOMAIN listener[i] : n # 1 => listener'[i][n] = listener[i][n]
        /\ \A p \in Path : Told(i, p) /\ p # r => Told(i, p)'
    BY <1>1, <1>8, TaskMoves
  <2>2. /\ entries'[i][r] = None
        /\ \A p \in Path \ {r} : entries'[i][p] = entries[i][p]
        /\ \A k \in Instance \ {i} : entries'[k] = entries[k]
    BY <1>2, <1>3, <1>8, PutAt, Typed
  <2>3. Fresh(entries'[i][r], data'[i][r], store'[r])
    BY <2>2 DEF Fresh
  <2>4. \A p \in Path : Better(i, p)
    BY <1>1, <1>8, <2>1, <2>2, <2>3
  <2>5. \A k \in Instance, p \in Path : Better(k, p)
    BY <1>5, <1>8, <2>1, <2>2, <2>4
  <2>6. \A n \in DOMAIN listener'[i] :
           listener'[i][n].at = "unlink" => n = 1 /\ entries'[i][listener'[i][n].p] = None
    BY <1>1, <1>3, <2>1, <2>2, Tasks DEF Task
  <2>7. Unlinked'
    BY <1>5, <1>8, <2>1, <2>2, <2>6 DEF Unlinked
  <2>. QED  BY <1>1, <1>2, <2>5, <2>7, RestStep
<1>9. CASE entries' = entries /\ data' = [data EXCEPT ![i][r] = None] /\ TaskDone(i) /\ task.at = "unlink"
  <2>1. /\ \A k \in Instance \ {i} : listener'[k] = listener[k]
        /\ \A n \in DOMAIN listener'[i] : listener'[i][n].at # "unlink"
        /\ \A p \in Path : Told(i, p) /\ p # r => Told(i, p)'
    BY <1>1, <1>9, TaskEnds
  <2>2. entries[i][r] = None
    BY <1>2, <1>3, <1>9 DEF Unlinked
  <2>3. /\ \A p \in Path \ {r} : data'[i][p] = data[i][p]
        /\ \A k \in Instance \ {i} : data'[k] = data[k]
    BY <1>2, <1>3, <1>9, PutAt, Typed
  <2>4. Fresh(entries'[i][r], data'[i][r], store'[r])
    BY <1>9, <2>2 DEF Fresh
  <2>5. \A p \in Path : Better(i, p)
    BY <1>1, <1>9, <2>1, <2>3, <2>4
  <2>6. \A k \in Instance, p \in Path : Better(k, p)
    BY <1>5, <1>9, <2>1, <2>3, <2>5
  <2>7. Unlinked'
    BY <1>5, <1>9, <2>1, <2>3 DEF Unlinked
  <2>. QED  BY <1>1, <1>2, <2>6, <2>7, RestStep
<1>. QED  BY <1>6, <1>7, <1>8, <1>9 DEF Invalidate

-----------------------------------------------------------------------------
LEMMA TurnInit == Init => TurnInv
<1>. SUFFICES ASSUME Init PROVE TurnInv
  OBVIOUS
<1>1. \A q \in Process : job[q].at = "idle"
  BY DEF Init, Idle, Start
<1>2. \A i \in Instance : inbox[i] = <<>> /\ events[i] = <<>> /\ listener[i] = <<>>
  BY DEF Init
<1>3. \A i \in Instance, p \in Path : Expected(i, p)
  BY DEF Init, Expected, Fresh
<1>4. InTurn
  BY <1>1, <1>2 DEF InTurn, Active, Unserved, Unheard
<1>. QED  BY <1>1, <1>2, <1>3, <1>4, TypeInit DEF TurnInv, Queued, Unlinked, Fit

LEMMA TurnNext == ASSUME Announcing = Instance, TurnInv, [PatientNext]_vars PROVE TurnInv'
<1>1. CASE UNCHANGED vars
  <2>1. TypeInv'
    BY <1>1, TypeNext DEF TurnInv
  <2>2. UNCHANGED <<store, entries, data, inbox, job, events, listener>>
    BY <1>1 DEF vars, cacheVars, natsVars
  <2>3. (InTurn /\ Queued /\ Unlinked)'
    BY <2>2 DEF TurnInv, InTurn, Queued, Unlinked, Active, Unserved, Unheard
  <2>4. \A i \in Instance, p \in Path : Expected(i, p)'
    BY <2>2 DEF TurnInv, Expected, Told
  <2>5. \A q \in Process : Fit(q, job[q], entries[job[q].i], data[job[q].i], store)'
    BY <2>2 DEF TurnInv
  <2>. QED  BY <2>1, <2>3, <2>4, <2>5 DEF TurnInv
<1>2. CASE PatientNext
  <2>1. Next
    BY <1>2 DEF PatientNext, Next
  <2>2. TypeInv'
    BY <2>1, TypeNext DEF TurnInv
  <2>. QED  BY <1>2, <2>2, ArrivesTurn, ProceedsTurn, TakeRequestTurn, PublishEventTurn, ReplyTurn,
              HearEventTurn, InvalidateTurn DEF PatientNext, Works, Listens
<1>. QED  BY <1>1, <1>2

(* While clients take turns and every instance announces what it changes,  *)
(* an entry that does not tell what the bucket holds is the doing of the   *)
(* one call under way, or an event not yet heard will remove it.           *)
THEOREM TurnsInvariant == Announcing = Instance => (PatientSpec => []TurnInv)
<1>. SUFFICES ASSUME Announcing = Instance PROVE PatientSpec => []TurnInv
  OBVIOUS
<1>1. TurnInv /\ [PatientNext]_vars => TurnInv'
  BY TurnNext
<1>. QED  BY TurnInit, <1>1, PTL DEF PatientSpec

(* When clients take turns no instance is left with a stale entry, however *)
(* many instances, clients, paths and calls there are (mark_clean,         *)
(* publish_event, invalidate_path).                                        *)
THEOREM CachesCohere == Announcing = Instance => (PatientSpec => []Coherent)
<1>. SUFFICES ASSUME Announcing = Instance PROVE PatientSpec => []Coherent
  OBVIOUS
<1>1. ASSUME TurnInv PROVE Coherent
  <2>. SUFFICES ASSUME Quiet, NEW i \in Instance, NEW p \in Path PROVE ~Stale(i, p)
    BY DEF Coherent
  <2>1. (\A q \in Process : ~Active(q)) /\ Unheard = {}
    BY <1>1, NotDead DEF Quiet, Active, Unheard
  <2>2. Fresh(entries[i][p], data[i][p], store[p])
    BY <1>1, <2>1, NothingTold
  <2>. QED  BY <2>2 DEF Stale, Fresh, Clean
<1>2. TurnInv => Coherent
  BY <1>1
<1>. QED  BY <1>2, TurnsInvariant, PTL

(* When clients take turns a read that is served from a cache returns what *)
(* the bucket holds, whichever instance it reaches (read_range).           *)
THEOREM ReadsAreFresh == Announcing = Instance => (PatientSpec => ReadsAgree)
<1>. SUFFICES ASSUME Announcing = Instance PROVE PatientSpec => ReadsAgree
  OBVIOUS
<1>. DEFINE Agree == \A q \in Process : ReadRange(q) /\ Serves(Mine(q))
                        => data[job[q].i][job[q].p] = store[job[q].p]
<1>1. ASSUME TurnInv PROVE Agree
  <2>. SUFFICES ASSUME NEW q \in Process, ReadRange(q), Serves(Mine(q))
                PROVE  data[job[q].i][job[q].p] = store[job[q].p]
    OBVIOUS
  <2>1. job[q].at = "read"
    BY DEF ReadRange, At
  <2>2. Fresh(Mine(q), data[job[q].i][job[q].p], store[job[q].p])
    BY <1>1, <2>1, AllFresh DEF Mine, Located
  <2>. QED  BY <2>2 DEF Fresh, Serves
<1>2. TurnInv => [Agree]_vars
  BY <1>1
<1>. QED  BY <1>2, TurnsInvariant, PTL DEF ReadsAgree

=============================================================================
