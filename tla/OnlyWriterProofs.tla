--------------------------- MODULE OnlyWriterProofs --------------------------
(***************************************************************************)
(* What one task (the command line, the FUSE mount) owes to the bytes it   *)
(* keeps, for all calls, backends and import rules: until a crash, an      *)
(* entry tells the truth about its data file, nothing half-written is      *)
(* exported or kept, and, as the only writer of the bucket, it serves      *)
(* whole files and never runs into a conflict with itself.                 *)
(***************************************************************************)
EXTENDS OneTaskProofs

-----------------------------------------------------------------------------
(* Which names a call works on, for any number of tasks: lost+found is     *)
(* only saved, dropped and expired.                                        *)

OnPath(name, s) ==
    /\ \/ s.at \in {"done", "tally", "expire"}
       \/ s.at \in Removing /\ s.by # "conflict"
       \/ name = "expire"
       \/ s.n \in Path
    /\ s.at = "expire" \/ (name = "expire" /\ s.at \in Putting) => Clean(s.e)

LoopOnPath(loop) ==
    \A i \in loop : /\ i.at \in {"put", "fpGet"} => i.n \in Path
                    /\ i.at = "expire" => Clean(i.e)

QueueOnPath(q) == \A i \in DOMAIN q : q[i].at # "tally" => q[i].n \in Path

(* What is under a name in lost+found is never dirty, and never exported.  *)
LostApart == \A l \in Lost : store[l] = None /\ Clean(entries[l]) /\ Clean(meta[l])

Places ==
    /\ LostApart
    /\ \A t \in Task : /\ op[t] \in Ops[t] \cup {"none", "dead"}
                       /\ OnPath(op[t], step[t])
                       /\ LoopOnPath(left[t]) /\ QueueOnPath(todo[t])

LEMMA NameParts == \A n : n \in Name <=> n \in Path \/ n \in Lost
BY DEF Name

LEMMA Disjoint == \A n : n \in Path => n \notin Lost
BY CacheAssumption

LEMMA OthersOnPath ==
    ASSUME Places, NEW t \in Task, LostApart',
           op'[t] \in Ops[t] \cup {"none", "dead"}, OnPath(op[t], step[t])',
           LoopOnPath(left[t])', QueueOnPath(todo[t])',
           \A u \in Task \ {t} : /\ op'[u] = op[u] /\ step'[u] = step[u]
                                 /\ todo'[u] = todo[u] /\ left'[u] = left[u]
    PROVE  Places'
BY DEF Places, OnPath, LoopOnPath, QueueOnPath

(* A step within a call.                                                   *)
LEMMA MovesOnPath ==
    ASSUME Places, TypeOK, NEW t \in Task, NEW s, Goto(t, s), UNCHANGED <<op, todo, left>>,
           LostApart', OnPath(op[t], s)
    PROVE  Places'
<1>1. step'[t] = s /\ \A u \in Task \ {t} : step'[u] = step[u]
  BY Goes
<1>2. OnPath(op[t], step[t])'
  BY <1>1 DEF OnPath
<1>3. LoopOnPath(left[t])' /\ QueueOnPath(todo[t])' /\ op'[t] \in Ops[t] \cup {"none", "dead"}
  BY DEF Places, LoopOnPath, QueueOnPath
<1>. QED  BY <1>1, <1>2, <1>3, OthersOnPath

LEMMA EndsOnPath ==
    ASSUME Places, TypeOK, NEW t \in Task, UNCHANGED op, LostApart',
           Abort(t) \/ (Done(t) /\ UNCHANGED <<todo, left>>)
    PROVE  Places'
<1>1. step'[t].at = "done" /\ \A u \in Task \ {t} : step'[u] = step[u]
  BY EndsDone, Goes DEF Abort, Done
<1>2. OnPath(op[t], step[t])'
  BY <1>1 DEF OnPath, Putting
<1>3. /\ left'[t] \subseteq left[t] /\ todo'[t] \in {<<>>, todo[t]}
      /\ \A u \in Task \ {t} : todo'[u] = todo[u] /\ left'[u] = left[u]
  BY DEF Abort, TypeOK, EngineTypeOK
<1>4. LoopOnPath(left[t])' /\ QueueOnPath(todo[t])' /\ op'[t] \in Ops[t] \cup {"none", "dead"}
  BY <1>3 DEF Places, LoopOnPath, QueueOnPath
<1>. QED  BY <1>1, <1>2, <1>3, <1>4, OthersOnPath

LEMMA SameLost == ASSUME Places, UNCHANGED <<entries, meta, store>> PROVE LostApart'
BY DEF Places, LostApart

(* A step goes on with the same file.                                      *)
LEMMA StepsOnPath ==
    ASSUME Places, TypeOK, NEW t \in Task, NEW s, Goto(t, s), UNCHANGED <<op, todo, left>>,
           LostApart', s.n = step[t].n, op[t] # "expire", s.at # "expire",
           \/ s.at \in {"done", "tally"} \/ (s.at \in Removing /\ s.by # "conflict")
           \/ step[t].at \notin {"done", "tally", "expire"} \cup Removing
           \/ step[t].by = "conflict" /\ step[t].at \in Removing
    PROVE  Places'
<1>1. OnPath(op[t], s)
  BY DEF Places, OnPath, Removing
<1>. QED  BY <1>1, MovesOnPath

LEMMA NotExpiring ==
    ASSUME Controlled, NEW t \in Task, step[t].at \notin {"done", "expire"} \cup Putting
    PROVE  op[t] # "expire"
BY DEF Controlled, Control, Fits, StatPhase, ReadPhase, WritePhase, DeletePhase, ExportPhase,
       ListPhase, ExpirePhase, DropPhase, Removing, Putting

LEMMA ReadingOnPath ==
    ASSUME Places, TypeOK, Controlled, NEW t \in Task,
           \/ StatCache(t) \/ StatHead(t) \/ ReadGet(t) \/ ReadBytes(t) \/ Fetch(t)
           \/ FetchLookup(t) \/ ListRead(t) \/ WriteHead(t) \/ DeleteGet(t) \/ TruncateData(t)
           \/ FillData(t)
    PROVE  Places'
<1>. DEFINE s == step[t]  n == step[t].n
<1>1. /\ op[t] # "expire" /\ LostApart' /\ op' = op /\ s \in Step
      /\ s.at \notin {"done", "tally", "expire"} \cup Removing
  BY NotExpiring, SameLost, StepParts
     DEF StatCache, StatHead, ReadGet, ReadBytes, Fetch, FetchLookup, ListRead, WriteHead,
         DeleteGet, TruncateData, FillData, At, outer, cacheVars, Putting, Removing
<1>2. \A l \in Label \ {"expire"} : \A e, c, by : Goto(t, Mk(l, n, e, c, by)) /\ UNCHANGED same
         => Places'
  BY <1>1, MkParts, StepsOnPath DEF same
<1>3. \A l \in Label \ {"expire"} : Goto(t, Onward(s, l)) /\ UNCHANGED same => Places'
  BY <1>1, OnwardParts, StepsOnPath DEF same
<1>4. Abort(t) \/ (Done(t) /\ UNCHANGED same) => Places'
  BY <1>1, EndsOnPath DEF same
<1>5. \/ Abort(t) \/ (Done(t) /\ UNCHANGED same)
      \/ \E l \in Label \ {"expire"} : \E e, c, by : Goto(t, Mk(l, n, e, c, by)) /\ UNCHANGED same
      \/ \E l \in Label \ {"expire"} : Goto(t, Onward(s, l)) /\ UNCHANGED same
  <2>. USE DEF Label, Call
  <2>1. CASE StatCache(t)
    BY <2>1 DEF StatCache, Do
  <2>2. CASE StatHead(t)
    BY <2>2 DEF StatHead, Put
  <2>3. CASE ReadGet(t)
    BY <2>3 DEF ReadGet, Put, Do
  <2>4. CASE ReadBytes(t) \/ Fetch(t)
    BY <2>4 DEF ReadBytes, Fetch
  <2>5. CASE FetchLookup(t) \/ ListRead(t)
    BY <2>5 DEF FetchLookup, ListRead, Fetched
  <2>6. CASE WriteHead(t) \/ DeleteGet(t)
    BY <2>6 DEF WriteHead, DeleteGet, Fetched, Put
  <2>7. CASE TruncateData(t) \/ FillData(t)
    BY <2>7 DEF TruncateData, FillData
  <2>. QED  BY <2>1, <2>2, <2>3, <2>4, <2>5, <2>6, <2>7
<1>. QED  BY <1>2, <1>3, <1>4, <1>5

LEMMA ExportingOnPath ==
    ASSUME Places, TypeOK, Controlled, NEW t \in Task,
           \/ FlushGet(t) \/ FlushDelete(t) \/ FlushHead(t) \/ FlushRead(t) \/ FlushWrite(t)
           \/ FlushTag(t) \/ FlushSidecar(t) \/ FlushClean(t) \/ SaveLost(t) \/ Invalidate(t)
    PROVE  Places'
<1>. DEFINE s == step[t]  n == step[t].n
<1>1. /\ op[t] # "expire" /\ op' = op /\ s \in Step
      /\ s.at \notin {"done", "tally", "expire"} \cup Removing
      /\ n \in Path
  <2>1. /\ s.at \notin {"done", "tally", "expire"} \cup Removing \cup Putting
        /\ op' = op
    BY DEF FlushGet, FlushDelete, FlushHead, FlushRead, FlushWrite, FlushTag, FlushSidecar,
           FlushClean, SaveLost, Invalidate, At, outer, Putting, Removing
  <2>. QED  BY <2>1, NotExpiring, StepParts DEF Places, OnPath
<1>2. LostApart'
  <2>1. CASE ~SaveLost(t)
    <3>1. \A l \in Lost : store'[l] = store[l] /\ UNCHANGED <<entries, meta>>
      BY <1>1, <2>1, Disjoint, NameParts DEF FlushGet, FlushDelete, FlushHead, FlushRead, FlushWrite,
           FlushTag, FlushSidecar, FlushClean, Invalidate, cacheVars, TypeOK, EngineTypeOK
    <3>. QED  BY <3>1 DEF Places, LostApart
  <2>2. CASE SaveLost(t)
    <3>1. s.e \in Entry /\ store' = store
      BY <2>2, StepParts DEF SaveLost, At, Carrier
    <3>2. PICK l \in Lost : /\ meta' = [meta EXCEPT ![l] = LostEntry(s.e)]
                            /\ entries' = [entries EXCEPT ![l] = LostEntry(s.e)]
      BY <2>2 DEF SaveLost, WriteMeta, Insert
    <3>3. ~LostEntry(s.e).dirty
      BY <3>1 DEF LostEntry, Entry
    <3>. QED  BY <3>1, <3>2, <3>3, NameParts DEF Places, LostApart, Clean, TypeOK, CacheTypeOK
  <2>. QED  BY <2>1, <2>2
<1>3. \A l \in Label \ {"expire"} : \A e, c, by : Goto(t, Mk(l, n, e, c, by)) /\ UNCHANGED same
         => Places'
  BY <1>1, <1>2, MkParts, StepsOnPath DEF same
<1>4. \A l \in Label \ {"expire"} : Goto(t, Onward(s, l)) /\ UNCHANGED same => Places'
  BY <1>1, <1>2, OnwardParts, StepsOnPath DEF same
<1>5. Abort(t) \/ (Done(t) /\ UNCHANGED same) => Places'
  BY <1>1, <1>2, EndsOnPath DEF same
<1>6. \/ Abort(t) \/ (Done(t) /\ UNCHANGED same)
      \/ \E l \in Label \ {"expire"} : \E e, c, by : Goto(t, Mk(l, n, e, c, by)) /\ UNCHANGED same
      \/ \E l \in Label \ {"expire"} : Goto(t, Onward(s, l)) /\ UNCHANGED same
  <2>. USE DEF Label, Call
  <2>1. CASE FlushGet(t)
    BY <2>1 DEF FlushGet
  <2>2. CASE FlushDelete(t)
    BY <2>2 DEF FlushDelete, Do
  <2>3. CASE FlushHead(t)
    BY <2>3 DEF FlushHead
  <2>4. CASE FlushRead(t)
    BY <2>4 DEF FlushRead
  <2>5. CASE FlushWrite(t) \/ FlushTag(t)
    BY <2>5 DEF FlushWrite, FlushTag
  <2>6. CASE FlushSidecar(t) \/ SaveLost(t)
    BY <2>6 DEF FlushSidecar, SaveLost
  <2>7. CASE FlushClean(t)
    BY <2>7 DEF FlushClean, Put
  <2>8. CASE Invalidate(t)
    BY <2>8 DEF Invalidate, Do
  <2>. QED  BY <2>1, <2>2, <2>3, <2>4, <2>5, <2>6, <2>7, <2>8
<1>. QED  BY <1>3, <1>4, <1>5, <1>6

LEMMA PuttingOnPath ==
    ASSUME Places, TypeOK, Controlled, NEW t \in Task, PutMeta(t) \/ InsertEntry(t)
    PROVE  Places'
<1>. DEFINE s == step[t]  n == step[t].n
<1>1. /\ s \in Step /\ n \in Name /\ s.at \in Putting /\ op' = op /\ store' = store
      /\ n \in Path \/ (op[t] = "expire" /\ Clean(s.e))
  BY StepParts DEF PutMeta, InsertEntry, At, outer, Putting, Places, OnPath, Removing
<1>2. Places => \A l \in Lost : store[l] = None /\ Clean(entries[l]) /\ Clean(meta[l])
  BY DEF Places, LostApart
<1>3. CASE PutMeta(t)
  <2>1. meta' = [meta EXCEPT ![n] = s.e] /\ entries' = entries /\ Goto(t, Onward(s, "insert"))
        /\ UNCHANGED <<todo, left>> /\ s.at = "put"
    BY <1>3 DEF PutMeta, WriteMeta, same, At
  <2>2. LostApart'
    BY <1>1, <1>2, <2>1, Disjoint, NameParts DEF LostApart, TypeOK, CacheTypeOK
  <2>3. OnPath(op[t], Onward(s, "insert"))
    BY <1>1, <2>1, OnwardParts DEF Places, OnPath, Putting, Removing
  <2>. QED  BY <1>1, <2>1, <2>2, <2>3, MovesOnPath
<1>4. CASE InsertEntry(t)
  <2>1. entries' = [entries EXCEPT ![n] = s.e] /\ meta' = meta /\ AfterInsert(t, s)
    BY <1>4 DEF InsertEntry, Insert
  <2>2. LostApart'
    BY <1>1, <1>2, <2>1, Disjoint, NameParts DEF LostApart, TypeOK, CacheTypeOK
  <2>3. CASE Abort(t) \/ (Done(t) /\ UNCHANGED same)
    BY <1>1, <2>2, <2>3, EndsOnPath DEF same
  <2>4. CASE ~(Abort(t) \/ (Done(t) /\ UNCHANGED same))
    <3>1. /\ \/ Goto(t, Do("cacheRead", n)) /\ s.by = "touch"
             \/ Goto(t, Onward(s, "listRead")) /\ s.by = "list"
          /\ UNCHANGED same
      BY <2>1, <2>4 DEF AfterInsert
    <3>2. op[t] # "expire"
      BY <1>1, <3>1 DEF Controlled, Control, Fits, StatPhase, ReadPhase, WritePhase, DeletePhase,
                        ExportPhase, ListPhase, ExpirePhase, DropPhase, Putting
    <3>. QED  BY <1>1, <2>2, <3>1, <3>2, StepsOnPath, DoParts, OnwardParts
              DEF same, Putting, Removing
  <2>. QED  BY <2>3, <2>4
<1>. QED  BY <1>3, <1>4

LEMMA RemovingOnPath ==
    ASSUME Places, TypeOK, Controlled, NEW t \in Task,
           DropEntry(t) \/ DropMeta(t) \/ DropData(t) \/ ExpireData(t) \/ Tally(t)
    PROVE  Places'
<1>. DEFINE s == step[t]  n == step[t].n
<1>1. /\ s \in Step /\ n \in Name /\ op' = op /\ store' = store /\ UNCHANGED <<todo, left>>
  BY StepParts DEF DropEntry, DropMeta, DropData, ExpireData, Tally, outer, same
<1>2. LostApart'
  BY <1>1 DEF DropEntry, DropMeta, DropData, ExpireData, Tally, Remove, UnlinkMeta, cacheVars,
              Places, LostApart, Clean, TypeOK, CacheTypeOK, Name
<1>3. CASE DropEntry(t) \/ DropMeta(t) \/ DropData(t)
  <2>1. s.at \in Removing /\ op[t] # "expire"
    BY <1>3, NotExpiring DEF DropEntry, DropMeta, DropData, At, Removing, Putting
  <2>2. \/ Goto(t, Onward(s, "rmMeta")) \/ Goto(t, Onward(s, "rmData"))
        \/ Goto(t, AfterRemove(s))
    BY <1>3 DEF DropEntry, DropMeta, DropData
  <2>3. AfterRemove(s).at # "done" => s.by = "conflict" /\ AfterRemove(s).at = "put"
    BY <1>1, AfterRemoveParts
  <2>4. AfterRemove(s).n = n
    BY <1>1, AfterRemoveParts
  <2>. QED  BY <1>1, <1>2, <2>1, <2>2, <2>3, <2>4, StepsOnPath, OnwardParts DEF Removing
<1>4. CASE ExpireData(t)
  <2>. DEFINE s2 == Put(n, Emptied(s.e), None, "cache")
  <2>1. s.at = "expire" /\ s.e \in Entry /\ Clean(s.e) /\ Goto(t, s2)
    BY <1>4, StepParts DEF ExpireData, At, Carrier, Places, OnPath
  <2>2. s2.at = "put" /\ s2.e = Emptied(s.e)
    BY MkParts DEF Put
  <2>3. Clean(Emptied(s.e))
    <3>1. ~s.e.dirty
      BY <2>1, CacheAssumption DEF Clean
    <3>. QED  BY <2>1, <3>1 DEF Clean, Emptied, Entry
  <2>4. op[t] = "expire"
    BY <2>1 DEF Controlled, Control, Fits, StatPhase, ReadPhase, WritePhase, DeletePhase,
                ExportPhase, ListPhase, ExpirePhase, DropPhase, Removing, Putting, Storing
  <2>. HIDE DEF s2
  <2>5. OnPath(op[t], s2)
    BY <2>2, <2>3, <2>4 DEF OnPath
  <2>. QED  BY <1>1, <1>2, <2>1, <2>5, MovesOnPath
<1>5. CASE Tally(t)
  BY <1>1, <1>2, <1>5, EndsOnPath DEF Tally, same
<1>. QED  BY <1>3, <1>4, <1>5

LEMMA QueuedOnPath ==
    ASSUME Places, TypeOK, Controlled, NEW t \in Task, NextCall(t) \/ NextIteration(t) \/ Return(t)
    PROVE  Places'
<1>1. /\ LostApart' /\ Control(op[t], step[t], todo[t], left[t])
      /\ op[t] \in Ops[t] \cup {"none", "dead"}
      /\ LoopOnPath(left[t]) /\ QueueOnPath(todo[t])
      /\ todo[t] \in Seq(Step)
  BY SameLost DEF NextCall, NextIteration, Return, cacheVars, Controlled, Places, TypeOK,
                  EngineTypeOK
<1>2. CASE NextCall(t)
  <2>1. todo[t] # <<>> /\ step'[t] = Head(todo[t])
        /\ \A u \in Task \ {t} : step'[u] = step[u]
    BY <1>2, Goes DEF NextCall
  <2>2. step'[t] = todo[t][1] /\ 1 \in DOMAIN todo[t]
    BY <1>1, <2>1
  <2>3. step'[t].at \in Call /\ Fits(op[t], step'[t])
    BY <1>1, <2>2 DEF Control, Queue
  <2>4. /\ todo'[t] = Tail(todo[t]) /\ UNCHANGED <<left, op>>
        /\ \A u \in Task \ {t} : todo'[u] = todo[u]
    BY <1>2 DEF NextCall, outer, TypeOK, EngineTypeOK
  <2>5. \A i \in DOMAIN Tail(todo[t]) : i + 1 \in DOMAIN todo[t] /\ Tail(todo[t])[i] = todo[t][i + 1]
    BY <1>1, <2>1, TailParts
  <2>6. QueueOnPath(todo[t])'
    BY <1>1, <2>4, <2>5 DEF QueueOnPath
  <2>7. OnPath(op[t], step[t])'
    BY <1>1, <2>2, <2>3, <2>4 DEF OnPath, QueueOnPath, Call, Putting
  <2>. QED  BY <1>1, <2>1, <2>4, <2>6, <2>7, OthersOnPath DEF LoopOnPath
<1>3. CASE NextIteration(t)
  <2>1. PICK i \in left[t] :
          /\ Goto(t, i)
          /\ left' = [left EXCEPT ![t] = Remaining(@, i)]
          /\ todo' = [todo EXCEPT ![t] = IF op[t] = "flush" THEN <<Do("tally", i.n)>> ELSE <<>>]
    BY <1>3 DEF NextIteration
  <2>2. /\ step'[t] = i /\ left'[t] \subseteq left[t] /\ op' = op
        /\ \A u \in Task \ {t} : step'[u] = step[u] /\ todo'[u] = todo[u] /\ left'[u] = left[u]
        /\ todo'[t] = IF op[t] = "flush" THEN <<Do("tally", i.n)>> ELSE <<>>
    BY <1>3, <2>1, Goes DEF NextIteration, outer, Remaining, TypeOK, EngineTypeOK
  <2>3. Iterates(op[t], i)
    BY <1>1, <2>1 DEF Control
  <2>4. OnPath(op[t], step[t])'
    BY <1>1, <2>2, <2>3 DEF OnPath, Iterates, LoopOnPath, Putting, Removing
  <2>5. QueueOnPath(todo[t])'
    <3>1. Do("tally", i.n).at = "tally"
      BY DoParts
    <3>2. QueueOnPath(<<Do("tally", i.n)>>) /\ QueueOnPath(<<>>)
      BY <3>1 DEF QueueOnPath
    <3>. QED  BY <2>2, <3>2 DEF QueueOnPath
  <2>. QED  BY <1>1, <2>2, <2>4, <2>5, OthersOnPath DEF LoopOnPath
<1>4. CASE Return(t)
  <2>1. step'[t].at = "done" /\ \A u \in Task \ {t} : step'[u] = step[u] /\ op'[u] = op[u]
    BY <1>4, Goes, NoStepParts DEF Return, TypeOK, EngineTypeOK
  <2>2. UNCHANGED <<todo, left>> /\ op'[t] \in {"none", "dead"}
    BY <1>4 DEF Return, TypeOK, EngineTypeOK
  <2>3. OnPath(op[t], step[t])'
    BY <2>1 DEF OnPath, Putting
  <2>. QED  BY <1>1, <2>1, <2>2, <2>3, OthersOnPath DEF LoopOnPath, QueueOnPath
<1>. QED  BY <1>2, <1>3, <1>4

LEMMA BeginOnPath ==
    ASSUME Places, TypeOK, NEW t \in Task, NEW name, NEW first, NEW rest, NEW loop,
           Begin(t, name, first, rest, loop), OnPath(name, first), QueueOnPath(rest),
           LoopOnPath(loop)
    PROVE  Places'
<1>1. /\ step'[t] = first /\ op'[t] = name /\ todo'[t] = rest /\ left'[t] = loop
      /\ name \in Ops[t] /\ UNCHANGED <<entries, meta, store>>
      /\ \A u \in Task \ {t} : /\ op'[u] = op[u] /\ step'[u] = step[u]
                               /\ todo'[u] = todo[u] /\ left'[u] = left[u]
  BY Goes DEF Begin, cacheVars, TypeOK, EngineTypeOK
<1>2. OnPath(op[t], step[t])' /\ LoopOnPath(left[t])' /\ QueueOnPath(todo[t])'
  BY <1>1 DEF OnPath, LoopOnPath, QueueOnPath
<1>. QED  BY <1>1, <1>2, SameLost, OthersOnPath

LEMMA BeginsOnPath ==
    ASSUME Places, TypeOK, NEW t \in Task, Begins(t) PROVE Places'
<1>1. /\ \A n \in Path : \A name : \A l \in {"stat", "writeHead", "delGet", "invalidate"} :
            OnPath(name, Do(l, n))
      /\ \A name : OnPath(name, NoStep)
      /\ QueueOnPath(<<>>) /\ LoopOnPath({})
  BY DoParts, NoStepParts DEF OnPath, QueueOnPath, LoopOnPath, Putting
<1>2. \A n \in Path : QueueOnPath(Export(n)) /\ Export(n) \in Seq(Step)
  <2>1. \A n \in Path : QueueOnPath(<<Do("fpGet", n)>>)
    BY DoParts DEF QueueOnPath
  <2>. QED  BY <1>1, <2>1, ExportType DEF Export, Name
<1>3. ASSUME NEW n \in Path, Stat(t, n) \/ InvalidatePath(t, n) PROVE Places'
  BY <1>1, <1>3, BeginOnPath DEF Stat, InvalidatePath
<1>4. ASSUME NEW n \in Path, Read(t, n) PROVE Places'
  <2>. DEFINE q == <<Do("stat", n), Do("readGet", n)>>
  <2>1. \A i \in DOMAIN q : q[i].n = n
    BY DoParts
  <2>2. Begin(t, "read", Do("stat", n), q, {})
    BY <1>4 DEF Read
  <2>. HIDE DEF q
  <2>3. QueueOnPath(q)
    BY <2>1 DEF QueueOnPath
  <2>. QED  BY <1>1, <2>2, <2>3, BeginOnPath
<1>5. ASSUME NEW n \in Path, DeletePath(t, n) PROVE Places'
  BY <1>1, <1>2, <1>5, BeginOnPath DEF DeletePath
<1>6. ASSUME NEW n \in Path, NEW d \in Data, WriteFile(t, n, d) PROVE Places'
  BY <1>1, <1>2, <1>6, BeginOnPath DEF WriteFile
<1>7. ASSUME NEW from \in Path, NEW to \in Path, RenamePath(t, from, to) PROVE Places'
  <2>. DEFINE r == <<Do("stat", from), Do("stat", from), Do("readGet", from)>>
              w == <<Do("writeHead", to)>>
              d == <<Do("delGet", from)>>
              q == r \o w \o Export(to) \o d \o Export(from)
  <2>1. /\ r \in Seq(Step) /\ w \in Seq(Step) /\ d \in Seq(Step)
    BY DoType DEF Label, Call, Carrier, Name
  <2>2. QueueOnPath(r) /\ QueueOnPath(w) /\ QueueOnPath(d)
    <3>1. /\ \A i \in DOMAIN r : r[i].n = from
          /\ \A i \in DOMAIN w : w[i].n = to
          /\ \A i \in DOMAIN d : d[i].n = from
      BY DoParts
    <3>. HIDE DEF r, w, d
    <3>. QED  BY <3>1 DEF QueueOnPath
  <2>3. \A p, q1 \in Seq(Step) : QueueOnPath(p) /\ QueueOnPath(q1)
           => p \o q1 \in Seq(Step) /\ QueueOnPath(p \o q1)
    <3>1. SUFFICES ASSUME NEW p \in Seq(Step), NEW q1 \in Seq(Step), QueueOnPath(p), QueueOnPath(q1)
                   PROVE  p \o q1 \in Seq(Step) /\ QueueOnPath(p \o q1)
      OBVIOUS
    <3>. DEFINE j == p \o q1
    <3>2. /\ j \in Seq(Step) /\ DOMAIN j = 1 .. Len(p) + Len(q1) /\ Len(p) \in Nat /\ Len(q1) \in Nat
          /\ DOMAIN p = 1 .. Len(p) /\ DOMAIN q1 = 1 .. Len(q1)
          /\ \A i \in 1 .. Len(p) : j[i] = p[i]
          /\ \A i \in 1 .. Len(p) + Len(q1) : i > Len(p) => j[i] = q1[i - Len(p)]
      OBVIOUS
    <3>3. \A i \in DOMAIN j : \/ i \in DOMAIN p /\ j[i] = p[i]
                              \/ i - Len(p) \in DOMAIN q1 /\ j[i] = q1[i - Len(p)]
      <4>. HIDE DEF j
      <4>. QED  BY <3>2
    <3>. HIDE DEF j
    <3>4. QueueOnPath(j)
      BY <3>1, <3>3 DEF QueueOnPath
    <3>. QED  BY <3>2, <3>4 DEF j
  <2>. HIDE DEF r, w, d
  <2>4. QueueOnPath(r \o w) /\ r \o w \in Seq(Step)
    BY <2>1, <2>2, <2>3
  <2>5. QueueOnPath(r \o w \o Export(to)) /\ r \o w \o Export(to) \in Seq(Step)
    BY <1>2, <2>3, <2>4
  <2>6. QueueOnPath(r \o w \o Export(to) \o d) /\ r \o w \o Export(to) \o d \in Seq(Step)
    BY <2>1, <2>2, <2>3, <2>5
  <2>7. QueueOnPath(q)
    BY <1>2, <2>3, <2>6
  <2>8. Begin(t, "rename", Do("stat", from), q, {})
    BY <1>7, Zenon DEF RenamePath, r, w, d
  <2>. HIDE DEF q
  <2>. QED  BY <1>1, <2>7, <2>8, BeginOnPath
<1>8. CASE ListDir(t)
  <2>. DEFINE loop == {Put(m, Import(store[m]), None, "list") : m \in {m \in Name : store[m] # None}}
  <2>1. \A m \in Name : store[m] # None => m \in Path
    BY NameParts DEF Places, LostApart
  <2>2. \A i \in loop : i.at = "put" /\ i.n \in Path
    BY <2>1, MkParts DEF Put
  <2>3. Begin(t, "list", NoStep, <<>>, loop)
    BY <1>8 DEF ListDir
  <2>. HIDE DEF loop
  <2>4. LoopOnPath(loop)
    BY <2>2 DEF LoopOnPath
  <2>. QED  BY <1>1, <2>3, <2>4, BeginOnPath
<1>9. CASE Flush(t)
  <2>. DEFINE loop == {Do("fpGet", m) : m \in DirtyNames}
  <2>1. \A m \in DirtyNames : m \in Path
    BY NameParts DEF DirtyNames, Places, LostApart, Clean
  <2>2. \A i \in loop : i.at = "fpGet" /\ i.n \in Path
    BY <2>1, DoParts
  <2>3. Begin(t, "flush", NoStep, <<>>, loop)
    BY <1>9 DEF Flush
  <2>. HIDE DEF loop
  <2>4. LoopOnPath(loop)
    BY <2>2 DEF LoopOnPath
  <2>. QED  BY <1>1, <2>3, <2>4, BeginOnPath
<1>10. CASE ExpireCache(t)
  <2>. DEFINE loop == {Mk("expire", m, entries[m], None, "cache") :
                          m \in {m \in Name : Expirable(entries[m])}}
  <2>1. \A i \in loop : i.at = "expire" /\ Clean(i.e)
    BY MkParts DEF Clean, Expirable
  <2>2. Begin(t, "expire", NoStep, <<>>, loop)
    BY <1>10 DEF ExpireCache
  <2>. HIDE DEF loop
  <2>3. LoopOnPath(loop)
    BY <2>1 DEF LoopOnPath
  <2>. QED  BY <1>1, <2>2, <2>3, BeginOnPath
<1>11. ASSUME NEW prefix \in Prefix, InvalidatePrefix(t, prefix) PROVE Places'
  <2>. DEFINE loop == {Do("drop", m) : m \in {m \in prefix : Droppable(entries[m])}}
  <2>1. \A i \in loop : i.at = "drop"
    BY DoParts
  <2>2. Begin(t, "invalidatePrefix", NoStep, <<>>, loop)
    BY <1>11 DEF InvalidatePrefix
  <2>. HIDE DEF loop
  <2>3. LoopOnPath(loop)
    BY <2>1 DEF LoopOnPath
  <2>. QED  BY <1>1, <2>2, <2>3, BeginOnPath
<1>. QED  BY <1>3, <1>4, <1>5, <1>6, <1>7, <1>8, <1>9, <1>10, <1>11 DEF Begins

LEMMA PlacesInit == Init => Places
<1>. SUFFICES ASSUME Init PROVE Places
  OBVIOUS
<1>1. LostApart
  BY DEF Init, CacheInit, LostApart, Clean, Name
<1>2. \A t \in Task : step[t].at = "done" /\ todo[t] = <<>> /\ left[t] = {} /\ op[t] = "none"
  BY NoStepParts DEF Init
<1>. QED  BY <1>1, <1>2 DEF Places, OnPath, LoopOnPath, QueueOnPath, Putting

LEMMA PlacesNext == ASSUME TypeOK, Controlled, Places, [Next]_vars PROVE Places'
<1>1. ASSUME NEW t \in Task, Begins(t) PROVE Places'
  BY <1>1, BeginsOnPath
<1>2. ASSUME NEW t \in Task, Proceeds(t) PROVE Places'
  BY <1>2, ReadingOnPath, ExportingOnPath, PuttingOnPath, RemovingOnPath, QueuedOnPath DEF Proceeds
<1>3. ASSUME NEW t \in Task, BackendFails(t) PROVE Places'
  <2>1. (\A l \in Lost : store'[l] = store[l]) /\ UNCHANGED <<entries, meta, op>>
    <3>1. step[t].at \in {"fpWrite", "fpDelete"} => step[t].n \in Path
      <4>1. step[t].at \in {"fpWrite", "fpDelete"} => op[t] # "expire"
        BY NotExpiring DEF Putting
      <4>. QED  BY <4>1 DEF Places, OnPath, Removing
    <3>. QED  BY <1>3, <3>1, Disjoint, NameParts DEF BackendFails, At, cacheVars, TypeOK, EngineTypeOK
  <2>2. LostApart'
    BY <2>1 DEF Places, LostApart
  <2>. QED  BY <1>3, <2>1, <2>2, EndsOnPath DEF BackendFails
<1>4. ASSUME NEW n \in Path, NEW c, Remote(n, c) PROVE Places'
  <2>1. (\A l \in Lost : store'[l] = store[l]) /\ UNCHANGED <<entries, meta, op, step, todo, left>>
    BY <1>4, Disjoint, NameParts DEF Remote, cacheVars, taskVars, TypeOK, EngineTypeOK
  <2>. QED  BY <2>1 DEF Places, LostApart, OnPath, LoopOnPath, QueueOnPath
<1>5. CASE Age
  <2>1. \A n \in Name : entries[n] \in Entry \cup {None} /\ meta[n] \in Entry \cup {None}
    BY DEF TypeOK, CacheTypeOK
  <2>2. \A l \in Lost : Clean(entries'[l]) /\ Clean(meta'[l]) /\ store'[l] = store[l]
    BY <1>5, <2>1, NameParts DEF Age, Aged, Places, LostApart, Clean, Entry
  <2>3. UNCHANGED <<op, step, todo, left>>
    BY <1>5 DEF Age, taskVars
  <2>. QED  BY <2>2, <2>3 DEF Places, LostApart, OnPath, LoopOnPath, QueueOnPath
<1>6. CASE Crash
  <2>1. LostApart'
    BY <1>6, NameParts DEF Crash, LoadIndex, Places, LostApart, Clean
  <2>2. \A t \in Task : step'[t].at = "done" /\ todo'[t] = <<>> /\ left'[t] = {} /\ op'[t] = "none"
    BY <1>6, NoStepParts DEF Crash
  <2>. QED  BY <2>1, <2>2 DEF Places, OnPath, LoopOnPath, QueueOnPath, Putting
<1>7. CASE UNCHANGED vars
  BY <1>7 DEF vars, cacheVars, taskVars, Places, LostApart, OnPath, LoopOnPath, QueueOnPath
<1>. QED  BY <1>1, <1>2, <1>3, <1>4, <1>5, <1>6, <1>7 DEF Next

(* A local copy in lost+found is never dirty and never an object, and no   *)
(* call but an expiration or an invalidation touches it: for any tasks,    *)
(* calls and mishaps.                                                      *)
THEOREM LostAndFoundApart == Spec => []Places
<1>1. Init => Places
  BY PlacesInit
<1>2. TypeOK /\ Controlled /\ Places /\ [Next]_vars => Places'
  BY PlacesNext
<1>. QED  BY <1>1, <1>2, TypeCorrect, CallsInOrder, PTL DEF Spec

-----------------------------------------------------------------------------
(* The regimes: nobody else writes the bucket, and moreover the backend    *)
(* always answers.                                                         *)
Alone == used["remote"] = 0
Own == Alone /\ used["fault"] = 0

(* No crash yet; and what a rename reads is not replaced while it reads.   *)
Calm ==
    /\ used["crash"] = 0
    /\ Alone \/ \A t \in Task : "rename" \notin Ops[t]

(* What an entry says is true of the bytes d it comes with, and of the     *)
(* object: a dirty entry has all its bytes, a clean one has the object's.  *)
TrueOf(n, e, d) ==
    /\ e.deleted => e.dirty
    /\ e.dirty /\ ~e.deleted => e.cached
    /\ e.cached /\ ~e.deleted => d \in Data
    /\ e.cached /\ ~e.deleted /\ (e.dirty \/ n \in Lost) => e.size = Size[d]
    /\ Alone /\ n \in Path /\ ~e.dirty =>
          store[n] \in Data /\ e.size = Size[store[n]] /\ (e.cached => d = store[n])

Sound(n, e, d) == e # None => TrueOf(n, e, d)

(* A write is based on the object as it is.                                *)
Based(n, e) == Writes(e) => e.base = HeadTag(store[n])

(* Exported, but not marked clean yet.                                     *)
Exported == {"fpTag", "fpSide", "fpClean"}

Elsewhere(n, labels) == \A t \in Task : step[t].n = n => step[t].at \notin labels

NamesSound ==
    /\ \A n \in Name : Elsewhere(n, AtWork) => Sound(n, entries[n], data[n])
    /\ \A n \in Name : Own /\ Elsewhere(n, AtWork \cup Exported) => Based(n, entries[n])
    /\ \A n \in Name : store[n] \in Data \cup {None}

(* The entry and the bytes a step brings.                                  *)
CarriesSound(s) ==
    /\ s.at \in {"trunc", "fill"} => s.c \in Data /\ Sound(s.n, s.e, s.c)
    /\ s.at = "fill" => data[s.n] = Torn
    /\ s.at \in {"put", "insert", "listRead"} => Sound(s.n, s.e, data[s.n])
    /\ s.at \in {"put", "insert", "listRead"} /\ s.by = "list" => ~s.e.dirty
    /\ s.at \in Storing /\ Own => Based(s.n, s.e)
    /\ s.at \in Storing /\ s.by = "fetch" =>
          s.c \in Data /\ ~s.e.dirty /\ (Alone => s.c = store[s.n])
    /\ s.at = "expire" => Sound(s.n, Emptied(s.e), None)

(* A read goes by the size a stat gave, and by what the entry serves.      *)
Sized(n, l) == Known(entries[n]) /\ l = entries[n].size
ReadsSound(s, l) ==
    /\ s.at \in {"readGet", "cacheRead", "direct", "fetch", "lookup"} => Sized(s.n, l)
    /\ s.at = "cacheRead" => Serves(entries[s.n])
    /\ s.at \in {"direct", "fetch", "lookup"} => ~Serves(entries[s.n])
    /\ s.at = "lookup" => s.c \in Data /\ (Alone => s.c = store[s.n])
    /\ s.at \in Storing /\ s.by \in {"stat", "touch", "fetch"} => Known(s.e) /\ l = s.e.size
    /\ s.at \in Putting /\ s.by = "touch" => Serves(s.e)

(* What is exported, or kept in lost+found, is what the entry says; with   *)
(* nobody else around nothing goes there.                                  *)
ExportsSound(s, b) ==
    /\ s.at \in {"fpHead", "fpRead", "fpWrite", "lfRead", "lfSave"} =>
          s.e = entries[s.n] /\ Writes(s.e)
    /\ s.at \in {"fpWrite", "lfSave"} => b = data[s.n]
    /\ s.at \in Exported => Writes(entries[s.n]) /\ (Alone => store[s.n] = data[s.n])
    /\ s.at = "fpDelete" => entries[s.n] # None /\ entries[s.n].deleted
    /\ s.at \in {"lfRead", "lfSave"} \cup Removing /\ s.by = "conflict" =>
          s.c \in Data /\ (Alone => s.c = store[s.n])
    /\ Own => s.at \notin {"lfRead", "lfSave"}

StepSound(t) ==
    /\ CarriesSound(step[t]) /\ ReadsSound(step[t], len[t]) /\ ExportsSound(step[t], buf[t])
    /\ step[t].at = "writeHead" => buf[t] \in Data

(* What the loop and the queue still bring.                                *)
LoopSound(loop) ==
    \A i \in loop : /\ i.at = "put" => Sound(i.n, i.e, None) /\ ~i.e.dirty
                    /\ i.at = "expire" => Sound(i.n, Emptied(i.e), None)

ChainSound(s, q, b, l) ==
    s.at = "done" /\ q # <<>> =>
        /\ q[1].at = "readGet" => Sized(q[1].n, l)
        /\ q[1].at = "writeHead" => b \in Data

AllSound ==
    /\ NamesSound
    /\ \A t \in Task : /\ StepSound(t) /\ ChainSound(step[t], todo[t], buf[t], len[t])
                       /\ LoopSound(left[t])

Sounding == TypeOK /\ Controlled /\ IndexInv /\ Places /\ Calm /\ AllSound

LEMMA SoundNow ==
    ASSUME Sounding, NEW t \in Task
    PROVE  /\ TypeOK /\ Controlled /\ Control(op[t], step[t], todo[t], left[t]) /\ Calm
           /\ NamesSound /\ StepSound(t) /\ ChainSound(step[t], todo[t], buf[t], len[t])
           /\ LoopSound(left[t]) /\ OnPath(op[t], step[t])
           /\ CarriesSound(step[t]) /\ ReadsSound(step[t], len[t])
           /\ ExportsSound(step[t], buf[t])
           /\ step[t] \in Step /\ step[t].n \in Name
BY StepParts DEF Sounding, AllSound, Controlled, Places, StepSound

LEMMA SoundFrom ==
    ASSUME OneTask, NEW t \in Task, NamesSound', StepSound(t)',
           ChainSound(step[t], todo[t], buf[t], len[t])', LoopSound(left[t])'
    PROVE  AllSound'
<1>1. \A u \in Task : u = t
  BY DEF OneTask
<1>. QED  BY <1>1 DEF AllSound

LEMMA OneElsewhere ==
    ASSUME OneTask, NEW t \in Task
    PROVE  /\ \A n, labels : Elsewhere(n, labels) <=> (step[t].n = n => step[t].at \notin labels)
           /\ \A n, labels : Elsewhere(n, labels)' <=> (step'[t].n = n => step'[t].at \notin labels)
BY DEF OneTask, Elsewhere

LEMMA SameTruth ==
    ASSUME UNCHANGED <<store, used>>
    PROVE  /\ \A n, e, d : Sound(n, e, d)' <=> Sound(n, e, d)
           /\ \A n, e : Based(n, e)' <=> Based(n, e)
           /\ Own' <=> Own
           /\ Alone' <=> Alone
BY DEF Sound, TrueOf, Based, Own, Alone

(* The names, as one task sees them.                                       *)
LEMMA NamesNow ==
    ASSUME OneTask, Sounding, NEW t \in Task
    PROVE  /\ \A n \in Name : n # step[t].n \/ step[t].at \notin AtWork => Sound(n, entries[n], data[n])
           /\ \A n \in Name : Own /\ (n # step[t].n \/ step[t].at \notin AtWork \cup Exported)
                                => Based(n, entries[n])
           /\ \A n \in Name : store[n] \in Data \cup {None}
BY OneElsewhere DEF Sounding, AllSound, NamesSound

LEMMA NamesKept ==
    ASSUME OneTask, Sounding, NEW t \in Task, UNCHANGED <<cacheVars, store, used>>,
           step[t].at \notin AtWork,
           \/ step[t].at \notin Exported
           \/ step'[t].at \in AtWork \cup Exported /\ step'[t].n = step[t].n
    PROVE  NamesSound'
<1>1. /\ \A n \in Name : Sound(n, entries[n], data[n])
      /\ \A n \in Name : Own /\ (n # step[t].n \/ step[t].at \notin Exported) => Based(n, entries[n])
      /\ \A n \in Name : store[n] \in Data \cup {None}
  BY NamesNow
<1>2. \A n \in Name : Sound(n, entries[n], data[n])' /\ store'[n] \in Data \cup {None}
  BY <1>1 DEF Sound, TrueOf, Alone, cacheVars
<1>3. \A n \in Name : Own' /\ Elsewhere(n, AtWork \cup Exported)' =>
         Own /\ (n # step[t].n \/ step[t].at \notin Exported)
  BY OneElsewhere DEF Own, Alone
<1>4. \A n \in Name : Own' /\ Elsewhere(n, AtWork \cup Exported)' => Based(n, entries[n])'
  BY <1>1, <1>3 DEF Based, cacheVars
<1>. QED  BY <1>2, <1>4 DEF NamesSound

LEMMA LoopKept ==
    ASSUME Sounding, NEW t \in Task, UNCHANGED <<store, used>>, left'[t] \subseteq left[t]
    PROVE  LoopSound(left[t])'
<1>1. LoopSound(left[t])
  BY SoundNow
<1>2. LoopSound(left[t]) => LoopSound(left'[t])
  BY DEF LoopSound
<1>3. LoopSound(left'[t]) => LoopSound(left[t])'
  BY DEF LoopSound, Sound, TrueOf, Alone
<1>. QED  BY <1>1, <1>2, <1>3

LEMMA DoneSound ==
    ASSUME NEW t \in Task, step'[t].at = "done" PROVE StepSound(t)'
BY DEF StepSound, CarriesSound, ReadsSound, ExportsSound, Storing, Putting, Removing, Exported

(* A step that only decides how to go on.                                  *)
LEMMA DecidesSound ==
    ASSUME OneTask, Sounding, NEW t \in Task, UNCHANGED <<cacheVars, store, used, todo, left>>,
           step[t].at \notin AtWork, step'[t].at # "done", StepSound(t)',
           \/ step[t].at \notin Exported
           \/ step'[t].at \in AtWork \cup Exported /\ step'[t].n = step[t].n
    PROVE  AllSound'
<1>1. NamesSound' /\ LoopSound(left[t])'
  BY NamesKept, LoopKept
<1>2. ChainSound(step[t], todo[t], buf[t], len[t])'
  BY DEF ChainSound
<1>. QED  BY <1>1, <1>2, SoundFrom

LEMMA FollowsNow ==
    ASSUME Controlled, NEW t \in Task, step[t].at # "done", todo[t] # <<>>
    PROVE  Follows(step[t], todo[t][1])
BY DEF Controlled, Control, Before

(* A call that ends or fails.                                              *)
LEMMA EndsSound ==
    ASSUME OneTask, Sounding, NEW t \in Task, NamesSound', UNCHANGED <<store, used>>,
           \/ Abort(t)
           \/ /\ Done(t) /\ UNCHANGED <<todo, left>> /\ step[t].at # "done"
              /\ \/ ~StatPhase(step[t]) /\ ~ReadPhase(step[t])
                 \/ ChainSound(step[t], todo[t], buf[t], len[t])'
    PROVE  AllSound'
<1>1. TypeOK /\ Controlled
  BY DEF Sounding
<1>2. step'[t].at = "done" /\ StepSound(t)'
  BY <1>1, EndsDone, DoneSound
<1>3. left'[t] \subseteq left[t]
  BY <1>1 DEF Abort, TypeOK, EngineTypeOK
<1>4. Abort(t) => todo'[t] = <<>>
  BY <1>1 DEF Abort, TypeOK, EngineTypeOK
<1>5. ChainSound(step[t], todo[t], buf[t], len[t])'
  <2>1. CASE Abort(t)
    BY <1>4, <2>1 DEF ChainSound
  <2>2. CASE /\ UNCHANGED todo /\ step[t].at # "done"
             /\ ~StatPhase(step[t]) /\ ~ReadPhase(step[t])
    <3>1. todo[t] # <<>> => todo[t][1].at \notin {"readGet", "writeHead"}
      BY <1>1, <2>2, FollowsNow DEF Follows
    <3>. QED  BY <2>2, <3>1 DEF ChainSound
  <2>. QED  BY <2>1, <2>2
<1>. QED  BY <1>2, <1>3, <1>5, LoopKept, SoundFrom

(* The step a decision goes to, and what it brings there.                  *)
LEMMA StepFrom ==
    ASSUME NEW t \in Task, NEW s, step'[t] = s, UNCHANGED <<cacheVars, store, used>>,
           CarriesSound(s), ReadsSound(s, len'[t]), ExportsSound(s, buf'[t]),
           s.at = "writeHead" => buf'[t] \in Data
    PROVE  StepSound(t)'
<1>1. CarriesSound(step[t])'
  BY DEF CarriesSound, Sound, TrueOf, Based, Own, Alone, cacheVars
<1>2. ReadsSound(step[t], len[t])'
  BY DEF ReadsSound, Sized, Alone, cacheVars
<1>3. ExportsSound(step[t], buf[t])'
  BY DEF ExportsSound, Own, Alone, cacheVars
<1>. QED  BY <1>1, <1>2, <1>3 DEF StepSound

LEMMA GoesSound ==
    ASSUME OneTask, Sounding, NEW t \in Task, NEW s, Goto(t, s), s.at # "done",
           UNCHANGED <<cacheVars, store, used, todo, left>>, step[t].at \notin AtWork,
           CarriesSound(s), ReadsSound(s, len'[t]), ExportsSound(s, buf'[t]),
           s.at = "writeHead" => buf'[t] \in Data,
           \/ step[t].at \notin Exported
           \/ s.at \in AtWork \cup Exported /\ s.n = step[t].n
    PROVE  AllSound'
<1>1. step'[t] = s
  BY Goes DEF Sounding
<1>. QED  BY <1>1, StepFrom, DecidesSound

(* What is read is written only by a rename, and only with nobody else     *)
(* around.                                                                 *)
LEMMA RenameAlone ==
    ASSUME Sounding, NEW t \in Task, op[t] = "rename"
    PROVE  Alone
BY DEF Sounding, Calm, Places

LEMMA WritesWhatItRead ==
    ASSUME Sounding, NEW t \in Task, ReadPhase(step[t]), todo[t] # <<>>,
           todo[t][1].at = "writeHead"
    PROVE  Alone
<1>1. Queue(op[t], todo[t]) /\ Fits(op[t], step[t]) /\ todo[t] \in Seq(Step)
  BY SoundNow DEF Control, TypeOK, EngineTypeOK
<1>2. 1 \in DOMAIN todo[t]
  BY <1>1
<1>3. Fits(op[t], todo[t][1])
  BY <1>1, <1>2 DEF Queue
<1>4. op[t] \in {"write", "rename"}
  BY <1>3 DEF Fits, StatPhase, ReadPhase, WritePhase, DeletePhase, ExportPhase, ListPhase,
              ExpirePhase, DropPhase, Removing, Putting, Storing
<1>5. op[t] # "write"
  BY <1>1 DEF Fits, StatPhase, ReadPhase, WritePhase, DeletePhase, ExportPhase, ListPhase,
              ExpirePhase, DropPhase, Removing, Putting, Storing
<1>. QED  BY <1>4, <1>5, RenameAlone

(* With nobody else around, the size of an entry is the size of what a     *)
(* read of it gets, and is never zero.                                     *)
LEMMA Measured ==
    ASSUME NEW n \in Path, NEW e, NEW d, Alone, e \in Entry, ~e.deleted, Sound(n, e, d)
    PROVE  /\ e.size > 0
           /\ Serves(e) => d \in Data /\ e.size = Size[d]
           /\ ~Serves(e) => store[n] \in Data /\ e.size = Size[store[n]]
<1>1. e # None
  BY CacheAssumption
<1>2. TrueOf(n, e, d)
  BY <1>1 DEF Sound
<1>3. e.size \in Nat /\ e.dirty \in BOOLEAN /\ e.cached \in BOOLEAN
  BY DEF Entry
<1>4. Serves(e) => d \in Data /\ e.size = Size[d]
  BY <1>1, <1>2, <1>3 DEF TrueOf, Serves
<1>5. ~Serves(e) => store[n] \in Data /\ e.size = Size[store[n]]
  BY <1>1, <1>2, <1>3 DEF TrueOf, Serves
<1>6. \A c \in Data : Size[c] > 0
  BY CacheAssumption
<1>. QED  BY <1>3, <1>4, <1>5, <1>6

LEMMA FullCut == \A c, k : k = Size[c] /\ k \in Nat => Cut(c, k) = c
BY DEF Cut

LEMMA ReadsOnPath ==
    ASSUME Sounding, NEW t \in Task,
           step[t].at \notin {"done", "tally", "expire"} \cup Putting \cup Removing
    PROVE  step[t].n \in Path
<1>1. OnPath(op[t], step[t]) /\ op[t] # "expire"
  BY SoundNow, NotExpiring DEF Sounding
<1>. QED  BY <1>1 DEF OnPath

LEMMA ReadingSound ==
    ASSUME OneTask, Sounding, NEW t \in Task,
           \/ StatCache(t) \/ StatHead(t) \/ ReadGet(t) \/ ReadBytes(t)
           \/ Fetch(t) \/ FetchLookup(t) \/ ListRead(t)
    PROVE  AllSound'
<1>. DEFINE s == step[t]  n == step[t].n  e == entries[n]
<1>1. /\ TypeOK /\ Controlled /\ s \in Step /\ n \in Name /\ e \in Entry \cup {None}
      /\ UNCHANGED <<cacheVars, store, used, op>>
  BY StepParts, Held DEF Sounding, StatCache, StatHead, ReadGet, ReadBytes, Fetch, FetchLookup,
                         ListRead, outer
<1>2. s.at \in {"stat", "statHead", "readGet", "cacheRead", "direct", "fetch", "lookup", "listRead"}
  BY DEF StatCache, StatHead, ReadGet, ReadBytes, Fetch, FetchLookup, ListRead, At
<1>3. n \in Path /\ s.at \notin AtWork \cup Exported \cup {"done"}
  BY <1>2, ReadsOnPath DEF Putting, Removing, AtWork, Exported
<1>4. /\ Sound(n, e, data[n]) /\ (Own => Based(n, e)) /\ store[n] \in Data \cup {None}
      /\ CarriesSound(s) /\ ReadsSound(s, len[t]) /\ Fits(op[t], s)
      /\ todo[t] # <<>> => Follows(s, todo[t][1])
  BY <1>1, <1>3, NamesNow, SoundNow, FollowsNow DEF Control
<1>5. NamesSound'
  BY <1>1, <1>3, NamesKept
<1>6. Abort(t) => AllSound'
  BY <1>1, <1>5, EndsSound
<1>7. /\ Done(t) /\ UNCHANGED same
      /\ ChainSound(step[t], todo[t], buf[t], len[t])'
      => AllSound'
  BY <1>1, <1>3, <1>5, EndsSound DEF same
<1>8. \A s2 : /\ Goto(t, s2) /\ s2.at \notin {"done", "writeHead"} /\ UNCHANGED same
              /\ CarriesSound(s2) /\ ReadsSound(s2, len'[t]) /\ ExportsSound(s2, buf'[t])
              => AllSound'
  BY <1>1, <1>3, GoesSound DEF same
<1>9. \A s2 : s2.at \in {"statHead", "put", "trunc", "direct", "fetch", "lookup"} /\ s2.by # "conflict"
              => ExportsSound(s2, buf'[t])
  BY DEF ExportsSound, Exported, Removing
<1>10. n \notin Lost
  BY <1>3, Disjoint
<1>12. CASE StatCache(t)
  <2>1. s.at = "stat" /\ UNCHANGED same
    BY <1>12 DEF StatCache, At
  <2>2. CASE Known(e) /\ Measure(t, e.size) /\ Done(t)
    <3>1. len'[t] = e.size
      BY <1>1, <2>2 DEF Measure, TypeOK, EngineTypeOK
    <3>2. todo[t] # <<>> => /\ todo[t][1].at = "readGet" => todo[t][1].n = n
                            /\ todo[t][1].at # "writeHead"
      BY <1>4, <2>1 DEF Follows, ReadPhase, Putting, Storing
    <3>3. ChainSound(step[t], todo[t], buf[t], len[t])'
      BY <1>1, <2>1, <2>2, <3>1, <3>2 DEF ChainSound, Sized, same, cacheVars
    <3>. QED  BY <1>7, <2>1, <2>2, <3>3
  <2>3. CASE Goto(t, Do("statHead", n))
    <3>. DEFINE s2 == Do("statHead", n)
    <3>1. s2.at = "statHead" /\ s2.by = "cache"
      BY DoParts
    <3>. HIDE DEF s2
    <3>2. CarriesSound(s2) /\ ReadsSound(s2, len'[t])
      BY <3>1 DEF CarriesSound, ReadsSound, Storing, Putting
    <3>. QED  BY <1>8, <1>9, <2>1, <2>3, <3>1, <3>2 DEF s2
  <2>. QED  BY <1>12, <2>2, <2>3 DEF StatCache
<1>13. CASE StatHead(t)
  <2>. DEFINE c == store[n]  s2 == Put(n, Import(c), None, "stat")
  <2>1. \/ Abort(t)
        \/ c # None /\ Measure(t, Size[c]) /\ Goto(t, s2) /\ UNCHANGED same
    BY <1>13 DEF StatHead
  <2>2. s2.at = "put" /\ s2.n = n /\ s2.e = Import(c) /\ s2.by = "stat"
    BY MkParts DEF Put
  <2>3. CASE c # None /\ Measure(t, Size[c]) /\ Goto(t, s2) /\ UNCHANGED same
    <3>1. len'[t] = Size[c] /\ c \in Data
      BY <1>1, <1>4, <2>3 DEF Measure, TypeOK, EngineTypeOK
    <3>2. Import(c) \in Entry
      BY <3>1, ImportType DEF Tag, Content
    <3>3. /\ ~Import(c).deleted /\ ~Import(c).dirty /\ ~Import(c).cached
          /\ Import(c).size = Size[c] /\ Import(c) # None
      BY <3>2, CacheAssumption DEF Import, FromPosix
    <3>. HIDE DEF s2
    <3>4. CarriesSound(s2)
      BY <2>2, <3>1, <3>3 DEF CarriesSound, Sound, TrueOf, Based, Writes
    <3>5. ReadsSound(s2, len'[t])
      BY <2>2, <3>1, <3>3 DEF ReadsSound, Known, Putting
    <3>. QED  BY <1>8, <1>9, <2>2, <2>3, <3>4, <3>5
  <2>. QED  BY <1>6, <2>1, <2>3
<1>14. CASE ReadGet(t)
  <2>. DEFINE s2 == Put(n, Touched(e), None, "touch")
              s3 == Do(IF ReadsDirectly(len[t]) THEN "direct" ELSE "fetch", n)
  <2>1. s.at = "readGet" /\ UNCHANGED <<same, len>>
    BY <1>14 DEF ReadGet, At
  <2>2. Known(e) /\ len[t] = e.size /\ e \in Entry /\ ~e.deleted
    BY <1>1, <1>4, <2>1 DEF ReadsSound, Sized, Known
  <2>3. \/ len[t] = 0 /\ Done(t)
        \/ Serves(e) /\ Goto(t, s2)
        \/ ~Serves(e) /\ Goto(t, s3)
    BY <1>14 DEF ReadGet
  <2>4. CASE len[t] = 0 /\ Done(t)
    <3>1. ~Alone
      <4>1. Alone => e.size > 0
        BY <1>3, <1>4, <2>2, Measured
      <4>2. e.size = 0
        BY <2>2, <2>4
      <4>. HIDE DEF e
      <4>. QED  BY <4>1, <4>2
    <3>2. ReadPhase(s) /\ ~StatPhase(s)
      BY <2>1 DEF ReadPhase, StatPhase, Putting
    <3>3. todo[t] # <<>> => todo[t][1].at \notin {"readGet", "writeHead"}
      BY <1>4, <3>1, <3>2, WritesWhatItRead DEF Follows
    <3>4. ChainSound(step[t], todo[t], buf[t], len[t])'
      BY <2>1, <3>3 DEF ChainSound, same
    <3>. QED  BY <1>7, <2>1, <2>4, <3>4
  <2>5. CASE Serves(e) /\ Goto(t, s2)
    <3>1. s2.at = "put" /\ s2.n = n /\ s2.e = Touched(e) /\ s2.by = "touch"
      BY MkParts DEF Put
    <3>2. /\ Touched(e).deleted = e.deleted /\ Touched(e).dirty = e.dirty
          /\ Touched(e).cached = e.cached /\ Touched(e).size = e.size
          /\ Touched(e).base = e.base /\ Touched(e) # None
      <4>1. Touched(e) \in Entry
        BY <2>2, EntryType
      <4>. QED  BY <2>2, <4>1, CacheAssumption DEF Touched, Entry
    <3>. HIDE DEF s2
    <3>3. Sound(n, Touched(e), data[n])
      BY <1>4, <2>2, <3>2 DEF Sound, TrueOf, Known
    <3>4. Own => Based(n, Touched(e))
      BY <1>4, <2>2, <3>2 DEF Based, Writes, Known
    <3>5. CarriesSound(s2)
      BY <3>1, <3>3, <3>4 DEF CarriesSound
    <3>6. ReadsSound(s2, len'[t])
      BY <2>1, <2>2, <2>5, <3>1, <3>2 DEF ReadsSound, Known, Serves
    <3>. QED  BY <1>8, <1>9, <2>1, <2>5, <3>1, <3>5, <3>6
  <2>6. CASE ~Serves(e) /\ Goto(t, s3)
    <3>1. s3.at \in {"direct", "fetch"} /\ s3.n = n /\ s3.by = "cache"
      BY DoParts
    <3>. HIDE DEF s3
    <3>2. CarriesSound(s3)
      BY <3>1 DEF CarriesSound, Storing
    <3>3. ReadsSound(s3, len'[t])
      BY <2>1, <2>2, <2>6, <3>1 DEF ReadsSound, Sized, Storing, Putting
    <3>. QED  BY <1>8, <1>9, <2>1, <2>6, <3>1, <3>2, <3>3
  <2>. QED  BY <2>3, <2>4, <2>5, <2>6
<1>15. CASE ReadBytes(t)
  <2>. DEFINE c == IF At(t, "direct") THEN store[n] ELSE data[n]
  <2>1. s.at \in {"cacheRead", "direct"} /\ UNCHANGED len
    BY <1>15 DEF ReadBytes
  <2>2. Abort(t) \/ (Load(t, Cut(c, len[t])) /\ Done(t) /\ UNCHANGED same)
    BY <1>15 DEF ReadBytes
  <2>3. Known(e) /\ len[t] = e.size /\ e \in Entry /\ ~e.deleted
    BY <1>1, <1>4, <2>1 DEF ReadsSound, Sized, Known
  <2>4. CASE Load(t, Cut(c, len[t])) /\ Done(t) /\ UNCHANGED same
    <3>1. ReadPhase(s) /\ ~StatPhase(s)
      BY <2>1 DEF ReadPhase, StatPhase, Putting
    <3>2. Alone => c \in Data /\ len[t] = Size[c]
      BY <1>3, <1>4, <2>1, <2>3, Measured DEF ReadsSound, At
    <3>3. buf'[t] = Cut(c, len[t])
      BY <1>1, <2>4 DEF Load, TypeOK, EngineTypeOK
    <3>4. Alone => buf'[t] \in Data
      <4>1. len[t] \in Nat
        BY <1>1 DEF TypeOK, EngineTypeOK
      <4>. HIDE DEF c
      <4>. QED  BY <3>2, <3>3, <4>1, FullCut
    <3>5. todo[t] # <<>> => /\ todo[t][1].at # "readGet"
                            /\ todo[t][1].at = "writeHead" => Alone
      BY <1>4, <3>1, WritesWhatItRead DEF Follows
    <3>6. ChainSound(step[t], todo[t], buf[t], len[t])'
      BY <2>4, <3>4, <3>5 DEF ChainSound, same
    <3>. QED  BY <1>7, <2>4, <3>6
  <2>. QED  BY <1>6, <2>2, <2>4
<1>16. CASE Fetch(t)
  <2>. DEFINE c == store[n]  s2 == Mk("lookup", n, None, c, "fetch")
  <2>1. s.at = "fetch" /\ len' = len
    BY <1>16 DEF Fetch, At
  <2>2. Abort(t) \/ (c # None /\ Goto(t, s2) /\ UNCHANGED same)
    BY <1>16 DEF Fetch
  <2>3. s2.at = "lookup" /\ s2.n = n /\ s2.c = c /\ s2.by = "fetch"
    BY MkParts
  <2>. HIDE DEF s2
  <2>4. CarriesSound(s2)
    BY <2>3 DEF CarriesSound, Storing
  <2>5. c # None => ReadsSound(s2, len'[t])
    BY <1>4, <2>1, <2>3 DEF ReadsSound, Storing, Putting
  <2>. QED  BY <1>6, <1>8, <1>9, <2>2, <2>3, <2>4, <2>5
<1>17. CASE FetchLookup(t)
  <2>. DEFINE s2 == Fetched(n, Filled(e), s.c, "fetch")
  <2>1. s.at = "lookup" /\ len' = len
    BY <1>17 DEF FetchLookup, At
  <2>2. Abort(t) \/ (Goto(t, s2) /\ UNCHANGED same)
    BY <1>17 DEF FetchLookup
  <2>3. s2.at = "trunc" /\ s2.n = n /\ s2.c = s.c /\ s2.by = "fetch" /\ s2.e = Filled(e)
    BY MkParts DEF Fetched
  <2>4. /\ Known(e) /\ len[t] = e.size /\ e \in Entry /\ ~e.deleted /\ ~e.dirty
        /\ s.c \in Data /\ (Alone => s.c = store[n])
    BY <1>1, <1>4, <2>1 DEF ReadsSound, Sized, Known, Serves
  <2>5. /\ ~Filled(e).deleted /\ ~Filled(e).dirty /\ Filled(e).size = e.size /\ Filled(e) # None
    <3>1. Filled(e) \in Entry
      BY <2>4, EntryType
    <3>. QED  BY <2>4, <3>1, CacheAssumption DEF Filled, Entry
  <2>6. Alone => store[n] \in Data /\ e.size = Size[store[n]]
    BY <1>3, <1>4, <2>4 DEF Sound, TrueOf, Known
  <2>. HIDE DEF s2
  <2>7. Sound(n, Filled(e), s.c) /\ Based(n, Filled(e))
    BY <1>10, <2>4, <2>5, <2>6 DEF Sound, TrueOf, Based, Writes
  <2>8. CarriesSound(s2)
    BY <2>3, <2>4, <2>5, <2>7 DEF CarriesSound
  <2>9. ReadsSound(s2, len'[t])
    BY <2>1, <2>3, <2>4, <2>5 DEF ReadsSound, Known, Putting
  <2>. QED  BY <1>6, <1>8, <1>9, <2>2, <2>3, <2>8, <2>9
<1>18. CASE ListRead(t)
  <2>. DEFINE c == store[n]  s2 == Fetched(n, Filled(s.e), c, "cache")
  <2>1. s.at = "listRead" /\ len' = len /\ s.e \in Entry /\ s.e # None
    BY <1>18, <1>1, StepParts, CacheAssumption DEF ListRead, At, Carrier
  <2>2. Abort(t) \/ (c # None /\ Goto(t, s2) /\ UNCHANGED same)
    BY <1>18 DEF ListRead
  <2>3. s2.at = "trunc" /\ s2.n = n /\ s2.c = c /\ s2.by = "cache" /\ s2.e = Filled(s.e)
    BY MkParts DEF Fetched
  <2>4. s.by = "list"
    BY <1>4, <2>1 DEF Fits, StatPhase, ReadPhase, WritePhase, DeletePhase, ExportPhase, ListPhase,
                      ExpirePhase, DropPhase, Removing, Putting, Storing
  <2>5. TrueOf(n, s.e, data[n]) /\ ~s.e.dirty
    BY <1>4, <2>1, <2>4 DEF CarriesSound, Sound
  <2>6. /\ ~Filled(s.e).deleted /\ ~Filled(s.e).dirty /\ Filled(s.e).size = s.e.size
        /\ Filled(s.e) # None
    <3>1. Filled(s.e) \in Entry
      BY <2>1, EntryType
    <3>. QED  BY <2>1, <2>5, <3>1, CacheAssumption DEF Filled, Entry, TrueOf
  <2>7. Alone => store[n] \in Data /\ s.e.size = Size[store[n]]
    BY <1>3, <2>5 DEF TrueOf
  <2>. HIDE DEF s2
  <2>8. c # None => Sound(n, Filled(s.e), c) /\ Based(n, Filled(s.e)) /\ c \in Data
    BY <1>4, <1>10, <2>6, <2>7 DEF Sound, TrueOf, Based, Writes
  <2>9. c # None => CarriesSound(s2)
    BY <2>3, <2>8 DEF CarriesSound
  <2>10. ReadsSound(s2, len'[t])
    BY <2>3 DEF ReadsSound, Putting
  <2>. QED  BY <1>6, <1>8, <1>9, <2>2, <2>3, <2>9, <2>10
<1>. QED  BY <1>12, <1>13, <1>14, <1>15, <1>16, <1>17, <1>18

LEMMA ExportingSound ==
    ASSUME OneTask, Sounding, NEW t \in Task,
           \/ WriteHead(t) \/ DeleteGet(t) \/ FlushGet(t) \/ FlushHead(t) \/ FlushRead(t)
           \/ FlushTag(t) \/ FlushSidecar(t) \/ FlushClean(t) \/ Invalidate(t) \/ Tally(t)
    PROVE  AllSound'
<1>. DEFINE s == step[t]  n == step[t].n  e == entries[n]
<1>1. /\ TypeOK /\ Controlled /\ s \in Step /\ n \in Name /\ e \in Entry \cup {None}
      /\ UNCHANGED <<cacheVars, store, used, op>>
  BY StepParts, Held DEF Sounding, WriteHead, DeleteGet, FlushGet, FlushHead, FlushRead, FlushTag,
                         FlushSidecar, FlushClean, Invalidate, Tally, outer
<1>2. s.at \in {"writeHead", "delGet", "fpGet", "fpHead", "fpRead", "lfRead", "fpTag", "fpSide",
                "fpClean", "invalidate", "tally"}
  BY DEF WriteHead, DeleteGet, FlushGet, FlushHead, FlushRead, FlushTag, FlushSidecar, FlushClean,
         Invalidate, Tally, At
<1>3. /\ s.at \notin AtWork \cup {"done"} /\ ~StatPhase(s) /\ ~ReadPhase(s)
      /\ s.at \notin {"fpTag", "fpSide", "fpClean"} => s.at \notin Exported
  BY <1>2 DEF Putting, Storing, AtWork, Exported, StatPhase, ReadPhase
<1>4. /\ Sound(n, e, data[n]) /\ store[n] \in Data \cup {None}
      /\ s.at \notin Exported /\ Own => Based(n, e)
      /\ StepSound(t) /\ ExportsSound(s, buf[t]) /\ Fits(op[t], s)
  BY <1>1, <1>3, NamesNow, SoundNow DEF Control
<1>5. Abort(t) /\ s.at \notin Exported => AllSound'
  BY <1>1, <1>3, NamesKept, EndsSound
<1>6. Done(t) /\ UNCHANGED same /\ s.at \notin Exported => AllSound'
  BY <1>1, <1>3, NamesKept, EndsSound DEF same
<1>7. \A s2 : /\ Goto(t, s2) /\ s2.at \notin {"done", "writeHead"} /\ UNCHANGED same
              /\ CarriesSound(s2) /\ ReadsSound(s2, len'[t]) /\ ExportsSound(s2, buf'[t])
              /\ s.at \notin Exported \/ (s2.at \in AtWork \cup Exported /\ s2.n = n)
              => AllSound'
  BY <1>1, <1>3, GoesSound DEF same
<1>8. \A s2 : s2.at \in {"put", "trunc"} /\ s2.by # "conflict" => ExportsSound(s2, buf'[t])
  BY DEF ExportsSound, Exported, Removing
<1>9. \A s2 : s2.at \in {"fpDelete", "fpHead", "fpRead", "lfRead", "fpWrite", "lfSave",
                         "drop"} \cup Exported
              => CarriesSound(s2) /\ ReadsSound(s2, len'[t])
  BY DEF CarriesSound, ReadsSound, Storing, Putting, Exported
<1>10. CASE WriteHead(t)
  <2>. DEFINE w == Written(store[n], buf[t])  s2 == Fetched(n, w, buf[t], "write")
  <2>1. s.at = "writeHead" /\ Goto(t, s2) /\ UNCHANGED same
    BY <1>10 DEF WriteHead, At
  <2>2. s2.at = "trunc" /\ s2.n = n /\ s2.c = buf[t] /\ s2.by = "write" /\ s2.e = w
    BY MkParts DEF Fetched
  <2>3. buf[t] \in Data /\ store[n] \in Tag /\ buf[t] \in Tag
    BY <1>1, <1>4, <2>1, Held DEF StepSound, Tag, Content
  <2>4. w.dirty /\ w.cached /\ ~w.deleted /\ w.size = Size[buf[t]] /\ w.base = HeadTag(store[n])
    BY DEF Written, FromPosix
  <2>5. w # None
    BY <2>3, MadeType, CacheAssumption
  <2>. HIDE DEF s2, w
  <2>6. Sound(n, w, buf[t]) /\ Based(n, w)
    BY <2>3, <2>4, <2>5 DEF Sound, TrueOf, Based
  <2>7. CarriesSound(s2)
    BY <2>2, <2>3, <2>6 DEF CarriesSound
  <2>8. ReadsSound(s2, len'[t])
    BY <2>2 DEF ReadsSound, Putting
  <2>9. s.at \notin Exported
    BY <2>1 DEF Exported
  <2>. QED  BY <1>7, <1>8, <2>1, <2>2, <2>7, <2>8, <2>9
<1>11. CASE DeleteGet(t)
  <2>. DEFINE w == Tombstone(e)  s2 == Put(n, w, None, "delete")
  <2>1. s.at = "delGet" /\ Goto(t, s2) /\ UNCHANGED same
    BY <1>11 DEF DeleteGet, At
  <2>2. s2.at = "put" /\ s2.n = n /\ s2.by = "delete" /\ s2.e = w
    BY MkParts DEF Put
  <2>3. w.deleted /\ w.dirty
    BY <1>1 DEF Tombstone, FromPosix, Entry
  <2>. HIDE DEF s2, w
  <2>4. Sound(n, w, data[n]) /\ Based(n, w)
    BY <2>3 DEF Sound, TrueOf, Based, Writes
  <2>5. CarriesSound(s2)
    BY <2>2, <2>4 DEF CarriesSound
  <2>6. ReadsSound(s2, len'[t])
    BY <2>2 DEF ReadsSound, Putting
  <2>7. s.at \notin Exported
    BY <2>1 DEF Exported
  <2>. QED  BY <1>7, <1>8, <2>1, <2>2, <2>5, <2>6, <2>7
<1>12. CASE FlushGet(t)
  <2>. DEFINE s2 == Mk(IF e.deleted THEN "fpDelete" ELSE "fpHead", n, e, None, "cache")
  <2>1. s.at = "fpGet" /\ UNCHANGED same /\ (Done(t) \/ (n \in DirtyNames /\ Goto(t, s2)))
    BY <1>12 DEF FlushGet, At
  <2>2. /\ s2.at = (IF e.deleted THEN "fpDelete" ELSE "fpHead") /\ s2.n = n /\ s2.e = e
        /\ s2.by = "cache"
    BY MkParts
  <2>. HIDE DEF s2
  <2>3. n \in DirtyNames => ExportsSound(s2, buf'[t])
    BY <2>2 DEF ExportsSound, DirtyNames, Writes, Exported, Removing
  <2>4. s.at \notin Exported
    BY <2>1 DEF Exported
  <2>. QED  BY <1>6, <1>7, <1>9, <2>1, <2>2, <2>3, <2>4
<1>13. CASE FlushHead(t)
  <2>. DEFINE lf == Mk("lfRead", n, s.e, store[n], "conflict")  fp == Onward(s, "fpRead")
  <2>1. s.at = "fpHead" /\ UNCHANGED same /\ s.e = e /\ Writes(e)
    BY <1>4, <1>13 DEF FlushHead, At, ExportsSound
  <2>2. s.at \notin Exported
    BY <2>1 DEF Exported
  <2>3. CASE RemoteChanged(store[n], s.e.base)
    <3>1. Goto(t, lf)
      BY <1>13, <2>3 DEF FlushHead
    <3>2. lf.at = "lfRead" /\ lf.n = n /\ lf.e = e /\ lf.c = store[n]
      BY <2>1, MkParts
    <3>3. store[n] \in Data /\ HeadTag(store[n]) # e.base
      BY <1>4, <2>1, <2>3 DEF RemoteChanged
    <3>4. ~Own
      BY <1>4, <2>1, <2>2, <3>3 DEF Based
    <3>. HIDE DEF lf
    <3>5. ExportsSound(lf, buf'[t])
      BY <2>1, <3>2, <3>3, <3>4 DEF ExportsSound, Exported, Removing
    <3>. QED  BY <1>7, <1>9, <2>1, <2>2, <3>1, <3>2, <3>5
  <2>4. CASE ~RemoteChanged(store[n], s.e.base)
    <3>1. Goto(t, fp)
      BY <1>13, <2>4 DEF FlushHead
    <3>2. fp.at = "fpRead" /\ fp.n = n /\ fp.e = e
      BY <1>1, <2>1, OnwardParts
    <3>. HIDE DEF fp
    <3>3. ExportsSound(fp, buf'[t])
      BY <2>1, <3>2 DEF ExportsSound, Exported, Removing
    <3>. QED  BY <1>7, <1>9, <2>1, <2>2, <3>1, <3>2, <3>3
  <2>. QED  BY <2>3, <2>4
<1>14. CASE FlushRead(t)
  <2>. DEFINE s2 == Onward(s, IF s.at = "fpRead" THEN "fpWrite" ELSE "lfSave")
  <2>1. s.at \in {"fpRead", "lfRead"} /\ s.e = e /\ Writes(e)
    BY <1>4, <1>14 DEF FlushRead, ExportsSound
  <2>2. Abort(t) \/ (Load(t, data[n]) /\ Goto(t, s2) /\ UNCHANGED same)
    BY <1>14 DEF FlushRead
  <2>3. Load(t, data[n]) => buf'[t] = data[n]
    BY <1>1 DEF Load, TypeOK, EngineTypeOK
  <2>4. /\ s2.at = (IF s.at = "fpRead" THEN "fpWrite" ELSE "lfSave") /\ s2.n = n
        /\ s2.e = s.e /\ s2.c = s.c /\ s2.by = s.by
    BY <1>1, OnwardParts
  <2>5. s.at \notin Exported
    BY <2>1 DEF Exported
  <2>. HIDE DEF s2
  <2>6. Load(t, data[n]) => ExportsSound(s2, buf'[t])
    BY <1>4, <2>1, <2>3, <2>4 DEF ExportsSound, Exported, Removing
  <2>7. s2.at \in {"fpWrite", "lfSave"}
    BY <2>4
  <2>. QED  BY <1>5, <1>7, <1>9, <2>2, <2>5, <2>6, <2>7
<1>15. CASE FlushTag(t) \/ FlushSidecar(t)
  <2>. DEFINE tg == Mk("fpSide", n, s.e, store[n], "cache")  sd == Onward(s, "fpClean")
  <2>1. s.at \in Exported /\ UNCHANGED same /\ (Goto(t, tg) \/ Goto(t, sd))
    BY <1>15 DEF FlushTag, FlushSidecar, At, Exported
  <2>2. tg.at = "fpSide" /\ tg.n = n /\ sd.at = "fpClean" /\ sd.n = n
    BY <1>1, MkParts, OnwardParts
  <2>. HIDE DEF tg, sd
  <2>3. ExportsSound(tg, buf'[t]) /\ ExportsSound(sd, buf'[t])
    BY <1>4, <2>1, <2>2 DEF ExportsSound, Exported, Removing
  <2>. QED  BY <1>7, <1>9, <2>1, <2>2, <2>3 DEF Exported
<1>16. CASE FlushClean(t)
  <2>. DEFINE w == Cleaned(e, s.c)  s2 == Put(n, w, None, "cache")
  <2>1. s.at = "fpClean" /\ Writes(e) /\ (Alone => store[n] = data[n])
    BY <1>4, <1>16 DEF FlushClean, At, ExportsSound, Exported
  <2>2. Goto(t, s2) /\ UNCHANGED same
    BY <1>16, <2>1 DEF FlushClean, Writes
  <2>3. s2.at = "put" /\ s2.n = n /\ s2.by = "cache" /\ s2.e = w
    BY MkParts DEF Put
  <2>4. e \in Entry /\ e # None /\ e.dirty /\ ~e.deleted
    BY <1>1, <2>1 DEF Writes
  <2>5. e.cached /\ data[n] \in Data /\ e.size = Size[data[n]]
    BY <1>4, <2>4 DEF Sound, TrueOf
  <2>6. w \in Entry /\ ~w.dirty /\ ~w.deleted /\ w.size = e.size
    <3>1. w \in Entry
      BY <1>1, <2>4, EntryType, StepParts
    <3>. QED  BY <2>4, <3>1 DEF Cleaned, Entry
  <2>. HIDE DEF s2, w
  <2>7. Sound(n, w, data[n]) /\ Based(n, w)
    BY <2>1, <2>5, <2>6 DEF Sound, TrueOf, Based, Writes
  <2>8. CarriesSound(s2)
    BY <2>3, <2>7 DEF CarriesSound
  <2>9. ReadsSound(s2, len'[t])
    BY <2>3 DEF ReadsSound, Putting
  <2>10. "put" \in AtWork
    BY DEF AtWork
  <2>. QED  BY <1>7, <1>8, <2>2, <2>3, <2>8, <2>9, <2>10
<1>17. CASE Invalidate(t)
  <2>. DEFINE s2 == Do("drop", n)
  <2>1. s.at = "invalidate" /\ UNCHANGED same /\ (Done(t) \/ Goto(t, s2))
    BY <1>17 DEF Invalidate, At
  <2>2. s2.at = "drop" /\ s2.by = "cache"
    BY DoParts
  <2>3. s.at \notin Exported
    BY <2>1 DEF Exported
  <2>. HIDE DEF s2
  <2>4. ExportsSound(s2, buf'[t])
    BY <2>2 DEF ExportsSound, Exported
  <2>. QED  BY <1>6, <1>7, <1>9, <2>1, <2>2, <2>3, <2>4
<1>18. CASE Tally(t)
  <2>1. s.at \notin Exported
    BY <1>18 DEF Tally, At, Exported
  <2>. QED  BY <1>6, <1>18, <2>1 DEF Tally
<1>. QED  BY <1>10, <1>11, <1>12, <1>13, <1>14, <1>15, <1>16, <1>17, <1>18

(* An export changes an object whose entry is dirty.                       *)
LEMMA StoreSound ==
    ASSUME OneTask, Sounding, NEW t \in Task, step[t].at \in {"fpWrite", "fpDelete"},
           UNCHANGED cacheVars, Alone' <=> Alone, Own' => Own,
           NEW c \in Data \cup {None}, store' = [store EXCEPT ![step[t].n] = c],
           Own' => \/ ~Writes(entries[step[t].n])
                   \/ step'[t].n = step[t].n /\ step'[t].at \in Exported
    PROVE  NamesSound'
<1>. DEFINE n == step[t].n
<1>1. step[t].at \notin AtWork \cup Exported
  BY DEF AtWork, Exported
<1>2. /\ \A m \in Name : Sound(m, entries[m], data[m])
      /\ \A m \in Name : Own => Based(m, entries[m])
      /\ \A m \in Name : store[m] \in Data \cup {None}
      /\ entries[n] # None => TrueOf(n, entries[n], data[n])
  BY <1>1, NamesNow, SoundNow DEF Sound
<1>3. entries[n] # None /\ entries[n].dirty
  BY <1>2, SoundNow DEF ExportsSound, Writes, TrueOf
<1>4. n \in Name /\ store \in [Name -> Tag]
  BY SoundNow DEF TypeOK, EngineTypeOK
<1>5. store'[n] = c /\ \A m \in Name : m # n => store'[m] = store[m]
  BY <1>4
<1>6. ASSUME NEW m \in Name PROVE Sound(m, entries[m], data[m])' /\ store'[m] \in Data \cup {None}
  <2>1. CASE m # n
    BY <1>2, <1>5, <2>1 DEF Sound, TrueOf, cacheVars
  <2>2. CASE m = n
    BY <1>2, <1>3, <1>5, <2>2 DEF Sound, TrueOf, cacheVars
  <2>. QED  BY <2>1, <2>2
<1>7. ASSUME NEW m \in Name, Own', Elsewhere(m, AtWork \cup Exported)'
      PROVE  Based(m, entries[m])'
  <2>1. m = n => ~Writes(entries[m])
    BY <1>7, OneElsewhere
  <2>2. CASE m # n
    BY <1>2, <1>5, <1>7, <2>2 DEF Based, cacheVars
  <2>3. CASE m = n
    BY <2>1, <2>3 DEF Based, Writes, cacheVars
  <2>. QED  BY <2>2, <2>3
<1>. QED  BY <1>6, <1>7 DEF NamesSound

LEMMA ExportingLoop ==
    ASSUME Sounding, NEW t \in Task, step[t].at \in {"fpWrite", "fpDelete"},
           left'[t] \subseteq left[t]
    PROVE  LoopSound(left[t])'
<1>1. Fits(op[t], step[t]) /\ \A i \in left[t] : Iterates(op[t], i)
  BY SoundNow DEF Control
<1>2. op[t] \in {"write", "delete", "rename", "flush"}
  BY <1>1 DEF Fits, StatPhase, ReadPhase, WritePhase, DeletePhase, ExportPhase, ListPhase,
              ExpirePhase, DropPhase, Removing, Putting, Storing
<1>3. \A i \in left[t] : i.at \notin {"put", "expire"}
  BY <1>1, <1>2 DEF Iterates
<1>. QED  BY <1>3 DEF LoopSound

LEMMA ExportsWhole ==
    ASSUME OneTask, Sounding, NEW t \in Task, step[t].at = "fpWrite"
    PROVE  /\ Writes(entries[step[t].n]) /\ buf[t] = data[step[t].n]
           /\ buf[t] \in Data
<1>. DEFINE n == step[t].n
<1>1. Writes(entries[n]) /\ buf[t] = data[n] /\ n \in Name
  BY SoundNow DEF ExportsSound
<1>2. Sound(n, entries[n], data[n])
  BY <1>1, NamesNow DEF AtWork
<1>. QED  BY <1>1, <1>2 DEF Sound, TrueOf, Writes

LEMMA StoringObjects ==
    ASSUME OneTask, Sounding, NEW t \in Task, FlushWrite(t) \/ FlushDelete(t)
    PROVE  AllSound'
<1>. DEFINE s == step[t]  n == step[t].n
<1>1. /\ TypeOK /\ n \in Name /\ UNCHANGED <<cacheVars, used, op, todo, left>>
  BY SoundNow DEF FlushWrite, FlushDelete, outer, same
<1>2. s.at \in {"fpWrite", "fpDelete"}
  BY DEF FlushWrite, FlushDelete, At
<1>3. (Own' <=> Own) /\ (Alone' <=> Alone)
  BY <1>1 DEF Own, Alone
<1>4. LoopSound(left[t])'
  BY <1>1, <1>2, ExportingLoop
<1>5. CASE FlushWrite(t)
  <2>. DEFINE s2 == Mk(IF Backend = "opendal" THEN "fpTag" ELSE "fpSide", n, s.e, buf[t], "cache")
  <2>1. s.at = "fpWrite" /\ store' = [store EXCEPT ![n] = buf[t]] /\ step'[t] = s2
    BY <1>1, <1>5, Goes DEF FlushWrite, At
  <2>2. s2.at \in {"fpTag", "fpSide"} /\ s2.n = n
    BY MkParts
  <2>3. Writes(entries[n]) /\ buf[t] = data[n] /\ buf[t] \in Data
    BY <2>1, ExportsWhole
  <2>. HIDE DEF s2
  <2>4. NamesSound'
    BY <1>1, <1>2, <1>3, <2>1, <2>2, <2>3, StoreSound DEF Exported
  <2>5. store'[n] = data[n] /\ Writes(entries'[n]) /\ data' = data
    BY <1>1, <2>1, <2>3 DEF TypeOK, EngineTypeOK, cacheVars, Writes
  <2>6. CarriesSound(step[t])' /\ ReadsSound(step[t], len[t])'
    BY <2>1, <2>2 DEF CarriesSound, ReadsSound, Storing, Putting
  <2>7. ExportsSound(step[t], buf[t])'
    BY <2>1, <2>2, <2>5 DEF ExportsSound, Removing, Writes
  <2>8. StepSound(t)' /\ ChainSound(step[t], todo[t], buf[t], len[t])'
    BY <2>1, <2>2, <2>6, <2>7 DEF StepSound, ChainSound
  <2>. QED  BY <1>4, <2>4, <2>8, SoundFrom
<1>6. CASE FlushDelete(t)
  <2>. DEFINE s2 == Do("drop", n)
  <2>1. s.at = "fpDelete" /\ store' = [store EXCEPT ![n] = None] /\ step'[t] = s2
    BY <1>1, <1>6, Goes DEF FlushDelete, At
  <2>2. s2.at = "drop" /\ s2.by = "cache"
    BY DoParts
  <2>3. ~Writes(entries[n])
    BY <2>1, SoundNow DEF ExportsSound, Writes
  <2>. HIDE DEF s2
  <2>4. NamesSound'
    BY <1>1, <1>2, <1>3, <2>1, <2>3, StoreSound
  <2>5. CarriesSound(step[t])' /\ ReadsSound(step[t], len[t])' /\ ExportsSound(step[t], buf[t])'
    BY <2>1, <2>2 DEF CarriesSound, ReadsSound, ExportsSound, Storing, Putting, Exported
  <2>6. StepSound(t)' /\ ChainSound(step[t], todo[t], buf[t], len[t])'
    BY <2>1, <2>2, <2>5 DEF StepSound, ChainSound
  <2>. QED  BY <1>4, <2>4, <2>6, SoundFrom
<1>. QED  BY <1>5, <1>6

LEMMA FailingSound ==
    ASSUME OneTask, Sounding, NEW t \in Task, BackendFails(t)
    PROVE  AllSound'
<1>. DEFINE s == step[t]  n == step[t].n
<1>1. /\ TypeOK /\ n \in Name /\ UNCHANGED cacheVars /\ Abort(t)
      /\ s.at \in BackendCall
  BY SoundNow DEF BackendFails
<1>2. used' = [used EXCEPT !["fault"] = @ + 1] /\ used \in [Hazard -> Nat]
  BY <1>1 DEF BackendFails, Spend, TypeOK, EngineTypeOK
<1>3. used'["fault"] = used["fault"] + 1 /\ used'["remote"] = used["remote"]
      /\ used["fault"] \in Nat
  BY <1>2 DEF Hazard
<1>4. ~Own' /\ (Alone' <=> Alone)
  BY <1>3 DEF Own, Alone
<1>5. step'[t].at = "done" /\ StepSound(t)'
  BY <1>1, EndsDone, DoneSound
<1>6. /\ left'[t] \subseteq left[t] /\ todo'[t] = <<>>
  BY <1>1 DEF Abort, TypeOK, EngineTypeOK
<1>7. ChainSound(step[t], todo[t], buf[t], len[t])'
  BY <1>6 DEF ChainSound
<1>8. CASE UNCHANGED store
  <2>1. s.at \notin AtWork
    BY <1>1 DEF BackendCall, AtWork
  <2>2. \A m \in Name : Sound(m, entries[m], data[m])' /\ store'[m] \in Data \cup {None}
    BY <1>1, <1>4, <1>8, <2>1, NamesNow DEF Sound, TrueOf, cacheVars
  <2>3. NamesSound'
    BY <1>4, <2>2 DEF NamesSound
  <2>4. LoopSound(left'[t])
    BY <1>6, SoundNow DEF LoopSound
  <2>5. LoopSound(left[t])'
    BY <1>4, <1>8, <2>4 DEF LoopSound, Sound, TrueOf
  <2>. QED  BY <1>5, <1>7, <2>3, <2>5, SoundFrom
<1>9. CASE s.at = "fpWrite" /\ store' = [store EXCEPT ![n] = buf[t]]
  BY <1>1, <1>4, <1>5, <1>6, <1>7, <1>9, ExportsWhole, StoreSound, ExportingLoop, SoundFrom
<1>10. CASE s.at = "fpDelete" /\ store' = [store EXCEPT ![n] = None]
  BY <1>1, <1>4, <1>5, <1>6, <1>7, <1>10, StoreSound, ExportingLoop, SoundFrom
<1>. QED  BY <1>8, <1>9, <1>10 DEF BackendFails, At

(* An update changes what is under one name.                               *)
LEMMA OneNameSound ==
    ASSUME OneTask, Sounding, NEW t \in Task, UNCHANGED <<store, used>>,
           step'[t].n = step[t].n,
           \A m \in Name \ {step[t].n} : entries'[m] = entries[m] /\ data'[m] = data[m],
           \/ step'[t].at \in AtWork
           \/ /\ Sound(step[t].n, entries'[step[t].n], data'[step[t].n])
              /\ Own => Based(step[t].n, entries'[step[t].n])
    PROVE  NamesSound'
<1>. DEFINE n == step[t].n
<1>1. /\ \A m \in Name \ {n} : Sound(m, entries[m], data[m])
      /\ \A m \in Name \ {n} : Own => Based(m, entries[m])
      /\ \A m \in Name : store[m] \in Data \cup {None}
  BY NamesNow
<1>2. /\ \A m \in Name \ {n} : Sound(m, entries'[m], data'[m])
      /\ \A m \in Name \ {n} : Own => Based(m, entries'[m])
  BY <1>1
<1>3. ASSUME NEW m \in Name, Elsewhere(m, AtWork)'
      PROVE  Sound(m, entries[m], data[m])'
  <2>1. Sound(m, entries'[m], data'[m])
    BY <1>2, <1>3, OneElsewhere
  <2>. QED  BY <2>1 DEF Sound, TrueOf, Alone
<1>4. ASSUME NEW m \in Name, Own', Elsewhere(m, AtWork \cup Exported)'
      PROVE  Based(m, entries[m])'
  <2>1. Own
    BY <1>4 DEF Own, Alone
  <2>2. m = n => step'[t].at \notin AtWork
    BY <1>4, OneElsewhere
  <2>3. Based(m, entries'[m])
    BY <1>2, <2>1, <2>2
  <2>. QED  BY <2>3 DEF Based
<1>. QED  BY <1>1, <1>3, <1>4 DEF NamesSound

LEMMA StoringSound ==
    ASSUME OneTask, Sounding, NEW t \in Task, PutMeta(t) \/ TruncateData(t) \/ FillData(t)
    PROVE  AllSound'
<1>. DEFINE s == step[t]  n == step[t].n  s2 == step'[t]
<1>1. /\ TypeOK /\ s \in Step /\ n \in Name
      /\ UNCHANGED <<entries, store, used, op, todo, left, buf, len>>
      /\ CarriesSound(s) /\ ReadsSound(s, len[t]) /\ Fits(op[t], s)
      /\ data \in [Name -> Tag]
  BY SoundNow DEF PutMeta, TruncateData, FillData, outer, same, Control, TypeOK, CacheTypeOK
<1>2. /\ s2.at = (IF s.at = "trunc" THEN "fill" ELSE IF s.at = "fill" THEN "put" ELSE "insert")
      /\ s2.n = n /\ s2.e = s.e /\ s2.c = s.c /\ s2.by = s.by /\ s.at \in {"trunc", "fill", "put"}
      /\ \A m \in Name \ {n} : entries'[m] = entries[m] /\ data'[m] = data[m]
  BY <1>1, Goes, OnwardParts DEF PutMeta, TruncateData, FillData, At, Truncate, Fill
<1>3. NamesSound'
  BY <1>1, <1>2, OneNameSound DEF AtWork
<1>4. LoopSound(left[t])'
  BY <1>1, LoopKept
<1>5. ChainSound(step[t], todo[t], buf[t], len[t])'
  BY <1>2 DEF ChainSound
<1>6. ExportsSound(step[t], buf[t])'
  BY <1>2 DEF ExportsSound, Exported, Removing
<1>7. s.at \in {"trunc", "fill"} => s.by \in {"fetch", "write", "delete", "cache"}
  BY <1>1 DEF Fits, StatPhase, ReadPhase, WritePhase, DeletePhase, ExportPhase, ListPhase,
              ExpirePhase, DropPhase, Removing, Putting, Storing
<1>8. ReadsSound(step[t], len[t])'
  BY <1>1, <1>2, <1>7 DEF ReadsSound, Storing, Putting, Serves
<1>9. /\ s.at = "put" => data'[n] = data[n]
      /\ s.at = "trunc" => data'[n] = Torn
      /\ s.at = "fill" => data'[n] = s.c /\ s.c \in Data
  <2>1. s.at = "put" => PutMeta(t)
    BY DEF PutMeta, TruncateData, FillData, At
  <2>2. s.at = "trunc" => TruncateData(t)
    BY DEF PutMeta, TruncateData, FillData, At
  <2>3. s.at = "fill" => FillData(t)
    BY DEF PutMeta, TruncateData, FillData, At
  <2>4. s.at = "fill" => data[n] = Torn /\ s.c \in Data
    BY <1>1 DEF CarriesSound
  <2>5. s.c \in Data => Overlay(Torn, s.c) = s.c
    <3>1. Torn # None /\ Size[Torn] = 0
      BY CacheAssumption DEF Content
    <3>2. s.c \in Data => Size[s.c] > 0 /\ Size[s.c] \in Nat
      BY CacheAssumption DEF Tag, Content
    <3>. QED  BY <3>1, <3>2 DEF Overlay
  <2>. QED  BY <1>1, <2>1, <2>2, <2>3, <2>4, <2>5 DEF PutMeta, TruncateData, FillData, Truncate, Fill
<1>10. CarriesSound(step[t])'
  <2>1. s.at = "trunc" => s.c \in Data /\ Sound(n, s.e, s.c)
    BY <1>1 DEF CarriesSound
  <2>2. s.at \in {"fill", "put"} => Sound(n, s.e, data'[n])
    BY <1>1, <1>9 DEF CarriesSound
  <2>3. s.at = "put" /\ s.by = "list" => ~s.e.dirty
    BY <1>1 DEF CarriesSound
  <2>4. /\ Own => Based(n, s.e)
        /\ s.by = "fetch" => s.c \in Data /\ ~s.e.dirty /\ (Alone => s.c = store[n])
    BY <1>1, <1>2 DEF CarriesSound, Storing
  <2>. QED  BY <1>1, <1>2, <1>7, <1>9, <2>1, <2>2, <2>3, <2>4
            DEF CarriesSound, Sound, TrueOf, Based, Own, Alone
<1>11. StepSound(t)'
  BY <1>2, <1>6, <1>8, <1>10 DEF StepSound
<1>. QED  BY <1>3, <1>4, <1>5, <1>11, SoundFrom

LEMMA InsertSound ==
    ASSUME OneTask, Sounding, NEW t \in Task, InsertEntry(t)
    PROVE  AllSound'
<1>. DEFINE s == step[t]  n == step[t].n
<1>1. /\ TypeOK /\ Controlled /\ s \in Step /\ n \in Name /\ s.at = "insert"
      /\ UNCHANGED <<data, store, used, op, len>>
      /\ CarriesSound(s) /\ ReadsSound(s, len[t]) /\ Fits(op[t], s)
      /\ entries' = [entries EXCEPT ![n] = s.e] /\ AfterInsert(t, s)
      /\ todo[t] # <<>> => Follows(s, todo[t][1])
      /\ s.e \in Entry
  BY SoundNow, FollowsNow, StepParts DEF InsertEntry, At, Insert, outer, Control, Carrier
<1>2. entries'[n] = s.e /\ \A m \in Name \ {n} : entries'[m] = entries[m] /\ data'[m] = data[m]
  BY <1>1 DEF TypeOK, CacheTypeOK
<1>3. Sound(n, s.e, data[n]) /\ (Own => Based(n, s.e))
  BY <1>1 DEF CarriesSound, Storing
<1>4. step'[t].n = n => NamesSound'
  BY <1>1, <1>2, <1>3, OneNameSound
<1>5. Abort(t) => AllSound'
  BY <1>1, <1>4, EndsDone, EndsSound
<1>6. CASE Done(t) /\ UNCHANGED same
  <2>1. step'[t].at = "done" /\ step'[t].n = n
    BY <1>1, <1>6, EndsDone
  <2>2. s.by # "touch"
    <3>1. s.by = "touch" => step'[t].at = "cacheRead"
      BY <1>1, Goes, DoParts DEF AfterInsert
    <3>. QED  BY <2>1, <3>1
  <2>3. todo[t] # <<>> /\ todo[t][1].at = "readGet" => todo[t][1].n = n /\ s.by = "stat"
    BY <1>1 DEF Follows, StatPhase, Putting
  <2>4. s.by = "stat" => Known(entries'[n]) /\ len'[t] = entries'[n].size
    BY <1>1, <1>2, <2>1 DEF ReadsSound, Known, Storing
  <2>5. todo[t] # <<>> /\ todo[t][1].at = "writeHead" => s.by = "fetch" /\ Alone
    BY <1>1, <2>2, WritesWhatItRead DEF Follows, ReadPhase, Putting, Storing
  <2>6. s.by = "fetch" /\ Alone => buf'[t] \in Data
    <3>1. SUFFICES ASSUME s.by = "fetch", Alone PROVE buf'[t] \in Data
      OBVIOUS
    <3>2. /\ s.c \in Data /\ ~s.e.dirty /\ s.c = store[n]
          /\ Known(s.e) /\ len[t] = s.e.size
      BY <1>1, <3>1 DEF CarriesSound, ReadsSound, Storing
    <3>3. n \in Path
      <4>1. op[t] # "expire"
        BY <1>1, <3>1 DEF Fits, StatPhase, ReadPhase, WritePhase, DeletePhase, ExportPhase,
                          ListPhase, ExpirePhase, DropPhase, Removing, Putting, Storing
      <4>. QED  BY <1>1, <4>1, SoundNow DEF OnPath, Removing
    <3>4. len[t] = Size[s.c] /\ len[t] \in Nat
      BY <1>1, <1>3, <3>1, <3>2, <3>3 DEF Sound, TrueOf, Known, Entry
    <3>5. Load(t, Cut(s.c, len[t]))
      <4>1. len[t] <= Size[s.c]
        BY <3>4
      <4>. QED  BY <1>1, <3>1, <3>4, <4>1 DEF AfterInsert
    <3>. QED  BY <1>1, <3>2, <3>4, <3>5, FullCut DEF Load, TypeOK, EngineTypeOK
  <2>7. ChainSound(step[t], todo[t], buf[t], len[t])'
    <3>1. todo'[t] = todo[t]
      BY <1>6 DEF same
    <3>2. todo[t] # <<>> /\ todo[t][1].at = "readGet" =>
             LET m == todo[t][1].n IN Known(entries'[m]) /\ len'[t] = entries'[m].size
      BY <2>3, <2>4
    <3>. QED  BY <2>5, <2>6, <3>1, <3>2 DEF ChainSound, Sized
  <2>. QED  BY <1>1, <1>4, <1>6, <2>1, <2>7, EndsSound DEF same
<1>7. CASE Goto(t, Do("cacheRead", n)) /\ s.by = "touch" /\ UNCHANGED same
  <2>1. step'[t].at = "cacheRead" /\ step'[t].n = n
    BY <1>1, <1>7, Goes, DoParts
  <2>2. Known(s.e) /\ len[t] = s.e.size /\ Serves(s.e)
    BY <1>1, <1>7 DEF ReadsSound, Storing, Putting
  <2>3. CarriesSound(step[t])' /\ ExportsSound(step[t], buf[t])'
    BY <2>1 DEF CarriesSound, ExportsSound, Storing, Exported, Removing
  <2>4. ReadsSound(step[t], len[t])'
    BY <1>1, <1>2, <2>1, <2>2 DEF ReadsSound, Sized, Known, Serves, Storing, Putting
  <2>5. StepSound(t)' /\ ChainSound(step[t], todo[t], buf[t], len[t])'
    BY <2>1, <2>3, <2>4 DEF StepSound, ChainSound
  <2>6. LoopSound(left[t])'
    BY <1>1, <1>7, LoopKept DEF same
  <2>. QED  BY <1>4, <2>1, <2>5, <2>6, SoundFrom
<1>8. CASE Goto(t, Onward(s, "listRead")) /\ s.by = "list" /\ UNCHANGED same
  <2>1. step'[t].at = "listRead" /\ step'[t].n = n /\ step'[t].e = s.e /\ step'[t].by = "list"
    BY <1>1, <1>8, Goes, OnwardParts
  <2>2. ~s.e.dirty
    BY <1>1, <1>8 DEF CarriesSound
  <2>3. CarriesSound(step[t])'
    BY <1>1, <1>3, <2>1, <2>2 DEF CarriesSound, Storing, Sound, TrueOf, Alone
  <2>4. ReadsSound(step[t], len[t])' /\ ExportsSound(step[t], buf[t])'
    BY <2>1 DEF ReadsSound, ExportsSound, Storing, Putting, Exported, Removing
  <2>5. StepSound(t)' /\ ChainSound(step[t], todo[t], buf[t], len[t])'
    BY <2>1, <2>3, <2>4 DEF StepSound, ChainSound
  <2>6. LoopSound(left[t])'
    BY <1>1, <1>8, LoopKept DEF same
  <2>. QED  BY <1>4, <2>1, <2>5, <2>6, SoundFrom
<1>. QED  BY <1>1, <1>5, <1>6, <1>7, <1>8 DEF AfterInsert

LEMMA RemovingSound ==
    ASSUME OneTask, Sounding, NEW t \in Task, DropEntry(t) \/ DropMeta(t) \/ DropData(t)
    PROVE  AllSound'
<1>. DEFINE s == step[t]  n == step[t].n
<1>1. /\ TypeOK /\ s \in Step /\ n \in Name /\ s.at \in Removing
      /\ UNCHANGED <<store, used, op, todo, left, buf, len>>
      /\ ExportsSound(s, buf[t]) /\ Fits(op[t], s) /\ OnPath(op[t], s)
      /\ s.c \in Tag
  BY SoundNow, StepParts DEF DropEntry, DropMeta, DropData, At, outer, same, Control, Removing
<1>2. s.at \in {"rmMeta", "rmData"} => entries[n] = None
  BY IndexNow DEF Sounding, IndexOf
<1>3. /\ \A m \in Name \ {n} : entries'[m] = entries[m] /\ data'[m] = data[m]
      /\ entries'[n] = None
  BY <1>1, <1>2 DEF DropEntry, DropMeta, DropData, Remove, UnlinkData, At, Removing, TypeOK,
                    CacheTypeOK
<1>4. Sound(n, None, data'[n]) /\ Based(n, None)
  BY DEF Sound, Based, Writes
<1>5. step'[t].n = n => NamesSound'
  BY <1>1, <1>3, <1>4, OneNameSound
<1>6. LoopSound(left[t])'
  BY <1>1, LoopKept
<1>7. s.by = "conflict" => s.c \in Data /\ (Alone => s.c = store[n])
  BY <1>1 DEF ExportsSound, Removing
<1>8. CASE \E l \in {"rmMeta", "rmData"} : Goto(t, Onward(s, l))
  <2>1. /\ step'[t].at \in {"rmMeta", "rmData"} /\ step'[t].n = n /\ step'[t].c = s.c
        /\ step'[t].by = s.by
    BY <1>1, <1>8, Goes, OnwardParts
  <2>2. CarriesSound(step[t])' /\ ReadsSound(step[t], len[t])'
    BY <2>1 DEF CarriesSound, ReadsSound, Storing, Putting
  <2>3. ExportsSound(step[t], buf[t])'
    BY <1>1, <1>7, <2>1 DEF ExportsSound, Alone, Own, Exported
  <2>4. StepSound(t)' /\ ChainSound(step[t], todo[t], buf[t], len[t])'
    BY <2>1, <2>2, <2>3 DEF StepSound, ChainSound
  <2>. QED  BY <1>5, <1>6, <2>1, <2>4, SoundFrom
<1>9. CASE Goto(t, AfterRemove(s)) /\ AfterRemove(s).at = "done"
  <2>1. AfterRemove(s) = Do("done", n)
    BY <1>9, MkParts DEF AfterRemove, Put
  <2>2. ~StatPhase(s) /\ ~ReadPhase(s) /\ s.at # "done"
    BY <1>1 DEF StatPhase, ReadPhase, Removing, Putting, Storing
  <2>3. step'[t].n = n /\ Done(t)
    BY <1>1, <1>9, <2>1, Goes, DoParts DEF Done
  <2>. QED  BY <1>1, <1>5, <2>2, <2>3, EndsSound
<1>10. CASE Goto(t, AfterRemove(s)) /\ AfterRemove(s).at # "done"
  <2>. DEFINE w == Import(s.c)
  <2>1. /\ step'[t].at = "put" /\ step'[t].n = n /\ step'[t].by = "conflict" /\ step'[t].e = w
        /\ s.by = "conflict"
    BY <1>1, <1>10, Goes, AfterRemoveParts
  <2>2. s.c \in Data /\ (Alone => s.c = store[n])
    BY <1>7, <2>1
  <2>3. ~w.deleted /\ ~w.dirty /\ ~w.cached /\ w.size = Size[s.c]
    BY DEF Import, FromPosix
  <2>. HIDE DEF w
  <2>4. CarriesSound(step[t])'
    BY <1>1, <2>1, <2>2, <2>3 DEF CarriesSound, Storing, Sound, TrueOf, Based, Writes, Alone
  <2>5. ReadsSound(step[t], len[t])' /\ ExportsSound(step[t], buf[t])'
    BY <2>1 DEF ReadsSound, ExportsSound, Storing, Putting, Exported, Removing
  <2>6. StepSound(t)' /\ ChainSound(step[t], todo[t], buf[t], len[t])'
    BY <2>1, <2>4, <2>5 DEF StepSound, ChainSound
  <2>. QED  BY <1>5, <1>6, <2>1, <2>6, SoundFrom
<1>. QED  BY <1>8, <1>9, <1>10 DEF DropEntry, DropMeta, DropData

LEMMA SavingSound ==
    ASSUME OneTask, Sounding, NEW t \in Task, SaveLost(t)
    PROVE  AllSound'
<1>. DEFINE s == step[t]  n == step[t].n
<1>1. /\ TypeOK /\ s \in Step /\ n \in Name /\ s.at = "lfSave" /\ s.e \in Entry
      /\ UNCHANGED <<store, used, op, todo, left, buf, len>>
      /\ ExportsSound(s, buf[t]) /\ Goto(t, Onward(s, "drop")) /\ n \in Path
      /\ Fits(op[t], s)
  BY SoundNow, ReadsOnPath, StepParts
     DEF SaveLost, At, outer, same, Carrier, Putting, Removing, Control
<1>2. s.by = "conflict"
  BY <1>1 DEF Fits, StatPhase, ReadPhase, WritePhase, DeletePhase, ExportPhase, ListPhase,
              ExpirePhase, DropPhase, Removing, Putting, Storing
<1>3. /\ s.e = entries[n] /\ Writes(s.e) /\ buf[t] = data[n] /\ s.c \in Data
      /\ Alone => s.c = store[n]
      /\ ~Own
  BY <1>1, <1>2 DEF ExportsSound
<1>4. /\ \A m \in Name : Sound(m, entries[m], data[m])
      /\ \A m \in Name : store[m] \in Data \cup {None}
  BY <1>1, NamesNow DEF AtWork
<1>5. TrueOf(n, s.e, data[n]) /\ s.e.dirty /\ ~s.e.deleted
  BY <1>1, <1>3, <1>4 DEF Sound, Writes
<1>6. s.e.cached /\ buf[t] \in Data /\ s.e.size = Size[buf[t]]
  BY <1>3, <1>5 DEF TrueOf
<1>. DEFINE w == LostEntry(s.e)
<1>7. ~w.dirty /\ ~w.deleted /\ w.size = s.e.size
  BY <1>1, <1>5 DEF LostEntry, Entry
<1>. HIDE DEF w
<1>8. PICK l \in Lost : data' = [data EXCEPT ![l] = buf[t]] /\ entries' = [entries EXCEPT ![l] = w]
  BY DEF SaveLost, SaveBytes, Insert, w
<1>9. l \in Name /\ l \notin Path
  BY Disjoint, NameParts
<1>10. /\ entries'[l] = w /\ data'[l] = buf[t]
       /\ \A m \in Name \ {l} : entries'[m] = entries[m] /\ data'[m] = data[m]
  BY <1>1, <1>8, <1>9 DEF TypeOK, CacheTypeOK
<1>11. \A m \in Name : Sound(m, entries'[m], data'[m])
  <2>1. Sound(l, w, buf[t])
    BY <1>6, <1>7, <1>9 DEF Sound, TrueOf
  <2>. QED  BY <1>4, <1>10, <2>1
<1>12. NamesSound'
  <2>1. ~Own'
    BY <1>1, <1>3 DEF Own, Alone
  <2>2. ASSUME NEW m \in Name PROVE Sound(m, entries[m], data[m])'
    <3>1. Sound(m, entries'[m], data'[m])
      BY <1>11
    <3>. QED  BY <1>1, <3>1 DEF Sound, TrueOf, Alone
  <2>. QED  BY <1>1, <1>4, <2>1, <2>2 DEF NamesSound
<1>13. LoopSound(left[t])'
  BY <1>1, LoopKept
<1>14. step'[t].at = "drop" /\ step'[t].n = n /\ step'[t].c = s.c /\ step'[t].by = s.by
  BY <1>1, Goes, OnwardParts
<1>15. CarriesSound(step[t])' /\ ReadsSound(step[t], len[t])'
  BY <1>14 DEF CarriesSound, ReadsSound, Storing, Putting
<1>16. ExportsSound(step[t], buf[t])'
  BY <1>1, <1>3, <1>14 DEF ExportsSound, Alone, Own, Exported
<1>17. StepSound(t)' /\ ChainSound(step[t], todo[t], buf[t], len[t])'
  BY <1>14, <1>15, <1>16 DEF StepSound, ChainSound
<1>. QED  BY <1>12, <1>13, <1>17, SoundFrom

LEMMA ExpiringSound ==
    ASSUME OneTask, Sounding, NEW t \in Task, ExpireData(t)
    PROVE  AllSound'
<1>. DEFINE s == step[t]  n == step[t].n  w == Emptied(step[t].e)
<1>1. /\ TypeOK /\ s \in Step /\ n \in Name /\ s.at = "expire" /\ s.e \in Entry
      /\ UNCHANGED <<entries, store, used, op, todo, left, buf, len>>
      /\ CarriesSound(s) /\ OnPath(op[t], s)
      /\ Goto(t, Put(n, w, None, "cache")) /\ data' = [data EXCEPT ![n] = None]
  BY SoundNow, StepParts DEF ExpireData, At, outer, same, Carrier, UnlinkData
<1>2. Clean(w) /\ Sound(n, w, None)
  <2>1. ~s.e.dirty
    BY <1>1, CacheAssumption DEF OnPath, Clean
  <2>2. ~w.dirty
    BY <1>1, <2>1 DEF Emptied, Entry
  <2>. QED  BY <1>1, <2>2 DEF Clean, CarriesSound
<1>3. step'[t].at = "put" /\ step'[t].n = n /\ step'[t].e = w /\ step'[t].by = "cache"
  BY <1>1, Goes, MkParts DEF Put
<1>. HIDE DEF w
<1>4. data'[n] = None /\ \A m \in Name \ {n} : entries'[m] = entries[m] /\ data'[m] = data[m]
  BY <1>1 DEF TypeOK, CacheTypeOK
<1>5. NamesSound'
  BY <1>1, <1>3, <1>4, OneNameSound DEF AtWork
<1>6. LoopSound(left[t])'
  BY <1>1, LoopKept
<1>7. CarriesSound(step[t])'
  BY <1>1, <1>2, <1>3, <1>4 DEF CarriesSound, Storing, Sound, TrueOf, Based, Writes, Clean, Alone
<1>8. ReadsSound(step[t], len[t])' /\ ExportsSound(step[t], buf[t])'
  BY <1>3 DEF ReadsSound, ExportsSound, Storing, Putting, Exported, Removing
<1>9. StepSound(t)' /\ ChainSound(step[t], todo[t], buf[t], len[t])'
  BY <1>3, <1>7, <1>8 DEF StepSound, ChainSound
<1>. QED  BY <1>5, <1>6, <1>9, SoundFrom

LEMMA QueuedSound ==
    ASSUME OneTask, Sounding, NEW t \in Task, NextCall(t) \/ NextIteration(t) \/ Return(t)
    PROVE  AllSound'
<1>1. /\ TypeOK /\ UNCHANGED <<cacheVars, store, used>> /\ step[t].at = "done"
      /\ Control(op[t], step[t], todo[t], left[t])
      /\ ChainSound(step[t], todo[t], buf[t], len[t]) /\ LoopSound(left[t])
      /\ todo[t] \in Seq(Step)
  BY SoundNow DEF NextCall, NextIteration, Return, Finished, At, outer, TypeOK, EngineTypeOK
<1>2. NamesSound' /\ \A n \in Name : Sound(n, entries[n], data[n])
  BY <1>1, NamesKept, NamesNow DEF AtWork, Exported
<1>3. CASE NextCall(t)
  <2>1. todo[t] # <<>> /\ step'[t] = Head(todo[t]) /\ UNCHANGED <<left, buf, len>>
    BY <1>1, <1>3, Goes DEF NextCall
  <2>2. step'[t] = todo[t][1] /\ 1 \in DOMAIN todo[t]
    BY <1>1, <2>1
  <2>. DEFINE s == todo[t][1]
  <2>3. s.at \in Call
    BY <1>1, <2>2 DEF Control, Queue
  <2>4. /\ s.at = "readGet" => Sized(s.n, len[t])
        /\ s.at = "writeHead" => buf[t] \in Data
    BY <1>1, <2>1 DEF ChainSound
  <2>. HIDE DEF s
  <2>5. CarriesSound(s) /\ ReadsSound(s, len'[t]) /\ ExportsSound(s, buf'[t])
    BY <2>1, <2>3, <2>4 DEF CarriesSound, ReadsSound, ExportsSound, Call, Storing, Putting,
                            Exported, Removing
  <2>6. StepSound(t)'
    BY <1>1, <2>1, <2>2, <2>4, <2>5, StepFrom DEF s
  <2>7. ChainSound(step[t], todo[t], buf[t], len[t])'
    BY <2>2, <2>3 DEF ChainSound, Call, s
  <2>. QED  BY <1>1, <1>2, <2>1, <2>6, <2>7, LoopKept, SoundFrom
<1>4. CASE NextIteration(t)
  <2>1. PICK i \in left[t] : Goto(t, i) /\ left' = [left EXCEPT ![t] = Remaining(@, i)]
    BY <1>4 DEF NextIteration
  <2>2. step'[t] = i /\ left'[t] \subseteq left[t] /\ i \in Step
    BY <1>1, <2>1, Goes DEF Remaining, TypeOK, EngineTypeOK
  <2>3. Iterates(op[t], i)
    BY <1>1, <2>1 DEF Control
  <2>4. /\ i.at = "put" => Sound(i.n, i.e, None) /\ ~i.e.dirty
        /\ i.at = "expire" => Sound(i.n, Emptied(i.e), None)
    BY <1>1 DEF LoopSound
  <2>5. i.at = "put" => Sound(i.n, i.e, data[i.n]) /\ Based(i.n, i.e)
    <3>1. None \notin Data
      BY CacheAssumption DEF Content
    <3>. QED  BY <2>4, <3>1 DEF Sound, TrueOf, Based, Writes
  <2>6. CarriesSound(i)
    BY <2>3, <2>4, <2>5 DEF CarriesSound, Iterates, Storing
  <2>7. ReadsSound(i, len'[t]) /\ ExportsSound(i, buf'[t]) /\ i.at \notin {"writeHead", "done"}
    BY <2>3 DEF ReadsSound, ExportsSound, Iterates, Storing, Putting, Exported, Removing
  <2>8. StepSound(t)'
    BY <1>1, <2>2, <2>6, <2>7, StepFrom
  <2>9. ChainSound(step[t], todo[t], buf[t], len[t])'
    BY <2>2, <2>7 DEF ChainSound
  <2>. QED  BY <1>1, <1>2, <2>2, <2>8, <2>9, LoopKept, SoundFrom
<1>5. CASE Return(t)
  <2>1. step'[t].at = "done" /\ todo'[t] = <<>> /\ left' = left
    BY <1>1, <1>5, Goes, NoStepParts DEF Return, Finished
  <2>2. StepSound(t)' /\ ChainSound(step[t], todo[t], buf[t], len[t])'
    BY <2>1, DoneSound DEF ChainSound
  <2>. QED  BY <1>1, <1>2, <2>1, <2>2, LoopKept, SoundFrom
<1>. QED  BY <1>3, <1>4, <1>5

LEMMA BeginSound ==
    ASSUME OneTask, Sounding, NEW t \in Task, NEW name, NEW first, NEW rest, NEW loop,
           Begin(t, name, first, rest, loop), first.at \in {"stat", "writeHead", "delGet",
           "invalidate", "done"}, first.at # "done" \/ rest = <<>>, LoopSound(loop),
           first.at = "writeHead" => buf'[t] \in Data
    PROVE  AllSound'
<1>1. /\ step'[t] = first /\ todo'[t] = rest /\ left'[t] = loop /\ op[t] = "none"
      /\ UNCHANGED <<cacheVars, store, used>> /\ Controlled
  BY Goes DEF Begin, Sounding, TypeOK, EngineTypeOK
<1>2. step[t].at = "done"
  BY <1>1, IdleIsDone DEF Running
<1>3. NamesSound'
  BY <1>1, <1>2, NamesKept DEF AtWork, Exported
<1>4. CarriesSound(first) /\ ReadsSound(first, len'[t]) /\ ExportsSound(first, buf'[t])
  BY DEF CarriesSound, ReadsSound, ExportsSound, Storing, Putting, Exported, Removing
<1>5. StepSound(t)'
  BY <1>1, <1>4, StepFrom
<1>6. ChainSound(step[t], todo[t], buf[t], len[t])'
  BY <1>1 DEF ChainSound
<1>7. LoopSound(left[t])'
  BY <1>1 DEF LoopSound, Sound, TrueOf, Alone
<1>. QED  BY <1>3, <1>5, <1>6, <1>7, SoundFrom

LEMMA BeginsSound ==
    ASSUME OneTask, Sounding, NEW t \in Task, Begins(t) PROVE AllSound'
<1>1. /\ \A n, l : Do(l, n).at = l
      /\ NoStep.at = "done" /\ LoopSound({})
  BY DoParts, NoStepParts DEF LoopSound
<1>2. /\ TypeOK /\ \A n \in Name : /\ Sound(n, entries[n], data[n]) /\ entries[n] \in Entry \cup {None}
                                   /\ store[n] \in Data \cup {None}
  <2>1. step[t].at = "done" /\ TypeOK
    BY BeginsFirst, IdleIsDone DEF Running, Sounding
  <2>. QED  BY <2>1, NamesNow, Held DEF AtWork
<1>3. ASSUME NEW n \in Path, Stat(t, n) \/ Read(t, n) \/ DeletePath(t, n) \/ InvalidatePath(t, n)
      PROVE  AllSound'
  <2>1. \E l \in {"stat", "delGet", "invalidate"} : \E name, rest :
           Begin(t, name, Do(l, n), rest, {})
    BY <1>3 DEF Stat, Read, DeletePath, InvalidatePath
  <2>2. PICK l \in {"stat", "delGet", "invalidate"} : \E name, rest :
           Begin(t, name, Do(l, n), rest, {})
    BY <2>1
  <2>3. PICK name, rest : Begin(t, name, Do(l, n), rest, {})
    BY <2>2
  <2>. DEFINE first == Do(l, n)
  <2>4. Begin(t, name, first, rest, {}) /\ first.at = l
    BY <1>1, <2>3
  <2>. HIDE DEF first
  <2>. QED  BY <1>1, <2>4, BeginSound
<1>4. ASSUME NEW n \in Path, NEW d \in Data, WriteFile(t, n, d) PROVE AllSound'
  <2>1. buf'[t] \in Data
    BY <1>2, <1>4 DEF WriteFile, Load, TypeOK, EngineTypeOK
  <2>. DEFINE first == Do("writeHead", n)
  <2>2. Begin(t, "write", first, Export(n), {}) /\ first.at = "writeHead"
    BY <1>1, <1>4 DEF WriteFile
  <2>. HIDE DEF first
  <2>. QED  BY <1>1, <2>1, <2>2, BeginSound
<1>5. ASSUME NEW from \in Path, NEW to \in Path, RenamePath(t, from, to) PROVE AllSound'
  <2>. DEFINE first == Do("stat", from)
  <2>1. \E rest : Begin(t, "rename", first, rest, {})
    BY <1>5, Zenon DEF RenamePath
  <2>2. first.at = "stat"
    BY <1>1
  <2>. HIDE DEF first
  <2>. QED  BY <1>1, <2>1, <2>2, BeginSound
<1>6. CASE ListDir(t)
  <2>. DEFINE loop == {Put(m, Import(store[m]), None, "list") : m \in {m \in Name : store[m] # None}}
  <2>1. \A i \in loop : i.at = "put" /\ \E m \in Name : i.n = m /\ i.e = Import(store[m])
                                                        /\ store[m] # None
    BY MkParts DEF Put
  <2>2. \A m \in Name : store[m] # None =>
            Sound(m, Import(store[m]), None) /\ ~Import(store[m]).dirty
    BY <1>2 DEF Sound, TrueOf, Import, FromPosix
  <2>3. Begin(t, "list", NoStep, <<>>, loop)
    BY <1>6 DEF ListDir
  <2>. HIDE DEF loop
  <2>4. LoopSound(loop)
    BY <2>1, <2>2 DEF LoopSound
  <2>. QED  BY <1>1, <2>3, <2>4, BeginSound
<1>7. CASE Flush(t)
  <2>. DEFINE loop == {Do("fpGet", m) : m \in DirtyNames}
  <2>1. \A i \in loop : i.at = "fpGet"
    BY <1>1
  <2>2. Begin(t, "flush", NoStep, <<>>, loop)
    BY <1>7 DEF Flush
  <2>. HIDE DEF loop
  <2>3. LoopSound(loop)
    BY <2>1 DEF LoopSound
  <2>. QED  BY <1>1, <2>2, <2>3, BeginSound
<1>8. CASE ExpireCache(t)
  <2>. DEFINE loop == {Mk("expire", m, entries[m], None, "cache") :
                          m \in {m \in Name : Expirable(entries[m])}}
  <2>1. \A i \in loop : i.at = "expire" /\ \E m \in Name : i.n = m /\ i.e = entries[m]
                                                           /\ Expirable(entries[m])
    BY MkParts
  <2>2. ASSUME NEW m \in Name, Expirable(entries[m])
        PROVE  Sound(m, Emptied(entries[m]), None)
    <3>1. /\ entries[m] \in Entry /\ entries[m] # None /\ ~entries[m].dirty
          /\ TrueOf(m, entries[m], data[m])
      BY <1>2, <2>2 DEF Expirable, Sound
    <3>2. LET w == Emptied(entries[m]) IN
            /\ w.deleted = entries[m].deleted /\ ~w.dirty /\ ~w.cached /\ w.size = entries[m].size
      BY <3>1 DEF Emptied, Entry
    <3>. QED  BY <3>1, <3>2 DEF Sound, TrueOf
  <2>3. Begin(t, "expire", NoStep, <<>>, loop)
    BY <1>8 DEF ExpireCache
  <2>. HIDE DEF loop
  <2>4. LoopSound(loop)
    BY <2>1, <2>2 DEF LoopSound
  <2>. QED  BY <1>1, <2>3, <2>4, BeginSound
<1>9. ASSUME NEW prefix \in Prefix, InvalidatePrefix(t, prefix) PROVE AllSound'
  <2>. DEFINE loop == {Do("drop", m) : m \in {m \in prefix : Droppable(entries[m])}}
  <2>1. \A i \in loop : i.at = "drop"
    BY <1>1
  <2>2. Begin(t, "invalidatePrefix", NoStep, <<>>, loop)
    BY <1>9 DEF InvalidatePrefix
  <2>. HIDE DEF loop
  <2>3. LoopSound(loop)
    BY <2>1 DEF LoopSound
  <2>. QED  BY <1>1, <2>2, <2>3, BeginSound
<1>. QED  BY <1>3, <1>4, <1>5, <1>6, <1>7, <1>8, <1>9 DEF Begins

LEMMA AgeSound ==
    ASSUME OneTask, Sounding, Age PROVE AllSound'
<1>1. /\ TypeOK /\ Controlled /\ UNCHANGED <<data, store, used, step, todo, left>>
      /\ entries' = Aged(entries) /\ \A t \in Task : ~Running(t)
  BY DEF Age, Sounding, taskVars
<1>2. \A t \in Task : step[t].at = "done" /\ todo[t] = <<>> /\ left[t] = {}
  BY <1>1, IdleIsDone
<1>3. /\ \A n \in Name : Sound(n, entries[n], data[n]) /\ (Own => Based(n, entries[n]))
      /\ \A n \in Name : store[n] \in Data \cup {None}
  BY <1>2 DEF Sounding, AllSound, NamesSound, Elsewhere, AtWork, Exported
<1>4. ASSUME NEW n \in Name
      PROVE  Sound(n, entries'[n], data[n]) /\ (Own => Based(n, entries'[n]))
  <2>1. entries[n] \in Entry \cup {None}
    BY <1>1, Held
  <2>2. CASE entries[n] = None
    BY <1>1, <2>2 DEF Aged, Sound, Based, Writes
  <2>3. CASE entries[n] \in Entry /\ entries[n] # None
    <3>. DEFINE e == entries[n]  w == entries'[n]
    <3>1. w = [e EXCEPT !.old = TRUE]
      BY <1>1, <2>3 DEF Aged
    <3>2. /\ w.base = e.base /\ w.size = e.size /\ w.cached = e.cached /\ w.dirty = e.dirty
          /\ w.deleted = e.deleted
      BY <2>3, <3>1 DEF Entry
    <3>3. TrueOf(n, e, data[n]) /\ (Own => Based(n, e)) /\ e # None
      BY <1>3, <2>3 DEF Sound
    <3>. HIDE DEF e, w
    <3>4. TrueOf(n, w, data[n]) /\ (Own => Based(n, w))
      BY <3>2, <3>3 DEF TrueOf, Based, Writes
    <3>. QED  BY <3>4 DEF Sound, w
  <2>. QED  BY <2>1, <2>2, <2>3
<1>5. ASSUME NEW n \in Name
      PROVE  Sound(n, entries[n], data[n])' /\ (Own' => Based(n, entries[n])')
  <2>1. Sound(n, entries'[n], data[n]) /\ (Own => Based(n, entries'[n]))
    BY <1>4
  <2>. QED  BY <1>1, <2>1 DEF Sound, TrueOf, Based, Own, Alone
<1>6. NamesSound'
  BY <1>1, <1>3, <1>5 DEF NamesSound
<1>. QED  BY <1>1, <1>2, <1>6 DEF AllSound, StepSound, CarriesSound, ReadsSound, ExportsSound,
          ChainSound, LoopSound, Storing, Putting, Removing, Exported

(* Once somebody else writes the bucket, nothing is said of the object.    *)
LEMMA RemoteSound ==
    ASSUME OneTask, Sounding, NEW n \in Path, NEW c \in Data \cup {None}, Remote(n, c)
    PROVE  AllSound'
<1>1. /\ TypeOK /\ UNCHANGED <<cacheVars, step, todo, left, buf, len>>
      /\ store' = [store EXCEPT ![n] = c] /\ store \in [Name -> Tag]
  BY DEF Remote, Sounding, taskVars, TypeOK, EngineTypeOK
<1>2. ~Alone' /\ ~Own'
  <2>1. used \in [Hazard -> Nat] /\ used' = [used EXCEPT !["remote"] = @ + 1]
    BY DEF Remote, Spend, Sounding, TypeOK, EngineTypeOK
  <2>2. used["remote"] \in Nat /\ used'["remote"] = used["remote"] + 1
    BY <2>1 DEF Hazard
  <2>. QED  BY <2>2 DEF Alone, Own
<1>3. NamesSound'
  <2>1. \A m \in Name : store'[m] \in Data \cup {None}
    BY <1>1 DEF Sounding, AllSound, NamesSound
  <2>2. \A m \in Name : Elsewhere(m, AtWork)' => Sound(m, entries[m], data[m])'
    BY <1>1, <1>2 DEF Sounding, AllSound, NamesSound, Sound, TrueOf, Elsewhere, cacheVars
  <2>. QED  BY <1>2, <2>1, <2>2 DEF NamesSound
<1>4. ASSUME NEW t \in Task
      PROVE  StepSound(t)' /\ ChainSound(step[t], todo[t], buf[t], len[t])' /\ LoopSound(left[t])'
  <2>. USE <1>1, <1>2
  <2>1. /\ CarriesSound(step[t]) /\ ReadsSound(step[t], len[t]) /\ ExportsSound(step[t], buf[t])
        /\ ChainSound(step[t], todo[t], buf[t], len[t]) /\ LoopSound(left[t]) /\ StepSound(t)
    BY SoundNow
  <2>2. CarriesSound(step[t])'
    BY <2>1 DEF CarriesSound, Sound, TrueOf, cacheVars
  <2>3. ReadsSound(step[t], len[t])'
    BY <2>1 DEF ReadsSound, Sized, cacheVars
  <2>4. ExportsSound(step[t], buf[t])'
    BY <2>1 DEF ExportsSound, cacheVars
  <2>5. StepSound(t)'
    BY <2>1, <2>2, <2>3, <2>4 DEF StepSound
  <2>6. ChainSound(step[t], todo[t], buf[t], len[t])'
    BY <2>1 DEF ChainSound, Sized, cacheVars
  <2>7. LoopSound(left[t])'
    BY <2>1 DEF LoopSound, Sound, TrueOf
  <2>. QED  BY <2>5, <2>6, <2>7
<1>. QED  BY <1>3, <1>4 DEF AllSound

LEMMA SoundInit == Init => AllSound
<1>. SUFFICES ASSUME Init PROVE AllSound
  OBVIOUS
<1>1. NamesSound
  BY DEF Init, CacheInit, NamesSound, Sound, Based, Writes
<1>2. \A t \in Task : step[t].at = "done" /\ todo[t] = <<>> /\ left[t] = {}
  BY NoStepParts DEF Init
<1>. QED  BY <1>1, <1>2 DEF AllSound, StepSound, CarriesSound, ReadsSound, ExportsSound,
          ChainSound, LoopSound, Storing, Putting, Removing, Exported

LEMMA CalmBefore ==
    ASSUME TypeOK, [Next]_vars, Calm'
    PROVE  Calm /\ ~Crash
<1>1. used["crash"] = 0 /\ ~Crash /\ (used'["remote"] = 0 => used["remote"] = 0)
  BY UsedGrows DEF Calm, Hazard
<1>. QED  BY <1>1 DEF Calm, Alone

LEMMA SoundNext ==
    ASSUME OneTask, Sounding, [Next]_vars, Calm' PROVE AllSound'
<1>1. ~Crash
  BY CalmBefore DEF Sounding
<1>2. ASSUME NEW t \in Task, Begins(t) PROVE AllSound'
  BY <1>2, BeginsSound
<1>3. ASSUME NEW t \in Task, Proceeds(t) PROVE AllSound'
  BY <1>3, ReadingSound, ExportingSound, StoringObjects, StoringSound, InsertSound, RemovingSound,
     SavingSound, ExpiringSound, QueuedSound DEF Proceeds
<1>4. ASSUME NEW t \in Task, BackendFails(t) PROVE AllSound'
  BY <1>4, FailingSound
<1>5. CASE UNCHANGED vars
  <2>1. UNCHANGED <<entries, data, store, step, todo, left, buf, len, used>>
    BY <1>5 DEF vars, cacheVars, taskVars
  <2>2. NamesSound'
    BY <2>1 DEF Sounding, AllSound, NamesSound, Sound, TrueOf, Based, Own, Alone, Elsewhere
  <2>3. ASSUME NEW t \in Task
        PROVE  /\ StepSound(t)' /\ LoopSound(left[t])'
               /\ ChainSound(step[t], todo[t], buf[t], len[t])'
    <3>1. /\ CarriesSound(step[t]) /\ ReadsSound(step[t], len[t]) /\ ExportsSound(step[t], buf[t])
          /\ ChainSound(step[t], todo[t], buf[t], len[t]) /\ LoopSound(left[t]) /\ StepSound(t)
      BY SoundNow
    <3>2. CarriesSound(step[t])'
      BY <2>1, <3>1 DEF CarriesSound, Sound, TrueOf, Based, Own, Alone
    <3>3. ReadsSound(step[t], len[t])' /\ ExportsSound(step[t], buf[t])'
      BY <2>1, <3>1 DEF ReadsSound, ExportsSound, Sized, Own, Alone
    <3>4. ChainSound(step[t], todo[t], buf[t], len[t])' /\ LoopSound(left[t])'
      BY <2>1, <3>1 DEF ChainSound, LoopSound, Sized, Sound, TrueOf, Alone
    <3>. QED  BY <2>1, <3>1, <3>2, <3>3, <3>4 DEF StepSound
  <2>. QED  BY <2>2, <2>3 DEF AllSound
<1>. QED  BY <1>1, <1>2, <1>3, <1>4, <1>5, AgeSound, RemoteSound DEF Next

(* With one task, until the process crashes and as long as no rename runs  *)
(* against somebody else's writes, every entry tells the truth about its   *)
(* data file and every step about what it carries; and, with nobody else   *)
(* around, about the object too: for all calls, backends, import rules and *)
(* backend errors.                                                         *)
THEOREM EntriesAreTrue == OneTask => (Spec => [](Calm => AllSound))
<1>. SUFFICES ASSUME OneTask PROVE Spec => [](Calm => AllSound)
  OBVIOUS
<1>. DEFINE Inv == Calm => AllSound
<1>1. Init => Inv
  BY SoundInit
<1>2. TypeOK /\ Controlled /\ IndexInv /\ Places /\ Inv /\ [Next]_vars => Inv'
  <2>. SUFFICES ASSUME TypeOK, Controlled, IndexInv, Places, Inv, [Next]_vars, Calm'
                PROVE  AllSound'
    BY DEF Inv
  <2>1. Calm
    BY CalmBefore
  <2>. QED  BY <2>1, SoundNext DEF Sounding
<1>3. Spec => []IndexInv
  BY IndexOnDisk
<1>. QED  BY <1>1, <1>2, <1>3, TypeCorrect, CallsInOrder, LostAndFoundApart, PTL DEF Spec

(* What a read would be answered from is whole and as long as its entry    *)
(* says, whatever calls the only writer of the bucket makes and whatever   *)
(* backend calls fail.                                                     *)
THEOREM ServesWholeFiles ==
    OneTask => (Spec => [](used["crash"] = 0 /\ used["remote"] = 0 => ServedWhole))
<1>. SUFFICES ASSUME OneTask
              PROVE  Spec => [](used["crash"] = 0 /\ used["remote"] = 0 => ServedWhole)
  OBVIOUS
<1>1. TypeOK /\ Places /\ (Calm => AllSound) =>
         (used["crash"] = 0 /\ used["remote"] = 0 => ServedWhole)
  <2>. SUFFICES ASSUME TypeOK, Places, Calm => AllSound, used["crash"] = 0, used["remote"] = 0,
                       NEW n \in Name, Quiet(n), Serves(entries[n]), Known(entries[n])
                PROVE  data[n] \in Data /\ Size[data[n]] = entries[n].size
    BY DEF ServedWhole
  <2>1. Alone /\ AllSound
    BY DEF Calm, Alone
  <2>2. Sound(n, entries[n], data[n]) /\ entries[n] \in Entry
    BY <2>1, Held DEF AllSound, NamesSound, Elsewhere, AtWork, Quiet, Known
  <2>3. CASE n \in Path
    BY <2>1, <2>2, <2>3, Measured DEF Known
  <2>4. CASE n \in Lost
    BY <2>2, <2>4 DEF Sound, TrueOf, Known, Serves
  <2>. QED  BY <2>3, <2>4, NameParts
<1>2. Spec => [](Calm => AllSound)
  BY EntriesAreTrue
<1>. QED  BY <1>1, <1>2, TypeCorrect, LostAndFoundApart, PTL

(* With one task no half-written file is ever exported, until the process  *)
(* crashes; with other writers around, if it does not rename.              *)
THEOREM ExportsWholeFiles ==
    OneTask => (Spec => [](Calm => NoTornExport))
<1>. SUFFICES ASSUME OneTask PROVE Spec => [](Calm => NoTornExport)
  OBVIOUS
<1>1. (Calm => AllSound) => (Calm => NoTornExport)
  BY CacheAssumption DEF AllSound, NamesSound, NoTornExport, Content
<1>2. Spec => [](Calm => AllSound)
  BY EntriesAreTrue
<1>. QED  BY <1>1, <1>2, PTL

(* The only writer of the bucket never finds a conflict, as long as the    *)
(* backend answers and the process does not crash: a write is based on the *)
(* object as head just reported it, and nothing but its own export changes *)
(* that object before the entry is marked clean.                           *)
THEOREM NeverConflictsWithItself ==
    OneTask => (Spec => [](used["crash"] = 0 /\ used["fault"] = 0 => NoSelfConflict))
<1>. SUFFICES ASSUME OneTask
              PROVE  Spec => [](used["crash"] = 0 /\ used["fault"] = 0 => NoSelfConflict)
  OBVIOUS
<1>1. (Calm => AllSound) => (used["crash"] = 0 /\ used["fault"] = 0 => NoSelfConflict)
  BY DEF AllSound, StepSound, ExportsSound, NoSelfConflict, Own, Alone, Calm, At
<1>2. Spec => [](Calm => AllSound)
  BY EntriesAreTrue
<1>. QED  BY <1>1, <1>2, PTL

-----------------------------------------------------------------------------
(* Without expirations, a copy in lost+found keeps the entry it was saved  *)
(* with.                                                                   *)
NeverExpires == \A t \in Task : "expire" \notin Ops[t]
LostKept == \A l \in Lost : entries[l] # None => entries[l].cached /\ ~entries[l].deleted

LEMMA LostKeptNext ==
    ASSUME OneTask, NeverExpires, Sounding, LostKept, [Next]_vars, Calm'
    PROVE  LostKept'
<1>1. ~Crash
  BY CalmBefore DEF Sounding
<1>2. ASSUME NEW t \in Task, Deciding(t) PROVE LostKept'
  <2>1. UNCHANGED entries
    BY <1>2, Decided DEF Sounding, cacheVars
  <2>. QED  BY <2>1 DEF LostKept
<1>3. ASSUME NEW t \in Task, Updating(t) PROVE LostKept'
  <2>. DEFINE s == step[t]
  <2>1. TypeOK /\ OnPath(op[t], s) /\ op[t] # "expire" /\ s \in Step /\ s.n \in Name
    BY SoundNow DEF Sounding, Places, NeverExpires
  <2>2. CASE \/ PutMeta(t) \/ TruncateData(t) \/ FillData(t) \/ DropMeta(t) \/ DropData(t)
             \/ ExpireData(t)
    <3>1. UNCHANGED entries
      BY <2>2 DEF PutMeta, TruncateData, FillData, DropMeta, DropData, ExpireData
    <3>. QED  BY <3>1 DEF LostKept
  <2>3. CASE InsertEntry(t)
    <3>1. s.n \in Path /\ entries' = [entries EXCEPT ![s.n] = s.e]
      BY <2>1, <2>3 DEF InsertEntry, At, Insert, OnPath, Removing
    <3>2. \A l \in Lost : entries'[l] = entries[l]
      BY <2>1, <3>1, Disjoint, NameParts DEF TypeOK, CacheTypeOK
    <3>. QED  BY <3>2 DEF LostKept
  <2>4. CASE DropEntry(t)
    <3>1. entries' = [entries EXCEPT ![s.n] = None]
      BY <2>4 DEF DropEntry, Remove
    <3>2. \A l \in Lost : entries'[l] \in {entries[l], None}
      BY <2>1, <3>1, NameParts DEF TypeOK, CacheTypeOK
    <3>. QED  BY <3>2 DEF LostKept
  <2>5. CASE SaveLost(t)
    <3>1. s.e \in Entry /\ s.e.deleted = FALSE
      BY <2>1, <2>5, SoundNow, StepParts DEF SaveLost, At, ExportsSound, Writes, Carrier, Entry
    <3>2. LostEntry(s.e).cached /\ ~LostEntry(s.e).deleted
      BY <3>1 DEF LostEntry, Entry
    <3>3. PICK k \in Lost : entries' = [entries EXCEPT ![k] = LostEntry(s.e)]
      BY <2>5 DEF SaveLost, Insert
    <3>4. \A l \in Lost : entries'[l] \in {entries[l], LostEntry(s.e)}
      BY <2>1, <3>3, NameParts DEF TypeOK, CacheTypeOK
    <3>. QED  BY <3>2, <3>4 DEF LostKept
  <2>. QED  BY <1>3, <2>2, <2>3, <2>4, <2>5 DEF Updating
<1>4. ASSUME NEW n \in Path, NEW c, Remote(n, c) PROVE LostKept'
  BY <1>4 DEF Remote, cacheVars, LostKept
<1>5. CASE Age
  <2>1. \A l \in Lost : entries[l] \in Entry \cup {None}
    BY NameParts DEF Sounding, TypeOK, CacheTypeOK
  <2>. QED  BY <1>5, <2>1, NameParts DEF Age, Aged, LostKept, Entry
<1>6. CASE UNCHANGED vars
  BY <1>6 DEF vars, cacheVars, LostKept
<1>. QED  BY <1>1, <1>2, <1>3, <1>4, <1>5, <1>6, Split DEF Next

(* A local copy that a conflict moved to lost+found can be read for as     *)
(* long as it is listed there, whatever else the one task does, short of   *)
(* expiring it, and whoever else writes the bucket: until a crash.         *)
THEOREM LostFoundCanBeRead ==
    OneTask /\ NeverExpires => (Spec => [](Calm => LostFoundReadable))
<1>. SUFFICES ASSUME OneTask, NeverExpires PROVE Spec => [](Calm => LostFoundReadable)
  OBVIOUS
<1>. DEFINE Inv == Calm => LostKept
<1>1. Init => Inv
  BY NameParts DEF Init, CacheInit, LostKept
<1>2. TypeOK /\ Controlled /\ IndexInv /\ Places /\ (Calm => AllSound) /\ Inv /\ [Next]_vars
         => Inv'
  <2>. SUFFICES ASSUME TypeOK, Controlled, IndexInv, Places, Calm => AllSound, Inv, [Next]_vars,
                       Calm'
                PROVE  LostKept'
    BY DEF Inv
  <2>1. Calm
    BY CalmBefore
  <2>. QED  BY <2>1, LostKeptNext DEF Sounding
<1>3. TypeOK /\ Controlled /\ IndexInv /\ Places /\ (Calm => AllSound) /\ Inv
         => (Calm => LostFoundReadable)
  <2>. SUFFICES ASSUME TypeOK, Controlled, IndexInv, Places, AllSound, LostKept,
                       NEW l \in Lost, entries[l] # None
                PROVE  data[l] \in Data
    BY DEF LostFoundReadable, Inv
  <2>1. l \in Name /\ l \notin Path
    BY NameParts, Disjoint
  <2>2. ASSUME NEW t \in Task PROVE step[t].n = l => step[t].at \notin AtWork
    <3>1. OnPath(op[t], step[t]) /\ op[t] # "expire" /\ IndexOf(step[t])
      BY IndexNow DEF Places, NeverExpires
    <3>. QED  BY <2>1, <3>1 DEF OnPath, AtWork, Removing, IndexOf
  <2>3. Sound(l, entries[l], data[l])
    BY <2>1, <2>2 DEF AllSound, NamesSound, Elsewhere
  <2>. QED  BY <2>3 DEF Sound, TrueOf, LostKept
<1>4. Spec => []IndexInv
  BY IndexOnDisk
<1>5. Spec => [](Calm => AllSound)
  BY EntriesAreTrue
<1>. QED  BY <1>1, <1>2, <1>3, <1>4, <1>5, TypeCorrect, CallsInOrder, LostAndFoundApart, PTL DEF Spec

=============================================================================
