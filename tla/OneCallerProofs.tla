--------------------------- MODULE OneCallerProofs --------------------------
(***************************************************************************)
(* An engine with one caller, the command line or the FUSE mount, loses no *)
(* acknowledged write, whatever other writers of the bucket do and         *)
(* whichever backend calls fail, as long as nobody lists a directory and   *)
(* the process does not crash.                                             *)
(*                                                                         *)
(* NoLostWrite speaks of the index and the data files, which a call leaves *)
(* half changed while it is at work; NothingAtRisk adds what each step of  *)
(* the call may assume.  Together they are inductive.                      *)
(*                                                                         *)
(* When it does crash, it still loses no write if it reads nothing, and no *)
(* delete if it asks for no stat either: what is pending is on disk as it  *)
(* is in the index, and no step puts its entry anew.                       *)
(***************************************************************************)
EXTENDS OneTaskProofs

Inv == TypeOK /\ NoLostWrite /\ NothingAtRisk

(* One task that lists no directory, crashes or not.                       *)
NeverLists == OneTask /\ \A t \in Task : "list" \notin Ops[t]

(* No mutation becomes pending: those that are may only be settled.        *)
Stays == \A n \in Name : pending'[n] \in Content => pending'[n] = pending[n]

LEMMA GotoIs ==
    ASSUME TypeOK, NEW t \in Task, NEW s, Goto(t, s)
    PROVE  step'[t] = s
BY DEF TypeOK, EngineTypeOK, Goto

(* With one task, what holds of it after a step holds of all.              *)
LEMMA OnlyTask ==
    ASSUME NeverLists, NEW t \in Task,
           StepKeeps(step[t], buf[t])', QueueKeeps(todo[t])',
           LoopKeeps(left[t], step[t], todo[t])'
    PROVE  NothingAtRisk'
BY DEF NeverLists, OneTask, NothingAtRisk

LEMMA Now ==
    ASSUME Inv, NEW t \in Task
    PROVE  /\ StepKeeps(step[t], buf[t]) /\ QueueKeeps(todo[t])
           /\ LoopKeeps(left[t], step[t], todo[t])
BY DEF Inv, NothingAtRisk

LEMMA Unlost ==
    ASSUME Inv, NEW n \in Name, Unsynced(n)
    PROVE  Known(entries[n]) /\ entries[n].dirty /\ data[n] = pending[n] /\ n \in DirtyNames
BY DEF Inv, NoLostWrite, Unsynced, Known, DirtyNames

(* What a step leaves of the queue and of the loop keeps its promises.     *)
LEMMA RestKeeps ==
    ASSUME Inv, NEW t \in Task, Stays,
           todo'[t] \in {todo[t], <<>>}, left'[t] \in {left[t], {}},
           left[t] # {} => step'[t].at # "writeHead" /\ step'[t].by # "write"
    PROVE  /\ QueueKeeps(todo[t])'
           /\ LoopKeeps(left[t], step[t], todo[t])'
<1>1. QueueKeeps(todo[t]) /\ LoopKeeps(left[t], step[t], todo[t])
  BY Now
<1>2. QueueKeeps(todo[t])'
  BY <1>1 DEF QueueKeeps
<1>3. \A i \in left[t] : i.n \in Name
  BY DEF Inv, TypeOK, EngineTypeOK, Step
<1>4. ASSUME NEW i \in left'[t], i.at # "fpGet" PROVE ~Unsynced(i.n)'
  BY <1>1, <1>3, <1>4 DEF LoopKeeps, Stays, Unsynced
<1>5. \A i \in left'[t] : i.at \in {"fpGet", "drop", "expire"} /\ i.by = "cache"
  BY <1>1 DEF LoopKeeps
<1>6. left'[t] # {} => /\ step'[t].at # "writeHead" /\ step'[t].by # "write"
                       /\ \A i \in DOMAIN todo'[t] : todo'[t][i].at # "writeHead"
  BY <1>1 DEF LoopKeeps
<1>. QED  BY <1>2, <1>4, <1>5, <1>6 DEF LoopKeeps

LEMMA WritesKept ==
    ASSUME Inv, UNCHANGED <<entries, data>>, Stays
    PROVE  NoLostWrite'
BY DEF Inv, NoLostWrite, Stays

(* A step that changes one path, on which nothing is pending afterwards.   *)
LEMMA OthersKept ==
    ASSUME Inv, NEW n \in Name, ~(pending'[n] \in Content),
           \A m \in Name \ {n} : /\ entries'[m] = entries[m] /\ data'[m] = data[m]
                                 /\ pending'[m] = pending[m]
    PROVE  NoLostWrite' /\ Stays
BY DEF Inv, NoLostWrite, Stays

(* A step that only decides how to go on.                                  *)
LEMMA Decides ==
    ASSUME NeverLists, Inv, NEW t \in Task, NEW s, Goto(t, s),
           UNCHANGED <<entries, data, pending, todo, left>>,
           left[t] # {} => s.at # "writeHead" /\ s.by # "write",
           StepKeeps(s, buf'[t])
    PROVE  NoLostWrite' /\ NothingAtRisk'
<1>1. step'[t] = s
  BY GotoIs DEF Inv
<1>2. Stays
  BY DEF Stays
<1>3. StepKeeps(step[t], buf[t])'
  BY <1>1 DEF StepKeeps, Unsynced
<1>4. QueueKeeps(todo[t])' /\ LoopKeeps(left[t], step[t], todo[t])'
  BY <1>1, <1>2, RestKeeps
<1>. QED  BY <1>2, <1>3, <1>4, OnlyTask, WritesKept

LEMMA DoneHarmless == \A n, b : StepKeeps(Do("done", n), b)
BY DEF StepKeeps, Do, Mk, Harmful, Storing

LEMMA Ends ==
    ASSUME NeverLists, Inv, NEW t \in Task, Done(t),
           UNCHANGED <<entries, data, pending, todo, left>>
    PROVE  NoLostWrite' /\ NothingAtRisk'
<1>1. Do("done", step[t].n).at # "writeHead" /\ Do("done", step[t].n).by # "write"
  BY DEF Do, Mk
<1>. QED  BY <1>1, DoneHarmless, Decides DEF Done

LEMMA Fails ==
    ASSUME NeverLists, Inv, NEW t \in Task, Abort(t), Stays, UNCHANGED <<entries, data>>
    PROVE  NoLostWrite' /\ NothingAtRisk'
<1>1. step'[t] = Do("done", step[t].n)
  BY GotoIs DEF Inv, Abort, Done
<1>2. todo'[t] = <<>> /\ left'[t] \in {left[t], {}}
  BY DEF Abort, Inv, TypeOK, EngineTypeOK
<1>3. StepKeeps(step[t], buf[t])'
  BY <1>1 DEF StepKeeps, Do, Mk, Harmful, Storing
<1>4. QueueKeeps(todo[t])' /\ LoopKeeps(left[t], step[t], todo[t])'
  BY <1>1, <1>2, RestKeeps DEF Do, Mk
<1>. QED  BY <1>3, <1>4, OnlyTask, WritesKept

-----------------------------------------------------------------------------
(* stat and the reads.                                                     *)

LEMMA StatCacheKeeps ==
    ASSUME NeverLists, Inv, NEW t \in Task, StatCache(t) PROVE NoLostWrite' /\ NothingAtRisk'
<1>. DEFINE n == step[t].n
<1>1. CASE Done(t)
  BY <1>1, Ends DEF StatCache, cacheVars, same
<1>2. CASE ~Known(entries[n]) /\ Goto(t, Do("statHead", n))
  <2>1. ~Unsynced(n)
    BY <1>2, Unlost, StepParts DEF Inv
  <2>2. StepKeeps(Do("statHead", n), buf'[t])
    BY <2>1 DEF StepKeeps, Do, Mk, Harmful, Storing
  <2>. QED  BY <1>2, <2>2, Decides DEF StatCache, cacheVars, same, Do, Mk
<1>. QED  BY <1>1, <1>2 DEF StatCache

LEMMA StatHeadKeeps ==
    ASSUME NeverLists, Inv, NEW t \in Task, StatHead(t) PROVE NoLostWrite' /\ NothingAtRisk'
<1>. DEFINE n == step[t].n  c == store[n]
<1>1. CASE Goto(t, Put(n, Import(c), None, "stat")) /\ UNCHANGED same
  <2>1. ~Unsynced(n)
    BY Now DEF StatHead, At, StepKeeps, Harmful
  <2>2. StepKeeps(Put(n, Import(c), None, "stat"), buf'[t])
    BY <2>1 DEF StepKeeps, Put, Mk, Harmful, Storing
  <2>. QED  BY <1>1, <2>2, Decides DEF StatHead, cacheVars, same, Put, Mk
<1>2. CASE Abort(t)
  BY <1>2, Fails DEF StatHead, cacheVars, Stays
<1>. QED  BY <1>1, <1>2 DEF StatHead

LEMMA PutMetaKeeps ==
    ASSUME NeverLists, Inv, NEW t \in Task, PutMeta(t) PROVE NoLostWrite' /\ NothingAtRisk'
<1>. DEFINE s == step[t]  s2 == Onward(s, "insert")
<1>1. s \in Step /\ s.at = "put"
  BY StepParts DEF PutMeta, At, Inv
<1>2. /\ s2.at = "insert" /\ s2.n = s.n /\ s2.e = s.e /\ s2.c = s.c /\ s2.by = s.by
  BY <1>1, OnwardParts
<1>3. StepKeeps(s2, buf'[t])
  <2>. HIDE DEF s2
  <2>. QED  BY <1>1, <1>2, Now DEF StepKeeps, Harmful, Storing
<1>4. left[t] # {} => s2.at # "writeHead" /\ s2.by # "write"
  <2>. HIDE DEF s2
  <2>. QED  BY <1>2, Now DEF LoopKeeps
<1>. QED  BY <1>3, <1>4, Decides DEF PutMeta, same

(* The entry goes into the index: a write becomes pending, or nothing was. *)
LEMMA InsertEntryKeeps ==
    ASSUME NeverLists, Inv, NEW t \in Task, InsertEntry(t) PROVE NoLostWrite' /\ NothingAtRisk'
<1>. DEFINE s == step[t]  n == step[t].n
<1>1. s \in Step /\ s.at = "insert" /\ n \in Name /\ s.e \in Entry /\ s.e # None
  BY StepParts, CacheAssumption DEF InsertEntry, At, Inv, Carrier
<1>2. StepKeeps(s, buf[t]) /\ LoopKeeps(left[t], s, todo[t]) /\ QueueKeeps(todo[t])
  BY Now
<1>3. /\ entries' = [entries EXCEPT ![n] = s.e] /\ data' = data
      /\ entries'[n] = s.e
      /\ \A m \in Name \ {n} : entries'[m] = entries[m]
  BY <1>1 DEF InsertEntry, Insert, Inv, TypeOK, CacheTypeOK
<1>4. /\ s.by = "write" => pending' = [pending EXCEPT ![n] = s.c]
      /\ s.by = "delete" => pending' = [pending EXCEPT ![n] = Gone]
      /\ s.by \notin {"write", "delete"} => pending' = pending
  BY DEF InsertEntry
<1>5. Gone \notin Content
  BY EngineAssumption DEF Tag
<1>6. \A m \in Name \ {n} : pending'[m] = pending[m]
  BY <1>1, <1>4 DEF Inv, TypeOK, EngineTypeOK
<1>7. pending'[n] \in Content => Known(s.e) /\ s.e.dirty /\ data[n] = pending'[n]
  <2>. SUFFICES ASSUME pending'[n] \in Content PROVE Known(s.e) /\ s.e.dirty /\ data[n] = pending'[n]
    OBVIOUS
  <2>1. CASE s.by = "write"
    <3>1. pending'[n] = s.c
      BY <1>1, <1>4, <2>1 DEF Inv, TypeOK, EngineTypeOK
    <3>. QED  BY <1>1, <1>2, <2>1, <3>1 DEF StepKeeps, Storing, Known
  <2>2. CASE s.by = "delete"
    BY <1>1, <1>4, <1>5, <2>2 DEF Inv, TypeOK, EngineTypeOK
  <2>3. CASE s.by = "touch"
    BY <1>1, <1>2, <1>4, <2>3, Unlost DEF StepKeeps, Storing, Known, Unsynced
  <2>4. CASE s.by \notin {"write", "delete", "touch"}
    BY <1>1, <1>2, <1>4, <2>4 DEF StepKeeps, Storing, Unsynced
  <2>. QED  BY <2>1, <2>2, <2>3, <2>4
<1>8. NoLostWrite'
  BY <1>1, <1>3, <1>6, <1>7 DEF NoLostWrite, Inv
<1>9. step'[t].at \notin Harmful \cup Storing \cup {"fpWrite", "lfSave", "writeHead"}
      \/ (step'[t] = Onward(s, "listRead") /\ s.by = "list")
  <2>1. CASE Done(t) \/ Abort(t)
    <3>1. step'[t] = Do("done", n)
      BY <2>1, GotoIs DEF Inv, Done, Abort
    <3>. QED  BY <3>1 DEF Do, Mk, Harmful, Storing
  <2>2. CASE Goto(t, Do("cacheRead", n))
    <3>1. step'[t] = Do("cacheRead", n)
      BY <2>2, GotoIs DEF Inv
    <3>. QED  BY <3>1 DEF Do, Mk, Harmful, Storing
  <2>3. CASE Goto(t, Onward(s, "listRead")) /\ s.by = "list"
    BY <2>3, GotoIs DEF Inv
  <2>. QED  BY <2>1, <2>2, <2>3 DEF InsertEntry, AfterInsert
<1>10. StepKeeps(step[t], buf[t])'
  <2>1. CASE step'[t] = Onward(s, "listRead") /\ s.by = "list"
    <3>1. step'[t].at = "listRead" /\ step'[t].n = n
      BY <1>1, <2>1, OnwardParts
    <3>2. ~Unsynced(n) /\ pending' = pending
      BY <1>1, <1>2, <1>4, <2>1 DEF StepKeeps, Storing
    <3>. QED  BY <3>1, <3>2 DEF StepKeeps, Harmful, Storing, Unsynced
  <2>. QED  BY <1>9, <2>1 DEF StepKeeps, Harmful, Storing
<1>11. todo'[t] \in {todo[t], <<>>} /\ left'[t] \in {left[t], {}}
  BY DEF InsertEntry, AfterInsert, same, Abort, Inv, TypeOK, EngineTypeOK
<1>12. step'[t].by \in {"cache", s.by} /\ step'[t].at # "writeHead"
  <2>1. CASE Done(t) \/ Abort(t)
    <3>1. step'[t] = Do("done", n)
      BY <2>1, GotoIs DEF Inv, Done, Abort
    <3>. QED  BY <3>1 DEF Do, Mk
  <2>2. CASE Goto(t, Do("cacheRead", n))
    <3>1. step'[t] = Do("cacheRead", n)
      BY <2>2, GotoIs DEF Inv
    <3>. QED  BY <3>1 DEF Do, Mk
  <2>3. CASE Goto(t, Onward(s, "listRead"))
    BY <1>1, <2>3, GotoIs, OnwardParts DEF Inv
  <2>. QED  BY <2>1, <2>2, <2>3 DEF InsertEntry, AfterInsert
<1>13. QueueKeeps(todo[t])' /\ LoopKeeps(left[t], step[t], todo[t])'
  <2>1. CASE left[t] = {}
    <3>1. QueueKeeps(todo[t])'
      BY <1>2, <1>11 DEF QueueKeeps
    <3>2. left'[t] = {}
      BY <1>11, <2>1
    <3>. QED  BY <3>1, <3>2 DEF LoopKeeps
  <2>2. CASE left[t] # {}
    <3>1. s.by # "write"
      BY <1>2, <2>2 DEF LoopKeeps
    <3>2. Stays
      BY <1>1, <1>4, <1>5, <3>1 DEF Stays, Inv, TypeOK, EngineTypeOK
    <3>. QED  BY <1>11, <1>12, <3>1, <3>2, RestKeeps
  <2>. QED  BY <2>1, <2>2
<1>. QED  BY <1>8, <1>10, <1>13, OnlyTask

LEMMA ReadGetKeeps ==
    ASSUME NeverLists, Inv, NEW t \in Task, ReadGet(t) PROVE NoLostWrite' /\ NothingAtRisk'
<1>. DEFINE n == step[t].n  e == entries[n]
<1>1. n \in Name /\ e \in Entry \cup {None}
  BY StepParts, Held DEF Inv
<1>2. CASE Done(t)
  BY <1>2, Ends DEF ReadGet, cacheVars, same
<1>3. CASE Serves(e) /\ Goto(t, Put(n, Touched(e), None, "touch")) /\ UNCHANGED buf
  <2>1. Unsynced(n) => Touched(e).dirty /\ ~Touched(e).deleted
    BY <1>1, <1>3, Unlost DEF Touched, Serves, Entry, Known
  <2>2. StepKeeps(Put(n, Touched(e), None, "touch"), buf'[t])
    BY <2>1 DEF StepKeeps, Put, Mk, Harmful, Storing
  <2>. QED  BY <1>3, <2>2, Decides DEF ReadGet, cacheVars, same, Put, Mk
<1>4. CASE ~Serves(e) /\ Goto(t, Do(IF ReadsDirectly(len[t]) THEN "direct" ELSE "fetch", n))
  <2>. DEFINE s == Do(IF ReadsDirectly(len[t]) THEN "direct" ELSE "fetch", n)
  <2>1. ~Unsynced(n)
    BY <1>1, <1>4, Unlost DEF Serves, Known
  <2>2. StepKeeps(s, buf'[t])
    BY <2>1 DEF StepKeeps, Do, Mk, Harmful, Storing
  <2>3. s.at # "writeHead" /\ s.by # "write"
    BY DEF Do, Mk
  <2>. QED  BY <1>4, <2>2, <2>3, Decides DEF ReadGet, cacheVars, same
<1>. QED  BY <1>2, <1>3, <1>4 DEF ReadGet

LEMMA ReadBytesKeeps ==
    ASSUME NeverLists, Inv, NEW t \in Task, ReadBytes(t) PROVE NoLostWrite' /\ NothingAtRisk'
<1>1. CASE Done(t) /\ UNCHANGED same
  BY <1>1, Ends DEF ReadBytes, cacheVars, same
<1>2. CASE Abort(t)
  BY <1>2, Fails DEF ReadBytes, cacheVars, Stays
<1>. QED  BY <1>1, <1>2 DEF ReadBytes

LEMMA FetchKeeps ==
    ASSUME NeverLists, Inv, NEW t \in Task, Fetch(t) PROVE NoLostWrite' /\ NothingAtRisk'
<1>. DEFINE n == step[t].n  c == store[n]
<1>1. CASE Goto(t, Mk("lookup", n, None, c, "fetch")) /\ UNCHANGED same
  <2>1. StepKeeps(Mk("lookup", n, None, c, "fetch"), buf'[t])
    BY Now DEF Fetch, At, StepKeeps, Mk, Harmful, Storing
  <2>. QED  BY <1>1, <2>1, Decides DEF Fetch, cacheVars, same, Mk
<1>2. CASE Abort(t)
  BY <1>2, Fails DEF Fetch, cacheVars, Stays
<1>. QED  BY <1>1, <1>2 DEF Fetch

LEMMA FetchLookupKeeps ==
    ASSUME NeverLists, Inv, NEW t \in Task, FetchLookup(t) PROVE NoLostWrite' /\ NothingAtRisk'
<1>. DEFINE s == step[t]  s2 == Fetched(s.n, Filled(entries[s.n]), s.c, "fetch")
<1>1. CASE Goto(t, s2) /\ UNCHANGED same
  <2>1. StepKeeps(s2, buf'[t])
    BY Now DEF FetchLookup, At, StepKeeps, Fetched, Mk, Harmful, Storing
  <2>2. s2.at # "writeHead" /\ s2.by # "write"
    BY DEF Fetched, Mk
  <2>. QED  BY <1>1, <2>1, <2>2, Decides DEF FetchLookup, cacheVars, same
<1>2. CASE Abort(t)
  BY <1>2, Fails DEF FetchLookup, cacheVars, Stays
<1>. QED  BY <1>1, <1>2 DEF FetchLookup

LEMMA ListReadKeeps ==
    ASSUME NeverLists, Inv, NEW t \in Task, ListRead(t) PROVE NoLostWrite' /\ NothingAtRisk'
<1>. DEFINE s == step[t]  s2 == Fetched(s.n, Filled(s.e), store[s.n], "cache")
<1>1. CASE Goto(t, s2) /\ UNCHANGED same
  <2>1. StepKeeps(s2, buf'[t])
    BY Now DEF ListRead, At, StepKeeps, Fetched, Mk, Harmful, Storing
  <2>2. s2.at # "writeHead" /\ s2.by # "write"
    BY DEF Fetched, Mk
  <2>. QED  BY <1>1, <2>1, <2>2, Decides DEF ListRead, cacheVars, same
<1>2. CASE Abort(t)
  BY <1>2, Fails DEF ListRead, cacheVars, Stays
<1>. QED  BY <1>1, <1>2 DEF ListRead

-----------------------------------------------------------------------------
(* write_data, write_file and delete_path.                                 *)

(* A step that changes one path and leaves nothing pending there.          *)
LEMMA Replaces ==
    ASSUME NeverLists, Inv, NEW t \in Task, NEW s, Goto(t, s), UNCHANGED <<todo, left>>,
           NEW n \in Name, ~(pending'[n] \in Content),
           \A m \in Name \ {n} : /\ entries'[m] = entries[m] /\ data'[m] = data[m]
                                 /\ pending'[m] = pending[m],
           left[t] # {} => s.at # "writeHead" /\ s.by # "write",
           StepKeeps(step[t], buf[t])'
    PROVE  NoLostWrite' /\ NothingAtRisk'
<1>1. step'[t] = s
  BY GotoIs DEF Inv
<1>2. NoLostWrite' /\ Stays
  BY OthersKept
<1>3. QueueKeeps(todo[t])' /\ LoopKeeps(left[t], step[t], todo[t])'
  BY <1>1, <1>2, RestKeeps
<1>. QED  BY <1>2, <1>3, OnlyTask

LEMMA TruncateDataKeeps ==
    ASSUME NeverLists, Inv, NEW t \in Task, TruncateData(t) PROVE NoLostWrite' /\ NothingAtRisk'
<1>. DEFINE s == step[t]  n == step[t].n  s2 == Onward(s, "fill")
<1>1. s \in Step /\ s.at = "trunc" /\ n \in Name
  BY StepParts DEF TruncateData, At, Inv
<1>2. s2.at = "fill" /\ s2.n = n /\ s2.e = s.e /\ s2.c = s.c /\ s2.by = s.by
  BY <1>1, OnwardParts
<1>3. data'[n] = Torn /\ \A m \in Name \ {n} : data'[m] = data[m]
  BY <1>1 DEF TruncateData, Truncate, Inv, TypeOK, CacheTypeOK
<1>4. ~(pending'[n] \in Content) /\ \A m \in Name \ {n} : pending'[m] = pending[m]
  <2>1. CASE s.by = "write"
    BY <1>1, <2>1, CacheAssumption DEF TruncateData, Inv, TypeOK, EngineTypeOK
  <2>2. CASE s.by # "write"
    BY <1>1, <2>2, Now DEF TruncateData, StepKeeps, Storing, Unsynced
  <2>. QED  BY <2>1, <2>2
<1>5. step'[t] = s2
  BY GotoIs DEF TruncateData, Inv
<1>6. StepKeeps(step[t], buf[t])'
  <2>. HIDE DEF s2
  <2>. QED  BY <1>1, <1>2, <1>3, <1>4, <1>5, Now DEF StepKeeps, Harmful, Storing, Unsynced
<1>7. left[t] # {} => s2.at # "writeHead" /\ s2.by # "write"
  <2>. HIDE DEF s2
  <2>. QED  BY <1>2, Now DEF LoopKeeps
<1>8. Goto(t, s2) /\ UNCHANGED <<todo, left, entries>>
  BY DEF TruncateData, same
<1>. QED
  <2>. HIDE DEF s2
  <2>. QED  BY <1>1, <1>3, <1>4, <1>6, <1>7, <1>8, Replaces

LEMMA FillDataKeeps ==
    ASSUME NeverLists, Inv, NEW t \in Task, FillData(t) PROVE NoLostWrite' /\ NothingAtRisk'
<1>. DEFINE s == step[t]  n == step[t].n  s2 == Onward(s, "put")
<1>1. s \in Step /\ s.at = "fill" /\ n \in Name /\ s.c \in Tag
  BY StepParts DEF FillData, At, Inv
<1>2. s2.at = "put" /\ s2.n = n /\ s2.e = s.e /\ s2.c = s.c /\ s2.by = s.by
  BY <1>1, OnwardParts
<1>3. data'[n] = Overlay(data[n], s.c) /\ \A m \in Name \ {n} : data'[m] = data[m]
  BY <1>1 DEF FillData, Fill, Inv, TypeOK, CacheTypeOK
<1>4. Overlay(Torn, s.c) = s.c
  <2>1. Torn # None /\ ~(Size[Torn] > Size[s.c])
    BY <1>1, SizeType, CacheAssumption DEF Content, Tag
  <2>. QED  BY <2>1 DEF Overlay
<1>5. ~Unsynced(n)
  BY <1>1, Now DEF StepKeeps, Storing
<1>6. step'[t] = s2
  BY GotoIs DEF FillData, Inv
<1>7. StepKeeps(step[t], buf[t])'
  <2>1. s.by = "write" => s.e.dirty /\ ~s.e.deleted /\ data'[n] = s.c
    BY <1>1, <1>3, <1>4, Now DEF StepKeeps, Storing
  <2>2. ~(pending'[n] \in Content)
    BY <1>5 DEF FillData, Unsynced
  <2>. HIDE DEF s2
  <2>. QED  BY <1>2, <1>6, <2>1, <2>2 DEF StepKeeps, Harmful, Storing, Unsynced
<1>8. left[t] # {} => s2.at # "writeHead" /\ s2.by # "write"
  <2>. HIDE DEF s2
  <2>. QED  BY <1>2, Now DEF LoopKeeps
<1>9. Goto(t, s2) /\ UNCHANGED <<todo, left, entries, pending>>
  BY DEF FillData, same
<1>. QED
  <2>. HIDE DEF s2
  <2>. QED  BY <1>1, <1>3, <1>5, <1>7, <1>8, <1>9, Replaces DEF Unsynced

LEMMA WriteHeadKeeps ==
    ASSUME NeverLists, Inv, NEW t \in Task, WriteHead(t) PROVE NoLostWrite' /\ NothingAtRisk'
<1>. DEFINE n == step[t].n  e == Written(store[n], buf[t])  s == Fetched(n, e, buf[t], "write")
<1>1. e.dirty /\ ~e.deleted
  BY DEF Written, FromPosix
<1>2. s.at = "trunc" /\ s.by = "write" /\ s.e = e
  BY DEF Fetched, Mk
<1>3. StepKeeps(s, buf'[t])
  <2>. HIDE DEF s, e
  <2>. QED  BY <1>1, <1>2 DEF StepKeeps, Harmful, Storing
<1>4. left[t] = {}
  BY Now DEF WriteHead, At, LoopKeeps
<1>. QED  BY <1>3, <1>4, Decides DEF WriteHead, cacheVars, same

LEMMA DeleteGetKeeps ==
    ASSUME NeverLists, Inv, NEW t \in Task, DeleteGet(t) PROVE NoLostWrite' /\ NothingAtRisk'
<1>. DEFINE n == step[t].n  s == Put(n, Tombstone(entries[n]), None, "delete")
<1>1. n \in Name
  BY StepParts DEF Inv
<1>2. ~(pending'[n] \in Content) /\ \A m \in Name \ {n} : pending'[m] = pending[m]
  BY <1>1, CacheAssumption DEF DeleteGet, Inv, TypeOK, EngineTypeOK
<1>3. step'[t] = s
  BY GotoIs DEF DeleteGet, Inv
<1>4. s.at = "put" /\ s.by = "delete" /\ s.n = n
  BY DEF Put, Mk
<1>5. StepKeeps(step[t], buf[t])'
  <2>. HIDE DEF s
  <2>. QED  BY <1>2, <1>3, <1>4 DEF StepKeeps, Harmful, Storing, Unsynced
<1>6. Goto(t, s) /\ UNCHANGED <<todo, left, entries, data>>
  BY DEF DeleteGet, cacheVars, same
<1>. QED
  <2>. HIDE DEF s
  <2>. QED  BY <1>1, <1>2, <1>4, <1>5, <1>6, Replaces

-----------------------------------------------------------------------------
(* flush_path, remove_entry and move_to_lost_found.                        *)

LEMMA FlushGetKeeps ==
    ASSUME NeverLists, Inv, NEW t \in Task, FlushGet(t) PROVE NoLostWrite' /\ NothingAtRisk'
<1>. DEFINE n == step[t].n  e == entries[n]
            s == Mk(IF e.deleted THEN "fpDelete" ELSE "fpHead", n, e, None, "cache")
<1>1. CASE Done(t)
  BY <1>1, Ends DEF FlushGet, cacheVars, same
<1>2. CASE n \in DirtyNames /\ Goto(t, s)
  <2>1. n \in Name
    BY StepParts DEF Inv
  <2>2. s.n = n /\ s.by = "cache" /\ s.at = IF e.deleted THEN "fpDelete" ELSE "fpHead"
    BY DEF Mk
  <2>3. s.at = "fpDelete" => ~Unsynced(n)
    BY <2>1, <2>2, Unlost DEF Known
  <2>4. StepKeeps(s, buf'[t])
    <3>. HIDE DEF s
    <3>. QED  BY <2>2, <2>3 DEF StepKeeps, Harmful, Storing
  <2>5. s.at # "writeHead" /\ s.by # "write"
    <3>. HIDE DEF s
    <3>. QED  BY <2>2
  <2>. QED  BY <1>2, <2>4, <2>5, Decides DEF FlushGet, cacheVars, same
<1>. QED  BY <1>1, <1>2 DEF FlushGet

LEMMA FlushDeleteKeeps ==
    ASSUME NeverLists, Inv, NEW t \in Task, FlushDelete(t) PROVE NoLostWrite' /\ NothingAtRisk'
<1>. DEFINE n == step[t].n  s == Do("drop", n)
<1>1. n \in Name /\ ~Unsynced(n)
  BY StepParts, Now DEF Inv, FlushDelete, At, StepKeeps, Harmful
<1>2. ~(pending'[n] \in Content) /\ \A m \in Name \ {n} : pending'[m] = pending[m]
  BY <1>1, CacheAssumption DEF FlushDelete, Unsynced, Inv, TypeOK, EngineTypeOK
<1>3. step'[t] = s
  BY GotoIs DEF FlushDelete, Inv
<1>4. s.at = "drop" /\ s.n = n /\ s.by = "cache"
  BY DEF Do, Mk
<1>5. StepKeeps(step[t], buf[t])'
  <2>. HIDE DEF s
  <2>. QED  BY <1>2, <1>3, <1>4 DEF StepKeeps, Harmful, Storing, Unsynced
<1>6. Goto(t, s) /\ UNCHANGED <<todo, left, entries, data>>
  BY DEF FlushDelete, cacheVars, same
<1>. QED
  <2>. HIDE DEF s
  <2>. QED  BY <1>1, <1>2, <1>4, <1>5, <1>6, Replaces

(* A removal goes on with the next file, or with the import of a conflict. *)
LEMMA RemovalParts ==
    ASSUME NEW s \in Step
    PROVE  /\ AfterRemove(s).n = s.n /\ AfterRemove(s).at \in {"put", "done"}
           /\ AfterRemove(s).by \in {"conflict", "cache"}
BY DEF AfterRemove, Put, Do, Mk

LEMMA DropsKeep ==
    ASSUME NeverLists, Inv, NEW t \in Task, DropEntry(t) \/ DropMeta(t) \/ DropData(t)
    PROVE  NoLostWrite' /\ NothingAtRisk'
<1>. DEFINE s == step[t]  n == step[t].n
<1>1. s \in Step /\ n \in Name /\ s.at \in {"drop", "rmMeta", "rmData"}
  BY StepParts DEF Inv, DropEntry, DropMeta, DropData, At
<1>2. ~Unsynced(n)
  BY <1>1, Now DEF StepKeeps, Harmful
<1>3. pending' = pending /\ UNCHANGED <<todo, left>>
  BY DEF DropEntry, DropMeta, DropData, same
<1>4. \A m \in Name \ {n} : entries'[m] = entries[m] /\ data'[m] = data[m]
  BY DEF DropEntry, DropMeta, DropData, Remove, UnlinkData, Inv, TypeOK, CacheTypeOK
<1>5. PICK s2 \in {AfterRemove(s), Onward(s, "rmMeta"), Onward(s, "rmData")} : Goto(t, s2)
  BY DEF DropEntry, DropMeta, DropData
<1>6. /\ s2.n = n /\ s2.at \in {"put", "done", "rmMeta", "rmData"}
      /\ s2.at = "put" => s2.by \in {"conflict", "cache"}
      /\ s2.by \in {"conflict", "cache", s.by}
  BY <1>1, RemovalParts, OnwardParts
<1>7. step'[t] = s2
  BY <1>5, GotoIs DEF Inv
<1>8. StepKeeps(step[t], buf[t])'
  BY <1>2, <1>3, <1>6, <1>7 DEF StepKeeps, Harmful, Storing, Unsynced
<1>9. left[t] # {} => s2.at # "writeHead" /\ s2.by # "write"
  BY <1>6, Now DEF LoopKeeps
<1>. QED  BY <1>1, <1>2, <1>3, <1>4, <1>5, <1>8, <1>9, Replaces DEF Unsynced

LEMMA FlushHeadKeeps ==
    ASSUME NeverLists, Inv, NEW t \in Task, FlushHead(t) PROVE NoLostWrite' /\ NothingAtRisk'
<1>. DEFINE s == step[t]
<1>1. s \in Step
  BY StepParts DEF Inv
<1>2. PICK s2 \in {Mk("lfRead", s.n, s.e, store[s.n], "conflict"), Onward(s, "fpRead")} : Goto(t, s2)
  BY DEF FlushHead
<1>3. s2.at \in {"lfRead", "fpRead"} /\ s2.by \in {"conflict", s.by}
  BY <1>1, <1>2, OnwardParts DEF Mk
<1>4. StepKeeps(s2, buf'[t])
  BY <1>3 DEF StepKeeps, Harmful, Storing
<1>5. left[t] # {} => s2.at # "writeHead" /\ s2.by # "write"
  BY <1>3, Now DEF LoopKeeps
<1>. QED  BY <1>2, <1>4, <1>5, Decides DEF FlushHead, cacheVars, same

(* The bytes read for an export or for lost+found are the pending ones.    *)
LEMMA FlushReadKeeps ==
    ASSUME NeverLists, Inv, NEW t \in Task, FlushRead(t) PROVE NoLostWrite' /\ NothingAtRisk'
<1>. DEFINE s == step[t]  c == data[s.n]
            s2 == Onward(s, IF s.at = "fpRead" THEN "fpWrite" ELSE "lfSave")
<1>1. s \in Step /\ s.n \in Name
  BY StepParts DEF Inv
<1>2. CASE Load(t, c) /\ Goto(t, s2) /\ UNCHANGED same
  <2>1. /\ s2.at = (IF s.at = "fpRead" THEN "fpWrite" ELSE "lfSave")
        /\ s2.n = s.n /\ s2.by = s.by
    BY <1>1, OnwardParts
  <2>2. buf'[t] = c
    BY <1>2 DEF Load, Inv, TypeOK, EngineTypeOK
  <2>3. StepKeeps(s2, buf'[t])
    <3>. HIDE DEF s2
    <3>. QED  BY <1>1, <2>1, <2>2, Unlost DEF StepKeeps, Harmful, Storing
  <2>4. left[t] # {} => s2.at # "writeHead" /\ s2.by # "write"
    <3>. HIDE DEF s2
    <3>. QED  BY <2>1, Now DEF LoopKeeps
  <2>. QED  BY <1>2, <2>3, <2>4, Decides DEF FlushRead, cacheVars, same
<1>3. CASE Abort(t)
  BY <1>3, Fails DEF FlushRead, cacheVars, Stays
<1>. QED  BY <1>2, <1>3 DEF FlushRead

LEMMA SaveLostKeeps ==
    ASSUME NeverLists, Inv, NEW t \in Task, SaveLost(t) PROVE NoLostWrite' /\ NothingAtRisk'
<1>. DEFINE s == step[t]  n == step[t].n  s2 == Onward(s, "drop")
<1>1. s \in Step /\ n \in Name /\ s.at = "lfSave"
  BY StepParts DEF Inv, SaveLost, At
<1>2. PICK l \in Lost : /\ entries[l] = None
                        /\ data' = [data EXCEPT ![l] = buf[t]]
                        /\ entries' = [entries EXCEPT ![l] = LostEntry(s.e)]
  BY DEF SaveLost, SaveBytes, Insert
<1>3. l \in Name /\ ~Unsynced(l)
  BY <1>2, Unlost DEF Name, Known
<1>4. Unsynced(n) => pending[n] = buf[t]
  BY <1>1, Now DEF StepKeeps
<1>5. ~(pending'[n] \in Content) /\ \A m \in Name \ {n} : pending'[m] = pending[m]
  BY <1>1, <1>4, CacheAssumption DEF SaveLost, Unsynced, Inv, TypeOK, EngineTypeOK
<1>6. \A m \in Name \ {l} : entries'[m] = entries[m] /\ data'[m] = data[m]
  BY <1>2 DEF Inv, TypeOK, CacheTypeOK
<1>7. ~(pending'[l] \in Content)
  BY <1>3, <1>5 DEF Unsynced
<1>8. NoLostWrite' /\ Stays
  BY <1>5, <1>6, <1>7 DEF NoLostWrite, Stays, Inv
<1>9. step'[t] = s2 /\ s2.at = "drop" /\ s2.n = n /\ s2.by = s.by
  BY <1>1, GotoIs, OnwardParts DEF SaveLost, Inv
<1>10. StepKeeps(step[t], buf[t])'
  <2>. HIDE DEF s2
  <2>. QED  BY <1>5, <1>9 DEF StepKeeps, Harmful, Storing, Unsynced
<1>11. left[t] # {} => step'[t].at # "writeHead" /\ step'[t].by # "write"
  <2>. HIDE DEF s2
  <2>. QED  BY <1>9, Now DEF LoopKeeps
<1>12. QueueKeeps(todo[t])' /\ LoopKeeps(left[t], step[t], todo[t])'
  BY <1>8, <1>11, RestKeeps DEF SaveLost, same
<1>. QED  BY <1>8, <1>10, <1>12, OnlyTask

(* The export of the bytes read settles what was pending.                  *)
LEMMA FlushWriteKeeps ==
    ASSUME NeverLists, Inv, NEW t \in Task, FlushWrite(t) PROVE NoLostWrite' /\ NothingAtRisk'
<1>. DEFINE s == step[t]  n == step[t].n
            s2 == Mk(IF Backend = "opendal" THEN "fpTag" ELSE "fpSide", n, s.e, buf[t], "cache")
<1>1. n \in Name /\ s.at = "fpWrite"
  BY StepParts DEF Inv, FlushWrite, At
<1>2. Unsynced(n) => pending[n] = buf[t]
  BY <1>1, Now DEF StepKeeps
<1>3. ~(pending'[n] \in Content) /\ \A m \in Name \ {n} : pending'[m] = pending[m]
  BY <1>1, <1>2, CacheAssumption DEF FlushWrite, Unsynced, Inv, TypeOK, EngineTypeOK
<1>4. step'[t] = s2
  BY GotoIs DEF FlushWrite, Inv
<1>5. s2.at \in {"fpTag", "fpSide"} /\ s2.n = n /\ s2.by = "cache"
  BY DEF Mk
<1>6. StepKeeps(step[t], buf[t])'
  <2>. HIDE DEF s2
  <2>. QED  BY <1>3, <1>4, <1>5 DEF StepKeeps, Harmful, Storing, Unsynced
<1>7. Goto(t, s2) /\ UNCHANGED <<todo, left, entries, data>>
  BY DEF FlushWrite, cacheVars, same
<1>. QED
  <2>. HIDE DEF s2
  <2>. QED  BY <1>1, <1>3, <1>5, <1>6, <1>7, Replaces

LEMMA FlushTagKeeps ==
    ASSUME NeverLists, Inv, NEW t \in Task, FlushTag(t) PROVE NoLostWrite' /\ NothingAtRisk'
<1>. DEFINE s == step[t]  s2 == Mk("fpSide", s.n, s.e, store[s.n], "cache")
<1>1. StepKeeps(s2, buf'[t])
  BY Now DEF FlushTag, At, StepKeeps, Mk, Harmful, Storing
<1>2. s2.at # "writeHead" /\ s2.by # "write"
  BY DEF Mk
<1>. QED  BY <1>1, <1>2, Decides DEF FlushTag, cacheVars, same

LEMMA FlushSidecarKeeps ==
    ASSUME NeverLists, Inv, NEW t \in Task, FlushSidecar(t) PROVE NoLostWrite' /\ NothingAtRisk'
<1>. DEFINE s == step[t]  s2 == Onward(s, "fpClean")
<1>1. s \in Step /\ s.at = "fpSide"
  BY StepParts DEF Inv, FlushSidecar, At
<1>2. s2.at = "fpClean" /\ s2.n = s.n /\ s2.by = s.by
  BY <1>1, OnwardParts
<1>3. StepKeeps(s2, buf'[t])
  <2>. HIDE DEF s2
  <2>. QED  BY <1>1, <1>2, Now DEF StepKeeps, Harmful, Storing
<1>4. left[t] # {} => s2.at # "writeHead" /\ s2.by # "write"
  <2>. HIDE DEF s2
  <2>. QED  BY <1>2, Now DEF LoopKeeps
<1>. QED  BY <1>3, <1>4, Decides DEF FlushSidecar, cacheVars, same

LEMMA FlushCleanKeeps ==
    ASSUME NeverLists, Inv, NEW t \in Task, FlushClean(t) PROVE NoLostWrite' /\ NothingAtRisk'
<1>. DEFINE s == step[t]  s2 == Put(s.n, Cleaned(entries[s.n], s.c), None, "cache")
<1>1. CASE Goto(t, s2) /\ UNCHANGED same
  <2>1. StepKeeps(s2, buf'[t])
    BY Now DEF FlushClean, At, StepKeeps, Put, Mk, Harmful, Storing
  <2>2. s2.at # "writeHead" /\ s2.by # "write"
    BY DEF Put, Mk
  <2>. QED  BY <1>1, <2>1, <2>2, Decides DEF FlushClean, cacheVars, same
<1>2. CASE Abort(t)
  BY <1>2, Fails DEF FlushClean, cacheVars, Stays
<1>. QED  BY <1>1, <1>2 DEF FlushClean

-----------------------------------------------------------------------------
(* Expiration, invalidation and the loops.                                 *)

LEMMA ExpireDataKeeps ==
    ASSUME NeverLists, Inv, NEW t \in Task, ExpireData(t) PROVE NoLostWrite' /\ NothingAtRisk'
<1>. DEFINE s == step[t]  n == step[t].n  s2 == Put(n, Emptied(s.e), None, "cache")
<1>1. n \in Name /\ ~Unsynced(n)
  BY StepParts, Now DEF Inv, ExpireData, At, StepKeeps, Harmful
<1>2. \A m \in Name \ {n} : entries'[m] = entries[m] /\ data'[m] = data[m]
  BY <1>1 DEF ExpireData, UnlinkData, Inv, TypeOK, CacheTypeOK
<1>3. step'[t] = s2
  BY GotoIs DEF ExpireData, Inv
<1>4. s2.at = "put" /\ s2.n = n /\ s2.by = "cache"
  BY DEF Put, Mk
<1>5. Goto(t, s2) /\ UNCHANGED <<todo, left, pending>>
  BY DEF ExpireData, same
<1>6. StepKeeps(step[t], buf[t])'
  <2>. HIDE DEF s2
  <2>. QED  BY <1>1, <1>3, <1>4, <1>5 DEF StepKeeps, Harmful, Storing, Unsynced
<1>. QED
  <2>. HIDE DEF s2
  <2>. QED  BY <1>1, <1>2, <1>4, <1>5, <1>6, Replaces DEF Unsynced

LEMMA InvalidateKeeps ==
    ASSUME NeverLists, Inv, NEW t \in Task, Invalidate(t) PROVE NoLostWrite' /\ NothingAtRisk'
<1>. DEFINE n == step[t].n
<1>1. CASE Done(t)
  BY <1>1, Ends DEF Invalidate, cacheVars, same
<1>2. CASE Droppable(entries[n]) /\ Goto(t, Do("drop", n))
  <2>1. ~Unsynced(n)
    BY <1>2, Unlost, StepParts DEF Droppable, Inv
  <2>2. StepKeeps(Do("drop", n), buf'[t])
    BY <2>1 DEF StepKeeps, Do, Mk, Harmful, Storing
  <2>. QED  BY <1>2, <2>2, Decides DEF Invalidate, cacheVars, same, Do, Mk
<1>. QED  BY <1>1, <1>2 DEF Invalidate

LEMMA TallyKeeps ==
    ASSUME NeverLists, Inv, NEW t \in Task, Tally(t) PROVE NoLostWrite' /\ NothingAtRisk'
BY Ends DEF Tally, cacheVars, same

LEMMA NextCallKeeps ==
    ASSUME NeverLists, Inv, NEW t \in Task, NextCall(t) PROVE NoLostWrite' /\ NothingAtRisk'
<1>. DEFINE q == todo[t]
<1>1. q \in Seq(Step) /\ q # <<>> /\ todo'[t] = Tail(q)
  BY DEF NextCall, Inv, TypeOK, EngineTypeOK
<1>2. /\ step'[t] = q[1] /\ 1 \in DOMAIN q
      /\ \A i \in DOMAIN Tail(q) : i + 1 \in DOMAIN q /\ Tail(q)[i] = q[i + 1]
  <2>1. step'[t] = Head(q)
    BY GotoIs DEF NextCall, Inv
  <2>. QED  BY <1>1, <2>1
<1>3. QueueKeeps(q) /\ LoopKeeps(left[t], step[t], q)
  BY Now
<1>4. step'[t].at \in Call /\ step'[t].by = "cache"
  BY <1>2, <1>3 DEF QueueKeeps
<1>5. StepKeeps(step[t], buf[t])'
  BY <1>4 DEF StepKeeps, Call, Harmful, Storing
<1>6. QueueKeeps(todo[t])'
  BY <1>1, <1>2, <1>3 DEF QueueKeeps
<1>7. pending' = pending /\ left' = left
  BY DEF NextCall
<1>8. \A i \in left[t] : /\ i.at \in {"fpGet", "drop", "expire"} /\ i.by = "cache"
                         /\ i.at # "fpGet" => ~Unsynced(i.n)
  BY <1>3 DEF LoopKeeps
<1>9. left[t] # {} => /\ step'[t].at # "writeHead" /\ step'[t].by # "write"
                      /\ \A i \in DOMAIN todo'[t] : todo'[t][i].at # "writeHead"
  BY <1>1, <1>2, <1>3, <1>4 DEF LoopKeeps
<1>10. LoopKeeps(left[t], step[t], todo[t])'
  BY <1>7, <1>8, <1>9 DEF LoopKeeps, Unsynced
<1>11. NoLostWrite'
  BY <1>7, WritesKept DEF NextCall, cacheVars, Stays
<1>. QED  BY <1>5, <1>6, <1>10, <1>11, OnlyTask

LEMMA NextIterationKeeps ==
    ASSUME NeverLists, Inv, NEW t \in Task, NextIteration(t) PROVE NoLostWrite' /\ NothingAtRisk'
<1>1. PICK s \in left[t] :
         /\ Goto(t, s)
         /\ left' = [left EXCEPT ![t] = Remaining(@, s)]
         /\ todo' = [todo EXCEPT ![t] = IF op[t] = "flush" THEN <<Do("tally", s.n)>> ELSE <<>>]
  BY DEF NextIteration
<1>2. step'[t] = s
  BY <1>1, GotoIs DEF Inv
<1>3. /\ \A i \in left[t] : /\ i.at \in {"fpGet", "drop", "expire"} /\ i.by = "cache"
                            /\ i.at # "fpGet" => ~Unsynced(i.n)
  BY Now DEF LoopKeeps
<1>4. pending' = pending /\ UNCHANGED <<entries, data>>
  BY DEF NextIteration, cacheVars
<1>5. left'[t] \subseteq left[t]
  BY <1>1 DEF Remaining, Inv, TypeOK, EngineTypeOK
<1>6. \A i \in DOMAIN todo'[t] : todo'[t][i].at = "tally" /\ todo'[t][i].by = "cache"
  <2>1. todo'[t] = IF op[t] = "flush" THEN <<Do("tally", s.n)>> ELSE <<>>
    BY <1>1 DEF Inv, TypeOK, EngineTypeOK
  <2>. QED  BY <2>1 DEF Do, Mk
<1>7. StepKeeps(step[t], buf[t])'
  BY <1>2, <1>3, <1>4 DEF StepKeeps, Harmful, Storing, Unsynced
<1>8. QueueKeeps(todo[t])'
  BY <1>6 DEF QueueKeeps, Call
<1>9. LoopKeeps(left[t], step[t], todo[t])'
  BY <1>2, <1>3, <1>4, <1>5, <1>6 DEF LoopKeeps, Unsynced
<1>10. NoLostWrite'
  BY <1>4, WritesKept DEF Stays
<1>. QED  BY <1>7, <1>8, <1>9, <1>10, OnlyTask

LEMMA ReturnKeeps ==
    ASSUME NeverLists, Inv, NEW t \in Task, Return(t) PROVE NoLostWrite' /\ NothingAtRisk'
<1>1. NoStep.at # "writeHead" /\ NoStep.by # "write" /\ \A b : StepKeeps(NoStep, b)
  BY DEF NoStep, StepKeeps, Do, Mk, Harmful, Storing
<1>. QED  BY <1>1, Decides DEF Return, cacheVars

LEMMA ProceedsKeeps ==
    ASSUME NeverLists, Inv, NEW t \in Task, Proceeds(t) PROVE NoLostWrite' /\ NothingAtRisk'
BY StatCacheKeeps, StatHeadKeeps, PutMetaKeeps, InsertEntryKeeps, ReadGetKeeps, ReadBytesKeeps,
   FetchKeeps, FetchLookupKeeps, ListReadKeeps, TruncateDataKeeps, FillDataKeeps, WriteHeadKeeps,
   DeleteGetKeeps, FlushGetKeeps, FlushDeleteKeeps, DropsKeep, FlushHeadKeeps, FlushReadKeeps,
   SaveLostKeeps, FlushWriteKeeps, FlushTagKeeps, FlushSidecarKeeps, FlushCleanKeeps,
   ExpireDataKeeps, InvalidateKeeps, TallyKeeps, NextCallKeeps, NextIterationKeeps, ReturnKeeps
   DEF Proceeds

-----------------------------------------------------------------------------
(* The calls, the rest of the world, and the theorem.                      *)

(* A call starts harmlessly: its loop, if it has one, is over copies of    *)
(* entries that are clean now.                                             *)
LEMMA BeginKeeps ==
    ASSUME NeverLists, Inv, NEW t \in Task, NEW name, NEW first, NEW rest, NEW loop,
           Begin(t, name, first, rest, loop),
           first.at \in Call \cup {"done", "invalidate"}, first.by = "cache",
           QueueKeeps(rest),
           \A i \in loop : /\ i.at \in {"fpGet", "drop", "expire"} /\ i.by = "cache"
                           /\ i.at # "fpGet" => ~Unsynced(i.n),
           loop # {} => first.at = "done" /\ rest = <<>>
    PROVE  NoLostWrite' /\ NothingAtRisk'
<1>1. step'[t] = first
  BY GotoIs DEF Begin, Inv
<1>2. todo'[t] = rest /\ left'[t] = loop
  BY DEF Begin, Inv, TypeOK, EngineTypeOK
<1>3. pending' = pending /\ UNCHANGED <<entries, data>>
  BY DEF Begin, cacheVars
<1>4. StepKeeps(step[t], buf[t])'
  BY <1>1 DEF StepKeeps, Call, Harmful, Storing
<1>5. QueueKeeps(todo[t])'
  BY <1>2 DEF QueueKeeps
<1>6. LoopKeeps(left[t], step[t], todo[t])'
  BY <1>1, <1>2, <1>3 DEF LoopKeeps, Unsynced
<1>. QED  BY <1>3, <1>4, <1>5, <1>6, OnlyTask, WritesKept DEF Stays

LEMMA ExportKeeps == ASSUME NEW n PROVE QueueKeeps(Export(n))
BY DEF QueueKeeps, Export, Do, Mk, Call

LEMMA ConcatKeeps ==
    ASSUME NEW q \in Seq(Step), NEW r \in Seq(Step), QueueKeeps(q), QueueKeeps(r)
    PROVE  QueueKeeps(q \o r) /\ q \o r \in Seq(Step)
<1>1. \A i \in DOMAIN (q \o r) :
         \/ i \in DOMAIN q /\ (q \o r)[i] = q[i]
         \/ i - Len(q) \in DOMAIN r /\ (q \o r)[i] = r[i - Len(q)]
  OBVIOUS
<1>. QED  BY <1>1 DEF QueueKeeps

LEMMA BeginsKeeps ==
    ASSUME NeverLists, Inv, NEW t \in Task, Begins(t) PROVE NoLostWrite' /\ NothingAtRisk'
<1>1. QueueKeeps(<<>>)
  BY DEF QueueKeeps
<1>2. /\ NoStep.at = "done" /\ NoStep.by = "cache"
  BY DoParts DEF NoStep
<1>3. ASSUME NEW n \in Path, Stat(t, n) PROVE NoLostWrite' /\ NothingAtRisk'
  BY <1>1, <1>3, DoParts, BeginKeeps DEF Stat, Call
<1>4. ASSUME NEW n \in Path, Read(t, n) PROVE NoLostWrite' /\ NothingAtRisk'
  <2>1. QueueKeeps(<<Do("stat", n), Do("readGet", n)>>)
    BY DEF QueueKeeps, Do, Mk, Call
  <2>. QED  BY <1>4, <2>1, DoParts, BeginKeeps DEF Read, Call
<1>5. ASSUME NEW n \in Path, DeletePath(t, n) PROVE NoLostWrite' /\ NothingAtRisk'
  BY <1>5, DoParts, ExportKeeps, BeginKeeps DEF DeletePath, Call
<1>6. ASSUME NEW n \in Path, InvalidatePath(t, n) PROVE NoLostWrite' /\ NothingAtRisk'
  BY <1>1, <1>6, DoParts, BeginKeeps DEF InvalidatePath, Call
<1>7. ASSUME NEW n \in Path, NEW d \in Data, WriteFile(t, n, d) PROVE NoLostWrite' /\ NothingAtRisk'
  BY <1>7, DoParts, ExportKeeps, BeginKeeps DEF WriteFile, Call
<1>8. ASSUME NEW from \in Path, NEW to \in Path, RenamePath(t, from, to)
      PROVE  NoLostWrite' /\ NothingAtRisk'
  <2>. DEFINE reading == <<Do("stat", from), Do("stat", from), Do("readGet", from)>>
              rest == reading \o <<Do("writeHead", to)>> \o Export(to)
                      \o <<Do("delGet", from)>> \o Export(from)
  <2>1. \A n \in Path : \A l \in Call : Do(l, n) \in Step
    BY DoType DEF Name, Call, Label, Carrier
  <2>2. reading \in Seq(Step) /\ <<Do("writeHead", to)>> \in Seq(Step)
        /\ <<Do("delGet", from)>> \in Seq(Step)
    BY <2>1 DEF Call
  <2>3. QueueKeeps(reading)
    BY DEF QueueKeeps, Do, Mk, Call
  <2>4. QueueKeeps(<<Do("writeHead", to)>>) /\ QueueKeeps(<<Do("delGet", from)>>)
    BY DEF QueueKeeps, Do, Mk, Call
  <2>5. Export(to) \in Seq(Step) /\ Export(from) \in Seq(Step)
        /\ QueueKeeps(Export(to)) /\ QueueKeeps(Export(from))
    BY ExportType, ExportKeeps DEF Name
  <2>6. QueueKeeps(rest)
    <3>. HIDE DEF reading
    <3>1. reading \o <<Do("writeHead", to)>> \in Seq(Step)
          /\ QueueKeeps(reading \o <<Do("writeHead", to)>>)
      BY <2>2, <2>3, <2>4, ConcatKeeps
    <3>2. reading \o <<Do("writeHead", to)>> \o Export(to) \in Seq(Step)
          /\ QueueKeeps(reading \o <<Do("writeHead", to)>> \o Export(to))
      BY <2>5, <3>1, ConcatKeeps
    <3>3. reading \o <<Do("writeHead", to)>> \o Export(to) \o <<Do("delGet", from)>> \in Seq(Step)
          /\ QueueKeeps(reading \o <<Do("writeHead", to)>> \o Export(to) \o <<Do("delGet", from)>>)
      BY <2>2, <2>4, <3>2, ConcatKeeps
    <3>. QED  BY <2>5, <3>3, ConcatKeeps
  <2>7. Begin(t, "rename", Do("stat", from), rest, {})
    BY <1>8 DEF RenamePath
  <2>. HIDE DEF rest
  <2>. QED  BY <2>6, <2>7, DoParts, BeginKeeps DEF Call
<1>9. CASE ListDir(t)
  BY <1>9 DEF ListDir, Begin, NeverLists
<1>10. CASE Flush(t)
  <2>1. \A i \in {Do("fpGet", m) : m \in DirtyNames} : i.at = "fpGet" /\ i.by = "cache"
    BY DoParts
  <2>. QED  BY <1>1, <1>2, <1>10, <2>1, BeginKeeps DEF Flush
<1>11. CASE ExpireCache(t)
  <2>. DEFINE loop == {Mk("expire", m, entries[m], None, "cache") :
                          m \in {m \in Name : Expirable(entries[m])}}
  <2>1. \A i \in loop : i.at = "expire" /\ i.by = "cache" /\ ~Unsynced(i.n)
    BY Unlost DEF Expirable, Mk
  <2>. HIDE DEF loop
  <2>2. Begin(t, "expire", NoStep, <<>>, loop)
    BY <1>11 DEF ExpireCache, loop
  <2>. QED  BY <1>1, <1>2, <2>1, <2>2, BeginKeeps
<1>12. ASSUME NEW prefix \in Prefix, InvalidatePrefix(t, prefix)
       PROVE  NoLostWrite' /\ NothingAtRisk'
  <2>. DEFINE loop == {Do("drop", m) : m \in {m \in prefix : Droppable(entries[m])}}
  <2>1. \A i \in loop : i.at = "drop" /\ i.by = "cache" /\ ~Unsynced(i.n)
    BY Unlost, DoParts DEF Droppable, Prefix, Name
  <2>. HIDE DEF loop
  <2>2. Begin(t, "invalidatePrefix", NoStep, <<>>, loop)
    BY <1>12 DEF InvalidatePrefix, loop
  <2>. QED  BY <1>1, <1>2, <2>1, <2>2, BeginKeeps
<1>. QED  BY <1>3, <1>4, <1>5, <1>6, <1>7, <1>8, <1>9, <1>10, <1>11, <1>12 DEF Begins

LEMMA BackendFailsKeeps ==
    ASSUME NeverLists, Inv, NEW t \in Task, BackendFails(t) PROVE NoLostWrite' /\ NothingAtRisk'
<1>1. Stays
  BY CacheAssumption DEF BackendFails, Stays, Inv, TypeOK, EngineTypeOK
<1>. QED  BY <1>1, Fails DEF BackendFails, cacheVars

LEMMA RemoteKeeps ==
    ASSUME NeverLists, Inv, NEW n \in Path, NEW c, Remote(n, c) PROVE NoLostWrite' /\ NothingAtRisk'
BY DEF Remote, cacheVars, taskVars, Inv, NoLostWrite, NothingAtRisk, StepKeeps, QueueKeeps,
       LoopKeeps, Unsynced

LEMMA AgeKeeps == ASSUME NeverLists, Inv, Age PROVE NoLostWrite' /\ NothingAtRisk'
<1>1. NothingAtRisk'
  BY DEF Age, taskVars, Inv, NothingAtRisk, StepKeeps, QueueKeeps, LoopKeeps, Unsynced
<1>2. ASSUME NEW n \in Name, Known(entries[n]), entries[n].dirty
      PROVE  Known(entries'[n]) /\ entries'[n].dirty
  <2>1. entries[n] \in Entry
    BY <1>2, Held DEF Inv, Known
  <2>2. entries'[n] = [entries[n] EXCEPT !.old = TRUE]
    BY <1>2 DEF Age, Aged, Known
  <2>3. entries'[n] \in Entry
    BY <2>1, <2>2 DEF Entry
  <2>4. entries'[n] # None
    BY <2>3, CacheAssumption
  <2>. QED  BY <1>2, <2>1, <2>2, <2>4 DEF Known, Entry
<1>3. NoLostWrite'
  BY <1>2 DEF Age, Inv, NoLostWrite
<1>. QED  BY <1>1, <1>3

LEMMA InvInit == Init => Inv
<1>. SUFFICES ASSUME Init PROVE Inv
  OBVIOUS
<1>1. TypeOK
  BY InitType
<1>2. NoLostWrite
  BY CacheAssumption DEF Init, NoLostWrite
<1>3. NoStep.at = "done" /\ NoStep.by = "cache"
  BY DoParts DEF NoStep
<1>4. NothingAtRisk
  BY <1>3 DEF Init, NothingAtRisk, StepKeeps, QueueKeeps, LoopKeeps, Harmful, Storing
<1>. QED  BY <1>1, <1>2, <1>4 DEF Inv

(* All but what a crash does to the index.                                 *)
LEMMA InvNext ==
    ASSUME NeverLists, Inv, [Next]_vars, Crash => NoLostWrite'
    PROVE  NoLostWrite' /\ NothingAtRisk'
<1>1. ASSUME NEW t \in Task, Begins(t) PROVE NoLostWrite' /\ NothingAtRisk'
  BY <1>1, BeginsKeeps
<1>2. ASSUME NEW t \in Task, Proceeds(t) PROVE NoLostWrite' /\ NothingAtRisk'
  BY <1>2, ProceedsKeeps
<1>3. ASSUME NEW t \in Task, BackendFails(t) PROVE NoLostWrite' /\ NothingAtRisk'
  BY <1>3, BackendFailsKeeps
<1>4. ASSUME NEW n \in Path, NEW c \in Data \cup {None}, Remote(n, c)
      PROVE  NoLostWrite' /\ NothingAtRisk'
  BY <1>4, RemoteKeeps
<1>5. CASE Age
  BY <1>5, AgeKeeps
<1>6. CASE Crash
  <2>1. \A t \in Task : step'[t] = NoStep /\ todo'[t] = <<>> /\ left'[t] = {}
    BY <1>6 DEF Crash
  <2>2. NothingAtRisk'
    BY <2>1, NoStepParts DEF NothingAtRisk, StepKeeps, QueueKeeps, LoopKeeps, Harmful, Storing
  <2>. QED  BY <1>6, <2>2
<1>7. CASE UNCHANGED vars
  BY <1>7 DEF vars, cacheVars, taskVars, Inv, NoLostWrite, NothingAtRisk, StepKeeps, QueueKeeps,
              LoopKeeps, Unsynced
<1>. QED  BY <1>1, <1>2, <1>3, <1>4, <1>5, <1>6, <1>7 DEF Next

(* With one caller the strengthened invariant holds in every state. *)
THEOREM OneCallerInvariant == OneCaller => (Spec => []Inv)
<1>. SUFFICES ASSUME OneCaller PROVE Spec => []Inv
  OBVIOUS
<1>1. Init => Inv
  BY InvInit
<1>2. Inv /\ [Next]_vars /\ TypeOK' => Inv'
  <2>. SUFFICES ASSUME Inv, [Next]_vars, TypeOK' PROVE Inv'
    OBVIOUS
  <2>1. NeverLists
    BY DEF OneCaller, NeverLists, OneTask
  <2>2. used["crash"] \in Nat
    BY DEF Inv, TypeOK, EngineTypeOK, Hazard
  <2>3. ~Crash
    BY <2>2 DEF Crash, Spend, OneCaller
  <2>. QED  BY <2>1, <2>3, InvNext DEF Inv
<1>3. Spec => []TypeOK
  BY TypeCorrect
<1>. QED  BY <1>1, <1>2, <1>3, PTL DEF Spec

(* With one caller, no listing and no crash, no acknowledged write is lost *)
(* before it is exported, set aside or replaced: for any names, contents,  *)
(* remote mutations and backend errors, batched exports or not.            *)
THEOREM OneCallerLosesNoWrite == OneCaller => (Spec => []NoLostWrite)
<1>1. Inv => NoLostWrite
  BY DEF Inv
<1>. QED  BY <1>1, OneCallerInvariant, PTL

(* With one caller no step in progress ever carries an entry it is about  *)
(* to store over a write that is in no other place: the stale copies that  *)
(* flush, hydration and rename hold across an await harm nothing.          *)
THEOREM OneCallerRisksNothing == OneCaller => (Spec => []NothingAtRisk)
<1>1. Inv => NothingAtRisk
  BY DEF Inv
<1>. QED  BY <1>1, OneCallerInvariant, PTL

-----------------------------------------------------------------------------
(* Crashes.                                                                *)

(* One task that makes the given calls.                                    *)
Asks(calls) == OneTask /\ \A t \in Task : Ops[t] \subseteq calls
Mutations == {"write", "delete", "flush", "expire", "invalidate", "invalidatePrefix"}

(* A task is in a call it makes.                                           *)
Asked == \A t \in Task : op[t] \in Ops[t] \cup {"none", "dead"}

LEMMA AskedNext == ASSUME TypeOK, Asked, [Next]_vars PROVE Asked'
<1>1. ASSUME NEW t \in Task, Begins(t) PROVE Asked'
  <2>1. \A name, first, rest, loop : Begin(t, name, first, rest, loop) => Asked'
    BY DEF Begin, Asked, TypeOK, EngineTypeOK
  <2>2. \E name, first, rest, loop : Begin(t, name, first, rest, loop)
    BY <1>1 DEF Begins, Stat, Read, DeletePath, InvalidatePath, WriteFile, RenamePath,
                InvalidatePrefix, ListDir, Flush, ExpireCache
  <2>. QED  BY <2>1, <2>2
<1>2. ASSUME NEW t \in Task, Proceeds(t) \/ BackendFails(t) PROVE Asked'
  <2>1. CASE Return(t)
    BY <2>1 DEF Return, Asked, TypeOK, EngineTypeOK
  <2>2. CASE ~Return(t)
    <3>1. UNCHANGED op
      BY <1>2, <2>2 DEF Proceeds, BackendFails, outer, StatCache, StatHead, PutMeta, InsertEntry,
           ReadGet, ReadBytes, Fetch, FetchLookup, ListRead, TruncateData, FillData, WriteHead,
           DeleteGet, FlushGet, FlushDelete, DropEntry, DropMeta, DropData, FlushHead, FlushRead,
           SaveLost, FlushWrite, FlushTag, FlushSidecar, FlushClean, ExpireData, Invalidate,
           Tally, NextCall, NextIteration
    <3>. QED  BY <3>1 DEF Asked
  <2>. QED  BY <2>1, <2>2
<1>3. CASE \/ \E n \in Path, c \in Data \cup {None} : Remote(n, c)
           \/ Age \/ UNCHANGED vars
  BY <1>3 DEF Remote, Age, vars, taskVars, Asked
<1>4. CASE Crash
  BY <1>4 DEF Crash, Asked
<1>. QED  BY <1>1, <1>2, <1>3, <1>4 DEF Next

LEMMA AlwaysAsked == Spec => []Asked
<1>1. Init => Asked
  BY DEF Init, Asked
<1>2. TypeOK /\ Asked /\ [Next]_vars => Asked'
  BY AskedNext
<1>. QED  BY <1>1, <1>2, TypeCorrect, PTL DEF Spec

(* An entry that no step is putting or removing comes back as it was.      *)
LEMMA Survives ==
    ASSUME TypeOK, IndexInv, Crash, NEW n \in Name,
           \A t \in Task : step[t].n = n => step[t].at \notin Putting \cup {"rmMeta", "rmData"}
    PROVE  entries'[n] = entries[n]
<1>1. meta[n] = entries[n]
  BY DEF IndexInv, IndexOf, Putting
<1>2. PICK torn \in SUBSET {step[t].n : t \in {t \in Task : At(t, "put")}} : LoadIndex(torn)
  BY DEF Crash
<1>3. n \notin torn
  BY <1>2 DEF At, Putting
<1>. QED  BY <1>1, <1>2, <1>3 DEF LoadIndex

(* A write whose call has returned is not torn by a crash, for nothing     *)
(* puts its entry again before it is exported, but for a read.             *)
LEMMA CrashKeepsWrites ==
    ASSUME Asks(Mutations \cup {"stat"}), Asked, Controlled, Inv, IndexInv, Crash
    PROVE  NoLostWrite'
<1>1. ASSUME NEW n \in Name, Unsynced(n), NEW t \in Task, step[t].n = n
      PROVE  step[t].at \notin Putting \cup {"rmMeta", "rmData"}
  <2>1. StepKeeps(step[t], buf[t])
    BY Now
  <2>2. op[t] \notin {"read", "rename", "list"}
    BY DEF Asks, Mutations, Asked
  <2>3. Fits(op[t], step[t])
    BY DEF Controlled, Control
  <2>4. step[t].at \in Putting => step[t].by # "touch"
    BY <2>2, <2>3 DEF Fits, StatPhase, ReadPhase, WritePhase, DeletePhase, ExportPhase, ListPhase,
                      ExpirePhase, DropPhase, Storing, Putting, Removing
  <2>. QED  BY <1>1, <2>1, <2>4 DEF StepKeeps, Harmful, Storing, Putting
<1>2. \A n \in Name : Unsynced(n) => entries'[n] = entries[n]
  BY <1>1, Survives DEF Inv
<1>. QED  BY <1>2 DEF Inv, NoLostWrite, Unsynced, Crash

(* One caller that writes, deletes, flushes, invalidates, expires and asks *)
(* for the stat of paths loses no acknowledged write, whatever other       *)
(* writers do, whichever backend calls fail, and wherever it crashes: the  *)
(* metadata file of an entry with bytes to export is never half-written    *)
(* and the index that load_index builds has that entry.                    *)
THEOREM CrashesLoseNoWrite == Asks(Mutations \cup {"stat"}) => (Spec => []NoLostWrite)
<1>. SUFFICES ASSUME Asks(Mutations \cup {"stat"}) PROVE Spec => []NoLostWrite
  OBVIOUS
<1>1. OneTask /\ NeverLists
  BY DEF Asks, Mutations, NeverLists
<1>2. Init => Inv
  BY InvInit
<1>3. Asked /\ Controlled /\ IndexInv /\ Inv /\ [Next]_vars /\ TypeOK' => Inv'
  BY <1>1, InvNext, CrashKeepsWrites DEF Inv
<1>4. Spec => []IndexInv
  BY <1>1, IndexOnDisk
<1>5. Inv => NoLostWrite
  BY DEF Inv
<1>. QED  BY <1>2, <1>3, <1>4, <1>5, TypeCorrect, CallsInOrder, AlwaysAsked, PTL DEF Spec

-----------------------------------------------------------------------------
(* The deletes.                                                            *)

(* What the steps that store or remove an entry may assume of a tombstone. *)
TombStep(s) ==
    /\ s.at \in {"fpHead", "fpRead", "fpWrite", "lfRead", "lfSave", "fpTag", "fpSide", "fpClean",
                 "expire", "fill"} \cup Putting \cup Removing => pending[s.n] # Gone
    /\ s.at \in {"trunc", "fill"} => s.by = "write"
    /\ s.at \in Putting /\ s.by = "delete" => s.e.dirty /\ s.e.deleted

(* A loop drops and expires only what no delete waits for.                 *)
TombLoop(loop) == \A i \in loop : i.at # "fpGet" => pending[i.n] # Gone

DeletesKept == NoLostDelete /\ \A t \in Task : TombStep(step[t]) /\ TombLoop(left[t])

Mutates == Asks(Mutations) /\ TypeOK /\ Asked /\ Controlled /\ DeletesKept

LEMMA MutatesNow ==
    ASSUME Mutates, NEW t \in Task
    PROVE  /\ TombStep(step[t]) /\ TombLoop(left[t]) /\ OneTask /\ TypeOK
           /\ step[t] \in Step /\ step[t].n \in Name
           /\ step[t].at \in Carrier => step[t].e \in Entry
           /\ step[t].at \notin {"stat", "statHead", "readGet", "cacheRead", "direct", "fetch",
                                 "lookup", "listRead"}
           /\ DeletePhase(step[t]) => left[t] = {}
           /\ \A i \in left[t] : i.at \in {"fpGet", "expire", "drop"} /\ i.n \in Name
<1>1. Control(op[t], step[t], todo[t], left[t])
  BY DEF Mutates, Controlled
<1>2. op[t] \in Mutations \cup {"none", "dead"}
  BY DEF Mutates, Asks, Asked
<1>3. step[t].at \notin {"stat", "statHead", "readGet", "cacheRead", "direct", "fetch",
                         "lookup", "listRead"}
  BY <1>1, <1>2 DEF Control, Fits, Mutations, StatPhase, ReadPhase, WritePhase, DeletePhase,
       ExportPhase, ListPhase, ExpirePhase, DropPhase, Storing, Putting, Removing
<1>4. \A i \in left[t] : Iterates(op[t], i) /\ i \in Step
  BY <1>1 DEF Control, Mutates, TypeOK, EngineTypeOK
<1>5. DeletePhase(step[t]) => op[t] = "delete"
  BY <1>1, <1>2 DEF Control, Fits, Mutations, StatPhase, ReadPhase, WritePhase, DeletePhase,
       ExportPhase, ListPhase, ExpirePhase, DropPhase, Storing, Putting, Removing
<1>6. DeletePhase(step[t]) => left[t] = {}
  BY <1>4, <1>5 DEF Iterates
<1>7. \A i \in left[t] : i.at \in {"fpGet", "expire", "drop"} /\ i.n \in Name
  BY <1>2, <1>4 DEF Iterates, Mutations, Step
<1>. QED  BY <1>3, <1>6, <1>7, StepParts DEF Mutates, DeletesKept, Asks

(* With one task, what holds of it after a step holds of all.              *)
LEMMA DeletesFrom ==
    ASSUME Mutates, NEW t \in Task, NoLostDelete', TombStep(step[t])',
           left'[t] \subseteq left[t],
           \A n \in Name : pending'[n] = Gone => pending[n] = Gone \/ left[t] = {}
    PROVE  DeletesKept'
<1>1. TombLoop(left[t])'
  BY MutatesNow DEF TombLoop
<1>. QED  BY <1>1, MutatesNow DEF DeletesKept, OneTask

(* A step that leaves the index alone, and makes nothing pending.          *)
LEMMA DeletesStay ==
    ASSUME Mutates, NEW t \in Task, UNCHANGED entries, left'[t] \subseteq left[t],
           \A n \in Name : pending'[n] = Gone => pending[n] = Gone, TombStep(step[t])'
    PROVE  DeletesKept'
<1>1. NoLostDelete'
  BY DEF Mutates, DeletesKept, NoLostDelete
<1>. QED  BY <1>1, DeletesFrom

LEMMA Calls ==
    ASSUME NEW t \in Task, step'[t].at \in Call \cup {"done", "fpDelete", "invalidate"}
    PROVE  TombStep(step[t])'
BY DEF TombStep, Call, Putting, Removing

LEMMA AbortDeletes ==
    ASSUME Mutates, NEW t \in Task, (Done(t) /\ UNCHANGED same) \/ Abort(t)
    PROVE  TombStep(step[t])' /\ left'[t] \subseteq left[t]
<1>1. step'[t].at = "done"
  BY EndsDone DEF Mutates
<1>2. left'[t] \subseteq left[t]
  BY DEF Abort, same, Mutates, TypeOK, EngineTypeOK
<1>. QED  BY <1>1, <1>2, Calls

LEMMA StoringDeletes ==
    ASSUME Mutates, NEW t \in Task,
           PutMeta(t) \/ TruncateData(t) \/ FillData(t) \/ ExpireData(t)
    PROVE  DeletesKept'
<1>. DEFINE s == step[t]  n == step[t].n  s2 == step'[t]
<1>0. TombStep(s) /\ TypeOK /\ s \in Step /\ n \in Name
  BY MutatesNow
<1>1. UNCHANGED <<entries, left>>
  BY DEF PutMeta, TruncateData, FillData, ExpireData, same
<1>2. CASE PutMeta(t)
  <2>1. s.at = "put" /\ s2 = Onward(s, "insert") /\ UNCHANGED pending
    BY <1>0, <1>2, Goes DEF PutMeta, At
  <2>2. s2.at = "insert" /\ s2.n = n /\ s2.by = s.by /\ s2.e = s.e
    BY <1>0, <2>1, OnwardParts
  <2>3. TombStep(step[t])'
    BY <1>0, <2>1, <2>2 DEF TombStep, Putting
  <2>. QED  BY <1>1, <2>1, <2>3, DeletesStay
<1>3. CASE TruncateData(t)
  <2>1. s.at = "trunc" /\ s2 = Onward(s, "fill")
    BY <1>0, <1>3, Goes DEF TruncateData, At
  <2>2. s2.at = "fill" /\ s2.n = n /\ s2.by = s.by /\ s.by = "write"
    BY <1>0, <2>1, OnwardParts DEF TombStep
  <2>3. pending' = [pending EXCEPT ![n] = None]
    BY <1>3, <2>2 DEF TruncateData
  <2>4. pending'[n] = None /\ \A m \in Name : m # n => pending'[m] = pending[m]
    BY <1>0, <2>3 DEF TypeOK, EngineTypeOK
  <2>5. None # Gone
    BY EngineAssumption DEF Tag
  <2>6. TombStep(step[t])'
    BY <2>2, <2>4, <2>5 DEF TombStep, Putting
  <2>. QED  BY <1>1, <2>4, <2>5, <2>6, DeletesStay
<1>4. CASE FillData(t)
  <2>1. s.at = "fill" /\ s2 = Onward(s, "put") /\ UNCHANGED pending
    BY <1>0, <1>4, Goes DEF FillData, At
  <2>2. s2.at = "put" /\ s2.n = n /\ s2.by = s.by /\ s.by = "write"
    BY <1>0, <2>1, OnwardParts DEF TombStep
  <2>3. TombStep(step[t])'
    BY <1>0, <2>1, <2>2 DEF TombStep
  <2>. QED  BY <1>1, <2>1, <2>3, DeletesStay
<1>5. CASE ExpireData(t)
  <2>1. s.at = "expire" /\ s2 = Put(n, Emptied(s.e), None, "cache") /\ UNCHANGED pending
    BY <1>0, <1>5, Goes DEF ExpireData, At
  <2>2. s2.at = "put" /\ s2.n = n /\ s2.by = "cache"
    BY <2>1, MkParts DEF Put
  <2>3. TombStep(step[t])'
    BY <1>0, <2>1, <2>2 DEF TombStep
  <2>. QED  BY <1>1, <2>1, <2>3, DeletesStay
<1>. QED  BY <1>2, <1>3, <1>4, <1>5

LEMMA InsertDeletes ==
    ASSUME Mutates, NEW t \in Task, InsertEntry(t) PROVE DeletesKept'
<1>. DEFINE s == step[t]  n == step[t].n
<1>1. TombStep(s) /\ TypeOK /\ s \in Step /\ n \in Name
  BY MutatesNow
<1>2. s.at = "insert" /\ entries' = [entries EXCEPT ![n] = s.e]
  BY DEF InsertEntry, At, Insert
<1>3. entries'[n] = s.e /\ \A m \in Name : m # n => entries'[m] = entries[m]
  BY <1>1, <1>2 DEF TypeOK, CacheTypeOK
<1>4. s.e \in Entry /\ s.c \in Tag
  BY <1>2, MutatesNow, StepParts DEF Carrier
<1>5. step'[t].at \in {"done", "cacheRead", "listRead"}
  BY <1>1, EndsDone, Goes, DoParts, OnwardParts DEF InsertEntry, AfterInsert
<1>6. TombStep(step[t])'
  BY <1>5 DEF TombStep, Putting, Removing
<1>7. left'[t] \subseteq left[t]
  BY <1>1 DEF InsertEntry, AfterInsert, same, Abort, TypeOK, EngineTypeOK
<1>8. \A m \in Name : m # n => pending'[m] = pending[m]
  BY <1>1 DEF InsertEntry, TypeOK, EngineTypeOK
<1>9. CASE s.by = "delete"
  <2>1. s.e.dirty /\ s.e.deleted /\ s.e # None
    BY <1>1, <1>2, <1>4, <1>9, CacheAssumption DEF TombStep, Putting
  <2>2. NoLostDelete'
    BY <1>3, <1>8, <2>1 DEF NoLostDelete, Mutates, DeletesKept
  <2>3. left[t] = {}
    BY <1>2, <1>9, MutatesNow DEF DeletePhase, Storing
  <2>. QED  BY <1>6, <1>7, <2>2, <2>3, DeletesFrom
<1>10. CASE s.by # "delete"
  <2>1. pending'[n] \in {s.c, pending[n]}
    BY <1>1, <1>10 DEF InsertEntry, TypeOK, EngineTypeOK
  <2>2. pending'[n] # Gone
    BY <1>1, <1>2, <1>4, <2>1, EngineAssumption DEF TombStep, Putting
  <2>3. NoLostDelete'
    BY <1>3, <1>8, <2>2 DEF NoLostDelete, Mutates, DeletesKept
  <2>. QED  BY <1>6, <1>7, <1>8, <2>2, <2>3, DeletesFrom
<1>. QED  BY <1>9, <1>10

LEMMA RemovingDeletes ==
    ASSUME Mutates, NEW t \in Task, DropEntry(t) \/ DropMeta(t) \/ DropData(t)
    PROVE  DeletesKept'
<1>. DEFINE s == step[t]  n == step[t].n  s2 == step'[t]
<1>1. TombStep(s) /\ TypeOK /\ s \in Step /\ n \in Name
  BY MutatesNow
<1>2. s.at \in Removing /\ UNCHANGED <<pending, left>>
  BY DEF DropEntry, DropMeta, DropData, At, Removing, same
<1>3. pending[n] # Gone
  BY <1>1, <1>2 DEF TombStep
<1>4. \A m \in Name : m # n => entries'[m] = entries[m]
  BY <1>1 DEF DropEntry, DropMeta, DropData, Remove, TypeOK, CacheTypeOK
<1>5. NoLostDelete'
  BY <1>2, <1>3, <1>4 DEF NoLostDelete, Mutates, DeletesKept
<1>6. s2 \in {AfterRemove(s), Onward(s, "rmMeta"), Onward(s, "rmData")}
  BY <1>1, Goes DEF DropEntry, DropMeta, DropData
<1>7. s2.n = n /\ (s2.at \in {"done", "rmMeta", "rmData"} \/ (s2.at = "put" /\ s2.by = "conflict"))
  <2>1. /\ AfterRemove(s).n = n
        /\ \/ AfterRemove(s).at = "done"
           \/ AfterRemove(s).at = "put" /\ AfterRemove(s).by = "conflict"
    BY <1>1, AfterRemoveParts
  <2>2. \A l : Onward(s, l).at = l /\ Onward(s, l).n = n
    BY <1>1, OnwardParts
  <2>. QED  BY <1>6, <2>1, <2>2
<1>8. TombStep(step[t])'
  BY <1>2, <1>3, <1>7 DEF TombStep, Putting, Removing
<1>. QED  BY <1>2, <1>5, <1>8, DeletesFrom

LEMMA SaveDeletes ==
    ASSUME Mutates, NEW t \in Task, SaveLost(t) PROVE DeletesKept'
<1>. DEFINE s == step[t]  n == step[t].n  s2 == step'[t]
<1>1. TombStep(s) /\ TypeOK /\ s \in Step /\ n \in Name
  BY MutatesNow
<1>2. PICK l \in Lost : /\ entries[l] = None
                        /\ entries' = [entries EXCEPT ![l] = LostEntry(s.e)]
  BY DEF SaveLost, Insert
<1>3. l \in Name /\ pending[l] # Gone
  BY <1>2 DEF Name, Mutates, DeletesKept, NoLostDelete
<1>4. \A m \in Name : m # l => entries'[m] = entries[m]
  BY <1>1, <1>2, <1>3 DEF TypeOK, CacheTypeOK
<1>5. UNCHANGED left /\ s.at = "lfSave" /\ s2 = Onward(s, "drop")
  BY <1>1, Goes DEF SaveLost, At, same
<1>6. None # Gone
  BY EngineAssumption DEF Tag
<1>7. \A m \in Name : pending'[m] = Gone => pending[m] = Gone
  BY <1>1, <1>6 DEF SaveLost, TypeOK, EngineTypeOK
<1>8. NoLostDelete'
  BY <1>3, <1>4, <1>7 DEF NoLostDelete, Mutates, DeletesKept
<1>9. s2.n = n /\ s2.at = "drop"
  BY <1>1, <1>5, OnwardParts
<1>10. TombStep(step[t])'
  BY <1>1, <1>5, <1>7, <1>9 DEF TombStep, Putting
<1>. QED  BY <1>5, <1>7, <1>8, <1>10, DeletesFrom

LEMMA MutationDeletes ==
    ASSUME Mutates, NEW t \in Task, WriteHead(t) \/ DeleteGet(t) PROVE DeletesKept'
<1>. DEFINE s == step[t]  n == step[t].n  s2 == step'[t]
<1>1. TypeOK /\ s \in Step /\ n \in Name /\ None # Gone
  BY MutatesNow, EngineAssumption DEF Tag
<1>2. UNCHANGED <<entries, left>>
  BY DEF WriteHead, DeleteGet, cacheVars, same
<1>3. CASE WriteHead(t)
  <2>1. s2 = Fetched(n, Written(store[n], buf[t]), buf[t], "write") /\ UNCHANGED pending
    BY <1>1, <1>3, Goes DEF WriteHead
  <2>2. s2.at = "trunc" /\ s2.by = "write"
    BY <2>1, MkParts DEF Fetched
  <2>3. TombStep(step[t])'
    BY <2>2 DEF TombStep, Putting, Removing
  <2>. QED  BY <1>2, <2>1, <2>3, DeletesStay
<1>4. CASE DeleteGet(t)
  <2>1. s2 = Put(n, Tombstone(entries[n]), None, "delete")
        /\ pending' = [pending EXCEPT ![n] = None]
    BY <1>1, <1>4, Goes DEF DeleteGet
  <2>2. pending'[n] = None /\ \A m \in Name : m # n => pending'[m] = pending[m]
    BY <1>1, <2>1 DEF TypeOK, EngineTypeOK
  <2>3. s2.at = "put" /\ s2.n = n /\ s2.e = Tombstone(entries[n]) /\ s2.by = "delete"
    BY <2>1, MkParts DEF Put
  <2>4. entries[n] \in Entry \cup {None}
    BY <1>1, Held
  <2>5. Tombstone(entries[n]).dirty /\ Tombstone(entries[n]).deleted
    BY <2>4 DEF Tombstone, FromPosix, Entry
  <2>6. TombStep(step[t])'
    BY <1>1, <2>2, <2>3, <2>5 DEF TombStep
  <2>. QED  BY <1>1, <1>2, <2>2, <2>6, DeletesStay
<1>. QED  BY <1>3, <1>4

LEMMA ExportDeletes ==
    ASSUME Mutates, NEW t \in Task,
           \/ FlushGet(t) \/ FlushDelete(t) \/ FlushHead(t) \/ FlushRead(t) \/ FlushWrite(t)
           \/ FlushTag(t) \/ FlushSidecar(t) \/ FlushClean(t)
    PROVE  DeletesKept'
<1>. DEFINE s == step[t]  n == step[t].n  s2 == step'[t]
<1>1. TombStep(s) /\ TypeOK /\ s \in Step /\ n \in Name /\ None # Gone
  BY MutatesNow, EngineAssumption DEF Tag
<1>2. UNCHANGED entries
  BY DEF FlushGet, FlushDelete, FlushHead, FlushRead, FlushWrite, FlushTag, FlushSidecar,
         FlushClean, cacheVars
<1>3. \A m \in Name : pending'[m] = Gone => pending[m] = Gone
  BY <1>1 DEF FlushGet, FlushDelete, FlushHead, FlushRead, FlushWrite, FlushTag, FlushSidecar,
              FlushClean, TypeOK, EngineTypeOK
<1>4. CASE (Done(t) /\ UNCHANGED same) \/ Abort(t)
  BY <1>2, <1>3, <1>4, AbortDeletes, DeletesStay
<1>5. CASE FlushGet(t) /\ ~Done(t)
  <2>1. /\ n \in DirtyNames /\ UNCHANGED <<left, pending>>
        /\ s2 = Mk(IF entries[n].deleted THEN "fpDelete" ELSE "fpHead", n, entries[n], None, "cache")
    BY <1>1, <1>5, Goes DEF FlushGet, same
  <2>2. CASE entries[n].deleted
    <3>1. s2.at = "fpDelete"
      BY <2>1, <2>2, MkParts
    <3>. QED  BY <1>2, <1>3, <2>1, <3>1, Calls, DeletesStay
  <2>3. CASE ~entries[n].deleted
    <3>1. pending[n] # Gone
      BY <1>1, <2>3 DEF Mutates, DeletesKept, NoLostDelete
    <3>2. s2.at = "fpHead" /\ s2.n = n
      BY <2>1, <2>3, MkParts
    <3>3. TombStep(step[t])'
      BY <2>1, <3>1, <3>2 DEF TombStep, Putting
    <3>. QED  BY <1>2, <1>3, <2>1, <3>3, DeletesStay
  <2>. QED  BY <2>2, <2>3
<1>6. CASE FlushDelete(t)
  <2>1. s2 = Do("drop", n) /\ UNCHANGED left
    BY <1>1, <1>6, Goes DEF FlushDelete, same
  <2>2. pending'[n] # Gone
    BY <1>1, <1>6 DEF FlushDelete, TypeOK, EngineTypeOK
  <2>3. TombStep(step[t])'
    BY <2>1, <2>2, DoParts DEF TombStep, Putting
  <2>. QED  BY <1>2, <1>3, <2>1, <2>3, DeletesStay
<1>7. CASE /\ FlushHead(t) \/ FlushRead(t) \/ FlushWrite(t) \/ FlushTag(t) \/ FlushSidecar(t)
              \/ FlushClean(t)
           /\ ~Abort(t)
  <2>1. /\ UNCHANGED left
        /\ s.at \in {"fpHead", "fpRead", "lfRead", "fpWrite", "fpTag", "fpSide", "fpClean"}
        /\ \/ \E l \in {"fpRead", "fpWrite", "lfSave", "fpClean"} : s2 = Onward(s, l)
           \/ \E l \in {"lfRead", "fpTag", "fpSide"} : \E e, c, by : s2 = Mk(l, n, e, c, by)
           \/ \E e : s2 = Put(n, e, None, "cache")
    BY <1>1, <1>7, Goes DEF FlushHead, FlushRead, FlushWrite, FlushTag, FlushSidecar, FlushClean,
                            At, same
  <2>2. s2.n = n /\ s2.at \notin {"trunc", "fill"} /\ (s2.at \in Putting => s2.by # "delete")
    BY <1>1, <2>1, OnwardParts, MkParts DEF Put, Putting
  <2>3. pending[n] # Gone
    BY <1>1, <2>1 DEF TombStep
  <2>4. TombStep(step[t])'
    BY <1>1, <1>3, <2>2, <2>3 DEF TombStep
  <2>. QED  BY <1>2, <1>3, <2>1, <2>4, DeletesStay
<1>8. FlushGet(t) => UNCHANGED same
  BY DEF FlushGet
<1>. QED  BY <1>4, <1>5, <1>6, <1>7, <1>8

LEMMA QueuedDeletes ==
    ASSUME Mutates, NEW t \in Task,
           Invalidate(t) \/ Tally(t) \/ NextCall(t) \/ NextIteration(t) \/ Return(t)
    PROVE  DeletesKept'
<1>. DEFINE s == step[t]  n == step[t].n  s2 == step'[t]
<1>1. TypeOK /\ s \in Step /\ n \in Name
  BY MutatesNow
<1>2. UNCHANGED <<entries, pending>>
  BY DEF Invalidate, Tally, NextCall, NextIteration, Return, cacheVars
<1>3. CASE Invalidate(t)
  <2>1. CASE Done(t)
    BY <1>2, <1>3, <2>1, AbortDeletes, DeletesStay DEF Invalidate
  <2>2. CASE ~Done(t)
    <3>1. Droppable(entries[n]) /\ s2 = Do("drop", n) /\ UNCHANGED left
      BY <1>1, <1>3, <2>2, Goes DEF Invalidate, same
    <3>2. pending[n] # Gone
      BY <1>1, <3>1 DEF Mutates, DeletesKept, NoLostDelete, Droppable
    <3>3. TombStep(step[t])'
      BY <1>2, <3>1, <3>2, DoParts DEF TombStep, Putting
    <3>. QED  BY <1>2, <3>1, <3>3, DeletesStay
  <2>. QED  BY <2>1, <2>2
<1>4. CASE Tally(t)
  BY <1>2, <1>4, AbortDeletes, DeletesStay DEF Tally
<1>5. CASE NextCall(t)
  <2>1. todo[t] \in Seq(Step) /\ todo[t] # <<>> /\ s2 = Head(todo[t]) /\ UNCHANGED left
    BY <1>1, <1>5, Goes DEF NextCall, TypeOK, EngineTypeOK
  <2>2. s2 = todo[t][1] /\ 1 \in DOMAIN todo[t]
    BY <2>1
  <2>3. s2.at \in Call
    BY <2>2 DEF Mutates, Controlled, Control, Queue
  <2>. QED  BY <1>2, <2>1, <2>3, Calls, DeletesStay
<1>6. CASE NextIteration(t)
  <2>1. s2 \in left[t] /\ left'[t] \subseteq left[t]
    BY <1>1, <1>6, Goes DEF NextIteration, Remaining, TypeOK, EngineTypeOK
  <2>2. s2.at \in {"fpGet", "expire", "drop"} /\ (s2.at # "fpGet" => pending[s2.n] # Gone)
    BY <2>1, MutatesNow DEF TombLoop
  <2>3. TombStep(step[t])'
    BY <1>2, <2>2 DEF TombStep, Putting, Removing
  <2>. QED  BY <1>2, <2>1, <2>3, DeletesStay
<1>7. CASE Return(t)
  <2>1. s2.at = "done" /\ UNCHANGED left
    BY <1>1, <1>7, Goes, NoStepParts DEF Return
  <2>. QED  BY <1>2, <2>1, Calls, DeletesStay
<1>. QED  BY <1>3, <1>4, <1>5, <1>6, <1>7

LEMMA BeginsDeletes ==
    ASSUME Mutates, NEW t \in Task, Begins(t) PROVE DeletesKept'
<1>1. UNCHANGED <<entries, pending>>
      /\ step'[t].at \in {"stat", "writeHead", "delGet", "invalidate", "done"}
  BY BeginsFirst DEF Mutates, cacheVars
<1>2. TombStep(step[t])'
  BY <1>1 DEF TombStep, Putting, Removing
<1>3. NoLostDelete'
  BY <1>1 DEF Mutates, DeletesKept, NoLostDelete
<1>4. \A name, first, rest, loop : Begin(t, name, first, rest, loop) =>
         name \in Ops[t] /\ left'[t] = loop
  BY DEF Begin, Mutates, TypeOK, EngineTypeOK
<1>. HIDE DEF Begin
<1>5. \E loop : left'[t] = loop /\ TombLoop(loop)
  <2>1. ASSUME NEW x \in Path,
               Stat(t, x) \/ Read(t, x) \/ DeletePath(t, x) \/ InvalidatePath(t, x)
        PROVE  left'[t] = {}
    BY <1>4, <2>1, Zenon DEF Stat, Read, DeletePath, InvalidatePath
  <2>2. ASSUME NEW x \in Path, NEW d \in Data, WriteFile(t, x, d) PROVE left'[t] = {}
    BY <1>4, <2>2, Zenon DEF WriteFile
  <2>3. ASSUME NEW from \in Path, NEW to \in Path, RenamePath(t, from, to) PROVE left'[t] = {}
    BY <1>4, <2>3, Zenon DEF RenamePath
  <2>4. ~ListDir(t)
    <3>1. ListDir(t) => "list" \in Ops[t]
      BY <1>4, Zenon DEF ListDir
    <3>. QED  BY <3>1 DEF Mutates, Asks, Mutations
  <2>5. CASE Flush(t)
    <3>1. left'[t] = {Do("fpGet", m) : m \in DirtyNames}
      BY <1>4, <2>5, Zenon DEF Flush
    <3>. QED  BY <3>1, DoParts DEF TombLoop
  <2>6. CASE ExpireCache(t)
    <3>1. left'[t] = {Mk("expire", m, entries[m], None, "cache") :
                        m \in {m \in Name : Expirable(entries[m])}}
      BY <1>4, <2>6, Zenon DEF ExpireCache
    <3>2. \A i \in left'[t] : \E m \in Name : i.n = m /\ ~entries[m].dirty
      BY <3>1, MkParts DEF Expirable
    <3>. QED  BY <3>2 DEF TombLoop, Mutates, DeletesKept, NoLostDelete
  <2>7. ASSUME NEW prefix \in Prefix, InvalidatePrefix(t, prefix)
        PROVE  TombLoop(left'[t])
    <3>1. left'[t] = {Do("drop", m) : m \in {m \in prefix : Droppable(entries[m])}}
      BY <1>4, <2>7, Zenon DEF InvalidatePrefix
    <3>2. prefix \subseteq Name
      BY DEF Prefix, Name
    <3>3. \A i \in left'[t] : \E m \in Name : i.n = m /\ ~entries[m].dirty
      BY <3>1, <3>2, DoParts DEF Droppable
    <3>. QED  BY <3>3 DEF TombLoop, Mutates, DeletesKept, NoLostDelete
  <2>8. TombLoop({})
    BY DEF TombLoop
  <2>. QED  BY <2>1, <2>2, <2>3, <2>4, <2>5, <2>6, <2>7, <2>8 DEF Begins
<1>6. TombLoop(left[t])'
  BY <1>1, <1>5 DEF TombLoop
<1>. QED  BY <1>2, <1>3, <1>6, MutatesNow DEF DeletesKept, OneTask

LEMMA AroundDeletes ==
    ASSUME Mutates, IndexInv,
           \/ \E n \in Path, c \in Data \cup {None} : Remote(n, c)
           \/ Age \/ Crash \/ UNCHANGED vars
    PROVE  DeletesKept'
<1>1. CASE \/ \E n \in Path, c \in Data \cup {None} : Remote(n, c)
           \/ UNCHANGED vars
  BY <1>1 DEF Remote, vars, cacheVars, taskVars, Mutates, DeletesKept, NoLostDelete, TombStep,
              TombLoop
<1>2. CASE Age
  <2>1. \A n \in Name : entries[n] \in Entry \cup {None}
    BY Held DEF Mutates
  <2>2. \A n \in Name : entries[n] # None =>
           entries'[n] = [entries[n] EXCEPT !.old = TRUE] /\ entries'[n] \in Entry
    BY <1>2, <2>1 DEF Age, Aged, Entry
  <2>3. \A n \in Name : entries[n] # None /\ entries[n].dirty /\ entries[n].deleted =>
           entries'[n] # None /\ entries'[n].dirty /\ entries'[n].deleted
    <3>. SUFFICES ASSUME NEW n \in Name, entries[n] # None, entries[n].dirty, entries[n].deleted
                  PROVE  entries'[n] # None /\ entries'[n].dirty /\ entries'[n].deleted
      OBVIOUS
    <3>1. entries[n] \in Entry /\ entries'[n] = [entries[n] EXCEPT !.old = TRUE]
          /\ entries'[n] \in Entry
      BY <2>1, <2>2
    <3>2. entries'[n].dirty /\ entries'[n].deleted
      BY <3>1 DEF Entry
    <3>. QED  BY <3>1, <3>2, CacheAssumption
  <2>4. UNCHANGED pending
    BY <1>2 DEF Age
  <2>5. NoLostDelete'
    BY <2>3, <2>4 DEF Mutates, DeletesKept, NoLostDelete
  <2>. QED  BY <1>2, <2>5 DEF Age, taskVars, Mutates, DeletesKept, TombStep, TombLoop
<1>3. CASE Crash
  <2>1. ASSUME NEW n \in Name, pending[n] = Gone PROVE entries'[n] = entries[n]
    <3>1. \A t \in Task : step[t].n = n => step[t].at \notin Putting \cup {"rmMeta", "rmData"}
      BY <2>1, MutatesNow DEF TombStep, Removing
    <3>. QED  BY <1>3, <3>1, Survives DEF Mutates
  <2>2. NoLostDelete'
    BY <1>3, <2>1 DEF Crash, Mutates, DeletesKept, NoLostDelete
  <2>3. \A t \in Task : step'[t] = NoStep /\ left'[t] = {}
    BY <1>3 DEF Crash
  <2>4. \A t \in Task : TombStep(step[t])' /\ TombLoop(left[t])'
    BY <2>3, NoStepParts, Calls DEF TombLoop
  <2>. QED  BY <2>2, <2>4 DEF DeletesKept
<1>. QED  BY <1>1, <1>2, <1>3

LEMMA DeletesNext == ASSUME Mutates, IndexInv, [Next]_vars PROVE DeletesKept'
<1>1. ASSUME NEW t \in Task, BackendFails(t) PROVE DeletesKept'
  <2>1. None # Gone
    BY EngineAssumption DEF Tag
  <2>2. UNCHANGED entries /\ \A m \in Name : pending'[m] = Gone => pending[m] = Gone
    BY <1>1, <2>1 DEF BackendFails, cacheVars, Mutates, TypeOK, EngineTypeOK
  <2>. QED  BY <1>1, <2>2, AbortDeletes, DeletesStay DEF BackendFails
<1>2. ASSUME NEW t \in Task, Proceeds(t) PROVE DeletesKept'
  <2>1. ~(StatCache(t) \/ StatHead(t) \/ ReadGet(t) \/ ReadBytes(t) \/ Fetch(t)
          \/ FetchLookup(t) \/ ListRead(t))
    BY MutatesNow DEF StatCache, StatHead, ReadGet, ReadBytes, Fetch, FetchLookup, ListRead, At
  <2>. QED  BY <1>2, <2>1, StoringDeletes, InsertDeletes, RemovingDeletes, SaveDeletes,
               MutationDeletes, ExportDeletes, QueuedDeletes DEF Proceeds
<1>. QED  BY <1>1, <1>2, BeginsDeletes, AroundDeletes DEF Next

(* One caller that writes, deletes, flushes, invalidates and expires       *)
(* forgets no acknowledged delete, whatever other writers do, whichever    *)
(* backend calls fail, and wherever it crashes: until the object is        *)
(* deleted or the path written again, load_index finds the tombstone.      *)
THEOREM CrashesLoseNoDelete == Asks(Mutations) => (Spec => []NoLostDelete)
<1>. SUFFICES ASSUME Asks(Mutations) PROVE Spec => []NoLostDelete
  OBVIOUS
<1>1. OneTask
  BY DEF Asks
<1>2. Init => DeletesKept
  <2>. SUFFICES ASSUME Init PROVE DeletesKept
    OBVIOUS
  <2>1. NoLostDelete
    BY EngineAssumption DEF Init, NoLostDelete, Tag
  <2>2. \A t \in Task : TombStep(step[t]) /\ TombLoop(left[t])
    BY NoStepParts DEF Init, TombStep, TombLoop, Putting, Removing
  <2>. QED  BY <2>1, <2>2 DEF DeletesKept
<1>3. TypeOK /\ Asked /\ Controlled /\ IndexInv /\ DeletesKept /\ [Next]_vars => DeletesKept'
  BY DeletesNext DEF Mutates
<1>4. Spec => []IndexInv
  BY <1>1, IndexOnDisk
<1>5. DeletesKept => NoLostDelete
  BY DEF DeletesKept
<1>. QED  BY <1>2, <1>3, <1>4, <1>5, TypeCorrect, CallsInOrder, AlwaysAsked, PTL DEF Spec
=============================================================================
