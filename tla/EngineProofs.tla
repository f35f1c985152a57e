---------------------------- MODULE EngineProofs ----------------------------
(***************************************************************************)
(* Theorems about Engine, for every value of its constants: the type       *)
(* invariant, which is inductive because a step that carries an entry      *)
(* really does (Step), and under it the parts of a step every action is    *)
(* made of.                                                                *)
(***************************************************************************)
EXTENDS Engine, SequenceTheorems, TLAPS

-----------------------------------------------------------------------------
(* Steps and entries are closed under what the operations make of them.    *)

LEMMA MkType ==
    ASSUME NEW at \in Label, NEW n \in Name, NEW e \in Entry \cup {None},
           NEW c \in Tag, NEW by \in Purpose, at \in Carrier => e \in Entry
    PROVE  Mk(at, n, e, c, by) \in Step
BY DEF Mk, Step

LEMMA DoType ==
    ASSUME NEW at \in Label \ Carrier, NEW n \in Name
    PROVE  Do(at, n) \in Step
BY MkType DEF Do, Tag, Purpose

LEMMA OnwardType ==
    ASSUME NEW s \in Step, NEW at \in Label, at \in Carrier => s.e \in Entry
    PROVE  Onward(s, at) \in Step
BY DEF Onward, Step

LEMMA PutType ==
    ASSUME NEW n \in Name, NEW e \in Entry, NEW c \in Tag, NEW by \in Purpose
    PROVE  /\ Put(n, e, c, by) \in Step
           /\ Fetched(n, e, c, by) \in Step
BY MkType DEF Put, Fetched, Label

LEMMA NoStepType == NoStep \in Step
<1>1. (CHOOSE n \in Path : TRUE) \in Name
  BY EngineAssumption DEF Name
<1>. QED  BY <1>1, DoType DEF NoStep, Label, Carrier

LEMMA SizeType == \A c \in Tag : Size[c] \in Nat
BY CacheAssumption

LEMMA ImportType == \A c \in Tag : Import(c) \in Entry
BY SizeType DEF Import, FromPosix, HeadTag, Entry, Tag

LEMMA EntryType ==
    ASSUME NEW e \in Entry
    PROVE  /\ Touched(e) \in Entry /\ Filled(e) \in Entry
           /\ Emptied(e) \in Entry /\ LostEntry(e) \in Entry
           /\ Tombstone(e) \in Entry
           /\ \A c \in Tag : Cleaned(e, c) \in Entry
<1>1. Touched(e) \in Entry /\ Filled(e) \in Entry /\ Emptied(e) \in Entry
  BY DEF Touched, Filled, Emptied, Entry
<1>2. LostEntry(e) \in Entry
  BY DEF LostEntry, Entry, Tag
<1>3. Tombstone(e) \in Entry
  BY CacheAssumption DEF Tombstone, Entry
<1>4. \A c \in Tag : Cleaned(e, c) \in Entry
  BY DEF Cleaned, Entry
<1>. QED  BY <1>1, <1>2, <1>3, <1>4

LEMMA MadeType ==
    /\ Tombstone(None) \in Entry
    /\ \A head, c \in Tag : Written(head, c) \in Entry
<1>1. Tombstone(None) \in Entry
  BY DEF Tombstone, FromPosix, Entry, Tag
<1>2. \A head, c \in Tag : Written(head, c) \in Entry
  BY SizeType DEF Written, FromPosix, HeadTag, Entry, Tag
<1>. QED  BY <1>1, <1>2

LEMMA ExportType == ASSUME NEW n \in Name PROVE Export(n) \in Seq(Step)
<1>1. Do("fpGet", n) \in Step
  BY DoType DEF Label, Call, Carrier
<1>. QED  BY <1>1 DEF Export

LEMMA InitType == Init => TypeOK
<1>. SUFFICES ASSUME Init PROVE TypeOK
  OBVIOUS
<1>1. CacheTypeOK
  BY DEF Init, CacheInit, CacheTypeOK, Tag
<1>2. step \in [Task -> Step]
  BY NoStepType DEF Init
<1>3. todo \in [Task -> Seq(Step)]
  BY DEF Init
<1>4. store \in [Name -> Tag]
  BY DEF Init, Tag, Content
<1>. QED  BY <1>1, <1>2, <1>3, <1>4 DEF Init, TypeOK, EngineTypeOK, OpName, Tag

-----------------------------------------------------------------------------
(* The parts of a step, and the shorthands the actions are written in.     *)

LEMMA StepParts ==
    ASSUME TypeOK, NEW t \in Task
    PROVE  /\ step[t] \in Step
           /\ step[t].n \in Name /\ step[t].e \in Entry \cup {None}
           /\ step[t].c \in Tag /\ step[t].by \in Purpose
           /\ step[t].at \in Label
           /\ step[t].at \in Carrier => step[t].e \in Entry
<1>1. step[t] \in Step
  BY DEF TypeOK, EngineTypeOK
<1>. QED  BY <1>1 DEF Step

(* What the maps hold under a name.                                        *)
LEMMA Held ==
    ASSUME TypeOK, NEW n \in Name
    PROVE  /\ entries[n] \in Entry \cup {None} /\ data[n] \in Tag
           /\ store[n] \in Tag /\ pending[n] \in Tag \cup {Gone}
BY DEF TypeOK, CacheTypeOK, EngineTypeOK

LEMMA GotoType ==
    ASSUME TypeOK, NEW t \in Task, NEW s \in Step, Goto(t, s)
    PROVE  step' \in [Task -> Step]
BY DEF TypeOK, EngineTypeOK, Goto

LEMMA DoneType ==
    ASSUME TypeOK, NEW t \in Task, Done(t)
    PROVE  step' \in [Task -> Step]
<1>1. Do("done", step[t].n) \in Step
  BY StepParts, DoType DEF Label, Carrier
<1>. QED  BY <1>1, GotoType DEF Done

LEMMA AbortType ==
    ASSUME TypeOK, NEW t \in Task, Abort(t)
    PROVE  /\ step' \in [Task -> Step] /\ err' \in [Task -> BOOLEAN]
           /\ todo' \in [Task -> Seq(Step)] /\ left' \in [Task -> SUBSET Step]
<1>1. step' \in [Task -> Step]
  BY DoneType DEF Abort
<1>2. err' \in [Task -> BOOLEAN]
  BY DEF Abort, TypeOK, EngineTypeOK
<1>3. todo' \in [Task -> Seq(Step)]
  BY DEF Abort, TypeOK, EngineTypeOK
<1>4. left' \in [Task -> SUBSET Step]
  BY DEF Abort, TypeOK, EngineTypeOK
<1>. QED  BY <1>1, <1>2, <1>3, <1>4

LEMMA BufLenType ==
    ASSUME TypeOK, NEW t \in Task
    PROVE  /\ \A c \in Tag : Load(t, c) => buf' \in [Task -> Tag]
           /\ \A k \in Nat : Measure(t, k) => len' \in [Task -> Nat]
           /\ buf[t] \in Tag /\ len[t] \in Nat
BY DEF TypeOK, EngineTypeOK, Load, Measure

LEMMA CutType == \A c \in Tag : \A k \in Nat : Cut(c, k) \in Tag
BY DEF Cut, Tag, Content

-----------------------------------------------------------------------------
(* The calls.                                                              *)

LEMMA BeginType ==
    ASSUME TypeOK, NEW t \in Task, NEW name \in OpName, NEW first \in Step,
           NEW rest \in Seq(Step), NEW loop \in SUBSET Step,
           Begin(t, name, first, rest, loop), buf' \in [Task -> Tag]
    PROVE  TypeOK'
<1>1. step' \in [Task -> Step]
  BY GotoType DEF Begin
<1>2. /\ op' \in [Task -> OpName \cup {"none", "dead"}]
      /\ todo' \in [Task -> Seq(Step)]
      /\ left' \in [Task -> SUBSET Step]
  BY DEF Begin, TypeOK, EngineTypeOK
<1>. QED  BY <1>1, <1>2 DEF Begin, TypeOK, CacheTypeOK, EngineTypeOK, cacheVars

LEMMA BeginsType == ASSUME TypeOK, NEW t \in Task, Begins(t) PROVE TypeOK'
<1>. USE DEF Label, Call, Carrier, OpName
<1>1. buf \in [Task -> Tag]
  BY DEF TypeOK, EngineTypeOK
<1>2. ASSUME NEW n \in Name
      PROVE  \A l \in {"stat", "readGet", "writeHead", "delGet", "fpGet", "drop", "invalidate"} :
                Do(l, n) \in Step
  BY DoType
<1>3. Path \subseteq Name /\ <<>> \in Seq(Step) /\ {} \in SUBSET Step
  BY DEF Name
<1>4. ASSUME NEW n \in Path, Stat(t, n) PROVE TypeOK'
  BY <1>1, <1>2, <1>3, <1>4, BeginType DEF Stat
<1>5. ASSUME NEW n \in Path, Read(t, n) PROVE TypeOK'
  <2>1. <<Do("stat", n), Do("readGet", n)>> \in Seq(Step)
    BY <1>2, <1>3
  <2>. QED  BY <2>1, <1>1, <1>2, <1>3, <1>5, BeginType DEF Read
<1>6. ASSUME NEW n \in Path, DeletePath(t, n) PROVE TypeOK'
  BY <1>1, <1>2, <1>3, <1>6, ExportType, BeginType DEF DeletePath
<1>7. ASSUME NEW n \in Path, InvalidatePath(t, n) PROVE TypeOK'
  BY <1>1, <1>2, <1>3, <1>7, BeginType DEF InvalidatePath
<1>8. ASSUME NEW n \in Path, NEW d \in Data, WriteFile(t, n, d) PROVE TypeOK'
  <2>1. buf' \in [Task -> Tag]
    BY <1>8, BufLenType DEF WriteFile, Tag, Content
  <2>. QED  BY <2>1, <1>2, <1>3, <1>8, ExportType, BeginType DEF WriteFile
<1>9. ASSUME NEW from \in Path, NEW to \in Path, RenamePath(t, from, to) PROVE TypeOK'
  <2>. DEFINE reading == <<Do("stat", from), Do("stat", from), Do("readGet", from)>>
              rest == reading \o <<Do("writeHead", to)>> \o Export(to)
                      \o <<Do("delGet", from)>> \o Export(from)
  <2>1. reading \in Seq(Step) /\ <<Do("writeHead", to)>> \in Seq(Step)
        /\ <<Do("delGet", from)>> \in Seq(Step)
    BY <1>2, <1>3
  <2>2. Export(to) \in Seq(Step) /\ Export(from) \in Seq(Step)
    BY <1>3, ExportType
  <2>3. rest \in Seq(Step)
    <3>. HIDE DEF reading
    <3>. QED  BY <2>1, <2>2, ConcatProperties
  <2>. QED  BY <2>3, <1>1, <1>2, <1>3, <1>9, BeginType DEF RenamePath
<1>10. CASE ListDir(t)
  <2>. DEFINE loop == {Put(m, Import(store[m]), None, "list") : m \in {m \in Name : store[m] # None}}
  <2>1. loop \in SUBSET Step
    BY Held, ImportType, PutType DEF Purpose, Tag
  <2>. QED  BY <2>1, <1>1, <1>3, <1>10, NoStepType, BeginType DEF ListDir
<1>11. CASE Flush(t)
  <2>1. {Do("fpGet", m) : m \in DirtyNames} \in SUBSET Step
    BY <1>2 DEF DirtyNames
  <2>. QED  BY <2>1, <1>1, <1>3, <1>11, NoStepType, BeginType DEF Flush
<1>12. CASE ExpireCache(t)
  <2>1. {Mk("expire", m, entries[m], None, "cache") : m \in {m \in Name : Expirable(entries[m])}}
           \in SUBSET Step
    BY Held, MkType DEF Expirable, Purpose, Tag
  <2>. QED  BY <2>1, <1>1, <1>3, <1>12, NoStepType, BeginType DEF ExpireCache
<1>13. ASSUME NEW prefix \in Prefix, InvalidatePrefix(t, prefix) PROVE TypeOK'
  <2>1. {Do("drop", m) : m \in {m \in prefix : Droppable(entries[m])}} \in SUBSET Step
    BY <1>2 DEF Prefix, Name
  <2>. QED  BY <2>1, <1>1, <1>3, <1>13, NoStepType, BeginType DEF InvalidatePrefix
<1>. QED  BY <1>4, <1>5, <1>6, <1>7, <1>8, <1>9, <1>10, <1>11, <1>12, <1>13 DEF Begins
-----------------------------------------------------------------------------
(* The steps.                                                              *)

(* What the variables of a task must be after a step.                      *)
Local ==
    /\ step \in [Task -> Step] /\ todo \in [Task -> Seq(Step)]
    /\ left \in [Task -> SUBSET Step] /\ err \in [Task -> BOOLEAN]
    /\ buf \in [Task -> Tag] /\ len \in [Task -> Nat]

LEMMA LocalType ==
    ASSUME TypeOK, Local', UNCHANGED <<cacheVars, store, outer, pending>>
    PROVE  TypeOK'
BY DEF Local, TypeOK, CacheTypeOK, EngineTypeOK, cacheVars, outer

LEMMA LocalNow == TypeOK => Local
BY DEF Local, TypeOK, EngineTypeOK

(* A step that only goes on to another one.                                *)
LEMMA OnlyGoto ==
    ASSUME TypeOK, NEW t \in Task, NEW s \in Step, Goto(t, s),
           UNCHANGED <<same, buf, len>>
    PROVE  Local'
BY GotoType, LocalNow DEF Local, same

LEMMA OnlyDone ==
    ASSUME TypeOK, NEW t \in Task, Done(t), UNCHANGED <<same, buf, len>>
    PROVE  Local'
BY DoneType, LocalNow DEF Local, same

LEMMA OnlyAbort ==
    ASSUME TypeOK, NEW t \in Task, Abort(t), UNCHANGED <<buf, len>>
    PROVE  Local'
BY AbortType, LocalNow DEF Local

LEMMA StatCacheType == ASSUME TypeOK, NEW t \in Task, StatCache(t) PROVE TypeOK'
<1>. DEFINE n == step[t].n  e == entries[n]
<1>1. n \in Name
  BY StepParts
<1>2. CASE Known(e) /\ Measure(t, e.size) /\ Done(t) /\ UNCHANGED <<same, buf>>
  <2>1. e.size \in Nat
    BY <1>1, <1>2, Held DEF Known, Entry
  <2>2. Local'
    BY <1>2, <2>1, DoneType, BufLenType, LocalNow DEF Local, same
  <2>. QED  BY <2>2, LocalType DEF StatCache
<1>3. CASE Goto(t, Do("statHead", n)) /\ UNCHANGED <<same, buf, len>>
  <2>1. Do("statHead", n) \in Step
    BY <1>1, DoType DEF Label, Carrier
  <2>. QED  BY <1>3, <2>1, OnlyGoto, LocalType DEF StatCache
<1>. QED  BY <1>2, <1>3 DEF StatCache

LEMMA StatHeadType == ASSUME TypeOK, NEW t \in Task, StatHead(t) PROVE TypeOK'
<1>. DEFINE n == step[t].n  c == store[n]
<1>1. n \in Name /\ c \in Tag
  BY StepParts, Held
<1>2. CASE Measure(t, Size[c]) /\ Goto(t, Put(n, Import(c), None, "stat")) /\ UNCHANGED <<same, buf>>
  <2>1. Put(n, Import(c), None, "stat") \in Step
    BY <1>1, ImportType, PutType DEF Purpose, Tag
  <2>2. Local'
    BY <1>1, <1>2, <2>1, GotoType, SizeType, BufLenType, LocalNow DEF Local, same
  <2>. QED  BY <2>2, LocalType DEF StatHead
<1>3. CASE Abort(t) /\ UNCHANGED <<buf, len>>
  BY <1>3, OnlyAbort, LocalType DEF StatHead
<1>. QED  BY <1>2, <1>3 DEF StatHead

LEMMA PutMetaType == ASSUME TypeOK, NEW t \in Task, PutMeta(t) PROVE TypeOK'
<1>. DEFINE s == step[t]
<1>1. s \in Step /\ s.n \in Name /\ s.e \in Entry
  BY StepParts DEF PutMeta, At, Carrier
<1>2. Onward(s, "insert") \in Step
  BY <1>1, OnwardType DEF Label
<1>3. Local'
  BY <1>2, OnlyGoto DEF PutMeta
<1>4. meta' \in [Name -> Entry \cup {None}]
  BY <1>1 DEF PutMeta, WriteMeta, TypeOK, CacheTypeOK
<1>. QED  BY <1>3, <1>4 DEF PutMeta, Local, TypeOK, CacheTypeOK, EngineTypeOK, outer

LEMMA AfterInsertType ==
    ASSUME TypeOK, NEW t \in Task, At(t, "insert"), AfterInsert(t, step[t]), UNCHANGED len
    PROVE  Local'
<1>. DEFINE s == step[t]
<1>1. s \in Step /\ s.n \in Name /\ s.c \in Tag /\ s.e \in Entry
  BY StepParts DEF At, Carrier
<1>2. CASE Done(t) /\ UNCHANGED <<same, buf>>
  BY <1>2, OnlyDone
<1>3. CASE Goto(t, Do("cacheRead", s.n)) /\ UNCHANGED <<same, buf>>
  <2>1. Do("cacheRead", s.n) \in Step
    BY <1>1, DoType DEF Label, Carrier
  <2>. QED  BY <1>3, <2>1, OnlyGoto
<1>4. CASE Load(t, Cut(s.c, len[t])) /\ Done(t) /\ UNCHANGED same
  <2>1. Cut(s.c, len[t]) \in Tag
    BY <1>1, CutType, BufLenType
  <2>2. buf' \in [Task -> Tag]
    BY <1>4, <2>1, BufLenType
  <2>. QED  BY <1>4, <2>2, DoneType, LocalNow DEF Local, same
<1>5. CASE Abort(t) /\ UNCHANGED buf
  BY <1>5, OnlyAbort
<1>6. CASE Goto(t, Onward(s, "listRead")) /\ UNCHANGED <<same, buf>>
  <2>1. Onward(s, "listRead") \in Step
    BY <1>1, OnwardType DEF Label
  <2>. QED  BY <1>6, <2>1, OnlyGoto
<1>. QED  BY <1>2, <1>3, <1>4, <1>5, <1>6 DEF AfterInsert

LEMMA InsertEntryType == ASSUME TypeOK, NEW t \in Task, InsertEntry(t) PROVE TypeOK'
<1>. DEFINE s == step[t]
<1>1. s.n \in Name /\ s.c \in Tag /\ s.e \in Entry
  BY StepParts DEF InsertEntry, At, Carrier
<1>2. Local'
  BY AfterInsertType DEF InsertEntry
<1>3. entries' \in [Name -> Entry \cup {None}]
  BY <1>1 DEF InsertEntry, Insert, TypeOK, CacheTypeOK
<1>4. pending' \in [Name -> Tag \cup {Gone}]
  <2>1. pending \in [Name -> Tag \cup {Gone}]
    BY DEF TypeOK, EngineTypeOK
  <2>2. CASE s.by = "write"
    BY <1>1, <2>1, <2>2 DEF InsertEntry
  <2>3. CASE s.by = "delete"
    BY <1>1, <2>1, <2>3 DEF InsertEntry
  <2>4. CASE s.by \notin {"write", "delete"}
    BY <2>1, <2>4 DEF InsertEntry
  <2>. QED  BY <2>2, <2>3, <2>4
<1>. QED  BY <1>2, <1>3, <1>4 DEF InsertEntry, Local, TypeOK, CacheTypeOK, EngineTypeOK, outer

LEMMA ReadGetType == ASSUME TypeOK, NEW t \in Task, ReadGet(t) PROVE TypeOK'
<1>. DEFINE n == step[t].n  e == entries[n]
<1>1. n \in Name /\ e \in Entry \cup {None}
  BY StepParts, Held
<1>2. CASE Load(t, Torn) /\ Done(t)
  <2>1. buf' \in [Task -> Tag]
    BY <1>2, BufLenType DEF Tag, Content
  <2>2. Local'
    BY <1>2, <2>1, DoneType, LocalNow DEF Local, ReadGet, same
  <2>. QED  BY <2>2, LocalType DEF ReadGet
<1>3. CASE Serves(e) /\ Goto(t, Put(n, Touched(e), None, "touch")) /\ UNCHANGED buf
  <2>1. Put(n, Touched(e), None, "touch") \in Step
    BY <1>1, <1>3, EntryType, PutType DEF Serves, Purpose, Tag
  <2>. QED  BY <1>3, <2>1, OnlyGoto, LocalType DEF ReadGet
<1>4. CASE Goto(t, Do(IF ReadsDirectly(len[t]) THEN "direct" ELSE "fetch", n)) /\ UNCHANGED buf
  <2>1. Do(IF ReadsDirectly(len[t]) THEN "direct" ELSE "fetch", n) \in Step
    BY <1>1, DoType DEF Label, Carrier
  <2>. QED  BY <1>4, <2>1, OnlyGoto, LocalType DEF ReadGet
<1>. QED  BY <1>2, <1>3, <1>4 DEF ReadGet

LEMMA ReadBytesType == ASSUME TypeOK, NEW t \in Task, ReadBytes(t) PROVE TypeOK'
<1>. DEFINE n == step[t].n  c == IF At(t, "direct") THEN store[n] ELSE data[n]
<1>1. c \in Tag
  BY StepParts, Held
<1>2. CASE Load(t, Cut(c, len[t])) /\ Done(t) /\ UNCHANGED same
  <2>1. Cut(c, len[t]) \in Tag
    BY <1>1, CutType, BufLenType
  <2>2. buf' \in [Task -> Tag]
    BY <1>2, <2>1, BufLenType
  <2>3. Local'
    BY <1>2, <2>2, DoneType, LocalNow DEF Local, ReadBytes, same
  <2>. QED  BY <2>3, LocalType DEF ReadBytes
<1>3. CASE Abort(t) /\ UNCHANGED buf
  BY <1>3, OnlyAbort, LocalType DEF ReadBytes
<1>. QED  BY <1>2, <1>3 DEF ReadBytes

LEMMA FetchType == ASSUME TypeOK, NEW t \in Task, Fetch(t) PROVE TypeOK'
<1>. DEFINE n == step[t].n  c == store[n]
<1>1. CASE Goto(t, Mk("lookup", n, None, c, "fetch")) /\ UNCHANGED same
  <2>1. Mk("lookup", n, None, c, "fetch") \in Step
    BY StepParts, Held, MkType DEF Label, Carrier, Purpose
  <2>. QED  BY <1>1, <2>1, OnlyGoto, LocalType DEF Fetch
<1>2. CASE Abort(t)
  BY <1>2, OnlyAbort, LocalType DEF Fetch
<1>. QED  BY <1>1, <1>2 DEF Fetch

LEMMA FetchLookupType == ASSUME TypeOK, NEW t \in Task, FetchLookup(t) PROVE TypeOK'
<1>. DEFINE s == step[t]  e == entries[s.n]
<1>1. CASE e # None /\ Goto(t, Fetched(s.n, Filled(e), s.c, "fetch")) /\ UNCHANGED same
  <2>1. Fetched(s.n, Filled(e), s.c, "fetch") \in Step
    BY <1>1, StepParts, Held, EntryType, PutType DEF Purpose
  <2>. QED  BY <1>1, <2>1, OnlyGoto, LocalType DEF FetchLookup
<1>2. CASE Abort(t)
  BY <1>2, OnlyAbort, LocalType DEF FetchLookup
<1>. QED  BY <1>1, <1>2 DEF FetchLookup

LEMMA ListReadType == ASSUME TypeOK, NEW t \in Task, ListRead(t) PROVE TypeOK'
<1>. DEFINE s == step[t]  c == store[s.n]
<1>1. CASE Goto(t, Fetched(s.n, Filled(s.e), c, "cache")) /\ UNCHANGED same
  <2>1. s.n \in Name /\ s.e \in Entry /\ c \in Tag
    BY StepParts, Held DEF ListRead, At, Carrier
  <2>2. Fetched(s.n, Filled(s.e), c, "cache") \in Step
    BY <2>1, EntryType, PutType DEF Purpose
  <2>. QED  BY <1>1, <2>2, OnlyGoto, LocalType DEF ListRead
<1>2. CASE Abort(t)
  BY <1>2, OnlyAbort, LocalType DEF ListRead
<1>. QED  BY <1>1, <1>2 DEF ListRead

LEMMA TruncateDataType == ASSUME TypeOK, NEW t \in Task, TruncateData(t) PROVE TypeOK'
<1>. DEFINE s == step[t]
<1>1. s \in Step /\ s.n \in Name /\ s.e \in Entry
  BY StepParts DEF TruncateData, At, Carrier
<1>2. Onward(s, "fill") \in Step
  BY <1>1, OnwardType DEF Label
<1>3. Local'
  BY <1>2, OnlyGoto DEF TruncateData
<1>4. data' \in [Name -> Tag]
  BY <1>1 DEF TruncateData, Truncate, TypeOK, CacheTypeOK, Tag, Content
<1>5. pending' \in [Name -> Tag \cup {Gone}]
  BY <1>1 DEF TruncateData, TypeOK, EngineTypeOK, Tag
<1>. QED  BY <1>3, <1>4, <1>5 DEF TruncateData, Local, TypeOK, CacheTypeOK, EngineTypeOK, outer

LEMMA FillDataType == ASSUME TypeOK, NEW t \in Task, FillData(t) PROVE TypeOK'
<1>. DEFINE s == step[t]
<1>1. s \in Step /\ s.n \in Name /\ s.c \in Tag /\ s.e \in Entry
  BY StepParts DEF FillData, At, Carrier
<1>2. Onward(s, "put") \in Step
  BY <1>1, OnwardType DEF Label
<1>3. Local'
  BY <1>2, OnlyGoto DEF FillData
<1>4. Overlay(data[s.n], s.c) \in Tag
  BY <1>1, Held DEF Overlay, Tag, Content
<1>5. data' \in [Name -> Tag]
  BY <1>1, <1>4 DEF FillData, Fill, TypeOK, CacheTypeOK
<1>. QED  BY <1>3, <1>5 DEF FillData, Local, TypeOK, CacheTypeOK, EngineTypeOK, outer

LEMMA WriteHeadType == ASSUME TypeOK, NEW t \in Task, WriteHead(t) PROVE TypeOK'
<1>. DEFINE n == step[t].n
<1>1. n \in Name /\ store[n] \in Tag /\ buf[t] \in Tag
  BY StepParts, Held, BufLenType
<1>2. Fetched(n, Written(store[n], buf[t]), buf[t], "write") \in Step
  BY <1>1, MadeType, PutType DEF Purpose
<1>. QED  BY <1>2, OnlyGoto, LocalType DEF WriteHead

LEMMA DeleteGetType == ASSUME TypeOK, NEW t \in Task, DeleteGet(t) PROVE TypeOK'
<1>. DEFINE n == step[t].n
<1>1. n \in Name /\ Tombstone(entries[n]) \in Entry
  BY StepParts, Held, MadeType, EntryType
<1>2. Put(n, Tombstone(entries[n]), None, "delete") \in Step
  BY <1>1, PutType DEF Purpose, Tag
<1>3. Local'
  BY <1>2, OnlyGoto DEF DeleteGet
<1>4. pending' \in [Name -> Tag \cup {Gone}]
  BY <1>1 DEF DeleteGet, TypeOK, EngineTypeOK, Tag
<1>. QED  BY <1>3, <1>4 DEF DeleteGet, Local, TypeOK, CacheTypeOK, EngineTypeOK, outer, cacheVars

LEMMA FlushGetType == ASSUME TypeOK, NEW t \in Task, FlushGet(t) PROVE TypeOK'
<1>. DEFINE n == step[t].n  e == entries[n]
            s == Mk(IF e.deleted THEN "fpDelete" ELSE "fpHead", n, e, None, "cache")
<1>1. CASE Done(t)
  BY <1>1, OnlyDone, LocalType DEF FlushGet
<1>2. CASE n \in DirtyNames /\ Goto(t, s)
  <2>1. n \in Name /\ e \in Entry
    BY <1>2, StepParts, Held DEF DirtyNames
  <2>2. s \in Step
    BY <2>1, MkType DEF Label, Purpose, Tag
  <2>. QED  BY <1>2, <2>2, OnlyGoto, LocalType DEF FlushGet
<1>. QED  BY <1>1, <1>2 DEF FlushGet

LEMMA FlushDeleteType == ASSUME TypeOK, NEW t \in Task, FlushDelete(t) PROVE TypeOK'
<1>. DEFINE n == step[t].n
<1>1. n \in Name /\ Do("drop", n) \in Step
  BY StepParts, DoType DEF Label, Carrier
<1>2. Local'
  BY <1>1, OnlyGoto DEF FlushDelete
<1>3. store' \in [Name -> Tag] /\ pending' \in [Name -> Tag \cup {Gone}]
  BY <1>1 DEF FlushDelete, TypeOK, EngineTypeOK, Tag
<1>. QED  BY <1>2, <1>3 DEF FlushDelete, Local, TypeOK, CacheTypeOK, EngineTypeOK, outer, cacheVars

LEMMA AfterRemoveType == ASSUME NEW s \in Step PROVE AfterRemove(s) \in Step
<1>1. s.n \in Name /\ s.c \in Tag
  BY DEF Step
<1>2. Put(s.n, Import(s.c), None, "conflict") \in Step
  BY <1>1, ImportType, PutType DEF Purpose, Tag
<1>3. Do("done", s.n) \in Step
  BY <1>1, DoType DEF Label, Carrier
<1>. QED  BY <1>2, <1>3 DEF AfterRemove

LEMMA DropsType ==
    ASSUME TypeOK, NEW t \in Task, DropEntry(t) \/ DropMeta(t) \/ DropData(t)
    PROVE  TypeOK'
<1>. DEFINE s == step[t]
<1>1. s \in Step /\ s.n \in Name
  BY StepParts
<1>2. /\ AfterRemove(s) \in Step
      /\ Onward(s, "rmMeta") \in Step /\ Onward(s, "rmData") \in Step
  BY <1>1, AfterRemoveType, OnwardType DEF Label, Carrier
<1>3. CASE DropEntry(t)
  <2>1. Local'
    BY <1>2, <1>3, OnlyGoto DEF DropEntry
  <2>2. entries' \in [Name -> Entry \cup {None}]
    BY <1>1, <1>3 DEF DropEntry, Remove, TypeOK, CacheTypeOK
  <2>. QED  BY <1>3, <2>1, <2>2 DEF DropEntry, Local, TypeOK, CacheTypeOK, EngineTypeOK, outer
<1>4. CASE DropMeta(t)
  <2>1. Local'
    BY <1>2, <1>4, OnlyGoto DEF DropMeta
  <2>2. meta' \in [Name -> Entry \cup {None}]
    BY <1>1, <1>4 DEF DropMeta, UnlinkMeta, TypeOK, CacheTypeOK
  <2>. QED  BY <1>4, <2>1, <2>2 DEF DropMeta, Local, TypeOK, CacheTypeOK, EngineTypeOK, outer
<1>5. CASE DropData(t)
  <2>1. Local'
    BY <1>2, <1>5, OnlyGoto DEF DropData
  <2>2. data' \in [Name -> Tag]
    BY <1>1, <1>5 DEF DropData, UnlinkData, TypeOK, CacheTypeOK, Tag
  <2>. QED  BY <1>5, <2>1, <2>2 DEF DropData, Local, TypeOK, CacheTypeOK, EngineTypeOK, outer
<1>. QED  BY <1>3, <1>4, <1>5

LEMMA FlushHeadType == ASSUME TypeOK, NEW t \in Task, FlushHead(t) PROVE TypeOK'
<1>. DEFINE s == step[t]  head == store[s.n]
<1>1. s \in Step /\ s.n \in Name /\ head \in Tag /\ s.e \in Entry
  BY StepParts, Held DEF FlushHead, At, Carrier
<1>2. Mk("lfRead", s.n, s.e, head, "conflict") \in Step /\ Onward(s, "fpRead") \in Step
  BY <1>1, MkType, OnwardType DEF Label, Purpose
<1>. QED  BY <1>2, OnlyGoto, LocalType DEF FlushHead

LEMMA FlushReadType == ASSUME TypeOK, NEW t \in Task, FlushRead(t) PROVE TypeOK'
<1>. DEFINE s == step[t]  c == data[s.n]
            s2 == Onward(s, IF s.at = "fpRead" THEN "fpWrite" ELSE "lfSave")
<1>1. s \in Step /\ s.n \in Name /\ s.e \in Entry /\ c \in Tag
  BY StepParts, Held DEF FlushRead, Carrier
<1>2. CASE Load(t, c) /\ Goto(t, s2) /\ UNCHANGED same
  <2>1. s2 \in Step
    BY <1>1, OnwardType DEF Label
  <2>2. Local'
    BY <1>1, <1>2, <2>1, GotoType, BufLenType, LocalNow DEF Local, FlushRead, same
  <2>. QED  BY <2>2, LocalType DEF FlushRead
<1>3. CASE Abort(t) /\ UNCHANGED buf
  BY <1>3, OnlyAbort, LocalType DEF FlushRead
<1>. QED  BY <1>2, <1>3 DEF FlushRead

LEMMA SaveLostType == ASSUME TypeOK, NEW t \in Task, SaveLost(t) PROVE TypeOK'
<1>. DEFINE s == step[t]
<1>1. s \in Step /\ s.n \in Name /\ s.e \in Entry /\ buf[t] \in Tag
  BY StepParts, BufLenType DEF SaveLost, At, Carrier
<1>2. Onward(s, "drop") \in Step /\ LostEntry(s.e) \in Entry
  BY <1>1, OnwardType, EntryType DEF Label, Carrier
<1>3. Local'
  BY <1>2, OnlyGoto DEF SaveLost
<1>4. PICK l \in Lost : /\ SaveBytes(l, buf[t])
                        /\ WriteMeta(l, LostEntry(s.e)) /\ Insert(l, LostEntry(s.e))
  BY DEF SaveLost
<1>5. l \in Name
  BY DEF Name
<1>6. CacheTypeOK'
  BY <1>1, <1>2, <1>4, <1>5 DEF SaveBytes, WriteMeta, Insert, TypeOK, CacheTypeOK
<1>7. pending' \in [Name -> Tag \cup {Gone}]
  BY <1>1 DEF SaveLost, TypeOK, EngineTypeOK, Tag
<1>. QED  BY <1>3, <1>6, <1>7 DEF SaveLost, Local, TypeOK, EngineTypeOK, outer

LEMMA FlushWriteType == ASSUME TypeOK, NEW t \in Task, FlushWrite(t) PROVE TypeOK'
<1>. DEFINE s == step[t]
            s2 == Mk(IF Backend = "opendal" THEN "fpTag" ELSE "fpSide", s.n, s.e, buf[t], "cache")
<1>1. s.n \in Name /\ s.e \in Entry /\ buf[t] \in Tag
  BY StepParts, BufLenType DEF FlushWrite, At, Carrier
<1>2. s2 \in Step
  BY <1>1, MkType DEF Label, Purpose
<1>3. Local'
  BY <1>2, OnlyGoto DEF FlushWrite
<1>4. store' \in [Name -> Tag] /\ pending' \in [Name -> Tag \cup {Gone}]
  BY <1>1 DEF FlushWrite, TypeOK, EngineTypeOK, Tag
<1>. QED  BY <1>3, <1>4 DEF FlushWrite, Local, TypeOK, CacheTypeOK, EngineTypeOK, outer, cacheVars

LEMMA FlushTagType == ASSUME TypeOK, NEW t \in Task, FlushTag(t) PROVE TypeOK'
<1>. DEFINE s == step[t]
<1>1. s.n \in Name /\ s.e \in Entry /\ store[s.n] \in Tag
  BY StepParts, Held DEF FlushTag, At, Carrier
<1>2. Mk("fpSide", s.n, s.e, store[s.n], "cache") \in Step
  BY <1>1, MkType DEF Label, Purpose
<1>. QED  BY <1>2, OnlyGoto, LocalType DEF FlushTag

LEMMA FlushSidecarType == ASSUME TypeOK, NEW t \in Task, FlushSidecar(t) PROVE TypeOK'
<1>1. step[t] \in Step /\ step[t].e \in Entry
  BY StepParts DEF FlushSidecar, At, Carrier
<1>2. Onward(step[t], "fpClean") \in Step
  BY <1>1, OnwardType DEF Label
<1>. QED  BY <1>2, OnlyGoto, LocalType DEF FlushSidecar

LEMMA FlushCleanType == ASSUME TypeOK, NEW t \in Task, FlushClean(t) PROVE TypeOK'
<1>. DEFINE s == step[t]  e == entries[s.n]
<1>1. CASE e # None /\ Goto(t, Put(s.n, Cleaned(e, s.c), None, "cache")) /\ UNCHANGED same
  <2>1. Put(s.n, Cleaned(e, s.c), None, "cache") \in Step
    BY <1>1, StepParts, Held, EntryType, PutType DEF Purpose, Tag
  <2>. QED  BY <1>1, <2>1, OnlyGoto, LocalType DEF FlushClean
<1>2. CASE Abort(t)
  BY <1>2, OnlyAbort, LocalType DEF FlushClean
<1>. QED  BY <1>1, <1>2 DEF FlushClean

LEMMA ExpireDataType == ASSUME TypeOK, NEW t \in Task, ExpireData(t) PROVE TypeOK'
<1>. DEFINE s == step[t]
<1>1. s.n \in Name /\ s.e \in Entry
  BY StepParts DEF ExpireData, At, Carrier
<1>2. Put(s.n, Emptied(s.e), None, "cache") \in Step
  BY <1>1, EntryType, PutType DEF Purpose, Tag
<1>3. Local'
  BY <1>2, OnlyGoto DEF ExpireData
<1>4. data' \in [Name -> Tag]
  BY <1>1 DEF ExpireData, UnlinkData, TypeOK, CacheTypeOK, Tag
<1>. QED  BY <1>3, <1>4 DEF ExpireData, Local, TypeOK, CacheTypeOK, EngineTypeOK, outer

LEMMA InvalidateType == ASSUME TypeOK, NEW t \in Task, Invalidate(t) PROVE TypeOK'
<1>1. Do("drop", step[t].n) \in Step
  BY StepParts, DoType DEF Label, Carrier
<1>. QED  BY <1>1, OnlyGoto, OnlyDone, LocalType DEF Invalidate

LEMMA TallyType == ASSUME TypeOK, NEW t \in Task, Tally(t) PROVE TypeOK'
<1>1. Local'
  BY OnlyDone DEF Tally
<1>2. ok' \in [Task -> BOOLEAN]
  BY DEF Tally, TypeOK, EngineTypeOK
<1>. QED  BY <1>1, <1>2 DEF Tally, Local, TypeOK, CacheTypeOK, EngineTypeOK, cacheVars

LEMMA NextCallType == ASSUME TypeOK, NEW t \in Task, NextCall(t) PROVE TypeOK'
<1>1. todo[t] \in Seq(Step) /\ todo[t] # <<>>
  BY DEF NextCall, TypeOK, EngineTypeOK
<1>2. Head(todo[t]) \in Step /\ Tail(todo[t]) \in Seq(Step)
  BY <1>1
<1>3. step' \in [Task -> Step]
  BY <1>2, GotoType DEF NextCall
<1>4. todo' \in [Task -> Seq(Step)]
  BY <1>2 DEF NextCall, TypeOK, EngineTypeOK
<1>5. Local'
  BY <1>3, <1>4, LocalNow DEF NextCall, Local
<1>. QED  BY <1>5, LocalType DEF NextCall

LEMMA NextIterationType == ASSUME TypeOK, NEW t \in Task, NextIteration(t) PROVE TypeOK'
<1>. DEFINE rest(s) == IF op[t] = "flush" THEN <<Do("tally", s.n)>> ELSE <<>>
<1>1. PICK s \in left[t] : /\ Goto(t, s)
                           /\ left' = [left EXCEPT ![t] = Remaining(@, s)]
                           /\ todo' = [todo EXCEPT ![t] = rest(s)]
  BY DEF NextIteration
<1>2. s \in Step /\ s.n \in Name
  BY DEF TypeOK, EngineTypeOK, Step
<1>3. step' \in [Task -> Step]
  BY <1>1, <1>2, GotoType
<1>4. left' \in [Task -> SUBSET Step]
  BY <1>1 DEF Remaining, TypeOK, EngineTypeOK
<1>5. Do("tally", s.n) \in Step
  BY <1>2, DoType DEF Label, Call, Carrier
<1>6. rest(s) \in Seq(Step)
  BY <1>5
<1>7. todo' \in [Task -> Seq(Step)]
  <2>. HIDE DEF rest
  <2>. QED  BY <1>1, <1>6 DEF TypeOK, EngineTypeOK
<1>8. Local'
  BY <1>3, <1>4, <1>7, LocalNow DEF NextIteration, Local
<1>. QED  BY <1>8, LocalType DEF NextIteration

LEMMA ReturnType == ASSUME TypeOK, NEW t \in Task, Return(t) PROVE TypeOK'
<1>1. step' \in [Task -> Step]
  BY NoStepType, GotoType DEF Return
<1>2. buf' \in [Task -> Tag] /\ len' \in [Task -> Nat]
  BY BufLenType DEF Return, Tag
<1>3. err' \in [Task -> BOOLEAN] /\ ok' \in [Task -> BOOLEAN]
  BY DEF Return, TypeOK, EngineTypeOK
<1>4. op' \in [Task -> OpName \cup {"none", "dead"}]
  BY DEF Return, TypeOK, EngineTypeOK
<1>. QED  BY <1>1, <1>2, <1>3, <1>4 DEF Return, TypeOK, CacheTypeOK, EngineTypeOK, cacheVars

LEMMA ProceedsType == ASSUME TypeOK, NEW t \in Task, Proceeds(t) PROVE TypeOK'
BY StatCacheType, StatHeadType, PutMetaType, InsertEntryType, ReadGetType, ReadBytesType,
   FetchType, FetchLookupType, ListReadType, TruncateDataType, FillDataType, WriteHeadType,
   DeleteGetType, FlushGetType, FlushDeleteType, DropsType, FlushHeadType, FlushReadType,
   SaveLostType, FlushWriteType, FlushTagType, FlushSidecarType, FlushCleanType,
   ExpireDataType, InvalidateType, TallyType, NextCallType, NextIterationType, ReturnType
   DEF Proceeds

-----------------------------------------------------------------------------
(* What happens around the tasks, and the theorem.                         *)

LEMMA SpendType ==
    ASSUME TypeOK, NEW h \in Hazard, Spend(h)
    PROVE  used' \in [Hazard -> Nat]
BY DEF Spend, TypeOK, EngineTypeOK

LEMMA BackendFailsType == ASSUME TypeOK, NEW t \in Task, BackendFails(t) PROVE TypeOK'
<1>1. step[t].n \in Name /\ buf[t] \in Tag
  BY StepParts, BufLenType
<1>2. store' \in [Name -> Tag] /\ pending' \in [Name -> Tag \cup {Gone}]
  BY <1>1 DEF BackendFails, TypeOK, EngineTypeOK, Tag
<1>3. used' \in [Hazard -> Nat]
  BY SpendType DEF BackendFails, Hazard
<1>4. Local'
  BY OnlyAbort DEF BackendFails
<1>. QED  BY <1>2, <1>3, <1>4 DEF BackendFails, Local, TypeOK, CacheTypeOK, EngineTypeOK, cacheVars

LEMMA RemoteType ==
    ASSUME TypeOK, NEW n \in Path, NEW c \in Data \cup {None}, Remote(n, c)
    PROVE  TypeOK'
<1>1. store' \in [Name -> Tag]
  BY DEF Remote, TypeOK, EngineTypeOK, Name, Tag, Content
<1>2. used' \in [Hazard -> Nat]
  BY SpendType DEF Remote, Hazard
<1>. QED  BY <1>1, <1>2 DEF Remote, TypeOK, CacheTypeOK, EngineTypeOK, cacheVars, taskVars

LEMMA AgeType == ASSUME TypeOK, Age PROVE TypeOK'
<1>1. ASSUME NEW m \in [Name -> Entry \cup {None}]
      PROVE  Aged(m) \in [Name -> Entry \cup {None}]
  BY DEF Aged, Entry
<1>2. CacheTypeOK'
  BY <1>1 DEF Age, TypeOK, CacheTypeOK
<1>. QED  BY <1>2 DEF Age, TypeOK, EngineTypeOK, taskVars

LEMMA CrashType == ASSUME TypeOK, Crash PROVE TypeOK'
<1>1. CacheTypeOK'
  BY DEF Crash, LoadIndex, TypeOK, CacheTypeOK
<1>2. step' \in [Task -> Step]
  BY NoStepType DEF Crash
<1>3. used' \in [Hazard -> Nat]
  BY SpendType DEF Crash, Hazard
<1>4. todo' \in [Task -> Seq(Step)]
  BY DEF Crash
<1>. QED  BY <1>1, <1>2, <1>3, <1>4 DEF Crash, TypeOK, EngineTypeOK, Tag

(* Every step of every task keeps the types of the index, the files, the   *)
(* objects and the tasks, whatever the constants are.                      *)
THEOREM TypeCorrect == Spec => []TypeOK
<1>1. Init => TypeOK
  BY InitType
<1>2. TypeOK /\ [Next]_vars => TypeOK'
  <2>. SUFFICES ASSUME TypeOK, [Next]_vars PROVE TypeOK'
    OBVIOUS
  <2>1. ASSUME NEW t \in Task, Begins(t) PROVE TypeOK'
    BY <2>1, BeginsType
  <2>2. ASSUME NEW t \in Task, Proceeds(t) PROVE TypeOK'
    BY <2>2, ProceedsType
  <2>3. ASSUME NEW t \in Task, BackendFails(t) PROVE TypeOK'
    BY <2>3, BackendFailsType
  <2>4. ASSUME NEW n \in Path, NEW c \in Data \cup {None}, Remote(n, c) PROVE TypeOK'
    BY <2>4, RemoteType
  <2>5. CASE Age
    BY <2>5, AgeType
  <2>6. CASE Crash
    BY <2>6, CrashType
  <2>7. CASE UNCHANGED vars
    BY <2>7 DEF vars, cacheVars, taskVars, TypeOK, CacheTypeOK, EngineTypeOK
  <2>. QED  BY <2>1, <2>2, <2>3, <2>4, <2>5, <2>6, <2>7 DEF Next
<1>. QED  BY <1>1, <1>2, PTL DEF Spec
=============================================================================
