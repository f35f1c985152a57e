---------------------------- MODULE CurrentProofs ---------------------------
(***************************************************************************)
(* An engine without a batch window, run by one task that is the only      *)
(* writer of the bucket, while the backend answers and nothing crashes:    *)
(* every mutation is exported before the call that made it returns, so     *)
(* that nothing acknowledged is lost, whatever listings, invalidations and *)
(* expirations come after it, and every read returns the last write.       *)
(***************************************************************************)
EXTENDS OnlyWriterProofs

Immediate == OneTask /\ BatchWindow = 0
Peace == used["crash"] = 0 /\ Own

-----------------------------------------------------------------------------
(* Nothing is left to export of a path; or what is left is what its entry  *)
(* and its data file say.                                                  *)
Settled(n) == pending[n] = None /\ Clean(entries[n])
Owed(n) ==
    \/ Settled(n)
    \/ pending[n] = Gone /\ entries[n] # None /\ entries[n].dirty /\ entries[n].deleted
    \/ pending[n] = data[n] /\ Writes(entries[n])

(* The export of this path comes next, or is on its way.                   *)
Exporting(s, q, n) ==
    \/ s.at = "done" /\ q # <<>> /\ q[1].at = "fpGet" /\ q[1].n = n
    \/ /\ s.n = n
       /\ \/ s.at \in {"fpGet", "fpDelete", "fpHead", "fpRead", "fpWrite"} \cup Exported
          \/ s.at \in {"drop"} \cup Putting /\ s.by = "cache"

(* The entry and the bytes a step brings.                                  *)
Brings(s) ==
    /\ s.at \in Storing \cup {"listRead"} /\ s.by \notin {"write", "delete"} => Clean(s.e)
    /\ s.at \in Storing /\ s.by = "write" => Writes(s.e) /\ s.c \in Data
    /\ s.at \in Putting /\ s.by = "write" => data[s.n] = s.c
    /\ s.at \in Storing /\ s.by = "delete" => s.e.dirty /\ s.e.deleted
    /\ s.at \in Storing \cup Removing => s.by # "conflict"

(* How far the export of a path has come.                                  *)
Exports(s, q) ==
    /\ s.at = "done" /\ q # <<>> /\ q[1].at = "fpGet" => Owed(q[1].n)
    /\ s.at = "fpGet" => Owed(s.n)
    /\ s.at = "fpDelete" => pending[s.n] = Gone
    /\ s.at \in {"fpHead", "fpRead", "fpWrite"} => pending[s.n] = data[s.n]
    /\ s.at \in Exported \cup {"drop"} => pending[s.n] = None
    /\ s.at \in Putting /\ s.by = "cache" => pending[s.n] = None

(* How far a read has come.                                                *)
Reads(name, s, q, b, er) ==
    /\ name = "none" => ~er
    /\ name = "read" =>
          /\ \A i \in DOMAIN q : i + 1 \in DOMAIN q \/ q[i].at = "readGet"
          /\ StatPhase(s) => q # <<>>
          /\ er => s.at = "done" /\ q = <<>> /\ store[s.n] = None
          /\ ~er /\ s.at = "done" /\ q = <<>> => b \in Data /\ b = store[s.n]

AllCurrent ==
    /\ \A n \in Name : Settled(n) \/ \E t \in Task : Exporting(step[t], todo[t], n)
    /\ \A t \in Task : /\ Brings(step[t]) /\ Exports(step[t], todo[t])
                       /\ Reads(op[t], step[t], todo[t], buf[t], err[t])

Sane == TypeOK /\ Controlled /\ IndexInv /\ Places /\ AllSound /\ Peace

LEMMA SaneNow ==
    ASSUME Sane, NEW t \in Task
    PROVE  /\ Sounding /\ TypeOK /\ Controlled /\ Own /\ Alone
           /\ Control(op[t], step[t], todo[t], left[t]) /\ Fits(op[t], step[t])
           /\ CarriesSound(step[t]) /\ ReadsSound(step[t], len[t])
           /\ ExportsSound(step[t], buf[t]) /\ LoopSound(left[t])
           /\ step[t].at = "writeHead" => buf[t] \in Data
           /\ step[t] \in Step /\ step[t].n \in Name /\ entries[step[t].n] \in Entry \cup {None}
           /\ step[t].at \in Carrier => step[t].e \in Entry
           /\ OnPath(op[t], step[t])
<1>1. Sounding
  BY DEF Sane, Peace, Own, Calm, Sounding
<1>2. TypeOK /\ StepSound(t) /\ Own /\ Alone
  BY <1>1, SoundNow DEF Sane, Peace, Own
<1>. QED  BY <1>1, <1>2, SoundNow, StepParts, Held DEF Control, StepSound

LEMMA CurrentNow ==
    ASSUME OneTask, AllCurrent, NEW t \in Task
    PROVE  /\ \A n \in Name : Exporting(step[t], todo[t], n) \/ Settled(n)
           /\ Brings(step[t]) /\ Exports(step[t], todo[t])
           /\ Reads(op[t], step[t], todo[t], buf[t], err[t])
BY DEF AllCurrent, OneTask

LEMMA CurrentFrom ==
    ASSUME OneTask, NEW t \in Task,
           (\A n \in Name : Exporting(step[t], todo[t], n) \/ Settled(n))',
           Brings(step[t])', Exports(step[t], todo[t])',
           Reads(op[t], step[t], todo[t], buf[t], err[t])'
    PROVE  AllCurrent'
<1>1. \A u \in Task : u = t
  BY DEF OneTask
<1>. QED  BY <1>1 DEF AllCurrent

(* Within a call only the path it exports has anything left to export.     *)
LEMMA OthersSettled ==
    ASSUME OneTask, AllCurrent, NEW t \in Task, step[t].at # "done"
    PROVE  \A n \in Name : n # step[t].n => Settled(n)
BY CurrentNow DEF Exporting

LEMMA AllSettled ==
    ASSUME OneTask, AllCurrent, NEW t \in Task,
           step[t].at = "done" =>
               todo[t] = <<>> \/ todo[t][1].at # "fpGet",
           step[t].at \notin {"fpGet", "fpDelete", "fpHead", "fpRead", "fpWrite"} \cup Exported,
           step[t].at \in {"drop"} \cup Putting => step[t].by # "cache"
    PROVE  \A n \in Name : Settled(n)
BY CurrentNow DEF Exporting

(* When everything is exported, only the entry the step brings matters.    *)
LEMMA SettledFrom ==
    ASSUME OneTask, Sane', NEW t \in Task, (\A n \in Name : Settled(n))',
           step'[t].at \notin {"fpDelete", "fpHead", "fpRead", "fpWrite"},
           Brings(step[t])', Reads(op[t], step[t], todo[t], buf[t], err[t])'
    PROVE  AllCurrent'
<1>1. step'[t].n \in Name /\ todo'[t] \in Seq(Step)
  BY DEF Sane, TypeOK, EngineTypeOK, Step
<1>2. todo'[t] # <<>> => todo'[t][1].n \in Name
  BY <1>1 DEF Step
<1>3. Exports(step[t], todo[t])'
  BY <1>1, <1>2 DEF Exports, Owed, Settled
<1>. QED  BY <1>3, CurrentFrom

(* How a read goes on, comes back and fails.                               *)
LEMMA ReadsOther ==
    ASSUME NEW t \in Task, op'[t] \notin {"none", "read"}
    PROVE  Reads(op[t], step[t], todo[t], buf[t], err[t])'
BY DEF Reads

LEMMA ReadsMoves ==
    ASSUME OneTask, AllCurrent, NEW t \in Task, UNCHANGED <<op, todo, err>>, step[t].at # "done",
           step'[t].at # "done", StatPhase(step[t])' => StatPhase(step[t])
    PROVE  Reads(op[t], step[t], todo[t], buf[t], err[t])'
BY CurrentNow DEF Reads

LEMMA ReadsDone ==
    ASSUME OneTask, AllCurrent, NEW t \in Task, UNCHANGED <<op, todo, err>>, step[t].at # "done",
           step'[t].at = "done",
           op[t] = "read" => \/ StatPhase(step[t])
                             \/ buf'[t] \in Data /\ buf'[t] = store'[step'[t].n]
    PROVE  Reads(op[t], step[t], todo[t], buf[t], err[t])'
<1>1. ~StatPhase(step[t])'
  BY DEF StatPhase, Putting
<1>. QED  BY <1>1, CurrentNow DEF Reads

LEMMA ReadsFail ==
    ASSUME Sane, NEW t \in Task, Abort(t), op' = op, step[t].at # "done",
           op[t] = "read" => store'[step[t].n] = None
    PROVE  Reads(op[t], step[t], todo[t], buf[t], err[t])'
<1>1. op[t] # "none" /\ TypeOK
  BY SaneNow DEF Control
<1>2. step'[t].at = "done" /\ step'[t].n = step[t].n /\ todo'[t] = <<>> /\ err'[t] = TRUE
  BY <1>1, EndsDone DEF Abort, TypeOK, EngineTypeOK
<1>3. ~StatPhase(step[t])'
  BY <1>2 DEF StatPhase, Putting
<1>. QED  BY <1>1, <1>2, <1>3 DEF Reads

-----------------------------------------------------------------------------
(* What a read is answered with, once everything is exported: the object.  *)
LEMMA Served ==
    ASSUME Sane, NEW t \in Task, NEW n \in Path, n = step[t].n, step[t].at \notin AtWork,
           Settled(n), Known(entries[n]), OneTask
    PROVE  /\ entries[n] \in Entry /\ store[n] \in Data /\ entries[n].size = Size[store[n]]
           /\ entries[n].size > 0 /\ entries[n].size \in Nat
           /\ Serves(entries[n]) => data[n] = store[n]
<1>1. Sounding /\ Alone /\ entries[n] \in Entry \cup {None}
  BY SaneNow
<1>2. n \in Name
  BY NameParts
<1>3. TrueOf(n, entries[n], data[n]) /\ entries[n] \in Entry
  BY <1>1, <1>2, NamesNow DEF Sound, Known
<1>4. ~entries[n].dirty /\ entries[n].size \in Nat
  BY <1>3 DEF Settled, Clean, Known, Entry
<1>5. store[n] \in Data /\ entries[n].size = Size[store[n]]
  BY <1>1, <1>3, <1>4 DEF TrueOf
<1>6. Serves(entries[n]) => data[n] = store[n]
  BY <1>1, <1>3, <1>4 DEF TrueOf, Serves
<1>7. entries[n].size > 0
  BY <1>5, CacheAssumption
<1>. QED  BY <1>3, <1>4, <1>5, <1>6, <1>7

LEMMA ReadingCurrent ==
    ASSUME OneTask, Sane, Sane', AllCurrent, NEW t \in Task,
           \/ StatCache(t) \/ StatHead(t) \/ ReadGet(t) \/ ReadBytes(t)
           \/ Fetch(t) \/ FetchLookup(t) \/ ListRead(t)
    PROVE  AllCurrent'
<1>. DEFINE s == step[t]  n == step[t].n  e == entries[n]
<1>1. s.at \in {"stat", "statHead", "readGet", "cacheRead", "direct", "fetch", "lookup", "listRead"}
  BY DEF StatCache, StatHead, ReadGet, ReadBytes, Fetch, FetchLookup, ListRead, At
<1>2. /\ Sounding /\ TypeOK /\ Controlled /\ Own /\ Alone /\ Fits(op[t], s) /\ ReadsSound(s, len[t])
      /\ n \in Name /\ e \in Entry \cup {None} /\ Brings(s)
      /\ UNCHANGED <<cacheVars, store, used, op, pending>>
  BY SaneNow, CurrentNow
     DEF StatCache, StatHead, ReadGet, ReadBytes, Fetch, FetchLookup, ListRead, outer
<1>3. n \in Path /\ s.at \notin AtWork
  BY <1>1, <1>2, ReadsOnPath DEF Putting, Removing, AtWork
<1>4. \A m \in Name : Settled(m)
  BY <1>1, AllSettled DEF Exported, Putting
<1>5. (\A m \in Name : Settled(m))'
  BY <1>2, <1>4 DEF Settled, Clean, cacheVars
<1>6. Known(e) => /\ e \in Entry /\ store[n] \in Data /\ e.size = Size[store[n]]
                  /\ e.size > 0 /\ e.size \in Nat
                  /\ Serves(e) => data[n] = store[n]
  BY <1>2, <1>3, <1>4, Served
<1>7. ASSUME Done(t), UNCHANGED same,
             op[t] = "read" => StatPhase(s) \/ (buf'[t] \in Data /\ buf'[t] = store[n])
      PROVE  AllCurrent'
  <2>1. step'[t].at = "done" /\ step'[t].n = n
    BY <1>2, <1>7, EndsDone
  <2>2. Reads(op[t], step[t], todo[t], buf[t], err[t])'
    BY <1>1, <1>2, <1>7, <2>1, ReadsDone DEF same
  <2>3. Brings(step[t])'
    BY <2>1 DEF Brings, Storing, Putting, Removing
  <2>. QED  BY <1>5, <2>1, <2>2, <2>3, SettledFrom
<1>8. ASSUME Abort(t), op[t] = "read" => store[n] = None PROVE AllCurrent'
  <2>1. step'[t].at = "done"
    BY <1>2, <1>8, EndsDone
  <2>2. Reads(op[t], step[t], todo[t], buf[t], err[t])'
    BY <1>1, <1>2, <1>8, ReadsFail
  <2>3. Brings(step[t])'
    BY <2>1 DEF Brings, Storing, Putting, Removing
  <2>. QED  BY <1>5, <2>1, <2>2, <2>3, SettledFrom
<1>9. ASSUME NEW s2, Goto(t, s2), UNCHANGED same, 
             s2.at \in {"statHead", "put", "trunc", "direct", "fetch", "lookup"},
             s2.at \in {"put", "trunc"} => Clean(s2.e) /\ s2.by \notin {"write", "delete", "conflict"},
             StatPhase(s2) => StatPhase(s)
      PROVE  AllCurrent'
  <2>1. step'[t] = s2
    BY <1>2, <1>9, Goes
  <2>2. StatPhase(step[t])' => StatPhase(s)
    BY <1>9, <2>1 DEF StatPhase
  <2>3. Reads(op[t], step[t], todo[t], buf[t], err[t])'
    BY <1>1, <1>2, <1>9, <2>1, <2>2, ReadsMoves DEF same
  <2>4. Brings(step[t])'
    BY <1>9, <2>1 DEF Brings, Storing, Putting, Removing, Clean
  <2>. QED  BY <1>5, <1>9, <2>1, <2>3, <2>4, SettledFrom
<1>. HIDE DEF e
<1>10. CASE StatCache(t)
  <2>1. s.at = "stat" /\ UNCHANGED same
    BY <1>10 DEF StatCache, At
  <2>2. Done(t) => AllCurrent'
    BY <1>7, <2>1 DEF StatPhase
  <2>3. Goto(t, Do("statHead", n)) => AllCurrent'
    <3>1. Do("statHead", n).at = "statHead" /\ StatPhase(s)
      BY <2>1, DoParts DEF StatPhase
    <3>. QED  BY <1>9, <2>1, <3>1
  <2>. QED  BY <1>10, <2>2, <2>3 DEF StatCache
<1>11. CASE StatHead(t)
  <2>. DEFINE c == store[n]  s2 == Put(n, Import(c), None, "stat")
  <2>1. s.at = "statHead" /\ StatPhase(s)
    BY <1>11 DEF StatHead, At, StatPhase
  <2>2. (c = None /\ Abort(t)) \/ (Goto(t, s2) /\ UNCHANGED same)
    BY <1>11 DEF StatHead
  <2>3. s2.at = "put" /\ s2.e = Import(c) /\ s2.by = "stat"
    BY MkParts DEF Put
  <2>4. Clean(Import(c))
    BY DEF Clean, Import, FromPosix
  <2>. HIDE DEF s2
  <2>. QED  BY <1>8, <1>9, <2>1, <2>2, <2>3, <2>4
<1>12. CASE ReadGet(t)
  <2>. DEFINE s2 == Put(n, Touched(e), None, "touch")
              s3 == Do(IF ReadsDirectly(len[t]) THEN "direct" ELSE "fetch", n)
  <2>1. s.at = "readGet" /\ UNCHANGED same
    BY <1>12 DEF ReadGet, At
  <2>2. Known(e) /\ len[t] = e.size
    BY <1>2, <2>1 DEF ReadsSound, Sized, e
  <2>3. len[t] # 0 /\ e \in Entry /\ ~e.dirty
    BY <1>2, <1>4, <1>6, <2>2 DEF Settled, Clean, Known, e
  <2>4. Goto(t, s2) \/ Goto(t, s3)
    BY <1>12, <2>3 DEF ReadGet, e
  <2>5. s2.at = "put" /\ s2.e = Touched(e) /\ s2.by = "touch"
    BY MkParts DEF Put
  <2>6. s3.at \in {"direct", "fetch"}
    BY DoParts
  <2>7. Clean(Touched(e))
    BY <2>3 DEF Clean, Touched, Entry
  <2>. HIDE DEF s2, s3
  <2>. QED  BY <1>9, <2>1, <2>4, <2>5, <2>6, <2>7 DEF StatPhase, Putting
<1>13. CASE ReadBytes(t)
  <2>. DEFINE c == IF At(t, "direct") THEN store[n] ELSE data[n]
  <2>1. s.at \in {"cacheRead", "direct"}
    BY <1>13 DEF ReadBytes
  <2>2. \/ Load(t, Cut(c, len[t])) /\ Done(t) /\ UNCHANGED same
        \/ c = None /\ Abort(t)
    BY <1>13 DEF ReadBytes
  <2>3. Known(e) /\ len[t] = e.size /\ (s.at = "cacheRead" => Serves(e))
    BY <1>2, <2>1 DEF ReadsSound, Sized, e
  <2>4. c = store[n] /\ c \in Data /\ len[t] = Size[c] /\ len[t] \in Nat
    BY <1>6, <2>1, <2>3 DEF At
  <2>. HIDE DEF c
  <2>5. c # None
    BY <2>4, CacheAssumption DEF Content
  <2>6. Load(t, Cut(c, len[t])) => buf'[t] = c
    <3>1. Load(t, Cut(c, len[t])) => buf'[t] = Cut(c, len[t])
      BY <1>2 DEF Load, TypeOK, EngineTypeOK
    <3>. QED  BY <2>4, <3>1, FullCut
  <2>. QED  BY <1>7, <2>2, <2>4, <2>5, <2>6
<1>14. CASE Fetch(t)
  <2>. DEFINE c == store[n]  s2 == Mk("lookup", n, None, c, "fetch")
  <2>1. s.at = "fetch"
    BY <1>14 DEF Fetch, At
  <2>2. (c = None /\ Abort(t)) \/ (Goto(t, s2) /\ UNCHANGED same)
    BY <1>14 DEF Fetch
  <2>3. s2.at = "lookup"
    BY MkParts
  <2>. HIDE DEF s2
  <2>. QED  BY <1>8, <1>9, <2>2, <2>3 DEF StatPhase, Putting
<1>15. CASE FetchLookup(t)
  <2>. DEFINE s2 == Fetched(n, Filled(e), s.c, "fetch")
  <2>1. s.at = "lookup"
    BY <1>15 DEF FetchLookup, At
  <2>2. (e = None /\ Abort(t)) \/ (Goto(t, s2) /\ UNCHANGED same)
    BY <1>15 DEF FetchLookup, e
  <2>3. s2.at = "trunc" /\ s2.e = Filled(e) /\ s2.by = "fetch"
    BY MkParts DEF Fetched
  <2>4. e # None /\ e \in Entry /\ ~e.dirty
    BY <1>2, <1>4, <2>1 DEF ReadsSound, Sized, Known, Settled, Clean, e
  <2>5. Clean(Filled(e))
    BY <2>4 DEF Clean, Filled, Entry
  <2>. HIDE DEF s2
  <2>. QED  BY <1>9, <2>2, <2>3, <2>4, <2>5 DEF StatPhase, Putting
<1>16. CASE ListRead(t)
  <2>. DEFINE c == store[n]  s2 == Fetched(n, Filled(s.e), c, "cache")
  <2>1. s.at = "listRead" /\ s.e \in Entry
    BY <1>16, SaneNow DEF ListRead, At, Carrier
  <2>2. op[t] # "read" /\ s.by = "list"
    BY <1>2, <2>1 DEF Fits, StatPhase, ReadPhase, WritePhase, DeletePhase, ExportPhase, ListPhase,
                      ExpirePhase, DropPhase, Removing, Putting, Storing
  <2>3. Abort(t) \/ (Goto(t, s2) /\ UNCHANGED same)
    BY <1>16 DEF ListRead
  <2>4. s2.at = "trunc" /\ s2.e = Filled(s.e) /\ s2.by = "cache"
    BY MkParts DEF Fetched
  <2>5. ~s.e.dirty
    BY <1>2, <2>1, <2>2, CacheAssumption DEF Brings, Clean
  <2>6. Clean(Filled(s.e))
    BY <2>1, <2>5 DEF Clean, Filled, Entry
  <2>. HIDE DEF s2
  <2>. QED  BY <1>8, <1>9, <2>2, <2>3, <2>4, <2>6 DEF StatPhase, Putting
<1>. QED  BY <1>10, <1>11, <1>12, <1>13, <1>14, <1>15, <1>16

-----------------------------------------------------------------------------
(* Writes, deletes and expirations.                                        *)
LEMMA StoringCurrent ==
    ASSUME OneTask, Sane, Sane', AllCurrent, NEW t \in Task,
           \/ WriteHead(t) \/ DeleteGet(t) \/ TruncateData(t) \/ FillData(t) \/ ExpireData(t)
    PROVE  AllCurrent'
<1>. DEFINE s == step[t]  n == step[t].n  e == entries[n]
<1>1. s.at \in {"writeHead", "delGet", "trunc", "fill", "expire"}
  BY DEF WriteHead, DeleteGet, TruncateData, FillData, ExpireData, At
<1>2. /\ TypeOK /\ CarriesSound(s) /\ n \in Name /\ e \in Entry \cup {None} /\ Brings(s) /\ s \in Step
      /\ Fits(op[t], s)
      /\ UNCHANGED <<entries, store, used, op, todo, left, err>>
  BY SaneNow, CurrentNow
     DEF WriteHead, DeleteGet, TruncateData, FillData, ExpireData, outer, same, cacheVars
<1>3. \A m \in Name : Settled(m)
  BY <1>1, AllSettled DEF Exported, Putting
<1>4. pending' \in {pending, [pending EXCEPT ![n] = None]}
  BY DEF WriteHead, DeleteGet, TruncateData, FillData, ExpireData
<1>5. \A m \in Name : pending'[m] = None
  BY <1>2, <1>3, <1>4 DEF Settled, TypeOK, EngineTypeOK
<1>6. (\A m \in Name : Settled(m))'
  BY <1>2, <1>3, <1>5 DEF Settled, Clean
<1>7. ASSUME step'[t].at \in {"trunc", "fill", "put"}, step'[t].by # "stat", Brings(step[t])'
      PROVE  AllCurrent'
  <2>1. Reads(op[t], step[t], todo[t], buf[t], err[t])'
    BY <1>1, <1>2, <1>7, ReadsMoves DEF StatPhase, Putting
  <2>. QED  BY <1>6, <1>7, <2>1, SettledFrom
<1>8. CASE WriteHead(t)
  <2>. DEFINE w == Written(store[n], buf[t])
  <2>1. buf[t] \in Data /\ store[n] \in Tag
    BY <1>2, <1>8, SaneNow, Held DEF WriteHead, At
  <2>2. w.dirty /\ ~w.deleted /\ w # None
    <3>1. w \in Entry
      BY <2>1, MadeType DEF Tag, Content
    <3>. QED  BY <3>1, CacheAssumption DEF Written, FromPosix
  <2>. HIDE DEF w
  <2>3. /\ step'[t].at = "trunc" /\ step'[t].e = w /\ step'[t].c = buf[t]
        /\ step'[t].by = "write"
    BY <1>2, <1>8, Goes, MkParts DEF WriteHead, Fetched, w
  <2>4. Brings(step[t])'
    BY <2>1, <2>2, <2>3 DEF Brings, Storing, Putting, Removing, Writes
  <2>. QED  BY <1>7, <2>3, <2>4
<1>9. CASE DeleteGet(t)
  <2>. DEFINE w == Tombstone(e)
  <2>1. w.dirty /\ w.deleted
    <3>1. w = [(IF e = None THEN FromPosix(None, 0) ELSE e) EXCEPT !.deleted = TRUE, !.dirty = TRUE]
      BY DEF Tombstone
    <3>2. FromPosix(None, 0) \in Entry
      BY DEF FromPosix, Entry, Tag
    <3>3. (IF e = None THEN FromPosix(None, 0) ELSE e) \in Entry
      BY <1>2, <3>2
    <3>. QED  BY <3>1, <3>3 DEF Entry
  <2>. HIDE DEF w
  <2>2. step'[t].at = "put" /\ step'[t].e = w /\ step'[t].by = "delete"
    BY <1>2, <1>9, Goes, MkParts DEF DeleteGet, Put, w
  <2>3. Brings(step[t])'
    BY <2>1, <2>2 DEF Brings, Storing, Putting, Removing
  <2>. QED  BY <1>7, <2>2, <2>3
<1>10. CASE TruncateData(t) \/ FillData(t)
  <2>1. s.at \in {"trunc", "fill"} /\ s.c \in Data
    BY <1>2, <1>10 DEF TruncateData, FillData, At, CarriesSound
  <2>2. /\ step'[t].at = (IF s.at = "trunc" THEN "fill" ELSE "put") /\ step'[t].n = n
        /\ step'[t].e = s.e /\ step'[t].c = s.c /\ step'[t].by = s.by
    BY <1>2, <1>10, Goes, OnwardParts DEF TruncateData, FillData, At
  <2>3. s.by # "stat"
    BY <1>2, <2>1 DEF Fits, StatPhase, ReadPhase, WritePhase, DeletePhase, ExportPhase, ListPhase,
                      ExpirePhase, DropPhase, Removing, Putting, Storing
  <2>4. s.at = "fill" => data'[n] = s.c
    <3>1. s.at = "fill" => data'[n] = Overlay(data[n], s.c) /\ data[n] = Torn
      BY <1>2, <1>10 DEF FillData, TruncateData, At, Fill, TypeOK, CacheTypeOK, CarriesSound
    <3>2. Overlay(Torn, s.c) = s.c
      <4>1. Torn # None /\ Size[Torn] = 0 /\ Size[s.c] > 0
        BY <2>1, CacheAssumption DEF Content
      <4>2. ~(Size[Torn] > Size[s.c])
        BY <2>1, <4>1, SizeType DEF Tag, Content
      <4>. QED  BY <4>1, <4>2 DEF Overlay
    <3>. QED  BY <3>1, <3>2
  <2>5. Brings(step[t])'
    BY <1>2, <2>1, <2>2, <2>4 DEF Brings, Storing, Putting, Removing, Writes, Clean
  <2>. QED  BY <1>7, <2>1, <2>2, <2>3, <2>5
<1>11. CASE ExpireData(t)
  <2>1. s.at = "expire" /\ s.e \in Entry /\ Clean(s.e)
    BY <1>2, <1>11, SaneNow DEF ExpireData, At, Carrier, OnPath
  <2>2. Clean(Emptied(s.e))
    BY <2>1, CacheAssumption DEF Clean, Emptied, Entry
  <2>3. step'[t].at = "put" /\ step'[t].e = Emptied(s.e) /\ step'[t].by = "cache"
    BY <1>2, <1>11, Goes, MkParts DEF ExpireData, Put
  <2>4. Brings(step[t])'
    BY <2>2, <2>3 DEF Brings, Storing, Putting, Removing, Clean
  <2>. QED  BY <1>7, <2>3, <2>4
<1>. QED  BY <1>8, <1>9, <1>10, <1>11

LEMMA PuttingCurrent ==
    ASSUME OneTask, Sane, Sane', AllCurrent, NEW t \in Task, PutMeta(t)
    PROVE  AllCurrent'
<1>. DEFINE s == step[t]  n == step[t].n
<1>1. /\ TypeOK /\ s.at = "put" /\ s \in Step
      /\ UNCHANGED <<entries, data, store, op, todo, buf, err, pending>>
      /\ Brings(s) /\ Exports(s, todo[t])
      /\ \A m \in Name : Exporting(s, todo[t], m) \/ Settled(m)
  BY SaneNow, CurrentNow DEF PutMeta, At, outer, same
<1>2. /\ step'[t].at = "insert" /\ step'[t].n = n /\ step'[t].e = s.e
      /\ step'[t].c = s.c /\ step'[t].by = s.by
  BY <1>1, Goes, OnwardParts DEF PutMeta
<1>3. (\A m \in Name : Exporting(step[t], todo[t], m) \/ Settled(m))'
  BY <1>1, <1>2 DEF Exporting, Settled, Clean, Putting, Exported
<1>4. Brings(step[t])'
  BY <1>1, <1>2 DEF Brings, Storing, Putting, Removing, Writes, Clean
<1>5. Exports(step[t], todo[t])'
  BY <1>1, <1>2 DEF Exports, Putting, Exported
<1>6. Reads(op[t], step[t], todo[t], buf[t], err[t])'
  BY <1>1, <1>2, ReadsMoves DEF StatPhase, Putting
<1>. QED  BY <1>3, <1>4, <1>5, <1>6, CurrentFrom

(* A mutation is in the index: its export comes next.                      *)
LEMMA InsertCurrent ==
    ASSUME OneTask, BatchWindow = 0, Sane, Sane', AllCurrent, NEW t \in Task, InsertEntry(t)
    PROVE  AllCurrent'
<1>. DEFINE s == step[t]  n == step[t].n
<1>1. /\ TypeOK /\ Controlled /\ Own /\ Alone /\ s \in Step /\ n \in Name /\ s.at = "insert"
      /\ s.e \in Entry /\ s.by # "conflict"
      /\ CarriesSound(s) /\ ReadsSound(s, len[t]) /\ Fits(op[t], s) /\ Brings(s)
      /\ Exports(s, todo[t]) /\ OnPath(op[t], s) /\ Control(op[t], s, todo[t], left[t])
      /\ UNCHANGED <<data, store, used, op>>
      /\ AfterInsert(t, s)
  BY SaneNow, CurrentNow DEF InsertEntry, At, outer, Carrier, Brings, Storing
<1>2. entries'[n] = s.e /\ \A m \in Name \ {n} : entries'[m] = entries[m]
  BY <1>1 DEF InsertEntry, Insert, TypeOK, CacheTypeOK
<1>3. /\ \A m \in Name \ {n} : pending'[m] = pending[m]
      /\ s.by = "write" => pending'[n] = s.c
      /\ s.by = "delete" => pending'[n] = Gone
      /\ s.by \notin {"write", "delete"} => pending' = pending
  BY <1>1 DEF InsertEntry, TypeOK, EngineTypeOK
<1>4. \A m \in Name : m # n => Settled(m)' /\ Settled(m)
  BY <1>1, <1>2, <1>3, OthersSettled DEF Settled, Clean
<1>5. CASE s.by \in {"write", "delete"}
  <2>1. Done(t) /\ UNCHANGED <<same, buf>>
    BY <1>1, <1>5 DEF AfterInsert
  <2>2. step'[t].at = "done" /\ step'[t].n = n
    BY <1>1, <2>1, EndsDone
  <2>3. todo'[t] # <<>> /\ todo'[t][1].at = "fpGet" /\ todo'[t][1].n = n
    <3>1. Owes(s)
      BY <1>1, <1>5 DEF Owes, WritePhase, DeletePhase, Storing
    <3>. QED  BY <1>1, <2>1, <3>1, DoParts DEF Control, Before, same
  <2>4. (\A m \in Name : Exporting(step[t], todo[t], m) \/ Settled(m))'
    BY <1>4, <2>2, <2>3 DEF Exporting
  <2>5. Owed(todo[t][1].n)'
    <3>1. CASE s.by = "write"
      BY <1>1, <1>2, <1>3, <2>3, <3>1 DEF Brings, Owed, Storing, Putting, Writes
    <3>2. CASE s.by = "delete"
      BY <1>1, <1>2, <1>3, <2>3, <3>2, CacheAssumption DEF Brings, Owed, Storing
    <3>. QED  BY <1>5, <3>1, <3>2
  <2>6. Brings(step[t])' /\ Exports(step[t], todo[t])'
    BY <2>2, <2>5 DEF Brings, Exports, Storing, Putting, Removing, Exported
  <2>7. op[t] # "read"
    BY <1>1, <1>5 DEF Fits, StatPhase, ReadPhase, WritePhase, DeletePhase, ExportPhase, ListPhase,
                      ExpirePhase, DropPhase, Removing, Putting, Storing
  <2>8. Reads(op[t], step[t], todo[t], buf[t], err[t])'
    BY <1>1, <2>1, <2>2, <2>7, ReadsDone DEF same
  <2>. QED  BY <2>4, <2>6, <2>8, CurrentFrom
<1>6. CASE s.by \notin {"write", "delete"}
  <2>1. pending[n] = None
    <3>1. CASE s.by = "cache"
      BY <1>1, <3>1 DEF Exports, Putting
    <3>2. CASE s.by # "cache"
      BY <1>1, <3>2, AllSettled DEF Exported, Putting, Settled
    <3>. QED  BY <3>1, <3>2
  <2>2. Clean(s.e)
    BY <1>1, <1>6 DEF Brings, Storing
  <2>3. (\A m \in Name : Settled(m))'
    BY <1>2, <1>3, <1>4, <1>6, <2>1, <2>2 DEF Settled, Clean
  <2>4. CASE s.by \in {"cache", "stat"} \/ (s.by = "list" /\ Done(t))
    <3>1. Done(t) /\ UNCHANGED <<same, buf>>
      BY <1>1, <2>4 DEF AfterInsert
    <3>2. step'[t].at = "done" /\ step'[t].n = n
      BY <1>1, <3>1, EndsDone
    <3>3. op[t] = "read" => StatPhase(s)
      BY <1>1, <2>4 DEF Fits, StatPhase, ReadPhase, WritePhase, DeletePhase, ExportPhase, ListPhase,
                        ExpirePhase, DropPhase, Removing, Putting, Storing
    <3>4. Reads(op[t], step[t], todo[t], buf[t], err[t])'
      BY <1>1, <3>1, <3>2, <3>3, ReadsDone DEF same
    <3>5. Brings(step[t])'
      BY <3>2 DEF Brings, Storing, Putting, Removing
    <3>. QED  BY <2>3, <3>2, <3>4, <3>5, SettledFrom
  <2>5. CASE s.by = "touch" \/ (s.by = "list" /\ Goto(t, Onward(s, "listRead")))
    <3>1. UNCHANGED <<same, buf>>
      BY <1>1, <2>5 DEF AfterInsert
    <3>2. \/ step'[t].at = "cacheRead"
          \/ step'[t].at = "listRead" /\ step'[t].e = s.e /\ step'[t].by = "list"
      BY <1>1, <2>5, Goes, DoParts, OnwardParts DEF AfterInsert
    <3>3. Reads(op[t], step[t], todo[t], buf[t], err[t])'
      BY <1>1, <3>1, <3>2, ReadsMoves DEF same, StatPhase, Putting
    <3>4. Brings(step[t])'
      BY <2>2, <3>2 DEF Brings, Storing, Putting, Removing, Clean
    <3>. QED  BY <2>3, <3>2, <3>3, <3>4, SettledFrom
  <2>6. CASE s.by = "fetch"
    <3>1. /\ s.c \in Data /\ ~s.e.dirty /\ s.c = store[n] /\ Known(s.e) /\ len[t] = s.e.size
          /\ Sound(n, s.e, data[n])
      BY <1>1, <2>6 DEF CarriesSound, ReadsSound, Storing
    <3>2. n \in Path
      <4>1. op[t] # "expire"
        BY <1>1, <2>6 DEF Fits, StatPhase, ReadPhase, WritePhase, DeletePhase, ExportPhase,
                          ListPhase, ExpirePhase, DropPhase, Removing, Putting, Storing
      <4>. QED  BY <1>1, <4>1 DEF OnPath, Removing
    <3>3. len[t] = Size[s.c] /\ len[t] \in Nat
      BY <1>1, <3>1, <3>2 DEF Sound, TrueOf, Known, Entry
    <3>4. len[t] <= Size[s.c] /\ ~(len[t] > Size[s.c])
      BY <3>3
    <3>5. Load(t, Cut(s.c, len[t])) /\ Done(t) /\ UNCHANGED same
      BY <1>1, <2>6, <3>4 DEF AfterInsert
    <3>6. buf'[t] = s.c
      BY <1>1, <3>3, <3>5, FullCut DEF Load, TypeOK, EngineTypeOK
    <3>7. step'[t].at = "done" /\ step'[t].n = n
      BY <1>1, <3>5, EndsDone
    <3>8. Reads(op[t], step[t], todo[t], buf[t], err[t])'
      BY <1>1, <3>1, <3>5, <3>6, <3>7, ReadsDone DEF same
    <3>9. Brings(step[t])'
      BY <3>7 DEF Brings, Storing, Putting, Removing
    <3>. QED  BY <2>3, <3>7, <3>8, <3>9, SettledFrom
  <2>. QED  BY <1>1, <1>6, <2>4, <2>5, <2>6 DEF AfterInsert
<1>. QED  BY <1>5, <1>6

-----------------------------------------------------------------------------
(* The export: what was pending is given up, step by step.                 *)
LEMMA ExportCurrent ==
    ASSUME OneTask, Sane, Sane', AllCurrent, NEW t \in Task,
           \/ FlushGet(t) \/ FlushDelete(t) \/ FlushHead(t) \/ FlushRead(t) \/ SaveLost(t)
           \/ FlushWrite(t) \/ FlushTag(t) \/ FlushSidecar(t) \/ FlushClean(t) \/ Tally(t)
    PROVE  AllCurrent'
<1>. DEFINE s == step[t]  n == step[t].n  e == entries[n]
<1>1. s.at \in {"fpGet", "fpDelete", "fpHead", "fpRead", "lfRead", "lfSave", "fpWrite", "fpTag",
                "fpSide", "fpClean", "tally"}
  BY DEF FlushGet, FlushDelete, FlushHead, FlushRead, SaveLost, FlushWrite, FlushTag, FlushSidecar,
         FlushClean, Tally, At
<1>2. /\ Sounding /\ TypeOK /\ Controlled /\ Own /\ s \in Step /\ n \in Name /\ e \in Entry \cup {None}
      /\ ExportsSound(s, buf[t]) /\ Exports(s, todo[t]) /\ Fits(op[t], s)
      /\ s.at \notin {"lfRead", "lfSave"}
  BY SaneNow, CurrentNow DEF ExportsSound
<1>3. ~SaveLost(t) /\ UNCHANGED <<cacheVars, op>>
  BY <1>2 DEF FlushGet, FlushDelete, FlushHead, FlushRead, SaveLost, FlushWrite, FlushTag,
              FlushSidecar, FlushClean, Tally, outer, At
<1>4. Reads(op[t], step[t], todo[t], buf[t], err[t])'
  <2>1. op[t] \notin {"none", "read"}
    BY <1>1, <1>2, SaneNow DEF Control, Fits, StatPhase, ReadPhase, WritePhase, DeletePhase,
       ExportPhase, ListPhase, ExpirePhase, DropPhase, Removing, Putting, Storing
  <2>. QED  BY <1>3, <2>1, ReadsOther
<1>5. \A m \in Name : m # n => Settled(m)
  BY <1>1, OthersSettled
<1>6. Sound(n, e, data[n])
  BY <1>1, <1>2, NamesNow DEF AtWork
<1>7. \A m \in Name \ {n} : pending'[m] = pending[m]
  BY <1>2, <1>3 DEF FlushGet, FlushDelete, FlushHead, FlushRead, FlushWrite, FlushTag,
     FlushSidecar, FlushClean, Tally, TypeOK, EngineTypeOK
<1>8. \A m \in Name : m # n => pending'[m] = None /\ Clean(entries'[m])
  BY <1>3, <1>5, <1>7 DEF Settled, cacheVars
(* The path that is exported stays the one with something left.            *)
<1>9. ASSUME step'[t].n = n,
             step'[t].at \in {"fpDelete", "fpHead", "fpRead", "fpWrite"} \cup Exported
                \/ (step'[t].at \in {"drop", "put"} /\ step'[t].by = "cache"),
             Exports(step[t], todo[t])', step'[t].at = "put" => Clean(step'[t].e)
      PROVE  AllCurrent'
  <2>1. \A m \in Name : m # step'[t].n => pending'[m] = None /\ Clean(entries'[m])
    BY <1>8, <1>9
  <2>2. (\A m \in Name : m # step[t].n => Settled(m))'
    BY <2>1 DEF Settled, Clean
  <2>3. (\A m \in Name : Exporting(step[t], todo[t], m) \/ Settled(m))'
    BY <1>9, <2>2 DEF Exporting, Putting
  <2>4. Brings(step[t])'
    BY <1>9 DEF Brings, Storing, Putting, Removing, Exported, Clean
  <2>. QED  BY <1>4, <1>9, <2>3, <2>4, CurrentFrom
(* It ends, with nothing left.                                             *)
<1>10. ASSUME step'[t].at = "done", pending'[n] = None, Clean(entries[n]) PROVE AllCurrent'
  <2>1. Brings(step[t])'
    BY <1>10 DEF Brings, Storing, Putting, Removing
  <2>2. \A m \in Name : pending'[m] = None /\ Clean(entries'[m])
    BY <1>3, <1>8, <1>10 DEF cacheVars
  <2>3. (\A m \in Name : Settled(m))'
    BY <2>2 DEF Settled, Clean
  <2>. QED  BY <1>4, <1>10, <2>1, <2>3, SettledFrom
<1>11. CASE FlushGet(t)
  <2>1. s.at = "fpGet" /\ Owed(n) /\ pending' = pending
    BY <1>2, <1>11 DEF FlushGet, At, Exports
  <2>2. CASE n \notin DirtyNames
    <3>1. Done(t)
      BY <1>11, <2>2 DEF FlushGet
    <3>2. Clean(e)
      BY <1>2, <2>2 DEF DirtyNames, Clean
    <3>3. Settled(n)
      BY <2>1, <3>2 DEF Owed, Clean, Writes
    <3>. QED  BY <1>2, <1>10, <2>1, <3>1, <3>3, EndsDone DEF Settled
  <2>3. CASE n \in DirtyNames
    <3>. DEFINE l == IF e.deleted THEN "fpDelete" ELSE "fpHead"
    <3>1. Goto(t, Mk(l, n, e, None, "cache"))
      BY <1>11, <2>3 DEF FlushGet
    <3>2. step'[t].at = l /\ step'[t].n = n
      BY <1>2, <3>1, Goes, MkParts
    <3>3. e # None /\ e.dirty
      BY <2>3 DEF DirtyNames
    <3>4. (e.deleted => pending[n] = Gone) /\ (~e.deleted => pending[n] = data[n])
      BY <2>1, <3>3 DEF Owed, Settled, Clean, Writes
    <3>5. Exports(step[t], todo[t])'
      BY <1>3, <2>1, <3>2, <3>4 DEF Exports, cacheVars, Exported, Putting
    <3>. QED  BY <1>9, <3>2, <3>5
  <2>. QED  BY <2>2, <2>3
<1>12. CASE FlushDelete(t)
  <2>1. s.at = "fpDelete" /\ pending[n] = Gone
    BY <1>2, <1>12 DEF FlushDelete, At, Exports
  <2>2. pending'[n] = None
    BY <1>2, <1>12, <2>1 DEF FlushDelete, TypeOK, EngineTypeOK
  <2>3. step'[t].at = "drop" /\ step'[t].n = n /\ step'[t].by = "cache"
    BY <1>2, <1>12, Goes, DoParts DEF FlushDelete
  <2>4. Exports(step[t], todo[t])'
    BY <2>2, <2>3 DEF Exports, Exported, Putting
  <2>. QED  BY <1>9, <2>3, <2>4
<1>13. CASE FlushHead(t)
  <2>1. s.at = "fpHead" /\ pending[n] = data[n] /\ UNCHANGED pending
    BY <1>2, <1>13 DEF FlushHead, At, Exports
  <2>2. step'[t].at \in {"lfRead", "fpRead"} /\ step'[t].n = n
    BY <1>2, <1>13, Goes, MkParts, OnwardParts DEF FlushHead
  <2>3. step'[t].at # "lfRead"
    BY DEF Sane, Peace, AllSound, StepSound, ExportsSound
  <2>4. Exports(step[t], todo[t])'
    BY <1>3, <2>1, <2>2, <2>3 DEF Exports, cacheVars, Exported, Putting
  <2>. QED  BY <1>9, <2>2, <2>3, <2>4
<1>14. CASE FlushRead(t)
  <2>1. s.at = "fpRead" /\ pending[n] = data[n] /\ UNCHANGED pending
    BY <1>2, <1>14 DEF FlushRead, Exports
  <2>2. data[n] \in Data
    BY <1>2, <1>6, <2>1 DEF ExportsSound, Writes, Sound, TrueOf
  <2>3. Goto(t, Onward(s, "fpWrite"))
    BY <1>14, <2>1, <2>2, CacheAssumption DEF FlushRead, Content
  <2>4. step'[t].at = "fpWrite" /\ step'[t].n = n
    BY <1>2, <2>3, Goes, OnwardParts
  <2>5. Exports(step[t], todo[t])'
    BY <1>3, <2>1, <2>4 DEF Exports, cacheVars, Exported, Putting
  <2>. QED  BY <1>9, <2>4, <2>5
<1>15. CASE FlushWrite(t)
  <2>1. s.at = "fpWrite" /\ pending[n] = data[n] /\ buf[t] = data[n]
    BY <1>2, <1>15 DEF FlushWrite, At, Exports, ExportsSound
  <2>2. pending'[n] = None
    BY <1>2, <1>15, <2>1 DEF FlushWrite, TypeOK, EngineTypeOK
  <2>3. step'[t].at \in {"fpTag", "fpSide"} /\ step'[t].n = n
    BY <1>2, <1>15, Goes, MkParts DEF FlushWrite
  <2>4. Exports(step[t], todo[t])'
    BY <2>2, <2>3 DEF Exports, Exported, Putting
  <2>. QED  BY <1>9, <2>3, <2>4 DEF Exported
<1>16. CASE FlushTag(t) \/ FlushSidecar(t)
  <2>1. s.at \in {"fpTag", "fpSide"} /\ pending[n] = None /\ UNCHANGED pending
    BY <1>2, <1>16 DEF FlushTag, FlushSidecar, At, Exports, Exported
  <2>2. step'[t].at \in {"fpSide", "fpClean"} /\ step'[t].n = n
    BY <1>2, <1>16, Goes, MkParts, OnwardParts DEF FlushTag, FlushSidecar
  <2>3. Exports(step[t], todo[t])'
    BY <2>1, <2>2 DEF Exports, Exported, Putting
  <2>. QED  BY <1>9, <2>2, <2>3 DEF Exported
<1>17. CASE FlushClean(t)
  <2>. DEFINE w == Cleaned(e, s.c)
  <2>1. s.at = "fpClean" /\ pending[n] = None /\ UNCHANGED pending
    BY <1>2, <1>17 DEF FlushClean, At, Exports, Exported
  <2>2. e # None /\ e \in Entry
    BY <1>2, <2>1 DEF ExportsSound, Exported, Writes
  <2>3. Goto(t, Put(n, w, None, "cache"))
    BY <1>17, <2>2 DEF FlushClean
  <2>4. Clean(w)
    BY <2>2 DEF Clean, Cleaned, Entry
  <2>. HIDE DEF w
  <2>5. step'[t].at = "put" /\ step'[t].n = n /\ step'[t].by = "cache" /\ step'[t].e = w
    BY <1>2, <2>3, Goes, MkParts DEF Put
  <2>6. Exports(step[t], todo[t])'
    BY <2>1, <2>5 DEF Exports, Exported, Putting
  <2>. QED  BY <1>9, <2>4, <2>5, <2>6
<1>18. CASE Tally(t)
  <2>1. s.at = "tally" /\ UNCHANGED pending /\ Done(t)
    BY <1>18 DEF Tally, At
  <2>2. Settled(n)
    BY <1>2, <2>1, AllSettled DEF Exported, Putting
  <2>. QED  BY <1>2, <1>10, <2>1, <2>2, EndsDone DEF Settled
<1>. QED  BY <1>3, <1>11, <1>12, <1>13, <1>14, <1>15, <1>16, <1>17, <1>18

LEMMA RemovingCurrent ==
    ASSUME OneTask, Sane, Sane', AllCurrent, NEW t \in Task,
           DropEntry(t) \/ DropMeta(t) \/ DropData(t) \/ Invalidate(t)
    PROVE  AllCurrent'
<1>. DEFINE s == step[t]  n == step[t].n
<1>1. s.at \in {"invalidate"} \cup Removing
  BY DEF DropEntry, DropMeta, DropData, Invalidate, At, Removing
<1>2. /\ TypeOK /\ s \in Step /\ n \in Name /\ Exports(s, todo[t]) /\ Fits(op[t], s)
      /\ s.at \in Removing => s.by # "conflict"
      /\ UNCHANGED <<op, pending>>
  BY SaneNow, CurrentNow DEF DropEntry, DropMeta, DropData, Invalidate, outer, Brings
<1>3. Reads(op[t], step[t], todo[t], buf[t], err[t])'
  <2>1. op[t] \notin {"none", "read"}
    BY <1>1, <1>2 DEF Fits, StatPhase, ReadPhase, WritePhase, DeletePhase, ExportPhase, ListPhase,
                      ExpirePhase, DropPhase, Removing, Putting, Storing
  <2>. QED  BY <1>2, <2>1, ReadsOther
<1>4. \A m \in Name : m # n => Settled(m)
  BY <1>1, OthersSettled DEF Removing
<1>5. pending[n] = None /\ (s.at # "drop" => Settled(n))
  <2>1. CASE s.at = "drop"
    BY <1>2, <2>1 DEF Exports
  <2>2. CASE s.at # "drop"
    BY <1>1, <1>2, <2>2, AllSettled DEF Exported, Putting, Removing, Settled
  <2>. QED  BY <2>1, <2>2
<1>6. /\ \A m \in Name \ {n} : entries'[m] = entries[m]
      /\ entries'[n] = (IF s.at = "drop" THEN None ELSE entries[n])
  BY <1>2 DEF DropEntry, DropMeta, DropData, Invalidate, At, Remove, TypeOK, CacheTypeOK, cacheVars
<1>7. (\A m \in Name : Settled(m))'
  BY <1>2, <1>4, <1>5, <1>6 DEF Settled, Clean
<1>8. \/ step'[t].at = "done"
      \/ step'[t].at \in Removing /\ step'[t].by # "conflict"
  <2>1. s.by # "conflict" => AfterRemove(s).at = "done"
    BY <1>2, AfterRemoveParts
  <2>2. CASE Invalidate(t)
    BY <1>2, <2>2, EndsDone, Goes, DoParts DEF Invalidate, Removing
  <2>3. CASE ~Invalidate(t)
    <3>1. s.at \in Removing
      BY <2>3 DEF DropEntry, DropMeta, DropData, At, Removing
    <3>2. step'[t] \in {AfterRemove(s), Onward(s, "rmMeta"), Onward(s, "rmData")}
      BY <1>2, <2>3, Goes DEF DropEntry, DropMeta, DropData
    <3>. QED  BY <1>2, <2>1, <3>1, <3>2, OnwardParts DEF Removing
  <2>. QED  BY <2>2, <2>3
<1>9. Brings(step[t])'
  BY <1>8 DEF Brings, Storing, Putting, Removing
<1>. QED  BY <1>3, <1>7, <1>8, <1>9, SettledFrom DEF Removing

LEMMA QueuedCurrent ==
    ASSUME OneTask, Sane, Sane', AllCurrent, NEW t \in Task,
           NextCall(t) \/ NextIteration(t) \/ Return(t)
    PROVE  AllCurrent'
<1>. DEFINE s == step[t]  q == todo[t]
<1>1. /\ TypeOK /\ Controlled /\ UNCHANGED <<entries, data, store, pending>> /\ s.at = "done"
      /\ Control(op[t], s, q, left[t]) /\ q \in Seq(Step) /\ LoopSound(left[t])
      /\ Reads(op[t], s, q, buf[t], err[t]) /\ Exports(s, q)
      /\ \A m \in Name : Exporting(s, q, m) \/ Settled(m)
  BY SaneNow, CurrentNow
     DEF NextCall, NextIteration, Return, Finished, At, cacheVars, TypeOK, EngineTypeOK
<1>2. CASE NextCall(t)
  <2>1. q # <<>> /\ step'[t] = Head(q) /\ todo'[t] = Tail(q) /\ UNCHANGED <<op, buf, err>>
    BY <1>1, <1>2, Goes DEF NextCall, outer, TypeOK, EngineTypeOK
  <2>2. step'[t] = q[1] /\ 1 \in DOMAIN q
    BY <1>1, <2>1
  <2>3. q[1].at \in Call /\ Fits(op[t], q[1])
    BY <1>1, <2>2 DEF Control, Queue
  <2>4. Reads(op[t], step[t], todo[t], buf[t], err[t])'
    <3>1. op[t] # "none"
      BY <1>1, <2>1 DEF Control
    <3>2. ASSUME op[t] = "read"
          PROVE  /\ \A i \in DOMAIN Tail(q) : i + 1 \in DOMAIN Tail(q) \/ Tail(q)[i].at = "readGet"
                 /\ StatPhase(q[1]) => Tail(q) # <<>>
                 /\ ~err[t]
      <4>1. ~err[t] /\ \A i \in DOMAIN q : i + 1 \in DOMAIN q \/ q[i].at = "readGet"
        BY <1>1, <2>1, <3>2 DEF Reads
      <4>2. \A i \in DOMAIN Tail(q) : i + 1 \in DOMAIN Tail(q) \/ Tail(q)[i].at = "readGet"
        BY <1>1, <2>1, <4>1, TailParts
      <4>3. StatPhase(q[1]) => q[1].at # "readGet"
        BY DEF StatPhase, Putting
      <4>4. StatPhase(q[1]) => Tail(q) # <<>>
        BY <1>1, <2>1, <2>2, <4>1, <4>3, TailParts
      <4>. QED  BY <4>1, <4>2, <4>4
    <3>3. step'[t].at # "done"
      BY <2>2, <2>3 DEF Call
    <3>4. StatPhase(step[t])' <=> StatPhase(q[1])
      BY <2>2 DEF StatPhase
    <3>. QED  BY <2>1, <3>1, <3>2, <3>3, <3>4 DEF Reads
  <2>5. Brings(step[t])'
    BY <2>2, <2>3 DEF Brings, Call, Storing, Putting, Removing
  <2>6. CASE q[1].at = "fpGet"
    <3>1. Owed(q[1].n)
      BY <1>1, <2>1, <2>6 DEF Exports
    <3>2. Exports(step[t], todo[t])'
      BY <1>1, <2>2, <2>6, <3>1
         DEF Exports, Owed, Settled, Clean, Writes, Exported, Putting
    <3>3. (\A m \in Name : Exporting(step[t], todo[t], m) \/ Settled(m))'
      BY <1>1, <2>2, <2>6 DEF Exporting, Settled, Clean, Putting, Exported
    <3>. QED  BY <2>4, <2>5, <3>2, <3>3, CurrentFrom
  <2>7. CASE q[1].at # "fpGet"
    <3>1. \A m \in Name : Settled(m)
      BY <1>1, <2>7, AllSettled DEF Exported, Putting
    <3>2. (\A m \in Name : Settled(m))'
      BY <1>1, <3>1 DEF Settled, Clean
    <3>. QED  BY <2>2, <2>3, <2>4, <2>5, <3>2, SettledFrom DEF Call
  <2>. QED  BY <2>6, <2>7
<1>3. CASE NextIteration(t) \/ Return(t)
  <2>1. q = <<>>
    BY <1>3 DEF NextIteration, Return, Finished
  <2>2. \A m \in Name : Settled(m)
    BY <1>1, <2>1, AllSettled DEF Exported, Putting
  <2>3. (\A m \in Name : Settled(m))'
    BY <1>1, <2>2 DEF Settled, Clean
  <2>4. CASE NextIteration(t)
    <3>1. step'[t] \in left[t] /\ op' = op
      BY <1>1, <2>4, Goes DEF NextIteration, outer
    <3>2. Iterates(op[t], step'[t])
      BY <1>1, <3>1 DEF Control
    <3>3. step'[t].at = "put" => Clean(step'[t].e)
      BY <1>1, <3>1 DEF LoopSound, Clean
    <3>4. Brings(step[t])'
      BY <3>2, <3>3 DEF Brings, Iterates, Storing, Putting, Removing, Clean
    <3>5. Reads(op[t], step[t], todo[t], buf[t], err[t])'
      BY <3>1, <3>2, ReadsOther DEF Iterates
    <3>. QED  BY <2>3, <3>2, <3>4, <3>5, SettledFrom DEF Iterates
  <2>5. CASE Return(t)
    <3>1. step'[t].at = "done" /\ op'[t] \in {"none", "dead"} /\ err'[t] = FALSE
      BY <1>1, <2>5, Goes, NoStepParts DEF Return, TypeOK, EngineTypeOK
    <3>2. Brings(step[t])' /\ Reads(op[t], step[t], todo[t], buf[t], err[t])'
      BY <3>1 DEF Brings, Reads, Storing, Putting, Removing
    <3>. QED  BY <2>3, <3>1, <3>2, SettledFrom
  <2>. QED  BY <1>3, <2>4, <2>5
<1>. QED  BY <1>2, <1>3

LEMMA BeginsCurrent ==
    ASSUME OneTask, Sane, Sane', AllCurrent, NEW t \in Task, Begins(t)
    PROVE  AllCurrent'
<1>1. /\ TypeOK /\ op[t] = "none" /\ UNCHANGED <<cacheVars, store, err, pending>>
      /\ step'[t].at \in {"stat", "writeHead", "delGet", "invalidate", "done"}
      /\ step[t].at = "done" /\ todo[t] = <<>> /\ ~err[t]
  BY SaneNow, BeginsFirst, IdleIsDone, CurrentNow DEF Running, Reads
<1>2. (\A m \in Name : Settled(m))'
  <2>1. \A m \in Name : Settled(m)
    BY <1>1, AllSettled DEF Exported, Putting
  <2>. QED  BY <1>1, <2>1 DEF Settled, Clean, cacheVars
<1>3. Brings(step[t])'
  BY <1>1 DEF Brings, Storing, Putting, Removing
<1>4. \A name, first, rest, loop : Begin(t, name, first, rest, loop) =>
         op'[t] = name /\ step'[t] = first /\ todo'[t] = rest
  BY <1>1, Goes DEF Begin, TypeOK, EngineTypeOK
<1>5. CASE op'[t] = "read"
  <2>1. \A name, first, rest, loop : Begin(t, name, first, rest, loop) => name = "read"
    BY <1>4, <1>5
  <2>2. PICK n \in Path : Read(t, n)
    BY <2>1, Zenon DEF Begins, Stat, DeletePath, InvalidatePath, WriteFile, RenamePath,
       InvalidatePrefix, ListDir, Flush, ExpireCache
  <2>3. todo'[t] = <<Do("stat", n), Do("readGet", n)>> /\ step'[t].at = "stat"
    BY <1>4, <2>2, DoParts DEF Read
  <2>4. Reads(op[t], step[t], todo[t], buf[t], err[t])'
    BY <1>1, <2>3, DoParts DEF Reads
  <2>. QED  BY <1>1, <1>2, <1>3, <2>4, SettledFrom
<1>6. CASE op'[t] # "read"
  BY <1>1, <1>2, <1>3, <1>6, SettledFrom DEF Reads
<1>. QED  BY <1>5, <1>6

LEMMA AgeCurrent ==
    ASSUME Sane, AllCurrent, Age
    PROVE  AllCurrent'
<1>1. /\ UNCHANGED <<store, step, op, todo, buf, err, pending>> /\ TypeOK
      /\ \A t \in Task : step[t].at = "done" /\ todo[t] = <<>>
  BY IdleIsDone DEF Age, taskVars, Sane
<1>2. \A m \in Name : Settled(m) /\ entries[m] \in Entry \cup {None}
  BY <1>1, Held DEF AllCurrent, Exporting, Exported, Putting
<1>3. (\A m \in Name : Settled(m))'
  <2>1. \A m \in Name : Clean(entries'[m])
    BY <1>2, CacheAssumption DEF Age, Aged, Settled, Clean, Entry
  <2>. QED  BY <1>1, <1>2, <2>1 DEF Settled, Clean
<1>4. \A t \in Task : Reads(op[t], step[t], todo[t], buf[t], err[t])
  BY DEF AllCurrent
<1>5. (\A t \in Task : Reads(op[t], step[t], todo[t], buf[t], err[t]))'
  BY <1>1, <1>4 DEF Reads, StatPhase
<1>6. (\A t \in Task : Brings(step[t]) /\ Exports(step[t], todo[t]))'
  BY <1>1 DEF Brings, Exports, Storing, Putting, Removing, Exported
<1>. QED  BY <1>3, <1>5, <1>6 DEF AllCurrent

LEMMA CurrentInit == Init => AllCurrent
<1>. SUFFICES ASSUME Init PROVE AllCurrent
  OBVIOUS
<1>1. \A t \in Task : step[t].at = "done" /\ todo[t] = <<>> /\ op[t] = "none" /\ err[t] = FALSE
  BY NoStepParts DEF Init
<1>2. \A n \in Name : Settled(n)
  BY DEF Init, CacheInit, Settled, Clean
<1>. QED  BY <1>1, <1>2 DEF AllCurrent, Brings, Exports, Reads, Storing, Putting, Removing, Exported

LEMMA PeaceBefore ==
    ASSUME TypeOK, [Next]_vars, Peace'
    PROVE  /\ Peace /\ Calm /\ Calm' /\ ~Crash
           /\ \A n, c : ~Remote(n, c)
           /\ \A t \in Task : ~BackendFails(t)
<1>1. /\ \A h \in Hazard : used[h] \in Nat /\ used'[h] \in Nat /\ used'[h] >= used[h]
      /\ Crash => used'["crash"] > 0
      /\ \A n, c : Remote(n, c) => used'["remote"] > 0
      /\ \A t \in Task : BackendFails(t) => used'["fault"] > 0
  BY UsedGrows
<1>2. \A h \in Hazard : used'[h] = 0 /\ ~(used'[h] > 0) /\ used[h] = 0
  BY <1>1 DEF Peace, Own, Alone, Hazard
<1>. QED  BY <1>1, <1>2 DEF Peace, Own, Alone, Calm, Hazard

LEMMA CurrentNext ==
    ASSUME Immediate, Sane, Sane', AllCurrent, [Next]_vars PROVE AllCurrent'
<1>1. /\ OneTask /\ BatchWindow = 0 /\ ~Crash /\ \A n, c : ~Remote(n, c)
      /\ \A t \in Task : ~BackendFails(t)
  BY PeaceBefore DEF Sane, Immediate
<1>2. ASSUME NEW t \in Task, Begins(t) PROVE AllCurrent'
  BY <1>1, <1>2, BeginsCurrent
<1>3. ASSUME NEW t \in Task, Proceeds(t) PROVE AllCurrent'
  BY <1>1, <1>3, ReadingCurrent, StoringCurrent, PuttingCurrent, InsertCurrent, ExportCurrent,
     RemovingCurrent, QueuedCurrent DEF Proceeds
<1>4. CASE Age
  BY <1>4, AgeCurrent
<1>5. CASE UNCHANGED vars
  <2>1. UNCHANGED <<entries, data, store, step, todo, op, buf, err, pending>>
    BY <1>5 DEF vars, cacheVars, taskVars
  <2>2. (\A n \in Name : Settled(n) \/ \E t \in Task : Exporting(step[t], todo[t], n))'
    BY <2>1 DEF AllCurrent, Settled, Clean, Exporting
  <2>3. \A t \in Task : /\ Brings(step[t]) /\ Exports(step[t], todo[t])
                       /\ Reads(op[t], step[t], todo[t], buf[t], err[t])
    BY DEF AllCurrent
  <2>4. ASSUME NEW t \in Task
        PROVE  (/\ Brings(step[t]) /\ Exports(step[t], todo[t])
                /\ Reads(op[t], step[t], todo[t], buf[t], err[t]))'
    BY <2>1, <2>3 DEF Brings, Writes, Exports, Owed, Settled, Clean, Reads, StatPhase
  <2>. QED  BY <2>2, <2>4 DEF AllCurrent
<1>. QED  BY <1>1, <1>2, <1>3, <1>4, <1>5 DEF Next

(* One task without a batch window, while nothing goes wrong: at every     *)
(* step of every call at most one path has anything left to export, the    *)
(* step knows what, and a read holds the object it returns.                *)
THEOREM MutationsAreExported == Immediate => (Spec => [](Peace => AllCurrent))
<1>. SUFFICES ASSUME Immediate PROVE Spec => [](Peace => AllCurrent)
  OBVIOUS
<1>. DEFINE Inv == Peace => AllCurrent
            Now == TypeOK /\ Controlled /\ IndexInv /\ Places /\ (Calm => AllSound)
<1>1. Init => Inv
  BY CurrentInit
<1>2. Now /\ Now' /\ Inv /\ [Next]_vars => Inv'
  <2>. SUFFICES ASSUME Now, Now', Inv, [Next]_vars, Peace' PROVE AllCurrent'
    BY DEF Inv
  <2>1. Peace /\ Calm /\ Calm'
    BY PeaceBefore
  <2>2. Sane /\ Sane'
    BY <2>1 DEF Sane
  <2>. QED  BY <2>1, <2>2, CurrentNext
<1>3. OneTask
  BY DEF Immediate
<1>4. Spec => []IndexInv
  BY <1>3, IndexOnDisk
<1>5. Spec => [](Calm => AllSound)
  BY <1>3, EntriesAreTrue
<1>. QED  BY <1>1, <1>2, <1>4, <1>5, TypeCorrect, CallsInOrder, LostAndFoundApart, PTL DEF Spec

(* The invariants together, for the theorems below.                        *)
LEMMA PeacefulSpec == Immediate => (Spec => [](Peace => Sane /\ AllCurrent))
<1>. SUFFICES ASSUME Immediate PROVE Spec => [](Peace => Sane /\ AllCurrent)
  OBVIOUS
<1>1. TypeOK /\ Controlled /\ IndexInv /\ Places /\ (Calm => AllSound) /\ (Peace => AllCurrent)
         => (Peace => Sane /\ AllCurrent)
  BY DEF Sane, Peace, Own, Alone, Calm
<1>2. OneTask
  BY DEF Immediate
<1>3. Spec => []IndexInv
  BY <1>2, IndexOnDisk
<1>4. Spec => [](Calm => AllSound)
  BY <1>2, EntriesAreTrue
<1>5. Spec => [](Peace => AllCurrent)
  BY MutationsAreExported
<1>. QED  BY <1>1, <1>3, <1>4, <1>5, TypeCorrect, CallsInOrder, LostAndFoundApart, PTL

(* A path with something left to export has it: its entry says so, and its *)
(* data file holds the bytes.                                              *)
LEMMA StillOwed ==
    ASSUME OneTask, Sane, AllCurrent, NEW n \in Name, pending[n] # None
    PROVE  Owed(n)
<1>1. PICK t \in Task : Exporting(step[t], todo[t], n)
  BY DEF AllCurrent, Settled
<1>. DEFINE s == step[t]  q == todo[t]
<1>2. /\ Exports(s, q) /\ ExportsSound(s, buf[t]) /\ Sounding
  BY CurrentNow, SaneNow
<1>3. CASE s.at = "done" /\ q # <<>> /\ q[1].at = "fpGet" /\ q[1].n = n
  BY <1>2, <1>3 DEF Exports
<1>4. CASE s.n = n /\ s.at = "fpGet"
  BY <1>2, <1>4 DEF Exports
<1>5. CASE s.n = n /\ s.at = "fpDelete"
  <2>1. entries[n] # None /\ entries[n].deleted /\ pending[n] = Gone
    BY <1>2, <1>5 DEF Exports, ExportsSound
  <2>2. Sound(n, entries[n], data[n])
    BY <1>2, <1>5, NamesNow DEF AtWork
  <2>. QED  BY <2>1, <2>2 DEF Owed, Sound, TrueOf
<1>6. CASE s.n = n /\ s.at \in {"fpHead", "fpRead", "fpWrite"}
  BY <1>2, <1>6 DEF Exports, ExportsSound, Owed
<1>7. CASE s.n = n /\ (s.at \in Exported \cup {"drop"} \/ (s.at \in Putting /\ s.by = "cache"))
  BY <1>2, <1>7 DEF Exports
<1>. QED  BY <1>1, <1>3, <1>4, <1>5, <1>6, <1>7 DEF Exporting

(* No acknowledged write is lost, although listings, invalidations and     *)
(* expirations run in between: what they could drop is exported already.   *)
THEOREM ImmediateLosesNoWrite == Immediate => (Spec => [](Peace => NoLostWrite))
<1>. SUFFICES ASSUME Immediate PROVE Spec => [](Peace => NoLostWrite)
  OBVIOUS
<1>1. (Peace => Sane /\ AllCurrent) => (Peace => NoLostWrite)
  <2>. SUFFICES ASSUME Sane, AllCurrent, NEW n \in Name, pending[n] \in Content
                PROVE  Known(entries[n]) /\ entries[n].dirty /\ data[n] = pending[n]
    BY DEF NoLostWrite
  <2>1. pending[n] \notin {None, Gone}
    BY CacheAssumption, EngineAssumption DEF Tag
  <2>2. Owed(n)
    BY <2>1, StillOwed DEF Immediate
  <2>. QED  BY <2>1, <2>2 DEF Owed, Settled, Writes, Known
<1>2. Spec => [](Peace => Sane /\ AllCurrent)
  BY PeacefulSpec
<1>. QED  BY <1>1, <1>2, PTL

(* No acknowledged delete is forgotten: the tombstone stays until the      *)
(* object is deleted.                                                      *)
THEOREM ImmediateLosesNoDelete == Immediate => (Spec => [](Peace => NoLostDelete))
<1>. SUFFICES ASSUME Immediate PROVE Spec => [](Peace => NoLostDelete)
  OBVIOUS
<1>1. (Peace => Sane /\ AllCurrent) => (Peace => NoLostDelete)
  <2>. SUFFICES ASSUME Sane, AllCurrent, NEW n \in Name, pending[n] = Gone
                PROVE  entries[n] # None /\ entries[n].dirty /\ entries[n].deleted
    BY DEF NoLostDelete
  <2>1. Gone # None /\ data[n] # Gone
    BY EngineAssumption, Held DEF Tag, Sane
  <2>2. Owed(n)
    BY <2>1, StillOwed DEF Immediate
  <2>. QED  BY <2>1, <2>2 DEF Owed, Settled
<1>2. Spec => [](Peace => Sane /\ AllCurrent)
  BY PeacefulSpec
<1>. QED  BY <1>1, <1>2, PTL

(* Every read returns the object, that is the last write of the path, and  *)
(* fails only if there is none: for all thresholds, import rules and       *)
(* backends, from the cache, by a direct read or by a fetch.               *)
THEOREM ReadsAreCurrent == Immediate => (Spec => [](Peace => ReadIsCurrent))
<1>. SUFFICES ASSUME Immediate PROVE Spec => [](Peace => ReadIsCurrent)
  OBVIOUS
<1>1. (Peace => Sane /\ AllCurrent) => (Peace => ReadIsCurrent)
  <2>. SUFFICES ASSUME Sane, AllCurrent, NEW t \in Task, op[t] = "read", Finished(t)
                PROVE  LET n == step[t].n
                           c == IF pending[n] = None THEN store[n] ELSE pending[n]
                       IN IF c \in Content THEN ~err[t] /\ buf[t] = c ELSE err[t]
    BY DEF ReadIsCurrent
  <2>. DEFINE n == step[t].n
  <2>1. OneTask /\ step[t].at = "done" /\ todo[t] = <<>> /\ n \in Name
    BY SaneNow DEF Immediate, Finished, At
  <2>2. pending[n] = None
    BY <2>1, AllSettled DEF Settled, Exported, Putting
  <2>3. /\ err[t] => store[n] = None
        /\ ~err[t] => buf[t] \in Data /\ buf[t] = store[n]
        /\ err[t] \in BOOLEAN
    BY <2>1, CurrentNow DEF Reads, Sane, TypeOK, EngineTypeOK
  <2>. QED  BY <2>2, <2>3, CacheAssumption DEF Content
<1>2. Spec => [](Peace => Sane /\ AllCurrent)
  BY PeacefulSpec
<1>. QED  BY <1>1, <1>2, PTL

=============================================================================
