---------------------------- MODULE OneTaskProofs ---------------------------
(***************************************************************************)
(* What a call does and in which order, for any number of tasks; and what  *)
(* an engine with one task (the command line, the FUSE mount) owes to it,  *)
(* whatever calls it runs: its index and its files agree, and a flush      *)
(* leaves nothing dirty behind.                                            *)
(***************************************************************************)
EXTENDS EngineProofs

-----------------------------------------------------------------------------
(* The phases of a call, told by the step and whom it works for.           *)

Removing == {"drop", "rmMeta", "rmData"}
Putting == {"put", "insert"}

StatPhase(s) == s.at \in {"stat", "statHead"} \/ (s.at \in Putting /\ s.by = "stat")
ReadPhase(s) ==
    \/ s.at \in {"readGet", "cacheRead", "direct", "fetch", "lookup"}
    \/ s.at \in Putting /\ s.by = "touch"
    \/ s.at \in Storing /\ s.by = "fetch"
WritePhase(s) == s.at = "writeHead" \/ (s.at \in Storing /\ s.by = "write")
DeletePhase(s) == s.at = "delGet" \/ (s.at \in Storing /\ s.by = "delete")
ExportPhase(s) ==
    \/ s.at \in {"fpGet", "fpDelete", "fpHead", "fpRead", "fpWrite", "fpTag", "fpSide", "fpClean"}
    \/ s.at \in {"lfRead", "lfSave"} /\ s.by = "conflict"
    \/ s.at \in Removing \cup Putting /\ s.by \in {"cache", "conflict"}
ListPhase(s) ==
    \/ s.at \in Putting \cup {"listRead"} /\ s.by = "list"
    \/ s.at \in Storing /\ s.by = "cache"
ExpirePhase(s) == s.at = "expire" \/ (s.at \in Putting /\ s.by = "cache")
DropPhase(s) == s.at = "invalidate" \/ (s.at \in Removing /\ s.by = "cache")

(* The steps of a call.                                                    *)
Fits(name, s) ==
    \/ s.at = "done"
    \/ name \in {"stat", "read", "rename"} /\ StatPhase(s)
    \/ name \in {"read", "rename"} /\ ReadPhase(s)
    \/ name \in {"write", "rename"} /\ WritePhase(s)
    \/ name \in {"delete", "rename"} /\ DeletePhase(s)
    \/ name \in {"write", "delete", "rename", "flush"} /\ ExportPhase(s)
    \/ name = "flush" /\ s.at = "tally"
    \/ name = "list" /\ ListPhase(s)
    \/ name = "expire" /\ ExpirePhase(s)
    \/ name \in {"invalidate", "invalidatePrefix"} /\ DropPhase(s)

(* Which iterations a loop has.                                            *)
Iterates(name, i) ==
    \/ name = "list" /\ i.at = "put" /\ i.by = "list"
    \/ name = "flush" /\ i.at = "fpGet"
    \/ name = "expire" /\ i.at = "expire"
    \/ name = "invalidatePrefix" /\ i.at = "drop" /\ i.by = "cache"

(* A read comes after the stat of the same file, and a rename writes what  *)
(* it has read.                                                            *)
Follows(s, r) ==
    /\ r.at = "readGet" => StatPhase(s) /\ s.n = r.n
    /\ r.at = "writeHead" => ReadPhase(s)

(* Without a batch window a mutation is exported in the same call.         *)
Owes(s) == BatchWindow = 0 /\ (WritePhase(s) \/ DeletePhase(s))

(* A queue of calls, and a step and the queue that comes after it.         *)
Queue(name, q) ==
    /\ \A i \in DOMAIN q : q[i].at \in Call /\ Fits(name, q[i])
    /\ \A i \in DOMAIN q : i + 1 \in DOMAIN q => Follows(q[i], q[i + 1])
    /\ \A i \in DOMAIN q : Owes(q[i]) => i + 1 \in DOMAIN q /\ q[i + 1] = Do("fpGet", q[i].n)

Before(s, q) ==
    /\ s.at # "done" /\ q # <<>> => Follows(s, q[1])
    /\ Owes(s) => q # <<>> /\ q[1] = Do("fpGet", s.n)

(* The state of a task, from its call: the step, the queue and the loop.   *)
Control(name, s, q, loop) ==
    /\ name \in {"none", "dead"} => s.at = "done" /\ q = <<>> /\ loop = {}
    /\ Fits(name, s)
    /\ Queue(name, q) /\ Before(s, q)
    /\ \A i \in loop : Iterates(name, i)

Controlled == \A t \in Task : Control(op[t], step[t], todo[t], left[t])

-----------------------------------------------------------------------------
(* Every call goes through its phases, whatever the other tasks do.        *)

(* From one step to another within a phase, or to the end of the call.     *)
Advances(s, s2) ==
    \/ s2.at = "done"
    \/ /\ s2.n = s.n /\ s.at \notin {"done", "tally"}
       /\ StatPhase(s) => StatPhase(s2)
       /\ ReadPhase(s) => ReadPhase(s2)
       /\ WritePhase(s) <=> WritePhase(s2)
       /\ DeletePhase(s) <=> DeletePhase(s2)
       /\ ExportPhase(s) => ExportPhase(s2)
       /\ ListPhase(s) => ListPhase(s2)
       /\ ExpirePhase(s) => ExpirePhase(s2)
       /\ DropPhase(s) => DropPhase(s2)

LEMMA MkParts ==
    \A l, n, e, c, by : /\ Mk(l, n, e, c, by).at = l /\ Mk(l, n, e, c, by).n = n
                        /\ Mk(l, n, e, c, by).e = e /\ Mk(l, n, e, c, by).c = c
                        /\ Mk(l, n, e, c, by).by = by
BY DEF Mk

LEMMA DoParts ==
    \A l, n : /\ Do(l, n).at = l /\ Do(l, n).n = n /\ Do(l, n).by = "cache"
              /\ Do(l, n).e = None /\ Do(l, n).c = None
BY DEF Do, Mk

LEMMA OnwardParts ==
    ASSUME NEW s \in Step, NEW l
    PROVE  /\ Onward(s, l).at = l /\ Onward(s, l).n = s.n /\ Onward(s, l).e = s.e
           /\ Onward(s, l).c = s.c /\ Onward(s, l).by = s.by
BY DEF Onward, Step

LEMMA AfterRemoveParts ==
    ASSUME NEW s \in Step
    PROVE  /\ AfterRemove(s).n = s.n
           /\ AfterRemove(s).at = "done" \/ (s.by = "conflict" /\ AfterRemove(s).at = "put"
                                               /\ AfterRemove(s).by = "conflict"
                                               /\ AfterRemove(s).e = Import(s.c))
BY DEF AfterRemove, Put, Do, Mk

LEMMA Goes ==
    ASSUME TypeOK, NEW t \in Task, NEW s, Goto(t, s)
    PROVE  step'[t] = s /\ \A u \in Task \ {t} : step'[u] = step[u]
BY DEF TypeOK, EngineTypeOK, Goto

LEMMA AdvancesKeeps ==
    ASSUME NEW name, NEW s, NEW s2, NEW q, NEW loop, Control(name, s, q, loop), Advances(s, s2)
    PROVE  Control(name, s2, q, loop)
<1>1. CASE s2.at = "done"
  <2>1. Fits(name, s2) /\ ~Owes(s2)
    BY <1>1 DEF Fits, Owes, WritePhase, DeletePhase, Storing, Putting
  <2>. QED  BY <1>1, <2>1 DEF Control, Before
<1>2. CASE s2.at # "done"
  <2>1. s.at \notin {"done", "tally"} /\ s2.n = s.n
    BY <1>2 DEF Advances
  <2>2. Fits(name, s2)
    BY <1>2, <2>1 DEF Control, Fits, Advances
  <2>3. Before(s2, q)
    BY <1>2, <2>1 DEF Control, Before, Follows, Owes, Advances
  <2>. QED  BY <2>1, <2>2, <2>3 DEF Control
<1>. QED  BY <1>1, <1>2

(* A step of one task leaves the control of the others alone.              *)
LEMMA OthersControlled ==
    ASSUME Controlled, NEW t \in Task,
           Control(op'[t], step'[t], todo'[t], left'[t]),
           \A u \in Task \ {t} : /\ op'[u] = op[u] /\ step'[u] = step[u]
                                 /\ todo'[u] = todo[u] /\ left'[u] = left[u]
    PROVE  Controlled'
BY DEF Controlled

LEMMA Moved ==
    ASSUME TypeOK, Controlled, NEW t \in Task, NEW s, Goto(t, s), Advances(step[t], s),
           UNCHANGED <<op, todo, left>>
    PROVE  Controlled'
<1>1. Control(op[t], s, todo[t], left[t])
  BY AdvancesKeeps DEF Controlled
<1>. QED  BY <1>1, Goes, OthersControlled

LEMMA Ended ==
    ASSUME TypeOK, Controlled, NEW t \in Task, Done(t), UNCHANGED <<op, todo, left>>
    PROVE  Controlled'
<1>1. Advances(step[t], Do("done", step[t].n))
  BY DoParts DEF Advances
<1>. QED  BY <1>1, Moved DEF Done

LEMMA Aborted ==
    ASSUME TypeOK, Controlled, NEW t \in Task, Abort(t), UNCHANGED op
    PROVE  Controlled'
<1>1. step'[t] = Do("done", step[t].n) /\ step'[t].at = "done"
  BY Goes, DoParts DEF Abort, Done
<1>2. /\ todo'[t] = <<>> /\ left'[t] \in {left[t], {}}
      /\ \A u \in Task \ {t} : /\ step'[u] = step[u] /\ todo'[u] = todo[u]
                               /\ left'[u] = left[u]
  BY Goes DEF Abort, Done, TypeOK, EngineTypeOK
<1>3. Queue(op[t], <<>>)
  BY DEF Queue
<1>4. Control(op[t], step[t], todo[t], left[t])
  BY DEF Controlled
<1>5. Fits(op[t], step'[t]) /\ Before(step'[t], <<>>)
  BY <1>1 DEF Fits, Before, Owes, WritePhase, DeletePhase, Storing, Putting
<1>6. Control(op[t], step'[t], todo'[t], left'[t])
  BY <1>1, <1>2, <1>3, <1>4, <1>5 DEF Control
<1>. QED  BY <1>2, <1>6, OthersControlled

LEMMA ReadingControl ==
    ASSUME TypeOK, Controlled, NEW t \in Task,
           \/ StatCache(t) \/ StatHead(t) \/ ReadGet(t) \/ ReadBytes(t)
           \/ Fetch(t) \/ FetchLookup(t) \/ ListRead(t)
    PROVE  Controlled'
<1>. USE DEF StatPhase, ReadPhase, WritePhase, DeletePhase, ExportPhase, ListPhase, ExpirePhase,
             DropPhase, Storing, Removing, Putting
<1>. DEFINE s == step[t]  n == step[t].n
<1>1. CASE StatCache(t)
  <2>1. s.at = "stat" => Advances(s, Do("statHead", n))
    BY DoParts DEF Advances
  <2>. QED  BY <1>1, <2>1, Moved, Ended DEF StatCache, At, same, outer
<1>2. CASE StatHead(t)
  <2>1. s.at = "statHead" => Advances(s, Put(n, Import(store[n]), None, "stat"))
    BY MkParts DEF Advances, Put
  <2>. QED  BY <1>2, <2>1, Moved, Aborted DEF StatHead, At, same, outer
<1>3. CASE ReadGet(t)
  <2>1. s.at = "readGet" => /\ Advances(s, Put(n, Touched(entries[n]), None, "touch"))
                            /\ Advances(s, Do("direct", n)) /\ Advances(s, Do("fetch", n))
    BY MkParts, DoParts DEF Advances, Put
  <2>. QED  BY <1>3, <2>1, Moved, Ended DEF ReadGet, At, same, outer
<1>4. CASE ReadBytes(t)
  BY <1>4, Ended, Aborted DEF ReadBytes, At, same, outer
<1>5. CASE Fetch(t)
  <2>1. s.at = "fetch" => Advances(s, Mk("lookup", n, None, store[n], "fetch"))
    BY MkParts DEF Advances
  <2>. QED  BY <1>5, <2>1, Moved, Aborted DEF Fetch, At, same, outer
<1>6. CASE FetchLookup(t)
  <2>1. s.at = "lookup" => Advances(s, Fetched(n, Filled(entries[n]), s.c, "fetch"))
    BY MkParts DEF Advances, Fetched
  <2>. QED  BY <1>6, <2>1, Moved, Aborted DEF FetchLookup, At, same, outer
<1>7. CASE ListRead(t)
  <2>1. s.at = "listRead" => Advances(s, Fetched(n, Filled(s.e), store[n], "cache"))
    BY MkParts DEF Advances, Fetched
  <2>. QED  BY <1>7, <2>1, Moved, Aborted DEF ListRead, At, same, outer
<1>. QED  BY <1>1, <1>2, <1>3, <1>4, <1>5, <1>6, <1>7

LEMMA WritingControl ==
    ASSUME TypeOK, Controlled, NEW t \in Task,
           \/ PutMeta(t) \/ InsertEntry(t) \/ TruncateData(t) \/ FillData(t)
           \/ WriteHead(t) \/ DeleteGet(t) \/ DropEntry(t) \/ DropMeta(t) \/ DropData(t)
           \/ ExpireData(t) \/ Invalidate(t)
    PROVE  Controlled'
<1>. USE DEF StatPhase, ReadPhase, WritePhase, DeletePhase, ExportPhase, ListPhase, ExpirePhase,
             DropPhase, Storing, Removing, Putting
<1>. DEFINE s == step[t]  n == step[t].n
<1>1. s \in Step
  BY StepParts
<1>2. CASE PutMeta(t)
  <2>1. s.at = "put" => Advances(s, Onward(s, "insert"))
    BY <1>1, OnwardParts DEF Advances
  <2>. QED  BY <1>2, <2>1, Moved DEF PutMeta, At, same, outer
<1>3. CASE InsertEntry(t)
  <2>1. s.at = "insert" /\ s.by = "touch" => Advances(s, Do("cacheRead", n))
    BY DoParts DEF Advances
  <2>2. s.at = "insert" /\ s.by = "list" => Advances(s, Onward(s, "listRead"))
    BY <1>1, OnwardParts DEF Advances
  <2>. QED  BY <1>3, <2>1, <2>2, Moved, Ended, Aborted
            DEF InsertEntry, AfterInsert, At, same, outer
<1>4. CASE TruncateData(t)
  <2>1. s.at = "trunc" => Advances(s, Onward(s, "fill"))
    BY <1>1, OnwardParts DEF Advances
  <2>. QED  BY <1>4, <2>1, Moved DEF TruncateData, At, same, outer
<1>5. CASE FillData(t)
  <2>1. s.at = "fill" => Advances(s, Onward(s, "put"))
    BY <1>1, OnwardParts DEF Advances
  <2>. QED  BY <1>5, <2>1, Moved DEF FillData, At, same, outer
<1>6. CASE WriteHead(t)
  <2>1. s.at = "writeHead" => Advances(s, Fetched(n, Written(store[n], buf[t]), buf[t], "write"))
    BY MkParts DEF Advances, Fetched
  <2>. QED  BY <1>6, <2>1, Moved DEF WriteHead, At, same, outer
<1>7. CASE DeleteGet(t)
  <2>1. s.at = "delGet" => Advances(s, Put(n, Tombstone(entries[n]), None, "delete"))
    BY MkParts DEF Advances, Put
  <2>. QED  BY <1>7, <2>1, Moved DEF DeleteGet, At, same, outer
<1>8. s.at \in {"drop", "rmData"} => Advances(s, AfterRemove(s))
  BY <1>1, AfterRemoveParts DEF Advances
<1>9. CASE DropEntry(t)
  <2>1. s.at = "drop" => Advances(s, Onward(s, "rmMeta"))
    BY <1>1, OnwardParts DEF Advances
  <2>. QED  BY <1>8, <1>9, <2>1, Moved DEF DropEntry, At, same, outer
<1>10. CASE DropMeta(t)
  <2>1. s.at = "rmMeta" => Advances(s, Onward(s, "rmData"))
    BY <1>1, OnwardParts DEF Advances
  <2>. QED  BY <1>10, <2>1, Moved DEF DropMeta, At, same, outer
<1>11. CASE DropData(t)
  BY <1>8, <1>11, Moved DEF DropData, At, same, outer
<1>12. CASE ExpireData(t)
  <2>1. s.at = "expire" => Advances(s, Put(n, Emptied(s.e), None, "cache"))
    BY MkParts DEF Advances, Put
  <2>. QED  BY <1>12, <2>1, Moved DEF ExpireData, At, same, outer
<1>13. CASE Invalidate(t)
  <2>1. s.at = "invalidate" => Advances(s, Do("drop", n))
    BY DoParts DEF Advances
  <2>. QED  BY <1>13, <2>1, Moved, Ended DEF Invalidate, At, same, outer
<1>. QED  BY <1>2, <1>3, <1>4, <1>5, <1>6, <1>7, <1>9, <1>10, <1>11, <1>12, <1>13

LEMMA ExportingControl ==
    ASSUME TypeOK, Controlled, NEW t \in Task,
           \/ FlushGet(t) \/ FlushDelete(t) \/ FlushHead(t) \/ FlushRead(t) \/ SaveLost(t)
           \/ FlushWrite(t) \/ FlushTag(t) \/ FlushSidecar(t) \/ FlushClean(t) \/ Tally(t)
    PROVE  Controlled'
<1>. USE DEF StatPhase, ReadPhase, WritePhase, DeletePhase, ExportPhase, ListPhase, ExpirePhase,
             DropPhase, Storing, Removing, Putting
<1>. DEFINE s == step[t]  n == step[t].n
<1>1. s \in Step
  BY StepParts
<1>2. CASE FlushGet(t)
  <2>. DEFINE s2 == Mk(IF entries[n].deleted THEN "fpDelete" ELSE "fpHead", n, entries[n], None,
                       "cache")
  <2>1. s.at = "fpGet" => Advances(s, s2)
    BY MkParts DEF Advances
  <2>2. Done(t) \/ Goto(t, s2)
    BY <1>2 DEF FlushGet
  <2>. QED  BY <1>2, <2>1, <2>2, Moved, Ended DEF FlushGet, At, same, outer
<1>3. CASE FlushDelete(t)
  <2>1. s.at = "fpDelete" => Advances(s, Do("drop", n))
    BY DoParts DEF Advances
  <2>. QED  BY <1>3, <2>1, Moved DEF FlushDelete, At, same, outer
<1>4. CASE FlushHead(t)
  <2>1. s.at = "fpHead" => /\ Advances(s, Mk("lfRead", n, s.e, store[n], "conflict"))
                           /\ Advances(s, Onward(s, "fpRead"))
    BY <1>1, MkParts, OnwardParts DEF Advances
  <2>. QED  BY <1>4, <2>1, Moved DEF FlushHead, At, same, outer
<1>5. CASE FlushRead(t)
  <2>. DEFINE s2 == Onward(s, IF s.at = "fpRead" THEN "fpWrite" ELSE "lfSave")
  <2>1. s.at \in {"fpRead", "lfRead"} => Advances(s, s2)
    BY <1>1, OnwardParts DEF Advances
  <2>. QED  BY <1>5, <2>1, Moved, Aborted DEF FlushRead, At, same, outer
<1>6. CASE SaveLost(t)
  <2>1. s.at = "lfSave" => Advances(s, Onward(s, "drop"))
    BY <1>1, OnwardParts DEF Advances
  <2>. QED  BY <1>6, <2>1, Moved DEF SaveLost, At, same, outer
<1>7. CASE FlushWrite(t)
  <2>. DEFINE s2 == Mk(IF Backend = "opendal" THEN "fpTag" ELSE "fpSide", n, s.e, buf[t], "cache")
  <2>1. s.at = "fpWrite" => Advances(s, s2)
    BY MkParts DEF Advances
  <2>2. Goto(t, s2)
    BY <1>7 DEF FlushWrite
  <2>. QED  BY <1>7, <2>1, <2>2, Moved DEF FlushWrite, At, same, outer
<1>8. CASE FlushTag(t)
  <2>1. s.at = "fpTag" => Advances(s, Mk("fpSide", n, s.e, store[n], "cache"))
    BY MkParts DEF Advances
  <2>. QED  BY <1>8, <2>1, Moved DEF FlushTag, At, same, outer
<1>9. CASE FlushSidecar(t)
  <2>1. s.at = "fpSide" => Advances(s, Onward(s, "fpClean"))
    BY <1>1, OnwardParts DEF Advances
  <2>. QED  BY <1>9, <2>1, Moved DEF FlushSidecar, At, same, outer
<1>10. CASE FlushClean(t)
  <2>1. s.at = "fpClean" => Advances(s, Put(n, Cleaned(entries[n], s.c), None, "cache"))
    BY MkParts DEF Advances, Put
  <2>. QED  BY <1>10, <2>1, Moved, Aborted DEF FlushClean, At, same, outer
<1>11. CASE Tally(t)
  BY <1>11, Ended DEF Tally, same
<1>. QED  BY <1>2, <1>3, <1>4, <1>5, <1>6, <1>7, <1>8, <1>9, <1>10, <1>11

(* The loops and the queues.                                               *)

LEMMA TailParts ==
    ASSUME NEW q \in Seq(Step), q # <<>>
    PROVE  /\ \A i \in DOMAIN Tail(q) : i + 1 \in DOMAIN q /\ Tail(q)[i] = q[i + 1] /\ i \in Nat
           /\ \A i \in DOMAIN Tail(q) : i + 1 + 1 \in DOMAIN q => i + 1 \in DOMAIN Tail(q)
           /\ Tail(q) # <<>> => 1 + 1 \in DOMAIN q /\ Tail(q)[1] = q[1 + 1]
           /\ 1 + 1 \in DOMAIN q => Tail(q) # <<>> /\ Tail(q)[1] = q[1 + 1]
<1>1. /\ Len(q) \in Nat \ {0} /\ DOMAIN q = 1 .. Len(q) /\ Tail(q) \in Seq(Step)
      /\ Len(Tail(q)) = Len(q) - 1 /\ DOMAIN Tail(q) = 1 .. (Len(q) - 1)
      /\ \A i \in 1 .. Len(Tail(q)) : Tail(q)[i] = q[i + 1]
  BY HeadTailProperties, EmptySeq
<1>2. Tail(q) # <<>> => Len(Tail(q)) # 0
  BY <1>1, EmptySeq
<1>3. Tail(q) = <<>> => Len(Tail(q)) = 0
  <2>1. Len(<<>>) = 0
    OBVIOUS
  <2>2. ASSUME Tail(q) = <<>> PROVE Len(Tail(q)) = Len(<<>>)
    BY <2>2, Zenon
  <2>. QED  BY <2>1, <2>2
<1>4. \A i \in DOMAIN Tail(q) : i + 1 \in DOMAIN q /\ Tail(q)[i] = q[i + 1] /\ i \in Nat
  BY <1>1
<1>5. \A i \in DOMAIN Tail(q) : i + 1 + 1 \in DOMAIN q => i + 1 \in DOMAIN Tail(q)
  BY <1>1
<1>6. Tail(q) # <<>> <=> 1 + 1 \in DOMAIN q
  BY <1>1, <1>2, <1>3
<1>7. 1 + 1 \in DOMAIN q => Tail(q)[1] = q[1 + 1]
  BY <1>1
<1>. QED  BY <1>4, <1>5, <1>6, <1>7

LEMMA NextCallControl ==
    ASSUME TypeOK, Controlled, NEW t \in Task, NextCall(t) PROVE Controlled'
<1>. DEFINE q == todo[t]
<1>1. q \in Seq(Step) /\ q # <<>> /\ todo'[t] = Tail(q)
      /\ \A u \in Task \ {t} : todo'[u] = todo[u]
  BY DEF NextCall, TypeOK, EngineTypeOK
<1>2. /\ step'[t] = q[1] /\ 1 \in DOMAIN q
      /\ \A u \in Task \ {t} : step'[u] = step[u]
  <2>1. step'[t] = Head(q) /\ \A u \in Task \ {t} : step'[u] = step[u]
    BY Goes DEF NextCall
  <2>. QED  BY <1>1, <2>1
<1>3. /\ \A i \in DOMAIN Tail(q) : i + 1 \in DOMAIN q /\ Tail(q)[i] = q[i + 1] /\ i \in Nat
      /\ \A i \in DOMAIN Tail(q) : i + 1 + 1 \in DOMAIN q => i + 1 \in DOMAIN Tail(q)
      /\ Tail(q) # <<>> => 1 + 1 \in DOMAIN q /\ Tail(q)[1] = q[1 + 1]
      /\ 1 + 1 \in DOMAIN q => Tail(q) # <<>> /\ Tail(q)[1] = q[1 + 1]
  BY <1>1, TailParts
<1>4. Control(op[t], step[t], q, left[t]) /\ Queue(op[t], q)
  BY DEF Controlled, Control
<1>5. Queue(op[t], Tail(q))
  <2>1. \A i \in DOMAIN Tail(q) : Tail(q)[i].at \in Call /\ Fits(op[t], Tail(q)[i])
    BY <1>3, <1>4 DEF Queue
  <2>2. \A i \in DOMAIN Tail(q) : i + 1 \in DOMAIN Tail(q) => Follows(Tail(q)[i], Tail(q)[i + 1])
    BY <1>3, <1>4 DEF Queue
  <2>3. \A i \in DOMAIN Tail(q) : Owes(Tail(q)[i]) =>
           i + 1 \in DOMAIN Tail(q) /\ Tail(q)[i + 1] = Do("fpGet", Tail(q)[i].n)
    BY <1>3, <1>4 DEF Queue
  <2>. QED  BY <2>1, <2>2, <2>3 DEF Queue
<1>6. Fits(op[t], q[1]) /\ Before(q[1], Tail(q))
  BY <1>2, <1>3, <1>4 DEF Queue, Before
<1>7. op[t] \notin {"none", "dead"} /\ UNCHANGED <<op, left>>
  BY DEF NextCall, Running, outer
<1>8. Control(op'[t], step'[t], todo'[t], left'[t])
  BY <1>1, <1>2, <1>4, <1>5, <1>6, <1>7 DEF Control
<1>. QED  BY <1>1, <1>2, <1>7, <1>8, OthersControlled

LEMMA NextIterationControl ==
    ASSUME TypeOK, Controlled, NEW t \in Task, NextIteration(t) PROVE Controlled'
<1>. USE DEF StatPhase, ReadPhase, WritePhase, DeletePhase, ExportPhase, ListPhase, ExpirePhase,
             DropPhase, Storing, Removing, Putting
<1>1. PICK s \in left[t] :
         /\ Goto(t, s)
         /\ left' = [left EXCEPT ![t] = Remaining(@, s)]
         /\ todo' = [todo EXCEPT ![t] = IF op[t] = "flush" THEN <<Do("tally", s.n)>> ELSE <<>>]
  BY DEF NextIteration
<1>2. step'[t] = s /\ \A u \in Task \ {t} : step'[u] = step[u]
  BY <1>1, Goes
<1>3. /\ left'[t] \subseteq left[t]
      /\ todo'[t] = IF op[t] = "flush" THEN <<Do("tally", s.n)>> ELSE <<>>
      /\ \A u \in Task \ {t} : left'[u] = left[u] /\ todo'[u] = todo[u]
  BY <1>1 DEF Remaining, TypeOK, EngineTypeOK
<1>4. Iterates(op[t], s) /\ \A i \in left'[t] : Iterates(op[t], i)
  BY <1>3 DEF Controlled, Control
<1>5. Fits(op[t], s) /\ ~Owes(s)
  BY <1>4 DEF Iterates, Fits, Owes
<1>6. op[t] \notin {"none", "dead"} /\ UNCHANGED op
  BY DEF NextIteration, Running, outer
<1>7. Queue(op[t], todo'[t]) /\ Before(s, todo'[t])
  <2>1. CASE op[t] = "flush"
    <3>. DEFINE q == <<Do("tally", s.n)>>
    <3>1. q[1].at = "tally" /\ DOMAIN q = {1}
      BY DoParts
    <3>2. Queue(op[t], q) /\ Before(s, q)
      <4>. HIDE DEF q
      <4>1. q[1].at \in Call /\ Fits(op[t], q[1]) /\ ~Owes(q[1])
        BY <2>1, <3>1 DEF Call, Fits, Owes
      <4>2. \A i \in DOMAIN q : i = 1 /\ ~(i + 1 \in DOMAIN q)
        BY <3>1
      <4>. QED  BY <1>5, <3>1, <4>1, <4>2 DEF Queue, Before, Follows
    <3>. QED  BY <1>3, <2>1, <3>2
  <2>2. CASE op[t] # "flush"
    BY <1>3, <1>5, <2>2 DEF Queue, Before
  <2>. QED  BY <2>1, <2>2
<1>8. Control(op'[t], step'[t], todo'[t], left'[t])
  BY <1>2, <1>4, <1>5, <1>6, <1>7 DEF Control
<1>. QED  BY <1>2, <1>3, <1>6, <1>8, OthersControlled

LEMMA NoStepParts == NoStep.at = "done" /\ NoStep.by = "cache"
BY DoParts DEF NoStep

LEMMA Idle == \A name : Control(name, NoStep, <<>>, {})
<1>1. \A name : Fits(name, NoStep) /\ Queue(name, <<>>)
  BY NoStepParts DEF Fits, Queue
<1>2. Before(NoStep, <<>>)
  BY NoStepParts DEF Before, Owes, WritePhase, DeletePhase, Storing
<1>. QED  BY <1>1, <1>2, NoStepParts DEF Control

LEMMA ReturnControl ==
    ASSUME TypeOK, Controlled, NEW t \in Task, Return(t) PROVE Controlled'
<1>1. step'[t] = NoStep /\ \A u \in Task \ {t} : step'[u] = step[u]
  BY Goes DEF Return
<1>2. todo'[t] = <<>> /\ left'[t] = {} /\ UNCHANGED <<todo, left>>
  BY DEF Return, Finished
<1>3. \A u \in Task \ {t} : op'[u] = op[u]
  BY DEF Return, TypeOK, EngineTypeOK
<1>4. Control(op'[t], step'[t], todo'[t], left'[t])
  BY <1>1, <1>2, Idle
<1>. QED  BY <1>1, <1>2, <1>3, <1>4, OthersControlled

LEMMA ProceedsControl ==
    ASSUME TypeOK, Controlled, NEW t \in Task, Proceeds(t) PROVE Controlled'
BY ReadingControl, WritingControl, ExportingControl, NextCallControl, NextIterationControl,
   ReturnControl DEF Proceeds

(* The calls.                                                              *)

(* Two queues in a row, when what the first ends with and what the second  *)
(* begins with may follow each other.                                      *)
LEMMA Joined ==
    ASSUME NEW name, NEW q \in Seq(Step), NEW r \in Seq(Step), Queue(name, q), Queue(name, r),
           q # <<>> /\ r # <<>> => Follows(q[Len(q)], r[1])
    PROVE  Queue(name, q \o r) /\ q \o r \in Seq(Step)
<1>. DEFINE j == q \o r
<1>1. /\ Len(q) \in Nat /\ Len(r) \in Nat /\ j \in Seq(Step) /\ Len(j) = Len(q) + Len(r)
      /\ DOMAIN q = 1 .. Len(q) /\ DOMAIN r = 1 .. Len(r) /\ DOMAIN j = 1 .. Len(q) + Len(r)
      /\ \A i \in 1 .. Len(q) : j[i] = q[i]
      /\ \A i \in 1 .. Len(q) + Len(r) : i > Len(q) => j[i] = r[i - Len(q)]
  OBVIOUS
<1>2. /\ Len(q) > 0 => q # <<>>
      /\ Len(r) > 0 => r # <<>>
  OBVIOUS
<1>3. ASSUME NEW i \in DOMAIN j
      PROVE  /\ j[i].at \in Call /\ Fits(name, j[i])
             /\ i + 1 \in DOMAIN j => Follows(j[i], j[i + 1])
             /\ Owes(j[i]) => i + 1 \in DOMAIN j /\ j[i + 1] = Do("fpGet", j[i].n)
  <2>. HIDE DEF j
  <2>1. CASE i + 1 \in DOMAIN q
    <3>1. i \in DOMAIN q /\ j[i] = q[i] /\ j[i + 1] = q[i + 1] /\ i + 1 \in DOMAIN j
      BY <1>1, <2>1
    <3>. QED  BY <2>1, <3>1 DEF Queue
  <2>2. CASE i = Len(q)
    <3>1. i \in DOMAIN q /\ j[i] = q[i] /\ ~(i + 1 \in DOMAIN q) /\ q # <<>>
      BY <1>1, <1>2, <2>2, <1>3
    <3>2. j[i].at \in Call /\ Fits(name, j[i]) /\ ~Owes(j[i])
      BY <3>1 DEF Queue
    <3>3. i + 1 \in DOMAIN j => r # <<>> /\ j[i + 1] = r[1]
      BY <1>1, <1>2, <2>2
    <3>4. r # <<>> => Follows(j[i], r[1])
      BY <2>2, <3>1
    <3>. QED  BY <3>2, <3>3, <3>4
  <2>3. CASE i > Len(q)
    <3>. DEFINE k == i - Len(q)
    <3>1. /\ i \in Nat /\ i <= Len(q) + Len(r) /\ k \in DOMAIN r
          /\ i + 1 \in DOMAIN j <=> k + 1 \in DOMAIN r
      BY <1>1, <1>3, <2>3
    <3>3. j[i] = r[k]
      BY <1>1, <1>3, <2>3
    <3>2. k + 1 \in DOMAIN r => j[i + 1] = r[k + 1]
      BY <1>1, <1>3, <2>3
    <3>. HIDE DEF k
    <3>. QED  BY <3>1, <3>2, <3>3 DEF Queue
  <2>. QED  BY <1>1, <1>3, <2>1, <2>2, <2>3
<1>. QED  BY <1>1, <1>3 DEF Queue

LEMMA BeginControl ==
    ASSUME TypeOK, Controlled, NEW t \in Task, NEW name \in OpName, NEW first, NEW rest, NEW loop,
           Begin(t, name, first, rest, loop), Control(name, first, rest, loop)
    PROVE  Controlled'
<1>1. step'[t] = first /\ \A u \in Task \ {t} : step'[u] = step[u]
  BY Goes DEF Begin
<1>2. /\ op'[t] = name /\ todo'[t] = rest /\ left'[t] = loop
      /\ \A u \in Task \ {t} : op'[u] = op[u] /\ todo'[u] = todo[u] /\ left'[u] = left[u]
  BY DEF Begin, TypeOK, EngineTypeOK
<1>. QED  BY <1>1, <1>2, OthersControlled

(* A mutation, and the export it owes.                                     *)
LEMMA MutationQueue ==
    ASSUME NEW n \in Path, NEW l \in {"writeHead", "delGet"},
           NEW name \in {"write", "delete", "rename"},
           l = "writeHead" => name \in {"write", "rename"},
           l = "delGet" => name \in {"delete", "rename"}
    PROVE  /\ Control(name, Do(l, n), Export(n), {})
           /\ Queue(name, <<Do(l, n)>> \o Export(n)) /\ <<Do(l, n)>> \o Export(n) \in Seq(Step)
           /\ <<Do(l, n)>> \o Export(n) # <<>> /\ (<<Do(l, n)>> \o Export(n))[1] = Do(l, n)
<1>. USE DEF StatPhase, ReadPhase, WritePhase, DeletePhase, ExportPhase, ListPhase, ExpirePhase,
             DropPhase, Storing, Removing, Putting
<1>1. /\ Fits(name, Do(l, n)) /\ Fits(name, Do("fpGet", n)) /\ ~Owes(Do("fpGet", n))
      /\ Owes(Do(l, n)) <=> BatchWindow = 0
  BY DoParts DEF Fits, Owes
<1>2. Do(l, n) \in Step /\ Do("fpGet", n) \in Step /\ Export(n) \in Seq(Step)
  BY DoType, ExportType DEF Label, Call, Carrier, Name
<1>3. CASE BatchWindow = 0
  <2>. DEFINE s == Do(l, n)  f == Do("fpGet", n)  q == <<s>> \o <<f>>
  <2>1. Export(n) = <<f>>
    BY <1>3 DEF Export
  <2>2. s.at = l /\ s.n = n /\ f.at = "fpGet" /\ f.n = n
    BY DoParts
  <2>. HIDE DEF s, f
  <2>3. q \in Seq(Step) /\ q # <<>> /\ DOMAIN q = {1, 2} /\ q[1] = s /\ q[2] = f
    <3>1. <<s>> \in Seq(Step) /\ <<f>> \in Seq(Step) /\ Len(<<s>>) = 1 /\ Len(<<f>>) = 1
          /\ <<s>>[1] = s /\ <<f>>[1] = f
      BY <1>2 DEF s, f
    <3>2. q \in Seq(Step) /\ Len(q) = 1 + 1 /\ q[1] = s /\ q[1 + 1] = f
      BY <3>1, ConcatProperties
    <3>. HIDE DEF q
    <3>. QED  BY <3>2
  <2>4. Queue(name, <<f>>)
    <3>1. \A i \in DOMAIN <<f>> : i = 1 /\ <<f>>[i] = f /\ ~(i + 1 \in DOMAIN <<f>>)
      OBVIOUS
    <3>. QED  BY <1>1, <2>2, <3>1 DEF Queue, Call, f
  <2>5. Queue(name, q)
    <3>. HIDE DEF q
    <3>1. \A i \in DOMAIN q : i = 1 \/ (i = 2 /\ ~(i + 1 \in DOMAIN q))
      BY <2>3
    <3>2. Follows(s, f)
      BY <2>2 DEF Follows
    <3>3. 1 + 1 \in DOMAIN q /\ q[1 + 1] = f /\ f = Do("fpGet", s.n)
      BY <2>2, <2>3 DEF f
    <3>4. s.at \in Call /\ f.at \in Call
      BY <2>2 DEF Call
    <3>5. Fits(name, s) /\ Fits(name, f) /\ ~Owes(f)
      BY <1>1 DEF s, f
    <3>. QED  BY <2>3, <3>1, <3>2, <3>3, <3>4, <3>5 DEF Queue
  <2>6. Before(s, <<f>>)
    BY <2>2 DEF Before, Follows, f
  <2>. QED  BY <1>1, <2>1, <2>3, <2>4, <2>5, <2>6 DEF Control, s
<1>4. CASE BatchWindow # 0
  <2>. DEFINE s == Do(l, n)  q == <<s>>
  <2>1. Export(n) = <<>> /\ <<s>> \o <<>> = q
    BY <1>2, <1>4 DEF Export
  <2>2. s.at = l /\ s.n = n
    BY DoParts
  <2>3. q \in Seq(Step) /\ q # <<>> /\ q[1] = s
    BY <1>2
  <2>4. Queue(name, <<>>) /\ Queue(name, q)
    <3>1. \A i \in DOMAIN q : i = 1 /\ q[i] = s /\ ~(i + 1 \in DOMAIN q)
      OBVIOUS
    <3>. QED  BY <1>1, <1>4, <2>2, <3>1 DEF Queue, Call
  <2>5. Before(s, <<>>)
    BY <1>1, <1>4 DEF Before
  <2>. QED  BY <1>1, <2>1, <2>3, <2>4, <2>5 DEF Control
<1>. QED  BY <1>3, <1>4

LEMMA BeginsControl ==
    ASSUME TypeOK, Controlled, NEW t \in Task, Begins(t) PROVE Controlled'
<1>. USE DEF StatPhase, ReadPhase, WritePhase, DeletePhase, ExportPhase, ListPhase, ExpirePhase,
             DropPhase, Storing, Removing, Putting, OpName
<1>1. \A name : Fits(name, NoStep) /\ Queue(name, <<>>) /\ Before(NoStep, <<>>)
  BY Idle DEF Control
<1>2. \A n \in Path : \A l \in Call : Do(l, n) \in Step
  BY DoType DEF Name, Call, Label, Carrier
<1>3. \A n, q : ~Owes(Do("stat", n)) /\ ~Owes(Do("readGet", n)) /\ ~Owes(Do("invalidate", n))
  BY DoParts DEF Owes
<1>4. ASSUME NEW n \in Path, Stat(t, n) PROVE Controlled'
  <2>1. Fits("stat", Do("stat", n)) /\ Before(Do("stat", n), <<>>)
    BY <1>3, DoParts DEF Fits, Before
  <2>2. Control("stat", Do("stat", n), <<>>, {})
    BY <1>1, <2>1 DEF Control
  <2>. QED  BY <1>4, <2>2, BeginControl DEF Stat
<1>5. ASSUME NEW n \in Path, NEW name \in {"read", "rename"}
      PROVE  /\ Queue(name, <<Do("stat", n), Do("readGet", n)>>)
             /\ Queue(name, <<Do("stat", n), Do("stat", n), Do("readGet", n)>>)
             /\ Fits(name, Do("stat", n))
             /\ \A q : q[1] = Do("stat", n) => Before(Do("stat", n), q)
  <2>. DEFINE s == Do("stat", n)  g == Do("readGet", n)
  <2>1. /\ s.at \in Call /\ g.at \in Call /\ Fits(name, s) /\ Fits(name, g)
        /\ Follows(s, g) /\ Follows(s, s) /\ ~Owes(s) /\ ~Owes(g)
    BY <1>3, DoParts DEF Fits, Follows, Call
  <2>. HIDE DEF s, g
  <2>2. Queue(name, <<s, g>>)
    <3>. DEFINE q == <<s, g>>
    <3>1. \A i \in DOMAIN q : (i = 1 /\ q[i] = s /\ q[i + 1] = g)
                              \/ (i = 2 /\ q[i] = g /\ ~(i + 1 \in DOMAIN q))
      OBVIOUS
    <3>. HIDE DEF q
    <3>2. Queue(name, q)
      BY <2>1, <3>1 DEF Queue
    <3>. QED  BY <3>2 DEF q
  <2>3. Queue(name, <<s, s, g>>)
    <3>. DEFINE q == <<s, s, g>>
    <3>1. \A i \in DOMAIN q : (i = 1 /\ q[i] = s /\ q[i + 1] = s)
                              \/ (i = 2 /\ q[i] = s /\ q[i + 1] = g)
                              \/ (i = 3 /\ q[i] = g /\ ~(i + 1 \in DOMAIN q))
      OBVIOUS
    <3>. HIDE DEF q
    <3>2. Queue(name, q)
      BY <2>1, <3>1 DEF Queue
    <3>. QED  BY <3>2 DEF q
  <2>4. \A q : q[1] = s => Before(s, q)
    BY <2>1 DEF Before
  <2>. QED  BY <2>1, <2>2, <2>3, <2>4 DEF s, g
<1>6. ASSUME NEW n \in Path, Read(t, n) PROVE Controlled'
  <2>. DEFINE q == <<Do("stat", n), Do("readGet", n)>>
  <2>1. q[1] = Do("stat", n)
    OBVIOUS
  <2>2. Queue("read", q)
    BY <1>5
  <2>3. Begin(t, "read", Do("stat", n), q, {})
    BY <1>6 DEF Read
  <2>. HIDE DEF q
  <2>4. Control("read", Do("stat", n), q, {})
    BY <1>5, <2>1, <2>2 DEF Control
  <2>. QED  BY <2>3, <2>4, BeginControl
<1>7. ASSUME NEW n \in Path, DeletePath(t, n) PROVE Controlled'
  BY <1>7, MutationQueue, BeginControl DEF DeletePath
<1>8. ASSUME NEW n \in Path, InvalidatePath(t, n) PROVE Controlled'
  <2>1. Fits("invalidate", Do("invalidate", n)) /\ Before(Do("invalidate", n), <<>>)
    BY <1>3, DoParts DEF Fits, Before
  <2>2. Control("invalidate", Do("invalidate", n), <<>>, {})
    BY <1>1, <2>1 DEF Control
  <2>. QED  BY <1>8, <2>2, BeginControl DEF InvalidatePath
<1>9. ASSUME NEW n \in Path, NEW d \in Data, WriteFile(t, n, d) PROVE Controlled'
  BY <1>9, MutationQueue, BeginControl DEF WriteFile
<1>10. ASSUME NEW from \in Path, NEW to \in Path, RenamePath(t, from, to) PROVE Controlled'
  <2>. DEFINE q == <<Do("stat", from), Do("stat", from), Do("readGet", from)>>
              w == <<Do("writeHead", to)>> \o Export(to)
              d == <<Do("delGet", from)>> \o Export(from)
              rest == q \o w \o d
  <2>1. /\ Queue("rename", w) /\ w \in Seq(Step) /\ w # <<>>
        /\ Queue("rename", d) /\ d \in Seq(Step) /\ d # <<>> /\ d[1] = Do("delGet", from)
        /\ w[1] = Do("writeHead", to)
    BY MutationQueue
  <2>2. q \in Seq(Step) /\ q[1] = Do("stat", from) /\ q[Len(q)] = Do("readGet", from) /\ q # <<>>
    BY <1>2 DEF Call
  <2>3. Queue("rename", q)
    BY <1>5
  <2>4. rest = q \o <<Do("writeHead", to)>> \o Export(to) \o <<Do("delGet", from)>> \o Export(from)
    <3>1. /\ <<Do("writeHead", to)>> \in Seq(Step) /\ <<Do("delGet", from)>> \in Seq(Step)
          /\ Export(to) \in Seq(Step) /\ Export(from) \in Seq(Step)
      BY <1>2, ExportType DEF Call, Name
    <3>. HIDE DEF q
    <3>. QED  BY <2>2, <3>1, ConcatAssociative, ConcatProperties
  <2>5. Begin(t, "rename", Do("stat", from), rest, {})
    BY <1>10, <2>4 DEF RenamePath
  <2>. HIDE DEF q, w, d
  <2>6. Follows(q[Len(q)], w[1])
    BY <2>1, <2>2, DoParts DEF Follows
  <2>7. Queue("rename", q \o w) /\ q \o w \in Seq(Step)
    BY <2>1, <2>2, <2>3, <2>6, Joined
  <2>8. \A s : Follows(s, d[1])
    BY <2>1, DoParts DEF Follows
  <2>9. Queue("rename", rest)
    BY <2>1, <2>7, <2>8, Joined
  <2>10. rest[1] = Do("stat", from)
    BY <2>1, <2>2
  <2>. HIDE DEF rest
  <2>11. Control("rename", Do("stat", from), rest, {})
    BY <1>5, <2>9, <2>10 DEF Control
  <2>. QED  BY <2>5, <2>11, BeginControl
<1>11. CASE ListDir(t)
  <2>. DEFINE loop == {Put(m, Import(store[m]), None, "list") : m \in {m \in Name : store[m] # None}}
  <2>1. \A i \in loop : Iterates("list", i)
    BY MkParts DEF Iterates, Put
  <2>2. Begin(t, "list", NoStep, <<>>, loop)
    BY <1>11 DEF ListDir
  <2>. HIDE DEF loop
  <2>3. Control("list", NoStep, <<>>, loop)
    BY <1>1, <2>1 DEF Control
  <2>. QED  BY <2>2, <2>3, BeginControl
<1>12. CASE Flush(t)
  <2>. DEFINE loop == {Do("fpGet", m) : m \in DirtyNames}
  <2>1. \A i \in loop : Iterates("flush", i)
    BY DoParts DEF Iterates
  <2>2. Begin(t, "flush", NoStep, <<>>, loop)
    BY <1>12 DEF Flush
  <2>. HIDE DEF loop
  <2>3. Control("flush", NoStep, <<>>, loop)
    BY <1>1, <2>1 DEF Control
  <2>. QED  BY <2>2, <2>3, BeginControl
<1>13. CASE ExpireCache(t)
  <2>. DEFINE loop == {Mk("expire", m, entries[m], None, "cache") :
                          m \in {m \in Name : Expirable(entries[m])}}
  <2>1. \A i \in loop : Iterates("expire", i)
    BY MkParts DEF Iterates
  <2>2. Begin(t, "expire", NoStep, <<>>, loop)
    BY <1>13 DEF ExpireCache
  <2>. HIDE DEF loop
  <2>3. Control("expire", NoStep, <<>>, loop)
    BY <1>1, <2>1 DEF Control
  <2>. QED  BY <2>2, <2>3, BeginControl
<1>14. ASSUME NEW prefix \in Prefix, InvalidatePrefix(t, prefix) PROVE Controlled'
  <2>. DEFINE loop == {Do("drop", m) : m \in {m \in prefix : Droppable(entries[m])}}
  <2>1. \A i \in loop : Iterates("invalidatePrefix", i)
    BY DoParts DEF Iterates
  <2>2. Begin(t, "invalidatePrefix", NoStep, <<>>, loop)
    BY <1>14 DEF InvalidatePrefix
  <2>. HIDE DEF loop
  <2>3. Control("invalidatePrefix", NoStep, <<>>, loop)
    BY <1>1, <2>1 DEF Control
  <2>. QED  BY <2>2, <2>3, BeginControl
<1>. QED  BY <1>4, <1>6, <1>7, <1>8, <1>9, <1>10, <1>11, <1>12, <1>13, <1>14 DEF Begins

LEMMA ControlledInit == Init => Controlled
BY Idle DEF Init, Controlled

LEMMA ControlledNext == ASSUME TypeOK, Controlled, [Next]_vars PROVE Controlled'
<1>1. ASSUME NEW t \in Task, Begins(t) PROVE Controlled'
  BY <1>1, BeginsControl
<1>2. ASSUME NEW t \in Task, Proceeds(t) PROVE Controlled'
  BY <1>2, ProceedsControl
<1>3. ASSUME NEW t \in Task, BackendFails(t) PROVE Controlled'
  BY <1>3, Aborted DEF BackendFails
<1>4. ASSUME NEW n, NEW c, Remote(n, c) PROVE Controlled'
  BY <1>4 DEF Remote, taskVars, Controlled
<1>5. CASE Age
  BY <1>5 DEF Age, taskVars, Controlled
<1>6. CASE Crash
  BY <1>6, Idle DEF Crash, Controlled
<1>7. CASE UNCHANGED vars
  BY <1>7 DEF vars, taskVars, Controlled
<1>. QED  BY <1>1, <1>2, <1>3, <1>4, <1>5, <1>6, <1>7 DEF Next

(* Every task is in a phase of the call it runs, its queue and its loop    *)
(* are what is left of that call, a rename has nothing to write before it  *)
(* has read, and without a batch window a mutation is followed by its      *)
(* export: for any tasks, calls and mishaps.                               *)
THEOREM CallsInOrder == Spec => []Controlled
<1>1. Init => Controlled
  BY ControlledInit
<1>2. TypeOK /\ Controlled /\ [Next]_vars => Controlled'
  BY ControlledNext
<1>. QED  BY <1>1, <1>2, TypeCorrect, PTL DEF Spec

-----------------------------------------------------------------------------
(* One task: the index and the metadata files.                             *)

OneTask == \A t, u \in Task : t = u

IndexOf(s) ==
    /\ s.at \notin {"insert", "rmMeta", "rmData"} => meta[s.n] = entries[s.n]
    /\ s.at = "insert" => meta[s.n] = s.e
    /\ s.at \in {"rmMeta", "rmData"} => entries[s.n] = None
    /\ s.at = "rmData" => meta[s.n] = None

(* Every name has the same entry in memory and on disk, but for the one    *)
(* whose entry is being put or removed.                                    *)
IndexInv ==
    /\ \A n \in Name : (\A t \in Task : step[t].n # n) => meta[n] = entries[n]
    /\ \A t \in Task : IndexOf(step[t])

(* No data file without an entry, but for the one being written or removed. *)
NoOrphan == \A n \in Name : Quiet(n) /\ entries[n] = None => data[n] = None

(* Where an entry or its files are halfway through an update.              *)
AtWork == {"fill", "put", "insert", "rmMeta", "rmData"}

(* The steps that leave the index and the files alone.                     *)
Deciding(t) ==
    \/ StatCache(t) \/ StatHead(t) \/ ReadGet(t) \/ ReadBytes(t) \/ Fetch(t) \/ FetchLookup(t)
    \/ ListRead(t) \/ WriteHead(t) \/ DeleteGet(t) \/ FlushGet(t) \/ FlushDelete(t)
    \/ FlushHead(t) \/ FlushRead(t) \/ FlushWrite(t) \/ FlushTag(t) \/ FlushSidecar(t)
    \/ FlushClean(t) \/ Invalidate(t) \/ Tally(t) \/ NextCall(t) \/ NextIteration(t)
    \/ Return(t) \/ Begins(t) \/ BackendFails(t)

(* And those that do not.                                                  *)
Updating(t) ==
    \/ PutMeta(t) \/ InsertEntry(t) \/ TruncateData(t) \/ FillData(t) \/ DropEntry(t)
    \/ DropMeta(t) \/ DropData(t) \/ SaveLost(t) \/ ExpireData(t)

LEMMA Split ==
    ASSUME NEW t, Begins(t) \/ Proceeds(t) \/ BackendFails(t)
    PROVE  Deciding(t) \/ Updating(t)
BY DEF Proceeds, Deciding, Updating

LEMMA BeginsFirst ==
    ASSUME TypeOK, NEW t \in Task, Begins(t)
    PROVE  /\ op[t] = "none" /\ UNCHANGED <<cacheVars, store, len, err, ok, used, pending>>
           /\ step'[t].at \in {"stat", "writeHead", "delGet", "invalidate", "done"}
<1>1. \A name, first, rest, loop : Begin(t, name, first, rest, loop) =>
         op[t] = "none" /\ UNCHANGED <<cacheVars, store, len, err, ok, used, pending>>
         /\ step'[t] = first
  BY Goes DEF Begin
<1>2. ASSUME NEW n \in Path, Stat(t, n) \/ Read(t, n) \/ DeletePath(t, n) \/ InvalidatePath(t, n)
      PROVE  \E l \in {"stat", "delGet", "invalidate"} : \E name, rest, loop :
                Begin(t, name, Do(l, n), rest, loop)
  BY <1>2 DEF Stat, Read, DeletePath, InvalidatePath
<1>3. ASSUME NEW n \in Path, NEW d \in Data, WriteFile(t, n, d)
      PROVE  \E name, rest, loop : Begin(t, name, Do("writeHead", n), rest, loop)
  BY <1>3 DEF WriteFile
<1>4. ASSUME NEW from \in Path, NEW to \in Path, RenamePath(t, from, to)
      PROVE  \E name, rest, loop : Begin(t, name, Do("stat", from), rest, loop)
  BY <1>4, Zenon DEF RenamePath
<1>5. ASSUME \/ \E prefix \in Prefix : InvalidatePrefix(t, prefix)
             \/ ListDir(t) \/ Flush(t) \/ ExpireCache(t)
      PROVE  \E name, rest, loop : Begin(t, name, NoStep, rest, loop)
  BY <1>5, Zenon DEF InvalidatePrefix, ListDir, Flush, ExpireCache
<1>. HIDE DEF Begin
<1>6. \E name, first, rest, loop :
         /\ Begin(t, name, first, rest, loop)
         /\ first.at \in {"stat", "writeHead", "delGet", "invalidate", "done"}
  BY <1>2, <1>3, <1>4, <1>5, DoParts, NoStepParts DEF Begins
<1>. QED  BY <1>1, <1>6

LEMMA IdleIsDone ==
    ASSUME Controlled, NEW t \in Task, ~Running(t)
    PROVE  step[t].at = "done" /\ todo[t] = <<>> /\ left[t] = {}
BY DEF Controlled, Control, Running

LEMMA EndsDone ==
    ASSUME TypeOK, NEW t \in Task, Done(t) \/ Abort(t)
    PROVE  step'[t] = Do("done", step[t].n) /\ step'[t].at = "done" /\ step'[t].n = step[t].n
BY Goes, DoParts DEF Abort, Done

LEMMA Decided ==
    ASSUME TypeOK, Controlled, NEW t \in Task, Deciding(t)
    PROVE  /\ UNCHANGED cacheVars
           /\ step[t].at \notin AtWork \cup {"trunc"}
           /\ step'[t].at \notin {"fill", "insert", "rmMeta", "rmData"}
<1>. DEFINE s == step[t]
<1>1. s \in Step
  BY StepParts
<1>2. CASE \/ StatCache(t) \/ StatHead(t) \/ ReadGet(t) \/ ReadBytes(t) \/ Fetch(t)
           \/ FetchLookup(t) \/ ListRead(t) \/ WriteHead(t) \/ DeleteGet(t)
  <2>1. \/ Done(t) \/ Abort(t)
        \/ \E l \in {"statHead", "put", "direct", "fetch", "lookup", "trunc"} :
              \E m, e, c, by : Goto(t, Mk(l, m, e, c, by))
    BY <1>2 DEF StatCache, StatHead, ReadGet, ReadBytes, Fetch, FetchLookup, ListRead, WriteHead,
                DeleteGet, Do, Put, Fetched
  <2>2. step'[t].at \in {"done", "statHead", "put", "direct", "fetch", "lookup", "trunc"}
    BY <2>1, EndsDone, Goes, MkParts
  <2>. QED  BY <1>2, <2>2 DEF StatCache, StatHead, ReadGet, ReadBytes, Fetch, FetchLookup,
                              ListRead, WriteHead, DeleteGet, At, AtWork
<1>3. CASE \/ FlushGet(t) \/ FlushDelete(t) \/ FlushHead(t) \/ FlushRead(t) \/ FlushWrite(t)
           \/ FlushTag(t) \/ FlushSidecar(t) \/ FlushClean(t) \/ Invalidate(t) \/ Tally(t)
  <2>1. \/ Done(t) \/ Abort(t)
        \/ \E l \in {"fpDelete", "fpHead", "drop", "lfRead", "fpTag", "fpSide", "put"} :
              \E m, e, c, by : Goto(t, Mk(l, m, e, c, by))
        \/ \E l \in {"fpRead", "fpWrite", "lfSave", "fpClean"} : Goto(t, Onward(s, l))
    BY <1>3 DEF FlushGet, FlushDelete, FlushHead, FlushRead, FlushWrite, FlushTag, FlushSidecar,
                FlushClean, Invalidate, Tally, Do, Put
  <2>2. step'[t].at \in {"done", "fpDelete", "fpHead", "drop", "lfRead", "fpTag", "fpSide", "put",
                         "fpRead", "fpWrite", "lfSave", "fpClean"}
    BY <1>1, <2>1, EndsDone, Goes, MkParts, OnwardParts
  <2>. QED  BY <1>3, <2>2 DEF FlushGet, FlushDelete, FlushHead, FlushRead, FlushWrite, FlushTag,
                              FlushSidecar, FlushClean, Invalidate, Tally, At, AtWork
<1>4. CASE NextCall(t) \/ NextIteration(t) \/ Return(t)
  <2>1. CASE NextCall(t)
    <3>1. todo[t] \in Seq(Step) /\ todo[t] # <<>> /\ step'[t] = Head(todo[t])
      BY <2>1, Goes DEF NextCall, TypeOK, EngineTypeOK
    <3>2. step'[t] = todo[t][1] /\ 1 \in DOMAIN todo[t]
      BY <3>1
    <3>3. step'[t].at \in Call
      BY <3>2 DEF Controlled, Control, Queue
    <3>. QED  BY <2>1, <3>3 DEF NextCall, At, AtWork, Call
  <2>2. CASE NextIteration(t)
    <3>1. step'[t] \in left[t]
      BY <2>2, Goes DEF NextIteration
    <3>2. Iterates(op[t], step'[t])
      BY <3>1 DEF Controlled, Control
    <3>. QED  BY <2>2, <3>2 DEF NextIteration, At, AtWork, Iterates
  <2>3. CASE Return(t)
    BY <2>3, Goes, NoStepParts DEF Return, Finished, At, AtWork
  <2>. QED  BY <1>4, <2>1, <2>2, <2>3
<1>5. CASE Begins(t)
  <2>1. s.at = "done"
    BY <1>5, BeginsFirst, IdleIsDone DEF Running
  <2>. QED  BY <1>5, <2>1, BeginsFirst DEF AtWork
<1>6. CASE BackendFails(t)
  BY <1>6, EndsDone DEF BackendFails, BackendCall, AtWork
<1>. QED  BY <1>2, <1>3, <1>4, <1>5, <1>6 DEF Deciding

(* With one task, what holds of it holds of all.                           *)
LEMMA IndexFrom ==
    ASSUME OneTask, NEW t \in Task,
           \A n \in Name : n # step'[t].n => meta'[n] = entries'[n], IndexOf(step[t])'
    PROVE  IndexInv'
BY DEF OneTask, IndexInv

LEMMA IndexNow ==
    ASSUME OneTask, IndexInv, NEW t \in Task
    PROVE  /\ \A n \in Name : n # step[t].n => meta[n] = entries[n]
           /\ IndexOf(step[t])
BY DEF OneTask, IndexInv

LEMMA DecidingIndex ==
    ASSUME OneTask, TypeOK, Controlled, IndexInv, NEW t \in Task, Deciding(t) PROVE IndexInv'
<1>1. \A n \in Name : meta[n] = entries[n]
  BY Decided, IndexNow DEF IndexOf, AtWork
<1>2. \A n \in Name : meta'[n] = entries'[n]
  BY <1>1, Decided DEF cacheVars
<1>3. IndexOf(step[t])'
  <2>1. step'[t].n \in Name
    <3>1. TypeOK'
      BY BeginsType, ProceedsType, BackendFailsType DEF Deciding, Proceeds
    <3>. QED  BY <3>1 DEF TypeOK, EngineTypeOK, Step
  <2>. QED  BY <1>2, <2>1, Decided DEF IndexOf
<1>. QED  BY <1>2, <1>3, IndexFrom

(* What an update changes: the name of its step, or one in lost+found.     *)
LEMMA UpdatingIndex ==
    ASSUME OneTask, TypeOK, IndexInv, NEW t \in Task, Updating(t) PROVE IndexInv'
<1>. DEFINE s == step[t]  n == step[t].n  s2 == step'[t]
<1>1. s \in Step /\ n \in Name
  BY StepParts
<1>2. (\A m \in Name : m # n => meta[m] = entries[m]) /\ IndexOf(s)
  BY IndexNow
<1>3. CASE PutMeta(t)
  <2>1. s2 = Onward(s, "insert") /\ s.at = "put"
    BY <1>3, Goes DEF PutMeta, At
  <2>2. s2.at = "insert" /\ s2.n = n /\ s2.e = s.e
    BY <1>1, <2>1, OnwardParts
  <2>3. meta' = [meta EXCEPT ![n] = s.e] /\ entries' = entries
    BY <1>3 DEF PutMeta, WriteMeta
  <2>4. meta'[n] = s.e /\ \A m \in Name : m # n => meta'[m] = meta[m]
    BY <1>1, <2>3 DEF TypeOK, CacheTypeOK
  <2>5. IndexOf(step[t])'
    BY <2>2, <2>4 DEF IndexOf
  <2>. QED  BY <1>2, <2>2, <2>3, <2>4, <2>5, IndexFrom
<1>4. CASE InsertEntry(t)
  <2>1. s.at = "insert" /\ entries' = [entries EXCEPT ![n] = s.e] /\ meta' = meta
    BY <1>4 DEF InsertEntry, At, Insert
  <2>2. entries'[n] = s.e /\ \A m \in Name : m # n => entries'[m] = entries[m]
    BY <1>1, <2>1 DEF TypeOK, CacheTypeOK
  <2>3. s2.n = n /\ s2.at \in {"done", "cacheRead", "listRead"}
    BY <1>1, <1>4, EndsDone, Goes, DoParts, OnwardParts DEF InsertEntry, AfterInsert
  <2>4. IndexOf(step[t])'
    BY <1>2, <2>1, <2>2, <2>3 DEF IndexOf
  <2>. QED  BY <1>2, <2>1, <2>2, <2>3, <2>4, IndexFrom
<1>5. CASE TruncateData(t) \/ FillData(t) \/ ExpireData(t)
  <2>1. \/ s2 = Onward(s, "fill") \/ s2 = Onward(s, "put")
        \/ s2 = Put(n, Emptied(s.e), None, "cache")
    BY <1>5, Goes DEF TruncateData, FillData, ExpireData
  <2>2. s2.n = n /\ s2.at \in {"fill", "put"}
    BY <1>1, <2>1, OnwardParts, MkParts DEF Put
  <2>3. UNCHANGED <<entries, meta>> /\ s.at \in {"trunc", "fill", "expire"}
    BY <1>5 DEF TruncateData, FillData, ExpireData, At
  <2>4. IndexOf(step[t])'
    BY <1>2, <2>2, <2>3 DEF IndexOf
  <2>. QED  BY <1>2, <2>2, <2>3, <2>4, IndexFrom
<1>6. CASE DropEntry(t)
  <2>1. s.at = "drop" /\ entries' = [entries EXCEPT ![n] = None] /\ meta' = meta
    BY <1>6 DEF DropEntry, At, Remove
  <2>2. entries'[n] = None /\ \A m \in Name : m # n => entries'[m] = entries[m]
    BY <1>1, <2>1 DEF TypeOK, CacheTypeOK
  <2>3. CASE entries[n] = None
    <3>1. s2 = AfterRemove(s)
      BY <1>6, <2>3, Goes DEF DropEntry
    <3>2. s2.n = n /\ s2.at \in {"done", "put"}
      BY <1>1, <3>1, AfterRemoveParts
    <3>3. IndexOf(step[t])'
      BY <1>2, <2>1, <2>2, <2>3, <3>2 DEF IndexOf
    <3>. QED  BY <1>2, <2>1, <2>2, <3>2, <3>3, IndexFrom
  <2>4. CASE entries[n] # None
    <3>1. s2 = Onward(s, "rmMeta")
      BY <1>6, <2>4, Goes DEF DropEntry
    <3>2. s2.n = n /\ s2.at = "rmMeta"
      BY <1>1, <3>1, OnwardParts
    <3>3. IndexOf(step[t])'
      BY <2>2, <3>2 DEF IndexOf
    <3>. QED  BY <1>2, <2>1, <2>2, <3>2, <3>3, IndexFrom
  <2>. QED  BY <2>3, <2>4
<1>7. CASE DropMeta(t)
  <2>1. s.at = "rmMeta" /\ meta' = [meta EXCEPT ![n] = None] /\ entries' = entries
    BY <1>7 DEF DropMeta, At, UnlinkMeta
  <2>2. meta'[n] = None /\ \A m \in Name : m # n => meta'[m] = meta[m]
    BY <1>1, <2>1 DEF TypeOK, CacheTypeOK
  <2>3. s2 = Onward(s, "rmData")
    BY <1>7, Goes DEF DropMeta
  <2>4. s2.n = n /\ s2.at = "rmData"
    BY <1>1, <2>3, OnwardParts
  <2>5. IndexOf(step[t])'
    BY <1>2, <2>1, <2>2, <2>4 DEF IndexOf
  <2>. QED  BY <1>2, <2>1, <2>2, <2>4, <2>5, IndexFrom
<1>8. CASE DropData(t)
  <2>1. s2 = AfterRemove(s) /\ s.at = "rmData" /\ UNCHANGED <<entries, meta>>
    BY <1>8, Goes DEF DropData, At
  <2>2. s2.n = n /\ s2.at \in {"done", "put"}
    BY <1>1, <2>1, AfterRemoveParts
  <2>3. IndexOf(step[t])'
    BY <1>2, <2>1, <2>2 DEF IndexOf
  <2>. QED  BY <1>2, <2>1, <2>2, <2>3, IndexFrom
<1>9. CASE SaveLost(t)
  <2>1. PICK l \in Lost : /\ meta' = [meta EXCEPT ![l] = LostEntry(s.e)]
                          /\ entries' = [entries EXCEPT ![l] = LostEntry(s.e)]
    BY <1>9 DEF SaveLost, WriteMeta, Insert
  <2>2. l \in Name
    BY DEF Name
  <2>3. s2 = Onward(s, "drop") /\ s.at = "lfSave"
    BY <1>9, Goes DEF SaveLost, At
  <2>4. s2.n = n /\ s2.at = "drop"
    BY <1>1, <2>3, OnwardParts
  <2>5. \A m \in Name : meta[m] = entries[m]
    BY <1>2, <2>3 DEF IndexOf
  <2>6. \A m \in Name : meta'[m] = entries'[m]
    BY <2>1, <2>2, <2>5 DEF TypeOK, CacheTypeOK
  <2>7. IndexOf(step[t])'
    BY <1>1, <2>4, <2>6 DEF IndexOf
  <2>. QED  BY <2>6, <2>7, IndexFrom
<1>. QED  BY <1>3, <1>4, <1>5, <1>6, <1>7, <1>8, <1>9 DEF Updating

LEMMA IndexInit == Init => IndexInv
<1>. SUFFICES ASSUME Init PROVE IndexInv
  OBVIOUS
<1>1. \A n \in Name : meta[n] = entries[n]
  BY DEF Init, CacheInit
<1>2. \A t \in Task : step[t].n \in Name /\ step[t].at = "done"
  BY InitType, StepParts, NoStepParts DEF Init
<1>. QED  BY <1>1, <1>2 DEF IndexInv, IndexOf

LEMMA IndexNext ==
    ASSUME OneTask, TypeOK, Controlled, IndexInv, [Next]_vars PROVE IndexInv'
<1>1. ASSUME NEW t \in Task, Begins(t) \/ Proceeds(t) \/ BackendFails(t) PROVE IndexInv'
  BY <1>1, Split, DecidingIndex, UpdatingIndex
<1>2. ASSUME NEW n, NEW c, Remote(n, c) PROVE IndexInv'
  BY <1>2 DEF Remote, cacheVars, taskVars, IndexInv, IndexOf
<1>3. CASE Age
  <2>1. \A n \in Name : meta[n] = entries[n]
    BY <1>3, IdleIsDone, IndexNow, StepParts DEF Age, IndexInv, IndexOf
  <2>2. \A n \in Name : meta'[n] = entries'[n]
    BY <1>3, <2>1 DEF Age, Aged
  <2>3. \A t \in Task : step'[t].at = "done" /\ step'[t].n \in Name
    BY <1>3, IdleIsDone, StepParts DEF Age, taskVars
  <2>. QED  BY <2>2, <2>3 DEF IndexInv, IndexOf
<1>4. CASE Crash
  <2>1. \A n \in Name : meta'[n] = entries'[n]
    BY <1>4 DEF Crash, LoadIndex
  <2>2. \A t \in Task : step'[t].at = "done" /\ step'[t].n \in Name
    BY <1>4, NoStepParts, NoStepType DEF Crash, Step
  <2>. QED  BY <2>1, <2>2 DEF IndexInv, IndexOf
<1>5. CASE UNCHANGED vars
  BY <1>5 DEF vars, cacheVars, taskVars, IndexInv, IndexOf
<1>. QED  BY <1>1, <1>2, <1>3, <1>4, <1>5 DEF Next

(* With one task the metadata files hold what the index holds, but for the *)
(* one entry that a step is putting or removing: whatever calls are made   *)
(* and whatever goes wrong, crashes and cut-off files included.            *)
THEOREM IndexOnDisk == OneTask => (Spec => []IndexInv)
<1>. SUFFICES ASSUME OneTask PROVE Spec => []IndexInv
  OBVIOUS
<1>1. Init => IndexInv
  BY IndexInit
<1>2. TypeOK /\ Controlled /\ IndexInv /\ [Next]_vars => IndexInv'
  BY IndexNext
<1>. QED  BY <1>1, <1>2, TypeCorrect, CallsInOrder, PTL DEF Spec

(* The data files: none without an entry, as long as nothing crashed.      *)

LEMMA QuietParts ==
    ASSUME OneTask, NEW t \in Task, NEW n \in Name
    PROVE  /\ Quiet(n) <=> (step[t].n = n => step[t].at \notin AtWork)
           /\ Quiet(n)' <=> (step'[t].n = n => step'[t].at \notin AtWork)
BY DEF OneTask, Quiet, AtWork

LEMMA UpdatingNoOrphan ==
    ASSUME OneTask, TypeOK, NoOrphan, NEW t \in Task, Updating(t) PROVE NoOrphan'
<1>. DEFINE s == step[t]  n == step[t].n  s2 == step'[t]
<1>1. s \in Step /\ n \in Name
  BY StepParts
<1>2. SUFFICES ASSUME NEW m \in Name, s2.n = m => s2.at \notin AtWork, entries'[m] = None
               PROVE  data'[m] = None
  BY QuietParts DEF NoOrphan
<1>3. (s.n = m => s.at \notin AtWork) /\ entries[m] = None => data[m] = None
  BY QuietParts DEF NoOrphan
<1>4. CASE PutMeta(t) \/ TruncateData(t) \/ FillData(t) \/ DropMeta(t)
  <2>1. \E l \in {"insert", "fill", "put", "rmData"} : s2 = Onward(s, l)
    BY <1>4, Goes DEF PutMeta, TruncateData, FillData, DropMeta
  <2>2. s2.n = n /\ s2.at \in AtWork
    BY <1>1, <2>1, OnwardParts DEF AtWork
  <2>3. m # n
    BY <1>2, <2>2
  <2>4. entries' = entries /\ data'[m] = data[m]
    BY <1>4, <2>3 DEF PutMeta, TruncateData, FillData, DropMeta, Truncate, Fill, TypeOK, CacheTypeOK
  <2>. QED  BY <1>2, <1>3, <2>3, <2>4
<1>5. CASE ExpireData(t)
  <2>1. s2 = Put(n, Emptied(s.e), None, "cache")
    BY <1>5, Goes DEF ExpireData
  <2>2. s2.n = n /\ s2.at \in AtWork
    BY <2>1, MkParts DEF Put, AtWork
  <2>3. m # n
    BY <1>2, <2>2
  <2>4. entries' = entries /\ data'[m] = data[m]
    BY <1>5, <2>3 DEF ExpireData, UnlinkData, TypeOK, CacheTypeOK
  <2>. QED  BY <1>2, <1>3, <2>3, <2>4
<1>6. CASE InsertEntry(t)
  <2>1. entries' = [entries EXCEPT ![n] = s.e] /\ data' = data /\ s.e # None
    BY <1>6, StepParts, CacheAssumption DEF InsertEntry, Insert, At, Carrier
  <2>2. m # n /\ entries'[m] = entries[m]
    BY <1>1, <1>2, <2>1 DEF TypeOK, CacheTypeOK
  <2>. QED  BY <1>2, <1>3, <2>1, <2>2
<1>7. CASE DropEntry(t)
  <2>1. s.at = "drop" /\ entries' = [entries EXCEPT ![n] = None] /\ data' = data
    BY <1>7 DEF DropEntry, At, Remove
  <2>2. entries[n] # None => s2.n = n /\ s2.at \in AtWork
    BY <1>1, <1>7, Goes, OnwardParts DEF DropEntry, AtWork
  <2>3. entries[m] = None
    BY <1>1, <1>2, <2>1, <2>2 DEF TypeOK, CacheTypeOK
  <2>. QED  BY <1>3, <2>1, <2>3 DEF AtWork
<1>8. CASE DropData(t)
  <2>1. data' = [data EXCEPT ![n] = None] /\ entries' = entries
    BY <1>8 DEF DropData, UnlinkData
  <2>. QED  BY <1>1, <1>2, <1>3, <2>1 DEF TypeOK, CacheTypeOK
<1>9. CASE SaveLost(t)
  <2>1. PICK l \in Lost : /\ data' = [data EXCEPT ![l] = buf[t]]
                          /\ entries' = [entries EXCEPT ![l] = LostEntry(s.e)]
    BY <1>9 DEF SaveLost, SaveBytes, Insert
  <2>2. LostEntry(s.e) # None /\ s.at = "lfSave"
    BY <1>9, StepParts, EntryType, CacheAssumption DEF SaveLost, At, Carrier
  <2>3. m # l /\ entries'[m] = entries[m] /\ data'[m] = data[m]
    BY <1>2, <2>1, <2>2 DEF TypeOK, CacheTypeOK
  <2>. QED  BY <1>2, <1>3, <2>2, <2>3 DEF AtWork
<1>. QED  BY <1>4, <1>5, <1>6, <1>7, <1>8, <1>9 DEF Updating

LEMMA NoOrphanNext ==
    ASSUME OneTask, TypeOK, Controlled, NoOrphan, [Next]_vars, ~Crash PROVE NoOrphan'
<1>1. ASSUME NEW t \in Task, Deciding(t) PROVE NoOrphan'
  <2>1. \A n \in Name : Quiet(n)
    BY <1>1, Decided, QuietParts
  <2>. QED  BY <1>1, <2>1, Decided DEF NoOrphan, cacheVars
<1>2. ASSUME NEW t \in Task, Begins(t) \/ Proceeds(t) \/ BackendFails(t) PROVE NoOrphan'
  BY <1>1, <1>2, Split, UpdatingNoOrphan
<1>3. ASSUME NEW n, NEW c, Remote(n, c) PROVE NoOrphan'
  BY <1>3 DEF Remote, cacheVars, taskVars, NoOrphan, Quiet
<1>4. CASE Age
  <2>1. \A n \in Name : entries'[n] = None => entries[n] = None
    <3>1. ASSUME NEW n \in Name, entries[n] # None PROVE entries'[n] # None
      <4>1. entries[n] \in Entry
        BY <3>1, Held
      <4>2. entries'[n] = [entries[n] EXCEPT !.old = TRUE]
        BY <1>4, <3>1 DEF Age, Aged
      <4>3. entries'[n] \in Entry
        BY <4>1, <4>2 DEF Entry
      <4>. QED  BY <4>3, CacheAssumption
    <3>. QED  BY <3>1
  <2>2. UNCHANGED <<data, step>>
    BY <1>4 DEF Age, taskVars
  <2>. QED  BY <2>1, <2>2 DEF NoOrphan, Quiet
<1>5. CASE UNCHANGED vars
  BY <1>5 DEF vars, cacheVars, taskVars, NoOrphan, Quiet
<1>. QED  BY <1>2, <1>3, <1>4, <1>5 DEF Next

(* What has been used up stays used up.                                    *)
LEMMA UsedGrows ==
    ASSUME TypeOK, [Next]_vars
    PROVE  /\ \A h \in Hazard : used[h] \in Nat /\ used'[h] \in Nat /\ used'[h] >= used[h]
           /\ Crash => used'["crash"] > 0
           /\ \A n, c : Remote(n, c) => used'["remote"] > 0
           /\ \A t \in Task : BackendFails(t) => used'["fault"] > 0
<1>1. used \in [Hazard -> Nat]
  BY DEF TypeOK, EngineTypeOK
<1>2. \A h \in Hazard : Spend(h) =>
         used'[h] > 0 /\ \A g \in Hazard : used'[g] \in Nat /\ used'[g] >= used[g]
  BY <1>1 DEF Spend, Hazard
<1>3. Crash => Spend("crash")
  BY DEF Crash
<1>4. \A n, c : Remote(n, c) => Spend("remote")
  BY DEF Remote
<1>5. \A t \in Task : BackendFails(t) => Spend("fault")
  BY DEF BackendFails
<1>6. \A t \in Task : Begins(t) => used' = used
  BY BeginsFirst
<1>7. \A t \in Task : Proceeds(t) => used' = used
  BY DEF Proceeds, StatCache, StatHead, PutMeta, InsertEntry, ReadGet, ReadBytes, Fetch,
         FetchLookup, ListRead, TruncateData, FillData, WriteHead, DeleteGet, FlushGet, FlushDelete,
         DropEntry, DropMeta, DropData, FlushHead, FlushRead, SaveLost, FlushWrite, FlushTag,
         FlushSidecar, FlushClean, ExpireData, Invalidate, Tally, NextCall, NextIteration, Return,
         outer
<1>8. Age \/ UNCHANGED vars => used' = used
  BY DEF Age, vars
<1>9. \A h \in Hazard : used[h] \in Nat /\ used'[h] \in Nat /\ used'[h] >= used[h]
  BY <1>1, <1>2, <1>3, <1>4, <1>5, <1>6, <1>7, <1>8 DEF Next, Hazard
<1>. QED  BY <1>2, <1>3, <1>4, <1>5, <1>9 DEF Hazard

(* With one task, until the process crashes for the first time, the index  *)
(* and the metadata files tell the same of every name no step is putting   *)
(* or removing, and every data file has its entry: for all calls, remote   *)
(* mutations and backend errors.                                           *)
THEOREM DiskAgreesAlways == OneTask => (Spec => [](used["crash"] = 0 => DiskAgrees))
<1>. SUFFICES ASSUME OneTask PROVE Spec => [](used["crash"] = 0 => DiskAgrees)
  OBVIOUS
<1>. DEFINE Kept == used["crash"] = 0 => NoOrphan
<1>1. Init => Kept
  BY DEF Init, CacheInit, NoOrphan
<1>2. TypeOK /\ Controlled /\ Kept /\ [Next]_vars => Kept'
  <2>1. TypeOK /\ [Next]_vars /\ used'["crash"] = 0 => used["crash"] = 0 /\ ~Crash
    BY UsedGrows DEF Hazard
  <2>. QED  BY <2>1, NoOrphanNext
<1>3. IndexInv /\ Kept => (used["crash"] = 0 => DiskAgrees)
  <2>1. ASSUME IndexInv, NEW n \in Name, Quiet(n) PROVE meta[n] = entries[n]
    BY <2>1 DEF IndexInv, IndexOf, Quiet
  <2>. QED  BY <2>1 DEF NoOrphan, DiskAgrees
<1>4. Spec => []IndexInv
  BY IndexOnDisk
<1>. QED  BY <1>1, <1>2, <1>3, <1>4, TypeCorrect, CallsInOrder, PTL DEF Spec

-----------------------------------------------------------------------------
(* One task: the bytes of what is dirty.                                   *)

Writes(e) == e # None /\ e.dirty /\ ~e.deleted
Clean(e) == e # None => ~e.dirty

(* What the step may assume: of its entry, of its bytes, of the index.     *)
StepBytes(name, s, bytes) ==
    /\ s.at \in Putting /\ Writes(s.e) => data[s.n] # None
    /\ s.at \in Putting /\ name \in {"expire", "flush"} => Clean(s.e)
    /\ s.at \in {"lookup", "trunc", "fill"} => s.c # None
    /\ s.at \in Putting /\ s.by = "fetch" => s.c # None
    /\ s.at = "fill" => data[s.n] # None
    /\ s.at = "expire" => Clean(s.e) /\ Clean(entries[s.n])
    /\ s.at = "writeHead" => bytes # None
    /\ s.at \in {"fpHead", "fpRead", "lfRead"} => Writes(entries[s.n])

(* What is to be written has been read.                                    *)
ChainBytes(s, q, bytes) == s.at = "done" /\ q # <<>> /\ q[1].at = "writeHead" => bytes # None

(* The entries a loop has copied are clean, in the index too.              *)
LoopBytes(loop) ==
    \A i \in loop : /\ i.at \in {"put", "expire"} => Clean(i.e)
                    /\ i.at = "expire" => Clean(entries[i.n])

NameBytes == \A n \in Name : Writes(entries[n]) \/ Writes(meta[n]) => data[n] # None

HasBytes ==
    /\ NameBytes
    /\ \A t \in Task : /\ StepBytes(op[t], step[t], buf[t])
                       /\ ChainBytes(step[t], todo[t], buf[t])
                       /\ LoopBytes(left[t])

BytesInv == TypeOK /\ Controlled /\ IndexInv /\ HasBytes

LEMMA BytesNow ==
    ASSUME BytesInv, NEW t \in Task
    PROVE  /\ TypeOK /\ Controlled /\ Control(op[t], step[t], todo[t], left[t]) /\ NameBytes
           /\ StepBytes(op[t], step[t], buf[t]) /\ ChainBytes(step[t], todo[t], buf[t])
           /\ LoopBytes(left[t])
BY DEF BytesInv, HasBytes, Controlled

LEMMA BytesFrom ==
    ASSUME OneTask, NEW t \in Task, NameBytes', StepBytes(op[t], step[t], buf[t])',
           ChainBytes(step[t], todo[t], buf[t])', LoopBytes(left[t])'
    PROVE  HasBytes'
BY DEF OneTask, HasBytes

(* A step that only decides how to go on.                                  *)
LEMMA DecidesBytes ==
    ASSUME OneTask, BytesInv, NEW t \in Task, NEW s, Goto(t, s), s.at # "done",
           UNCHANGED <<cacheVars, op, todo, left>>, StepBytes(op[t], s, buf'[t])
    PROVE  HasBytes'
<1>1. step'[t] = s
  BY Goes DEF BytesInv
<1>2. NameBytes' /\ LoopBytes(left[t])'
  BY BytesNow DEF NameBytes, LoopBytes, cacheVars
<1>3. StepBytes(op[t], step[t], buf[t])'
  BY <1>1 DEF StepBytes, cacheVars
<1>4. ChainBytes(step[t], todo[t], buf[t])'
  BY <1>1 DEF ChainBytes
<1>. QED  BY <1>2, <1>3, <1>4, BytesFrom

(* A call that ends, or fails: a read has loaded something.                *)
LEMMA EndsBytes ==
    ASSUME OneTask, BytesInv, NEW t \in Task, NameBytes', op' = op,
           \A m \in Name : entries'[m] = entries[m] \/ Clean(entries'[m]),
           \/ Abort(t)
           \/ /\ Done(t) /\ UNCHANGED <<todo, left>> /\ step[t].at # "done"
              /\ ReadPhase(step[t]) => buf'[t] # None
    PROVE  HasBytes'
<1>1. step'[t].at = "done"
  BY EndsDone DEF BytesInv
<1>2. StepBytes(op[t], step[t], buf[t])'
  BY <1>1 DEF StepBytes, Putting
<1>3. todo'[t] = <<>> \/ (UNCHANGED todo /\ step[t].at # "done" /\ (ReadPhase(step[t]) => buf'[t] # None))
  BY DEF Abort, BytesInv, TypeOK, EngineTypeOK
<1>4. ChainBytes(step[t], todo[t], buf[t])'
  BY <1>3, BytesNow DEF ChainBytes, Control, Before, Follows
<1>5. left'[t] \subseteq left[t]
  BY DEF Abort, BytesInv, TypeOK, EngineTypeOK
<1>6. \A i \in left[t] : i.n \in Name
  BY DEF BytesInv, TypeOK, EngineTypeOK, Step
<1>7. LoopBytes(left[t])'
  BY <1>5, <1>6, BytesNow DEF LoopBytes
<1>. QED  BY <1>2, <1>4, <1>7, BytesFrom

LEMMA SameNameBytes == ASSUME BytesInv, UNCHANGED cacheVars PROVE NameBytes'
BY DEF BytesInv, HasBytes, NameBytes, cacheVars

LEMMA CutBytes == \A c, k : c # None => Cut(c, k) # None
BY CacheAssumption DEF Cut, Content

LEMMA ReadingBytes ==
    ASSUME OneTask, BytesInv, NEW t \in Task,
           \/ StatCache(t) \/ StatHead(t) \/ ReadGet(t) \/ ReadBytes(t)
           \/ Fetch(t) \/ FetchLookup(t) \/ ListRead(t)
    PROVE  HasBytes'
<1>. DEFINE s == step[t]  n == step[t].n  e == entries[n]
<1>1. /\ TypeOK /\ n \in Name /\ e \in Entry \cup {None} /\ UNCHANGED <<cacheVars, op>>
  BY StepParts, Held DEF BytesInv, StatCache, StatHead, ReadGet, ReadBytes, Fetch, FetchLookup,
                         ListRead, outer
<1>2. StepBytes(op[t], s, buf[t]) /\ Fits(op[t], s) /\ NameBytes
  BY BytesNow DEF Control
<1>3. Abort(t) => HasBytes'
  BY <1>1, EndsBytes, SameNameBytes DEF cacheVars
<1>4. /\ Done(t) /\ UNCHANGED <<todo, left>> /\ s.at # "done"
      /\ ReadPhase(s) => buf'[t] # None
      => HasBytes'
  BY <1>1, EndsBytes, SameNameBytes DEF cacheVars
<1>5. \A s2 : Goto(t, s2) /\ s2.at # "done" /\ UNCHANGED <<todo, left>>
              /\ StepBytes(op[t], s2, buf'[t]) => HasBytes'
  BY <1>1, DecidesBytes
<1>6. CASE StatCache(t)
  <2>1. ~ReadPhase(s) /\ s.at # "done"
    BY <1>6 DEF StatCache, At, ReadPhase, Putting, Storing
  <2>2. Do("statHead", n).at # "done" /\ StepBytes(op[t], Do("statHead", n), buf'[t])
    BY DoParts DEF StepBytes, Putting
  <2>. QED  BY <1>4, <1>5, <1>6, <2>1, <2>2 DEF StatCache, same
<1>7. CASE StatHead(t)
  <2>. DEFINE s2 == Put(n, Import(store[n]), None, "stat")
  <2>1. s2.at = "put" /\ s2.e = Import(store[n]) /\ s2.by = "stat"
    BY MkParts DEF Put
  <2>2. ~Import(store[n]).dirty
    BY DEF Import, FromPosix
  <2>3. StepBytes(op[t], s2, buf'[t])
    <3>. HIDE DEF s2
    <3>. QED  BY <2>1, <2>2 DEF StepBytes, Writes, Clean
  <2>. QED  BY <1>3, <1>5, <1>7, <2>1, <2>3 DEF StatHead, same
<1>8. CASE ReadGet(t)
  <2>. DEFINE s2 == Put(n, Touched(e), None, "touch")
              s3 == Do(IF ReadsDirectly(len[t]) THEN "direct" ELSE "fetch", n)
  <2>1. Load(t, Torn) => buf'[t] # None
    BY <1>1, CacheAssumption DEF Load, TypeOK, EngineTypeOK, Content
  <2>2. s2.at = "put" /\ s2.e = Touched(e) /\ s2.n = n /\ s2.by = "touch"
    BY MkParts DEF Put
  <2>3. e # None => (Writes(Touched(e)) => Writes(e))
    BY <1>1, CacheAssumption DEF Writes, Touched, Entry
  <2>4. op[t] \notin {"expire", "flush"}
    BY <1>2, <1>8 DEF ReadGet, At, Fits, StatPhase, ExportPhase, ExpirePhase, Putting, Removing
  <2>5. Serves(e) => StepBytes(op[t], s2, buf'[t])
    <3>. HIDE DEF s2
    <3>. QED  BY <1>1, <1>2, <2>2, <2>3, <2>4 DEF StepBytes, NameBytes, Serves, Writes
  <2>6. s3.at \in {"direct", "fetch"}
    BY DoParts
  <2>7. StepBytes(op[t], s3, buf'[t])
    <3>. HIDE DEF s3
    <3>. QED  BY <2>6 DEF StepBytes, Putting
  <2>8. s.at # "done"
    BY <1>8 DEF ReadGet, At
  <2>9. \/ Load(t, Torn) /\ Done(t)
        \/ Serves(e) /\ Goto(t, s2)
        \/ Goto(t, s3)
    BY <1>8 DEF ReadGet
  <2>10. UNCHANGED <<todo, left>>
    BY <1>8 DEF ReadGet, same
  <2>. HIDE DEF s2, s3
  <2>. QED  BY <1>4, <1>5, <2>1, <2>2, <2>5, <2>6, <2>7, <2>8, <2>9, <2>10
<1>9. CASE ReadBytes(t)
  <2>. DEFINE c == IF At(t, "direct") THEN store[n] ELSE data[n]
  <2>1. c # None /\ Load(t, Cut(c, len[t])) => buf'[t] # None
    BY <1>1, CutBytes DEF Load, TypeOK, EngineTypeOK
  <2>2. s.at # "done"
    BY <1>9 DEF ReadBytes
  <2>. QED  BY <1>3, <1>4, <1>9, <2>1, <2>2 DEF ReadBytes, same
<1>10. CASE Fetch(t)
  <2>. DEFINE s2 == Mk("lookup", n, None, store[n], "fetch")
  <2>1. s2.at = "lookup" /\ s2.c = store[n]
    BY MkParts
  <2>2. store[n] # None => StepBytes(op[t], s2, buf'[t])
    <3>. HIDE DEF s2
    <3>. QED  BY <2>1 DEF StepBytes, Putting
  <2>. QED  BY <1>3, <1>5, <1>10, <2>1, <2>2 DEF Fetch, same
<1>11. CASE FetchLookup(t)
  <2>. DEFINE s2 == Fetched(n, Filled(e), s.c, "fetch")
  <2>1. s2.at = "trunc" /\ s2.c = s.c /\ s.at = "lookup"
    BY <1>11, MkParts DEF Fetched, FetchLookup, At
  <2>2. StepBytes(op[t], s2, buf'[t])
    <3>. HIDE DEF s2
    <3>. QED  BY <1>2, <2>1 DEF StepBytes, Putting
  <2>. QED  BY <1>3, <1>5, <1>11, <2>1, <2>2 DEF FetchLookup, same
<1>12. CASE ListRead(t)
  <2>. DEFINE s2 == Fetched(n, Filled(s.e), store[n], "cache")
  <2>1. s2.at = "trunc" /\ s2.c = store[n]
    BY MkParts DEF Fetched
  <2>2. store[n] # None => StepBytes(op[t], s2, buf'[t])
    <3>. HIDE DEF s2
    <3>. QED  BY <2>1 DEF StepBytes, Putting
  <2>. QED  BY <1>3, <1>5, <1>12, <2>1, <2>2 DEF ListRead, same
<1>. QED  BY <1>6, <1>7, <1>8, <1>9, <1>10, <1>11, <1>12

LEMMA ExportingBytes ==
    ASSUME OneTask, BytesInv, NEW t \in Task,
           \/ WriteHead(t) \/ DeleteGet(t) \/ FlushGet(t) \/ FlushDelete(t) \/ FlushHead(t)
           \/ FlushRead(t) \/ FlushWrite(t) \/ FlushTag(t) \/ FlushSidecar(t) \/ FlushClean(t)
           \/ Invalidate(t) \/ Tally(t) \/ BackendFails(t)
    PROVE  HasBytes'
<1>. DEFINE s == step[t]  n == step[t].n  e == entries[n]
<1>1. /\ TypeOK /\ s \in Step /\ n \in Name /\ e \in Entry \cup {None}
      /\ UNCHANGED <<cacheVars, op>>
  BY StepParts, Held DEF BytesInv, WriteHead, DeleteGet, FlushGet, FlushDelete, FlushHead,
     FlushRead, FlushWrite, FlushTag, FlushSidecar, FlushClean, Invalidate, Tally, BackendFails,
     outer
<1>2. StepBytes(op[t], s, buf[t]) /\ Fits(op[t], s) /\ NameBytes
  BY BytesNow DEF Control
<1>3. Abort(t) => HasBytes'
  BY <1>1, EndsBytes, SameNameBytes DEF cacheVars
<1>4. /\ Done(t) /\ UNCHANGED <<todo, left>>
      /\ s.at \in {"fpGet", "invalidate", "tally"}
      => HasBytes'
  BY <1>1, EndsBytes, SameNameBytes DEF cacheVars, ReadPhase, Putting, Storing
<1>5. \A s2 : Goto(t, s2) /\ s2.at # "done" /\ UNCHANGED <<todo, left>>
              /\ StepBytes(op[t], s2, buf'[t]) => HasBytes'
  BY <1>1, DecidesBytes
<1>6. \A s2 : Goto(t, s2) /\ UNCHANGED <<todo, left>>
              /\ s2.at \in {"fpDelete", "drop", "fpWrite", "lfSave", "fpTag", "fpSide", "fpClean"}
              => HasBytes'
  <2>1. \A s2 : s2.at \in {"fpDelete", "drop", "fpWrite", "lfSave", "fpTag", "fpSide", "fpClean"}
                => s2.at # "done" /\ StepBytes(op[t], s2, buf'[t])
    BY DEF StepBytes, Putting
  <2>. QED  BY <1>5, <2>1
<1>7. CASE WriteHead(t)
  <2>. DEFINE s2 == Fetched(n, Written(store[n], buf[t]), buf[t], "write")
  <2>1. s2.at = "trunc" /\ s2.c = buf[t] /\ s.at = "writeHead" /\ Goto(t, s2)
        /\ UNCHANGED <<todo, left>>
    BY <1>7, MkParts DEF Fetched, WriteHead, At, same
  <2>. HIDE DEF s2
  <2>2. StepBytes(op[t], s2, buf'[t])
    BY <1>2, <2>1 DEF StepBytes, Putting
  <2>. QED  BY <1>5, <2>1, <2>2
<1>8. CASE DeleteGet(t)
  <2>. DEFINE s2 == Put(n, Tombstone(e), None, "delete")
  <2>1. s2.at = "put" /\ s2.by = "delete" /\ s2.e = Tombstone(e) /\ Goto(t, s2) /\ UNCHANGED <<todo, left>>
    BY <1>8, MkParts DEF Put, DeleteGet, same
  <2>2. Tombstone(e).deleted
    BY <1>1 DEF Tombstone, FromPosix, Entry
  <2>3. op[t] \notin {"expire", "flush"}
    BY <1>2, <1>8 DEF DeleteGet, At, Fits, StatPhase, ExportPhase, ExpirePhase, Putting, Removing
  <2>. HIDE DEF s2
  <2>4. StepBytes(op[t], s2, buf'[t])
    BY <2>1, <2>2, <2>3 DEF StepBytes, Writes
  <2>. QED  BY <1>5, <2>1, <2>4
<1>9. CASE FlushGet(t)
  <2>. DEFINE s2 == Mk(IF e.deleted THEN "fpDelete" ELSE "fpHead", n, e, None, "cache")
  <2>1. s2.at = (IF e.deleted THEN "fpDelete" ELSE "fpHead") /\ s2.n = n
    BY MkParts
  <2>2. UNCHANGED <<todo, left>> /\ s.at = "fpGet" /\ (Done(t) \/ (n \in DirtyNames /\ Goto(t, s2)))
    BY <1>9 DEF FlushGet, same, At
  <2>. HIDE DEF s2
  <2>3. n \in DirtyNames /\ ~e.deleted => StepBytes(op[t], s2, buf'[t])
    BY <2>1 DEF StepBytes, Writes, DirtyNames, Putting
  <2>. QED  BY <1>4, <1>5, <1>6, <2>1, <2>2, <2>3
<1>10. CASE FlushDelete(t) \/ Invalidate(t)
  <2>1. Do("drop", n).at = "drop"
    BY DoParts
  <2>. QED  BY <1>4, <1>6, <1>10, <2>1 DEF FlushDelete, Invalidate, same, At
<1>11. CASE FlushHead(t)
  <2>. DEFINE s2 == IF RemoteChanged(store[n], s.e.base)
                      THEN Mk("lfRead", n, s.e, store[n], "conflict") ELSE Onward(s, "fpRead")
  <2>1. s2.at \in {"lfRead", "fpRead"} /\ s2.n = n
    BY <1>1, MkParts, OnwardParts
  <2>2. UNCHANGED <<todo, left>> /\ s.at = "fpHead" /\ Goto(t, s2)
    BY <1>11 DEF FlushHead, same, At
  <2>. HIDE DEF s2
  <2>3. StepBytes(op[t], s2, buf'[t])
    BY <1>2, <2>1, <2>2 DEF StepBytes, Putting
  <2>. QED  BY <1>5, <2>1, <2>2, <2>3
<1>12. CASE FlushRead(t)
  <2>. DEFINE s2 == Onward(s, IF s.at = "fpRead" THEN "fpWrite" ELSE "lfSave")
  <2>1. s2.at \in {"fpWrite", "lfSave"}
    BY <1>1, OnwardParts
  <2>2. Abort(t) \/ (Goto(t, s2) /\ UNCHANGED <<todo, left>>)
    BY <1>12 DEF FlushRead, same
  <2>. HIDE DEF s2
  <2>. QED  BY <1>3, <1>6, <2>1, <2>2
<1>13. CASE FlushWrite(t)
  <2>. DEFINE s2 == Mk(IF Backend = "opendal" THEN "fpTag" ELSE "fpSide", n, s.e, buf[t], "cache")
  <2>1. s2.at \in {"fpTag", "fpSide"}
    BY MkParts
  <2>2. Goto(t, s2) /\ UNCHANGED <<todo, left>>
    BY <1>13 DEF FlushWrite, same
  <2>. HIDE DEF s2
  <2>. QED  BY <1>6, <2>1, <2>2
<1>14. CASE FlushTag(t) \/ FlushSidecar(t)
  <2>1. /\ Mk("fpSide", n, s.e, store[n], "cache").at = "fpSide"
        /\ Onward(s, "fpClean").at = "fpClean"
    BY <1>1, MkParts, OnwardParts
  <2>. QED  BY <1>6, <1>14, <2>1 DEF FlushTag, FlushSidecar, same
<1>15. CASE FlushClean(t)
  <2>. DEFINE s2 == Put(n, Cleaned(e, s.c), None, "cache")
  <2>1. s2.at = "put" /\ s2.e = Cleaned(e, s.c) /\ s2.by = "cache"
    BY MkParts DEF Put
  <2>2. Abort(t) \/ (e # None /\ Goto(t, s2) /\ UNCHANGED <<todo, left>>)
    BY <1>15 DEF FlushClean, same
  <2>3. e # None => ~Cleaned(e, s.c).dirty
    BY <1>1 DEF Cleaned, Entry
  <2>. HIDE DEF s2
  <2>4. e # None => StepBytes(op[t], s2, buf'[t])
    BY <2>1, <2>3 DEF StepBytes, Writes, Clean
  <2>. QED  BY <1>3, <1>5, <2>1, <2>2, <2>4
<1>16. CASE Tally(t)
  BY <1>4, <1>16 DEF Tally, same, At
<1>17. CASE BackendFails(t)
  BY <1>3, <1>17 DEF BackendFails
<1>. QED  BY <1>7, <1>8, <1>9, <1>10, <1>11, <1>12, <1>13, <1>14, <1>15, <1>16, <1>17

LEMMA BeginBytes ==
    ASSUME OneTask, BytesInv, NEW t \in Task, NEW name, NEW first, NEW rest, NEW loop,
           Begin(t, name, first, rest, loop), StepBytes(name, first, buf'[t]),
           first.at # "done" \/ rest = <<>>, LoopBytes(loop)
    PROVE  HasBytes'
<1>1. /\ step'[t] = first /\ op'[t] = name /\ todo'[t] = rest /\ left'[t] = loop
      /\ UNCHANGED cacheVars
  BY Goes DEF Begin, BytesInv, TypeOK, EngineTypeOK
<1>2. StepBytes(op[t], step[t], buf[t])'
  BY <1>1 DEF StepBytes, cacheVars
<1>3. ChainBytes(step[t], todo[t], buf[t])' /\ LoopBytes(left[t])'
  BY <1>1 DEF ChainBytes, LoopBytes, cacheVars
<1>. QED  BY <1>1, <1>2, <1>3, BytesFrom, SameNameBytes

LEMMA BeginsBytes ==
    ASSUME OneTask, BytesInv, NEW t \in Task, Begins(t) PROVE HasBytes'
<1>1. /\ \A name, n, bytes : \A l \in {"stat", "delGet", "invalidate"} :
            StepBytes(name, Do(l, n), bytes) /\ Do(l, n).at # "done"
      /\ \A name, bytes : StepBytes(name, NoStep, bytes)
      /\ LoopBytes({})
  BY DoParts, NoStepParts DEF StepBytes, LoopBytes, Putting
<1>2. TypeOK
  BY DEF BytesInv
<1>3. ASSUME NEW n \in Path, Stat(t, n) \/ Read(t, n) \/ DeletePath(t, n) \/ InvalidatePath(t, n)
      PROVE  HasBytes'
  <2>1. \E l \in {"stat", "delGet", "invalidate"} : \E name, rest :
           Begin(t, name, Do(l, n), rest, {})
    BY <1>3 DEF Stat, Read, DeletePath, InvalidatePath
  <2>. QED  BY <1>1, <2>1, BeginBytes
<1>4. ASSUME NEW n \in Path, NEW d \in Data, WriteFile(t, n, d) PROVE HasBytes'
  <2>1. buf'[t] # None
    BY <1>2, <1>4, CacheAssumption DEF WriteFile, Load, TypeOK, EngineTypeOK, Content
  <2>2. StepBytes("write", Do("writeHead", n), buf'[t]) /\ Do("writeHead", n).at # "done"
    BY <2>1, DoParts DEF StepBytes, Putting
  <2>. QED  BY <1>1, <1>4, <2>2, BeginBytes DEF WriteFile
<1>5. ASSUME NEW from \in Path, NEW to \in Path, RenamePath(t, from, to) PROVE HasBytes'
  <2>1. \E rest : Begin(t, "rename", Do("stat", from), rest, {})
    BY <1>5, Zenon DEF RenamePath
  <2>. QED  BY <1>1, <2>1, BeginBytes
<1>6. CASE ListDir(t)
  <2>. DEFINE loop == {Put(m, Import(store[m]), None, "list") : m \in {m \in Name : store[m] # None}}
  <2>1. LoopBytes(loop)
    <3>1. \A i \in loop : i.at = "put" /\ \E c : i.e = Import(c)
      BY MkParts DEF Put
    <3>2. \A c : ~Import(c).dirty
      BY DEF Import, FromPosix
    <3>. HIDE DEF loop
    <3>. QED  BY <3>1, <3>2 DEF LoopBytes, Clean
  <2>2. Begin(t, "list", NoStep, <<>>, loop)
    BY <1>6 DEF ListDir
  <2>. HIDE DEF loop
  <2>. QED  BY <1>1, <2>1, <2>2, BeginBytes
<1>7. CASE Flush(t)
  <2>. DEFINE loop == {Do("fpGet", m) : m \in DirtyNames}
  <2>1. LoopBytes(loop)
    BY DoParts DEF LoopBytes
  <2>2. Begin(t, "flush", NoStep, <<>>, loop)
    BY <1>7 DEF Flush
  <2>. HIDE DEF loop
  <2>. QED  BY <1>1, <2>1, <2>2, BeginBytes
<1>8. CASE ExpireCache(t)
  <2>. DEFINE loop == {Mk("expire", m, entries[m], None, "cache") :
                          m \in {m \in Name : Expirable(entries[m])}}
  <2>1. LoopBytes(loop)
    BY MkParts DEF LoopBytes, Clean, Expirable
  <2>2. Begin(t, "expire", NoStep, <<>>, loop)
    BY <1>8 DEF ExpireCache
  <2>. HIDE DEF loop
  <2>. QED  BY <1>1, <2>1, <2>2, BeginBytes
<1>9. ASSUME NEW prefix \in Prefix, InvalidatePrefix(t, prefix) PROVE HasBytes'
  <2>. DEFINE loop == {Do("drop", m) : m \in {m \in prefix : Droppable(entries[m])}}
  <2>1. LoopBytes(loop)
    BY DoParts DEF LoopBytes
  <2>2. Begin(t, "invalidatePrefix", NoStep, <<>>, loop)
    BY <1>9 DEF InvalidatePrefix
  <2>. HIDE DEF loop
  <2>. QED  BY <1>1, <2>1, <2>2, BeginBytes
<1>. QED  BY <1>3, <1>4, <1>5, <1>6, <1>7, <1>8, <1>9 DEF Begins

LEMMA QueuedBytes ==
    ASSUME OneTask, BytesInv, NEW t \in Task, NextCall(t) \/ NextIteration(t) \/ Return(t)
    PROVE  HasBytes'
<1>1. /\ TypeOK /\ UNCHANGED cacheVars /\ NameBytes'
      /\ Control(op[t], step[t], todo[t], left[t])
      /\ StepBytes(op[t], step[t], buf[t]) /\ ChainBytes(step[t], todo[t], buf[t])
      /\ LoopBytes(left[t]) /\ step[t].at = "done"
  BY BytesNow, SameNameBytes DEF NextCall, NextIteration, Return, Finished, BytesInv, At
<1>2. CASE NextCall(t)
  <2>1. todo[t] \in Seq(Step) /\ todo[t] # <<>> /\ step'[t] = Head(todo[t])
    BY <1>1, <1>2, Goes DEF NextCall, TypeOK, EngineTypeOK
  <2>2. step'[t] = todo[t][1] /\ 1 \in DOMAIN todo[t]
    BY <2>1
  <2>3. step'[t].at \in Call
    BY <1>1, <2>2 DEF Control, Queue
  <2>4. UNCHANGED <<buf, left, op>>
    BY <1>2 DEF NextCall, outer
  <2>5. step'[t].at = "writeHead" => buf[t] # None
    BY <1>1, <2>1, <2>2 DEF ChainBytes
  <2>6. StepBytes(op[t], step[t], buf[t])'
    BY <2>3, <2>4, <2>5 DEF StepBytes, Call, Putting
  <2>7. ChainBytes(step[t], todo[t], buf[t])'
    BY <2>3 DEF ChainBytes, Call
  <2>. QED  BY <1>1, <2>4, <2>6, <2>7, BytesFrom DEF LoopBytes, cacheVars
<1>3. CASE NextIteration(t)
  <2>1. /\ step'[t] \in left[t] /\ left'[t] \subseteq left[t]
        /\ op' = op /\ buf' = buf
    BY <1>1, <1>3, Goes DEF NextIteration, outer, Remaining, TypeOK, EngineTypeOK
  <2>2. Iterates(op[t], step'[t])
    BY <1>1, <2>1 DEF Control
  <2>3. /\ step'[t].at \in {"put", "expire"} => Clean(step'[t].e)
        /\ step'[t].at = "expire" => Clean(entries[step'[t].n])
    BY <1>1, <2>1 DEF LoopBytes
  <2>4. StepBytes(op[t], step[t], buf[t])'
    BY <1>1, <2>1, <2>2, <2>3 DEF StepBytes, Iterates, Putting, Writes, Clean, cacheVars
  <2>5. ChainBytes(step[t], todo[t], buf[t])'
    BY <2>2 DEF ChainBytes, Iterates
  <2>. QED  BY <1>1, <2>1, <2>4, <2>5, BytesFrom DEF LoopBytes, cacheVars
<1>4. CASE Return(t)
  <2>1. step'[t].at = "done" /\ todo'[t] = <<>> /\ left'[t] = {}
    BY <1>1, <1>4, Goes, NoStepParts DEF Return, Finished
  <2>2. StepBytes(op[t], step[t], buf[t])' /\ ChainBytes(step[t], todo[t], buf[t])'
    BY <2>1 DEF StepBytes, ChainBytes, Putting
  <2>. QED  BY <1>1, <2>1, <2>2, BytesFrom DEF LoopBytes
<1>. QED  BY <1>2, <1>3, <1>4

LEMMA DecidingBytes ==
    ASSUME OneTask, BytesInv, NEW t \in Task, Deciding(t) PROVE HasBytes'
BY ReadingBytes, ExportingBytes, BeginsBytes, QueuedBytes DEF Deciding

(* A step that writes: the index or the files change under one name.       *)
LEMMA WritesBytes ==
    ASSUME OneTask, BytesInv, NEW t \in Task, NEW s, Goto(t, s), s.at # "done", NameBytes',
           \A m \in Name : entries'[m] = entries[m] \/ Clean(entries'[m]),
           UNCHANGED <<op, todo, left>>, StepBytes(op[t], step[t], buf[t])'
    PROVE  HasBytes'
<1>1. step'[t] = s
  BY Goes DEF BytesInv
<1>2. \A i \in left[t] : i.n \in Name
  BY DEF BytesInv, TypeOK, EngineTypeOK, Step
<1>3. LoopBytes(left[t])'
  BY <1>2, BytesNow DEF LoopBytes
<1>4. ChainBytes(step[t], todo[t], buf[t])'
  BY <1>1 DEF ChainBytes
<1>. QED  BY <1>3, <1>4, BytesFrom

LEMMA StoringBytes ==
    ASSUME OneTask, BytesInv, NEW t \in Task,
           PutMeta(t) \/ InsertEntry(t) \/ TruncateData(t) \/ FillData(t)
    PROVE  HasBytes'
<1>. DEFINE s == step[t]  n == step[t].n
<1>1. /\ TypeOK /\ s \in Step /\ n \in Name /\ op' = op
      /\ \A m \in Name : entries[m] \in Entry \cup {None} /\ data[m] \in Tag
  BY StepParts, Held DEF BytesInv, PutMeta, InsertEntry, TruncateData, FillData, outer
<1>2. /\ StepBytes(op[t], s, buf[t]) /\ Fits(op[t], s) /\ NameBytes /\ IndexOf(s)
      /\ \A m \in Name : m # n => meta[m] = entries[m]
      /\ \A i \in left[t] : Iterates(op[t], i)
  BY BytesNow, IndexNow DEF Control, BytesInv
<1>3. None # Torn /\ Torn \in Tag
  BY CacheAssumption DEF Content, Tag
<1>4. CASE PutMeta(t)
  <2>1. s.at = "put" /\ Goto(t, Onward(s, "insert")) /\ UNCHANGED <<todo, left, entries, data>>
        /\ meta' = [meta EXCEPT ![n] = s.e]
    BY <1>4 DEF PutMeta, At, same, WriteMeta
  <2>2. Onward(s, "insert").at = "insert" /\ Onward(s, "insert").n = n /\ Onward(s, "insert").e = s.e
        /\ Onward(s, "insert").by = s.by /\ Onward(s, "insert").c = s.c
    BY <1>1, OnwardParts
  <2>3. meta'[n] = s.e /\ \A m \in Name : m # n => meta'[m] = meta[m]
    BY <1>1, <2>1 DEF TypeOK, CacheTypeOK
  <2>4. NameBytes'
    BY <1>2, <2>1, <2>3 DEF NameBytes, StepBytes, Putting
  <2>5. step'[t] = Onward(s, "insert")
    BY <1>1, <2>1, Goes
  <2>6. StepBytes(op[t], step[t], buf[t])'
    BY <1>1, <1>2, <2>1, <2>2, <2>5 DEF StepBytes, Putting
  <2>. QED  BY <2>1, <2>2, <2>4, <2>6, WritesBytes, <1>1
<1>5. CASE InsertEntry(t)
  <2>1. s.at = "insert" /\ UNCHANGED <<meta, data>> /\ entries' = [entries EXCEPT ![n] = s.e]
        /\ AfterInsert(t, s)
    BY <1>5 DEF InsertEntry, At, Insert
  <2>2. entries'[n] = s.e /\ \A m \in Name : m # n => entries'[m] = entries[m]
    BY <1>1, <2>1 DEF TypeOK, CacheTypeOK
  <2>3. NameBytes'
    BY <1>2, <2>1, <2>2 DEF NameBytes, StepBytes, Putting
  <2>4. Fits(op[t], s) /\ op[t] # "expire" => \A i \in left[t] : i.at # "expire"
    BY <1>2 DEF Iterates
  <2>5. \A i \in left[t] : i.n \in Name
    BY <1>1 DEF TypeOK, EngineTypeOK, Step
  <2>6. LoopBytes(left[t])
    BY BytesNow
  <2>7. op[t] = "expire" => Clean(s.e)
    BY <1>2, <2>1 DEF StepBytes, Putting
  <2>8. \A i \in left[t] : /\ i.at \in {"put", "expire"} => Clean(i.e)
                           /\ i.at = "expire" => Clean(entries'[i.n])
    BY <1>2, <2>2, <2>4, <2>5, <2>6, <2>7 DEF LoopBytes
  <2>9. CASE Done(t) \/ Abort(t)
    <3>1. step'[t].at = "done" /\ left'[t] \subseteq left[t]
      BY <1>1, <2>1, <2>9, EndsDone DEF Abort, AfterInsert, same, TypeOK, EngineTypeOK
    <3>2. StepBytes(op[t], step[t], buf[t])' /\ LoopBytes(left[t])'
      BY <2>8, <3>1 DEF StepBytes, Putting, LoopBytes
    <3>3. Abort(t) => todo'[t] = <<>>
      BY <1>1 DEF Abort, TypeOK, EngineTypeOK
    <3>4. ~Abort(t) => UNCHANGED todo
      BY <2>1 DEF AfterInsert, same
    <3>5. ~Abort(t) /\ s.by = "fetch" => buf'[t] # None
      <4>1. s.by = "fetch" => s.c # None
        BY <1>2, <2>1 DEF StepBytes, Putting
      <4>. QED  BY <1>1, <2>1, <4>1, CutBytes DEF AfterInsert, Load, TypeOK, EngineTypeOK
    <3>6. ~Abort(t) => s.by # "touch"
      <4>1. s.by = "touch" => step'[t].at = "cacheRead"
        BY <1>1, <2>1, Goes, DoParts DEF AfterInsert
      <4>. QED  BY <3>1, <4>1
    <3>7. Before(s, todo[t])
      BY BytesNow DEF Control
    <3>8. ~Abort(t) /\ todo[t] # <<>> /\ todo[t][1].at = "writeHead" => buf'[t] # None
      BY <2>1, <3>5, <3>6, <3>7 DEF Before, Follows, ReadPhase, Putting, Storing
    <3>9. ChainBytes(step[t], todo[t], buf[t])'
      BY <3>3, <3>4, <3>8 DEF ChainBytes
    <3>. QED  BY <2>3, <3>2, <3>9, BytesFrom
  <2>10. CASE ~(Done(t) \/ Abort(t))
    <3>1. UNCHANGED <<todo, left>> /\ \/ Goto(t, Do("cacheRead", n))
                                      \/ Goto(t, Onward(s, "listRead"))
      BY <2>1, <2>10 DEF AfterInsert, same
    <3>2. step'[t].at \in {"cacheRead", "listRead"}
      BY <1>1, <3>1, Goes, DoParts, OnwardParts
    <3>3. StepBytes(op[t], step[t], buf[t])' /\ ChainBytes(step[t], todo[t], buf[t])'
      BY <3>2 DEF StepBytes, Putting, ChainBytes
    <3>4. LoopBytes(left[t])'
      BY <2>8, <3>1 DEF LoopBytes
    <3>. QED  BY <2>3, <3>3, <3>4, BytesFrom
  <2>. QED  BY <2>9, <2>10
<1>6. CASE TruncateData(t)
  <2>1. s.at = "trunc" /\ Goto(t, Onward(s, "fill")) /\ UNCHANGED <<todo, left, entries, meta>>
        /\ data' = [data EXCEPT ![n] = Torn]
    BY <1>6 DEF TruncateData, At, same, Truncate
  <2>2. /\ Onward(s, "fill").at = "fill" /\ Onward(s, "fill").n = n
        /\ Onward(s, "fill").c = s.c
    BY <1>1, OnwardParts
  <2>3. data'[n] = Torn /\ \A m \in Name : m # n => data'[m] = data[m]
    BY <1>1, <2>1 DEF TypeOK, CacheTypeOK
  <2>4. NameBytes'
    BY <1>2, <1>3, <2>1, <2>3 DEF NameBytes
  <2>5. step'[t] = Onward(s, "fill")
    BY <1>1, <2>1, Goes
  <2>6. StepBytes(op[t], step[t], buf[t])'
    BY <1>2, <1>3, <2>1, <2>2, <2>3, <2>5 DEF StepBytes, Putting
  <2>. QED  BY <1>1, <2>1, <2>2, <2>4, <2>6, WritesBytes
<1>7. CASE FillData(t)
  <2>1. s.at = "fill" /\ Goto(t, Onward(s, "put")) /\ UNCHANGED <<todo, left, entries, meta>>
        /\ data' = [data EXCEPT ![n] = Overlay(data[n], s.c)]
    BY <1>7 DEF FillData, At, same, Fill
  <2>2. /\ Onward(s, "put").at = "put" /\ Onward(s, "put").n = n
        /\ Onward(s, "put").c = s.c
    BY <1>1, OnwardParts
  <2>3. data'[n] = Overlay(data[n], s.c) /\ \A m \in Name : m # n => data'[m] = data[m]
    BY <1>1, <2>1 DEF TypeOK, CacheTypeOK
  <2>4. data[n] # None /\ s.c # None
    BY <1>2, <2>1 DEF StepBytes
  <2>5. data'[n] # None
    BY <1>3, <2>3, <2>4 DEF Overlay
  <2>6. NameBytes'
    BY <1>2, <2>1, <2>3, <2>5 DEF NameBytes
  <2>7. step'[t] = Onward(s, "put")
    BY <1>1, <2>1, Goes
  <2>8. op[t] \notin {"expire", "flush"}
    BY <1>2, <2>1 DEF Fits, StatPhase, ExportPhase, ExpirePhase, Putting, Removing
  <2>9. StepBytes(op[t], step[t], buf[t])'
    BY <1>1, <2>2, <2>4, <2>5, <2>7, <2>8 DEF StepBytes, Putting
  <2>. QED  BY <1>1, <2>1, <2>2, <2>6, <2>9, WritesBytes
<1>. QED  BY <1>4, <1>5, <1>6, <1>7

LEMMA RemovingBytes ==
    ASSUME OneTask, BytesInv, NEW t \in Task,
           DropEntry(t) \/ DropMeta(t) \/ DropData(t) \/ SaveLost(t) \/ ExpireData(t)
    PROVE  HasBytes'
<1>. DEFINE s == step[t]  n == step[t].n
<1>1. /\ TypeOK /\ s \in Step /\ n \in Name /\ op' = op /\ UNCHANGED <<todo, left>>
      /\ \A m \in Name : entries[m] \in Entry \cup {None} /\ data[m] \in Tag
  BY StepParts, Held DEF BytesInv, DropEntry, DropMeta, DropData, SaveLost, ExpireData, outer, same
<1>2. /\ StepBytes(op[t], s, buf[t]) /\ Fits(op[t], s) /\ NameBytes /\ IndexOf(s)
      /\ \A m \in Name : m # n => meta[m] = entries[m]
  BY BytesNow, IndexNow DEF Control, BytesInv
<1>3. \A c : ~Import(c).dirty
  BY DEF Import, FromPosix
<1>4. ASSUME s.at \in Removing, Goto(t, AfterRemove(s)), NameBytes',
             \A m \in Name : entries'[m] = entries[m] \/ Clean(entries'[m])
      PROVE  HasBytes'
  <2>1. CASE AfterRemove(s) = Do("done", n)
    BY <1>1, <1>4, <2>1, EndsBytes DEF Done, Removing, ReadPhase, Putting, Storing
  <2>2. CASE AfterRemove(s) # Do("done", n)
    <3>1. AfterRemove(s) = Put(n, Import(s.c), None, "conflict")
      BY <2>2 DEF AfterRemove
    <3>2. /\ AfterRemove(s).at = "put" /\ AfterRemove(s).e = Import(s.c)
          /\ AfterRemove(s).by = "conflict"
      BY <3>1, MkParts DEF Put
    <3>3. step'[t] = AfterRemove(s)
      BY <1>1, <1>4, Goes
    <3>4. StepBytes(op[t], step[t], buf[t])'
      BY <1>3, <3>2, <3>3 DEF StepBytes, Putting, Writes, Clean
    <3>. QED  BY <1>1, <1>4, <3>2, <3>4, WritesBytes
  <2>. QED  BY <2>1, <2>2
<1>5. ASSUME NEW s2, Goto(t, s2), s2.at \in Removing, NameBytes',
             \A m \in Name : entries'[m] = entries[m] \/ Clean(entries'[m])
      PROVE  HasBytes'
  <2>1. step'[t] = s2
    BY <1>1, <1>5, Goes
  <2>2. StepBytes(op[t], step[t], buf[t])'
    BY <1>5, <2>1 DEF StepBytes, Putting, Removing
  <2>. QED  BY <1>1, <1>5, <2>2, WritesBytes DEF Removing
<1>6. CASE DropEntry(t)
  <2>1. s.at = "drop" /\ UNCHANGED <<meta, data>> /\ entries' = [entries EXCEPT ![n] = None]
        /\ Goto(t, IF entries[n] = None THEN AfterRemove(s) ELSE Onward(s, "rmMeta"))
    BY <1>6 DEF DropEntry, At, Remove
  <2>2. entries'[n] = None /\ \A m \in Name : m # n => entries'[m] = entries[m]
    BY <1>1, <2>1 DEF TypeOK, CacheTypeOK
  <2>3. NameBytes'
    BY <1>2, <2>1, <2>2 DEF NameBytes, Writes
  <2>4. Onward(s, "rmMeta").at = "rmMeta"
    BY <1>1, OnwardParts
  <2>. QED  BY <1>4, <1>5, <2>1, <2>2, <2>3, <2>4 DEF Removing, Clean
<1>7. CASE DropMeta(t)
  <2>1. s.at = "rmMeta" /\ UNCHANGED <<entries, data>> /\ meta' = [meta EXCEPT ![n] = None]
        /\ Goto(t, Onward(s, "rmData"))
    BY <1>7 DEF DropMeta, At, UnlinkMeta
  <2>2. meta'[n] = None /\ \A m \in Name : m # n => meta'[m] = meta[m]
    BY <1>1, <2>1 DEF TypeOK, CacheTypeOK
  <2>3. NameBytes'
    BY <1>2, <2>1, <2>2 DEF NameBytes, Writes
  <2>4. Onward(s, "rmData").at = "rmData"
    BY <1>1, OnwardParts
  <2>. QED  BY <1>5, <2>1, <2>3, <2>4 DEF Removing
<1>8. CASE DropData(t)
  <2>1. s.at = "rmData" /\ UNCHANGED <<entries, meta>> /\ data' = [data EXCEPT ![n] = None]
        /\ Goto(t, AfterRemove(s))
    BY <1>8 DEF DropData, At, UnlinkData
  <2>2. \A m \in Name : m # n => data'[m] = data[m]
    BY <1>1, <2>1 DEF TypeOK, CacheTypeOK
  <2>3. entries[n] = None /\ meta[n] = None
    BY <1>2, <2>1 DEF IndexOf
  <2>4. NameBytes'
    BY <1>2, <2>1, <2>2, <2>3 DEF NameBytes, Writes
  <2>. QED  BY <1>4, <2>1, <2>4 DEF Removing
<1>9. CASE SaveLost(t)
  <2>1. s.at = "lfSave" /\ s.e \in Entry /\ Goto(t, Onward(s, "drop"))
    BY <1>1, <1>9, StepParts DEF SaveLost, At, Carrier
  <2>2. PICK l \in Lost : /\ data' = [data EXCEPT ![l] = buf[t]]
                          /\ meta' = [meta EXCEPT ![l] = LostEntry(s.e)]
                          /\ entries' = [entries EXCEPT ![l] = LostEntry(s.e)]
    BY <1>9 DEF SaveLost, SaveBytes, WriteMeta, Insert
  <2>3. /\ l \in Name /\ meta'[l] = LostEntry(s.e) /\ entries'[l] = LostEntry(s.e)
        /\ \A m \in Name : m # l => data'[m] = data[m] /\ meta'[m] = meta[m]
                                    /\ entries'[m] = entries[m]
    BY <1>1, <2>2 DEF TypeOK, CacheTypeOK, Name
  <2>4. ~LostEntry(s.e).dirty
    BY <2>1 DEF LostEntry, Entry
  <2>5. NameBytes'
    BY <1>2, <2>3, <2>4 DEF NameBytes, Writes
  <2>6. Onward(s, "drop").at = "drop"
    BY <1>1, OnwardParts
  <2>7. \A m \in Name : entries'[m] = entries[m] \/ Clean(entries'[m])
    BY <2>3, <2>4 DEF Clean
  <2>. QED  BY <1>5, <2>1, <2>5, <2>6, <2>7 DEF Removing
<1>10. CASE ExpireData(t)
  <2>. DEFINE s2 == Put(n, Emptied(s.e), None, "cache")
  <2>1. s.at = "expire" /\ s.e \in Entry /\ Goto(t, s2) /\ UNCHANGED <<entries, meta>>
        /\ data' = [data EXCEPT ![n] = None]
    BY <1>1, <1>10, StepParts DEF ExpireData, At, Carrier, UnlinkData
  <2>2. \A m \in Name : m # n => data'[m] = data[m]
    BY <1>1, <2>1 DEF TypeOK, CacheTypeOK
  <2>3. s2.at = "put" /\ s2.e = Emptied(s.e) /\ s2.by = "cache"
    BY MkParts DEF Put
  <2>. HIDE DEF s2
  <2>4. Clean(s.e) /\ Clean(entries[n]) /\ meta[n] = entries[n]
    BY <1>2, <2>1 DEF StepBytes, IndexOf
  <2>5. ~Emptied(s.e).dirty
    BY <2>1, <2>4, CacheAssumption DEF Clean, Emptied, Entry
  <2>6. NameBytes'
    BY <1>2, <2>1, <2>2, <2>4 DEF NameBytes, Writes, Clean
  <2>7. step'[t] = s2
    BY <1>1, <2>1, Goes
  <2>8. StepBytes(op[t], step[t], buf[t])'
    BY <2>3, <2>5, <2>7 DEF StepBytes, Putting, Writes, Clean
  <2>. QED  BY <1>1, <2>1, <2>3, <2>6, <2>8, WritesBytes
<1>. QED  BY <1>6, <1>7, <1>8, <1>9, <1>10

LEMMA IdleBytes ==
    ASSUME OneTask, NameBytes',
           \A t \in Task : step'[t].at = "done" /\ todo'[t] = <<>> /\ left'[t] = {}
    PROVE  HasBytes'
<1>1. \A t \in Task : StepBytes(op[t], step[t], buf[t])' /\ ChainBytes(step[t], todo[t], buf[t])'
                      /\ LoopBytes(left[t])'
  BY DEF StepBytes, ChainBytes, LoopBytes, Putting
<1>. QED  BY <1>1 DEF HasBytes

LEMMA HasBytesInit == Init => HasBytes
<1>. SUFFICES ASSUME Init PROVE HasBytes
  OBVIOUS
<1>1. NameBytes
  BY DEF Init, CacheInit, NameBytes, Writes
<1>2. \A t \in Task : step[t].at = "done" /\ todo[t] = <<>> /\ left[t] = {}
  BY NoStepParts DEF Init
<1>3. \A t \in Task : StepBytes(op[t], step[t], buf[t]) /\ ChainBytes(step[t], todo[t], buf[t])
                      /\ LoopBytes(left[t])
  BY <1>2 DEF StepBytes, ChainBytes, LoopBytes, Putting
<1>. QED  BY <1>1, <1>3 DEF HasBytes

LEMMA HasBytesNext == ASSUME OneTask, BytesInv, [Next]_vars PROVE HasBytes'
<1>1. ASSUME NEW t \in Task, Begins(t) \/ Proceeds(t) \/ BackendFails(t) PROVE HasBytes'
  BY <1>1, Split, DecidingBytes, StoringBytes, RemovingBytes DEF Updating
<1>2. ASSUME NEW n, NEW c, Remote(n, c) PROVE HasBytes'
  BY <1>2 DEF Remote, cacheVars, taskVars, BytesInv, HasBytes, NameBytes, StepBytes, ChainBytes,
              LoopBytes
<1>3. CASE Age
  <2>1. \A n \in Name : entries[n] \in Entry \cup {None} /\ meta[n] \in Entry \cup {None}
    BY DEF BytesInv, TypeOK, CacheTypeOK
  <2>2. \A n \in Name : /\ Writes(entries'[n]) => Writes(entries[n])
                        /\ Writes(meta'[n]) => Writes(meta[n])
    BY <1>3, <2>1 DEF Age, Aged, Writes, Entry
  <2>3. NameBytes'
    BY <1>3, <2>2 DEF Age, BytesInv, HasBytes, NameBytes
  <2>4. \A t \in Task : step'[t].at = "done" /\ todo'[t] = <<>> /\ left'[t] = {}
    BY <1>3, IdleIsDone DEF Age, taskVars, BytesInv
  <2>. QED  BY <2>3, <2>4, IdleBytes
<1>4. CASE Crash
  <2>1. NameBytes'
    BY <1>4 DEF Crash, LoadIndex, BytesInv, HasBytes, NameBytes, Writes
  <2>2. \A t \in Task : step'[t].at = "done" /\ todo'[t] = <<>> /\ left'[t] = {}
    BY <1>4, NoStepParts DEF Crash
  <2>. QED  BY <2>1, <2>2, IdleBytes
<1>5. CASE UNCHANGED vars
  BY <1>5 DEF vars, cacheVars, taskVars, BytesInv, HasBytes, NameBytes, StepBytes, ChainBytes,
              LoopBytes
<1>. QED  BY <1>1, <1>2, <1>3, <1>4, <1>5 DEF Next

(* With one task, whatever is dirty and not deleted has a data file, also  *)
(* after any crashes: an export finds something to read.                   *)
THEOREM DirtyHasBytes == OneTask => (Spec => []HasBytes)
<1>. SUFFICES ASSUME OneTask PROVE Spec => []HasBytes
  OBVIOUS
<1>1. Init => HasBytes
  BY HasBytesInit
<1>2. TypeOK /\ Controlled /\ IndexInv /\ HasBytes /\ [Next]_vars => HasBytes'
  BY HasBytesNext DEF BytesInv
<1>3. Spec => []IndexInv
  BY IndexOnDisk
<1>. QED  BY <1>1, <1>2, <1>3, TypeCorrect, CallsInOrder, PTL DEF Spec

-----------------------------------------------------------------------------
(* What a flush has left to do.                                            *)
Ahead(t) ==
    {i.n : i \in left[t]}
      \cup IF step[t].at \in {"done", "tally"} THEN {} ELSE {step[t].n}

FlushInv ==
    used["fault"] = 0 =>
        \A t \in Task : op[t] = "flush" => DirtyNames \subseteq Ahead(t)

LEMMA Dirty ==
    /\ \A n : n \in DirtyNames <=> n \in Name /\ entries[n] # None /\ entries[n].dirty
    /\ DirtyNames \subseteq Name
BY DEF DirtyNames

(* A step of a flush that makes nothing else dirty, and stays with its     *)
(* file unless that is clean.                                              *)
LEMMA StaysAhead ==
    ASSUME BytesInv, NEW t \in Task, DirtyNames \subseteq Ahead(t), left'[t] = left[t],
           DirtyNames' \ {step[t].n} \subseteq DirtyNames,
           \/ step'[t].at \notin {"done", "tally"} /\ step'[t].n = step[t].n
           \/ step[t].n \notin DirtyNames'
    PROVE  DirtyNames' \subseteq Ahead(t)'
BY DEF Ahead

LEMMA LocalAhead ==
    ASSUME BytesInv, NEW t \in Task, DirtyNames \subseteq Ahead(t), UNCHANGED <<entries, left>>,
           \/ step'[t].at \notin {"done", "tally"} /\ step'[t].n = step[t].n
           \/ step[t].n \notin DirtyNames
    PROVE  DirtyNames' \subseteq Ahead(t)'
<1>1. DirtyNames' = DirtyNames
  BY DEF DirtyNames
<1>. QED  BY <1>1, StaysAhead

LEMMA FlushingAhead ==
    ASSUME OneTask, BytesInv, NEW t \in Task, DirtyNames \subseteq Ahead(t), op[t] = "flush",
           Proceeds(t), op'[t] = "flush"
    PROVE  DirtyNames' \subseteq Ahead(t)'
<1>. DEFINE s == step[t]  n == step[t].n  e == entries[n]
<1>1. /\ TypeOK /\ s \in Step /\ n \in Name
      /\ \A m \in Name : entries[m] \in Entry \cup {None} /\ data[m] \in Tag
  BY StepParts, Held DEF BytesInv
<1>2. /\ StepBytes(op[t], s, buf[t]) /\ NameBytes /\ IndexOf(s)
      /\ ExportPhase(s) \/ s.at \in {"done", "tally"}
      /\ \A i \in left[t] : i.at = "fpGet"
  BY BytesNow, IndexNow DEF Control, BytesInv, Fits, Iterates
<1>3. Abort(t) => /\ step'[t].at = "done" /\ UNCHANGED left
  BY <1>1, EndsDone DEF Abort, TypeOK, EngineTypeOK
<1>4. \A s2 : /\ Goto(t, s2) /\ UNCHANGED <<entries, left>>
              /\ s2.at \notin {"done", "tally"} /\ s2.n = n
              => DirtyNames' \subseteq Ahead(t)'
  BY <1>1, Goes, LocalAhead
<1>5. CASE FlushGet(t)
  <2>. DEFINE s2 == Mk(IF e.deleted THEN "fpDelete" ELSE "fpHead", n, e, None, "cache")
  <2>1. s2.at \notin {"done", "tally"} /\ s2.n = n
    BY MkParts
  <2>2. UNCHANGED <<entries, left>> /\ (n \notin DirtyNames \/ Goto(t, s2))
    BY <1>5 DEF FlushGet, same, cacheVars
  <2>. HIDE DEF s2
  <2>. QED  BY <1>4, <2>1, <2>2, LocalAhead
<1>6. CASE FlushDelete(t)
  <2>1. Do("drop", n).at = "drop" /\ Do("drop", n).n = n
    BY DoParts
  <2>. QED  BY <1>4, <1>6, <2>1 DEF FlushDelete, same, cacheVars
<1>7. CASE FlushHead(t)
  <2>. DEFINE s2 == IF RemoteChanged(store[n], s.e.base)
                      THEN Mk("lfRead", n, s.e, store[n], "conflict") ELSE Onward(s, "fpRead")
  <2>1. s2.at \in {"lfRead", "fpRead"} /\ s2.n = n
    BY <1>1, MkParts, OnwardParts
  <2>2. UNCHANGED <<entries, left>> /\ Goto(t, s2)
    BY <1>7 DEF FlushHead, same, cacheVars
  <2>. HIDE DEF s2
  <2>. QED  BY <1>4, <2>1, <2>2
<1>8. CASE FlushRead(t)
  <2>. DEFINE s2 == Onward(s, IF s.at = "fpRead" THEN "fpWrite" ELSE "lfSave")
  <2>1. s2.at \in {"fpWrite", "lfSave"} /\ s2.n = n
    BY <1>1, OnwardParts
  <2>2. data[n] # None
    BY <1>1, <1>2, <1>8 DEF FlushRead, StepBytes, NameBytes
  <2>3. Goto(t, s2) /\ UNCHANGED <<entries, left>>
    BY <1>8, <2>2 DEF FlushRead, same, cacheVars
  <2>. HIDE DEF s2
  <2>. QED  BY <1>4, <2>1, <2>3
<1>9. CASE FlushWrite(t)
  <2>. DEFINE s2 == Mk(IF Backend = "opendal" THEN "fpTag" ELSE "fpSide", n, s.e, buf[t], "cache")
  <2>1. s2.at \in {"fpTag", "fpSide"} /\ s2.n = n
    BY MkParts
  <2>2. Goto(t, s2) /\ UNCHANGED <<entries, left>>
    BY <1>9 DEF FlushWrite, same, cacheVars
  <2>. HIDE DEF s2
  <2>. QED  BY <1>4, <2>1, <2>2
<1>10. CASE FlushTag(t) \/ FlushSidecar(t)
  <2>1. /\ Mk("fpSide", n, s.e, store[n], "cache").at = "fpSide"
        /\ Mk("fpSide", n, s.e, store[n], "cache").n = n
        /\ Onward(s, "fpClean").at = "fpClean" /\ Onward(s, "fpClean").n = n
    BY <1>1, MkParts, OnwardParts
  <2>. QED  BY <1>4, <1>10, <2>1 DEF FlushTag, FlushSidecar, same, cacheVars
<1>11. CASE FlushClean(t)
  <2>. DEFINE s2 == Put(n, Cleaned(e, s.c), None, "cache")
  <2>1. s2.at = "put" /\ s2.n = n
    BY MkParts DEF Put
  <2>2. UNCHANGED entries /\ ((e = None /\ Abort(t)) \/ (Goto(t, s2) /\ UNCHANGED left))
    BY <1>11 DEF FlushClean, same, cacheVars
  <2>3. e = None => n \notin DirtyNames
    BY Dirty
  <2>. HIDE DEF s2
  <2>. QED  BY <1>3, <1>4, <2>1, <2>2, <2>3, LocalAhead
<1>12. CASE PutMeta(t)
  <2>1. Onward(s, "insert").at = "insert" /\ Onward(s, "insert").n = n
    BY <1>1, OnwardParts
  <2>. QED  BY <1>4, <1>12, <2>1 DEF PutMeta, same
<1>13. CASE InsertEntry(t)
  <2>1. s.at = "insert" /\ entries' = [entries EXCEPT ![n] = s.e] /\ AfterInsert(t, s)
    BY <1>13 DEF InsertEntry, At, Insert
  <2>2. entries'[n] = s.e /\ \A m \in Name : m # n => entries'[m] = entries[m]
    BY <1>1, <2>1 DEF TypeOK, CacheTypeOK
  <2>3. Clean(s.e)
    BY <1>2, <2>1 DEF StepBytes, Putting
  <2>4. n \notin DirtyNames' /\ DirtyNames' \subseteq DirtyNames
    BY <2>2, <2>3 DEF DirtyNames, Clean
  <2>5. left' = left
    BY <1>3, <2>1 DEF AfterInsert, same
  <2>. QED  BY <2>4, <2>5, StaysAhead
<1>14. CASE DropEntry(t)
  <2>1. entries' = [entries EXCEPT ![n] = None] /\ left' = left
    BY <1>14 DEF DropEntry, Remove, same
  <2>2. n \notin DirtyNames' /\ DirtyNames' \subseteq DirtyNames
    BY <1>1, <2>1 DEF DirtyNames, TypeOK, CacheTypeOK
  <2>. QED  BY <2>1, <2>2, StaysAhead
<1>15. CASE DropMeta(t) \/ DropData(t)
  <2>1. s.at \in {"rmMeta", "rmData"} /\ UNCHANGED <<entries, left>>
    BY <1>15 DEF DropMeta, DropData, At, same
  <2>2. n \notin DirtyNames
    BY <1>2, <2>1, Dirty DEF IndexOf
  <2>. QED  BY <2>1, <2>2, LocalAhead
<1>16. CASE SaveLost(t)
  <2>1. s.at = "lfSave" /\ s.e \in Entry /\ Goto(t, Onward(s, "drop")) /\ left' = left
    BY <1>1, <1>16, StepParts DEF SaveLost, At, Carrier, same
  <2>2. PICK l \in Lost : entries' = [entries EXCEPT ![l] = LostEntry(s.e)]
    BY <1>16 DEF SaveLost, Insert
  <2>3. ~LostEntry(s.e).dirty
    BY <2>1 DEF LostEntry, Entry
  <2>4. DirtyNames' \subseteq DirtyNames
    BY <1>1, <2>2, <2>3 DEF DirtyNames, TypeOK, CacheTypeOK, Name
  <2>5. step'[t].at = "drop" /\ step'[t].n = n
    BY <1>1, <2>1, Goes, OnwardParts
  <2>. QED  BY <2>1, <2>4, <2>5, StaysAhead
<1>17. CASE Tally(t)
  <2>1. s.at = "tally" /\ UNCHANGED <<entries, left>>
    BY <1>17 DEF Tally, At, same, cacheVars
  <2>2. DirtyNames \subseteq {i.n : i \in left[t]} /\ DirtyNames' = DirtyNames
    BY <2>1 DEF Ahead, DirtyNames
  <2>. QED  BY <2>1, <2>2 DEF Ahead
<1>18. CASE NextCall(t)
  <2>1. s.at = "done" /\ UNCHANGED <<entries, left>>
    BY <1>18 DEF NextCall, At, cacheVars
  <2>2. DirtyNames \subseteq {i.n : i \in left[t]} /\ DirtyNames' = DirtyNames
    BY <2>1 DEF Ahead, DirtyNames
  <2>. QED  BY <2>1, <2>2 DEF Ahead
<1>19. CASE NextIteration(t)
  <2>1. PICK i \in left[t] : Goto(t, i) /\ left' = [left EXCEPT ![t] = Remaining(@, i)]
    BY <1>19 DEF NextIteration
  <2>2. /\ step'[t] = i /\ left'[t] = left[t] \ {i} /\ i.at = "fpGet"
        /\ s.at = "done" /\ entries' = entries
    BY <1>1, <1>2, <1>19, <2>1, Goes DEF NextIteration, Remaining, At, cacheVars, TypeOK,
                                         EngineTypeOK
  <2>3. DirtyNames \subseteq {j.n : j \in left[t]} /\ DirtyNames' = DirtyNames
    BY <2>2 DEF Ahead, DirtyNames
  <2>. QED  BY <2>2, <2>3 DEF Ahead
<1>20. CASE Return(t)
  BY <1>1, <1>20 DEF Return, TypeOK, EngineTypeOK
<1>21. CASE \/ StatCache(t) \/ StatHead(t) \/ ReadGet(t) \/ ReadBytes(t) \/ Fetch(t)
            \/ FetchLookup(t) \/ ListRead(t) \/ TruncateData(t) \/ FillData(t)
            \/ WriteHead(t) \/ DeleteGet(t) \/ ExpireData(t) \/ Invalidate(t)
  BY <1>2, <1>21 DEF StatCache, StatHead, ReadGet, ReadBytes, Fetch, FetchLookup, ListRead,
     TruncateData, FillData, WriteHead, DeleteGet, ExpireData, Invalidate, At, ExportPhase,
     Putting, Removing
<1>. QED  BY <1>5, <1>6, <1>7, <1>8, <1>9, <1>10, <1>11, <1>12, <1>13, <1>14, <1>15, <1>16,
             <1>17, <1>18, <1>19, <1>20, <1>21 DEF Proceeds

LEMMA FlushNext ==
    ASSUME OneTask, BytesInv, FlushInv, [Next]_vars PROVE FlushInv'
<1>1. SUFFICES ASSUME used'["fault"] = 0, NEW t \in Task, op'[t] = "flush"
               PROVE  DirtyNames' \subseteq Ahead(t)'
  BY DEF FlushInv
<1>2. TypeOK /\ Controlled
  BY DEF BytesInv
<1>3. used["fault"] = 0 /\ \A u \in Task : ~BackendFails(u)
  BY <1>1, <1>2, UsedGrows DEF Hazard
<1>4. op[t] = "flush" => DirtyNames \subseteq Ahead(t)
  BY <1>3 DEF FlushInv
<1>5. CASE Begins(t)
  <2>1. \A name, first, rest, loop : Begin(t, name, first, rest, loop) => op'[t] = name
    BY <1>2 DEF Begin, TypeOK, EngineTypeOK
  <2>2. ~Flush(t) => \E name : name # "flush" /\ \E first, rest, loop : Begin(t, name, first, rest, loop)
    <3>1. ASSUME NEW n \in Path, Stat(t, n) \/ Read(t, n) \/ DeletePath(t, n) \/ InvalidatePath(t, n)
          PROVE  \E name \in {"stat", "read", "delete", "invalidate"} :
                     \E first, rest, loop : Begin(t, name, first, rest, loop)
      BY <3>1 DEF Stat, Read, DeletePath, InvalidatePath
    <3>2. ASSUME NEW n \in Path, NEW d \in Data, WriteFile(t, n, d)
          PROVE  \E first, rest, loop : Begin(t, "write", first, rest, loop)
      BY <3>2 DEF WriteFile
    <3>3. ASSUME NEW from \in Path, NEW to \in Path, RenamePath(t, from, to)
          PROVE  \E first, rest, loop : Begin(t, "rename", first, rest, loop)
      BY <3>3, Zenon DEF RenamePath
    <3>4. ASSUME (\E prefix \in Prefix : InvalidatePrefix(t, prefix)) \/ ListDir(t) \/ ExpireCache(t)
          PROVE  \E name \in {"invalidatePrefix", "list", "expire"} :
                     \E first, rest, loop : Begin(t, name, first, rest, loop)
      BY <3>4, Zenon DEF InvalidatePrefix, ListDir, ExpireCache
    <3>. HIDE DEF Begin
    <3>. QED  BY <1>5, <3>1, <3>2, <3>3, <3>4 DEF Begins
  <2>3. Flush(t)
    BY <1>1, <2>1, <2>2
  <2>4. /\ left'[t] = {Do("fpGet", m) : m \in DirtyNames} /\ entries' = entries
    BY <1>2, <2>3 DEF Flush, Begin, TypeOK, EngineTypeOK, cacheVars
  <2>5. \A m : Do("fpGet", m).n = m
    BY DoParts
  <2>6. DirtyNames' = DirtyNames
    BY <2>4 DEF DirtyNames
  <2>. QED  BY <2>4, <2>5, <2>6 DEF Ahead
<1>6. CASE Proceeds(t)
  <2>1. op[t] = "flush"
    <3>1. Return(t) \/ op' = op
      BY <1>6 DEF Proceeds, StatCache, StatHead, PutMeta, InsertEntry, ReadGet, ReadBytes, Fetch,
         FetchLookup, ListRead, TruncateData, FillData, WriteHead, DeleteGet, FlushGet, FlushDelete,
         DropEntry, DropMeta, DropData, FlushHead, FlushRead, SaveLost, FlushWrite, FlushTag,
         FlushSidecar, FlushClean, ExpireData, Invalidate, Tally, NextCall, NextIteration, outer
    <3>2. Return(t) => op'[t] \in {"none", "dead"}
      BY <1>2 DEF Return, TypeOK, EngineTypeOK
    <3>. QED  BY <1>1, <3>1, <3>2
  <2>. QED  BY <1>1, <1>4, <1>6, <2>1, FlushingAhead
<1>7. CASE (\E n \in Path, c \in Data \cup {None} : Remote(n, c)) \/ UNCHANGED vars
  <2>1. UNCHANGED <<entries, op, step, left>>
    BY <1>7 DEF Remote, vars, cacheVars, taskVars
  <2>. QED  BY <1>1, <1>4, <2>1 DEF DirtyNames, Ahead
<1>8. CASE Age
  BY <1>1, <1>8 DEF Age, taskVars, Running
<1>9. CASE Crash
  BY <1>1, <1>9 DEF Crash
<1>10. ASSUME NEW u \in Task, Begins(u) \/ Proceeds(u) PROVE u = t
  BY DEF OneTask
<1>. QED  BY <1>3, <1>5, <1>6, <1>7, <1>8, <1>9, <1>10 DEF Next

(* With one task, a flush leaves nothing dirty behind as long as the       *)
(* backend answers: what is dirty is the file it is at or one of those it  *)
(* still goes to, whatever conflicts it met and whatever crashes went      *)
(* before it.                                                              *)
THEOREM FlushDrainsAlways == OneTask => (Spec => []FlushDrains)
<1>. SUFFICES ASSUME OneTask PROVE Spec => []FlushDrains
  OBVIOUS
<1>1. Init => FlushInv
  BY DEF Init, FlushInv
<1>2. TypeOK /\ Controlled /\ IndexInv /\ HasBytes /\ FlushInv /\ [Next]_vars => FlushInv'
  BY FlushNext DEF BytesInv
<1>3. FlushInv => FlushDrains
  BY DEF FlushInv, FlushDrains, Finished, At, Ahead
<1>4. Spec => []IndexInv
  BY IndexOnDisk
<1>5. Spec => []HasBytes
  BY DirtyHasBytes
<1>. QED  BY <1>1, <1>2, <1>3, <1>4, <1>5, TypeCorrect, CallsInOrder, PTL DEF Spec
=============================================================================
