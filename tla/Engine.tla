------------------------------- MODULE Engine -------------------------------
(***************************************************************************)
(* The engine of crates/openfiles-core/src/engine.rs over its cache and an *)
(* object store, run by any number of asynchronous tasks.                  *)
(*                                                                         *)
(* A task runs one call at a time.  A call is a chain of steps; between    *)
(* two steps the code awaits a file or the backend, or leaves the lock of  *)
(* the index, and any other task, the remote writers of the bucket, a      *)
(* backend error or a crash may come in between.  What a step has read and *)
(* a later one uses is carried in the step itself.  One task is the        *)
(* command line or the FUSE mount, which run calls one after the other;    *)
(* several are the requests and the background sync of a server.           *)
(*                                                                         *)
(* Files only: directories, prefixes and path normalisation are left out,  *)
(* and so is the sidecar's content (its writing is kept, because the       *)
(* failure of it changes what happens next).                               *)
(***************************************************************************)
EXTENDS Cache, Sequences

CONSTANTS
    Task,       \* the tasks that call the engine
    Sync,       \* the ones that are background sync loops
    Ops,        \* which calls each task makes
    Backend,    \* "opendal": head gives an etag; "local": it gives none
    BatchWindow,    \* export_batch_window_secs
    Threshold,  \* direct_read_threshold_bytes
    SizeLimit,  \* size_less_than of the import rule
    Trigger,    \* trigger of the import rule: "dir" or "file"
    Limit,      \* how many remote mutations, backend errors and crashes
    Mishaps,    \* how many of them all together
    Gone        \* what a file's pending mutation is after a delete

VARIABLES
    store,      \* the objects of the bucket
    op,         \* the call each task is in
    step,       \* the step it does next
    todo,       \* the calls it makes after that, in order
    left,       \* the iterations its loop still has, in any order
    buf,        \* the bytes it holds
    len,        \* the size a stat gave it
    err,        \* whether something in the call failed
    ok,         \* whether some path of a flush succeeded
    used,       \* how much of Limit is used up
    pending     \* ghost: the acknowledged mutation of a file not yet exported

taskVars == <<op, step, todo, left, buf, len, err, ok>>
vars == <<cacheVars, store, taskVars, used, pending>>

OpName == {"stat", "read", "write", "delete", "rename", "list", "flush",
           "expire", "invalidate", "invalidatePrefix"}
Hazard == {"remote", "fault", "crash"}

ASSUME EngineAssumption ==
    /\ Path # {}
    /\ Sync \subseteq Task
    /\ Ops \in [Task -> SUBSET OpName]
    /\ Backend \in {"opendal", "local"}
    /\ BatchWindow \in Nat /\ Threshold \in Nat /\ SizeLimit \in Nat
    /\ Trigger \in {"dir", "file"}
    /\ Limit \in [Hazard -> Nat] /\ Mishaps \in Nat
    /\ Gone \notin Tag

-----------------------------------------------------------------------------
(* Steps.                                                                  *)

Call == {"stat", "readGet", "writeHead", "delGet", "fpGet", "tally"}
Label == Call \cup
    {"done", "statHead", "cacheRead", "direct", "fetch", "lookup",
     "trunc", "fill", "put", "insert", "drop", "rmMeta", "rmData",
     "fpDelete", "fpHead", "lfRead", "lfSave", "fpRead", "fpWrite", "fpTag",
     "fpSide", "fpClean", "expire", "invalidate", "listRead"}

(* Whom a step works for: what follows once its put or its removal is done. *)
Purpose == {"cache", "stat", "touch", "fetch", "list", "write", "delete", "conflict"}

(* The steps that carry an entry.                                          *)
Carrier == {"trunc", "fill", "put", "insert", "listRead", "expire", "fpHead", "fpRead",
            "fpWrite", "fpTag", "fpSide", "fpClean", "lfRead", "lfSave"}

Step ==
    {s \in [at : Label, n : Name, e : Entry \cup {None}, c : Tag, by : Purpose] :
        s.at \in Carrier => s.e \in Entry}

Mk(at, n, e, c, by) == [at |-> at, n |-> n, e |-> e, c |-> c, by |-> by]
Do(at, n) == Mk(at, n, None, None, "cache")
Put(n, e, c, by) == Mk("put", n, e, c, by)
Fetched(n, e, c, by) == Mk("trunc", n, e, c, by)
Onward(s, at) == [s EXCEPT !.at = at]

(* The etag head reports of an object.                                     *)
HeadTag(c) == IF Backend = "opendal" THEN c ELSE None

(* import_meta_from_object: the clean entry made of an object.             *)
Import(c) == FromPosix(HeadTag(c), Size[c])

(* The match in flush_path that decides whether there is a conflict.       *)
RemoteChanged(head, base) == head # None /\ base # None /\ HeadTag(head) # base

(* Whether a read goes to the object store and leaves the cache alone.     *)
ReadsDirectly(size) == size >= Threshold /\ ~(Trigger = "file" /\ size < SizeLimit)

(* The export a mutation makes at once when there is no batch window.      *)
(* Mutation: it is left to the background loop.                            *)
ExportLater(n) == <<>>
Export(n) == IF BatchWindow = 0 THEN <<Do("fpGet", n)>> ELSE <<>>

At(t, label) == step[t].at = label
Goto(t, s) == step' = [step EXCEPT ![t] = s]
Done(t) == Goto(t, Do("done", step[t].n))
Load(t, c) == buf' = [buf EXCEPT ![t] = c]
Measure(t, size) == len' = [len EXCEPT ![t] = size]

(* An error ends the call; in a flush, only the path it is at.             *)
Abort(t) ==
    /\ Done(t)
    /\ err' = [err EXCEPT ![t] = TRUE]
    /\ todo' = [todo EXCEPT ![t] = <<>>]
    /\ left' = [left EXCEPT ![t] = IF op[t] = "flush" THEN @ ELSE {}]

Spend(h) ==
    /\ used[h] < Limit[h]
    /\ used["remote"] + used["fault"] + used["crash"] < Mishaps
    /\ used' = [used EXCEPT ![h] = @ + 1]

same == <<todo, left, err>>         \* what a step leaves alone unless it fails
outer == <<op, ok, used>>           \* what no step of a call changes

-----------------------------------------------------------------------------
EngineTypeOK ==
    /\ store \in [Name -> Tag]
    /\ op \in [Task -> OpName \cup {"none", "dead"}]
    /\ step \in [Task -> Step]
    /\ todo \in [Task -> Seq(Step)]
    /\ left \in [Task -> SUBSET Step]
    /\ buf \in [Task -> Tag]
    /\ len \in [Task -> Nat]
    /\ err \in [Task -> BOOLEAN]
    /\ ok \in [Task -> BOOLEAN]
    /\ used \in [Hazard -> Nat]
    /\ pending \in [Name -> Tag \cup {Gone}]

(* Every variable keeps its type: entries, files, objects and steps.       *)
TypeOK == CacheTypeOK /\ EngineTypeOK

NoStep == Do("done", CHOOSE n \in Path : TRUE)

Init ==
    /\ CacheInit
    /\ store \in [Name -> Data \cup {None}]
    /\ \A l \in Lost : store[l] = None
    /\ op = [t \in Task |-> "none"]
    /\ step = [t \in Task |-> NoStep]
    /\ todo = [t \in Task |-> <<>>]
    /\ left = [t \in Task |-> {}]
    /\ buf = [t \in Task |-> None]
    /\ len = [t \in Task |-> 0]
    /\ err = [t \in Task |-> FALSE]
    /\ ok = [t \in Task |-> FALSE]
    /\ used = [h \in Hazard |-> 0]
    /\ pending = [n \in Name |-> None]

-----------------------------------------------------------------------------
(* The calls.                                                              *)

Begin(t, name, first, rest, loop) ==
    /\ name \in Ops[t]
    /\ op[t] = "none"
    /\ op' = [op EXCEPT ![t] = name]
    /\ Goto(t, first)
    /\ todo' = [todo EXCEPT ![t] = rest]
    /\ left' = [left EXCEPT ![t] = loop]
    /\ UNCHANGED <<cacheVars, store, len, err, ok, used, pending>>

Stat(t, n) == Begin(t, "stat", Do("stat", n), <<>>, {}) /\ UNCHANGED buf

(* read_all: a stat, then read_range with a stat of its own.               *)
Read(t, n) ==
    /\ Begin(t, "read", Do("stat", n), <<Do("stat", n), Do("readGet", n)>>, {})
    /\ UNCHANGED buf

WriteFile(t, n, d) ==
    /\ Begin(t, "write", Do("writeHead", n), Export(n), {})
    /\ Load(t, d)

DeletePath(t, n) ==
    /\ Begin(t, "delete", Do("delGet", n), Export(n), {})
    /\ UNCHANGED buf

(* rename_path: a stat, and then rename_file: read_all, write, delete.     *)
RenamePath(t, from, to) ==
    /\ Begin(t, "rename", Do("stat", from),
             <<Do("stat", from), Do("stat", from), Do("readGet", from)>>
             \o <<Do("writeHead", to)>> \o Export(to)
             \o <<Do("delGet", from)>> \o Export(from), {})
    /\ UNCHANGED buf

(* list_dir: imports the metadata of every object the listing returned.    *)
ListDir(t) ==
    /\ Begin(t, "list", NoStep, <<>>,
               {Put(m, Import(store[m]), None, "list") : m \in {m \in Name : store[m] # None}})
    /\ UNCHANGED buf

(* flush: flush_path of every entry that is dirty now.                     *)
Flush(t) ==
    /\ Begin(t, "flush", NoStep, <<>>, {Do("fpGet", m) : m \in DirtyNames})
    /\ UNCHANGED buf

(* expire_data_older_than_ns: works on a copy of the entries made now.     *)
ExpireCache(t) ==
    /\ Begin(t, "expire", NoStep, <<>>,
               {Mk("expire", m, entries[m], None, "cache") :
                    m \in {m \in Name : Expirable(entries[m])}})
    /\ UNCHANGED buf

InvalidatePath(t, n) ==
    Begin(t, "invalidate", Do("invalidate", n), <<>>, {}) /\ UNCHANGED buf

(* invalidate_prefix: whether an entry is dirty is looked up now.  Among   *)
(* files the prefix is the root's, or one file's own path.                 *)
Prefix == {Name} \cup {{n} : n \in Path}

InvalidatePrefix(t, prefix) ==
    /\ Begin(t, "invalidatePrefix", NoStep, <<>>,
               {Do("drop", m) : m \in {m \in prefix : Droppable(entries[m])}})
    /\ UNCHANGED buf
-----------------------------------------------------------------------------
(* stat and the import of an object's metadata.                            *)

(* A cached entry answers, unless it is a tombstone.                       *)
StatCache(t) ==
    /\ At(t, "stat")
    /\ LET n == step[t].n  e == entries[n]
       IN \/ /\ Known(e)
             /\ Measure(t, e.size)
             /\ Done(t)
          \/ /\ ~Known(e)
             /\ Goto(t, Do("statHead", n))
             /\ UNCHANGED len
    /\ UNCHANGED <<cacheVars, store, same, outer, buf, pending>>

StatHead(t) ==
    /\ At(t, "statHead")
    /\ LET n == step[t].n  c == store[n]
       IN \/ /\ c # None
             /\ Measure(t, Size[c])
             /\ Goto(t, Put(n, Import(c), None, "stat"))
             /\ UNCHANGED same
          \/ c = None /\ Abort(t) /\ UNCHANGED len
    /\ UNCHANGED <<cacheVars, store, outer, buf, pending>>

(* put_entry: the metadata file first, the index second.                   *)
PutMeta(t) ==
    /\ At(t, "put")
    /\ LET s == step[t]
       IN /\ WriteMeta(s.n, s.e)
          /\ Goto(t, Onward(s, "insert"))
    /\ UNCHANGED <<entries, data, store, same, outer, buf, len, pending>>

(* What a call goes on with once its entry is in the index.                *)
AfterInsert(t, s) ==
    \/ /\ s.by \in {"cache", "stat", "write", "delete"}
       /\ Done(t)
       /\ UNCHANGED <<same, buf>>
    \/ /\ s.by = "touch"
       /\ Goto(t, Do("cacheRead", s.n))
       /\ UNCHANGED <<same, buf>>
    \/ /\ s.by = "fetch" /\ len[t] <= Size[s.c]
       /\ Load(t, Cut(s.c, len[t]))
       /\ Done(t)
       /\ UNCHANGED same
    \/ /\ s.by = "fetch" /\ len[t] > Size[s.c]      \* the slice panics
       /\ Abort(t)
       /\ UNCHANGED buf
    \/ /\ s.by = "list"
       /\ IF Trigger = "dir" /\ s.e.size < SizeLimit
            THEN Goto(t, Onward(s, "listRead")) ELSE Done(t)
       /\ UNCHANGED <<same, buf>>
    \/ /\ s.by = "conflict"                         \* Err(Conflict)
       /\ Abort(t)
       /\ UNCHANGED buf

InsertEntry(t) ==
    /\ At(t, "insert")
    /\ LET s == step[t]
       IN /\ Insert(s.n, s.e)
          /\ AfterInsert(t, s)
          /\ pending' = CASE s.by = "write" -> [pending EXCEPT ![s.n] = s.c]
                          [] s.by = "delete" -> [pending EXCEPT ![s.n] = Gone]
                          [] OTHER -> pending
    /\ UNCHANGED <<meta, data, store, outer, len>>

-----------------------------------------------------------------------------
(* read_range, once it has its stat.                                       *)

ReadGet(t) ==
    /\ At(t, "readGet")
    /\ LET n == step[t].n  e == entries[n]
       IN \/ /\ len[t] = 0
             /\ Load(t, Torn)
             /\ Done(t)
          \/ /\ len[t] > 0 /\ Serves(e)
             /\ Goto(t, Put(n, Touched(e), None, "touch"))
             /\ UNCHANGED buf
          \/ /\ len[t] > 0 /\ ~Serves(e)
             /\ Goto(t, Do(IF ReadsDirectly(len[t]) THEN "direct" ELSE "fetch", n))
             /\ UNCHANGED buf
    /\ UNCHANGED <<cacheVars, store, same, outer, len, pending>>

(* A read of the data file, or of a range of the object.                   *)
ReadBytes(t) ==
    /\ step[t].at \in {"cacheRead", "direct"}
    /\ LET n == step[t].n
           c == IF At(t, "direct") THEN store[n] ELSE data[n]
       IN \/ c # None /\ Load(t, Cut(c, len[t])) /\ Done(t) /\ UNCHANGED same
          \/ c = None /\ Abort(t) /\ UNCHANGED buf
    /\ UNCHANGED <<cacheVars, store, outer, len, pending>>

Fetch(t) ==
    /\ At(t, "fetch")
    /\ LET n == step[t].n  c == store[n]
       IN \/ c # None /\ Goto(t, Mk("lookup", n, None, c, "fetch")) /\ UNCHANGED same
          \/ c = None /\ Abort(t)
    /\ UNCHANGED <<cacheVars, store, outer, buf, len, pending>>

FetchLookup(t) ==
    /\ At(t, "lookup")
    /\ LET s == step[t]  e == entries[s.n]
       IN \/ e # None /\ Goto(t, Fetched(s.n, Filled(e), s.c, "fetch")) /\ UNCHANGED same
          \/ e = None /\ Abort(t)
    /\ UNCHANGED <<cacheVars, store, outer, buf, len, pending>>

(* list_dir reads the small objects while it imports their metadata.       *)
ListRead(t) ==
    /\ At(t, "listRead")
    /\ LET s == step[t]  c == store[s.n]
       IN \/ c # None /\ Goto(t, Fetched(s.n, Filled(s.e), c, "cache")) /\ UNCHANGED same
          \/ c = None /\ Abort(t)
    /\ UNCHANGED <<cacheVars, store, outer, buf, len, pending>>

(* write_data.  A write gives up the mutation that was pending here.       *)
TruncateData(t) ==
    /\ At(t, "trunc")
    /\ LET s == step[t]
       IN /\ Truncate(s.n)
          /\ Goto(t, Onward(s, "fill"))
          /\ pending' = IF s.by = "write" THEN [pending EXCEPT ![s.n] = None] ELSE pending
    /\ UNCHANGED <<entries, meta, store, same, outer, buf, len>>

FillData(t) ==
    /\ At(t, "fill")
    /\ Fill(step[t].n, step[t].c)
    /\ Goto(t, Onward(step[t], "put"))
    /\ UNCHANGED <<entries, meta, store, same, outer, buf, len, pending>>

-----------------------------------------------------------------------------
(* write_file and delete_path.                                             *)

(* The entry write_file makes: dirty, based on what head just said.        *)
(* Mutations: based on the bytes written; clean.                           *)
WrittenOverItself(head, c) ==
    [FromPosix(HeadTag(c), Size[c]) EXCEPT !.cached = TRUE, !.dirty = TRUE]
WrittenClean(head, c) == [FromPosix(HeadTag(head), Size[c]) EXCEPT !.cached = TRUE]
Written(head, c) ==
    [FromPosix(HeadTag(head), Size[c]) EXCEPT !.cached = TRUE, !.dirty = TRUE]

WriteHead(t) ==
    /\ At(t, "writeHead")
    /\ LET n == step[t].n
       IN Goto(t, Fetched(n, Written(store[n], buf[t]), buf[t], "write"))
    /\ UNCHANGED <<cacheVars, store, same, outer, buf, len, pending>>

(* The tombstone delete_path makes of the entry, or of nothing.  From here *)
(* on the mutation that was pending is being replaced.                     *)
Tombstone(e) ==
    [(IF e = None THEN FromPosix(None, 0) ELSE e) EXCEPT !.deleted = TRUE, !.dirty = TRUE]

DeleteGet(t) ==
    /\ At(t, "delGet")
    /\ LET n == step[t].n
       IN /\ Goto(t, Put(n, Tombstone(entries[n]), None, "delete"))
          /\ pending' = [pending EXCEPT ![n] = None]
    /\ UNCHANGED <<cacheVars, store, same, outer, buf, len>>
-----------------------------------------------------------------------------
(* flush_path and move_to_lost_found.                                      *)

FlushGet(t) ==
    /\ At(t, "fpGet")
    /\ LET n == step[t].n  e == entries[n]
       IN IF n \notin DirtyNames
            THEN Done(t)
            ELSE Goto(t, Mk(IF e.deleted THEN "fpDelete" ELSE "fpHead", n, e, None, "cache"))
    /\ UNCHANGED <<cacheVars, store, same, outer, buf, len, pending>>

(* A tombstone deletes the object, whatever became of it.                  *)
FlushDelete(t) ==
    /\ At(t, "fpDelete")
    /\ LET n == step[t].n
       IN /\ store' = [store EXCEPT ![n] = None]
          /\ pending' = [pending EXCEPT ![n] = IF @ = Gone THEN None ELSE @]
          /\ Goto(t, Do("drop", n))
    /\ UNCHANGED <<cacheVars, same, outer, buf, len>>

(* remove_entry, in its three steps.                                       *)
AfterRemove(s) ==
    IF s.by = "conflict" THEN Put(s.n, Import(s.c), None, "conflict") ELSE Do("done", s.n)

DropEntry(t) ==
    /\ At(t, "drop")
    /\ LET s == step[t]
       IN /\ Remove(s.n)
          /\ Goto(t, IF entries[s.n] = None THEN AfterRemove(s) ELSE Onward(s, "rmMeta"))
    /\ UNCHANGED <<meta, data, store, same, outer, buf, len, pending>>

DropMeta(t) ==
    /\ At(t, "rmMeta")
    /\ UnlinkMeta(step[t].n)
    /\ Goto(t, Onward(step[t], "rmData"))
    /\ UNCHANGED <<entries, data, store, same, outer, buf, len, pending>>

DropData(t) ==
    /\ At(t, "rmData")
    /\ UnlinkData(step[t].n)
    /\ Goto(t, AfterRemove(step[t]))
    /\ UNCHANGED <<entries, meta, store, same, outer, buf, len, pending>>

FlushHead(t) ==
    /\ At(t, "fpHead")
    /\ LET s == step[t]  head == store[s.n]
       IN Goto(t, IF RemoteChanged(head, s.e.base)
                    THEN Mk("lfRead", s.n, s.e, head, "conflict")
                    ELSE Onward(s, "fpRead"))
    /\ UNCHANGED <<cacheVars, store, same, outer, buf, len, pending>>

(* The read of the bytes to export, or to keep in lost+found.              *)
FlushRead(t) ==
    /\ step[t].at \in {"fpRead", "lfRead"}
    /\ LET s == step[t]  c == data[s.n]
       IN \/ /\ c # None
             /\ Load(t, c)
             /\ Goto(t, Onward(s, IF s.at = "fpRead" THEN "fpWrite" ELSE "lfSave"))
             /\ UNCHANGED same
          \/ c = None /\ Abort(t) /\ UNCHANGED buf
    /\ UNCHANGED <<cacheVars, store, outer, len, pending>>

(* The entry kept in lost+found: clean, so that it is never exported.      *)
LostEntry(e) == [e EXCEPT !.base = None, !.dirty = FALSE, !.cached = TRUE]

(* Mutation: the bytes are not copied.                                     *)
SaveBytesSkipped(l, c) == data' = data
SaveBytes(l, c) == data' = [data EXCEPT ![l] = c]

(* The copy goes to a name made up of the time: nobody else knows it yet.  *)
SaveLost(t) ==
    /\ At(t, "lfSave")
    /\ LET s == step[t]
       IN /\ \E l \in Lost :
               /\ entries[l] = None /\ meta[l] = None
               /\ SaveBytes(l, buf[t])
               /\ WriteMeta(l, LostEntry(s.e))
               /\ Insert(l, LostEntry(s.e))
          /\ pending' = [pending EXCEPT ![s.n] = IF @ = buf[t] THEN None ELSE @]
          /\ Goto(t, Onward(s, "drop"))
    /\ UNCHANGED <<store, same, outer, buf, len>>

(* OpenDAL's write is followed by a head for the version it made.          *)
FlushWrite(t) ==
    /\ At(t, "fpWrite")
    /\ LET s == step[t]
       IN /\ store' = [store EXCEPT ![s.n] = buf[t]]
          /\ pending' = [pending EXCEPT ![s.n] = IF @ = buf[t] THEN None ELSE @]
          /\ Goto(t, Mk(IF Backend = "opendal" THEN "fpTag" ELSE "fpSide",
                        s.n, s.e, buf[t], "cache"))
    /\ UNCHANGED <<cacheVars, same, outer, buf, len>>

FlushTag(t) ==
    /\ At(t, "fpTag")
    /\ LET s == step[t] IN Goto(t, Mk("fpSide", s.n, s.e, store[s.n], "cache"))
    /\ UNCHANGED <<cacheVars, store, same, outer, buf, len, pending>>

FlushSidecar(t) ==
    /\ At(t, "fpSide")
    /\ Goto(t, Onward(step[t], "fpClean"))
    /\ UNCHANGED <<cacheVars, store, same, outer, buf, len, pending>>

(* mark_clean: of the entry that is in the index now.                      *)
FlushClean(t) ==
    /\ At(t, "fpClean")
    /\ LET s == step[t]  e == entries[s.n]
       IN \/ e # None /\ Goto(t, Put(s.n, Cleaned(e, s.c), None, "cache")) /\ UNCHANGED same
          \/ e = None /\ Abort(t)
    /\ UNCHANGED <<cacheVars, store, outer, buf, len, pending>>

-----------------------------------------------------------------------------
(* expiration, invalidation and the loops.                                 *)

ExpireData(t) ==
    /\ At(t, "expire")
    /\ LET s == step[t]
       IN UnlinkData(s.n) /\ Goto(t, Put(s.n, Emptied(s.e), None, "cache"))
    /\ UNCHANGED <<entries, meta, store, same, outer, buf, len, pending>>

(* Whether the entry is dirty is looked up now; the removal comes later.   *)
Invalidate(t) ==
    /\ At(t, "invalidate")
    /\ LET n == step[t].n IN IF Droppable(entries[n]) THEN Goto(t, Do("drop", n)) ELSE Done(t)
    /\ UNCHANGED <<cacheVars, store, same, outer, buf, len, pending>>

Tally(t) ==
    /\ At(t, "tally")
    /\ ok' = [ok EXCEPT ![t] = TRUE]
    /\ Done(t)
    /\ UNCHANGED <<cacheVars, store, same, op, used, buf, len, pending>>

Running(t) == op[t] \notin {"none", "dead"}

NextCall(t) ==
    /\ Running(t) /\ At(t, "done") /\ todo[t] # <<>>
    /\ Goto(t, Head(todo[t]))
    /\ todo' = [todo EXCEPT ![t] = Tail(@)]
    /\ UNCHANGED <<cacheVars, store, left, err, outer, buf, len, pending>>

(* Mutation: the loop does not get past an iteration.                      *)
RemainingSame(loop, s) == loop
Remaining(loop, s) == loop \ {s}

NextIteration(t) ==
    /\ Running(t) /\ At(t, "done") /\ todo[t] = <<>>
    /\ \E s \in left[t] :
         /\ Goto(t, s)
         /\ left' = [left EXCEPT ![t] = Remaining(@, s)]
         /\ todo' = [todo EXCEPT ![t] = IF op[t] = "flush" THEN <<Do("tally", s.n)>> ELSE <<>>]
    /\ UNCHANGED <<cacheVars, store, err, outer, buf, len, pending>>

(* A flush that exported something hides the errors of the other paths.    *)
Failed(t) == err[t] /\ (op[t] = "flush" => ~ok[t])

Finished(t) == Running(t) /\ At(t, "done") /\ todo[t] = <<>> /\ left[t] = {}

(* A background loop ends with the first call that fails.                  *)
Return(t) ==
    /\ Finished(t)
    /\ op' = [op EXCEPT ![t] = IF t \in Sync /\ Failed(t) THEN "dead" ELSE "none"]
    /\ Goto(t, NoStep)
    /\ Load(t, None)
    /\ Measure(t, 0)
    /\ err' = [err EXCEPT ![t] = FALSE]
    /\ ok' = [ok EXCEPT ![t] = FALSE]
    /\ UNCHANGED <<cacheVars, store, todo, left, used, pending>>

-----------------------------------------------------------------------------
(* What happens around the tasks.                                          *)

BackendCall == {"statHead", "direct", "fetch", "listRead", "writeHead", "fpDelete",
                "fpHead", "fpWrite", "fpTag", "fpSide"}

(* The backend call a task awaits ends in an error.  The object store may  *)
(* have carried out a write or a delete all the same.                      *)
BackendFails(t) ==
    /\ step[t].at \in BackendCall
    /\ Spend("fault")
    /\ LET n == step[t].n
       IN \/ UNCHANGED <<store, pending>>
          \/ /\ At(t, "fpWrite")
             /\ store' = [store EXCEPT ![n] = buf[t]]
             /\ pending' = [pending EXCEPT ![n] = IF @ = buf[t] THEN None ELSE @]
          \/ /\ At(t, "fpDelete")
             /\ store' = [store EXCEPT ![n] = None]
             /\ pending' = [pending EXCEPT ![n] = IF @ = Gone THEN None ELSE @]
    /\ Abort(t)
    /\ UNCHANGED <<cacheVars, op, ok, buf, len>>

(* Somebody else writes or deletes an object.                              *)
Remote(n, c) ==
    /\ store[n] # c
    /\ Spend("remote")
    /\ store' = [store EXCEPT ![n] = c]
    /\ UNCHANGED <<cacheVars, taskVars, pending>>

(* A day passes: no call takes that long.                                  *)
Age ==
    /\ \A t \in Task : ~Running(t)
    /\ \E n \in Name : entries[n] # None /\ ~entries[n].old
    /\ entries' = Aged(entries)
    /\ meta' = Aged(meta)
    /\ UNCHANGED <<data, store, taskVars, used, pending>>

(* The process dies and comes up again.  A metadata file that was being    *)
(* written may be cut off.                                                 *)
Crash ==
    /\ Spend("crash")
    /\ \E torn \in SUBSET {step[t].n : t \in {t \in Task : At(t, "put")}} : LoadIndex(torn)
    /\ op' = [t \in Task |-> "none"]
    /\ step' = [t \in Task |-> NoStep]
    /\ todo' = [t \in Task |-> <<>>]
    /\ left' = [t \in Task |-> {}]
    /\ buf' = [t \in Task |-> None]
    /\ len' = [t \in Task |-> 0]
    /\ err' = [t \in Task |-> FALSE]
    /\ ok' = [t \in Task |-> FALSE]
    /\ UNCHANGED <<data, store, pending>>

-----------------------------------------------------------------------------
Begins(t) ==
    \/ \E n \in Path : Stat(t, n) \/ Read(t, n) \/ DeletePath(t, n) \/ InvalidatePath(t, n)
    \/ \E n \in Path, d \in Data : WriteFile(t, n, d)
    \/ \E from, to \in Path : RenamePath(t, from, to)
    \/ \E prefix \in Prefix : InvalidatePrefix(t, prefix)
    \/ ListDir(t) \/ Flush(t) \/ ExpireCache(t)

Proceeds(t) ==
    \/ StatCache(t) \/ StatHead(t) \/ PutMeta(t) \/ InsertEntry(t)
    \/ ReadGet(t) \/ ReadBytes(t) \/ Fetch(t) \/ FetchLookup(t) \/ ListRead(t)
    \/ TruncateData(t) \/ FillData(t) \/ WriteHead(t) \/ DeleteGet(t)
    \/ FlushGet(t) \/ FlushDelete(t) \/ DropEntry(t) \/ DropMeta(t) \/ DropData(t)
    \/ FlushHead(t) \/ FlushRead(t) \/ SaveLost(t) \/ FlushWrite(t) \/ FlushTag(t)
    \/ FlushSidecar(t) \/ FlushClean(t) \/ ExpireData(t) \/ Invalidate(t)
    \/ Tally(t) \/ NextCall(t) \/ NextIteration(t) \/ Return(t)

Next ==
    \/ \E t \in Task : Begins(t) \/ Proceeds(t) \/ BackendFails(t)
    \/ \E n \in Path, c \in Data \cup {None} : Remote(n, c)
    \/ Age
    \/ Crash

Spec == Init /\ [][Next]_vars

(* The process keeps running its tasks: every await is answered or fails,  *)
(* and tokio polls every task that is ready.                               *)
Fairness == \A t \in Task : WF_vars(Proceeds(t))

(* The interval of the background loop keeps ticking.                      *)
SyncFairness == \A t \in Sync : WF_vars(Flush(t))

FairSpec == Spec /\ Fairness /\ SyncFairness

-----------------------------------------------------------------------------
(* Properties.                                                             *)

(* No acknowledged write is lost: until its bytes are exported, kept in    *)
(* lost+found or replaced by a later call, the path has a dirty entry and  *)
(* the data file holds exactly them (write_file, flush_path, mark_clean,   *)
(* expiration, invalidation, load_index).                                  *)
NoLostWrite ==
    \A n \in Name : pending[n] \in Content =>
        /\ Known(entries[n]) /\ entries[n].dirty
        /\ data[n] = pending[n]

(* No acknowledged delete is forgotten: until the object is deleted, or    *)
(* the path is written again, its tombstone stays (delete_path, stat,      *)
(* flush_path, load_index).                                                *)
NoLostDelete ==
    \A n \in Name : pending[n] = Gone =>
        entries[n] # None /\ entries[n].dirty /\ entries[n].deleted

(* An export replaces only the version the local copy was made from;       *)
(* anything else is a conflict (flush_path).                               *)
ExportOverBase ==
    [][\A t \in Task : FlushWrite(t) =>
          store[step[t].n] \in {None, step[t].e.base, buf[t]}]_vars

(* No task is halfway through an update of this name's entry and files.    *)
Quiet(n) ==
    \A t \in Task : step[t].n = n =>
        step[t].at \notin {"fill", "put", "insert", "rmMeta", "rmData"}

(* What a read would be answered from is whole and as long as the entry    *)
(* says (write_data before put_entry; remove_data before the flag goes).   *)
ServedWhole ==
    \A n \in Name :
        Quiet(n) /\ Serves(entries[n]) /\ Known(entries[n])
            => data[n] \in Data /\ Size[data[n]] = entries[n].size

(* The index and the files tell a restarted process the same, and no data  *)
(* file is left that no entry accounts for (put_entry, remove_entry).      *)
DiskAgrees ==
    \A n \in Name : Quiet(n) =>
        /\ meta[n] = entries[n]
        /\ entries[n] = None => data[n] = None

(* No half-written file is exported (write_data, read_all in flush_path).  *)
NoTornExport == \A n \in Name : store[n] # Torn

(* A read returns the last write of the path, or the object if the last    *)
(* write was exported; it never returns anything else and never fails      *)
(* while there is something to return (read_range, stat, the import).      *)
ReadIsCurrent ==
    \A t \in Task : op[t] = "read" /\ Finished(t) =>
        LET n == step[t].n
            c == IF pending[n] = None THEN store[n] ELSE pending[n]
        IN IF c \in Content THEN ~err[t] /\ buf[t] = c ELSE err[t]

(* A flush leaves nothing behind: each dirty entry it found is exported,   *)
(* deleted or moved to lost+found, although conflicts end in errors that   *)
(* the loop goes on after, as long as the backend answers (flush).         *)
FlushDrains ==
    used["fault"] = 0 =>
        \A t \in Task : op[t] = "flush" /\ Finished(t) => DirtyNames = {}

(* An engine that is the only writer of the bucket never finds a conflict: *)
(* its own exports and deletes are not remote changes (flush_path).        *)
NoSelfConflict ==
    used["remote"] = 0 => \A t \in Task : ~At(t, "lfRead")

(* A local copy in lost+found can be read: its bytes are there for as long *)
(* as its entry is (move_to_lost_found, expiration).                       *)
LostFoundReadable ==
    \A l \in Lost : entries[l] # None => data[l] \in Data

(* Every call comes to its end.                                            *)
EveryCallReturns == \A t \in Task : Running(t) ~> ~Running(t)

(* The background loop exports, deletes or sets aside every dirty entry.   *)
DirtyDrains ==
    \A n \in Path : n \in DirtyNames ~> n \notin DirtyNames

-----------------------------------------------------------------------------
(* Why one caller loses no write: the inductive invariant.                 *)

(* One task, no listing and no crash.                                      *)
OneCaller ==
    /\ \A t, u \in Task : t = u
    /\ \A t \in Task : "list" \notin Ops[t]
    /\ Limit["crash"] = 0

Unsynced(n) == pending[n] \in Content

(* The steps that are only reached for a path with nothing to lose.        *)
Harmful == {"statHead", "fetch", "lookup", "listRead", "fpDelete", "drop", "rmMeta",
            "rmData", "fpTag", "fpSide", "fpClean", "expire"}
Storing == {"trunc", "fill", "put", "insert"}

(* What the step at hand may assume of the path it works on.               *)
StepKeeps(s, bytes) ==
    /\ s.at \in Harmful => ~Unsynced(s.n)
    /\ s.at \in Storing /\ s.by \notin {"touch", "write"} => ~Unsynced(s.n)
    /\ s.at \in Storing /\ s.by = "touch" /\ Unsynced(s.n) =>
          s.at # "trunc" /\ s.at # "fill" /\ s.e.dirty /\ ~s.e.deleted
    /\ s.at \in Storing /\ s.by = "write" =>
          /\ s.e.dirty /\ ~s.e.deleted
          /\ s.at # "trunc" => ~Unsynced(s.n)
          /\ s.at = "fill" => data[s.n] = Torn
          /\ s.at \in {"put", "insert"} /\ s.c \in Content => data[s.n] = s.c
    /\ s.at \in {"fpWrite", "lfSave"} /\ Unsynced(s.n) => bytes = pending[s.n]

(* The calls that are queued bring no obligation of their own.             *)
QueueKeeps(q) == \A i \in DOMAIN q : q[i].at \in Call /\ q[i].by = "cache"

(* The copies a loop was started with are still copies of clean entries,   *)
(* for no loop writes.                                                     *)
LoopKeeps(loop, s, q) ==
    /\ \A i \in loop :
          /\ i.at \in {"fpGet", "drop", "expire"} /\ i.by = "cache"
          /\ i.at # "fpGet" => ~Unsynced(i.n)
    /\ loop # {} =>
          /\ s.at # "writeHead" /\ s.by # "write"
          /\ \A i \in DOMAIN q : q[i].at # "writeHead"

(* With one caller, whatever step the call is at, no unexported write is   *)
(* about to be dropped or overwritten (all of flush_path, read_range,      *)
(* stat, expiration and invalidation).                                     *)
NothingAtRisk ==
    \A t \in Task :
        /\ StepKeeps(step[t], buf[t])
        /\ QueueKeeps(todo[t])
        /\ LoopKeeps(left[t], step[t], todo[t])
=============================================================================
