----------------------------- MODULE Distributed -----------------------------
(***************************************************************************)
(* Several openfiles-server processes over one bucket, joined by NATS:     *)
(* crates/openfiles-server/src/distributed.rs and the routes of main.rs.   *)
(*                                                                         *)
(* An HTTP call reaches one instance.  A read is answered by that          *)
(* instance's engine; any other call becomes a work request that the queue *)
(* group gives to one instance, whose worker takes its requests one after  *)
(* the other, flushes after a mutation, publishes an event and replies.    *)
(* Every instance hears the events of the others, in its own time, and     *)
(* drops its clean entries of the paths named.  A caller may stop waiting; *)
(* its request stays where it is.                                          *)
(*                                                                         *)
(* The engine calls are those of module Engine at a coarser grain: a step  *)
(* ends at each access to the bucket and at each change of the index.  The *)
(* files of a cache are one map (half-written files, metadata files and    *)
(* sizes are Engine's), names are files (directories are Namespace's),     *)
(* exports are batched and the bucket gives etags.                         *)
(***************************************************************************)
EXTENDS Naturals, Sequences, FiniteSets

CONSTANTS
    Instance,   \* the server processes, all in one queue group
    Client,     \* HTTP clients, each with one call at a time
    Path, Data,
    None,       \* nothing: no object, entry, file, path, caller, instance
    Gone,       \* what is pending after a delete
    Ops,        \* the calls clients make
    Syncing,    \* the instances whose background loop runs meanwhile
    Announcing, \* the instances that publish events (publish_events)
    Calls,      \* how many calls a client makes
    Mishaps     \* how often an answer comes too late, or an instance goes down

VARIABLES
    store,      \* the objects of the bucket
    entries,    \* the index of each instance's cache
    data,       \* its data files
    lost,       \* what it keeps in lost+found
    client,     \* what each client waits for
    inbox,      \* the work requests the queue group gave to each instance
    job,        \* what each worker, background loop and local read is doing
    events,     \* the mutation events each instance has not heard yet
    listener,   \* what an event still has to do in an instance
    mishaps,    \* how many mishaps there were
    pending     \* ghost: the mutation of an instance not yet exported

cacheVars == <<entries, data, lost>>
natsVars == <<inbox, events>>
vars == <<store, cacheVars, client, natsVars, job, listener, mishaps, pending>>

OpName == {"read", "stat", "write", "delete", "rename", "flush"}
Mutation == {"write", "delete", "rename"}

Tag == Data \cup {None}

Entry == [tag : Tag, cached : BOOLEAN, dirty : BOOLEAN, deleted : BOOLEAN]

ASSUME DistributedAssumption ==
    /\ Path # {} /\ Instance # {}
    /\ Ops \subseteq OpName
    /\ Syncing \subseteq Instance /\ Announcing \subseteq Instance
    /\ {Calls, Mishaps} \subseteq Nat
    /\ None \notin Data \cup Client \cup Instance \cup Path \cup Entry
    /\ Gone \notin Data \cup {None}

Request == [op : OpName, p : Path \cup {None}, to : Path \cup {None}, d : Tag,
            from : Client \cup {None}]
Event == [origin : Instance, paths : Seq(Path)]
Task == [at : {"look", "drop", "unlink"}, p : Path]

Worker(i) == <<i, "worker">>
Loop(i) == <<i, "sync">>
Reader(c) == <<c, "read">>
Process == (Instance \X {"worker", "sync"}) \cup (Client \X {"read"})

(* What a job has in hand: its instance and request, the path it is at,    *)
(* an etag, bytes, the entry and the paths of a flush, and how that goes.  *)
Label == {"idle", "dead", "stat", "import", "read", "fill", "head", "put", "tomb",
          "scan", "next", "compare", "export", "tag", "clean", "lose", "expunge",
          "forget", "publish", "reply"}
Job == [at : Label, i : Instance \cup {None}, req : Request, p : Path \cup {None}, c : Tag, d : Tag,
        e : Entry \cup {None}, todo : SUBSET Path, ok : BOOLEAN,
        err : {"none", "notfound", "conflict"}]

NoRequest == [op |-> "flush", p |-> None, to |-> None, d |-> None, from |-> None]
Start(at, i, req) ==
    [at |-> at, i |-> i, req |-> [req EXCEPT !.d = None], p |-> req.p, c |-> None,
     d |-> req.d, e |-> None, todo |-> {}, ok |-> FALSE, err |-> "none"]
Idle == Start("idle", None, NoRequest)

(* The entries the engine makes: import_meta_from_object, write_file,      *)
(* delete_path, mark_clean (mutation: the entry stays dirty).              *)
Import(c) == [tag |-> c, cached |-> FALSE, dirty |-> FALSE, deleted |-> FALSE]
Written(c) == [tag |-> c, cached |-> TRUE, dirty |-> TRUE, deleted |-> FALSE]
Tombstone(e) ==
    [(IF e = None THEN Import(None) ELSE e) EXCEPT !.deleted = TRUE, !.dirty = TRUE]
CleanedStillDirty(e, c) == [e EXCEPT !.tag = c, !.deleted = FALSE]
Cleaned(e, c) == [e EXCEPT !.tag = c, !.dirty = FALSE, !.deleted = FALSE]

Known(e) == e # None /\ ~e.deleted
Serves(e) == e # None /\ (e.cached \/ e.dirty)
Clean(e) == e # None /\ ~e.dirty

-----------------------------------------------------------------------------
TypeOK ==
    /\ store \in [Path -> Tag]
    /\ entries \in [Instance -> [Path -> Entry \cup {None}]]
    /\ data \in [Instance -> [Path -> Tag]]
    /\ lost \in [Instance -> SUBSET (Path \X Data)]
    /\ client \in [Client -> [at : {"idle", "reading", "waiting"}, via : Instance \cup {None},
                              calls : 0..Calls]]
    /\ inbox \in [Instance -> Seq(Request)]
    /\ job \in [Process -> Job]
    /\ events \in [Instance -> Seq(Event)]
    /\ listener \in [Instance -> Seq(Task)]
    /\ mishaps \in 0..Mishaps
    /\ pending \in [Instance -> [Path -> Tag \cup {Gone}]]

Init ==
    /\ store \in [Path -> Tag]
    /\ entries = [i \in Instance |-> [p \in Path |-> None]]
    /\ data = [i \in Instance |-> [p \in Path |-> None]]
    /\ lost = [i \in Instance |-> {}]
    /\ client = [c \in Client |-> [at |-> "idle", via |-> None, calls |-> 0]]
    /\ inbox = [i \in Instance |-> <<>>]
    /\ job = [q \in Process |-> Idle]
    /\ events = [i \in Instance |-> <<>>]
    /\ listener = [i \in Instance |-> <<>>]
    /\ mishaps = 0
    /\ pending = [i \in Instance |-> [p \in Path |-> None]]

-----------------------------------------------------------------------------
(* HTTP calls.                                                             *)

Begins(c, i, waitsFor) ==
    /\ client[c].at = "idle" /\ client[c].calls < Calls
    /\ client' = [client EXCEPT ![c] = [at |-> waitsFor, via |-> i, calls |-> @.calls + 1]]

(* The clients that are answered, give up or are cut off.                  *)
Settled(cs) ==
    [c \in Client |-> IF c \in cs THEN [client[c] EXCEPT !.at = "idle", !.via = None]
                                  ELSE client[c]]

(* Reads stay with the instance they reach.                                *)
ReadLocally(c, i, p) ==
    /\ "read" \in Ops
    /\ Begins(c, i, "reading")
    /\ job' = [job EXCEPT ![Reader(c)] = Start("stat", i, [NoRequest EXCEPT !.op = "read", !.p = p])]
    /\ UNCHANGED <<store, cacheVars, natsVars, listener, mishaps, pending>>

(* request: the queue group picks the instance that will do the work.      *)
Send(c, i, req) ==
    /\ req.op \in Ops
    /\ Begins(c, i, "waiting")
    /\ \E j \in Instance : inbox' = [inbox EXCEPT ![j] = Append(@, [req EXCEPT !.from = c])]
    /\ UNCHANGED <<store, cacheVars, events, job, listener, mishaps, pending>>

(* A request nobody answers to: its caller has given up or gone away.      *)
Forsaken(req, cs) == IF req.from \in cs THEN [req EXCEPT !.from = None] ELSE req
InHand(c) ==
    \/ \E i \in Instance, k \in 1..Calls * Cardinality(Client) :
          k \in DOMAIN inbox[i] /\ inbox[i][k].from = c
    \/ \E q \in Process : job[q].req.from = c

(* The request times out; it may still be carried out.                     *)
GiveUp(c) ==
    /\ client[c].at = "waiting"
    /\ IF InHand(c)
         THEN mishaps < Mishaps /\ mishaps' = mishaps + 1
         ELSE UNCHANGED mishaps
    /\ client' = Settled({c})
    /\ inbox' = [i \in Instance |->
                    [k \in DOMAIN inbox[i] |-> Forsaken(inbox[i][k], {c})]]
    /\ job' = [q \in Process |-> [job[q] EXCEPT !.req = Forsaken(@, {c})]]
    /\ UNCHANGED <<store, cacheVars, events, listener, pending>>

-----------------------------------------------------------------------------
(* Steps of a job.                                                         *)

At(q, label) == job[q].at = label
Goto(q, j) == job' = [job EXCEPT ![q] = j]
Onward(q, label) == Goto(q, [job[q] EXCEPT !.at = label])
Mine(q) == entries[job[q].i][job[q].p]
SetEntry(q, e) == entries' = [entries EXCEPT ![job[q].i][job[q].p] = e]
SetData(q, d) == data' = [data EXCEPT ![job[q].i][job[q].p] = d]
SetPending(q, d) == pending' = [pending EXCEPT ![job[q].i][job[q].p] = d]
Exported(q, d) ==
    pending' = [pending EXCEPT ![job[q].i][job[q].p] = IF @ = d THEN None ELSE @]
jobOnly == <<client, natsVars, listener, mishaps>>

(* How a job ends.  An error ends a background loop for good; a worker     *)
(* replies with it, and only announces a mutation that succeeded.          *)
(* Mutations: a delete is not announced; an error is no reply.             *)
AnnouncesWrites(j) ==
    j.i \in Announcing /\ j.err = "none" /\ j.req.op \in Mutation \ {"delete"}
Announces(j) == j.i \in Announcing /\ j.err = "none" /\ j.req.op \in Mutation

EndedUnanswered(q, j) ==
    CASE q[2] = "worker" /\ j.err = "none" ->
           [j EXCEPT !.at = IF Announces(j) THEN "publish" ELSE "reply"]
      [] q[2] = "sync" -> [Idle EXCEPT !.at = IF j.err = "none" THEN "idle" ELSE "dead"]
      [] OTHER -> Idle
Ended(q, j) ==
    CASE q[2] = "worker" -> [j EXCEPT !.at = IF Announces(j) THEN "publish" ELSE "reply"]
      [] q[2] = "sync" -> [Idle EXCEPT !.at = IF j.err = "none" THEN "idle" ELSE "dead"]
      [] OTHER -> Idle

Answers(q) ==
    client' = IF q[2] = "read" THEN Settled({q[1]}) ELSE client
Ends(q, j) == Goto(q, Ended(q, j)) /\ Answers(q)
Fails(q) == Ends(q, [job[q] EXCEPT !.err = "notfound"])

(* stat and read_range.                                                    *)
AfterStat(q) ==
    IF job[q].req.op = "stat" THEN Ends(q, job[q])
                              ELSE Onward(q, "read") /\ UNCHANGED client

Stat(q) ==
    /\ At(q, "stat")
    /\ LET c == store[job[q].p]
       IN \/ Known(Mine(q)) /\ AfterStat(q)
          \/ /\ ~Known(Mine(q)) /\ c # None
             /\ Goto(q, [job[q] EXCEPT !.at = "import", !.c = c])
             /\ UNCHANGED client
          \/ ~Known(Mine(q)) /\ c = None /\ Fails(q)
    /\ UNCHANGED <<store, cacheVars, natsVars, listener, mishaps, pending>>

ImportMeta(q) ==
    /\ At(q, "import")
    /\ SetEntry(q, Import(job[q].c))
    /\ AfterStat(q)
    /\ UNCHANGED <<store, data, lost, natsVars, listener, mishaps, pending>>

(* A rename goes on with what it has read: write_file of the new name.     *)
AfterRead(q, d) ==
    IF job[q].req.op = "rename"
      THEN /\ Goto(q, [job[q] EXCEPT !.at = "head", !.d = d, !.p = job[q].req.to])
           /\ UNCHANGED client
      ELSE Ends(q, job[q])

ReadRange(q) ==
    /\ At(q, "read")
    /\ LET mine == data[job[q].i][job[q].p]  theirs == store[job[q].p]
       IN IF Serves(Mine(q))
            THEN IF mine # None THEN AfterRead(q, mine) ELSE Fails(q)
            ELSE IF theirs # None
                   THEN /\ Goto(q, [job[q] EXCEPT !.at = "fill", !.d = theirs])
                        /\ UNCHANGED client
                   ELSE Fails(q)
    /\ UNCHANGED <<store, cacheVars, natsVars, listener, mishaps, pending>>

FillCache(q) ==
    /\ At(q, "fill")
    /\ \/ /\ Mine(q) # None
          /\ SetData(q, job[q].d)
          /\ SetEntry(q, [Mine(q) EXCEPT !.cached = TRUE])
          /\ AfterRead(q, job[q].d)
       \/ Mine(q) = None /\ Fails(q) /\ UNCHANGED <<entries, data>>
    /\ UNCHANGED <<store, lost, natsVars, listener, mishaps, pending>>

(* write_file and delete_path.                                             *)
WriteHead(q) ==
    /\ At(q, "head")
    /\ Goto(q, [job[q] EXCEPT !.at = "put", !.c = store[job[q].p]])
    /\ UNCHANGED <<store, cacheVars, jobOnly, pending>>

(* execute_work flushes after write_file has returned.                     *)
(* Mutation: it does not.                                                  *)
AfterWriteUnflushed(j) ==
    IF j.req.op = "rename" THEN [j EXCEPT !.at = "tomb", !.p = j.req.p]
                           ELSE [j EXCEPT !.at = "publish"]
AfterWrite(j) ==
    IF j.req.op = "rename" THEN [j EXCEPT !.at = "tomb", !.p = j.req.p]
                           ELSE [j EXCEPT !.at = "scan"]

WritePut(q) ==
    /\ At(q, "put")
    /\ SetData(q, job[q].d)
    /\ SetEntry(q, Written(job[q].c))
    /\ SetPending(q, job[q].d)
    /\ Goto(q, AfterWrite(job[q]))
    /\ UNCHANGED <<store, lost, jobOnly>>

DeletePath(q) ==
    /\ At(q, "tomb")
    /\ SetEntry(q, Tombstone(Mine(q)))
    /\ SetPending(q, Gone)
    /\ Onward(q, "scan")
    /\ UNCHANGED <<store, data, lost, jobOnly>>

-----------------------------------------------------------------------------
(* flush: every path that is dirty now, in any order, whatever becomes of  *)
(* the others.                                                             *)

FlushScan(q) ==
    /\ At(q, "scan")
    /\ LET i == job[q].i
       IN Goto(q, [job[q] EXCEPT !.at = "next", !.ok = FALSE, !.err = "none", !.c = None, !.d = None,
                     !.todo = {p \in Path : entries[i][p] # None /\ entries[i][p].dirty}])
    /\ UNCHANGED <<store, cacheVars, jobOnly, pending>>

Through(q) == [job[q] EXCEPT !.at = "next", !.ok = TRUE, !.e = None, !.c = None]
Missed(q, why) == [job[q] EXCEPT !.at = "next", !.err = why, !.e = None, !.c = None]

FlushPath(q) ==
    /\ At(q, "next")
    /\ \E p \in job[q].todo :
         LET e == entries[job[q].i][p]
             j == [job[q] EXCEPT !.todo = @ \ {p}, !.p = p]
         IN Goto(q, IF e = None \/ Clean(e) THEN [j EXCEPT !.ok = TRUE]
                    ELSE [j EXCEPT !.e = e, !.at = IF e.deleted THEN "expunge" ELSE "compare"])
    /\ UNCHANGED <<store, cacheVars, jobOnly, pending>>

(* One path that went through hides the errors of the others.              *)
FlushEnd(q) ==
    /\ At(q, "next") /\ job[q].todo = {}
    /\ Ends(q, [job[q] EXCEPT !.err = IF job[q].ok THEN "none" ELSE @])
    /\ UNCHANGED <<store, cacheVars, natsVars, listener, mishaps, pending>>

(* The conflict check.  Mutation: it never finds one.                      *)
RemoteChangedNever(head, base) == FALSE
RemoteChanged(head, base) == head # None /\ base # None /\ head # base

FlushCompare(q) ==
    /\ At(q, "compare")
    /\ LET head == store[job[q].p]
       IN Goto(q, IF RemoteChanged(head, job[q].e.tag)
                    THEN [job[q] EXCEPT !.at = "lose", !.e = None, !.c = head]
                    ELSE [job[q] EXCEPT !.at = "export", !.e = None])
    /\ UNCHANGED <<store, cacheVars, jobOnly, pending>>

(* move_to_lost_found and the import of what is in the bucket instead.     *)
(* Mutation: the import comes first.                                       *)
SetAsideRemote(q) == <<job[q].p, job[q].c>>
SetAside(q) == <<job[q].p, data[job[q].i][job[q].p]>>

FlushConflict(q) ==
    /\ At(q, "lose")
    /\ LET i == job[q].i  d == data[i][job[q].p]
       IN \/ /\ d # None
             /\ lost' = [lost EXCEPT ![i] = @ \cup {SetAside(q)}]
             /\ SetEntry(q, Import(job[q].c))
             /\ SetData(q, None)
             /\ Goto(q, Missed(q, "conflict"))
          \/ /\ d = None
             /\ Goto(q, Missed(q, "notfound"))
             /\ UNCHANGED cacheVars
    /\ UNCHANGED <<store, jobOnly, pending>>

FlushWrite(q) ==
    /\ At(q, "export")
    /\ LET p == job[q].p  d == data[job[q].i][p]
       IN \/ /\ d # None
             /\ store' = [store EXCEPT ![p] = d]
             /\ Exported(q, d)
             /\ Onward(q, "tag")
          \/ d = None /\ Goto(q, Missed(q, "notfound")) /\ UNCHANGED <<store, pending>>
    /\ UNCHANGED <<cacheVars, jobOnly>>

(* The etag of the export comes from a head after it.                      *)
FlushTag(q) ==
    /\ At(q, "tag")
    /\ Goto(q, [job[q] EXCEPT !.at = "clean", !.c = store[job[q].p]])
    /\ UNCHANGED <<store, cacheVars, jobOnly, pending>>

MarkClean(q) ==
    /\ At(q, "clean")
    /\ \/ Mine(q) # None /\ SetEntry(q, Cleaned(Mine(q), job[q].c)) /\ Goto(q, Through(q))
       \/ Mine(q) = None /\ Goto(q, Missed(q, "notfound")) /\ UNCHANGED entries
    /\ UNCHANGED <<store, data, lost, jobOnly, pending>>

FlushDelete(q) ==
    /\ At(q, "expunge")
    /\ store' = [store EXCEPT ![job[q].p] = None]
    /\ Exported(q, Gone)
    /\ Onward(q, "forget")
    /\ UNCHANGED <<cacheVars, jobOnly>>

RemoveEntry(q) ==
    /\ At(q, "forget")
    /\ SetEntry(q, None)
    /\ SetData(q, None)
    /\ Goto(q, Through(q))
    /\ UNCHANGED <<store, lost, jobOnly, pending>>

SyncTick(i) ==
    /\ i \in Syncing /\ At(Loop(i), "idle")
    /\ Goto(Loop(i), Start("scan", i, NoRequest))
    /\ UNCHANGED <<store, cacheVars, jobOnly, pending>>

-----------------------------------------------------------------------------
(* The worker and the event listener of an instance.                       *)

TakeRequest(i) ==
    /\ At(Worker(i), "idle") /\ inbox[i] # <<>>
    /\ LET req == Head(inbox[i])
           first == CASE req.op \in {"stat", "rename"} -> "stat"
                      [] req.op = "write" -> "head"
                      [] req.op = "delete" -> "tomb"
                      [] OTHER -> "scan"
       IN Goto(Worker(i), Start(first, i, req))
    /\ inbox' = [inbox EXCEPT ![i] = Tail(@)]
    /\ UNCHANGED <<store, cacheVars, client, events, listener, mishaps, pending>>

(* mutation_event_for_request.  Mutations: only the old name of a rename;  *)
(* a new name for every mutation.                                          *)
EventPathsOld(req) == <<req.p>>
EventPathsBoth(req) == <<req.p, req.to>>
EventPaths(req) == IF req.op = "rename" THEN <<req.p, req.to>> ELSE <<req.p>>

PublishEvent(i) ==
    /\ At(Worker(i), "publish")
    /\ LET event == [origin |-> i, paths |-> EventPaths(job[Worker(i)].req)]
       IN events' = [j \in Instance |-> Append(events[j], event)]
    /\ Onward(Worker(i), "reply")
    /\ UNCHANGED <<store, cacheVars, client, inbox, listener, mishaps, pending>>

Reply(i) ==
    /\ At(Worker(i), "reply")
    /\ client' = Settled({job[Worker(i)].req.from})
    /\ Goto(Worker(i), Idle)
    /\ UNCHANGED <<store, cacheVars, natsVars, listener, mishaps, pending>>

HearEvent(i) ==
    /\ listener[i] = <<>> /\ events[i] # <<>>
    /\ LET event == Head(events[i])
       IN listener' = [listener EXCEPT ![i] =
             IF event.origin = i THEN <<>>
             ELSE [k \in DOMAIN event.paths |-> [at |-> "look", p |-> event.paths[k]]]]
    /\ events' = [events EXCEPT ![i] = Tail(@)]
    /\ UNCHANGED <<store, cacheVars, client, inbox, job, mishaps, pending>>

(* invalidate_path and invalidate_prefix look at the entry, remove it, and *)
(* remove its file.                                                        *)
NextPart(i, at) == listener' = [listener EXCEPT ![i][1].at = at]
TaskDone(i) == listener' = [listener EXCEPT ![i] = Tail(@)]

Invalidate(i) ==
    /\ listener[i] # <<>>
    /\ LET task == Head(listener[i])  p == task.p
       IN \/ /\ task.at = "look"
             /\ IF Clean(entries[i][p]) THEN NextPart(i, "drop") ELSE TaskDone(i)
             /\ UNCHANGED <<entries, data>>
          \/ /\ task.at = "drop"
             /\ entries' = [entries EXCEPT ![i][p] = None]
             /\ NextPart(i, "unlink")
             /\ UNCHANGED data
          \/ /\ task.at = "unlink"
             /\ data' = [data EXCEPT ![i][p] = None]
             /\ TaskDone(i)
             /\ UNCHANGED entries
    /\ UNCHANGED <<store, lost, client, natsVars, job, mishaps, pending>>

(* An instance goes down with all it was doing and heard of; its cache     *)
(* stays on disk.  Its own clients are cut off.                            *)
Crash(i) ==
    /\ mishaps < Mishaps
    /\ mishaps' = mishaps + 1
    /\ LET cs == {c \in Client : client[c].at # "idle" /\ client[c].via = i}
       IN /\ client' = Settled(cs)
          /\ inbox' = [j \in Instance |->
                IF j = i THEN <<>>
                ELSE [k \in DOMAIN inbox[j] |-> Forsaken(inbox[j][k], cs)]]
          /\ job' = [q \in Process |->
                IF job[q].i = i THEN Idle
                ELSE [job[q] EXCEPT !.req = Forsaken(@, cs)]]
    /\ events' = [events EXCEPT ![i] = <<>>]
    /\ listener' = [listener EXCEPT ![i] = <<>>]
    /\ UNCHANGED <<store, cacheVars, pending>>

-----------------------------------------------------------------------------
Requests ==
    [op : {"stat", "delete"}, p : Path, to : {None}, d : {None}, from : {None}] \cup
    [op : {"write"}, p : Path, to : {None}, d : Data, from : {None}] \cup
    [op : {"rename"}, p : Path, to : Path, d : {None}, from : {None}] \cup {NoRequest}

Arrives(c) ==
    \E i \in Instance : (\E p \in Path : ReadLocally(c, i, p))
                        \/ (\E req \in Requests : Send(c, i, req))

Proceeds(q) ==
    \/ Stat(q) \/ ImportMeta(q) \/ ReadRange(q) \/ FillCache(q)
    \/ WriteHead(q) \/ WritePut(q) \/ DeletePath(q)
    \/ FlushScan(q) \/ FlushPath(q) \/ FlushEnd(q) \/ FlushCompare(q) \/ FlushConflict(q)
    \/ FlushWrite(q) \/ FlushTag(q) \/ MarkClean(q) \/ FlushDelete(q) \/ RemoveEntry(q)

Works(i) == TakeRequest(i) \/ PublishEvent(i) \/ Reply(i)
Listens(i) == HearEvent(i) \/ Invalidate(i)

Next ==
    \/ \E c \in Client : Arrives(c) \/ GiveUp(c)
    \/ \E q \in Process : Proceeds(q)
    \/ \E i \in Instance : Works(i) \/ Listens(i) \/ SyncTick(i) \/ Crash(i)

Spec == Init /\ [][Next]_vars

(* No call is under way and every event has been heard.                    *)
Quiet ==
    /\ \A c \in Client : client[c].at = "idle"
    /\ \A q \in Process : job[q].at \in {"idle", "dead"}
    /\ \A i \in Instance : inbox[i] = <<>> /\ events[i] = <<>> /\ listener[i] = <<>>

(* Clients that take turns, while no request times out, no server goes     *)
(* down and no background loop runs: a call comes when the one before has  *)
(* been answered and the others have heard of it.                          *)
PatientNext ==
    \/ Quiet /\ \E c \in Client : Arrives(c)
    \/ \E q \in Process : Proceeds(q)
    \/ \E i \in Instance : Works(i) \/ Listens(i)

PatientSpec == Init /\ [][PatientNext]_vars

(* tokio polls the tasks that are ready, awaits are answered, NATS         *)
(* delivers; the interval of the loop ticks.  Clients need not call and    *)
(* nothing need go wrong.                                                  *)
Fairness ==
    /\ \A q \in Process : WF_vars(Proceeds(q))
    /\ \A i \in Instance : WF_vars(Works(i)) /\ WF_vars(Listens(i)) /\ WF_vars(SyncTick(i))

FairSpec == Spec /\ Fairness
-----------------------------------------------------------------------------
(* Properties.                                                             *)

(* A write or delete that is answered with success has reached the bucket; *)
(* it is neither in a cache only nor set aside (execute_work flushes       *)
(* before it replies, and replies with the error of the flush).            *)
AckedExported ==
    \A i \in Instance :
        LET j == job[Worker(i)]
        IN j.at \in {"publish", "reply"} /\ j.err = "none" /\ j.req.op \in {"write", "delete"}
              => pending[i][j.req.p] = None

(* What a conflict sets aside is the write that is not exported yet, or    *)
(* was exported by an instance that went down before it marked the entry   *)
(* clean; never other bytes (flush_path, move_to_lost_found).              *)
LostIsTheWrite ==
    [][\A q \in Process : FlushConflict(q) =>
          \A i \in Instance : \A d \in lost'[i] \ lost[i] : pending[i][d[1]] \in {None, d[2]}]_vars

(* A clean entry that tells of another object than the bucket's.           *)
Stale(i, p) ==
    LET e == entries[i][p]
    IN Clean(e) /\ \/ store[p] = None \/ e.tag # store[p]
                   \/ e.cached /\ data[i][p] \notin {None, store[p]}

(* When all is quiet no instance has a stale entry: the events have        *)
(* invalidated the clean entries of every path that changed (PublishEvent, *)
(* HearEvent, Invalidate against the imports and mark_clean).              *)
Coherent == Quiet => \A i \in Instance, p \in Path : ~Stale(i, p)

(* A read that is answered from the cache returns the object, whichever    *)
(* instance it reaches (read_range against the events of the others).      *)
ReadsAgree ==
    [][\A q \in Process : ReadRange(q) /\ Serves(Mine(q))
          => data[job[q].i][job[q].p] = store[job[q].p]]_vars

(* What a crash leaves dirty is exported, set aside or forgotten, unless   *)
(* an error ends the background loop first (spawn_background_sync, flush). *)
DirtyDrains ==
    \A i \in Syncing, p \in Path :
        entries[i][p] # None /\ entries[i][p].dirty
          ~> ~(entries[i][p] # None /\ entries[i][p].dirty) \/ At(Loop(i), "dead")

(* Every call is answered, in whatever state its request finds the worker. *)
Answered == \A c \in Client : client[c].at # "idle" ~> client[c].at = "idle"
=============================================================================
