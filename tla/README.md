# A verification of OpenFiles

OpenFiles presents an object-store bucket as a file system: an engine with a
local cache, a background loop that exports what was written, and front ends
(HTTP server, FUSE mount, command line) around it. This directory holds TLA+
models of it, the TLC configurations that check them on small instances, and
proofs that the TLA+ proof system checks for every instance.

The models follow the code, not the documents. Where the two disagree the model
does what the code does, and a run whose expectation is `violation` shows it.

## The system

| Component | State | Operations | What is hard | What makes it correct |
|---|---|---|---|---|
| Cache (`cache.rs`) | in-memory index of entries, one metadata file and one data file per entry | `put_entry`, `remove_entry`, `write_data`, `mark_clean`, `touch`, expiration, `load_index` | no operation updates index and files at once; no lock spans two awaits; a crash leaves half of an update | index and files agree at rest; a crash loses nothing that was acknowledged; what is served is whole |
| Engine (`engine.rs`) | the cache and the bucket | `stat`, `list_dir`, `read_range`, `write_file`, `delete_path`, `rename_path`, `flush`, `expire_cache`, `invalidate_path`, `invalidate_prefix` | calls interleave at every await, with each other, the loop, peers' events and other writers of the bucket | no write or delete is lost before it is exported, set aside in lost+found, or replaced; an export never overwrites a version that was not seen; reads are current |
| Background sync (`sync.rs`) | none | flush and expiration, for ever | it is the only exporter of batched writes; it returns with the first error | every dirty entry leaves the dirty set |
| Backends (`backend/`) | the bucket | `head`, `read`, `write`, `delete`, `list` | the local one gives no etag with `head`; OpenDAL takes the etag of a write from a later `head`; a failed call may have taken effect | one object per key |
| Names and import rules (`types.rs`, `config.rs`, parts of `engine.rs`) | none | normalisation, directory inference, rule selection, directory rename | string prefixes against path prefixes, a directory seen twice, a rename that stops halfway | the listing, `stat` and the bucket agree; a rename loses no file |
| NATS layer (`distributed.rs`) | a queue of requests, an event subscription per instance | work requests, events, timeouts | events race reads and writes; a request that timed out is still carried out | an acknowledged write is exported and announced; peers drop what is stale |
| HTTP server (`openfiles-server/src/main.rs`) | none | one engine call per request | concurrency | the engine's |
| FUSE mount (`openfiles-fuse`) | inode tables | `lookup`, `readdir`, `read`, `write`, `rename`, ... | stale inodes, partial writes, directory offsets | what is written is what is read |
| Command line, wasmCloud host, vendor selection, errors, bindings | none | | | |

Requests of the server and the loop share one engine. Front ends call it, it
calls the cache and the backend; the NATS layer calls it on behalf of other
instances and invalidates its entries when a peer announces a mutation.

## Modules

`Cache` has the state of a cache (`entries`, `meta`, `data`), the single file
and map updates, and what the operations compute with an entry. Its constants
are the names, the contents and their sizes.

`Engine` extends it with the bucket (`store`) and any number of tasks. A call is
a chain of steps, and a step ends where the code awaits the backend or a file,
or leaves the lock of the index; between two steps anything may happen. A step
carries what the code holds in local variables: a cloned `CacheEntry`, the head
it saw, the bytes it read. `todo` holds the calls a call makes one after the
other (a rename: read, write, delete), `left` the iterations of a loop, which a
hash map may give in any order. So `write_file` is `WriteFile` (the call),
`WriteHead`, `TruncateData`, `FillData`, `PutMeta`, `InsertEntry`, and, without
a batch window, `FlushGet` and what follows. A crash keeps the files and rebuilds
the index from them; metadata files being written at that moment may be cut off.
`pending` is a ghost: for each name the acknowledged write (its bytes) or delete
(`Gone`) that is not exported yet. A later write gives it up when it truncates
the data file, a later delete when it starts: from there on the earlier mutation
is being replaced.

`Distributed` puts several servers over one bucket, joined by NATS. A client
calls any instance: a read becomes a local job there (`ReadLocally`), any other
call a request in the queue of some instance (`Send`: the queue group chooses).
The worker of an instance (`TakeRequest`, the steps of the call, `PublishEvent`,
`Reply`) is one job at a time; the background loop and each local read are jobs
of their own, and the event listener (`HearEvent`, `Invalidate`) runs beside them.
A client may stop waiting (`GiveUp`), which leaves its request where it is. A
crash forgets queue, events and jobs, and keeps the cache. The engine's steps
are coarser than in `Engine`: one ends at each access to the bucket and each
change of the index, and an entry's file changes with the entry, except in the
listener, which looks, removes the entry and removes the file in three steps.
Here `pending` is what an instance's last mutation of a path left to export; a
copy set aside in lost+found stays pending, for it never reaches the bucket.

`Namespace` is the engine seen from its paths. Its paths are sequences of
components, as `normalize_path` leaves them, its bucket is a directory tree
(`local.rs`: `store` and `folders`) or an object store behind OpenDAL, and its
caller makes one call after the other, without a batch window. A call is one step
here, for its inside is `Engine`'s matter; but a backend call in it may fail
before it takes effect, after it, or, in a tree, between the creation of a file
and its bytes (`Outcomes`). A rename goes from directory to directory and from
file to file (`RenameStart`, `RenameList`, `RenameCopy`, `RenameDelete`,
`RenameEnd`) and may stop at any of them; `moving` has what `rename_path` holds in
`pending_dirs` and `files`, each path with how often it is in the list. What the
two backends make of prefixes is there too: a tree is walked whole and its prefix
has lost the slash, so that `StartsWith` gives the paths that as strings start
with one (`Probed`), a tree's `head` finds directories, its keys below a file or
at a directory are refused, and OpenDAL's lister does not descend.

`FileSystem` is what that engine promises: a map from paths to contents. A call
that succeeds sets or removes one file; one that fails leaves its file in doubt
between the old content, the new one and, for a write, an empty one; no other
file changes. `Namespace` implements it with `files` as what a read returns
(`Visible`) and `doubt` as what a dirty entry and its object may still come to
(`ImplementsFileSystem`), and each of its calls is the abstract step it should be
(`CallsDoAsAsked`).

`Mount` extends `Namespace` with the request handlers of the FUSE mount. An inode
number stands for one path for ever, renamed or unlinked, so a request that comes
with an inode is a request with any path. `WriteAt` reads what there was, fills up
with zeros, puts the block and writes the whole file, and takes a file it cannot
read for an empty one; `Create` writes an empty file and looks it up. A content is
a sequence of blocks, and the kernel reads and writes a block at a time. `handle`
is a ghost: a file just created and what was appended to it since.

`MCEngine`, `MCDistributed`, `MCNamespace` and `MCMount` give the constants values.

`EngineProofs`, `OneCallerProofs`, `OneTaskProofs`, `OnlyWriterProofs`,
`CurrentProofs`, `DistributedProofs`, `NamespaceProofs` and `MountProofs` hold the
theorems.

Abstractions. A file is a name: path, key and both cache files of it. A content
is one of a few values, with a size; `Torn` stands for every sequence of bytes
nobody wrote (a file just created, a prefix, a mixture). An etag is the content
it was made of, as it is for S3 and for the local backend's hashes. Time is one
bit per entry, whether it was accessed since the expiration cutoff. POSIX
metadata and the sidecar's content are left out; its write is kept as a step
that may fail. `version` moves with `etag` and is left out. In `Engine` and
`Distributed` directories and the selection of the import rule are left out; the
rule's trigger and size limit are constants. In `Namespace` the rule is `Eager`, the
directories whose files are fetched when listed, any set of them, and the choice of
a read to keep the bytes; so what holds there holds whatever rule is selected. An
etag that differs from the entry's base because the caller's own export had taken
effect is kept (`Conflicts`); other writers of the bucket are `Engine`'s.

## Runs

All constants not named are in the `.cfg`. Two names and two contents of
different length are enough for a rename, for one file's steps to disturb
another's, and for a stale size to be too long or too short.

| Run | What it asks |
|---|---|
| `serial_batch` | One caller (the command line, the FUSE mount), exports batched, every call but a listing: is anything lost, torn, or left behind, and does the engine ever find a conflict with itself? No. |
| `serial_immediate` | The same without a batch window, listings included, with direct reads: also, does a read return the last write? Yes. |
| `serial_mishaps` | One remote mutation, one backend error or one crash at any point of a mutation or flush: no acknowledged write or delete is lost, and a copy set aside by a conflict can be read. The inductive invariant of the proof is checked here too. |
| `server` | A client and the background loop, interleaved, under fairness: every call returns, every dirty entry is dealt with. |
| `list_drops_dirty` | Violation: `ls` after an unexported write forgets the write. |
| `create_create` | Violation: a file created here overwrites one created elsewhere. |
| `flush_drops_dirty` | Violation: a write during the export of the previous one is marked clean and never exported. |
| `cluster` | Two servers that announce nothing, three calls that overlap on one path, two timeouts or crashes anywhere: a write or delete answered with success is in the bucket, and a conflict sets aside the write that conflicted, never other bytes. |
| `one_client` | One client calls two servers at will, each time when all have heard of its last call: when all is quiet the events have left no stale clean entry, and a read that a cache answers returns the object. |
| `restarts` | Reads, writes and deletes of two clients on one server with its background loop, which goes down twice, anywhere, under fairness: each call is answered; what a crash leaves dirty is exported or dropped after the restart, unless the loop has ended with an error. |
| `namespace` | One caller, a tree or a flat bucket, directories two deep, a directory rename and a failing backend call: does each call do as it was asked, does a rename that stops halfway lose anything, does one that succeeds leave anything the cache knows, do listings and reads agree? They do. |
| `mount` | The FUSE mount with files of up to two blocks, a name that is the string prefix of another, renames of files and directories onto each other's names, a failing backend call: are appends kept, and is the mount a file system? Yes. |

Bounds. `Limit` and `Mishaps` say how many remote mutations, errors and crashes
a behaviour may have: one, because one already falls between any two steps, and
the properties speak of a single file's history. `Lost` bounds how many copies
lost+found takes; a conflict needs a remote mutation, so one is enough. Nothing
else is bounded: calls go on for ever. `namespace` and `mount` have one failing
backend call as well: an entry it leaves dirty meets every later call. A
directory with a file and with a directory that has a file is the least in which
a listing, a flat lister and a directory listed twice differ; the same names
below the target let a rename meet what is there. Two blocks are the least in
which a write at the start, an append, a gap and a rewrite differ. `namespace`
has one content and the empty one, `mount` one block and zeros: a wrong content
shows as a missing file, an empty one or a wrong length.

Fairness (run `server`). `Fairness` says that a call that can proceed does: tokio
polls what is ready, and every await of the code is answered or fails.
`SyncFairness` says that the interval of the background loop keeps ticking.
Calls themselves, remote mutations and errors are not fair: they need never come.

`Distributed`'s fairness says the same of each job, worker, listener and loop, and
that NATS delivers. Its runs bound the calls of each client (`Calls`) and the timeouts
and crashes (`Mishaps`). Three calls on two servers are what a conflict after a
crash takes (a write that went down half-way, a write of the other server, the
flush that finds both); three are also what a stale entry takes that a write leaves
behind (a read here, a write there, a write or a rename that meets its event).
`cluster` uses symmetry in servers, clients and contents, which neither the
specification nor its two properties tell apart; it has no liveness.

What `cluster` and `one_client` leave out, and why. `cluster` has
`publish_events = false`, for an event can take a write away before it is
exported: the listener looks at the dirty flag of the old entry, the write puts
its entry, the listener removes it (`engine.rs:489`, `Announcing` with both
servers and two clients), and then the flush finds nothing to do and the write is
answered with success. It has one path, for with two a flush that
exported another path, left dirty by a crash, hides that the request's own path
conflicted (`engine.rs:538`). It has no local reads, for one that fetched the
object before the write fills the data file after it (`engine.rs:304`), and the
flush exports the old bytes. It has no background loop (`Syncing`), whose export
meets the worker's write as in `flush_drops_dirty`.

`one_client` has `PatientSpec`, in which a call comes when the last one is answered
and every instance has heard of it, and nothing goes wrong. With events still on
their way a single client is enough for a stale entry: it reads a path on one
server, writes it on the other, and writes it on the first while the listener there
is between its look at the clean entry (`engine.rs:487`) and its removal
(`engine.rs:489`). The removal takes the new entry, the flush exports the file and
finds no entry to mark clean, the client gets an error, and nobody announces the
object that is now in the bucket. The comment at `engine.rs:499` has it that an
invalidation "never deletes dirty local entries". An import that fetched its head
before a write elsewhere puts the old entry after the event; with two clients an
event that comes while the entry is dirty is skipped, and the `mark_clean` that
follows keeps an etag older than the event; after a crash the events an instance
missed never come. Each leaves an entry that stays stale when all is quiet, and
appears in a trace when `Next` takes the place of `PatientNext`, with `Calls = 3`.

What one caller's runs leave out, and why. `serial_batch` has no listing and
`serial_mishaps` neither reads nor expirations, because the code then violates
the properties: a listing overwrites dirty entries (`list_drops_dirty`); a crash
while a read touches a dirty entry leaves a metadata file that does not parse
(`cache.rs:175`), so that the write is forgotten; an expiration removes the
bytes of a copy in lost+found (`cache.rs:258`). Adding `"read"` or `"expire"` to
`OpsMutations` shows each in a trace. `LostFoundReadable` needs that a crash and a
remote mutation do not both happen (`Mishaps = 1`): a write that replaces an
unexported one and goes down once it has created the data file (`cache.rs:193`)
leaves the old entry dirty over an empty file, and the flush after the restart
sets the empty file aside, or exports it if there is no conflict. That is also why
no theorem has `NoTornExport` across a crash. With two tasks on one path no safety
property of the cache survives: an export's `mark_clean`, an expiration and an
invalidation all look first and change later. So the concurrent passing run is
about liveness, and `flush_drops_dirty` shows the safety failure. Further
disagreements the model reproduces when the operations are enabled: a sidecar
that cannot be written makes the next flush conflict with its own export; a
rename of a file whose cached size is stale exports a truncated copy; a failed
flush ends the background loop for good; a `stat` of a path whose delete is not
exported yet finds the object, puts a clean entry over the tombstone, and the
delete is forgotten (`engine.rs:131`; `serial_immediate` has no batch window, and
`serial_mishaps` no `stat`).

What paths do, and the properties allow for. The models make each of these steps;
the properties of `namespace` and `mount` hold beside them.

- Over a tree, `head` finds directories and the engine makes a file of size 0 of
  one (`local.rs:84`, `engine.rs:137`), although docs/README.md:288 infers a
  directory from the keys below it. From then on it is listed as a file
  (`MadeFile` in `ListingTrue`) and a rename of it is the rename of an empty file.
- A stat of a path of which only the longer names of siblings exist, `d` beside
  `dx/a`, finds keys that start with it, for the tree's list strips the slash
  (`local.rs:162`), and leaves the entry of a directory that is not there.
- The entry of a directory stays when its files have gone, and `stat` answers from it.
- A directory rename over OpenDAL moves what the listings name: one level of
  objects and what the cache has entries of. It reports success with deeper
  objects left where they were, although docs/standard.md:132 says it "repeats
  that process for every object under the prefix". `MovesWhatItKnows` says what it
  does guarantee.
- A directory with an entry of its own and with files below it is listed twice,
  a rename lists its files twice, and the second move of a file finds none and
  fails (`engine.rs:249`, `engine.rs:384`).
- A rename of a file to itself writes it and deletes it; so does a directory's.
  `MCRenames` has none, and the theorems about renames assume there is none.
- A FUSE write at offset 0 does not read the file and so replaces it, whatever
  its length (`main.rs:269`), and one at a later offset takes a file it cannot
  read for an empty one and writes zeros in its place (`main.rs:272`).
  `AppendsKept` follows a file from its creation until a call on it fails.
- A write through the inode of a renamed file creates the old path anew.

## Proofs

`EngineProofs` proves `TypeCorrect == Spec => []TypeOK` for all constants that
satisfy `CacheAssumption` and `EngineAssumption`, with one lemma per action. It
is not only bookkeeping: it says that every step that uses an entry carries one,
in particular that no step is reached with the entry of a name that has none.

`OneCallerProofs` proves `OneCallerLosesNoWrite == OneCaller => (Spec =>
[]NoLostWrite)`: with one task, no listing and no crash, no acknowledged write
is lost, for any names, contents, batch window, remote mutations and backend
errors. `NoLostWrite` is not inductive, for it speaks of the index and the data
file, which a call changes one after the other, and of nothing a step has in
hand. `NothingAtRisk` adds that: a step that drops or overwrites is only reached
for a name with nothing pending (`StepKeeps`), the calls in `todo` start from
scratch (`QueueKeeps`), and the clones in `left` are still clones of clean
entries, because no loop writes (`LoopKeeps`). The inductive invariant is
`TypeOK /\ NoLostWrite /\ NothingAtRisk`; each action has a lemma.
`OneCallerRisksNothing` states the second of these for a reader of the code: a copy
of an entry held across an await harms no write as long as there is one caller.

The module also proves what `serial_mishaps` checks with a crash anywhere, any
number of them: `CrashesLoseNoWrite == Asks(Mutations \cup {"stat"}) => (Spec =>
[]NoLostWrite)` and `CrashesLoseNoDelete == Asks(Mutations) => (Spec =>
[]NoLostDelete)`, with remote mutations and backend errors. `Asks` names the calls
of the one task: no listing, as above; no read or rename, for a crash while a read
touches a dirty entry tears its metadata file (`cache.rs:175`); and for the deletes
no stat, which puts a clean entry over the tombstone (`engine.rs:131`). The argument
is `Survives`: an entry that no step is putting or removing is on disk as it is in
the index (`IndexInv` of `OneTaskProofs`), so that `load_index` brings it back; and
whatever step is putting or removing one, nothing is pending there
(`NothingAtRisk`, and `DeletesKept` for the tombstones).

`OneTaskProofs`, `OnlyWriterProofs` and `CurrentProofs` go one after the other
through what an engine with one task owes its caller. `OneTask` restricts nothing
else: all ten calls, listings and expirations too, both backends, any import rule,
threshold, batch window, names, contents and any number of mishaps. What a theorem
assumes of the mishaps so far stands in its statement, as `used["crash"] = 0`.

- `CallsInOrder == Spec => []Controlled` comes first and holds for any number of
  tasks: the step, the queue and the loop of a task belong to the call it is in, in
  the order of the code (`Fits`). It is what excludes most cases of the rest.
- `DiskAgreesAlways`, from `IndexInv`: the metadata file and the index differ only
  at the name whose entry is just being stored or removed.
- `FlushDrainsAlways`: a flush has a name that is still dirty in its loop, or at its
  step. It speaks of flushes without a backend error, which would leave the name
  dirty; conflicts are allowed. For them one must
  know that an export always finds bytes to read, which is `DirtyHasBytes ==
  OneTask => (Spec => []HasBytes)`, crashes included: `write_data` comes before
  `put_entry`, and no loop that was started with clones of clean entries writes.
- `LostAndFoundApart == Spec => []Places`, for any number of tasks: no name in
  lost+found is dirty, exported or looked up in the bucket.
- `EntriesAreTrue == OneTask => (Spec => [](Calm => AllSound))`: what an entry says
  of its data file is so, between and within the steps of a call. From it follow
  `ServesWholeFiles`, `ExportsWholeFiles`, `NeverConflictsWithItself` and
  `LostFoundCanBeRead` (if nothing expires). `Calm` is no crash and, if somebody
  else writes to the bucket, no rename: a rename takes the length from its stat and
  the bytes from the object, which may have changed (hazard `engine.rs`,
  `read_range`), and writes what it read.
- `MutationsAreExported == Immediate => (Spec => [](Peace => AllCurrent))`: without a
  batch window, whatever is still to export is what the call under way is exporting
  (`Settled`, `Owed`, `Exporting`). From it follow `ImmediateLosesNoWrite` and
  `ImmediateLosesNoDelete`, with the listings that `OneCallerLosesNoWrite` must
  leave out, and `ReadsAreCurrent`: every read returns the last write, from the
  cache, by a direct read or by a fetch. `Peace` is no crash, no error and no other
  writer; with a batch window `list_drops_dirty` shows what a listing does.

`NamespaceProofs` proves, for any set of paths, contents, import rules, renames and
any number of failures, `TypeCorrect`, `CacheAgreesAlways`, `Refinement == Spec =>
ImplementsFileSystem` and `CallsRefine == Spec => CallsDoAsAsked`, from
`NamespaceAssumption`. The invariant is `IInv`: the types, `CacheAgrees`, and that
a rename's lists stay below the old name (`MoveOK`). Without `CacheAgrees` the
refinement fails: a stat of the old entry would change what a reader finds.
`Quiet` is what `stat`, `list_dir` and `read_range` have in common, an index in
which each entry is as it was or made of the object, and `OneFileStep` is what the
exports have in common; each action then has one lemma.

The module also proves `ListingTrue` and `TreeListsDirs`. The former needs that a
clean file entry without its bytes stands for an object or a folder (`AllStand`).
And it proves `RenameKeepsContent == Moves => (Spec => KeepsContent)`, from
what the copy has established when the delete comes (`CopyOK`), where `Moves` says
that nothing is renamed to itself, and `RenameMovesWhatItKnows == PathsClosed /\
Apart => (Spec => MovesWhatItKnows)`: a directory above a path is a path, and of
the two names of a rename neither lies in the other. Its invariant (`KnownFound`)
is the worklist's: what the cache knows below the old name is in the list of files
or below a directory still to be listed.

`MountProofs` proves `MountTypeCorrect`, `AppendsAreKept` and `MountRefinement`, for
files of any length, from `MountAssumption` too. `AppendsKept` alone is not
inductive: a read must be able to fail only where the file is not there, for else
an append writes zeros. So `MountInv` adds that a tree has the folders above each
object and no object at a folder (`TreeOK`), and that a followed file is in the
bucket, not in doubt, and outside of what a rename under way touches
(`FollowedOK`).

`DistributedProofs` proves `TypeCorrect == Spec => []TypeOK` for all constants that
satisfy `DistributedAssumption`, mishaps included. The invariant `TypeInv` adds that
a job under way has an instance and, at a step that looks at one, a path, and that
only a mutation is announced.

The module also proves what `cluster` checks, for any number of servers, clients,
contents, calls, timeouts and restarts: `LostIsPending == WorkersOnly => (Spec =>
LostIsTheWrite)` and `AnswersAreExported == WorkersOnly /\ OnePath => (Spec =>
[]AckedExported)`. `WorkersOnly` says that there is no background loop, no event and
no local read, so that an instance's cache is in the hands of its worker; the
findings show what goes wrong otherwise. `OnePath` is needed because a flush reports
success as soon as one path went through (`engine.rs`, `flush`): beside another
dirty path a write that a conflict set aside is answered with success. The
inductive invariant has, for each instance, that what is pending for a dirty entry
is what its export would do (`KeepsFile`), that the entry a worker saw before an
await is as it was (`Steady`), and where a write or delete stands (`OnItsWay`). A
crash keeps it, for it takes the job and leaves the index.

Its last part is what patient clients may rely on, for any number of instances,
clients, paths, contents and calls: `CachesCohere == Announcing = Instance =>
(PatientSpec => []Coherent)` and `ReadsAreFresh`, the same of `ReadsAgree`.
`Coherent` speaks of quiet states only. The invariant `TurnInv` says for every
instance and path why its entry may differ from the bucket (`Expected`): it does
not (`Fresh`), or a task or an event not yet heard will remove it (`Told`), or the
one job under way has still to export or to announce it (`Explains`). The entry a
job has yet to export was made of the object that is there (`Owed`), so its flush
finds no conflict, and no call that has changed anything ends with an error.
`InTurn` says that there is one such job, and that no request waits while events
are heard: with a second one, `Unlinked` would be false, as the race above shows.
Where one instance does not announce, `Coherent` fails after its first write.

Only model-checked: liveness; the properties of `Engine` with several tasks,
apart from types, `CallsInOrder` and `LostAndFoundApart`.

Liveness under fairness and everything about ENABLED stay with TLC. So does the
data the operations compute recursively: the prover has no induction over data
that takes an operator, and no module here declares a RECURSIVE operator.

## Not modelled, and the plan

Not modelled yet: list and expire requests over NATS, the limits on payloads,
messages NATS loses and names of subjects; which import rule is selected (a rule
matches every name that starts with its prefix, `engine.rs:61`); the internal names
below `.openfiles`; the numbers of inodes and the offsets of `readdir`. Of the last
two the code is short and its faults are plain: `lookup` numbers a path without its
leading slash and `readdir` with it, so that a file has two inode numbers; and
offsets count the two dot entries, which `skip(offset)` does not, so that every
buffer after the first starts two entries late (`main.rs:211`). `Readdir` stands for
a listing that fits one buffer. `FlushSome` exports one dirty entry and the mount's
`flush` all of them: a behaviour of the code is one of the model, and the model has
more. `Namespace` reads whole files; a range leaves the same in the cache.

Not modelled at all, because they keep no state or decide nothing: the content of
the sidecar and of user metadata, HTTP status codes, the command line (one engine
call per process), the wasmCloud host, vendor selection, errors, the examples and
bindings, the client libraries of S3 and NATS beyond what the code takes from them.

The plan, most important first:

1. `Distributed`: list and expire requests, the payload limit. To check: an
   abstract register per path that acknowledged writes and deletes implement in
   the configuration of `cluster`.
2. Proofs: which of the properties of one task survive a second one that works on
   other paths.
3. `Mount`: `readdir` in several buffers against a directory that changes.
