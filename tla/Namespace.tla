------------------------------ MODULE Namespace ------------------------------
(***************************************************************************)
(* Paths and directories: what stat, list_dir, read_range, write_file,     *)
(* delete_path, rename_path and flush of crates/openfiles-core/src/engine.rs *)
(* make of a namespace in which a bucket has only keys.                    *)
(*                                                                         *)
(* One caller, whose calls come one after the other (the FUSE session, the *)
(* command line), and no batch window, so that a mutation is exported      *)
(* before it returns.  The steps inside a call and the other tasks are in  *)
(* Engine; here a call is one step, except a rename, which goes from file  *)
(* to file and may stop at any of them.                                    *)
(*                                                                         *)
(* A path is the sequence of its components, as normalize_path leaves it,  *)
(* and <<>> the root.  The key of a file is the object prefix and its      *)
(* path, so an object is named by its path too.  The bucket is either      *)
(* local.rs's directory tree or an object store behind opendal_backend.rs. *)
(***************************************************************************)
EXTENDS Integers, Sequences, FiniteSets

CONSTANTS
    Path,       \* the paths there may be, other than the root
    StartsWith, \* StartsWith[p]: the paths that as strings start with p
    Data,       \* contents
    Empty,      \* the content of length 0
    None,       \* no object
    NoEntry,    \* no entry in the cache
    Idle,       \* no rename under way
    Eager,      \* directories whose import rule fetches files when listed
    Named,      \* the files callers write and delete
    Renames,    \* the renames they ask for
    Mishaps     \* bounds how many backend calls fail

VARIABLES
    tree,       \* whether the bucket is a directory tree
    store,      \* the objects
    folders,    \* the directories of the tree
    entries,    \* the cache's index
    data,       \* the cache's data files
    moving,     \* the rename under way
    mishaps     \* how many backend calls have failed

bucket == <<tree, store, folders>>
cache == <<entries, data>>
vars == <<bucket, cache, moving, mishaps>>

Value == Data \cup {None}
Dir == Path \cup {<<>>}
Kinds == {"file", "dir"}
Entry == [kind : Kinds, cached : BOOLEAN, dirty : BOOLEAN, deleted : BOOLEAN]

(* The paths below a directory, and those directly below it.               *)
Below == [d \in Dir |-> {p \in Path : Len(d) < Len(p) /\ \A i \in 1 .. Len(d) : d[i] = p[i]}]
Child == [d \in Dir |-> {p \in Below[d] : Len(p) = Len(d) + 1}]

(* format!("{to_norm}/{rel}"): where a rename of `from' to `to' takes p.   *)
Target(from, to, p) == to \o SubSeq(p, Len(from) + 1, Len(p))

(* A rename: of a file or a directory; which directories are still to be   *)
(* listed and which files to be moved, each with how often it is in the    *)
(* list; and the file copied last, if it is still to be deleted.           *)
Move == [from : Path, to : Path, kind : Kinds, dirs : [Path -> Nat], files : [Path -> Nat],
         copied : Path \cup {<<>>}]

ASSUME NamespaceAssumption ==
    /\ \A p \in Path : p \in Seq(STRING) /\ p # <<>>
    /\ Path # {}
    /\ StartsWith \in [Path -> SUBSET Path]
    /\ \A p \in Path : Below[p] \subseteq StartsWith[p]
    /\ Empty \in Data /\ None \notin Data
    /\ NoEntry \notin Entry /\ Idle \notin Move
    /\ Eager \subseteq Dir /\ Named \subseteq Path
    /\ Renames \subseteq Path \X Path
    /\ \A r \in Renames, p \in Path :
        (p = r[1] \/ p \in Below[r[1]]) => Target(r[1], r[2], p) \in Path
    /\ Mishaps \in Nat

Nothing == [p \in Path |-> 0]
Once(p) == [Nothing EXCEPT ![p] = 1]

(* A rename has only what lies at or below the old name in its lists.      *)
MoveInside ==
    moving # Idle =>
        /\ <<moving.from, moving.to>> \in Renames
        /\ \A p \in Path : moving.dirs[p] > 0 \/ moving.files[p] > 0
                => p = moving.from \/ p \in Below[moving.from]
        /\ moving.copied # <<>> => moving.files[moving.copied] > 0

TypeOK ==
    /\ tree \in BOOLEAN
    /\ store \in [Path -> Value]
    /\ folders \subseteq Path
    /\ entries \in [Path -> Entry \cup {NoEntry}]
    /\ data \in [Path -> Data]
    /\ moving \in Move \cup {Idle} /\ MoveInside
    /\ mishaps \in 0 .. Mishaps

(* The caller starts with an empty bucket and an empty cache.              *)
Init ==
    /\ tree \in BOOLEAN
    /\ store = [p \in Path |-> None]
    /\ folders = {}
    /\ entries = [p \in Path |-> NoEntry]
    /\ data = [p \in Path |-> Empty]
    /\ moving = Idle
    /\ mishaps = 0

-----------------------------------------------------------------------------
(* The bucket.                                                             *)

(* In a tree, a path below a file: metadata, open and remove_file answer   *)
(* with an error that is not NotFound.                                     *)
BelowFile(p) == tree /\ \E q \in Path : p \in Below[q] /\ store[q] # None

(* head: an object; in a tree, a directory too.                            *)
Finds(p) == store[p] # None \/ (tree /\ p \in folders)

(* A key that can be neither written nor removed.                          *)
Refused(p) == tree /\ (p \in folders \/ BelowFile(p))

(* The objects list("p/") finds.  A tree is walked whole; its prefix has   *)
(* lost the slash.  OpenDAL's lister does not descend.                     *)
Walked(d) == {p \in Below[d] : store[p] # None}
Lister(d) == {p \in Child[d] : store[p] # None}
ListedBelow(d) == IF tree THEN Walked(d) ELSE Lister(d)
Probed(p) == IF tree THEN {q \in StartsWith[p] : store[q] # None} ELSE Lister(p)

(* How a backend call that changes an object may end: "before" it took     *)
(* effect, "after" it did, but with an error all the same, or, in a tree,  *)
(* when the file was created and not yet written ("torn").                 *)
Outcomes == {"done", "before", "torn", "after"}
(* Mutation: failures are not counted.                                     *)
EndsForEver(p, how) == mishaps' = IF how = "done" \/ Refused(p) THEN mishaps ELSE mishaps + 1
Ends(p, how) ==
    \/ how = "before" /\ Refused(p) /\ UNCHANGED mishaps
    \/ how = "done" /\ ~Refused(p) /\ UNCHANGED mishaps
    \/ /\ how # "done" /\ ~Refused(p)
       /\ how = "torn" => tree
       /\ mishaps < Mishaps
       /\ mishaps' = mishaps + 1

Mishap == mishaps < Mishaps /\ mishaps' = mishaps + 1

(* create_dir_all of the parent, then the object itself.                   *)
PutObject(p, d, how) ==
    /\ store' = [store EXCEPT ![p] =
            CASE how = "before" -> @ [] how = "torn" -> Empty [] OTHER -> d]
    /\ folders' = IF tree /\ how # "before"
                  THEN folders \cup {q \in Path : p \in Below[q]} ELSE folders
    /\ UNCHANGED tree

(* Mutation: what lies below goes with it.                                 *)
RemoveObjectsBelow(p, kind, how) ==
    /\ store' = IF how = "before" \/ (kind = "dir" /\ ~tree) THEN store
                ELSE [q \in Path |-> IF q = p \/ q \in Below[p] THEN None ELSE store[q]]
    /\ UNCHANGED <<tree, folders>>
(* The key of a directory's entry ends in a slash: no object of a bucket,  *)
(* in a tree the path itself.                                              *)
RemoveObject(p, kind, how) ==
    /\ store' = IF how = "before" \/ (kind = "dir" /\ ~tree) THEN store
                ELSE [store EXCEPT ![p] = None]
    /\ UNCHANGED <<tree, folders>>

-----------------------------------------------------------------------------
(* The cache.                                                              *)

Clean(kind, cached) == [kind |-> kind, cached |-> cached, dirty |-> FALSE, deleted |-> FALSE]
Dirty == [kind |-> "file", cached |-> TRUE, dirty |-> TRUE, deleted |-> FALSE]
Tombstone(e) ==
    IF e = NoEntry THEN [kind |-> "file", cached |-> FALSE, dirty |-> TRUE, deleted |-> TRUE]
    ELSE [e EXCEPT !.dirty = TRUE, !.deleted = TRUE]

Known(es, p) == es[p] # NoEntry /\ ~es[p].deleted
IsDirty(p) == entries[p] # NoEntry /\ entries[p].dirty
HasData(p) == Known(entries, p) /\ (entries[p].cached \/ entries[p].dirty)

-----------------------------------------------------------------------------
(* stat.                                                                   *)

(* Its answer.  A head that finds a directory of the tree makes a file of  *)
(* size 0 of it.                                                           *)
Kind(p) ==
    IF Known(entries, p) THEN entries[p].kind
    ELSE IF BelowFile(p) THEN "error"
    ELSE IF Finds(p) THEN "file"
    ELSE IF Probed(p) # {} THEN "dir" ELSE "missing"

(* The index it leaves.                                                    *)
(* Mutation: the entry claims to have the bytes.                           *)
StatedAsCached(p) ==
    IF Known(entries, p) \/ Kind(p) \notin Kinds THEN entries
    ELSE [entries EXCEPT ![p] = Clean(Kind(p), Kind(p) = "file")]
Stated(p) ==
    IF Known(entries, p) \/ Kind(p) \notin Kinds THEN entries
    ELSE [entries EXCEPT ![p] = Clean(Kind(p), FALSE)]

Stat(p) ==
    /\ moving = Idle
    /\ UNCHANGED <<bucket, data, moving, mishaps>>
    /\ entries' = Stated(p)

-----------------------------------------------------------------------------
(* list_dir.                                                               *)

(* The index once the files `some' directly below d are imported, those of *)
(* `whole' with their bytes.                                               *)
(* Mutation: the entry claims to have the bytes.                           *)
ImportedAsCached(some, whole) ==
    [p \in Path |-> IF p \in some THEN Clean("file", TRUE) ELSE entries[p]]
(* Mutation: an entry that is there, even of a delete, is left.            *)
ImportedIfNew(some, whole) ==
    [p \in Path |-> IF p \in some /\ entries[p] = NoEntry THEN Clean("file", p \in whole)
                    ELSE entries[p]]
Imported(some, whole) ==
    [p \in Path |-> IF p \in some THEN Clean("file", p \in whole) ELSE entries[p]]
Fetched(whole) == [p \in Path |-> IF p \in whole THEN store[p] ELSE data[p]]

Importable(d) == ListedBelow(d) \cap Child[d]
Prefetched(d) == IF d \in Eager THEN Importable(d) ELSE {}
Listed(d) == Imported(Importable(d), Prefetched(d))

(* The map `files' of the answer, the entries directly below d, and its    *)
(* set `dirs', the directories with an object or an entry further down.    *)
NamesListed(d) == LET listed == Listed(d) IN {p \in Child[d] : Known(listed, p)}
FilesListed(d) == {p \in NamesListed(d) : p \in Importable(d) \/ entries[p].kind = "file"}
(* Mutation: only those with a file directly in them.                      *)
DirsListedOneDeep(d) ==
    {q \in Child[d] : \E p \in Child[q] : p \in ListedBelow(d) \/ Known(entries, p)}
DirsListed(d) ==
    {q \in Child[d] : \E p \in Below[q] : p \in ListedBelow(d) \/ Known(entries, p)}

Lists(d) ==
    /\ UNCHANGED <<bucket, mishaps>>
    /\ entries' = Listed(d)
    /\ data' = Fetched(Prefetched(d))

(* An error of the backend ends it at some file.                           *)
ListFails(d) ==
    /\ Mishap
    /\ UNCHANGED bucket
    /\ \E some \in SUBSET Importable(d) : \E whole \in SUBSET (some \cap Prefetched(d)) :
        entries' = Imported(some, whole) /\ data' = Fetched(whole)

ListDir(d) ==
    /\ moving = Idle
    /\ Lists(d) \/ ListFails(d)
    /\ UNCHANGED moving

-----------------------------------------------------------------------------
(* read_range of a whole file.                                             *)

(* The bytes it returns if stat calls p a file: the data file's, or the    *)
(* object's; of a directory of a tree, none.                               *)
(* Mutation: the cache is read whether or not it has the bytes.            *)
ContentCached(p) == IF Known(entries, p) THEN data[p] ELSE store[p]
Content(p) == IF HasData(p) THEN data[p] ELSE IF store[p] = None THEN Empty ELSE store[p]

Readable(p) == Kind(p) = "file" /\ (HasData(p) \/ Finds(p))

(* What it leaves in the cache: an object's bytes, kept or not, as its     *)
(* size and the import rule say, and never those of an empty one.          *)
MayKeep(p) == ~HasData(p) /\ Content(p) # Empty
AfterRead(p, keep) == IF keep THEN [entries EXCEPT ![p] = Clean("file", TRUE)] ELSE Stated(p)
DataRead(p, keep) == IF keep THEN [data EXCEPT ![p] = store[p]] ELSE data

Read(p) ==
    /\ moving = Idle
    /\ UNCHANGED <<bucket, moving, mishaps>>
    /\ Readable(p)
    /\ \E keep \in BOOLEAN :
        /\ keep => MayKeep(p)
        /\ entries' = AfterRead(p, keep)
        /\ data' = DataRead(p, keep)

-----------------------------------------------------------------------------
(* write_file, delete_path and flush, each with its export.                *)

(* es and ds are the index and the data files the write finds.             *)
Exports(es, ds, p, d, how) ==
    /\ entries' = [es EXCEPT ![p] = IF how = "done" THEN Clean("file", TRUE) ELSE Dirty]
    /\ data' = [ds EXCEPT ![p] = d]
    /\ PutObject(p, d, how)
Writes(es, ds, p, d, how) == Exports(es, ds, p, d, how) /\ Ends(p, how)

WriteFile(p, d) ==
    /\ moving = Idle
    /\ ~BelowFile(p)
    /\ \E how \in Outcomes : Writes(entries, data, p, d, how)
    /\ UNCHANGED moving

Deletes(p, how) ==
    /\ how # "torn"
    /\ entries' = [entries EXCEPT ![p] = IF how = "done" THEN NoEntry ELSE Tombstone(@)]
    /\ data' = IF how = "done" THEN [data EXCEPT ![p] = Empty] ELSE data
    /\ Ends(p, how)
    /\ RemoveObject(p, IF entries[p] = NoEntry THEN "file" ELSE entries[p].kind, how)

DeletePath(p) ==
    /\ moving = Idle
    /\ \E how \in Outcomes : Deletes(p, how)
    /\ UNCHANGED moving

(* flush_path of one of the entries flush finds dirty.  An export that had *)
(* taken effect, when its answer was an error, looks like somebody else's: *)
(* the engine sets its copy aside and imports the object.                  *)
Conflicts(p) ==
    /\ ~tree /\ ~entries[p].deleted /\ store[p] = data[p]
    /\ entries' = [entries EXCEPT ![p] = Clean("file", FALSE)]
    /\ data' = [data EXCEPT ![p] = Empty]
    /\ UNCHANGED <<bucket, mishaps>>

FlushPath(p) ==
    /\ moving = Idle
    /\ IsDirty(p)
    /\ \/ Conflicts(p)
       \/ \E how \in Outcomes :
            IF entries[p].deleted THEN Deletes(p, how) ELSE Writes(entries, data, p, data[p], how)
    /\ UNCHANGED moving

-----------------------------------------------------------------------------
(* rename_path.                                                            *)

RenameStart(from, to) ==
    /\ moving = Idle
    /\ Kind(from) \in Kinds
    /\ entries' = Stated(from)
    /\ moving' = [from |-> from, to |-> to, kind |-> Kind(from), copied |-> <<>>,
                  dirs |-> IF Kind(from) = "dir" THEN Once(from) ELSE Nothing,
                  files |-> IF Kind(from) = "dir" THEN Nothing ELSE Once(from)]
    /\ UNCHANGED <<bucket, data, mishaps>>

(* How often a listing of d adds p to the directories and to the files: a  *)
(* directory with an entry of its own and one below it is listed twice.    *)
(* Mutation: only directories with an entry of their own count.            *)
DirTimesByEntry(d, p) == IF p \in NamesListed(d) \ FilesListed(d) THEN 1 ELSE 0
DirTimes(d, p) ==
    (IF p \in DirsListed(d) THEN 1 ELSE 0)
    + (IF p \in NamesListed(d) \ FilesListed(d) THEN 1 ELSE 0)
FileTimes(d, p) == IF p \in FilesListed(d) THEN 1 ELSE 0

RenameList(d) ==
    /\ moving # Idle /\ moving.dirs[d] > 0
    /\ \/ /\ Lists(d)
          /\ moving' = [moving EXCEPT
                !.dirs = [p \in Path |-> @[p] + DirTimes(d, p) - (IF p = d THEN 1 ELSE 0)],
                !.files = [p \in Path |-> @[p] + FileTimes(d, p)]]
       \/ ListFails(d) /\ moving' = Idle

(* rename_file, first half: read p and write it to its target.  The first  *)
(* error ends the rename.  (The files come sorted; here in any order.)     *)
RenameCopy(p) ==
    /\ moving # Idle /\ moving.dirs = Nothing /\ moving.copied = <<>> /\ moving.files[p] > 0
    /\ LET target == Target(moving.from, moving.to, p) IN
        \/ /\ Readable(p) /\ ~BelowFile(target)
           /\ \E keep \in BOOLEAN, how \in Outcomes :
                /\ keep => MayKeep(p)
                /\ Writes(AfterRead(p, keep), DataRead(p, keep), target, Content(p), how)
                /\ moving' = IF how = "done" THEN [moving EXCEPT !.copied = p] ELSE Idle
        \/ /\ entries' = Stated(p)
           /\ moving' = Idle
           /\ ((~Readable(p) \/ BelowFile(target)) /\ UNCHANGED mishaps) \/ Mishap
           /\ UNCHANGED <<bucket, data>>

(* The second half.                                                        *)
RenameDelete ==
    /\ moving # Idle /\ moving.copied # <<>>
    /\ \E how \in Outcomes :
        /\ Deletes(moving.copied, how)
        /\ moving' = IF how = "done"
                     THEN [moving EXCEPT !.copied = <<>>, !.files[moving.copied] = @ - 1]
                     ELSE Idle

(* The entry of a renamed directory goes last.                             *)
RenameEnd ==
    /\ moving # Idle /\ moving.dirs = Nothing /\ moving.files = Nothing
    /\ entries' = IF moving.kind = "dir" THEN [entries EXCEPT ![moving.from] = NoEntry]
                  ELSE entries
    /\ moving' = Idle
    /\ UNCHANGED <<bucket, data, mishaps>>

Rename ==
    \/ \E r \in Renames : RenameStart(r[1], r[2])
    \/ \E p \in Path : RenameList(p) \/ RenameCopy(p)
    \/ RenameDelete
    \/ RenameEnd

Next ==
    \/ \E p \in Path : Stat(p) \/ Read(p) \/ FlushPath(p)
    \/ \E p \in Named : DeletePath(p) \/ \E d \in Data : WriteFile(p, d)
    \/ \E d \in Dir : ListDir(d)
    \/ Rename

Spec == Init /\ [][Next]_vars

-----------------------------------------------------------------------------
(* Properties.                                                             *)

(* What a read of p returns now, and, while its entry is dirty, what it    *)
(* may come to return.                                                     *)
Visible(p) == IF HasData(p) /\ entries[p].kind = "file" THEN data[p] ELSE store[p]
Intended(p) == IF entries[p].deleted THEN None ELSE data[p]
InDoubt(p) == IF IsDirty(p) THEN {Intended(p), store[p]} ELSE {}

FS == INSTANCE FileSystem WITH
    files <- [p \in Path |-> Visible(p)], doubt <- [p \in Path |-> InDoubt(p)]

(* The engine implements the file system of FileSystem: no step changes    *)
(* what a reader finds at two paths, and after a failed call a file is     *)
(* what it was or what it was to become (engine.rs:316-452, 525-544).      *)
ImplementsFileSystem == FS!FSSpec

(* And each call is the step of FileSystem it should be: stat, list_dir    *)
(* and read_range change nothing a reader finds; write_file, delete_path   *)
(* and flush change their file to what was asked, or fail; a rename writes *)
(* what a reader found at the old path, and then removes that              *)
(* (engine.rs:111-452, 525-544).  A directory of a tree that stat made a   *)
(* file of is renamed as an empty one.                                     *)
Looks ==
    \/ \E p \in Path : Stat(p) \/ Read(p) \/ RenameList(p)
    \/ \E d \in Dir : ListDir(d)
    \/ \E r \in Renames : RenameStart(r[1], r[2])
    \/ RenameEnd

CopiesTo(p, target) ==
    \/ moving' = Idle /\ FS!FSReads
    \/ FS!FSWrites(target, IF Visible(p) = None THEN Empty ELSE Visible(p))

DoesAsAsked ==
    /\ ~FS!FSReads => ~Looks
    /\ \A p \in Named :
        /\ \A d \in Data : WriteFile(p, d) => FS!FSWrites(p, d)
        /\ DeletePath(p) => FS!FSWrites(p, None)
    /\ \A p \in Path :
        /\ FlushPath(p) => FS!FSWrites(p, Intended(p))
        /\ RenameCopy(p) => CopiesTo(p, Target(moving.from, moving.to, p))
    /\ RenameDelete => FS!FSWrites(moving.copied, None)

(* TLC looks at a step before it sees that it stutters, and most do.       *)
CallsDoAsAsked == [][UNCHANGED vars \/ DoesAsAsked]_vars

(* When a rename removes a file, what a reader found there is in the       *)
(* bucket under the new path (engine.rs:363-409): the rename of a          *)
(* directory may stop anywhere, and loses nothing.                         *)
KeepsContent ==
    [][\A p \in Path :
        moving # Idle /\ store[p] # None /\ store'[p] = None
            => store'[Target(moving.from, moving.to, p)] = Visible(p)]_vars

(* Between calls a listing of a directory names the files a reader finds   *)
(* directly in it, every one and no other (engine.rs:155-260); only a      *)
(* directory of a tree, of which stat made a file, is listed as a file too. *)
MadeFile(p) == p \in folders /\ Known(entries, p) /\ entries[p].kind = "file"
ListingTrue ==
    moving = Idle =>
        \A d \in Dir : FilesListed(d) =
            {p \in Child[d] : Visible(p) # None \/ MadeFile(p)}

(* In a tree, a directory with a file somewhere below it is listed as a    *)
(* directory by the listing of its parent (engine.rs:181-188, 228-234).    *)
TreeListsDirs ==
    tree => \A d \in Dir : \A q \in Child[d] :
        (\E p \in Below[q] : Visible(p) # None) => q \in DirsListed(d)

(* A rename of a directory that ends without an error leaves below the old *)
(* name only what the cache has no entry of (engine.rs:363-402): it finds  *)
(* every file it knows, at any depth, although OpenDAL lists one level.    *)
MovesWhatItKnows ==
    [][RenameEnd /\ moving.kind = "dir" =>
        \A p \in Below[moving.from] : store[p] # None => ~Known(entries, p)]_vars

(* A data file the cache would serve for a clean entry has the object's    *)
(* bytes, and the entry of a directory stands for no object: what the      *)
(* refinement rests on.                                                    *)
CacheAgrees ==
    \A p \in Path : entries[p] # NoEntry =>
        /\ entries[p].kind = "dir" => store[p] = None /\ ~entries[p].cached
        /\ entries[p].cached /\ ~entries[p].dirty => data[p] = store[p]

=============================================================================
