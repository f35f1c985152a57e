------------------------------- MODULE Cache -------------------------------
(***************************************************************************)
(* The local cache of one engine: crates/openfiles-core/src/cache.rs.      *)
(*                                                                         *)
(* A cache is three maps from names to values: the in-memory index         *)
(* `entries' (a DashMap), the metadata files under meta/, written before   *)
(* the index and read back by load_index at start, and the data files      *)
(* under objects/.  No operation updates the three at once, so this module *)
(* gives the single file and map updates and what the operations compute   *)
(* with an entry; the engine interleaves them.                             *)
(*                                                                         *)
(* A file's bytes are a member of Data, or Torn: bytes nobody wrote (the   *)
(* file as File::create leaves it, a prefix, a mixture of two writes).  A  *)
(* clock is one bit: `old' says that an entry's last access lies before    *)
(* the expiration cutoff.                                                  *)
(***************************************************************************)
EXTENDS Naturals, FiniteSets

CONSTANTS
    Path,       \* names that calls use
    Lost,       \* names move_to_lost_found makes up (bounds how many it makes)
    Data,       \* what clients and remote writers write
    Torn,       \* bytes nobody wrote
    None,       \* no entry, no file, no etag
    Size        \* the length of each content (of None, any number)

VARIABLES
    entries,    \* the in-memory index
    meta,       \* the metadata files
    data        \* the data files

cacheVars == <<entries, meta, data>>

Name == Path \cup Lost
Content == Data \cup {Torn}
Tag == Content \cup {None}

(* An entry of a file.  `base' is the etag the local copy was made from.   *)
Entry == [base : Tag, size : Nat, cached : BOOLEAN, dirty : BOOLEAN,
          deleted : BOOLEAN, old : BOOLEAN]

ASSUME CacheAssumption ==
    /\ Path \cap Lost = {}
    /\ Torn \notin Data
    /\ None \notin Content /\ None \notin Entry
    /\ Size \in [Tag -> Nat]
    /\ Size[Torn] = 0
    /\ \A d \in Data : Size[d] > 0

CacheTypeOK ==
    /\ entries \in [Name -> Entry \cup {None}]
    /\ meta \in [Name -> Entry \cup {None}]
    /\ data \in [Name -> Tag]

CacheInit ==
    /\ entries = [n \in Name |-> None]
    /\ meta = [n \in Name |-> None]
    /\ data = [n \in Name |-> None]

-----------------------------------------------------------------------------
(* What the operations compute with an entry.                              *)

(* Mutation: the two arguments are swapped.                                *)
FromPosixSwapped(tag, size) ==
    [base |-> size, size |-> tag, cached |-> FALSE, dirty |-> FALSE,
     deleted |-> FALSE, old |-> FALSE]
FromPosix(tag, size) ==
    [base |-> tag, size |-> size, cached |-> FALSE, dirty |-> FALSE,
     deleted |-> FALSE, old |-> FALSE]

(* mark_clean: the entry agrees with the object exported under `tag'.      *)
(* Mutation: the dirty flag stays.                                         *)
CleanedStillDirty(e, tag) == [e EXCEPT !.base = tag, !.deleted = FALSE]
Cleaned(e, tag) == [e EXCEPT !.base = tag, !.dirty = FALSE, !.deleted = FALSE]

Touched(e) == [e EXCEPT !.old = FALSE]

(* The entry once its data file holds the object's bytes.                  *)
Filled(e) == [e EXCEPT !.cached = TRUE, !.old = FALSE]

(* What the expiration loop takes, and what it makes of it.                *)
(* Mutations: dirty entries expire; the flag stays when the bytes go.      *)
ExpirableDirty(e) == e # None /\ e.cached /\ e.old
EmptiedStillCached(e) == e
Expirable(e) == e # None /\ e.cached /\ ~e.dirty /\ e.old
Emptied(e) == [e EXCEPT !.cached = FALSE]

(* Whether a stat is answered from the entry, a read from the data file,   *)
(* and whether an invalidation drops it.  Mutation: dirty or not.          *)
DroppableDirty(e) == e # None
Known(e) == e # None /\ ~e.deleted
Serves(e) == e # None /\ (e.cached \/ e.dirty)
Droppable(e) == e # None /\ ~e.dirty

DirtyNames == {n \in Name : entries[n] # None /\ entries[n].dirty}

-----------------------------------------------------------------------------
(* The file and map updates the operations are made of.                    *)

(* put_entry first writes the metadata file, then inserts into the index.  *)
(* Mutation: the metadata file is not written.                             *)
WriteMetaSkipped(n, e) == meta' = meta
WriteMeta(n, e) == meta' = [meta EXCEPT ![n] = e]
Insert(n, e) == entries' = [entries EXCEPT ![n] = e]

(* write_data first creates, that is truncates, the data file and then     *)
(* fills it.  What is filled in over a longer content is a mixture; a file *)
(* that was unlinked in between stays unlinked.                            *)
Truncate(n) == data' = [data EXCEPT ![n] = Torn]
Overlay(under, c) ==
    CASE under = None -> None
      [] under # None /\ Size[under] > Size[c] -> Torn
      [] OTHER -> c
Fill(n, c) == data' = [data EXCEPT ![n] = Overlay(data[n], c)]

(* remove_entry takes the entry out of the index, then unlinks its files.  *)
(* Mutation: the metadata file stays.                                      *)
UnlinkMetaSkipped(n) == meta' = meta
Remove(n) == entries' = [entries EXCEPT ![n] = None]
UnlinkMeta(n) == meta' = [meta EXCEPT ![n] = None]
UnlinkData(n) == data' = [data EXCEPT ![n] = None]

(* A read of at most `len' bytes of c.  Mutation: one byte short.          *)
CutShort(c, len) == IF len <= Size[c] THEN Torn ELSE c
Cut(c, len) == IF len < Size[c] THEN Torn ELSE c

(* load_index: what a new process finds, when the metadata files of `torn' *)
(* were cut off while being written and do not parse.                      *)
LoadIndex(torn) ==
    /\ entries' = [n \in Name |-> IF n \in torn THEN None ELSE meta[n]]
    /\ meta' = [n \in Name |-> IF n \in torn THEN None ELSE meta[n]]

(* Time passes without an access: every entry falls behind the cutoff.     *)
Aged(m) == [n \in Name |-> IF m[n] = None THEN None ELSE [m[n] EXCEPT !.old = TRUE]]
=============================================================================
