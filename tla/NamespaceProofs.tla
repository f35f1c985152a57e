--------------------------- MODULE NamespaceProofs ---------------------------
(***************************************************************************)
(* Theorems about Namespace, for every value of its constants: the type    *)
(* invariant, that the cache agrees with the bucket, and that the engine   *)
(* implements the file system of FileSystem.                               *)
(*                                                                         *)
(* The invariant comes in two parts.  StateOK is about bucket and cache,   *)
(* and every step of a call keeps it by itself; MoveOK is about the lists  *)
(* of a rename.  Each helper a call is made of has one lemma, which says   *)
(* that it keeps StateOK and is a step of the abstract file system.        *)
(***************************************************************************)
EXTENDS Namespace, SequenceTheorems, TLAPS

Index == [Path -> Entry \cup {NoEntry}]

StateOK ==
    /\ tree \in BOOLEAN
    /\ store \in [Path -> Value]
    /\ folders \subseteq Path
    /\ entries \in Index
    /\ data \in [Path -> Data]
    /\ mishaps \in 0 .. Mishaps
    /\ CacheAgrees

MoveOK == moving \in Move \cup {Idle} /\ MoveInside

IInv == StateOK /\ MoveOK

-----------------------------------------------------------------------------
(* Paths.                                                                  *)

LEMMA DirFacts ==
    /\ Path \subseteq Dir
    /\ \A d \in Dir : Below[d] \subseteq Path /\ Child[d] \subseteq Below[d]
<1>1. Path \subseteq Dir
  BY DEF Dir
<1>2. \A d \in Dir : Below[d] \subseteq Path
  BY DEF Below
<1>3. \A d \in Dir : Child[d] \subseteq Below[d]
  BY DEF Child
<1>. QED  BY <1>1, <1>2, <1>3

LEMMA BelowTransitive ==
    ASSUME NEW d \in Dir, NEW q \in Below[d], NEW p \in Below[q]
    PROVE  p \in Below[d]
<1>1. q \in Path /\ q \in Dir
  BY DirFacts
<1>2. p \in Path
  BY <1>1, DirFacts
<1>3. Len(d) \in Nat /\ Len(q) \in Nat /\ Len(p) \in Nat
  BY <1>1, <1>2, NamespaceAssumption DEF Dir
<1>4. Len(d) < Len(q) /\ \A i \in 1 .. Len(d) : d[i] = q[i]
  BY <1>1 DEF Below
<1>5. Len(q) < Len(p) /\ \A i \in 1 .. Len(q) : q[i] = p[i]
  BY <1>1 DEF Below
<1>6. Len(d) < Len(p) /\ \A i \in 1 .. Len(d) : d[i] = p[i]
  BY <1>3, <1>4, <1>5
<1>. QED  BY <1>1, <1>2, <1>6 DEF Below

-----------------------------------------------------------------------------
(* One path through a step of the abstract file system.                    *)

SettlesAt(q) ==
    /\ Visible(q)' \in InDoubt(q) \cup {Visible(q)}
    /\ InDoubt(q)' \subseteq InDoubt(q)

SetsAt(q, v) == Visible(q)' = v /\ InDoubt(q)' = {}

FailsAt(q, v) ==
    LET torn == IF v = None THEN {} ELSE {Empty}
        possible == InDoubt(q) \cup {Visible(q), v} \cup torn IN
    Visible(q)' \in possible /\ InDoubt(q)' \subseteq possible

LEMMA ValueTypesNext ==
    ASSUME StateOK'
    PROVE  \A q \in Path : Visible(q)' \in Value /\ InDoubt(q)' \in SUBSET Value
BY DEF StateOK, Index, Visible, InDoubt, Intended, Value

LEMMA AbstractReads ==
    ASSUME \A q \in Path : SettlesAt(q)
    PROVE  FS!FSReads
<1>1. \A q \in Path : FS!Settles(q)
  BY DEF SettlesAt, FS!Settles
<1>. QED  BY <1>1 DEF FS!FSReads

LEMMA AbstractWrites ==
    ASSUME NEW p \in Path, NEW v,
           \A q \in Path \ {p} : SettlesAt(q),
           SetsAt(p, v) \/ FailsAt(p, v)
    PROVE  FS!FSWrites(p, v)
<1>1. \A q \in Path \ {p} : FS!Settles(q)
  BY DEF SettlesAt, FS!Settles
<1>2. FS!Sets(p, v) \/ FS!Fails(p, v)
  BY DEF SetsAt, FailsAt, FS!Sets, FS!Fails
<1>. QED  BY <1>1, <1>2 DEF FS!FSWrites

-----------------------------------------------------------------------------
(* What an entry may become without a file being set.                      *)

(* e and d are an entry and a data file as a stat, a listing or a read     *)
(* makes them of the object at q.                                          *)
Refreshed(e, d, q) ==
    \/ e \in {Clean("file", FALSE)}
    \/ e = Clean("dir", FALSE) /\ store[q] = None
    \/ e = Clean("file", TRUE) /\ d = store[q]

Untouched(e, d, q) == e = entries[q] /\ d = data[q]

LEMMA ConstantFacts ==
    /\ NoEntry \notin Entry /\ Idle \notin Move
    /\ Path # {} /\ Mishaps \in Nat
    /\ Empty \in Data /\ None \notin Data
BY NamespaceAssumption

LEMMA CleanType ==
    \A kind \in Kinds, cached \in BOOLEAN :
        /\ Clean(kind, cached) \in Entry
        /\ Clean(kind, cached) # NoEntry
        /\ Clean(kind, cached).kind = kind
        /\ Clean(kind, cached).cached = cached
        /\ Clean(kind, cached).dirty = FALSE
        /\ Clean(kind, cached).deleted = FALSE
<1>1. \A kind \in Kinds, cached \in BOOLEAN : Clean(kind, cached) \in Entry
  BY DEF Clean, Entry
<1>. QED  BY <1>1, ConstantFacts DEF Clean

LEMMA DirtyType ==
    /\ Dirty \in Entry /\ Dirty # NoEntry
    /\ Dirty.kind = "file" /\ Dirty.cached /\ Dirty.dirty /\ ~Dirty.deleted
<1>1. Dirty \in Entry
  BY DEF Dirty, Entry, Kinds
<1>. QED  BY <1>1, ConstantFacts DEF Dirty

LEMMA TombstoneType ==
    ASSUME NEW e \in Entry \cup {NoEntry}
    PROVE  /\ Tombstone(e) \in Entry /\ Tombstone(e) # NoEntry
           /\ Tombstone(e).dirty /\ Tombstone(e).deleted
           /\ e = NoEntry => Tombstone(e).kind = "file"
           /\ e # NoEntry => /\ Tombstone(e).kind = e.kind
                             /\ Tombstone(e).cached = e.cached
<1>1. CASE e = NoEntry
  <2>1. Tombstone(e) \in Entry
    BY <1>1 DEF Tombstone, Entry, Kinds
  <2>. QED  BY <1>1, <2>1, ConstantFacts DEF Tombstone
<1>2. CASE e # NoEntry
  <2>1. e \in Entry /\ Tombstone(e) = [e EXCEPT !.dirty = TRUE, !.deleted = TRUE]
    BY <1>2 DEF Tombstone
  <2>2. Tombstone(e) \in Entry
    BY <2>1 DEF Entry
  <2>3. /\ Tombstone(e).dirty = TRUE /\ Tombstone(e).deleted = TRUE
        /\ Tombstone(e).kind = e.kind /\ Tombstone(e).cached = e.cached
    BY <2>1 DEF Entry
  <2>. QED  BY <1>2, <2>2, <2>3, ConstantFacts
<1>. QED  BY <1>1, <1>2

(* What a reader finds is, or may come to be, the object.                  *)
LEMMA StoreVisible ==
    ASSUME StateOK, NEW q \in Path
    PROVE  store[q] \in InDoubt(q) \cup {Visible(q)}
<1>1. CASE IsDirty(q)
  BY <1>1 DEF InDoubt
<1>2. CASE ~IsDirty(q)
  <2>1. CASE HasData(q) /\ entries[q].kind = "file"
    <3>1. entries[q] # NoEntry /\ entries[q].cached /\ ~entries[q].dirty
      BY <1>2, <2>1 DEF HasData, Known, IsDirty
    <3>2. data[q] = store[q]
      BY <3>1 DEF StateOK, CacheAgrees
    <3>. QED  BY <2>1, <3>2 DEF Visible
  <2>2. CASE ~(HasData(q) /\ entries[q].kind = "file")
    BY <2>2 DEF Visible
  <2>. QED  BY <2>1, <2>2
<1>. QED  BY <1>1, <1>2

LEMMA UntouchedSettles ==
    ASSUME NEW q \in Path, Untouched(entries'[q], data'[q], q), store'[q] = store[q]
    PROVE  SettlesAt(q)
BY DEF Untouched, SettlesAt, Visible, InDoubt, Intended, IsDirty, HasData, Known

LEMMA RefreshedSettles ==
    ASSUME StateOK, NEW q \in Path, Refreshed(entries'[q], data'[q], q), store'[q] = store[q]
    PROVE  SettlesAt(q)
<1>1. /\ entries'[q] # NoEntry /\ ~entries'[q].dirty /\ ~entries'[q].deleted
      /\ entries'[q].kind = "file" /\ entries'[q].cached => data'[q] = store[q]
  BY CleanType DEF Refreshed, Kinds
<1>2. InDoubt(q)' = {}
  BY <1>1 DEF InDoubt, IsDirty
<1>3. Visible(q)' = store[q]
  BY <1>1 DEF Visible, HasData, Known
<1>. QED  BY <1>2, <1>3, StoreVisible DEF SettlesAt

LEMMA GoneSettles ==
    ASSUME StateOK, NEW q \in Path, entries'[q] = NoEntry, store'[q] = store[q]
    PROVE  SettlesAt(q)
<1>1. InDoubt(q)' = {} /\ Visible(q)' = store[q]
  BY DEF InDoubt, IsDirty, Visible, HasData, Known
<1>. QED  BY <1>1, StoreVisible DEF SettlesAt

(* CacheAgrees at one path, and how such steps keep it.                    *)
AgreesAt(q) ==
    entries[q] # NoEntry =>
        /\ entries[q].kind = "dir" => store[q] = None /\ ~entries[q].cached
        /\ entries[q].cached /\ ~entries[q].dirty => data[q] = store[q]

LEMMA RefreshedAgrees ==
    ASSUME StateOK, NEW q \in Path, store'[q] = store[q],
           Refreshed(entries'[q], data'[q], q) \/ Untouched(entries'[q], data'[q], q)
    PROVE  AgreesAt(q)'
<1>1. CASE Untouched(entries'[q], data'[q], q)
  BY <1>1 DEF Untouched, AgreesAt, StateOK, CacheAgrees
<1>2. CASE Refreshed(entries'[q], data'[q], q)
  BY <1>2, CleanType DEF Refreshed, AgreesAt, Kinds
<1>. QED  BY <1>1, <1>2

-----------------------------------------------------------------------------
(* stat, list_dir and read_range leave an index that is quiet: each entry  *)
(* is as it was, or made of the object.                                    *)

Quiet(es, ds) ==
    \A q \in Path : Refreshed(es[q], ds[q], q) \/ Untouched(es[q], ds[q], q)

LEMMA StatedQuiet ==
    ASSUME StateOK, NEW p \in Path
    PROVE  Stated(p) \in Index /\ Quiet(Stated(p), data)
<1>. entries \in Index
  BY DEF StateOK
<1>1. CASE Known(entries, p) \/ Kind(p) \notin Kinds
  BY <1>1 DEF Stated, Quiet, Untouched
<1>2. CASE ~Known(entries, p) /\ Kind(p) \in Kinds
  <2>1. Stated(p) = [entries EXCEPT ![p] = Clean(Kind(p), FALSE)]
    BY <1>2 DEF Stated
  <2>2. Stated(p) \in Index
    BY <1>2, <2>1, CleanType DEF Index
  <2>3. \A q \in Path \ {p} : Untouched(Stated(p)[q], data[q], q)
    BY <2>1 DEF Untouched, Index
  <2>4. Stated(p)[p] = Clean(Kind(p), FALSE)
    BY <2>1 DEF Index
  <2>5. Kind(p) = "dir" => store[p] = None
    BY <1>2 DEF Kind, Finds
  <2>6. Refreshed(Stated(p)[p], data[p], p)
    BY <1>2, <2>4, <2>5 DEF Refreshed, Kinds
  <2>. QED  BY <2>2, <2>3, <2>6 DEF Quiet
<1>. QED  BY <1>1, <1>2

LEMMA ImportableFacts ==
    ASSUME StateOK, NEW d \in Dir
    PROVE  /\ Importable(d) \subseteq Path /\ Prefetched(d) \subseteq Importable(d)
           /\ \A p \in Importable(d) : store[p] \in Data /\ p \in Child[d]
<1>1. Importable(d) \subseteq Child[d] /\ Prefetched(d) \subseteq Importable(d)
  BY DEF Importable, Prefetched
<1>2. Importable(d) \subseteq Path
  BY <1>1, DirFacts
<1>3. \A p \in Importable(d) : store[p] # None
  BY DEF Importable, ListedBelow, Walked, Lister
<1>. QED  BY <1>1, <1>2, <1>3 DEF StateOK, Value

LEMMA ImportedQuiet ==
    ASSUME StateOK, NEW d \in Dir, NEW some \in SUBSET Importable(d), NEW whole \in SUBSET some
    PROVE  /\ Imported(some, whole) \in Index
           /\ Fetched(whole) \in [Path -> Data]
           /\ Quiet(Imported(some, whole), Fetched(whole))
<1>1. entries \in Index /\ data \in [Path -> Data]
  BY DEF StateOK
<1>0. ASSUME NEW q \in Path
      PROVE  /\ q \in whole => Imported(some, whole)[q] = Clean("file", TRUE)
             /\ q \in some \ whole => Imported(some, whole)[q] = Clean("file", FALSE)
             /\ q \notin some => Imported(some, whole)[q] = entries[q]
  <2>1. Imported(some, whole)[q] = IF q \in some THEN Clean("file", q \in whole) ELSE entries[q]
    BY DEF Imported
  <2>2. (q \in whole) = TRUE \/ (q \in whole) = FALSE
    OBVIOUS
  <2>. QED  BY <2>1, <2>2
<1>2. Imported(some, whole) \in Index
  <2>1. \A q \in Path : Imported(some, whole)[q] \in Entry \cup {NoEntry}
    BY <1>0, <1>1, CleanType DEF Index, Kinds
  <2>. QED  BY <2>1 DEF Imported, Index
<1>3. Fetched(whole) \in [Path -> Data]
  BY <1>1, ImportableFacts DEF Fetched
<1>4. ASSUME NEW q \in Path
      PROVE  Refreshed(Imported(some, whole)[q], Fetched(whole)[q], q)
             \/ Untouched(Imported(some, whole)[q], Fetched(whole)[q], q)
  <2>1. CASE q \in whole
    BY <1>0, <2>1 DEF Fetched, Refreshed
  <2>2. CASE q \in some \ whole
    BY <1>0, <2>2 DEF Refreshed
  <2>3. CASE q \notin some
    BY <1>0, <2>3 DEF Fetched, Untouched
  <2>. QED  BY <2>1, <2>2, <2>3
<1>. QED  BY <1>2, <1>3, <1>4 DEF Quiet

LEMMA ReadQuiet ==
    ASSUME StateOK, NEW p \in Path, NEW keep \in BOOLEAN, keep => MayKeep(p)
    PROVE  /\ AfterRead(p, keep) \in Index
           /\ DataRead(p, keep) \in [Path -> Data]
           /\ Quiet(AfterRead(p, keep), DataRead(p, keep))
<1>. entries \in Index /\ data \in [Path -> Data] /\ store \in [Path -> Value]
  BY DEF StateOK
<1>1. CASE keep
  <2>1. store[p] # None
    BY <1>1 DEF MayKeep, Content
  <2>2. store[p] \in Data
    BY <2>1 DEF Value
  <2>3. /\ AfterRead(p, keep) = [entries EXCEPT ![p] = Clean("file", TRUE)]
        /\ DataRead(p, keep) = [data EXCEPT ![p] = store[p]]
    BY <1>1 DEF AfterRead, DataRead
  <2>4. AfterRead(p, keep) \in Index /\ DataRead(p, keep) \in [Path -> Data]
    BY <2>2, <2>3, CleanType DEF Index, Kinds
  <2>5. /\ AfterRead(p, keep)[p] = Clean("file", TRUE) /\ DataRead(p, keep)[p] = store[p]
        /\ \A q \in Path \ {p} : /\ AfterRead(p, keep)[q] = entries[q]
                                 /\ DataRead(p, keep)[q] = data[q]
    BY <2>3 DEF Index
  <2>. QED  BY <2>4, <2>5 DEF Quiet, Refreshed, Untouched
<1>2. CASE ~keep
  BY <1>2, StatedQuiet DEF AfterRead, DataRead
<1>. QED  BY <1>1, <1>2

LEMMA QuietStep ==
    ASSUME StateOK, NEW es \in Index, NEW ds \in [Path -> Data], Quiet(es, ds),
           entries' = es, data' = ds, UNCHANGED bucket, mishaps' \in 0 .. Mishaps
    PROVE  StateOK' /\ FS!FSReads
<1>1. UNCHANGED <<tree, store, folders>>
  BY DEF bucket
<1>2. ASSUME NEW q \in Path
      PROVE  SettlesAt(q) /\ AgreesAt(q)'
  <2>1. Refreshed(entries'[q], data'[q], q) \/ Untouched(entries'[q], data'[q], q)
    BY DEF Quiet
  <2>. QED  BY <1>1, <2>1, RefreshedSettles, UntouchedSettles, RefreshedAgrees
<1>3. CacheAgrees'
  BY <1>2 DEF CacheAgrees, AgreesAt
<1>4. StateOK'
  BY <1>1, <1>3 DEF StateOK
<1>. QED  BY <1>2, <1>4, AbstractReads

-----------------------------------------------------------------------------
(* Exports.                                                                *)

LEMMA EndsType ==
    ASSUME StateOK, NEW p \in Path, NEW how \in Outcomes, Ends(p, how) \/ Mishap
    PROVE  mishaps' \in 0 .. Mishaps
BY ConstantFacts DEF StateOK, Ends, Mishap

(* A step that leaves every path but one quiet, and agrees at that one.    *)
LEMMA OneFileStep ==
    ASSUME StateOK, NEW p \in Path, NEW v, entries' \in Index, data' \in [Path -> Data],
           store' \in [Path -> Value], folders' \subseteq Path, tree' = tree,
           mishaps' \in 0 .. Mishaps, AgreesAt(p)',
           \A q \in Path \ {p} :
                /\ store'[q] = store[q]
                /\ \/ Refreshed(entries'[q], data'[q], q)
                   \/ Untouched(entries'[q], data'[q], q),
           SetsAt(p, v) \/ FailsAt(p, v)
    PROVE  StateOK' /\ FS!FSWrites(p, v)
<1>1. \A q \in Path \ {p} : SettlesAt(q) /\ AgreesAt(q)'
  BY RefreshedSettles, UntouchedSettles, RefreshedAgrees
<1>2. CacheAgrees'
  BY <1>1 DEF CacheAgrees, AgreesAt
<1>3. StateOK'
  BY <1>2 DEF StateOK
<1>. QED  BY <1>1, <1>3, AbstractWrites

LEMMA ExportsStep ==
    ASSUME StateOK, NEW es \in Index, NEW ds \in [Path -> Data],
           NEW t \in Path, NEW d \in Data, NEW how \in Outcomes,
           \A q \in Path \ {t} :
                Refreshed(es[q], ds[q], q) \/ Untouched(es[q], ds[q], q),
           Exports(es, ds, t, d, how), mishaps' \in 0 .. Mishaps
    PROVE  StateOK' /\ FS!FSWrites(t, d)
<1>. DEFINE e == IF how = "done" THEN Clean("file", TRUE) ELSE Dirty
            o == CASE how = "before" -> store[t] [] how = "torn" -> Empty [] OTHER -> d
<1>1. /\ store \in [Path -> Value] /\ folders \subseteq Path
      /\ d \in Value /\ Empty \in Value /\ d # None
  BY ConstantFacts DEF StateOK, Value
<1>2. entries' = [es EXCEPT ![t] = e] /\ data' = [ds EXCEPT ![t] = d]
  BY DEF Exports
<1>3. store' = [store EXCEPT ![t] = o]
  BY <1>1 DEF Exports, PutObject
<1>4. e \in Entry
  BY CleanType, DirtyType DEF Kinds
<1>5. o \in Value /\ o \in {store[t], Empty, d} /\ (how = "done" => o = d)
  BY <1>1
<1>. HIDE DEF e, o
<1>6. entries' \in Index /\ data' \in [Path -> Data] /\ store' \in [Path -> Value]
  BY <1>1, <1>2, <1>3, <1>4, <1>5 DEF Index
<1>7. /\ \A q \in Path \ {t} :
            /\ store'[q] = store[q] /\ entries'[q] = es[q] /\ data'[q] = ds[q]
      /\ store'[t] = o /\ entries'[t] = e /\ data'[t] = d
  BY <1>1, <1>2, <1>3 DEF Index
<1>8. folders' \subseteq Path /\ tree' = tree
  BY <1>1 DEF Exports, PutObject
<1>9. AgreesAt(t)' /\ (SetsAt(t, d) \/ FailsAt(t, d))
  <2>1. CASE how = "done"
    <3>1. e = Clean("file", TRUE)
      BY <2>1 DEF e
    <3>2. e # NoEntry /\ e.kind = "file" /\ e.cached /\ ~e.dirty /\ ~e.deleted
      BY <3>1, CleanType DEF Kinds
    <3>3. SetsAt(t, d)
      BY <1>7, <3>2 DEF SetsAt, Visible, HasData, Known, InDoubt, IsDirty
    <3>4. AgreesAt(t)'
      BY <1>5, <1>7, <2>1, <3>2 DEF AgreesAt
    <3>. QED  BY <3>3, <3>4
  <2>2. CASE how # "done"
    <3>1. e = Dirty
      BY <2>2 DEF e
    <3>2. e # NoEntry /\ e.kind = "file" /\ e.dirty /\ ~e.deleted
      BY <3>1, DirtyType
    <3>3. Visible(t)' = d /\ InDoubt(t)' = {d, o}
      BY <1>7, <3>2 DEF Visible, HasData, Known, InDoubt, IsDirty, Intended
    <3>4. FailsAt(t, d)
      BY <1>1, <1>5, <3>3, StoreVisible DEF FailsAt
    <3>5. AgreesAt(t)'
      BY <1>7, <3>2 DEF AgreesAt
    <3>. QED  BY <3>4, <3>5
  <2>. QED  BY <2>1, <2>2
<1>. QED  BY <1>1, <1>6, <1>7, <1>8, <1>9, OneFileStep

LEMMA WritesStep ==
    ASSUME StateOK, NEW es \in Index, NEW ds \in [Path -> Data],
           NEW t \in Path, NEW d \in Data, NEW how \in Outcomes,
           \A q \in Path \ {t} :
                Refreshed(es[q], ds[q], q) \/ Untouched(es[q], ds[q], q),
           Writes(es, ds, t, d, how)
    PROVE  StateOK' /\ FS!FSWrites(t, d)
BY EndsType, ExportsStep DEF Writes

LEMMA DeletesStep ==
    ASSUME StateOK, NEW p \in Path, NEW how \in Outcomes, Deletes(p, how)
    PROVE  StateOK' /\ FS!FSWrites(p, None)
<1>. DEFINE e == IF how = "done" THEN NoEntry ELSE Tombstone(entries[p])
<1>1. /\ store \in [Path -> Value] /\ folders \subseteq Path
      /\ entries \in Index /\ data \in [Path -> Data]
      /\ None \in Value /\ Empty \in Data
  BY ConstantFacts DEF StateOK, Value
<1>2. entries' = [entries EXCEPT ![p] = e]
  BY DEF Deletes
<1>3. entries[p] \in Entry \cup {NoEntry}
  BY <1>1 DEF Index
<1>4. e \in Entry \cup {NoEntry}
  BY <1>3, TombstoneType
<1>5. /\ data' \in [Path -> Data]
      /\ \A q \in Path \ {p} : data'[q] = data[q]
  BY <1>1 DEF Deletes
<1>6. /\ store' \in [Path -> Value]
      /\ \A q \in Path \ {p} : store'[q] = store[q]
      /\ store'[p] \in {store[p], None}
      /\ tree' = tree /\ folders' = folders
      /\ how = "done" => store'[p] = None
  <2>1. entries[p] # NoEntry /\ entries[p].kind = "dir" => store[p] = None
    BY DEF StateOK, CacheAgrees
  <2>. QED  BY <1>1, <2>1 DEF Deletes, RemoveObject
<1>7. mishaps' \in 0 .. Mishaps
  BY EndsType DEF Deletes
<1>8. AgreesAt(p)' /\ (SetsAt(p, None) \/ FailsAt(p, None))
  <2>1. CASE how = "done"
    <3>1. entries'[p] = NoEntry
      BY <1>1, <1>2, <2>1 DEF Index
    <3>. QED  BY <1>6, <2>1, <3>1 DEF AgreesAt, SetsAt, Visible, HasData, Known, InDoubt, IsDirty
  <2>2. CASE how # "done"
    <3>1. entries'[p] = Tombstone(entries[p])
      BY <1>1, <1>2, <2>2 DEF Index
    <3>2. entries'[p] # NoEntry /\ entries'[p].dirty /\ entries'[p].deleted
      BY <1>3, <3>1, TombstoneType
    <3>3. Visible(p)' = store'[p] /\ InDoubt(p)' = {None, store'[p]}
      BY <3>2 DEF Visible, HasData, Known, InDoubt, IsDirty, Intended
    <3>4. FailsAt(p, None)
      BY <1>6, <3>3, StoreVisible DEF FailsAt
    <3>5. entries'[p].kind = "dir" => store[p] = None /\ ~entries'[p].cached
      BY <1>3, <3>1, TombstoneType DEF StateOK, CacheAgrees
    <3>6. AgreesAt(p)'
      BY <1>6, <3>2, <3>5 DEF AgreesAt
    <3>. QED  BY <3>4, <3>6
  <2>. QED  BY <2>1, <2>2
<1>9. \A q \in Path \ {p} : Untouched(entries'[q], data'[q], q)
  BY <1>1, <1>2, <1>5 DEF Untouched, Index
<1>10. entries' \in Index
  BY <1>1, <1>2, <1>4 DEF Index
<1>. QED  BY <1>1, <1>5, <1>6, <1>7, <1>8, <1>9, <1>10, OneFileStep

LEMMA ConflictStep ==
    ASSUME StateOK, NEW p \in Path, Conflicts(p)
    PROVE  StateOK' /\ FS!FSWrites(p, Intended(p))
<1>1. entries \in Index /\ data \in [Path -> Data] /\ Empty \in Data
  BY ConstantFacts DEF StateOK
<1>2. /\ entries' = [entries EXCEPT ![p] = Clean("file", FALSE)]
      /\ data' = [data EXCEPT ![p] = Empty]
      /\ UNCHANGED <<tree, store, folders, mishaps>>
      /\ ~entries[p].deleted /\ store[p] = data[p]
  BY DEF Conflicts, bucket
<1>3. entries' \in Index /\ data' \in [Path -> Data]
  BY <1>1, <1>2, CleanType DEF Index, Kinds
<1>4. /\ entries'[p] = Clean("file", FALSE)
      /\ \A q \in Path \ {p} : Untouched(entries'[q], data'[q], q)
  BY <1>1, <1>2 DEF Untouched, Index
<1>5. AgreesAt(p)'
  BY <1>4, CleanType DEF AgreesAt, Kinds
<1>6. SetsAt(p, Intended(p))
  BY <1>2, <1>4, CleanType
     DEF SetsAt, Intended, Visible, HasData, Known, InDoubt, IsDirty, Kinds
<1>7. /\ store' \in [Path -> Value] /\ folders' \subseteq Path
      /\ mishaps' \in 0 .. Mishaps
  BY <1>2 DEF StateOK
<1>. QED  BY <1>2, <1>3, <1>4, <1>5, <1>6, <1>7, OneFileStep

-----------------------------------------------------------------------------
(* The calls, one lemma for each action.                                   *)

LEMMA NotMoving ==
    ASSUME MoveOK, UNCHANGED moving \/ moving' = Idle
    PROVE  MoveOK'
<1>1. CASE UNCHANGED moving
  BY <1>1 DEF MoveOK, MoveInside
<1>2. CASE moving' = Idle
  BY <1>2 DEF MoveOK, MoveInside
<1>. QED  BY <1>1, <1>2

LEMMA StatStep ==
    ASSUME IInv, NEW p \in Path, Stat(p)
    PROVE  IInv' /\ FS!FSReads
<1>1. StateOK /\ MoveOK /\ data \in [Path -> Data] /\ mishaps \in 0 .. Mishaps
  BY DEF IInv, StateOK
<1>2. /\ entries' = Stated(p) /\ data' = data
      /\ UNCHANGED <<bucket, moving, mishaps>>
  BY DEF Stat
<1>3. StateOK' /\ FS!FSReads
  BY <1>1, <1>2, StatedQuiet, QuietStep
<1>. QED  BY <1>1, <1>2, <1>3, NotMoving DEF IInv

LEMMA ListsStep ==
    ASSUME StateOK, NEW d \in Dir, Lists(d) \/ ListFails(d)
    PROVE  StateOK' /\ FS!FSReads
<1>1. CASE Lists(d)
  <2>1. mishaps' \in 0 .. Mishaps
    BY <1>1 DEF Lists, StateOK
  <2>2. /\ Importable(d) \in SUBSET Importable(d)
        /\ Prefetched(d) \in SUBSET Importable(d)
    BY ImportableFacts
  <2>3. /\ entries' = Imported(Importable(d), Prefetched(d))
        /\ data' = Fetched(Prefetched(d)) /\ UNCHANGED bucket
    BY <1>1 DEF Lists, Listed
  <2>. QED  BY <2>1, <2>2, <2>3, ImportedQuiet, QuietStep
<1>2. CASE ListFails(d)
  <2>1. mishaps' \in 0 .. Mishaps
    BY <1>2, ConstantFacts DEF ListFails, Mishap, StateOK
  <2>2. PICK some \in SUBSET Importable(d) : \E whole \in SUBSET (some \cap Prefetched(d)) :
            entries' = Imported(some, whole) /\ data' = Fetched(whole)
    BY <1>2 DEF ListFails
  <2>3. PICK whole \in SUBSET (some \cap Prefetched(d)) :
            entries' = Imported(some, whole) /\ data' = Fetched(whole)
    BY <2>2
  <2>4. whole \in SUBSET some /\ UNCHANGED bucket
    BY <1>2 DEF ListFails
  <2>. QED  BY <2>1, <2>3, <2>4, ImportedQuiet, QuietStep
<1>. QED  BY <1>1, <1>2

LEMMA ListDirStep ==
    ASSUME IInv, NEW d \in Dir, ListDir(d)
    PROVE  IInv' /\ FS!FSReads
<1>1. StateOK /\ MoveOK
  BY DEF IInv
<1>2. (Lists(d) \/ ListFails(d)) /\ UNCHANGED moving
  BY DEF ListDir
<1>. QED  BY <1>1, <1>2, ListsStep, NotMoving DEF IInv

LEMMA ReadStep ==
    ASSUME IInv, NEW p \in Path, Read(p)
    PROVE  IInv' /\ FS!FSReads
<1>1. StateOK /\ MoveOK /\ mishaps \in 0 .. Mishaps
  BY DEF IInv, StateOK
<1>2. PICK keep \in BOOLEAN :
        /\ keep => MayKeep(p)
        /\ entries' = AfterRead(p, keep)
        /\ data' = DataRead(p, keep)
  BY DEF Read
<1>3. UNCHANGED <<bucket, moving, mishaps>>
  BY DEF Read
<1>4. StateOK' /\ FS!FSReads
  BY <1>1, <1>2, <1>3, ReadQuiet, QuietStep
<1>. QED  BY <1>1, <1>3, <1>4, NotMoving DEF IInv

LEMMA WriteFileStep ==
    ASSUME IInv, NEW p \in Path, NEW d \in Data, WriteFile(p, d)
    PROVE  IInv' /\ FS!FSWrites(p, d)
<1>1. StateOK /\ MoveOK /\ entries \in Index /\ data \in [Path -> Data]
  BY DEF IInv, StateOK
<1>2. PICK how \in Outcomes : Writes(entries, data, p, d, how)
  BY DEF WriteFile
<1>3. StateOK' /\ FS!FSWrites(p, d)
  BY <1>1, <1>2, WritesStep DEF Untouched
<1>4. UNCHANGED moving
  BY DEF WriteFile
<1>. QED  BY <1>1, <1>3, <1>4, NotMoving DEF IInv

LEMMA DeletePathStep ==
    ASSUME IInv, NEW p \in Path, DeletePath(p)
    PROVE  IInv' /\ FS!FSWrites(p, None)
<1>1. StateOK /\ MoveOK
  BY DEF IInv
<1>2. (\E how \in Outcomes : Deletes(p, how)) /\ UNCHANGED moving
  BY DEF DeletePath
<1>. QED  BY <1>1, <1>2, DeletesStep, NotMoving DEF IInv

LEMMA FlushPathStep ==
    ASSUME IInv, NEW p \in Path, FlushPath(p)
    PROVE  IInv' /\ FS!FSWrites(p, Intended(p))
<1>1. StateOK /\ MoveOK /\ entries \in Index /\ data \in [Path -> Data]
  BY DEF IInv, StateOK
<1>2. UNCHANGED moving
  BY DEF FlushPath
<1>3. StateOK' /\ FS!FSWrites(p, Intended(p))
  <2>1. CASE Conflicts(p)
    BY <1>1, <2>1, ConflictStep
  <2>2. CASE \E how \in Outcomes : entries[p].deleted /\ Deletes(p, how)
    <3>1. Intended(p) = None
      BY <2>2 DEF Intended
    <3>. QED  BY <1>1, <2>2, <3>1, DeletesStep
  <2>3. CASE \E how \in Outcomes : ~entries[p].deleted /\ Writes(entries, data, p, data[p], how)
    <3>1. PICK how \in Outcomes : Writes(entries, data, p, data[p], how)
      BY <2>3
    <3>2. data[p] \in Data /\ Intended(p) = data[p]
      BY <1>1, <2>3 DEF Intended
    <3>. QED  BY <1>1, <3>1, <3>2, WritesStep DEF Untouched
  <2>. QED  BY <2>1, <2>2, <2>3 DEF FlushPath
<1>. QED  BY <1>1, <1>2, <1>3, NotMoving DEF IInv

-----------------------------------------------------------------------------
(* The steps of a rename.                                                  *)

LEMMA MoveFacts ==
    ASSUME MoveOK, moving # Idle
    PROVE  /\ moving \in Move
           /\ moving.from \in Path /\ moving.to \in Path /\ moving.kind \in Kinds
           /\ moving.dirs \in [Path -> Nat] /\ moving.files \in [Path -> Nat]
           /\ moving.copied \in Path \cup {<<>>}
           /\ <<moving.from, moving.to>> \in Renames
           /\ \A p \in Path : moving.dirs[p] > 0 \/ moving.files[p] > 0
                => p = moving.from \/ p \in Below[moving.from]
           /\ moving.copied # <<>> => moving.files[moving.copied] > 0
<1>1. moving \in Move
  BY DEF MoveOK
<1>. QED  BY <1>1 DEF MoveOK, MoveInside, Move

LEMMA RootNotPath == <<>> \notin Path
BY NamespaceAssumption

LEMMA OnceFacts ==
    /\ Nothing \in [Path -> Nat]
    /\ \A p \in Path : Nothing[p] = 0
    /\ \A p \in Path : Once(p) \in [Path -> Nat]
    /\ \A p \in Path : \A q \in Path : Once(p)[q] > 0 => q = p
<1>1. Nothing \in [Path -> Nat] /\ \A p \in Path : Nothing[p] = 0
  BY DEF Nothing
<1>2. ASSUME NEW p \in Path
      PROVE  /\ Once(p) \in [Path -> Nat]
             /\ \A q \in Path : Once(p)[q] > 0 => q = p
  BY <1>1 DEF Once
<1>. QED  BY <1>1, <1>2

LEMMA RenamePair ==
    ASSUME NEW r \in Renames
    PROVE  r[1] \in Path /\ r[2] \in Path /\ <<r[1], r[2]>> \in Renames
<1>1. Renames \subseteq Path \X Path
  BY NamespaceAssumption
<1>2. r \in Path \X Path
  BY <1>1
<1>. QED  BY <1>2

LEMMA RenameStartStep ==
    ASSUME IInv, NEW from \in Path, NEW to \in Path, <<from, to>> \in Renames,
           RenameStart(from, to)
    PROVE  IInv' /\ FS!FSReads
<1>1. StateOK /\ data \in [Path -> Data] /\ mishaps \in 0 .. Mishaps
  BY DEF IInv, StateOK
<1>2. /\ Kind(from) \in Kinds /\ entries' = Stated(from) /\ data' = data
      /\ UNCHANGED <<bucket, mishaps>>
  BY DEF RenameStart
<1>3. StateOK' /\ FS!FSReads
  BY <1>1, <1>2, StatedQuiet, QuietStep
<1>. DEFINE dirs == IF Kind(from) = "dir" THEN Once(from) ELSE Nothing
            files == IF Kind(from) = "dir" THEN Nothing ELSE Once(from)
<1>4. /\ dirs \in [Path -> Nat] /\ files \in [Path -> Nat]
      /\ \A p \in Path : dirs[p] > 0 \/ files[p] > 0 => p = from
  BY OnceFacts
<1>5. moving' = [from |-> from, to |-> to, kind |-> Kind(from), copied |-> <<>>,
                 dirs |-> dirs, files |-> files]
  BY DEF RenameStart
<1>. HIDE DEF dirs, files
<1>6. moving' \in Move
  BY <1>2, <1>4, <1>5 DEF Move
<1>7. /\ moving'.from = from /\ moving'.to = to /\ moving'.copied = <<>>
      /\ moving'.dirs = dirs /\ moving'.files = files
  BY <1>5
<1>8. MoveOK'
  BY <1>4, <1>6, <1>7 DEF MoveOK, MoveInside
<1>. QED  BY <1>3, <1>8 DEF IInv

LEMMA TimesFacts ==
    ASSUME NEW d \in Dir, NEW p \in Path
    PROVE  /\ DirTimes(d, p) \in Nat /\ FileTimes(d, p) \in Nat
           /\ DirTimes(d, p) > 0 \/ FileTimes(d, p) > 0 => p \in Below[d]
<1>1. DirTimes(d, p) \in Nat /\ FileTimes(d, p) \in Nat
  BY DEF DirTimes, FileTimes
<1>2. /\ FilesListed(d) \subseteq NamesListed(d) /\ NamesListed(d) \subseteq Child[d]
      /\ DirsListed(d) \subseteq Child[d]
  BY DEF FilesListed, NamesListed, DirsListed
<1>3. DirTimes(d, p) > 0 \/ FileTimes(d, p) > 0
        => p \in DirsListed(d) \cup NamesListed(d)
  BY <1>2 DEF DirTimes, FileTimes
<1>. QED  BY <1>1, <1>2, <1>3, DirFacts

LEMMA RenameListStep ==
    ASSUME IInv, NEW d \in Path, RenameList(d)
    PROVE  IInv' /\ FS!FSReads
<1>1. StateOK /\ MoveOK /\ moving # Idle /\ moving.dirs[d] > 0 /\ d \in Dir
  BY DirFacts DEF IInv, RenameList
<1>2. Lists(d) \/ ListFails(d)
  BY DEF RenameList
<1>3. StateOK' /\ FS!FSReads
  BY <1>1, <1>2, ListsStep
<1>4. MoveOK'
  <2>1. CASE moving' = Idle
    BY <1>1, <2>1, NotMoving
  <2>2. CASE moving' # Idle
    <3>. DEFINE dirs == [p \in Path |->
                    moving.dirs[p] + DirTimes(d, p) - (IF p = d THEN 1 ELSE 0)]
                files == [p \in Path |-> moving.files[p] + FileTimes(d, p)]
    <3>0. moving \in Move /\ moving.dirs \in [Path -> Nat] /\ moving.files \in [Path -> Nat]
      BY <1>1, MoveFacts
    <3>1. moving' = [moving EXCEPT !.dirs = dirs, !.files = files]
      BY <2>2, <3>0 DEF RenameList, Move
    <3>2. ASSUME NEW p \in Path
          PROVE  /\ dirs[p] \in Nat /\ files[p] \in Nat
                 /\ files[p] >= moving.files[p]
                 /\ dirs[p] > 0 \/ files[p] > 0
                        => moving.dirs[p] > 0 \/ moving.files[p] > 0 \/ p \in Below[d]
      BY <1>1, <3>0, TimesFacts
    <3>3. dirs \in [Path -> Nat] /\ files \in [Path -> Nat]
      BY <3>2
    <3>. HIDE DEF dirs, files
    <3>4. moving' \in Move
      BY <3>0, <3>1, <3>3 DEF Move
    <3>5. /\ moving'.from = moving.from /\ moving'.to = moving.to
          /\ moving'.copied = moving.copied
          /\ moving'.dirs = dirs /\ moving'.files = files
      BY <3>0, <3>1 DEF Move
    <3>6. d = moving.from \/ d \in Below[moving.from]
      BY <1>1, MoveFacts
    <3>7. \A p \in Below[d] : p \in Below[moving.from]
      BY <1>1, <3>6, BelowTransitive, MoveFacts, DirFacts
    <3>8. \A p \in Path : dirs[p] > 0 \/ files[p] > 0
                => p = moving.from \/ p \in Below[moving.from]
      BY <1>1, <3>2, <3>7, MoveFacts
    <3>9. moving.copied # <<>> => files[moving.copied] > 0
      BY <1>1, <3>0, <3>2, MoveFacts
    <3>10. <<moving.from, moving.to>> \in Renames
      BY <1>1, MoveFacts
    <3>. QED  BY <3>4, <3>5, <3>8, <3>9, <3>10 DEF MoveOK, MoveInside
  <2>. QED  BY <2>1, <2>2
<1>. QED  BY <1>3, <1>4 DEF IInv

(* The bytes rename_file reads are what a reader finds, or none.           *)
LEMMA ContentIsVisible ==
    ASSUME StateOK, NEW p \in Path, Readable(p)
    PROVE  /\ Content(p) \in Data
           /\ Content(p) = IF Visible(p) = None THEN Empty ELSE Visible(p)
<1>1. data[p] \in Data /\ data[p] # None
  BY ConstantFacts DEF StateOK
<1>2. store[p] # None => store[p] \in Data
  BY DEF StateOK, Value
<1>3. CASE HasData(p)
  <2>1. entries[p].kind = "file"
    BY <1>3 DEF Readable, Kind, HasData
  <2>. QED  BY <1>1, <1>3, <2>1 DEF Content, Visible
<1>4. CASE ~HasData(p)
  BY <1>2, <1>4, ConstantFacts DEF Content, Visible
<1>. QED  BY <1>3, <1>4

LEMMA RenameCopyStep ==
    ASSUME IInv, NEW p \in Path, RenameCopy(p)
    PROVE  /\ IInv'
           /\ CopiesTo(p, Target(moving.from, moving.to, p))
           /\ Target(moving.from, moving.to, p) \in Path
<1>. DEFINE target == Target(moving.from, moving.to, p)
<1>1. StateOK /\ MoveOK /\ moving # Idle /\ moving.files[p] > 0
  BY DEF IInv, RenameCopy
<1>2. target \in Path
  <2>1. <<moving.from, moving.to>> \in Renames
    BY <1>1, MoveFacts
  <2>2. p = moving.from \/ p \in Below[moving.from]
    BY <1>1, MoveFacts
  <2>. QED  BY <2>1, <2>2, NamespaceAssumption
<1>. HIDE DEF target
<1>3. CASE /\ Readable(p)
           /\ \E keep \in BOOLEAN, how \in Outcomes :
                /\ keep => MayKeep(p)
                /\ Writes(AfterRead(p, keep), DataRead(p, keep), target, Content(p), how)
                /\ moving' = IF how = "done" THEN [moving EXCEPT !.copied = p] ELSE Idle
  <2>1. PICK keep \in BOOLEAN, how \in Outcomes :
                /\ keep => MayKeep(p)
                /\ Writes(AfterRead(p, keep), DataRead(p, keep), target, Content(p), how)
                /\ moving' = IF how = "done" THEN [moving EXCEPT !.copied = p] ELSE Idle
    BY <1>3
  <2>2. /\ Content(p) \in Data
        /\ Content(p) = IF Visible(p) = None THEN Empty ELSE Visible(p)
    BY <1>1, <1>3, ContentIsVisible
  <2>3. /\ AfterRead(p, keep) \in Index /\ DataRead(p, keep) \in [Path -> Data]
        /\ Quiet(AfterRead(p, keep), DataRead(p, keep))
    BY <1>1, <2>1, ReadQuiet
  <2>4. StateOK' /\ FS!FSWrites(target, Content(p))
    BY <1>1, <1>2, <2>1, <2>2, <2>3, WritesStep DEF Quiet
  <2>5. MoveOK'
    <3>1. CASE moving' = Idle
      BY <1>1, <3>1, NotMoving
    <3>2. CASE moving' # Idle
      <4>1. moving \in Move /\ moving' = [moving EXCEPT !.copied = p]
        BY <1>1, <2>1, <3>2, MoveFacts
      <4>2. moving' \in Move
        BY <4>1 DEF Move
      <4>3. /\ moving'.from = moving.from /\ moving'.to = moving.to
            /\ moving'.dirs = moving.dirs /\ moving'.files = moving.files
            /\ moving'.copied = p
        BY <4>1 DEF Move
      <4>. QED  BY <1>1, <4>2, <4>3, MoveFacts DEF MoveOK, MoveInside
    <3>. QED  BY <3>1, <3>2
  <2>. QED  BY <1>2, <2>2, <2>4, <2>5 DEF IInv, CopiesTo, target
<1>4. CASE /\ entries' = Stated(p)
           /\ moving' = Idle
           /\ ((~Readable(p) \/ BelowFile(target)) /\ UNCHANGED mishaps) \/ Mishap
           /\ UNCHANGED <<bucket, data>>
  <2>1. mishaps' \in 0 .. Mishaps
    BY <1>1, <1>4, ConstantFacts DEF Mishap, StateOK
  <2>2. data \in [Path -> Data]
    BY <1>1 DEF StateOK
  <2>3. StateOK' /\ FS!FSReads
    BY <1>1, <1>4, <2>1, <2>2, StatedQuiet, QuietStep
  <2>. QED  BY <1>1, <1>2, <1>4, <2>3, NotMoving DEF IInv, CopiesTo, target
<1>. QED  BY <1>3, <1>4 DEF RenameCopy, target

LEMMA RenameDeleteStep ==
    ASSUME IInv, RenameDelete
    PROVE  IInv' /\ moving.copied \in Path /\ FS!FSWrites(moving.copied, None)
<1>1. StateOK /\ MoveOK /\ moving # Idle /\ moving.copied # <<>>
  BY DEF IInv, RenameDelete
<1>2. moving.copied \in Path
  BY <1>1, MoveFacts
<1>3. PICK how \in Outcomes :
        /\ Deletes(moving.copied, how)
        /\ moving' = IF how = "done"
                     THEN [moving EXCEPT !.copied = <<>>, !.files[moving.copied] = @ - 1]
                     ELSE Idle
  BY DEF RenameDelete
<1>4. StateOK' /\ FS!FSWrites(moving.copied, None)
  BY <1>1, <1>2, <1>3, DeletesStep
<1>5. MoveOK'
  <2>1. CASE moving' = Idle
    BY <1>1, <2>1, NotMoving
  <2>2. CASE moving' # Idle
    <3>. DEFINE files == [moving.files EXCEPT ![moving.copied] = @ - 1]
    <3>0. /\ moving \in Move /\ moving.files \in [Path -> Nat]
          /\ moving.files[moving.copied] > 0
      BY <1>1, MoveFacts
    <3>1. moving' = [moving EXCEPT !.copied = <<>>, !.files = files]
      BY <1>3, <2>2, <3>0 DEF Move
    <3>2. files \in [Path -> Nat] /\ \A p \in Path : files[p] > 0 => moving.files[p] > 0
      BY <1>2, <3>0
    <3>. HIDE DEF files
    <3>3. moving' \in Move
      BY <3>0, <3>1, <3>2 DEF Move
    <3>4. /\ moving'.from = moving.from /\ moving'.to = moving.to
          /\ moving'.dirs = moving.dirs /\ moving'.files = files
          /\ moving'.copied = <<>>
      BY <3>0, <3>1 DEF Move
    <3>. QED  BY <1>1, <3>2, <3>3, <3>4, MoveFacts DEF MoveOK, MoveInside
  <2>. QED  BY <2>1, <2>2
<1>. QED  BY <1>2, <1>4, <1>5 DEF IInv

LEMMA RenameEndStep ==
    ASSUME IInv, RenameEnd
    PROVE  IInv' /\ FS!FSReads
<1>1. /\ StateOK /\ MoveOK /\ moving # Idle /\ moving' = Idle
      /\ entries \in Index /\ data \in [Path -> Data] /\ mishaps \in 0 .. Mishaps
  BY DEF IInv, StateOK, RenameEnd
<1>2. UNCHANGED <<tree, store, folders, data, mishaps>>
  BY DEF RenameEnd, bucket
<1>3. /\ entries' \in Index
      /\ \A q \in Path : entries'[q] = NoEntry \/ entries'[q] = entries[q]
  BY <1>1 DEF RenameEnd, Index
<1>4. ASSUME NEW q \in Path
      PROVE  SettlesAt(q) /\ AgreesAt(q)'
  <2>1. CASE entries'[q] = NoEntry
    BY <1>1, <1>2, <2>1, GoneSettles DEF AgreesAt
  <2>2. CASE entries'[q] = entries[q]
    BY <1>1, <1>2, <2>2, UntouchedSettles, RefreshedAgrees DEF Untouched
  <2>. QED  BY <1>3, <2>1, <2>2
<1>5. StateOK'
  BY <1>1, <1>2, <1>3, <1>4 DEF StateOK, CacheAgrees, AgreesAt
<1>. QED  BY <1>1, <1>4, <1>5, AbstractReads, NotMoving DEF IInv

-----------------------------------------------------------------------------
(* The theorems.                                                           *)

LEMMA InitInv ==
    ASSUME Init
    PROVE  IInv /\ FS!FSInit
<1>1. /\ store \in [Path -> Value] /\ entries \in Index /\ data \in [Path -> Data]
      /\ mishaps \in 0 .. Mishaps /\ tree \in BOOLEAN /\ folders \subseteq Path
  BY ConstantFacts DEF Init, Value, Index
<1>2. \A p \in Path : entries[p] = NoEntry /\ store[p] = None
  BY DEF Init
<1>3. StateOK
  BY <1>1, <1>2 DEF StateOK, CacheAgrees
<1>4. MoveOK
  BY DEF Init, MoveOK, MoveInside
<1>5. \A p \in Path : Visible(p) \in Value /\ InDoubt(p) = {}
  BY <1>2 DEF Visible, HasData, Known, InDoubt, IsDirty, Value
<1>6. FS!FSInit
  BY <1>5 DEF FS!FSInit, FS!Value, Value
<1>. QED  BY <1>3, <1>4, <1>6 DEF IInv

LEMMA Stutters ==
    ASSUME IInv, UNCHANGED vars
    PROVE  /\ IInv'
           /\ UNCHANGED <<[p \in Path |-> Visible(p)], [p \in Path |-> InDoubt(p)]>>
<1>1. UNCHANGED <<tree, store, folders, entries, data, moving, mishaps>>
  BY DEF vars, bucket, cache
<1>2. IInv'
  BY <1>1 DEF IInv, StateOK, CacheAgrees, MoveOK, MoveInside
<1>3. \A p \in Path : Visible(p)' = Visible(p) /\ InDoubt(p)' = InDoubt(p)
  BY <1>1 DEF Visible, InDoubt, HasData, Known, IsDirty, Intended
<1>. QED  BY <1>2, <1>3

LEMMA AbstractNext ==
    ASSUME IInv', FS!FSReads \/ \E p \in Path : \E v \in Value : FS!FSWrites(p, v)
    PROVE  FS!FSNext
<1>1. \A q \in Path : Visible(q)' \in Value /\ InDoubt(q)' \in SUBSET Value
  BY ValueTypesNext DEF IInv
<1>. QED  BY <1>1 DEF FS!FSNext, FS!Value, Value

LEMMA NextStep ==
    ASSUME IInv, Next
    PROVE  IInv' /\ FS!FSNext
<1>0. /\ store \in [Path -> Value] /\ data \in [Path -> Data]
      /\ None \in Value /\ Data \subseteq Value /\ Named \subseteq Path
  BY NamespaceAssumption DEF IInv, StateOK, Value
<1>1. ASSUME NEW p \in Path, Stat(p) \/ Read(p) \/ FlushPath(p)
      PROVE  IInv' /\ FS!FSNext
  <2>1. Intended(p) \in Value
    BY <1>0 DEF Intended
  <2>. QED  BY <1>1, <2>1, StatStep, ReadStep, FlushPathStep, AbstractNext
<1>2. ASSUME NEW p \in Named, DeletePath(p) \/ \E d \in Data : WriteFile(p, d)
      PROVE  IInv' /\ FS!FSNext
  BY <1>0, <1>2, DeletePathStep, WriteFileStep, AbstractNext
<1>3. ASSUME NEW d \in Dir, ListDir(d)
      PROVE  IInv' /\ FS!FSNext
  BY <1>3, ListDirStep, AbstractNext
<1>4. ASSUME NEW r \in Renames, RenameStart(r[1], r[2])
      PROVE  IInv' /\ FS!FSNext
  BY <1>4, RenamePair, RenameStartStep, AbstractNext
<1>5. ASSUME NEW p \in Path, RenameList(p)
      PROVE  IInv' /\ FS!FSNext
  BY <1>5, RenameListStep, AbstractNext
<1>6. ASSUME NEW p \in Path, RenameCopy(p)
      PROVE  IInv' /\ FS!FSNext
  <2>1. IInv' /\ CopiesTo(p, Target(moving.from, moving.to, p))
        /\ Target(moving.from, moving.to, p) \in Path
    BY <1>6, RenameCopyStep
  <2>2. (IF Visible(p) = None THEN Empty ELSE Visible(p)) \in Value
    BY <1>0, ConstantFacts DEF Visible, Value
  <2>. QED  BY <2>1, <2>2, AbstractNext DEF CopiesTo
<1>7. CASE RenameDelete
  BY <1>0, <1>7, RenameDeleteStep, AbstractNext
<1>8. CASE RenameEnd
  BY <1>8, RenameEndStep, AbstractNext
<1>. QED  BY <1>1, <1>2, <1>3, <1>4, <1>5, <1>6, <1>7, <1>8 DEF Next, Rename

(* The invariant is inductive.                                             *)
THEOREM Invariant == Spec => []IInv
<1>1. Init => IInv
  BY InitInv
<1>2. IInv /\ [Next]_vars => IInv'
  BY NextStep, Stutters
<1>. QED  BY <1>1, <1>2, PTL DEF Spec

(* Type correctness: a rename never has a path in its lists that lies      *)
(* outside the renamed directory, and what it counts never goes below zero *)
(* (engine.rs:363-402).                                                    *)
THEOREM TypeCorrect == Spec => []TypeOK
<1>1. IInv => TypeOK
  BY DEF IInv, StateOK, MoveOK, TypeOK, Index
<1>. QED  BY <1>1, Invariant, PTL

(* Whatever calls fail, in whatever order: a data file served for a clean  *)
(* entry has the object's bytes (engine.rs:136-150, 189-200, 280-308).     *)
THEOREM CacheAgreesAlways == Spec => []CacheAgrees
<1>1. IInv => CacheAgrees
  BY DEF IInv, StateOK
<1>. QED  BY <1>1, Invariant, PTL

(* The engine, over a directory tree and over an object store, implements  *)
(* the file system of FileSystem.                                          *)
THEOREM Refinement == Spec => ImplementsFileSystem
<1>1. Init => FS!FSInit
  BY InitInv
<1>2. IInv /\ [Next]_vars
        => [FS!FSNext]_<<[p \in Path |-> Visible(p)], [p \in Path |-> InDoubt(p)]>>
  BY NextStep, Stutters
<1>. QED  BY <1>1, <1>2, Invariant, PTL DEF Spec, ImplementsFileSystem, FS!FSSpec

(* Each call is the step of FileSystem it should be.                       *)
THEOREM CallsRefine == Spec => CallsDoAsAsked
<1>1. ASSUME IInv
      PROVE  DoesAsAsked
  <2>0. Named \subseteq Path
    BY NamespaceAssumption
  <2>1. ASSUME Looks
        PROVE  FS!FSReads
    <3>1. ASSUME NEW r \in Renames, RenameStart(r[1], r[2])
          PROVE  FS!FSReads
      BY <1>1, <3>1, RenamePair, RenameStartStep
    <3>. QED  BY <1>1, <2>1, <3>1, StatStep, ReadStep, RenameListStep, ListDirStep,
                 RenameEndStep DEF Looks
  <2>. QED  BY <1>1, <2>0, <2>1, WriteFileStep, DeletePathStep, FlushPathStep,
               RenameCopyStep, RenameDeleteStep DEF DoesAsAsked
<1>2. IInv => [UNCHANGED vars \/ DoesAsAsked]_vars
  BY <1>1
<1>. QED  BY <1>2, Invariant, PTL DEF CallsDoAsAsked

-----------------------------------------------------------------------------
(* What list_dir answers and what a reader finds agree.                    *)

(* The entry of a file without its bytes stands for an object, or for a    *)
(* directory of a tree.                                                    *)
Stands(es, q) ==
    Known(es, q) /\ es[q].kind = "file"
        => es[q].cached \/ es[q].dirty \/ store[q] # None \/ q \in folders

AllStand == \A q \in Path : Stands(entries, q)

-----------------------------------------------------------------------------
(* The index as stat, list_dir and read_range leave it.                    *)

LEMMA StatedStands ==
    ASSUME StateOK, AllStand, NEW p \in Path, NEW q \in Path
    PROVE  Stands(Stated(p), q)
<1>. entries \in Index
  BY DEF StateOK
<1>1. CASE Known(entries, p) \/ Kind(p) \notin Kinds \/ q # p
  <2>1. Stated(p)[q] = entries[q]
    BY <1>1 DEF Stated, Index
  <2>. QED  BY <2>1 DEF AllStand, Stands, Known
<1>2. CASE ~Known(entries, p) /\ Kind(p) \in Kinds /\ q = p
  <2>1. Stated(p)[q] = Clean(Kind(p), FALSE)
    BY <1>2 DEF Stated, Index
  <2>2. Kind(p) = "file" => store[p] # None \/ p \in folders
    BY <1>2 DEF Kind, Finds
  <2>. QED  BY <1>2, <2>1, <2>2, CleanType DEF Stands
<1>. QED  BY <1>1, <1>2

LEMMA ImportedStands ==
    ASSUME StateOK, AllStand, NEW d \in Dir,
           NEW some \in SUBSET Importable(d), NEW whole \in SUBSET some, NEW q \in Path
    PROVE  Stands(Imported(some, whole), q)
<1>1. CASE q \in some
  <2>1. store[q] # None
    BY <1>1, ImportableFacts, ConstantFacts
  <2>. QED  BY <2>1 DEF Stands
<1>2. CASE q \notin some
  <2>1. Imported(some, whole)[q] = entries[q]
    BY <1>2 DEF Imported
  <2>. QED  BY <2>1 DEF AllStand, Stands, Known
<1>. QED  BY <1>1, <1>2

LEMMA ReadStands ==
    ASSUME StateOK, AllStand, NEW p \in Path, NEW keep \in BOOLEAN, NEW q \in Path
    PROVE  Stands(AfterRead(p, keep), q)
<1>. entries \in Index
  BY DEF StateOK
<1>1. CASE keep /\ q = p
  <2>1. AfterRead(p, keep)[q] = Clean("file", TRUE)
    BY <1>1 DEF AfterRead, Index
  <2>. QED  BY <2>1, CleanType DEF Stands, Kinds
<1>2. CASE keep /\ q # p
  <2>1. AfterRead(p, keep)[q] = entries[q]
    BY <1>2 DEF AfterRead, Index
  <2>. QED  BY <2>1 DEF AllStand, Stands, Known
<1>3. CASE ~keep
  BY <1>3, StatedStands DEF AfterRead
<1>. QED  BY <1>1, <1>2, <1>3

(* A step that leaves the bucket alone.                                    *)
LEMMA SameBucketStands ==
    ASSUME UNCHANGED bucket, NEW es, entries' = es, \A q \in Path : Stands(es, q)
    PROVE  AllStand'
BY DEF AllStand, Stands, Known, bucket

LEMMA ListsStand ==
    ASSUME StateOK, AllStand, NEW d \in Dir, Lists(d) \/ ListFails(d)
    PROVE  AllStand'
<1>1. CASE Lists(d)
  <2>1. /\ entries' = Imported(Importable(d), Prefetched(d)) /\ UNCHANGED bucket
        /\ Importable(d) \in SUBSET Importable(d)
        /\ Prefetched(d) \in SUBSET Importable(d)
    BY <1>1, ImportableFacts DEF Lists, Listed
  <2>2. \A q \in Path : Stands(Imported(Importable(d), Prefetched(d)), q)
    BY <2>1, ImportedStands
  <2>. QED  BY <2>1, <2>2, SameBucketStands
<1>2. CASE ListFails(d)
  <2>1. UNCHANGED bucket
    BY <1>2 DEF ListFails
  <2>2. PICK some \in SUBSET Importable(d) :
            \E whole \in SUBSET some : entries' = Imported(some, whole)
    BY <1>2 DEF ListFails
  <2>3. PICK whole \in SUBSET some : entries' = Imported(some, whole)
    BY <2>2
  <2>4. \A q \in Path : Stands(Imported(some, whole), q)
    BY ImportedStands
  <2>. QED  BY <2>1, <2>3, <2>4, SameBucketStands
<1>. QED  BY <1>1, <1>2

-----------------------------------------------------------------------------
(* Exports.                                                                *)

LEMMA WritesStand ==
    ASSUME StateOK, NEW es \in Index, \A q \in Path : Stands(es, q),
           NEW ds, NEW t \in Path, NEW d, NEW how \in Outcomes, Writes(es, ds, t, d, how)
    PROVE  AllStand'
<1>1. /\ entries' = [es EXCEPT ![t] = IF how = "done" THEN Clean("file", TRUE) ELSE Dirty]
      /\ folders \subseteq folders'
      /\ \A q \in Path \ {t} : store'[q] = store[q]
  BY DEF Writes, Exports, PutObject, StateOK
<1>2. ASSUME NEW q \in Path \ {t}
      PROVE  Stands(entries, q)'
  <2>1. entries'[q] = es[q]
    BY <1>1 DEF Index
  <2>. QED  BY <1>1, <2>1 DEF Stands, Known
<1>3. Stands(entries, t)'
  <2>1. entries'[t] = IF how = "done" THEN Clean("file", TRUE) ELSE Dirty
    BY <1>1 DEF Index
  <2>2. entries'[t].cached
    BY <2>1, CleanType, DirtyType DEF Kinds
  <2>. QED  BY <2>2 DEF Stands
<1>. QED  BY <1>2, <1>3 DEF AllStand

LEMMA DeletesStand ==
    ASSUME StateOK, AllStand, NEW p \in Path, NEW how \in Outcomes, Deletes(p, how)
    PROVE  AllStand'
<1>1. /\ entries' = [entries EXCEPT ![p] =
                IF how = "done" THEN NoEntry ELSE Tombstone(entries[p])]
      /\ folders' = folders /\ \A q \in Path \ {p} : store'[q] = store[q]
      /\ entries \in Index
  BY DEF Deletes, RemoveObject, StateOK
<1>2. ASSUME NEW q \in Path \ {p}
      PROVE  Stands(entries, q)'
  <2>1. entries'[q] = entries[q]
    BY <1>1 DEF Index
  <2>. QED  BY <1>1, <2>1 DEF AllStand, Stands, Known
<1>3. Stands(entries, p)'
  <2>1. entries'[p] = IF how = "done" THEN NoEntry ELSE Tombstone(entries[p])
    BY <1>1 DEF Index
  <2>2. entries[p] \in Entry \cup {NoEntry}
    BY <1>1 DEF Index
  <2>3. entries'[p] = NoEntry \/ entries'[p].deleted
    BY <2>1, <2>2, TombstoneType
  <2>. QED  BY <2>3 DEF Stands, Known
<1>. QED  BY <1>2, <1>3 DEF AllStand

LEMMA ConflictStands ==
    ASSUME StateOK, AllStand, NEW p \in Path, Conflicts(p)
    PROVE  AllStand'
<1>1. /\ entries' = [entries EXCEPT ![p] = Clean("file", FALSE)]
      /\ UNCHANGED bucket /\ store[p] # None /\ entries \in Index
  BY ConstantFacts DEF Conflicts, StateOK
<1>2. ASSUME NEW q \in Path
      PROVE  Stands([entries EXCEPT ![p] = Clean("file", FALSE)], q)
  <2>1. CASE q = p
    BY <1>1, <2>1 DEF Stands
  <2>2. CASE q # p
    <3>1. [entries EXCEPT ![p] = Clean("file", FALSE)][q] = entries[q]
      BY <1>1, <2>2 DEF Index
    <3>. QED  BY <3>1 DEF AllStand, Stands, Known
  <2>. QED  BY <2>1, <2>2
<1>. QED  BY <1>1, <1>2, SameBucketStands

LEMMA FlushStands ==
    ASSUME StateOK, AllStand, NEW p \in Path, FlushPath(p)
    PROVE  AllStand'
<1>1. CASE Conflicts(p)
  BY <1>1, ConflictStands
<1>2. CASE \E how \in Outcomes : Deletes(p, how)
  BY <1>2, DeletesStand
<1>3. CASE \E how \in Outcomes : Writes(entries, data, p, data[p], how)
  BY <1>3, WritesStand DEF StateOK, AllStand
<1>. QED  BY <1>1, <1>2, <1>3 DEF FlushPath

LEMMA CopyStands ==
    ASSUME IInv, AllStand, NEW p \in Path, RenameCopy(p)
    PROVE  AllStand'
<1>. DEFINE target == Target(moving.from, moving.to, p)
<1>1. StateOK /\ target \in Path
  BY RenameCopyStep DEF IInv
<1>. HIDE DEF target
<1>2. CASE \E keep \in BOOLEAN, how \in Outcomes :
                /\ keep => MayKeep(p)
                /\ Writes(AfterRead(p, keep), DataRead(p, keep), target, Content(p), how)
  <2>1. PICK keep \in BOOLEAN, how \in Outcomes :
                /\ keep => MayKeep(p)
                /\ Writes(AfterRead(p, keep), DataRead(p, keep), target, Content(p), how)
    BY <1>2
  <2>2. AfterRead(p, keep) \in Index /\ \A q \in Path : Stands(AfterRead(p, keep), q)
    BY <1>1, <2>1, ReadQuiet, ReadStands
  <2>. QED  BY <1>1, <2>1, <2>2, WritesStand
<1>3. CASE entries' = Stated(p) /\ UNCHANGED bucket
  BY <1>1, <1>3, StatedStands, SameBucketStands
<1>. QED  BY <1>2, <1>3 DEF RenameCopy, target

-----------------------------------------------------------------------------
LEMMA StepStands ==
    ASSUME IInv, AllStand, [Next]_vars
    PROVE  AllStand'
<1>0. StateOK /\ entries \in Index /\ Named \subseteq Path /\ Path \subseteq Dir
  BY NamespaceAssumption, DirFacts DEF IInv, StateOK
<1>1. ASSUME NEW p \in Path, Stat(p)
      PROVE  AllStand'
  BY <1>0, <1>1, StatedStands, SameBucketStands DEF Stat
<1>2. ASSUME NEW p \in Path, Read(p)
      PROVE  AllStand'
  BY <1>0, <1>2, ReadStands, SameBucketStands DEF Read
<1>3. ASSUME NEW p \in Path, FlushPath(p)
      PROVE  AllStand'
  BY <1>0, <1>3, FlushStands
<1>4. ASSUME NEW p \in Named, DeletePath(p)
      PROVE  AllStand'
  BY <1>0, <1>4, DeletesStand DEF DeletePath
<1>5. ASSUME NEW p \in Named, NEW d \in Data, WriteFile(p, d)
      PROVE  AllStand'
  BY <1>0, <1>5, WritesStand DEF WriteFile, AllStand
<1>6. ASSUME NEW d \in Dir, ListDir(d)
      PROVE  AllStand'
  BY <1>0, <1>6, ListsStand DEF ListDir
<1>7. ASSUME NEW r \in Renames, RenameStart(r[1], r[2])
      PROVE  AllStand'
  BY <1>0, <1>7, RenamePair, StatedStands, SameBucketStands DEF RenameStart
<1>8. ASSUME NEW p \in Path, RenameList(p)
      PROVE  AllStand'
  BY <1>0, <1>8, ListsStand DEF RenameList
<1>9. CASE RenameDelete
  <2>1. moving.copied \in Path
    BY <1>9, RenameDeleteStep
  <2>. QED  BY <1>0, <1>9, <2>1, DeletesStand DEF RenameDelete
<1>10. CASE RenameEnd
  <2>1. /\ UNCHANGED bucket
        /\ \A q \in Path : entries'[q] = NoEntry \/ entries'[q] = entries[q]
    BY <1>0, <1>10 DEF RenameEnd, Index
  <2>2. \A q \in Path : Stands(entries, q)'
    BY <2>1 DEF AllStand, Stands, Known, bucket
  <2>. QED  BY <2>2 DEF AllStand
<1>11. CASE UNCHANGED vars
  BY <1>11, SameBucketStands DEF vars, cache, AllStand
<1>. QED  BY <1>1, <1>2, <1>3, <1>4, <1>5, <1>6, <1>7, <1>8, <1>9, <1>10, <1>11, CopyStands
          DEF Next, Rename

(* One directory's listing.                                                *)
LEMMA ListingAgrees ==
    ASSUME StateOK, AllStand, NEW d \in Dir, NEW p \in Child[d]
    PROVE  p \in FilesListed(d) <=> Visible(p) # None \/ MadeFile(p)
<1>0. p \in Path /\ p \in Below[d] /\ data[p] # None /\ data[p] \in Data
  BY DirFacts, ConstantFacts DEF StateOK
<1>1. p \in Importable(d) <=> store[p] # None
  BY <1>0 DEF Importable, ListedBelow, Walked, Lister
<1>2. CASE store[p] # None
  <2>1. p \in Importable(d)
    BY <1>1, <1>2
  <2>2. (p \in Prefetched(d)) \in BOOLEAN
    BY DEF Prefetched
  <2>3. Listed(d)[p] = Clean("file", p \in Prefetched(d))
    BY <1>0, <2>1 DEF Listed, Imported
  <2>4. Known(Listed(d), p)
    BY <2>2, <2>3, CleanType DEF Known, Kinds
  <2>5. p \in FilesListed(d)
    BY <2>1, <2>4 DEF FilesListed, NamesListed
  <2>6. Visible(p) # None
    BY <1>0, <1>2 DEF Visible
  <2>. QED  BY <2>5, <2>6
<1>3. CASE store[p] = None
  <2>1. p \notin Importable(d) /\ Listed(d)[p] = entries[p]
    BY <1>0, <1>1, <1>3 DEF Listed, Imported
  <2>2. p \in FilesListed(d) <=> Known(entries, p) /\ entries[p].kind = "file"
    BY <2>1 DEF FilesListed, NamesListed, Known
  <2>3. Visible(p) # None <=> HasData(p) /\ entries[p].kind = "file"
    BY <1>0, <1>3 DEF Visible
  <2>4. Known(entries, p) /\ entries[p].kind = "file" => HasData(p) \/ p \in folders
    BY <1>0, <1>3 DEF AllStand, Stands, HasData
  <2>5. HasData(p) => Known(entries, p)
    BY DEF HasData
  <2>. QED  BY <2>2, <2>3, <2>4, <2>5 DEF MadeFile
<1>. QED  BY <1>2, <1>3

(* What list_dir answers is what a reader finds: every file, and no other  *)
(* but the directories stat took for files (engine.rs:155-260).            *)
THEOREM ListingTrueAlways == Spec => []ListingTrue
<1>1. Init => AllStand
  BY DEF Init, AllStand, Stands, Known
<1>2. IInv /\ AllStand /\ [Next]_vars => AllStand'
  BY StepStands
<1>3. IInv /\ AllStand => ListingTrue
  <2>. SUFFICES ASSUME IInv, AllStand, NEW d \in Dir
               PROVE  FilesListed(d) = {p \in Child[d] : Visible(p) # None \/ MadeFile(p)}
    BY DEF ListingTrue
  <2>1. StateOK /\ FilesListed(d) \subseteq Child[d]
    BY DEF IInv, FilesListed, NamesListed
  <2>. QED  BY <2>1, ListingAgrees
<1>. QED  BY <1>1, <1>2, <1>3, Invariant, PTL DEF Spec

(* A directory with a file somewhere below it is in the listing of the     *)
(* directory it lies in, when the bucket is a tree (engine.rs:155-260,     *)
(* local.rs:35-67).                                                        *)
THEOREM TreeListsDirsAlways == Spec => []TreeListsDirs
<1>1. ASSUME IInv, tree, NEW d \in Dir, NEW q \in Child[d], NEW p \in Below[q], Visible(p) # None
      PROVE  q \in DirsListed(d)
  <2>1. q \in Below[d] /\ q \in Dir /\ p \in Path
    BY <1>1, DirFacts
  <2>2. p \in Below[d]
    BY <2>1, BelowTransitive
  <2>3. Known(entries, p) \/ store[p] # None
    BY <1>1 DEF Visible, HasData
  <2>4. p \in ListedBelow(d) \/ Known(entries, p)
    BY <1>1, <2>1, <2>2, <2>3 DEF ListedBelow, Walked
  <2>. QED  BY <2>4 DEF DirsListed
<1>2. IInv => TreeListsDirs
  BY <1>1 DEF TreeListsDirs
<1>. QED  BY <1>2, Invariant, PTL

-----------------------------------------------------------------------------
(* A rename that stops anywhere loses no content, and one that succeeds    *)
(* has moved every file of its directory that the cache knows.             *)

(* No file or directory is renamed to itself: the code would copy it onto  *)
(* itself and then delete it.                                              *)
Moves == \A r \in Renames : r[1] # r[2]

(* What the copy has established when the delete comes.                    *)
CopyOK ==
    moving # Idle /\ moving.copied # <<>> =>
        /\ moving.dirs = Nothing
        /\ store[moving.copied] # None =>
            store[Target(moving.from, moving.to, moving.copied)] = Visible(moving.copied)

(* KeepsContent, of one step.                                              *)
Keeps ==
    \A p \in Path :
        moving # Idle /\ store[p] # None /\ store'[p] = None
            => store'[Target(moving.from, moving.to, p)] = Visible(p)

-----------------------------------------------------------------------------
LEMMA TargetElsewhere ==
    ASSUME NEW from \in Path, NEW to \in Path, NEW p \in Path, from # to,
           p = from \/ p \in Below[from]
    PROVE  Target(from, to, p) # p
<1>. DEFINE rest == SubSeq(p, Len(from) + 1, Len(p))
<1>1. p \in Seq(STRING) /\ from \in Seq(STRING) /\ to \in Seq(STRING)
  BY NamespaceAssumption
<1>2. Len(p) \in Nat /\ Len(from) \in Nat /\ Len(to) \in Nat
  BY <1>1
<1>3. Len(from) <= Len(p) /\ \A i \in 1 .. Len(from) : from[i] = p[i]
  BY DirFacts DEF Below
<1>4. rest \in Seq(STRING) /\ Len(rest) = Len(p) - Len(from)
  BY <1>1, <1>2, <1>3, SubSeqProperties
<1>. HIDE DEF rest
<1>5. ASSUME to \o rest = p
      PROVE  FALSE
  <2>1. Len(to) + Len(rest) = Len(p)
    BY <1>1, <1>4, <1>5, ConcatProperties
  <2>2. Len(to) = Len(from)
    BY <1>2, <1>4, <2>1
  <2>3. \A i \in 1 .. Len(to) : to[i] = p[i]
    BY <1>1, <1>4, <1>5, ConcatProperties
  <2>4. to = from
    BY <1>1, <1>3, <2>2, <2>3, SeqEqual
  <2>. QED  BY <2>4
<1>. QED  BY <1>5 DEF Target, rest

(* The target of a rename's file.                                          *)
LEMMA MovesElsewhere ==
    ASSUME Moves, MoveOK, moving # Idle, NEW p \in Path, moving.files[p] > 0
    PROVE  /\ Target(moving.from, moving.to, p) \in Path
           /\ Target(moving.from, moving.to, p) # p
<1>1. /\ moving.from \in Path /\ moving.to \in Path
      /\ <<moving.from, moving.to>> \in Renames
      /\ p = moving.from \/ p \in Below[moving.from]
  BY MoveFacts
<1>2. moving.from # moving.to
  BY <1>1 DEF Moves
<1>3. Target(moving.from, moving.to, p) \in Path
  BY <1>1, NamespaceAssumption
<1>. QED  BY <1>1, <1>2, <1>3, TargetElsewhere

(* Reading a file does not change what a reader finds, and what was read   *)
(* is that.                                                                *)
LEMMA ReadKeepsVisible ==
    ASSUME StateOK, NEW p \in Path, NEW keep \in BOOLEAN, keep => MayKeep(p),
           Readable(p), store[p] # None, store'[p] = store[p],
           entries'[p] = AfterRead(p, keep)[p], data'[p] = DataRead(p, keep)[p]
    PROVE  Visible(p)' = Content(p)
<1>1. entries \in Index /\ data \in [Path -> Data] /\ None \notin Data
  BY ConstantFacts DEF StateOK
<1>2. CASE keep
  <2>1. entries'[p] = Clean("file", TRUE) /\ data'[p] = store[p]
    BY <1>1, <1>2 DEF AfterRead, DataRead, Index
  <2>2. Content(p) = store[p]
    BY <1>2 DEF MayKeep, Content
  <2>3. Visible(p)' = store[p]
    BY <2>1 DEF Visible
  <2>. QED  BY <2>2, <2>3
<1>3. CASE ~keep
  <2>1. entries'[p] = Stated(p)[p] /\ data'[p] = data[p]
    BY <1>3 DEF AfterRead, DataRead
  <2>2. CASE Known(entries, p)
    <3>1. entries'[p] = entries[p]
      BY <2>1, <2>2 DEF Stated
    <3>2. Visible(p)' = Visible(p)
      BY <2>1, <3>1 DEF Visible, HasData, Known
    <3>3. Visible(p) # None
      BY <1>1 DEF Visible
    <3>. QED  BY <3>2, <3>3, ContentIsVisible
  <2>3. CASE ~Known(entries, p)
    <3>1. ~HasData(p) /\ Content(p) = store[p]
      BY <2>3 DEF HasData, Content
    <3>2. Kind(p) = "file" /\ Kind(p) \in Kinds
      BY DEF Readable, Kinds
    <3>3. entries'[p] = Clean("file", FALSE)
      BY <1>1, <2>1, <2>3, <3>2 DEF Stated, Index
    <3>4. Visible(p)' = store[p]
      BY <3>3, CleanType DEF Visible, HasData, Known, Kinds
    <3>. QED  BY <3>1, <3>4
  <2>. QED  BY <2>2, <2>3
<1>. QED  BY <1>2, <1>3

-----------------------------------------------------------------------------
LEMMA CopyKeeps ==
    ASSUME Moves, IInv, NEW p \in Path, RenameCopy(p)
    PROVE  CopyOK' /\ Keeps
<1>. DEFINE target == Target(moving.from, moving.to, p)
<1>1. /\ StateOK /\ MoveOK /\ moving # Idle /\ moving.files[p] > 0
      /\ moving.dirs = Nothing /\ store \in [Path -> Value]
  BY DEF IInv, StateOK, RenameCopy
<1>2. target \in Path /\ target # p
  BY <1>1, MovesElsewhere
<1>. HIDE DEF target
<1>3. CASE /\ Readable(p)
           /\ \E keep \in BOOLEAN, how \in Outcomes :
                /\ keep => MayKeep(p)
                /\ Writes(AfterRead(p, keep), DataRead(p, keep), target, Content(p), how)
                /\ moving' = IF how = "done" THEN [moving EXCEPT !.copied = p] ELSE Idle
  <2>1. PICK keep \in BOOLEAN, how \in Outcomes :
                /\ keep => MayKeep(p)
                /\ Writes(AfterRead(p, keep), DataRead(p, keep), target, Content(p), how)
                /\ moving' = IF how = "done" THEN [moving EXCEPT !.copied = p] ELSE Idle
    BY <1>3
  <2>2. /\ Content(p) \in Data /\ Empty \in Data /\ None \notin Data
        /\ AfterRead(p, keep) \in Index /\ DataRead(p, keep) \in [Path -> Data]
    BY <1>1, <1>3, <2>1, ContentIsVisible, ReadQuiet, ConstantFacts
  <2>3. /\ store' = [store EXCEPT ![target] =
                CASE how = "before" -> @ [] how = "torn" -> Empty [] OTHER -> Content(p)]
        /\ entries' = [AfterRead(p, keep) EXCEPT ![target] =
                IF how = "done" THEN Clean("file", TRUE) ELSE Dirty]
        /\ data' = [DataRead(p, keep) EXCEPT ![target] = Content(p)]
    BY <2>1 DEF Writes, Exports, PutObject
  <2>4. /\ \A q \in Path \ {target} : store'[q] = store[q]
        /\ store'[target] = None => store[target] = None
        /\ how = "done" => store'[target] = Content(p)
    BY <1>1, <1>2, <2>2, <2>3
  <2>5. entries'[p] = AfterRead(p, keep)[p] /\ data'[p] = DataRead(p, keep)[p]
    BY <1>2, <2>2, <2>3 DEF Index
  <2>6. Keeps
    BY <2>4 DEF Keeps
  <2>7. CASE how # "done"
    BY <2>1, <2>6, <2>7 DEF CopyOK
  <2>8. CASE how = "done"
    <3>1. moving \in Move /\ moving' = [moving EXCEPT !.copied = p]
      BY <1>1, <2>1, <2>8, MoveFacts
    <3>2. /\ moving'.from = moving.from /\ moving'.to = moving.to
          /\ moving'.dirs = Nothing /\ moving'.copied = p
      BY <1>1, <3>1 DEF Move
    <3>3. Target(moving.from, moving.to, moving.copied)' = target
      BY <3>2 DEF Target, target
    <3>4. store'[p] # None => Visible(p)' = Content(p)
      BY <1>1, <1>2, <1>3, <2>1, <2>4, <2>5, ReadKeepsVisible
    <3>5. Visible(moving.copied)' = Visible(p)'
      BY <3>2 DEF Visible, HasData, Known
    <3>6. store'[p] # None =>
            store'[Target(moving.from, moving.to, moving.copied)'] = Visible(moving.copied)'
      BY <2>4, <2>8, <3>3, <3>4, <3>5
    <3>7. CopyOK'
      BY <3>2, <3>6 DEF CopyOK, Nothing
    <3>. QED  BY <2>6, <3>7
  <2>. QED  BY <2>7, <2>8
<1>4. CASE moving' = Idle /\ UNCHANGED bucket
  BY <1>4 DEF CopyOK, Keeps, bucket
<1>. QED  BY <1>3, <1>4 DEF RenameCopy, target

LEMMA DeleteKeeps ==
    ASSUME Moves, IInv, CopyOK, RenameDelete
    PROVE  CopyOK' /\ Keeps
<1>1. /\ StateOK /\ MoveOK /\ moving # Idle /\ moving.copied # <<>>
      /\ store \in [Path -> Value] /\ moving \in Move
      /\ moving.copied \in Path /\ moving.files[moving.copied] > 0
  BY MoveFacts DEF IInv, StateOK, RenameDelete
<1>2. PICK how \in Outcomes :
        /\ Deletes(moving.copied, how)
        /\ moving' = IF how = "done"
                     THEN [moving EXCEPT !.copied = <<>>, !.files[moving.copied] = @ - 1]
                     ELSE Idle
  BY DEF RenameDelete
<1>3. CopyOK'
  <2>1. moving' = Idle \/ moving'.copied = <<>>
    BY <1>1, <1>2 DEF Move
  <2>. QED  BY <2>1 DEF CopyOK
<1>4. \A q \in Path \ {moving.copied} : store'[q] = store[q]
  BY <1>1, <1>2 DEF Deletes, RemoveObject
<1>5. /\ Target(moving.from, moving.to, moving.copied) \in Path
      /\ Target(moving.from, moving.to, moving.copied) # moving.copied
  BY <1>1, MovesElsewhere
<1>6. store[moving.copied] # None =>
        store'[Target(moving.from, moving.to, moving.copied)] = Visible(moving.copied)
  BY <1>1, <1>4, <1>5 DEF CopyOK
<1>7. Keeps
  BY <1>4, <1>6 DEF Keeps
<1>. QED  BY <1>3, <1>7

LEMMA ListKeeps ==
    ASSUME IInv, CopyOK, NEW d \in Path, RenameList(d)
    PROVE  CopyOK' /\ Keeps
<1>1. moving # Idle /\ moving.dirs[d] > 0 /\ moving \in Move /\ UNCHANGED store
  BY MoveFacts DEF IInv, RenameList, Lists, ListFails, bucket
<1>2. moving.copied = <<>>
  BY <1>1, OnceFacts DEF CopyOK
<1>3. moving' = Idle \/ moving'.copied = moving.copied
  BY <1>1 DEF RenameList, Move
<1>. QED  BY <1>1, <1>2, <1>3 DEF CopyOK, Keeps

LEMMA StepKeepsContent ==
    ASSUME Moves, IInv, CopyOK, [Next]_vars
    PROVE  CopyOK' /\ Keeps
<1>1. ASSUME NEW p \in Path, Stat(p) \/ Read(p) \/ FlushPath(p)
      PROVE  CopyOK' /\ Keeps
  <2>1. moving = Idle /\ moving' = Idle
    BY <1>1 DEF Stat, Read, FlushPath
  <2>. QED  BY <2>1 DEF CopyOK, Keeps
<1>2. ASSUME NEW p \in Named, DeletePath(p) \/ \E d \in Data : WriteFile(p, d)
      PROVE  CopyOK' /\ Keeps
  <2>1. moving = Idle /\ moving' = Idle
    BY <1>2 DEF DeletePath, WriteFile
  <2>. QED  BY <2>1 DEF CopyOK, Keeps
<1>3. ASSUME NEW d \in Dir, ListDir(d)
      PROVE  CopyOK' /\ Keeps
  <2>1. moving = Idle /\ moving' = Idle
    BY <1>3 DEF ListDir
  <2>. QED  BY <2>1 DEF CopyOK, Keeps
<1>4. ASSUME NEW r \in Renames, RenameStart(r[1], r[2])
      PROVE  CopyOK' /\ Keeps
  <2>1. moving = Idle /\ moving'.copied = <<>>
    BY <1>4 DEF RenameStart
  <2>. QED  BY <2>1 DEF CopyOK, Keeps
<1>5. CASE RenameEnd
  <2>1. moving' = Idle /\ UNCHANGED store
    BY <1>5 DEF RenameEnd, bucket
  <2>. QED  BY <2>1 DEF CopyOK, Keeps
<1>6. CASE UNCHANGED vars
  <2>1. UNCHANGED <<moving, store, entries, data>>
    BY <1>6 DEF vars, bucket, cache
  <2>2. CopyOK'
    BY <2>1 DEF CopyOK, Visible, HasData, Known
  <2>. QED  BY <2>1, <2>2 DEF Keeps
<1>. QED  BY <1>1, <1>2, <1>3, <1>4, <1>5, <1>6, CopyKeeps, DeleteKeeps, ListKeeps
          DEF Next, Rename

-----------------------------------------------------------------------------
(* Wherever a rename of one name to another stops, whatever failed: what   *)
(* it removed from the bucket is there under the new name, as a reader     *)
(* found it (engine.rs:363-409).                                           *)
THEOREM RenameKeepsContent == Moves => (Spec => KeepsContent)
<1>. SUFFICES ASSUME Moves
             PROVE  Spec => KeepsContent
  OBVIOUS
<1>1. Init => CopyOK
  BY DEF Init, CopyOK
<1>2. IInv /\ CopyOK /\ [Next]_vars => CopyOK' /\ Keeps
  BY StepKeepsContent
<1>3. KeepsContent <=> [][Keeps]_vars
  BY PTL DEF KeepsContent, Keeps
<1>. QED  BY <1>1, <1>2, <1>3, Invariant, PTL DEF Spec
-----------------------------------------------------------------------------
(* A directory above a path is a path, and of the two names of a rename    *)
(* neither lies in the other.                                              *)
PathsClosed == \A p \in Path : \A n \in 1 .. Len(p) : SubSeq(p, 1, n) \in Path
Apart == \A r \in Renames : r[1] # r[2] /\ r[1] \notin Below[r[2]] /\ r[2] \notin Below[r[1]]

(* While a directory is renamed, each file below the old name that the     *)
(* cache knows is in the list, or will be: its directory, or one above it, *)
(* is still to be listed.                                                  *)
Found(p) == moving.files[p] > 0 \/ \E d \in Path : moving.dirs[d] > 0 /\ p \in Below[d]

KnownFound ==
    moving # Idle /\ moving.kind = "dir" =>
        \A p \in Below[moving.from] : store[p] # None /\ Known(entries, p) => Found(p)

(* MovesWhatItKnows, of one step.                                          *)
EndsMoved ==
    RenameEnd /\ moving.kind = "dir" =>
        \A p \in Below[moving.from] : store[p] # None => ~Known(entries, p)

LEMMA ChildAbove ==
    ASSUME PathsClosed, NEW d \in Path, NEW p \in Below[d], p \notin Child[d]
    PROVE  \E c \in Child[d] : p \in Below[c] /\ c # d
<1>. DEFINE c == SubSeq(p, 1, Len(d) + 1)
<1>1. p \in Path /\ d \in Dir
  BY DirFacts
<1>2. p \in Seq(STRING) /\ d \in Seq(STRING) /\ Len(p) \in Nat /\ Len(d) \in Nat
  BY <1>1, NamespaceAssumption
<1>3. Len(d) < Len(p) /\ \A i \in 1 .. Len(d) : d[i] = p[i]
  BY <1>1 DEF Below
<1>4. Len(p) # Len(d) + 1
  BY <1>1 DEF Child
<1>5. Len(d) + 1 < Len(p) /\ Len(d) + 1 \in 1 .. Len(p)
  BY <1>2, <1>3, <1>4
<1>6. c \in Path
  BY <1>1, <1>5 DEF PathsClosed
<1>7. Len(c) = Len(d) + 1 /\ \A i \in 1 .. Len(d) + 1 : c[i] = p[i]
  BY <1>2, <1>5, SubSeqProperties
<1>. HIDE DEF c
<1>8. c \in Below[d]
  BY <1>1, <1>2, <1>3, <1>6, <1>7 DEF Below
<1>9. c \in Child[d] /\ c # d
  BY <1>1, <1>2, <1>7, <1>8 DEF Child
<1>10. c \in Dir /\ p \in Below[c]
  BY <1>1, <1>2, <1>5, <1>6, <1>7, DirFacts DEF Below
<1>. QED  BY <1>9, <1>10

LEMMA TargetOutside ==
    ASSUME NEW from \in Path, NEW to \in Path, NEW p \in Path,
           from # to, from \notin Below[to], to \notin Below[from],
           p = from \/ p \in Below[from], Target(from, to, p) \in Path
    PROVE  Target(from, to, p) \notin Below[from]
<1>. DEFINE rest == SubSeq(p, Len(from) + 1, Len(p))
<1>1. p \in Seq(STRING) /\ from \in Seq(STRING) /\ to \in Seq(STRING) /\ from \in Dir /\ to \in Dir
  BY NamespaceAssumption, DirFacts
<1>2. Len(p) \in Nat /\ Len(from) \in Nat /\ Len(to) \in Nat
  BY <1>1
<1>3. Len(from) <= Len(p)
  BY <1>1 DEF Below
<1>4. rest \in Seq(STRING)
  BY <1>1, <1>2, <1>3, SubSeqProperties
<1>. DEFINE t == to \o rest
<1>. HIDE DEF rest
<1>5. \A i \in 1 .. Len(to) : t[i] = to[i]
  BY <1>1, <1>4, ConcatProperties
<1>. HIDE DEF t
<1>6. ASSUME t \in Below[from]
      PROVE  FALSE
  <2>1. \A i \in 1 .. Len(from) : from[i] = t[i]
    BY <1>1, <1>6 DEF Below
  <2>2. CASE Len(to) = Len(from)
    <3>1. \A i \in 1 .. Len(to) : to[i] = from[i]
      BY <1>5, <2>1, <2>2
    <3>. QED  BY <1>1, <2>2, <3>1, SeqEqual
  <2>3. CASE Len(to) > Len(from)
    <3>1. \A i \in 1 .. Len(from) : from[i] = to[i]
      BY <1>2, <1>5, <2>1, <2>3
    <3>. QED  BY <1>1, <2>3, <3>1 DEF Below
  <2>4. CASE Len(to) < Len(from)
    <3>1. \A i \in 1 .. Len(to) : to[i] = from[i]
      BY <1>2, <1>5, <2>1, <2>4
    <3>. QED  BY <1>1, <2>4, <3>1 DEF Below
  <2>. QED  BY <1>2, <2>2, <2>3, <2>4
<1>. QED  BY <1>6 DEF Target, rest, t

-----------------------------------------------------------------------------
LEMMA ListFinds ==
    ASSUME PathsClosed, IInv, KnownFound, NEW d \in Path, RenameList(d)
    PROVE  KnownFound'
<1>1. /\ StateOK /\ MoveOK /\ moving # Idle /\ moving.dirs[d] > 0 /\ d \in Dir
      /\ moving \in Move /\ moving.dirs \in [Path -> Nat] /\ moving.files \in [Path -> Nat]
      /\ moving.from \in Path /\ moving.from \in Dir
  BY MoveFacts, DirFacts DEF IInv, RenameList
<1>2. CASE moving' = Idle
  BY <1>2 DEF KnownFound
<1>3. CASE moving' # Idle
  <2>. DEFINE dirs == [p \in Path |-> moving.dirs[p] + DirTimes(d, p) - (IF p = d THEN 1 ELSE 0)]
              files == [p \in Path |-> moving.files[p] + FileTimes(d, p)]
  <2>1. moving' = [moving EXCEPT !.dirs = dirs, !.files = files] /\ Lists(d)
    BY <1>1, <1>3 DEF RenameList, Move
  <2>2. /\ moving'.from = moving.from /\ moving'.kind = moving.kind
        /\ moving'.dirs = dirs /\ moving'.files = files
    BY <1>1, <2>1 DEF Move
  <2>3. /\ store' = store
        /\ \A p \in Path : entries'[p] = Listed(d)[p]
        /\ \A p \in Path \ Importable(d) : entries'[p] = entries[p]
    BY <2>1 DEF Lists, Listed, Imported, bucket
  <2>4. \A p \in Path :
            /\ files[p] \in Nat /\ files[p] >= moving.files[p] /\ files[p] >= FileTimes(d, p)
            /\ p # d => dirs[p] \in Nat
            /\ p # d => dirs[p] >= moving.dirs[p] /\ dirs[p] >= DirTimes(d, p)
    BY <1>1, TimesFacts
  <2>. HIDE DEF dirs, files
  <2>5. ASSUME moving.kind = "dir", NEW p \in Below[moving.from],
               store[p] # None, Known(entries', p)
        PROVE  files[p] > 0 \/ \E c \in Path : dirs[c] > 0 /\ p \in Below[c]
    <3>1. p \in Path
      BY <1>1, DirFacts
    <3>2. CASE p \in Child[d]
      <4>1. p \in Importable(d)
        BY <1>1, <2>5, <3>1, <3>2, DirFacts DEF Importable, ListedBelow, Walked, Lister
      <4>2. p \in FilesListed(d)
        BY <2>3, <2>5, <3>1, <3>2, <4>1 DEF FilesListed, NamesListed, Known
      <4>3. FileTimes(d, p) = 1
        BY <4>2 DEF FileTimes
      <4>4. files[p] > 0
        BY <2>4, <3>1, <4>3
      <4>. QED  BY <4>4
    <3>3. CASE p \in Below[d] \ Child[d]
      <4>1. entries'[p] = entries[p]
        BY <1>1, <2>3, <3>1, <3>3 DEF Importable
      <4>2. Known(entries, p)
        BY <2>5, <4>1 DEF Known
      <4>3. PICK c \in Child[d] : p \in Below[c] /\ c # d
        BY <3>3, ChildAbove
      <4>4. c \in Path /\ c \in DirsListed(d)
        BY <1>1, <4>2, <4>3, DirFacts DEF DirsListed
      <4>5. DirTimes(d, c) > 0 /\ DirTimes(d, c) \in Nat
        BY <4>4 DEF DirTimes
      <4>6. dirs[c] > 0
        BY <2>4, <4>3, <4>4, <4>5
      <4>. QED  BY <4>3, <4>4, <4>6
    <3>4. CASE p \notin Below[d]
      <4>1. entries'[p] = entries[p]
        BY <1>1, <2>3, <3>1, <3>4, DirFacts DEF Importable
      <4>2. Found(p)
        BY <1>1, <2>5, <4>1 DEF KnownFound, Known
      <4>3. CASE moving.files[p] > 0
        <5>1. files[p] > 0
          BY <1>1, <2>4, <3>1, <4>3
        <5>. QED  BY <5>1
      <4>4. ASSUME NEW e \in Path, moving.dirs[e] > 0, p \in Below[e]
            PROVE  dirs[e] > 0
        BY <1>1, <2>4, <3>4, <4>4
      <4>. QED  BY <4>2, <4>3, <4>4 DEF Found
    <3>. QED  BY <3>2, <3>3, <3>4, <1>1, DirFacts
  <2>. QED  BY <2>2, <2>3, <2>5 DEF KnownFound, Found, Known
<1>. QED  BY <1>2, <1>3

LEMMA CopyFinds ==
    ASSUME Apart, IInv, KnownFound, NEW p \in Path, RenameCopy(p)
    PROVE  KnownFound'
<1>. DEFINE target == Target(moving.from, moving.to, p)
<1>1. /\ StateOK /\ MoveOK /\ moving # Idle /\ moving.files[p] > 0 /\ moving \in Move
      /\ moving.from \in Path /\ moving.to \in Path /\ moving.from \in Dir
      /\ <<moving.from, moving.to>> \in Renames
      /\ p = moving.from \/ p \in Below[moving.from]
      /\ entries \in Index /\ store \in [Path -> Value]
  BY MoveFacts, DirFacts DEF IInv, StateOK, RenameCopy
<1>2. target \in Path
  BY RenameCopyStep
<1>3. target \notin Below[moving.from]
  BY <1>1, <1>2, TargetOutside DEF Apart
<1>. HIDE DEF target
<1>4. CASE moving' = Idle
  BY <1>4 DEF KnownFound
<1>5. CASE moving' # Idle
  <2>1. PICK keep \in BOOLEAN, how \in Outcomes :
            /\ keep => MayKeep(p)
            /\ Writes(AfterRead(p, keep), DataRead(p, keep), target, Content(p), how)
            /\ moving' = [moving EXCEPT !.copied = p]
    BY <1>5 DEF RenameCopy, target
  <2>2. /\ moving'.from = moving.from /\ moving'.kind = moving.kind
        /\ moving'.dirs = moving.dirs /\ moving'.files = moving.files
    BY <1>1, <2>1 DEF Move
  <2>3. AfterRead(p, keep) \in Index
    BY <1>1, <2>1, ReadQuiet
  <2>4. \A q \in Path \ {p, target} : entries'[q] = entries[q]
    <3>1. \A q \in Path \ {target} : entries'[q] = AfterRead(p, keep)[q]
      BY <2>1, <2>3 DEF Writes, Exports, Index
    <3>2. \A q \in Path \ {p} : AfterRead(p, keep)[q] = entries[q]
      BY <1>1 DEF AfterRead, Stated, Index
    <3>. QED  BY <3>1, <3>2
  <2>5. \A q \in Path \ {target} : store'[q] = store[q]
    BY <1>1, <2>1 DEF Writes, Exports, PutObject
  <2>6. ASSUME moving.kind = "dir", NEW q \in Below[moving.from],
               store'[q] # None, Known(entries', q)
        PROVE  Found(q)
    <3>1. q \in Path /\ q # target
      BY <1>1, <1>3, DirFacts
    <3>2. CASE q = p
      BY <1>1, <3>2 DEF Found
    <3>3. CASE q # p
      BY <1>1, <2>4, <2>5, <2>6, <3>1, <3>3 DEF KnownFound, Known
    <3>. QED  BY <3>2, <3>3
  <2>. QED  BY <2>2, <2>6 DEF KnownFound, Found, Known
<1>. QED  BY <1>4, <1>5

LEMMA DeleteFinds ==
    ASSUME IInv, KnownFound, RenameDelete
    PROVE  KnownFound'
<1>1. /\ StateOK /\ MoveOK /\ moving # Idle /\ moving \in Move
      /\ moving.copied \in Path /\ moving.files \in [Path -> Nat]
      /\ moving.from \in Path /\ moving.from \in Dir
      /\ entries \in Index /\ store \in [Path -> Value]
  BY MoveFacts, DirFacts DEF IInv, StateOK, RenameDelete
<1>2. CASE moving' = Idle
  BY <1>2 DEF KnownFound
<1>3. CASE moving' # Idle
  <2>. DEFINE files == [moving.files EXCEPT ![moving.copied] = @ - 1]
  <2>1. /\ Deletes(moving.copied, "done")
        /\ moving' = [moving EXCEPT !.copied = <<>>, !.files = files]
    BY <1>1, <1>3 DEF RenameDelete, Move
  <2>2. /\ moving'.from = moving.from /\ moving'.kind = moving.kind
        /\ moving'.dirs = moving.dirs /\ moving'.files = files
    BY <1>1, <2>1 DEF Move
  <2>3. \A q \in Path \ {moving.copied} : files[q] = moving.files[q]
    BY <1>1
  <2>. HIDE DEF files
  <2>4. /\ entries'[moving.copied] = NoEntry
        /\ \A q \in Path \ {moving.copied} :
                entries'[q] = entries[q] /\ store'[q] = store[q]
    BY <1>1, <2>1 DEF Deletes, RemoveObject, Index
  <2>5. ASSUME moving.kind = "dir", NEW q \in Below[moving.from],
               store'[q] # None, Known(entries', q)
        PROVE  files[q] > 0 \/ \E d \in Path : moving.dirs[d] > 0 /\ q \in Below[d]
    <3>1. q \in Path /\ q # moving.copied
      BY <1>1, <2>4, <2>5, DirFacts DEF Known
    <3>2. Found(q)
      BY <1>1, <2>4, <2>5, <3>1 DEF KnownFound, Known
    <3>. QED  BY <2>3, <3>1, <3>2 DEF Found
  <2>. QED  BY <2>2, <2>5 DEF KnownFound, Found, Known
<1>. QED  BY <1>2, <1>3

LEMMA StartFinds ==
    ASSUME NEW from \in Path, NEW to \in Path, RenameStart(from, to)
    PROVE  KnownFound'
<1>1. /\ moving'.from = from /\ moving'.kind = Kind(from)
      /\ Kind(from) = "dir" => moving'.dirs = Once(from)
  BY DEF RenameStart
<1>2. Once(from)[from] > 0
  BY DEF Once, Nothing
<1>. QED  BY <1>1, <1>2 DEF KnownFound, Found

LEMMA StepFinds ==
    ASSUME PathsClosed, Apart, IInv, KnownFound, [Next]_vars
    PROVE  KnownFound' /\ EndsMoved
<1>1. EndsMoved
  <2>. SUFFICES ASSUME RenameEnd, moving.kind = "dir", NEW p \in Below[moving.from],
                       store[p] # None, Known(entries, p)
               PROVE  FALSE
    BY DEF EndsMoved
  <2>1. moving # Idle /\ moving.dirs = Nothing /\ moving.files = Nothing
    BY DEF RenameEnd
  <2>2. moving.from \in Dir /\ p \in Path
    BY <2>1, MoveFacts, DirFacts DEF IInv
  <2>3. Found(p)
    BY <2>1 DEF KnownFound
  <2>. QED  BY <2>1, <2>2, <2>3, OnceFacts DEF Found
<1>2. CASE moving' = Idle
  BY <1>1, <1>2 DEF KnownFound
<1>3. ASSUME NEW r \in Renames, RenameStart(r[1], r[2])
      PROVE  KnownFound'
  BY <1>3, RenamePair, StartFinds
<1>4. ASSUME NEW p \in Path, RenameList(p) \/ RenameCopy(p)
      PROVE  KnownFound'
  BY <1>4, ListFinds, CopyFinds
<1>5. CASE UNCHANGED vars
  BY <1>1, <1>5 DEF vars, bucket, cache, KnownFound, Found, Known
<1>6. ASSUME NEW p \in Path, Stat(p) \/ Read(p) \/ FlushPath(p)
      PROVE  moving' = Idle
  BY <1>6 DEF Stat, Read, FlushPath
<1>7. ASSUME NEW p \in Named, DeletePath(p) \/ \E d \in Data : WriteFile(p, d)
      PROVE  moving' = Idle
  BY <1>7 DEF DeletePath, WriteFile
<1>8. ASSUME NEW d \in Dir, ListDir(d)
      PROVE  moving' = Idle
  BY <1>8 DEF ListDir
<1>9. RenameEnd => moving' = Idle
  BY DEF RenameEnd
<1>. QED  BY <1>1, <1>2, <1>3, <1>4, <1>5, <1>6, <1>7, <1>8, <1>9, DeleteFinds DEF Next, Rename

(* A directory renamed to a name outside of it, in a rename that reports   *)
(* success: whatever the cache knows below the old name has been moved, at *)
(* any depth, though OpenDAL lists one level (engine.rs:363-402).          *)
THEOREM RenameMovesWhatItKnows == PathsClosed /\ Apart => (Spec => MovesWhatItKnows)
<1>. SUFFICES ASSUME PathsClosed, Apart
             PROVE  Spec => MovesWhatItKnows
  OBVIOUS
<1>1. Init => KnownFound
  BY DEF Init, KnownFound
<1>2. IInv /\ KnownFound /\ [Next]_vars => KnownFound' /\ EndsMoved
  BY StepFinds
<1>3. MovesWhatItKnows <=> [][EndsMoved]_vars
  BY PTL DEF MovesWhatItKnows, EndsMoved
<1>. QED  BY <1>1, <1>2, <1>3, Invariant, PTL DEF Spec
=============================================================================
